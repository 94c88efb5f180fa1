-------------------------------- MODULE PrintGroups --------------------------------
(***************************************************************************)
(* internal/print/print.go: Print starts one goroutine per Go package,     *)
(* collects one result from each and returns the first error, having       *)
(* cancelled the context and waited for every goroutine (its two deferred  *)
(* calls, in that order).                                                  *)
(*                                                                         *)
(* A goroutine maps its package to a directory, creates the directory and  *)
(* truncates values.gen.go in it, has the printer write the file, and      *)
(* hands its result to a channel with room for one result per goroutine.   *)
(* Two packages may map to one file; each then writes from offset 0        *)
(* through a descriptor of its own.  A file is a sequence of cells, each   *)
(* marked with the package whose text it holds.                            *)
(***************************************************************************)
EXTENDS Naturals, Sequences, FiniteSets

CONSTANTS Groups,       \* keys of the map grouped: Go package paths
          Files,        \* values.gen.go files the mapper can lead to
          NoFile,       \* the mapper returns the empty path
          MaxSize,      \* bound on the length of a generated file
          Old           \* marks what an earlier run left in a file

ASSUME MaxSizeOK == MaxSize \in Nat \ {0}
ASSUME NoFileIsNoFile == NoFile \notin Files
ASSUME GroupsFinite == IsFiniteSet(Groups)
ASSUME OldIsNoGroup == Old \notin Groups

VARIABLES dest,         \* rigid: file the mapper leads group g to
          size,         \* rigid: length of the source generated for g
          main,         \* where Print is: "spawn", ..., "returned"
          spawned,      \* groups whose goroutine has been started
          received,     \* results taken from the channel
          result,       \* what Print is returning: "none" until it is known
          cancelled,    \* the context is done
          aborted,      \* history: the caller cancelled its own context
          gpc,          \* gpc[g]: where the goroutine of g is
          err,          \* err[g]: its err: "none" until known, "nil", "error"
          errs,         \* the buffered channel
          files         \* contents of the files

rigid == <<dest, size>>
mainVars == <<main, spawned, received, result>>
context == <<cancelled, aborted>>
goroutines == <<gpc, err, errs, files>>
vars == <<rigid, mainVars, context, goroutines>>

Init == /\ dest \in [Groups -> Files \union {NoFile}]
        /\ size \in [Groups -> 1..MaxSize]
        /\ main = "spawn" /\ spawned = {} /\ received = 0 /\ result = "none"
        /\ cancelled = FALSE /\ aborted = FALSE
        /\ gpc = [g \in Groups |-> "idle"]
        /\ err = [g \in Groups |-> "none"]
        /\ errs = <<>>
        /\ files = [f \in Files |-> [i \in 1..(MaxSize + 1) |-> Old]]
-----------------------------------------------------------------------------
(* The goroutine of one group.                                             *)
Finish(g, e) == /\ gpc' = [gpc EXCEPT ![g] = "send"]
                /\ err' = [err EXCEPT ![g] = e]

(* The path is empty, or the directory cannot be made.                     *)
NoDirectory(g) ==
  /\ gpc[g] = "map"
  /\ Finish(g, "error")
  /\ UNCHANGED <<rigid, mainVars, context, errs, files>>

MkdirAll(g) ==
  /\ gpc[g] = "map" /\ dest[g] # NoFile
  /\ gpc' = [gpc EXCEPT ![g] = "create"]
  /\ UNCHANGED <<rigid, mainVars, context, err, errs, files>>

(* A mutation of CreateFails: the goroutine returns before it sends.       *)
CreateFailsSilently(g) ==
  /\ gpc[g] = "create"
  /\ gpc' = [gpc EXCEPT ![g] = "gaveup"]
  /\ err' = [err EXCEPT ![g] = "error"]
  /\ UNCHANGED <<rigid, mainVars, context, errs, files>>

CreateFails(g) ==
  /\ gpc[g] = "create"
  /\ Finish(g, "error")
  /\ UNCHANGED <<rigid, mainVars, context, errs, files>>

(* A mutation of Create: the file is opened without being truncated.       *)
OpenWithoutTruncating(g) ==
  /\ gpc[g] = "create"
  /\ gpc' = [gpc EXCEPT ![g] = "print"]
  /\ UNCHANGED <<rigid, mainVars, context, err, errs, files>>

(* os.Create truncates a file that is there.                               *)
Create(g) ==
  /\ gpc[g] = "create"
  /\ files' = [files EXCEPT ![dest[g]] = <<>>]
  /\ gpc' = [gpc EXCEPT ![g] = "print"]
  /\ UNCHANGED <<rigid, mainVars, context, err, errs>>

(* A file after n cells of g are written over it from its start.           *)
Overwrite(cells, g, n) ==
  [i \in 1..(IF n > Len(cells) THEN n ELSE Len(cells)) |->
     IF i <= n THEN g ELSE cells[i]]

(* The printer succeeds: the formatted source is written in one call.      *)
PrintOk(g) ==
  /\ gpc[g] = "print"
  /\ files' = [files EXCEPT ![dest[g]] = Overwrite(@, g, size[g])]
  /\ Finish(g, "nil")
  /\ UNCHANGED <<rigid, mainVars, context, errs>>

(* It fails: before writing (template, format), after writing unformatted  *)
(* source (in debug mode), or in the middle of a write.                    *)
PrintFails(g) ==
  /\ gpc[g] = "print"
  /\ \E n \in 0..size[g] :
       files' = [files EXCEPT ![dest[g]] = Overwrite(@, g, n)]
  /\ Finish(g, "error")
  /\ UNCHANGED <<rigid, mainVars, context, errs>>

Exited == {"sent", "gaveup"}

ErrsCapacity == Cardinality(Groups)

(* A mutation of Send: a result is sent before it is known.                *)
SendEarly(g) ==
  /\ gpc[g] \in {"print", "send"}
  /\ Len(errs) < ErrsCapacity
  /\ errs' = Append(errs, err[g])
  /\ gpc' = [gpc EXCEPT ![g] = "sent"]
  /\ UNCHANGED <<rigid, mainVars, context, err, files>>

(* The two branches of the goroutine's select; then childRoutines.Done().  *)
Send(g) ==
  /\ gpc[g] = "send"
  /\ Len(errs) < ErrsCapacity
  /\ errs' = Append(errs, err[g])
  /\ gpc' = [gpc EXCEPT ![g] = "sent"]
  /\ UNCHANGED <<rigid, mainVars, context, err, files>>

GiveUp(g) ==
  /\ gpc[g] = "send" /\ cancelled
  /\ gpc' = [gpc EXCEPT ![g] = "gaveup"]
  /\ UNCHANGED <<rigid, mainVars, context, err, errs, files>>

Goroutine(g) == \/ NoDirectory(g) \/ MkdirAll(g)
                \/ CreateFails(g) \/ Create(g)
                \/ PrintOk(g) \/ PrintFails(g)
                \/ Send(g) \/ GiveUp(g)
-----------------------------------------------------------------------------
(* Print itself.  The map is ranged over in any order.                     *)
Spawn(g) ==
  /\ main = "spawn" /\ g \notin spawned
  /\ spawned' = spawned \union {g}
  /\ gpc' = [gpc EXCEPT ![g] = "map"]
  /\ UNCHANGED <<rigid, main, received, result, context, err, errs, files>>

AllSpawned ==
  /\ main = "spawn" /\ spawned = Groups
  /\ main' = "collect"
  /\ UNCHANGED <<rigid, spawned, received, result, context, goroutines>>

Return(r) == main' = "cancel" /\ result' = r

Receive ==
  /\ main = "collect" /\ received < Cardinality(Groups)
  /\ errs # <<>>
  /\ errs' = Tail(errs)
  /\ received' = received + 1
  /\ IF Head(errs) = "nil" THEN UNCHANGED <<main, result>>
                           ELSE Return("error")
  /\ UNCHANGED <<rigid, spawned, context, gpc, err, files>>

ContextDone ==
  /\ main = "collect" /\ received < Cardinality(Groups)
  /\ cancelled
  /\ Return("ctx")
  /\ UNCHANGED <<rigid, spawned, received, context, goroutines>>

(* A mutation of AllReceived: the loop runs one time too few.              *)
AllButOneReceived ==
  /\ main = "collect" /\ received + 1 = Cardinality(Groups)
  /\ Return("nil")
  /\ UNCHANGED <<rigid, spawned, received, context, goroutines>>

AllReceived ==
  /\ main = "collect" /\ received = Cardinality(Groups)
  /\ Return("nil")
  /\ UNCHANGED <<rigid, spawned, received, context, goroutines>>

(* defer cncl()                                                            *)
Cancel ==
  /\ main = "cancel"
  /\ main' = "wait"
  /\ cancelled' = TRUE
  /\ UNCHANGED <<rigid, spawned, received, result, aborted, goroutines>>

(* A mutation of Wait: nobody is waited for.                               *)
ReturnAtOnce ==
  /\ main = "wait"
  /\ main' = "returned"
  /\ UNCHANGED <<rigid, spawned, received, result, context, goroutines>>

(* defer childRoutines.Wait()                                              *)
Wait ==
  /\ main = "wait"
  /\ \A g \in spawned : gpc[g] \in Exited
  /\ main' = "returned"
  /\ UNCHANGED <<rigid, spawned, received, result, context, goroutines>>

Main == (\E g \in Groups : Spawn(g)) \/ AllSpawned
          \/ Receive \/ ContextDone \/ AllReceived \/ Cancel \/ Wait

(* The caller's context is cancelled, or its deadline passes.              *)
CallerCancels ==
  /\ ~ aborted /\ main # "returned"
  /\ aborted' = TRUE /\ cancelled' = TRUE
  /\ UNCHANGED <<rigid, mainVars, goroutines>>

Next == Main \/ CallerCancels \/ \E g \in Groups : Goroutine(g)

Stopped == main = "returned" /\ UNCHANGED vars

(* Goroutines are scheduled; nothing makes the caller cancel.              *)
Spec == Init /\ [][Next \/ Stopped]_vars
FairSpec == /\ Spec
            /\ WF_vars(Main)
            /\ \A g \in Groups : WF_vars(Goroutine(g))
-----------------------------------------------------------------------------
(* Every variable ranges over its type.                                    *)
TypeOK ==
  /\ dest \in [Groups -> Files \union {NoFile}]
  /\ size \in [Groups -> 1..MaxSize]
  /\ main \in {"spawn", "collect", "cancel", "wait", "returned"}
  /\ spawned \subseteq Groups
  /\ received \in 0..Cardinality(Groups)
  /\ result \in {"none", "nil", "error", "ctx"}
  /\ cancelled \in BOOLEAN /\ aborted \in BOOLEAN
  /\ gpc \in [Groups -> {"idle", "map", "create", "print", "send"} \union Exited]
  /\ err \in [Groups -> {"none", "nil", "error"}]
  /\ errs \in Seq({"nil", "error"})
  /\ files \in [Files -> Seq(Groups \union {Old})]

(* When Print has returned no goroutine of its is left to touch a file.    *)
JoinedBeforeReturn ==
  main = "returned" => \A g \in Groups : gpc[g] \in Exited

(* The result tells what happened, whatever the order in which goroutines  *)
(* end, errors are sent and contexts are cancelled: nil means that every   *)
(* package was printed; an error is that of a package that failed; and     *)
(* only the caller's cancellation makes Print return ctx.Err().  So a      *)
(* failure is never lost unless the caller gave up.                        *)
ResultIsTruthful ==
  /\ result = "nil" => \A g \in Groups : err[g] = "nil"
  /\ result = "error" => \E g \in Groups : err[g] = "error"
  /\ result = "ctx" => aborted

(* After a nil result, a file that is one package's alone holds its source *)
(* and nothing else: no rest of a longer file of an earlier run.           *)
Alone(g) == \A h \in Groups \ {g} : dest[h] # dest[g]
WrittenWhole ==
  (main = "returned" /\ result = "nil") =>
     \A g \in Groups : Alone(g) =>
       files[dest[g]] = [i \in 1..size[g] |-> g]

(* Print returns, with or without errors or cancellation: no goroutine     *)
(* stays blocked on the channel and none is waited for in vain.            *)
Returns == <>(main = "returned")
=============================================================================
