----------------------------- MODULE PrintGroupsProofs -----------------------------
(***************************************************************************)
(* Proofs about Print, for any finite set of packages and any mapping of   *)
(* packages to files.  The heart of the invariant is a count: what was     *)
(* received and what is in the channel are as many as the goroutines that  *)
(* sent (Counted), so that receiving one result per package means that     *)
(* every package sent; and until the loop ends an error that was sent is   *)
(* still in the channel (ErrorsWait).  The same count shows that nobody is *)
(* stuck; that Print ends is proved as far as it is not about fairness.    *)
(***************************************************************************)
EXTENDS PrintGroups, FiniteSetTheorems, SequenceTheorems, TLAPS

Typing ==
  /\ TypeOK
  /\ \A g \in Groups : gpc[g] \in {"create", "print"} => dest[g] \in Files
  /\ \A g \in Groups : err[g] = "none" <=>
                         gpc[g] \in {"idle", "map", "create", "print"}
  /\ \A g \in Groups : gpc[g] = "idle" <=> g \notin spawned

Sent == {g \in Groups : gpc[g] = "sent"}

Lifecycle ==
  /\ main # "spawn" => spawned = Groups
  /\ main = "returned" => \A g \in Groups : gpc[g] \in Exited

Looping == main \in {"spawn", "collect"}

Counted == received + Len(errs) = Cardinality(Sent)
ErrorsWait ==
  Looping => \A g \in Sent : err[g] = "error" =>
               \E i \in 1..Len(errs) : errs[i] = "error"
ErrorsAreReal ==
  \A i \in 1..Len(errs) : errs[i] = "error" => \E g \in Groups : err[g] = "error"
ContextMeans ==
  /\ cancelled => aborted \/ main \in {"wait", "returned"}
  /\ Looping <=> result = "none"

Results == Counted /\ ErrorsWait /\ ErrorsAreReal /\ ContextMeans
             /\ ResultIsTruthful
-----------------------------------------------------------------------------
LEMMA GroupCount == Cardinality(Groups) \in Nat
BY FS_CardinalityType, GroupsFinite

LEMMA OverwriteType ==
  ASSUME NEW S, NEW q \in Seq(S), NEW g \in S, NEW n \in Nat
  PROVE  Overwrite(q, g, n) \in Seq(S)
<1> DEFINE m == IF n > Len(q) THEN n ELSE Len(q)
<1>1. Len(q) \in Nat /\ \A i \in 1..Len(q) : q[i] \in S
  BY LenProperties, ElementOfSeq
<1>2. m \in Nat
  BY <1>1
<1>3. Overwrite(q, g, n) \in [1..m -> S]
  BY <1>1 DEF Overwrite
<1> QED
  BY <1>2, <1>3, SeqDef

LEMMA TypingInductive == Typing /\ [Next]_vars => Typing'
<1> SUFFICES ASSUME Typing, [Next]_vars PROVE Typing'
  OBVIOUS
<1> USE MaxSizeOK, NoFileIsNoFile, GroupCount
    DEF Typing, TypeOK, rigid, mainVars, context, goroutines, Exited, Return
<1>1. ASSUME NEW g \in Groups, NoDirectory(g) \/ CreateFails(g) PROVE Typing'
  BY <1>1 DEF NoDirectory, CreateFails, Finish
<1>2. ASSUME NEW g \in Groups, MkdirAll(g) PROVE Typing'
  BY <1>2 DEF MkdirAll
<1>3. ASSUME NEW g \in Groups, Create(g) PROVE Typing'
  BY <1>3, EmptySeq DEF Create
<1>4. ASSUME NEW g \in Groups, NEW n \in 0..MaxSize, gpc[g] = "print"
      PROVE  [files EXCEPT ![dest[g]] = Overwrite(@, g, n)]
               \in [Files -> Seq(Groups \union {Old})]
  <2>1. dest[g] \in Files /\ n \in Nat
    BY <1>4
  <2>2. files[dest[g]] \in Seq(Groups \union {Old})
    BY <2>1
  <2>3. Overwrite(files[dest[g]], g, n) \in Seq(Groups \union {Old})
    BY <2>1, <2>2, OverwriteType
  <2> QED
    BY <2>1, <2>3
<1>5. ASSUME NEW g \in Groups, PrintOk(g) PROVE Typing'
  <2>1. files' \in [Files -> Seq(Groups \union {Old})]
    BY <1>4, <1>5 DEF PrintOk
  <2> QED
    BY <1>5, <2>1 DEF PrintOk, Finish
<1>6. ASSUME NEW g \in Groups, PrintFails(g) PROVE Typing'
  <2>1. files' \in [Files -> Seq(Groups \union {Old})]
    <3>1. PICK n \in 0..size[g] :
            files' = [files EXCEPT ![dest[g]] = Overwrite(@, g, n)]
      BY <1>6 DEF PrintFails
    <3>2. n \in 0..MaxSize /\ gpc[g] = "print"
      BY <1>6 DEF PrintFails
    <3> QED
      BY <1>4, <3>1, <3>2
  <2> QED
    BY <1>6, <2>1 DEF PrintFails, Finish
<1>7. ASSUME NEW g \in Groups, Send(g) PROVE Typing'
  <2>1. err[g] \in {"nil", "error"}
    BY <1>7 DEF Send
  <2> QED
    BY <1>7, <2>1, AppendProperties DEF Send
<1>8. ASSUME NEW g \in Groups, GiveUp(g) PROVE Typing'
  BY <1>8 DEF GiveUp
<1>9. ASSUME NEW g \in Groups, Spawn(g) PROVE Typing'
  BY <1>9 DEF Spawn
<1>10. CASE Receive
  <2>1. Tail(errs) \in Seq({"nil", "error"})
    BY <1>10, HeadTailProperties DEF Receive
  <2>2. received + 1 \in 0..Cardinality(Groups)
    BY <1>10 DEF Receive
  <2>3. main' \in {"collect", "cancel"} /\ result' \in {"none", "nil", "error", "ctx"}
    BY <1>10 DEF Receive
  <2> QED
    BY <1>10, <2>1, <2>2, <2>3 DEF Receive
<1>11. CASE AllSpawned \/ ContextDone \/ AllReceived \/ Cancel \/ Wait
              \/ CallerCancels
  BY <1>11 DEF AllSpawned, ContextDone, AllReceived, Cancel, Wait, CallerCancels
<1>12. CASE UNCHANGED vars
  BY <1>12 DEF vars
<1> QED
  BY <1>1, <1>2, <1>3, <1>5, <1>6, <1>7, <1>8, <1>9, <1>10, <1>11, <1>12
     DEF Next, Main, Goroutine

LEMMA TypingInit == Init => Typing
<1> SUFFICES ASSUME Init PROVE Typing
  OBVIOUS
<1>1. [i \in 1..(MaxSize + 1) |-> Old] \in Seq(Groups \union {Old})
  <2>1. MaxSize + 1 \in Nat
    BY MaxSizeOK
  <2>2. [i \in 1..(MaxSize + 1) |-> Old]
          \in [1..(MaxSize + 1) -> Groups \union {Old}]
    OBVIOUS
  <2> QED
    BY <2>1, <2>2, SeqDef
<1>2. files \in [Files -> Seq(Groups \union {Old})]
  BY <1>1 DEF Init
<1>3. received \in 0..Cardinality(Groups) /\ errs \in Seq({"nil", "error"})
  BY GroupCount, EmptySeq DEF Init
<1> QED
  BY <1>2, <1>3 DEF Init, Typing, TypeOK, Exited

(* The types are kept, whatever the number of packages.                    *)
THEOREM TypeCorrect == Spec => []TypeOK
<1>1. Typing /\ [Next \/ Stopped]_vars => Typing'
  BY TypingInductive DEF Stopped
<1>2. Typing => TypeOK
  BY DEF Typing
<1> QED
  BY <1>1, <1>2, TypingInit, PTL DEF Spec
-----------------------------------------------------------------------------
(* Every group is spawned before results are collected, and none is left   *)
(* running once Print has returned.                                        *)
LEMMA LifecycleInductive ==
  Typing /\ Lifecycle /\ [Next]_vars => Lifecycle'
<1> SUFFICES ASSUME Typing, Lifecycle, [Next]_vars PROVE Lifecycle'
  OBVIOUS
<1> USE DEF Typing, TypeOK, Lifecycle, rigid, mainVars, context, goroutines,
            Exited, Return
<1>1. ASSUME NEW g \in Groups, Goroutine(g) PROVE Lifecycle'
  <2>1. /\ UNCHANGED <<main, spawned>>
        /\ gpc[g] \in {"map", "create", "print", "send"}
        /\ \E step \in {"create", "print", "send", "sent", "gaveup"} :
             gpc' = [gpc EXCEPT ![g] = step]
    BY <1>1 DEF Goroutine, NoDirectory, MkdirAll, CreateFails, Create, PrintOk,
                PrintFails, Send, GiveUp, Finish
  <2> QED
    BY <2>1
<1>2. ASSUME NEW g \in Groups, Spawn(g) PROVE Lifecycle'
  BY <1>2 DEF Spawn
<1>3. CASE AllSpawned
  BY <1>3 DEF AllSpawned
<1>4. CASE Receive \/ ContextDone \/ AllReceived \/ Cancel \/ CallerCancels
  BY <1>4 DEF Receive, ContextDone, AllReceived, Cancel, CallerCancels
<1>5. CASE Wait
  BY <1>5 DEF Wait
<1>6. CASE UNCHANGED vars
  BY <1>6 DEF vars
<1> QED
  BY <1>1, <1>2, <1>3, <1>4, <1>5, <1>6 DEF Next, Main

(* No goroutine outlives the call of Print.                                *)
THEOREM GoroutinesAreJoined == Spec => []JoinedBeforeReturn
<1>1. Init => Typing /\ Lifecycle
  BY TypingInit DEF Init, Lifecycle
<1>2. Typing /\ Lifecycle /\ [Next \/ Stopped]_vars => Typing' /\ Lifecycle'
  BY TypingInductive, LifecycleInductive DEF Stopped
<1>3. Lifecycle => JoinedBeforeReturn
  BY DEF Lifecycle, JoinedBeforeReturn
<1> QED
  BY <1>1, <1>2, <1>3, PTL DEF Spec
-----------------------------------------------------------------------------
(* How the steps change the set of goroutines that have sent.              *)
LEMMA SentIsFinite == IsFiniteSet(Sent) /\ Cardinality(Sent) \in Nat
                        /\ Cardinality(Sent) <= Cardinality(Groups)
                        /\ (Cardinality(Sent) = Cardinality(Groups)
                              => Sent = Groups)
<1>1. Sent \in SUBSET Groups
  BY DEF Sent
<1> QED
  BY <1>1, FS_Subset, FS_CardinalityType, GroupsFinite

LEMMA Sending ==
  ASSUME Typing, NEW g \in Groups, Send(g)
  PROVE  /\ Cardinality(Sent') = Cardinality(Sent) + 1
         /\ Sent' = Sent \union {g}
<1>1. g \notin Sent
  BY DEF Sent, Send
<1>2. Sent' = Sent \union {g}
  BY DEF Sent, Send, Typing, TypeOK
<1> QED
  BY <1>1, <1>2, SentIsFinite, FS_AddElement

(* The steps that neither send nor receive.                                *)
Silent(g) == \/ NoDirectory(g) \/ MkdirAll(g) \/ CreateFails(g) \/ Create(g)
             \/ PrintOk(g) \/ PrintFails(g) \/ GiveUp(g) \/ Spawn(g)

LEMMA SilentKeepsResults ==
  ASSUME Typing, Results, NEW g \in Groups, Silent(g)
  PROVE  Results'
<1>1. /\ UNCHANGED <<main, received, result, cancelled, aborted, errs>>
      /\ g \notin Sent
      /\ \E step \in {"map", "create", "print", "send", "gaveup"} :
           gpc' = [gpc EXCEPT ![g] = step]
  <2> USE DEF Finish, rigid, mainVars, context, Sent
  <2>1. CASE NoDirectory(g) \/ CreateFails(g)
    BY <2>1 DEF NoDirectory, CreateFails
  <2>2. CASE MkdirAll(g) \/ Create(g)
    BY <2>2 DEF MkdirAll, Create
  <2>3. CASE PrintOk(g) \/ PrintFails(g)
    BY <2>3 DEF PrintOk, PrintFails
  <2>4. CASE GiveUp(g)
    BY <2>4 DEF GiveUp
  <2>5. CASE Spawn(g)
    <3>1. gpc[g] = "idle"
      BY <2>5 DEF Spawn, Typing
    <3> QED
      BY <2>5, <3>1 DEF Spawn
  <2> QED
    BY <2>1, <2>2, <2>3, <2>4, <2>5 DEF Silent
<1>2. \A h \in Groups : err[h] # "none" => err'[h] = err[h]
  BY DEF Silent, NoDirectory, MkdirAll, CreateFails, Create, PrintOk,
         PrintFails, GiveUp, Spawn, Finish, rigid, mainVars, context,
         goroutines, Typing, TypeOK
<1>3. Sent' = Sent
  BY <1>1 DEF Sent, Typing, TypeOK
<1>4. \A h \in Sent : err'[h] = err[h]
  BY <1>2 DEF Sent, Typing
<1>5. Counted' /\ ErrorsWait' /\ ContextMeans'
  BY <1>1, <1>3, <1>4
     DEF Results, Counted, ErrorsWait, ContextMeans, Looping
<1>6. ErrorsAreReal'
  BY <1>1, <1>2 DEF Results, ErrorsAreReal
<1>7. ResultIsTruthful'
  BY <1>1, <1>2 DEF Results, ResultIsTruthful
<1> QED
  BY <1>5, <1>6, <1>7 DEF Results

LEMMA SendKeepsResults ==
  ASSUME Typing, Results, NEW g \in Groups, Send(g)
  PROVE  Results'
<1>1. UNCHANGED <<main, received, result, cancelled, aborted, err>>
  BY DEF Send, rigid, mainVars, context
<1>2. /\ errs' = Append(errs, err[g])
      /\ errs \in Seq({"nil", "error"}) /\ err[g] \in {"nil", "error"}
  BY DEF Send, Typing, TypeOK
<1>3. /\ Len(errs) \in Nat /\ Len(errs') = Len(errs) + 1
      /\ \A i \in 1..Len(errs) : errs'[i] = errs[i]
      /\ errs'[Len(errs) + 1] = err[g]
  BY <1>2, AppendProperties, LenProperties
<1>4. Counted'
  BY <1>1, <1>3, Sending, SentIsFinite DEF Results, Counted, Typing, TypeOK
<1>5. ErrorsWait'
  <2> SUFFICES ASSUME Looping, NEW h \in Sent', err[h] = "error"
               PROVE  \E i \in 1..Len(errs') : errs'[i] = "error"
    BY <1>1 DEF ErrorsWait, Looping
  <2>1. CASE h = g
    BY <1>3, <2>1
  <2>2. CASE h # g
    BY <1>3, <2>2, Sending DEF Results, ErrorsWait
  <2> QED
    BY <2>1, <2>2
<1>6. ErrorsAreReal'
  BY <1>1, <1>3 DEF Results, ErrorsAreReal
<1>7. ContextMeans' /\ ResultIsTruthful'
  BY <1>1 DEF Results, ContextMeans, ResultIsTruthful, Looping
<1> QED
  BY <1>4, <1>5, <1>6, <1>7 DEF Results

LEMMA ReceiveKeepsResults ==
  ASSUME Typing, Results, Receive
  PROVE  Results'
<1>1. /\ UNCHANGED <<cancelled, aborted, gpc, err>>
      /\ received' = received + 1 /\ received \in Nat
      /\ main = "collect"
      /\ errs # <<>> /\ errs \in Seq({"nil", "error"}) /\ errs' = Tail(errs)
      /\ \/ Head(errs) = "nil" /\ UNCHANGED <<main, result>>
         \/ /\ Head(errs) # "nil"
            /\ main' = "cancel" /\ result' = "error"
  BY DEF Receive, Return, Typing, TypeOK, rigid, context
<1>2. /\ Len(errs) \in Nat /\ Len(errs) # 0 /\ Len(errs') = Len(errs) - 1
      /\ \A i \in 1..Len(errs') : errs'[i] = errs[i + 1]
      /\ Head(errs) = errs[1] /\ Head(errs) \in {"nil", "error"}
  BY <1>1, HeadTailProperties, LenProperties, EmptySeq
<1>3. Sent' = Sent
  BY <1>1 DEF Sent
<1>4. Counted'
  BY <1>1, <1>2, <1>3, SentIsFinite DEF Results, Counted
<1>5. ErrorsWait'
  <2> SUFFICES ASSUME Looping', NEW g \in Sent, err[g] = "error"
               PROVE  \E i \in 1..Len(errs') : errs'[i] = "error"
    BY <1>1, <1>3 DEF ErrorsWait
  <2>1. Head(errs) = "nil"
    BY <1>1 DEF Looping
  <2>2. PICK i \in 1..Len(errs) : errs[i] = "error"
    BY <1>1 DEF Results, ErrorsWait, Looping
  <2>3. i # 1
    BY <1>2, <2>1, <2>2
  <2>4. i - 1 \in 1..Len(errs') /\ errs'[i - 1] = errs[i]
    BY <1>2, <2>3
  <2> QED
    BY <2>2, <2>4
<1>6. ErrorsAreReal'
  BY <1>1, <1>2 DEF Results, ErrorsAreReal
<1>7. ContextMeans'
  BY <1>1 DEF Results, ContextMeans, Looping
<1>8. ResultIsTruthful'
  <2>1. CASE Head(errs) = "nil"
    BY <1>1, <2>1 DEF Results, ResultIsTruthful
  <2>2. CASE Head(errs) # "nil"
    BY <1>1, <1>2, <2>2 DEF Results, ResultIsTruthful, ErrorsAreReal
  <2> QED
    BY <2>1, <2>2
<1> QED
  BY <1>4, <1>5, <1>6, <1>7, <1>8 DEF Results

LEMMA ResultsInductive ==
  Typing /\ Results /\ [Next]_vars => Results'
<1> SUFFICES ASSUME Typing, Results, [Next]_vars PROVE Results'
  OBVIOUS
<1> USE DEF rigid, mainVars, context, goroutines
<1>1. ASSUME NEW g \in Groups, Goroutine(g) \/ Spawn(g) PROVE Results'
  BY <1>1, SilentKeepsResults, SendKeepsResults DEF Goroutine, Silent
<1>2. CASE Receive
  BY <1>2, ReceiveKeepsResults
<1>3. CASE AllSpawned \/ ContextDone \/ AllReceived \/ Cancel \/ Wait
             \/ CallerCancels \/ UNCHANGED vars
  <2>1. UNCHANGED <<received, errs, err, gpc>>
    BY <1>3 DEF AllSpawned, ContextDone, AllReceived, Cancel, Wait,
                CallerCancels, vars
  <2>2. Sent' = Sent
    BY <2>1 DEF Sent
  <2>3. Counted' /\ ErrorsAreReal'
    BY <2>1, <2>2 DEF Results, Counted, ErrorsAreReal
  <2>4. Looping' => Looping
    BY <1>3 DEF AllSpawned, ContextDone, AllReceived, Cancel, Wait,
                CallerCancels, vars, Looping, Return
  <2>5. ErrorsWait'
    BY <2>1, <2>2, <2>4 DEF Results, ErrorsWait
  <2>6. ContextMeans'
    BY <1>3 DEF AllSpawned, ContextDone, AllReceived, Cancel, Wait,
                CallerCancels, vars, Looping, Return, Results, ContextMeans
  <2>7. ResultIsTruthful'
    <3>1. CASE AllReceived
      <4>1. Len(errs) = 0 /\ Sent = Groups
        <5>1. received = Cardinality(Groups) /\ Len(errs) \in Nat
          BY <3>1, LenProperties DEF AllReceived, Typing, TypeOK
        <5> QED
          BY <5>1, GroupCount, SentIsFinite DEF Results, Counted
      <4>2. \A g \in Groups : err[g] # "error"
        BY <3>1, <4>1 DEF AllReceived, Results, ErrorsWait, Looping
      <4>3. \A g \in Groups : err[g] \in {"nil", "error"}
        BY <4>1 DEF Sent, Typing, TypeOK
      <4> QED
        BY <2>1, <3>1, <4>2, <4>3 DEF AllReceived, Return, ResultIsTruthful
    <3>2. CASE ContextDone
      <4>1. aborted
        BY <3>2 DEF ContextDone, Results, ContextMeans
      <4> QED
        BY <3>2, <4>1 DEF ContextDone, Return, ResultIsTruthful
    <3>3. CASE AllSpawned \/ Cancel \/ Wait \/ CallerCancels \/ UNCHANGED vars
      BY <3>3 DEF AllSpawned, Cancel, Wait, CallerCancels, vars, Results,
                  ResultIsTruthful
    <3> QED
      BY <1>3, <3>1, <3>2, <3>3
  <2> QED
    BY <2>3, <2>5, <2>6, <2>7 DEF Results
<1> QED
  BY <1>1, <1>2, <1>3 DEF Next, Main

LEMMA ResultsInit == Init => Results
<1> SUFFICES ASSUME Init PROVE Results
  OBVIOUS
<1>1. Sent = {} /\ Len(errs) = 0
  BY DEF Init, Sent
<1>2. Counted
  BY <1>1, FS_EmptySet DEF Init, Counted
<1> QED
  BY <1>1, <1>2 DEF Init, Results, ErrorsWait, ErrorsAreReal, ContextMeans,
                    Looping, ResultIsTruthful

LEMMA ResultsInvariant == Spec => [](Typing /\ Results)
<1>1. Typing /\ Results /\ [Next \/ Stopped]_vars => Typing' /\ Results'
  BY TypingInductive, ResultsInductive DEF Stopped
<1> QED
  BY <1>1, TypingInit, ResultsInit, PTL DEF Spec

(* What Print returns is what happened, however many goroutines there are  *)
(* and in whatever order they end.                                         *)
THEOREM ResultsAreTruthful == Spec => []ResultIsTruthful
<1>1. Results => ResultIsTruthful
  BY DEF Results
<1> QED
  BY <1>1, ResultsInvariant, PTL
-----------------------------------------------------------------------------
(* While a goroutine writes a file that is its package's alone, the file   *)
(* is empty; once it has succeeded the file holds the generated source.    *)
OwnFile ==
  \A g \in Groups : Alone(g) =>
    /\ gpc[g] = "print" => files[dest[g]] = <<>>
    /\ err[g] = "nil" => /\ dest[g] \in Files
                         /\ files[dest[g]] = [i \in 1..size[g] |-> g]

LEMMA OverwriteEmpty ==
  ASSUME NEW g, NEW n \in Nat \ {0}
  PROVE  Overwrite(<<>>, g, n) = [i \in 1..n |-> g]
<1>1. Len(<<>>) = 0
  BY EmptySeq
<1> QED
  BY <1>1 DEF Overwrite

LEMMA OwnFileInductive == Typing /\ OwnFile /\ [Next]_vars => OwnFile'
<1> SUFFICES ASSUME Typing, OwnFile, [Next]_vars PROVE OwnFile'
  OBVIOUS
<1> USE DEF Typing, TypeOK, rigid, mainVars, context, goroutines
<1>1. CASE Main \/ CallerCancels \/ UNCHANGED vars
  <2>1. UNCHANGED <<dest, size, files, err>>
        /\ \A g \in Groups : gpc'[g] = "print" => gpc[g] = "print"
    BY <1>1 DEF Main, Spawn, AllSpawned, Receive, ContextDone, AllReceived,
                Cancel, Wait, CallerCancels, vars
  <2> QED
    BY <2>1 DEF OwnFile, Alone
<1>2. ASSUME NEW h \in Groups, Goroutine(h) PROVE OwnFile'
  <2>1. UNCHANGED <<dest, size>>
    BY <1>2 DEF Goroutine, NoDirectory, MkdirAll, CreateFails, Create, PrintOk,
                PrintFails, Send, GiveUp
  <2>2. \A f \in Files : f # dest[h] => files'[f] = files[f]
    BY <1>2 DEF Goroutine, NoDirectory, MkdirAll, CreateFails, Create, PrintOk,
                PrintFails, Send, GiveUp
  <2>3. \A g \in Groups : g # h => gpc'[g] = gpc[g] /\ err'[g] = err[g]
    BY <1>2 DEF Goroutine, NoDirectory, MkdirAll, CreateFails, Create, PrintOk,
                PrintFails, Send, GiveUp, Finish
  <2>4. ASSUME NEW g \in Groups, g # h, Alone(g)
        PROVE  /\ gpc'[g] = "print" => files'[dest[g]] = <<>>
               /\ err'[g] = "nil" =>
                    /\ dest[g] \in Files
                    /\ files'[dest[g]] = [i \in 1..size[g] |-> g]
    BY <2>2, <2>3, <2>4 DEF OwnFile, Alone
  <2>5. ASSUME Alone(h)
        PROVE  /\ gpc'[h] = "print" => files'[dest[h]] = <<>>
               /\ err'[h] = "nil" =>
                    /\ dest[h] \in Files
                    /\ files'[dest[h]] = [i \in 1..size[h] |-> h]
    <3>1. CASE PrintOk(h)
      <4>1. dest[h] \in Files /\ files[dest[h]] = <<>>
        BY <2>5, <3>1 DEF PrintOk, OwnFile
      <4>2. size[h] \in Nat \ {0}
        BY MaxSizeOK
      <4>3. files'[dest[h]] = [i \in 1..size[h] |-> h]
        BY <3>1, <4>1, <4>2, OverwriteEmpty DEF PrintOk
      <4> QED
        BY <3>1, <4>1, <4>3 DEF PrintOk, Finish
    <3>2. CASE Create(h)
      BY <3>2 DEF Create
    <3>3. CASE NoDirectory(h) \/ CreateFails(h) \/ PrintFails(h)
      BY <3>3 DEF NoDirectory, CreateFails, PrintFails, Finish
    <3>4. CASE MkdirAll(h) \/ Send(h) \/ GiveUp(h)
      BY <2>5, <3>4 DEF MkdirAll, Send, GiveUp, OwnFile
    <3> QED
      BY <1>2, <3>1, <3>2, <3>3, <3>4 DEF Goroutine
  <2> QED
    BY <2>1, <2>4, <2>5 DEF OwnFile, Alone
<1> QED
  BY <1>1, <1>2 DEF Next

(* A nil result promises whole files, for any lengths of the sources and   *)
(* whatever an earlier run left behind.                                    *)
THEOREM FilesAreWhole == Spec => []WrittenWhole
<1>1. Init => OwnFile
  BY DEF Init, OwnFile
<1>2. Typing /\ OwnFile /\ [Next \/ Stopped]_vars => OwnFile'
  BY OwnFileInductive DEF Stopped
<1>3. Results /\ OwnFile => WrittenWhole
  BY DEF Results, ResultIsTruthful, OwnFile, WrittenWhole
<1> QED
  BY <1>1, <1>2, <1>3, ResultsInvariant, PTL DEF Spec
-----------------------------------------------------------------------------
(* What is still ahead: stages of every goroutine, stages of Print itself, *)
(* results that it may receive, and the caller's one cancellation.         *)
Stage == [idle |-> 0, map |-> 1, create |-> 2, print |-> 3, send |-> 4,
          sent |-> 5, gaveup |-> 5]
LastStage == 5
MainStage == [spawn |-> 0, collect |-> 1, cancel |-> 2, wait |-> 3, returned |-> 4]
GoroutinesAhead == {s \in Groups \X (1..LastStage) : Stage[gpc[s[1]]] < s[2]}
MainAhead == (MainStage[main] + 1)..4
ResultsAhead == (received + 1)..Cardinality(Groups)
CancelAhead == IF aborted THEN {} ELSE {"abort"}
Ahead == <<GoroutinesAhead, MainAhead, ResultsAhead, CancelAhead>>

(* A step takes something from one of these sets and adds to none.         *)
Shrinks == /\ \A i \in 1..4 : Ahead'[i] \subseteq Ahead[i]
           /\ \E i \in 1..4 : Ahead'[i] # Ahead[i]

LEMMA AheadIsFinite == ASSUME Typing PROVE \A i \in 1..4 : IsFiniteSet(Ahead[i])
<1>1. IsFiniteSet(GoroutinesAhead)
  <2>1. IsFiniteSet(1..LastStage)
    <3>1. LastStage \in Int
      BY DEF LastStage
    <3> QED
      BY <3>1, FS_Interval
  <2>2. IsFiniteSet(Groups \X (1..LastStage))
    BY <2>1, GroupsFinite, FS_Product
  <2> QED
    BY <2>2, FS_Subset DEF GoroutinesAhead
<1>2. IsFiniteSet(ResultsAhead)
  BY GroupCount, FS_Interval DEF ResultsAhead, Typing, TypeOK
<1>3. IsFiniteSet(MainAhead)
  <2>1. MainStage[main] \in Nat
    BY DEF MainStage, Typing, TypeOK
  <2> QED
    BY <2>1, FS_Interval DEF MainAhead
<1>4. IsFiniteSet(CancelAhead)
  BY FS_EmptySet, FS_Singleton DEF CancelAhead
<1> QED
  BY <1>1, <1>2, <1>3, <1>4 DEF Ahead

(* A goroutine goes from stage to stage, and never back.                   *)
LEMMA GoroutineShrinks ==
  ASSUME Typing, NEW g \in Groups, Goroutine(g) \/ Spawn(g)
  PROVE  Shrinks
<1>1. /\ UNCHANGED <<main, received, aborted>>
      /\ \E stage \in DOMAIN Stage :
           Stage[gpc[g]] < Stage[stage] /\ gpc' = [gpc EXCEPT ![g] = stage]
  <2> USE DEF Stage, mainVars, context, Finish
  <2>1. CASE NoDirectory(g) \/ MkdirAll(g)
    BY <2>1 DEF NoDirectory, MkdirAll
  <2>2. CASE CreateFails(g) \/ Create(g)
    BY <2>2 DEF CreateFails, Create
  <2>3. CASE PrintOk(g) \/ PrintFails(g)
    BY <2>3 DEF PrintOk, PrintFails
  <2>4. CASE Send(g) \/ GiveUp(g)
    BY <2>4 DEF Send, GiveUp
  <2>5. CASE Spawn(g)
    <3>1. gpc[g] = "idle"
      BY <2>5 DEF Spawn, Typing
    <3>2. gpc' = [gpc EXCEPT ![g] = "map"] /\ Stage[gpc[g]] < Stage["map"]
      BY <2>5, <3>1 DEF Spawn
    <3>3. UNCHANGED <<main, received, aborted>> /\ "map" \in DOMAIN Stage
      BY <2>5 DEF Spawn
    <3> HIDE DEF Stage
    <3> QED
      BY <3>2, <3>3
  <2> QED
    BY <2>1, <2>2, <2>3, <2>4, <2>5 DEF Goroutine
<1>2. PICK stage \in DOMAIN Stage :
        Stage[gpc[g]] < Stage[stage] /\ gpc' = [gpc EXCEPT ![g] = stage]
  BY <1>1
<1>3. /\ \A h \in Groups : gpc[h] \in DOMAIN Stage
      /\ \A s \in DOMAIN Stage : Stage[s] \in 0..LastStage
  BY DEF Stage, LastStage, Typing, TypeOK, Exited
<1>4. \A h \in Groups : gpc'[h] = IF h = g THEN stage ELSE gpc[h]
  BY <1>2 DEF Typing, TypeOK
<1>5. GoroutinesAhead' \subseteq GoroutinesAhead
  <2> SUFFICES ASSUME NEW s \in Groups \X (1..LastStage), Stage[gpc'[s[1]]] < s[2]
               PROVE  Stage[gpc[s[1]]] < s[2]
    BY DEF GoroutinesAhead
  <2>1. CASE s[1] = g
    BY <1>2, <1>3, <1>4, <2>1 DEF LastStage
  <2> QED
    BY <1>4, <2>1
<1>6. GoroutinesAhead' # GoroutinesAhead
  <2>1. <<g, Stage[stage]>> \in Groups \X (1..LastStage)
    BY <1>2, <1>3 DEF LastStage
  <2>2. ~ (Stage[stage] < Stage[stage])
    BY <1>3 DEF LastStage
  <2> QED
    BY <1>2, <1>4, <2>1, <2>2 DEF GoroutinesAhead
<1>7. UNCHANGED <<MainAhead, ResultsAhead, CancelAhead>>
  BY <1>1 DEF MainAhead, ResultsAhead, CancelAhead
<1> QED
  BY <1>5, <1>6, <1>7 DEF Shrinks, Ahead

(* Print goes from stage to stage too, but for receiving a result.         *)
LEMMA MainShrinks ==
  ASSUME Typing, Typing', AllSpawned \/ Receive \/ ContextDone \/ AllReceived
                            \/ Cancel \/ Wait \/ CallerCancels
  PROVE  Shrinks
<1> USE GroupCount DEF Typing, TypeOK, Return, rigid, mainVars, context, goroutines
<1>1. UNCHANGED gpc
  BY DEF AllSpawned, Receive, ContextDone, AllReceived, Cancel, Wait, CallerCancels
<1>2. UNCHANGED GoroutinesAhead
  BY <1>1 DEF GoroutinesAhead
<1>3. CASE Receive
  <2>1. ResultsAhead' \subseteq ResultsAhead /\ ResultsAhead' # ResultsAhead
    <3>1. received + 1 \in ResultsAhead /\ received + 1 \notin ResultsAhead'
      BY <1>3 DEF Receive, ResultsAhead
    <3> QED
      BY <1>3, <3>1 DEF Receive, ResultsAhead
  <2>2. MainAhead' \subseteq MainAhead
    BY <1>3 DEF Receive, MainAhead, MainStage
  <2>3. UNCHANGED CancelAhead
    BY <1>3 DEF Receive, CancelAhead
  <2> QED
    BY <1>2, <2>1, <2>2, <2>3 DEF Shrinks, Ahead
<1>4. CASE AllSpawned \/ ContextDone \/ AllReceived \/ Cancel \/ Wait
  <2>1. UNCHANGED <<received, aborted>>
    BY <1>4 DEF AllSpawned, ContextDone, AllReceived, Cancel, Wait
  <2>2. /\ MainStage[main] \in 0..4 /\ MainStage[main'] \in 0..4
        /\ MainStage[main] < MainStage[main']
    BY <1>4 DEF AllSpawned, ContextDone, AllReceived, Cancel, Wait, MainStage
  <2>3. /\ MainAhead' = (MainStage[main'] + 1)..4
        /\ MainStage[main'] \in MainAhead /\ MainStage[main'] \notin MainAhead'
    BY <2>2 DEF MainAhead
  <2>4. MainAhead' \subseteq MainAhead /\ MainAhead' # MainAhead
    BY <2>2, <2>3 DEF MainAhead
  <2>5. UNCHANGED <<ResultsAhead, CancelAhead>>
    BY <2>1 DEF ResultsAhead, CancelAhead
  <2> QED
    BY <1>2, <2>4, <2>5 DEF Shrinks, Ahead
<1>5. CASE CallerCancels
  <2>1. UNCHANGED <<MainAhead, ResultsAhead>>
    BY <1>5 DEF CallerCancels, MainAhead, ResultsAhead
  <2>2. CancelAhead = {"abort"} /\ CancelAhead' = {}
    BY <1>5 DEF CallerCancels, CancelAhead
  <2> QED
    BY <1>2, <2>1, <2>2 DEF Shrinks, Ahead
<1> QED
  BY <1>3, <1>4, <1>5

(* Print runs out: every step, its own, a goroutine's or the caller's,     *)
(* leaves less ahead, and what is ahead is finite.                         *)
THEOREM PrintRunsOut ==
  Spec => [][/\ \A i \in 1..4 : IsFiniteSet(Ahead[i])
             /\ Shrinks]_vars
<1>1. Typing /\ Typing' /\ [Next \/ Stopped]_vars
        => [(\A i \in 1..4 : IsFiniteSet(Ahead[i])) /\ Shrinks]_vars
  BY AheadIsFinite, GoroutineShrinks, MainShrinks DEF Next, Main, Stopped
<1> QED
  BY <1>1, ResultsInvariant, PTL DEF Spec

-----------------------------------------------------------------------------
(* The next statement of Print, or of a goroutine, does not block.         *)
MainReady == \/ main \in {"spawn", "cancel"}
             \/ /\ main = "collect"
                /\ cancelled \/ errs # <<>> \/ received = Cardinality(Groups)
             \/ main = "wait" /\ \A g \in spawned : gpc[g] \in Exited
GoroutineReady(g) == \/ gpc[g] \in {"map", "create", "print"}
                     \/ gpc[g] = "send" /\ (cancelled \/ Len(errs) < ErrsCapacity)

(* Until Print has returned it or a goroutine can go on, and a goroutine   *)
(* never waits to send: the channel has room for what it has, even when    *)
(* the loop has ended at the first error and nobody receives any more.     *)
NobodyIsStuck ==
  /\ main # "returned" => MainReady \/ \E g \in Groups : GoroutineReady(g)
  /\ \A g \in Groups : gpc[g] = "send" => Len(errs) < ErrsCapacity

(* Goroutines give up sending only once the context is done.               *)
GivenUp == (\E g \in Groups : gpc[g] = "gaveup") => cancelled

LEMMA GivenUpInductive == Typing /\ GivenUp /\ [Next]_vars => GivenUp'
<1> SUFFICES ASSUME Typing, GivenUp, [Next]_vars PROVE GivenUp'
  OBVIOUS
<1> USE DEF GivenUp, Typing, TypeOK, rigid, mainVars, context, goroutines, Finish
<1>1. ASSUME NEW g \in Groups, Goroutine(g) \/ Spawn(g) PROVE GivenUp'
  <2>1. UNCHANGED cancelled
    BY <1>1 DEF Goroutine, NoDirectory, MkdirAll, CreateFails, Create, PrintOk,
                PrintFails, Send, GiveUp, Spawn
  <2>2. cancelled \/ \E stage \in DOMAIN Stage \ {"gaveup"} : gpc' = [gpc EXCEPT ![g] = stage]
    BY <1>1 DEF Goroutine, NoDirectory, MkdirAll, CreateFails, Create, PrintOk,
                PrintFails, Send, GiveUp, Spawn, Stage
  <2> QED
    BY <2>1, <2>2
<1>2. CASE AllSpawned \/ Receive \/ ContextDone \/ AllReceived \/ Cancel \/ Wait
             \/ CallerCancels \/ UNCHANGED vars
  <2>1. UNCHANGED gpc /\ (cancelled => cancelled')
    BY <1>2 DEF AllSpawned, Receive, ContextDone, AllReceived, Cancel, Wait,
                CallerCancels, vars
  <2> QED
    BY <2>1
<1> QED
  BY <1>1, <1>2 DEF Next, Main

(* Print does not deadlock: by the count of results, whoever has not sent  *)
(* yet finds room, and Print waits only for those who have yet to send.    *)
THEOREM PrintIsNotStuck == Spec => []NobodyIsStuck
<1>1. Init => Typing /\ Results /\ Lifecycle /\ GivenUp
  BY TypingInit, ResultsInit DEF Init, Lifecycle, GivenUp
<1>2. Typing /\ Results /\ Lifecycle /\ GivenUp /\ [Next \/ Stopped]_vars
        => (Typing /\ Results /\ Lifecycle /\ GivenUp)'
  BY TypingInductive, ResultsInductive, LifecycleInductive, GivenUpInductive DEF Stopped
<1>3. ASSUME Typing, Results, Lifecycle, GivenUp PROVE NobodyIsStuck
  <2>1. /\ Len(errs) \in Nat /\ received \in Nat
        /\ received + Len(errs) = Cardinality(Sent)
        /\ errs = <<>> <=> Len(errs) = 0
    BY <1>3, LenProperties, EmptySeq DEF Typing, TypeOK, Results, Counted
  <2>2. ASSUME NEW g \in Groups, gpc[g] \notin Exited PROVE Len(errs) < ErrsCapacity
    <3>1. Sent # Groups
      BY <2>2 DEF Sent, Exited
    <3> QED
      BY <2>1, <3>1, SentIsFinite, GroupCount DEF ErrsCapacity
  <2>3. ASSUME NEW g \in Groups, gpc[g] \notin Exited, g \in spawned
        PROVE  GoroutineReady(g)
    BY <1>3, <2>2, <2>3 DEF GoroutineReady, Typing, TypeOK, Exited
  <2>4. CASE main = "collect"
    <3> SUFFICES ASSUME ~ MainReady PROVE \E g \in Groups : GoroutineReady(g)
      BY <2>2, <2>4 DEF NobodyIsStuck, Exited
    <3>1. Cardinality(Sent) = received /\ received # Cardinality(Groups)
      BY <2>1, <2>4 DEF MainReady
    <3>2. PICK g \in Groups : gpc[g] # "sent"
      BY <3>1 DEF Sent
    <3>3. gpc[g] # "gaveup" /\ g \in spawned
      BY <1>3, <2>4 DEF MainReady, GivenUp, Lifecycle
    <3> QED
      BY <2>3, <3>2, <3>3 DEF Exited
  <2>5. CASE main = "wait"
    BY <1>3, <2>2, <2>3, <2>5 DEF NobodyIsStuck, MainReady, Typing, TypeOK, Exited
  <2>6. CASE main \in {"spawn", "cancel", "returned"}
    BY <2>2, <2>6 DEF NobodyIsStuck, MainReady, Exited
  <2> QED
    BY <1>3, <2>4, <2>5, <2>6 DEF Typing, TypeOK
<1> QED
  BY <1>1, <1>2, <1>3, PTL DEF Spec
=============================================================================
