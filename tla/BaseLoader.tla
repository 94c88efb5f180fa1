----------------------------- MODULE BaseLoader -----------------------------
(***************************************************************************)
(* One Load of gen.NewLoader's loader (pkg/gen/loader.go): a file or an    *)
(* HTTP resource is opened, decoded and closed, and every schema written   *)
(* out in it gets its ID and its source (pkg/gen/schema.go).               *)
(*                                                                         *)
(* A document is the set of the schemas in it, each named by the keys that *)
(* lead to it (references are not among them), and the IDs some of them    *)
(* state.  An ID is a URL and the fragment after it.  calculateID copies   *)
(* an ID by parsing it relative to itself, and what URL that makes of it   *)
(* is a constant: an absolute one stays the same, the path of a relative   *)
(* one is taken from its own directory and the root ("v/w" to "/v/v/w"),   *)
(* and dots are resolved.                                                  *)
(***************************************************************************)
EXTENDS Naturals, SequencesExt

CONSTANTS Documents,    \* records [nodes, stated]
          Urls,         \* of IDs
          Resolved,     \* what u.Parse(u.String()) makes of each
          Schemes,      \* of what is loaded: file, http, https and others
          NoId

(* What was resolved once stays the same.                                  *)
ASSUME ResolvedAssumption == /\ Resolved \in [Urls -> Urls]
                             /\ \A u \in Urls : Resolved[Resolved[u]] = Resolved[u]

VARIABLES pc, scheme, document,
          body,         \* the open file or response: "none", "open", "closed"
          ids, srcs,    \* the ID of each schema, and those with a source
          todo,         \* schemas calculateID, or setSrc, has yet to see
          cancelled     \* the caller's context
vars == <<pc, scheme, document, body, ids, srcs, todo, cancelled>>

Root == <<>>
Id == [url : Urls, fragment : Seq(STRING)]
IdOrNone == Id \union {NoId}

(* A schema is written out in one that is, and so on up to the root.       *)
ASSUME DocumentsAssumption ==
  /\ NoId \notin Id
  /\ \A d \in Documents :
       /\ d.nodes \subseteq Seq(Seq(STRING)) /\ Root \in d.nodes
       /\ \A n \in d.nodes : \A k \in 0..Len(n) : SubSeq(n, 1, k) \in d.nodes
       /\ d.stated \in [d.nodes -> IdOrNone]

Inline == document.nodes
Children(n) == {c \in Inline : Len(c) = Len(n) + 1 /\ SubSeq(c, 1, Len(n)) = n}
Returned == {"loaded", "failed"}

Init == /\ pc = "open" /\ scheme \in Schemes /\ document \in Documents
        /\ body = "none" /\ ids = [n \in Inline |-> NoId] /\ srcs = {}
        /\ todo = {} /\ cancelled = FALSE

OpenFile ==
  /\ pc = "open" /\ scheme = "file"
  /\ \/ body' = "open" /\ pc' = "decode"
     \/ UNCHANGED body /\ pc' = "failed"
  /\ UNCHANGED <<scheme, document, ids, srcs, todo, cancelled>>

Request ==
  /\ pc = "open" /\ scheme \in {"http", "https"}
  /\ pc' = "wait"
  /\ UNCHANGED <<scheme, document, body, ids, srcs, todo, cancelled>>

UnsupportedScheme ==
  /\ pc = "open" /\ scheme \notin {"file", "http", "https"}
  /\ pc' = "failed"
  /\ UNCHANGED <<scheme, document, body, ids, srcs, todo, cancelled>>

(* The server answers, or the connection fails: http.DefaultClient leaves  *)
(* it to them when.                                                        *)
ServerAnswers ==
  /\ pc = "wait"
  /\ \/ body' = "open" /\ pc' = "decode"
     \/ UNCHANGED body /\ pc' = "failed"
  /\ UNCHANGED <<scheme, document, ids, srcs, todo, cancelled>>

CancelledUnnoticed == FALSE      \* a mutation: a request without the context

CancelledWaiting ==
  /\ pc = "wait" /\ cancelled
  /\ pc' = "failed"
  /\ UNCHANGED <<scheme, document, body, ids, srcs, todo, cancelled>>

(* A mutation of DecodeFails: another try, with what is open left open.    *)
DecodeFailsRetried ==
  /\ pc = "decode"
  /\ pc' = "open"
  /\ UNCHANGED <<scheme, document, body, ids, srcs, todo, cancelled>>

(* What is there is no schema, whatever the response's status, or does not *)
(* come: the context is that of the body, too.                             *)
DecodeFails ==
  /\ pc = "decode"
  /\ body' = "closed" /\ pc' = "failed"
  /\ UNCHANGED <<scheme, document, ids, srcs, todo, cancelled>>

Decode ==
  /\ pc = "decode"
  /\ ids' = document.stated
  /\ pc' = "identify"
  /\ UNCHANGED <<scheme, document, body, srcs, todo, cancelled>>

(* A mutation of NoIdSet: a return before the close is deferred.           *)
NoIdSetUnclosed ==
  /\ pc = "identify" /\ ids[Root] = NoId
  /\ pc' = "failed"
  /\ UNCHANGED <<scheme, document, body, ids, srcs, todo, cancelled>>

NoIdSet ==
  /\ pc = "identify" /\ ids[Root] = NoId
  /\ body' = "closed" /\ pc' = "failed"
  /\ UNCHANGED <<scheme, document, ids, srcs, todo, cancelled>>

HasId ==
  /\ pc = "identify" /\ ids[Root] # NoId
  /\ todo' = {Root} /\ pc' = "calculate"
  /\ UNCHANGED <<scheme, document, body, ids, srcs, cancelled>>

(* calculateID, for one schema: those of its children that state no ID get *)
(* one, and it goes on to every child.                                     *)
Visited(n) == Children(n)
ChildId(n, c) ==
  [url |-> Resolved[ids[n].url], fragment |-> ids[n].fragment \o c[Len(c)]]
CalculateID(n) ==
  /\ pc = "calculate" /\ n \in todo
  /\ ids' = [c \in Inline |-> IF c \in Children(n) /\ ids[c] = NoId
                              THEN ChildId(n, c) ELSE ids[c]]
  /\ todo' = (todo \ {n}) \union Visited(n)
  /\ UNCHANGED <<pc, scheme, document, body, srcs, cancelled>>

CalculatedIDs ==
  /\ pc = "calculate" /\ todo = {}
  /\ todo' = {Root} /\ pc' = "source"
  /\ UNCHANGED <<scheme, document, body, ids, srcs, cancelled>>

(* A mutation of Sourced: what states its own ID is not descended into.    *)
SourcedUnstated(n) == {c \in Children(n) : document.stated[c] = NoId}

(* setSrc, for one schema: it gets the source, and so does every child.    *)
Sourced(n) == Children(n)
SetSrc(n) ==
  /\ pc = "source" /\ n \in todo
  /\ srcs' = srcs \union {n}
  /\ todo' = (todo \ {n}) \union Sourced(n)
  /\ UNCHANGED <<pc, scheme, document, body, ids, cancelled>>

Loaded ==
  /\ pc = "source" /\ todo = {}
  /\ body' = "closed" /\ pc' = "loaded"
  /\ UNCHANGED <<scheme, document, ids, srcs, todo, cancelled>>

(* The caller's side.                                                      *)
Cancel ==
  /\ ~cancelled /\ pc \notin Returned
  /\ cancelled' = TRUE
  /\ UNCHANGED <<pc, scheme, document, body, ids, srcs, todo>>

Stopped == pc \in Returned /\ UNCHANGED vars

Load == \/ OpenFile \/ Request \/ UnsupportedScheme \/ CancelledWaiting
        \/ scheme = "file" /\ (Decode \/ DecodeFails)
        \/ cancelled /\ DecodeFails
        \/ NoIdSet \/ HasId
        \/ \E n \in todo : CalculateID(n) \/ SetSrc(n)
        \/ CalculatedIDs \/ Loaded

Server == \/ ServerAnswers
          \/ scheme # "file" /\ (Decode \/ DecodeFails)

Next == Load \/ Server \/ Cancel

(* The loader goes on as long as it can.  A server need not answer, nor    *)
(* send all of its answer.                                                 *)
Spec == Init /\ [][Next \/ Stopped]_vars /\ WF_vars(Load)
-----------------------------------------------------------------------------
TypeOK ==
  /\ pc \in {"open", "wait", "decode", "identify", "calculate", "source"} \union Returned
  /\ body \in {"none", "open", "closed"} /\ srcs \subseteq Inline
  /\ ids \in [Inline -> IdOrNone] /\ todo \subseteq Inline
  /\ pc \in {"open", "wait"} => body = "none"

(* Of a loaded schema, and of every schema written out in it, "ID ... never*)
(* nil" and "Src ... never nil": Crawl reads the one and Resolve the other *)
(* without a look.  The ID is the one stated, or leads there from the      *)
(* nearest schema around it that states one, as that resolves.             *)
Nearest(n) ==
  CHOOSE k \in 0..Len(n) :
    /\ document.stated[SubSeq(n, 1, k)] # NoId
    /\ \A j \in (k + 1)..Len(n) : document.stated[SubSeq(n, 1, j)] = NoId
IdFrom(n, k) ==
  LET stated == document.stated[SubSeq(n, 1, k)]
  IN  IF k = Len(n) THEN stated
      ELSE [url |-> Resolved[stated.url],
            fragment |-> stated.fragment \o FlattenSeq(SubSeq(n, k + 1, Len(n)))]
LoadedIsWhole ==
  pc = "loaded" => srcs = Inline /\ \A n \in Inline : ids[n] = IdFrom(n, Nearest(n))

(* A file or response that is opened is closed when Load returns.          *)
NothingLeftOpen == pc \in Returned => body # "open"

(* Load returns once the caller cancels it, whatever the server does.      *)
CancelledReturns == cancelled ~> pc \in Returned
=============================================================================
