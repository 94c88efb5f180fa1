------------------------------ MODULE LoadOnce ------------------------------
(***************************************************************************)
(* What the caching loader promises its callers, with no lock, no cache    *)
(* and no interleaving of lookups: the answer for a URL is settled once,   *)
(* by a caller that is asking for it, and every successful Load of that    *)
(* URL answers with it; a Load may fail, and a failure settles nothing.    *)
(***************************************************************************)
CONSTANTS Callers,      \* goroutines that call Load
          Keys,         \* URLs, as the strings the cache is keyed by
          Schemas,      \* pointers to loaded schemas
          NoSchema,     \* the nil pointer
          LoadError,    \* a non-nil error
          NoKey         \* "is not in a call of Load"

VARIABLES settled,      \* settled[k]: the one schema of URL k, or NoSchema
          asking,       \* asking[c]: the URL caller c is loading, or NoKey
          answer        \* answer[c]: what the last Load of c returned

vars == <<settled, asking, answer>>

Init == /\ settled = [k \in Keys |-> NoSchema]
        /\ asking = [c \in Callers |-> NoKey]
        /\ answer = [c \in Callers |-> NoSchema]

Call(c, k) == /\ asking[c] = NoKey
              /\ asking' = [asking EXCEPT ![c] = k]
              /\ UNCHANGED <<settled, answer>>

Settle(c, s) == /\ asking[c] # NoKey
                /\ settled[asking[c]] = NoSchema
                /\ settled' = [settled EXCEPT ![asking[c]] = s]
                /\ UNCHANGED <<asking, answer>>

Return(c) == /\ asking[c] # NoKey
             /\ settled[asking[c]] # NoSchema
             /\ answer' = [answer EXCEPT ![c] = settled[asking[c]]]
             /\ asking' = [asking EXCEPT ![c] = NoKey]
             /\ UNCHANGED settled

Fail(c) == /\ asking[c] # NoKey
           /\ answer' = [answer EXCEPT ![c] = LoadError]
           /\ asking' = [asking EXCEPT ![c] = NoKey]
           /\ UNCHANGED settled

Next == \E c \in Callers : \/ \E k \in Keys : Call(c, k)
                           \/ \E s \in Schemas : Settle(c, s)
                           \/ Return(c)
                           \/ Fail(c)

Spec == Init /\ [][Next]_vars
=============================================================================
