---------------------------- MODULE CachingLoader ----------------------------
(***************************************************************************)
(* internal/cachingloader/loader.go: the loader that Generate wraps around *)
(* the base loader.  NewSimple promises that it is thread safe, so any     *)
(* number of goroutines call it here; Generate itself calls it from one.   *)
(* Load looks the URL up under the read lock, asks the base loader with no *)
(* lock held, then stores the result under the write lock unless another   *)
(* caller stored one first, and returns what the cache holds.              *)
(*                                                                         *)
(* sync.RWMutex is modelled by its contract: a writer first claims the     *)
(* lock, which keeps new readers out, and enters once the readers that are *)
(* in have left.                                                           *)
(***************************************************************************)
EXTENDS FiniteSets

CONSTANTS Callers,      \* goroutines that call Load
          Keys,         \* URLs, as the strings the cache is keyed by
          Schemas,      \* addresses the base loader may allocate
          NoSchema, LoadError, NoKey, NoCaller

ASSUME ConstantsAreDistinct ==
  /\ NoSchema \notin Schemas /\ LoadError \notin Schemas
  /\ NoSchema # LoadError
  /\ NoKey \notin Keys /\ NoCaller \notin Callers

VARIABLES pc,           \* pc[c]: where caller c is in Load
          key,          \* key[c]: the k of its current Load, or NoKey
          held,         \* held[c]: its local v, then its local schema
          answer,       \* answer[c]: what its last Load returned
          cache,        \* l.cache; NoSchema where the map has no entry
          readers,      \* callers that hold l.mu for reading
          writer,       \* the caller that has claimed l.mu for writing
          allocated,    \* history: addresses the base loader has returned
          fetched,      \* history: pairs <<c, k>> the base loader answered
          returned      \* history: returned[k], the schemas Load has returned

locals == <<pc, key, held, answer>>
mutex == <<readers, writer>>
history == <<allocated, fetched, returned>>
vars == <<locals, mutex, cache, history>>

Steps == {"idle", "rlock", "read", "runlock", "fetch",
          "lock", "acquire", "store", "unlock"}

Init == /\ pc = [c \in Callers |-> "idle"]
        /\ key = [c \in Callers |-> NoKey]
        /\ held = [c \in Callers |-> NoSchema]
        /\ answer = [c \in Callers |-> NoSchema]
        /\ cache = [k \in Keys |-> NoSchema]
        /\ readers = {} /\ writer = NoCaller
        /\ allocated = {} /\ fetched = {}
        /\ returned = [k \in Keys |-> {}]

Goto(c, step) == pc' = [pc EXCEPT ![c] = step]

(* Return s from the Load of caller c.                                     *)
ReturnSchema(c, s) ==
  /\ Goto(c, "idle")
  /\ key' = [key EXCEPT ![c] = NoKey]
  /\ held' = [held EXCEPT ![c] = NoSchema]
  /\ answer' = [answer EXCEPT ![c] = s]

(* Load is called: k := u.String().                                        *)
Call(c, k) ==
  /\ pc[c] = "idle"
  /\ Goto(c, "rlock")
  /\ key' = [key EXCEPT ![c] = k]
  /\ UNCHANGED <<held, answer, mutex, cache, history>>

RLock(c) ==
  /\ pc[c] = "rlock"
  /\ writer = NoCaller
  /\ readers' = readers \union {c}
  /\ Goto(c, "read")
  /\ UNCHANGED <<key, held, answer, writer, cache, history>>

Read(c) ==
  /\ pc[c] = "read"
  /\ held' = [held EXCEPT ![c] = cache[key[c]]]
  /\ Goto(c, "runlock")
  /\ UNCHANGED <<key, answer, mutex, cache, history>>

(* The read lock is released; a hit is returned at once.                   *)
RUnlockHit(c) ==
  /\ pc[c] = "runlock"
  /\ held[c] # NoSchema
  /\ readers' = readers \ {c}
  /\ ReturnSchema(c, held[c])
  /\ returned' = [returned EXCEPT ![key[c]] = @ \union {held[c]}]
  /\ UNCHANGED <<writer, cache, allocated, fetched>>

(* A mutation of RUnlockMiss: a hit goes on to the base loader too.        *)
RUnlockAndFetch(c) ==
  /\ pc[c] = "runlock"
  /\ readers' = readers \ {c}
  /\ Goto(c, "fetch")
  /\ UNCHANGED <<key, held, answer, writer, cache, history>>

RUnlockMiss(c) ==
  /\ pc[c] = "runlock"
  /\ held[c] = NoSchema
  /\ readers' = readers \ {c}
  /\ Goto(c, "fetch")
  /\ UNCHANGED <<key, held, answer, writer, cache, history>>

(* The base loader answers with a schema it has just allocated.            *)
FetchOk(c) ==
  /\ pc[c] = "fetch"
  /\ \E s \in Schemas \ allocated :
       /\ held' = [held EXCEPT ![c] = s]
       /\ allocated' = allocated \union {s}
  /\ fetched' = fetched \union {<<c, key[c]>>}
  /\ Goto(c, "lock")
  /\ UNCHANGED <<key, answer, mutex, cache, returned>>

(* Two mutations of FetchErr: the failure is stored in the cache; and the  *)
(* load is tried again until it succeeds.                                  *)
FetchErrCached(c) ==
  /\ pc[c] = "fetch"
  /\ held' = [held EXCEPT ![c] = LoadError]
  /\ Goto(c, "lock")
  /\ UNCHANGED <<key, answer, mutex, cache, history>>

FetchErrRetried(c) ==
  /\ pc[c] = "fetch"
  /\ Goto(c, "rlock")
  /\ UNCHANGED <<key, held, answer, mutex, cache, history>>

(* The base loader fails: the error is returned and nothing is cached.     *)
FetchErr(c) ==
  /\ pc[c] = "fetch"
  /\ ReturnSchema(c, LoadError)
  /\ UNCHANGED <<mutex, cache, history>>

Lock(c) ==
  /\ pc[c] = "lock"
  /\ writer = NoCaller
  /\ writer' = c
  /\ Goto(c, "acquire")
  /\ UNCHANGED <<key, held, answer, readers, cache, history>>

(* A mutation of Acquire: the writer does not wait for the readers.        *)
AcquireEarly(c) ==
  /\ pc[c] = "acquire"
  /\ Goto(c, "store")
  /\ UNCHANGED <<key, held, answer, mutex, cache, history>>

Acquire(c) ==
  /\ pc[c] = "acquire"
  /\ readers = {}
  /\ Goto(c, "store")
  /\ UNCHANGED <<key, held, answer, mutex, cache, history>>

(* A mutation of StoreIfAbsent: the last store wins.                       *)
StoreAlways(k, s) == [cache EXCEPT ![k] = s]

(* l.cache[k] after the conditional store of s.                            *)
StoreIfAbsent(k, s) ==
  IF cache[k] = NoSchema THEN [cache EXCEPT ![k] = s] ELSE cache

(* Store unless present; the value to return is read before the deferred   *)
(* Unlock runs.                                                            *)
Store(c) ==
  /\ pc[c] = "store"
  /\ cache' = StoreIfAbsent(key[c], held[c])
  /\ held' = [held EXCEPT ![c] = cache'[key[c]]]
  /\ Goto(c, "unlock")
  /\ UNCHANGED <<key, answer, mutex, history>>

Unlock(c) ==
  /\ pc[c] = "unlock"
  /\ writer' = NoCaller
  /\ ReturnSchema(c, held[c])
  /\ returned' = [returned EXCEPT ![key[c]] = @ \union {held[c]}]
  /\ UNCHANGED <<readers, cache, allocated, fetched>>

(* Every step of Load after its call.                                      *)
Step(c) == \/ RLock(c) \/ Read(c) \/ RUnlockHit(c) \/ RUnlockMiss(c)
           \/ FetchOk(c) \/ FetchErr(c)
           \/ Lock(c) \/ Acquire(c) \/ Store(c) \/ Unlock(c)

Next == \E c \in Callers : \/ \E k \in Keys : Call(c, k)
                           \/ Step(c)

(* A goroutine that can run is eventually run, and the base loader answers *)
(* in the end; a caller need never call again.                             *)
Spec == Init /\ [][Next]_vars
FairSpec == Spec /\ \A c \in Callers : WF_vars(Step(c))
-----------------------------------------------------------------------------
(* Every variable ranges over its type.                                    *)
TypeOK ==
  /\ pc \in [Callers -> Steps]
  /\ key \in [Callers -> Keys \union {NoKey}]
  /\ held \in [Callers -> Schemas \union {NoSchema}]
  /\ answer \in [Callers -> Schemas \union {NoSchema, LoadError}]
  /\ cache \in [Keys -> Schemas \union {NoSchema}]
  /\ readers \subseteq Callers
  /\ writer \in Callers \union {NoCaller}
  /\ allocated \subseteq Schemas
  /\ fetched \subseteq Callers \X Keys
  /\ returned \in [Keys -> SUBSET Schemas]

(* Every Load of a URL, by whichever caller and however the lookups, the   *)
(* fetches and the stores interleave, returns one and the same pointer.    *)
Canonical ==
  \A k \in Keys : \A s, t \in returned[k] : s = t

(* No goroutine writes the map while another reads or writes it: the lock  *)
(* makes the loader "thread safe", as NewSimple's comment says.            *)
NoMapRace ==
  \A c, d \in Callers :
    (c # d /\ pc[c] = "store") => pc[d] \notin {"read", "store"}

(* A caller never has the base loader answer for a URL twice: whatever it  *)
(* fetched is in the cache by the time it asks again, even if another      *)
(* caller's copy is the one that was kept.                                 *)
FetchedAtMostOnce ==
  \A c \in Callers, k \in Keys :
    (key[c] = k /\ pc[c] = "fetch") => <<c, k>> \notin fetched

(* Every call of Load returns.  A writer waits for a finite number of      *)
(* readers and a reader for a finite number of writers, because only the   *)
(* loads that missed ever claim the lock.                                  *)
LoadReturns ==
  \A c \in Callers : pc[c] # "idle" ~> pc[c] = "idle"

(* The lock and the two lookups implement the promise of LoadOnce.         *)
Promise == INSTANCE LoadOnce WITH settled <- cache, asking <- key
ImplementsLoadOnce == Promise!Spec
=============================================================================
