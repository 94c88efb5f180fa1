------------------------- MODULE CachingLoaderProofs -------------------------
(***************************************************************************)
(* Proofs about CachingLoader for any sets of callers, URLs and addresses. *)
(* The inductive invariant has three layers, each inductive relative to    *)
(* the ones before it: the types (Typing), who holds the lock              *)
(* (LockDiscipline), and what the cache has to do with the locals of the   *)
(* Loads in progress, with what was returned and with what was fetched     *)
(* (CacheMeaning).                                                         *)
(***************************************************************************)
EXTENDS CachingLoader, TLAPS

(* The types, and the facts that a Load in progress has a URL and that a   *)
(* caller about to store or to return from the write lock has a schema.    *)
Typing ==
  /\ TypeOK
  /\ \A c \in Callers : pc[c] # "idle" => key[c] \in Keys
  /\ \A c \in Callers : pc[c] = "idle" => key[c] = NoKey
  /\ \A c \in Callers :
       pc[c] \in {"lock", "acquire", "store", "unlock"} => held[c] \in Schemas

LockDiscipline ==
  /\ \A c \in Callers : c \in readers <=> pc[c] \in {"read", "runlock"}
  /\ \A c \in Callers :
       writer = c <=> pc[c] \in {"acquire", "store", "unlock"}
  /\ \A c \in Callers : pc[c] = "store" => readers = {}

LocalsMean ==
  \A c \in Callers :
    /\ (pc[c] = "runlock" /\ held[c] # NoSchema) => held[c] = cache[key[c]]
    /\ pc[c] = "unlock" => held[c] = cache[key[c]]

ReturnedIsCached ==
  \A k \in Keys : \A s \in returned[k] : s = cache[k]

FetchedIsKept ==
  \A c \in Callers, k \in Keys : <<c, k>> \in fetched =>
    \/ cache[k] # NoSchema
    \/ key[c] = k /\ pc[c] \in {"lock", "acquire", "store"}

NotFetchedYet ==
  \A c \in Callers :
    (pc[c] = "fetch" \/ (pc[c] = "runlock" /\ held[c] = NoSchema))
      => <<c, key[c]>> \notin fetched

CacheMeaning == /\ LocalsMean /\ ReturnedIsCached
                /\ FetchedIsKept /\ NotFetchedYet
-----------------------------------------------------------------------------
(* No step of any caller leaves the types.                                 *)
LEMMA TypingInductive == Typing /\ [Next]_vars => Typing'
<1> SUFFICES ASSUME Typing, [Next]_vars PROVE Typing'
  OBVIOUS
<1> USE ConstantsAreDistinct
    DEF Typing, TypeOK, Goto, locals, mutex, history, Steps
<1>1. ASSUME NEW c \in Callers, NEW k \in Keys, Call(c, k) PROVE Typing'
  BY <1>1 DEF Call
<1>2. ASSUME NEW c \in Callers, RLock(c) PROVE Typing'
  BY <1>2 DEF RLock
<1>3. ASSUME NEW c \in Callers, Read(c) PROVE Typing'
  BY <1>3 DEF Read
<1>4. ASSUME NEW c \in Callers, RUnlockHit(c) PROVE Typing'
  BY <1>4 DEF RUnlockHit, ReturnSchema
<1>5. ASSUME NEW c \in Callers, RUnlockMiss(c) PROVE Typing'
  BY <1>5 DEF RUnlockMiss
<1>6. ASSUME NEW c \in Callers, FetchOk(c) PROVE Typing'
  BY <1>6 DEF FetchOk
<1>7. ASSUME NEW c \in Callers, FetchErr(c) PROVE Typing'
  BY <1>7 DEF FetchErr, ReturnSchema
<1>8. ASSUME NEW c \in Callers, Lock(c) PROVE Typing'
  BY <1>8 DEF Lock
<1>9. ASSUME NEW c \in Callers, Acquire(c) PROVE Typing'
  BY <1>9 DEF Acquire
<1>10. ASSUME NEW c \in Callers, Store(c) PROVE Typing'
  BY <1>10 DEF Store, StoreIfAbsent
<1>11. ASSUME NEW c \in Callers, Unlock(c) PROVE Typing'
  BY <1>11 DEF Unlock, ReturnSchema
<1>12. CASE UNCHANGED vars
  BY <1>12 DEF vars
<1> QED
  BY <1>1, <1>2, <1>3, <1>4, <1>5, <1>6, <1>7, <1>8, <1>9, <1>10, <1>11,
     <1>12 DEF Next, Step

(* The initial state is well typed and no step leaves the types: the       *)
(* invariant the runs check on small instances, for every instance.        *)
THEOREM TypeCorrect == Spec => []TypeOK
<1>1. Init => Typing
  BY DEF Init, Typing, TypeOK, Steps
<1>2. Typing => TypeOK
  BY DEF Typing
<1> QED
  BY <1>1, <1>2, TypingInductive, PTL DEF Spec

(* Each step takes the lock, gives it up or leaves it alone as the program *)
(* counters say.                                                           *)
LEMMA LockInductive ==
  Typing /\ LockDiscipline /\ [Next]_vars => LockDiscipline'
<1> SUFFICES ASSUME Typing, LockDiscipline, [Next]_vars PROVE LockDiscipline'
  OBVIOUS
<1> USE ConstantsAreDistinct
    DEF Typing, TypeOK, LockDiscipline, Goto, locals, mutex
<1>1. ASSUME NEW c \in Callers, NEW k \in Keys, Call(c, k)
      PROVE LockDiscipline'
  BY <1>1 DEF Call
<1>2. ASSUME NEW c \in Callers, RLock(c) PROVE LockDiscipline'
  BY <1>2 DEF RLock
<1>3. ASSUME NEW c \in Callers, Read(c) PROVE LockDiscipline'
  BY <1>3 DEF Read
<1>4. ASSUME NEW c \in Callers, RUnlockHit(c) PROVE LockDiscipline'
  BY <1>4 DEF RUnlockHit, ReturnSchema
<1>5. ASSUME NEW c \in Callers, RUnlockMiss(c) PROVE LockDiscipline'
  BY <1>5 DEF RUnlockMiss
<1>6. ASSUME NEW c \in Callers, FetchOk(c) PROVE LockDiscipline'
  BY <1>6 DEF FetchOk
<1>7. ASSUME NEW c \in Callers, FetchErr(c) PROVE LockDiscipline'
  BY <1>7 DEF FetchErr, ReturnSchema
<1>8. ASSUME NEW c \in Callers, Lock(c) PROVE LockDiscipline'
  BY <1>8 DEF Lock
<1>9. ASSUME NEW c \in Callers, Acquire(c) PROVE LockDiscipline'
  BY <1>9 DEF Acquire
<1>10. ASSUME NEW c \in Callers, Store(c) PROVE LockDiscipline'
  BY <1>10 DEF Store
<1>11. ASSUME NEW c \in Callers, Unlock(c) PROVE LockDiscipline'
  BY <1>11 DEF Unlock, ReturnSchema
<1>12. CASE UNCHANGED vars
  BY <1>12 DEF vars
<1> QED
  BY <1>1, <1>2, <1>3, <1>4, <1>5, <1>6, <1>7, <1>8, <1>9, <1>10, <1>11,
     <1>12 DEF Next, Step

(* The lock keeps a writer of the map away from every other access to it.  *)
THEOREM MapIsNotRaced == Spec => []NoMapRace
<1>1. Init => Typing /\ LockDiscipline
  BY ConstantsAreDistinct DEF Init, Typing, TypeOK, Steps, LockDiscipline
<1>2. Typing /\ LockDiscipline => NoMapRace
  BY ConstantsAreDistinct DEF LockDiscipline, NoMapRace
<1> QED
  BY <1>1, <1>2, TypingInductive, LockInductive, PTL DEF Spec

(* What the locals, the answers and the fetches have to do with the cache  *)
(* stays true: only Store writes it, and only an absent entry.             *)
LEMMA CacheMeaningInductive ==
  Typing /\ CacheMeaning /\ [Next]_vars => CacheMeaning'
<1> SUFFICES ASSUME Typing, CacheMeaning, [Next]_vars PROVE CacheMeaning'
  OBVIOUS
<1> USE ConstantsAreDistinct
    DEF Typing, TypeOK, CacheMeaning, Goto, locals, mutex, history
<1>1. ASSUME NEW c \in Callers, NEW k \in Keys, Call(c, k)
      PROVE CacheMeaning'
  BY <1>1 DEF Call, LocalsMean, ReturnedIsCached, FetchedIsKept, NotFetchedYet
<1>2. ASSUME NEW c \in Callers, RLock(c) PROVE CacheMeaning'
  BY <1>2 DEF RLock, LocalsMean, ReturnedIsCached, FetchedIsKept, NotFetchedYet
<1>3. ASSUME NEW c \in Callers, Read(c) PROVE CacheMeaning'
  <2>1. LocalsMean' /\ ReturnedIsCached'
    BY <1>3 DEF Read, LocalsMean, ReturnedIsCached
  <2>2. FetchedIsKept'
    BY <1>3 DEF Read, FetchedIsKept
  <2>3. NotFetchedYet'
    BY <1>3 DEF Read, FetchedIsKept, NotFetchedYet
  <2> QED
    BY <2>1, <2>2, <2>3
<1>4. ASSUME NEW c \in Callers, RUnlockHit(c) PROVE CacheMeaning'
  <2> USE <1>4 DEF RUnlockHit, ReturnSchema
  <2>1. LocalsMean'
    BY DEF LocalsMean
  <2>2. ReturnedIsCached'
    BY DEF LocalsMean, ReturnedIsCached
  <2>3. FetchedIsKept' /\ NotFetchedYet'
    BY DEF FetchedIsKept, NotFetchedYet
  <2> QED
    BY <2>1, <2>2, <2>3
<1>5. ASSUME NEW c \in Callers, RUnlockMiss(c) PROVE CacheMeaning'
  BY <1>5 DEF RUnlockMiss, LocalsMean, ReturnedIsCached, FetchedIsKept,
              NotFetchedYet
<1>6. ASSUME NEW c \in Callers, FetchOk(c) PROVE CacheMeaning'
  <2> USE <1>6 DEF FetchOk
  <2>1. LocalsMean' /\ ReturnedIsCached'
    BY DEF LocalsMean, ReturnedIsCached
  <2>2. FetchedIsKept'
    BY DEF FetchedIsKept
  <2>3. NotFetchedYet'
    BY DEF NotFetchedYet
  <2> QED
    BY <2>1, <2>2, <2>3
<1>7. ASSUME NEW c \in Callers, FetchErr(c) PROVE CacheMeaning'
  BY <1>7 DEF FetchErr, ReturnSchema, LocalsMean, ReturnedIsCached,
              FetchedIsKept, NotFetchedYet
<1>8. ASSUME NEW c \in Callers, Lock(c) PROVE CacheMeaning'
  BY <1>8 DEF Lock, LocalsMean, ReturnedIsCached, FetchedIsKept, NotFetchedYet
<1>9. ASSUME NEW c \in Callers, Acquire(c) PROVE CacheMeaning'
  BY <1>9 DEF Acquire, LocalsMean, ReturnedIsCached, FetchedIsKept,
              NotFetchedYet
<1>10. ASSUME NEW c \in Callers, Store(c) PROVE CacheMeaning'
  <2> USE <1>10 DEF Store, StoreIfAbsent
  <2>1. /\ cache' \in [Keys -> Schemas \union {NoSchema}]
        /\ cache'[key[c]] \in Schemas
        /\ \A k \in Keys : cache[k] # NoSchema => cache'[k] = cache[k]
    OBVIOUS
  <2>2. LocalsMean'
    BY <2>1 DEF LocalsMean
  <2>3. ReturnedIsCached'
    BY <2>1 DEF ReturnedIsCached
  <2>4. FetchedIsKept' /\ NotFetchedYet'
    BY <2>1 DEF FetchedIsKept, NotFetchedYet
  <2> QED
    BY <2>2, <2>3, <2>4
<1>11. ASSUME NEW c \in Callers, Unlock(c) PROVE CacheMeaning'
  <2> USE <1>11 DEF Unlock, ReturnSchema
  <2>1. LocalsMean'
    BY DEF LocalsMean
  <2>2. ReturnedIsCached'
    BY DEF LocalsMean, ReturnedIsCached
  <2>3. FetchedIsKept' /\ NotFetchedYet'
    BY DEF FetchedIsKept, NotFetchedYet
  <2> QED
    BY <2>1, <2>2, <2>3
<1>12. CASE UNCHANGED vars
  BY <1>12 DEF vars, LocalsMean, ReturnedIsCached, FetchedIsKept,
               NotFetchedYet
<1> QED
  BY <1>1, <1>2, <1>3, <1>4, <1>5, <1>6, <1>7, <1>8, <1>9, <1>10, <1>11,
     <1>12 DEF Next, Step

LEMMA Invariance == Spec => [](Typing /\ CacheMeaning)
<1>1. Init => Typing /\ CacheMeaning
  BY DEF Init, Typing, TypeOK, Steps, CacheMeaning, LocalsMean,
         ReturnedIsCached, FetchedIsKept, NotFetchedYet
<1> QED
  BY <1>1, TypingInductive, CacheMeaningInductive, PTL DEF Spec

(* Two Loads of one URL never return different pointers.                   *)
THEOREM LoadsAreCanonical == Spec => []Canonical
<1>1. Typing /\ CacheMeaning => Canonical
  BY DEF CacheMeaning, ReturnedIsCached, Canonical
<1> QED
  BY <1>1, Invariance, PTL

(* A caller's successful fetch of a URL is its last.                       *)
THEOREM FetchesAreNotRepeated == Spec => []FetchedAtMostOnce
<1>1. Typing /\ CacheMeaning => FetchedAtMostOnce
  BY DEF CacheMeaning, NotFetchedYet, FetchedAtMostOnce
<1> QED
  BY <1>1, Invariance, PTL

(* Every step of the loader is a step of the promise, or changes nothing   *)
(* the promise speaks of.                                                  *)
THEOREM LoaderKeepsPromise == Spec => ImplementsLoadOnce
<1>1. Init => Promise!Init
  BY DEF Init, Promise!Init
<1>2. Typing /\ CacheMeaning /\ [Next]_vars => [Promise!Next]_(Promise!vars)
  <2> SUFFICES ASSUME Typing, CacheMeaning, [Next]_vars
               PROVE  [Promise!Next]_(Promise!vars)
    OBVIOUS
  <2> USE ConstantsAreDistinct DEF Typing, TypeOK, Goto, locals, mutex, history,
          Promise!Next, Promise!vars
  <2>1. ASSUME NEW c \in Callers, NEW k \in Keys, Call(c, k)
        PROVE Promise!Next
    <3>1. Promise!Call(c, k)
      BY <2>1 DEF Call, Promise!Call
    <3> QED
      BY <3>1
  <2>2. ASSUME NEW c \in Callers,
               RLock(c) \/ Read(c) \/ RUnlockMiss(c) \/ FetchOk(c)
                 \/ Lock(c) \/ Acquire(c)
        PROVE UNCHANGED Promise!vars
    BY <2>2 DEF RLock, Read, RUnlockMiss, FetchOk, Lock, Acquire
  <2>3. ASSUME NEW c \in Callers, RUnlockHit(c) PROVE Promise!Next
    <3>1. Promise!Return(c)
      BY <2>3 DEF RUnlockHit, ReturnSchema, CacheMeaning, LocalsMean,
                  Promise!Return
    <3> QED
      BY <3>1
  <2>4. ASSUME NEW c \in Callers, FetchErr(c) PROVE Promise!Next
    <3>1. Promise!Fail(c)
      BY <2>4 DEF FetchErr, ReturnSchema, Promise!Fail
    <3> QED
      BY <3>1
  <2>5. ASSUME NEW c \in Callers, Store(c)
        PROVE Promise!Next \/ UNCHANGED Promise!vars
    <3>1. CASE cache[key[c]] = NoSchema
      <4>1. Promise!Settle(c, held[c])
        BY <2>5, <3>1 DEF Store, StoreIfAbsent, Promise!Settle
      <4>2. held[c] \in Schemas
        BY <2>5 DEF Store
      <4> QED
        BY <4>1, <4>2
    <3>2. CASE cache[key[c]] # NoSchema
      BY <2>5, <3>2 DEF Store, StoreIfAbsent
    <3> QED
      BY <3>1, <3>2
  <2>6. ASSUME NEW c \in Callers, Unlock(c) PROVE Promise!Next
    <3>1. /\ key[c] \in Keys
          /\ held[c] \in Schemas
          /\ held[c] = cache[key[c]]
      BY <2>6 DEF Unlock, CacheMeaning, LocalsMean
    <3>2. Promise!Return(c)
      BY <2>6, <3>1 DEF Unlock, ReturnSchema, Promise!Return
    <3> QED
      BY <3>2
  <2>7. CASE UNCHANGED vars
    BY <2>7 DEF vars
  <2> QED
    BY <2>1, <2>2, <2>3, <2>4, <2>5, <2>6, <2>7 DEF Next, Step
<1> QED
  BY <1>1, <1>2, Invariance, PTL DEF Spec, ImplementsLoadOnce, Promise!Spec
-----------------------------------------------------------------------------
(* Ready(c): the next statement of caller c does not block.                *)
Ready(c) ==
  \/ pc[c] \in {"read", "runlock", "fetch", "store", "unlock"}
  \/ pc[c] \in {"rlock", "lock"} /\ writer = NoCaller
  \/ pc[c] = "acquire" /\ readers = {}

(* A Load that waits does so for a caller that is at work under the lock,  *)
(* and never for itself or for one that waits in its turn: readers do      *)
(* nothing under the lock that blocks, whoever claims it waits for them    *)
(* alone, and nobody holds it while the base loader is asked.              *)
WaitsForWork ==
  \A c \in Callers : pc[c] # "idle" =>
    \/ Ready(c)
    \/ \E d \in Callers \ {c} : (d \in readers \/ writer = d) /\ Ready(d)

LEMMA OnlyReadyStep == ASSUME NEW c \in Callers, Step(c) PROVE Ready(c)
BY DEF Step, RLock, Read, RUnlockHit, RUnlockMiss, FetchOk, FetchErr, Lock, Acquire,
       Store, Unlock, Ready

(* The loader does not deadlock, however many callers there are: the part  *)
(* of LoadReturns that is not about fairness.                              *)
THEOREM LoadsAreNotStuck == Spec => []WaitsForWork
<1>1. Init => Typing /\ LockDiscipline
  BY ConstantsAreDistinct DEF Init, Typing, TypeOK, Steps, LockDiscipline
<1>2. Typing /\ LockDiscipline => WaitsForWork
  <2> SUFFICES ASSUME Typing, LockDiscipline, NEW c \in Callers,
                      pc[c] # "idle", ~ Ready(c)
               PROVE  \E d \in Callers \ {c} :
                        (d \in readers \/ writer = d) /\ Ready(d)
    BY DEF WaitsForWork
  <2> USE ConstantsAreDistinct DEF Typing, TypeOK, LockDiscipline, Steps
  <2>1. ASSUME NEW r \in readers
        PROVE  r \in Callers \ {c} /\ Ready(r)
    BY <2>1 DEF Ready
  <2>2. CASE pc[c] = "acquire"
    <3>1. PICK r \in readers : TRUE
      BY <2>2 DEF Ready
    <3> QED
      BY <2>1, <3>1
  <2>3. CASE pc[c] \in {"rlock", "lock"}
    <3>1. /\ writer \in Callers \ {c}
          /\ pc[writer] \in {"acquire", "store", "unlock"}
      BY <2>3 DEF Ready
    <3>2. CASE Ready(writer)
      BY <3>1, <3>2
    <3>3. CASE readers # {}
      BY <2>1, <3>3
    <3> QED
      BY <3>1, <3>2, <3>3 DEF Ready
  <2> QED
    BY <2>2, <2>3 DEF Ready
<1> QED
  BY <1>1, <1>2, TypingInductive, LockInductive, PTL DEF Spec
=============================================================================
