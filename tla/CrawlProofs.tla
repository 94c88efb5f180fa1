----------------------------- MODULE CrawlProofs -----------------------------
(***************************************************************************)
(* Proofs about Crawl, for any set of schemas, assignment of IDs, list of  *)
(* planners and choice of dependencies.  Beyond the types, the inductive   *)
(* invariant says that the IDs of plans are marked and distinct            *)
(* (MarkedOnce), that whatever was named is marked or waiting, and marked  *)
(* means dealt with (Accounted), and that what waits has a reason to       *)
(* (WaitsWithReason).  That the crawl ends is proved as far as it is not   *)
(* about fairness: every step lowers a rank (StepsLower).                  *)
(***************************************************************************)
EXTENDS Crawl, FiniteSetTheorems, SequenceTheorems, WellFoundedInduction, TLAPS

Typing == /\ TypeOK
          /\ pc = "plan" => current \in Schemas
          /\ pc \in {"load", "pop", "done"} => deps = <<>>
          /\ pc = "done" => queue = <<>>

MarkedOnce ==
  /\ PlannedOnce
  /\ \A n \in DOMAIN plans : id[plans[n].schema] \in seen
  /\ pc = "plan" => /\ id[current] \in seen
                    /\ \A n \in DOMAIN plans :
                         id[plans[n].schema] # id[current]

Live == pc \in {"load", "pop", "plan", "done"}

Accounted ==
  Live => /\ Range(queue) \union Range(deps) \subseteq Reached
          /\ \A s \in Reached :
               id[s] \in seen \/ s \in Range(queue) \/ s \in Range(deps)
          /\ \A i \in seen : Passed(i) \/ (pc = "plan" /\ i = id[current])

HasReason(s) ==
  s \in roots \/ \E m \in DOMAIN plans : <<plans[m].schema, s>> \in named

WaitsWithReason ==
  Live => /\ \A s \in Range(queue) : HasReason(s)
          /\ pc = "plan" => HasReason(current)
          /\ \A s \in Range(deps) : <<current, s>> \in named
-----------------------------------------------------------------------------
(* What Append, Tail and concatenation do to the elements of a sequence.   *)
LEMMA RangeAppend ==
  ASSUME NEW S, NEW q \in Seq(S), NEW s \in S
  PROVE  /\ Append(q, s) \in Seq(S)
         /\ Range(Append(q, s)) = Range(q) \union {s}
<1>1. /\ Append(q, s) \in Seq(S)
      /\ DOMAIN Append(q, s) = 1..(Len(q) + 1)
      /\ \A i \in 1..Len(q) : Append(q, s)[i] = q[i]
      /\ Append(q, s)[Len(q) + 1] = s
      /\ DOMAIN q = 1..Len(q) /\ Len(q) \in Nat
  BY AppendProperties, LenProperties
<1> QED
  BY <1>1 DEF Range

LEMMA RangeTail ==
  ASSUME NEW S, NEW q \in Seq(S), q # <<>>
  PROVE  /\ Head(q) \in S /\ Tail(q) \in Seq(S)
         /\ Range(q) = {Head(q)} \union Range(Tail(q))
<1>1. /\ Head(q) \in S /\ Tail(q) \in Seq(S)
      /\ Len(Tail(q)) = Len(q) - 1
      /\ \A i \in 1..Len(Tail(q)) : Tail(q)[i] = q[i + 1]
  BY HeadTailProperties
<1>2. /\ DOMAIN q = 1..Len(q) /\ Len(q) \in Nat
      /\ DOMAIN Tail(q) = 1..Len(Tail(q))
  BY <1>1, LenProperties
<1>3. Len(q) # 0 /\ q[1] = Head(q)
  BY EmptySeq
<1>4. Range(q) \subseteq {Head(q)} \union Range(Tail(q))
  <2> SUFFICES ASSUME NEW i \in 1..Len(q), i # 1
               PROVE  q[i] \in Range(Tail(q))
    BY <1>2, <1>3 DEF Range
  <2>1. i - 1 \in 1..Len(Tail(q)) /\ Tail(q)[i - 1] = q[i]
    BY <1>1, <1>2
  <2> QED
    BY <2>1, <1>2 DEF Range
<1>5. {Head(q)} \union Range(Tail(q)) \subseteq Range(q)
  <2>1. Head(q) \in Range(q)
    BY <1>2, <1>3 DEF Range
  <2>2. ASSUME NEW i \in 1..Len(Tail(q)) PROVE Tail(q)[i] \in Range(q)
    BY <1>1, <1>2, <2>2 DEF Range
  <2> QED
    BY <2>1, <2>2, <1>2 DEF Range
<1> QED
  BY <1>1, <1>4, <1>5
-----------------------------------------------------------------------------
(* No step leaves the types.                                               *)
LEMMA TypingInductive == Typing /\ [Next]_vars => Typing'
<1> SUFFICES ASSUME Typing, [Next]_vars PROVE Typing'
  OBVIOUS
<1> USE NumPlannersOK, NumUrisOK, DepsAreSchemas, NoOneIsNoSchema
    DEF Typing, TypeOK, rigid, planning, Ended
<1>1. CASE LoadRoot
  BY <1>1, AppendProperties DEF LoadRoot
<1>2. CASE LoadFails
  BY <1>2 DEF LoadFails
<1>3. CASE AllLoaded
  BY <1>3 DEF AllLoaded
<1>4. CASE PopSeen
  BY <1>4, HeadTailProperties DEF PopSeen
<1>5. CASE PopExcluded
  BY <1>5, HeadTailProperties DEF PopExcluded
<1>6. CASE PopNew
  BY <1>6, HeadTailProperties DEF PopNew
<1>7. ASSUME NEW d \in Deps, NameDeps(d), current \in Schemas
      PROVE  deps' \in Seq(Schemas) /\ named' \subseteq Schemas \X Schemas
  <2>1. Range(d) \subseteq Schemas
    BY RangeOfSeq
  <2> QED
    BY <1>7, <2>1, ConcatProperties DEF NameDeps
<1>8. CASE PlannerDeclines
  BY <1>7, <1>8 DEF PlannerDeclines
<1>9. CASE PlanningFails
  BY <1>7, <1>9 DEF PlanningFails
<1>10. CASE PlannerReturnsNil
  BY <1>7, <1>10 DEF PlannerReturnsNil
<1>11. CASE PlannerAccepts
  <2>1. PICK d \in Deps, p \in Paths :
          /\ queue' = queue \o (deps \o d)
          /\ named' = named \union {<<current, s>> : s \in Range(d)}
          /\ plans' = Append(plans, [schema |-> current, path |-> p])
    BY <1>11 DEF PlannerAccepts
  <2>2. queue' \in Seq(Schemas)
    BY <2>1, ConcatProperties
  <2>3. Range(d) \subseteq Schemas /\ current \in Schemas
    BY <1>11, RangeOfSeq DEF PlannerAccepts
  <2>4. plans' \in Seq(Plan)
    BY <2>1, <2>3, AppendProperties DEF Plan
  <2> QED
    BY <1>11, <2>1, <2>2, <2>3, <2>4 DEF PlannerAccepts
<1>12. CASE Finish
  BY <1>12 DEF Finish
<1>13. CASE UNCHANGED vars
  BY <1>13 DEF vars
<1> QED
  BY <1>1, <1>2, <1>3, <1>4, <1>5, <1>6, <1>8, <1>9, <1>10, <1>11, <1>12,
     <1>13 DEF Next

(* The types are kept for every number of URIs and of planners.            *)
THEOREM TypeCorrect == Spec => []TypeOK
<1>1. Init => Typing
  BY NumPlannersOK, NumUrisOK, NoOneIsNoSchema, EmptySeq
     DEF Init, Typing, TypeOK
<1>2. Typing /\ [Next \/ Stopped]_vars => Typing'
  BY TypingInductive DEF Stopped
<1>3. Typing => TypeOK
  BY DEF Typing
<1> QED
  BY <1>1, <1>2, <1>3, PTL DEF Spec
-----------------------------------------------------------------------------
(* What accepting a plan appends to the list of plans, and queues.         *)
LEMMA Accepting ==
  ASSUME Typing, PlannerAccepts
  PROVE  \E d \in Deps :
           /\ current \in Schemas
           /\ Range(queue') = Range(queue) \union Range(deps) \union Range(d)
           /\ named' = named \union {<<current, s>> : s \in Range(d)}
           /\ DOMAIN plans = 1..Len(plans) /\ Len(plans) \in Nat
           /\ DOMAIN plans' = 1..(Len(plans) + 1)
           /\ \A n \in DOMAIN plans : plans'[n] = plans[n]
           /\ plans'[Len(plans) + 1].schema = current
<1>1. PICK d \in Deps, p \in Paths :
        /\ queue' = queue \o (deps \o d)
        /\ named' = named \union {<<current, s>> : s \in Range(d)}
        /\ plans' = Append(plans, [schema |-> current, path |-> p])
  BY DEF PlannerAccepts
<1>2. current \in Schemas /\ d \in Seq(Schemas) /\ plans \in Seq(Plan)
  BY DepsAreSchemas DEF Typing, TypeOK, PlannerAccepts
<1>3. Range(queue') = Range(queue) \union Range(deps) \union Range(d)
  <2>1. queue \in Seq(Schemas) /\ deps \in Seq(Schemas)
    BY DEF Typing, TypeOK
  <2>2. /\ deps \o d \in Seq(Schemas)
        /\ Range(deps \o d) = Range(deps) \union Range(d)
    BY <1>2, <2>1, ConcatProperties, RangeConcatenation
  <2>3. \A t \in Seq(Schemas) :
          Range(queue \o t) = Range(queue) \union Range(t)
    BY <2>1, RangeConcatenation
  <2> QED
    BY <1>1, <2>2, <2>3
<1>4. [schema |-> current, path |-> p] \in Plan
  BY <1>2 DEF Plan
<1>5. plans' \in Seq(Plan)
  BY <1>1, <1>2, <1>4, AppendProperties
<1>6. /\ Len(plans') = Len(plans) + 1
      /\ \A n \in 1..Len(plans) : plans'[n] = plans[n]
      /\ plans'[Len(plans) + 1] = [schema |-> current, path |-> p]
  BY <1>1, <1>2, <1>4, AppendProperties
<1>7. DOMAIN plans = 1..Len(plans) /\ Len(plans) \in Nat
  BY <1>2, LenProperties
<1>8. DOMAIN plans' = 1..(Len(plans) + 1)
  BY <1>5, <1>6, LenProperties
<1> QED
  BY <1>1, <1>2, <1>3, <1>6, <1>7, <1>8

(* The steps that leave plans, IDs and marks alone.                        *)
Quiet == LoadRoot \/ LoadFails \/ AllLoaded \/ PopSeen \/ PlannerDeclines
           \/ PlanningFails \/ PlannerReturnsNil \/ Finish \/ UNCHANGED vars

LEMMA MarkedOnceInductive ==
  Typing /\ MarkedOnce /\ [Next]_vars => MarkedOnce'
<1> SUFFICES ASSUME Typing, MarkedOnce, [Next]_vars PROVE MarkedOnce'
  OBVIOUS
<1> USE DEF MarkedOnce, PlannedOnce
<1>1. CASE Quiet
  <2>1. /\ UNCHANGED <<id, plans, seen>>
        /\ pc' = "plan" => pc = "plan" /\ current' = current
    BY <1>1 DEF Quiet, LoadRoot, LoadFails, AllLoaded, PopSeen,
                PlannerDeclines, PlanningFails, PlannerReturnsNil, Finish,
                vars, rigid, planning
  <2> QED
    BY <2>1
<1>2. CASE PopExcluded
  BY <1>2 DEF PopExcluded, rigid, planning
<1>3. CASE PopNew
  BY <1>3 DEF PopNew, rigid
<1>4. CASE PlannerAccepts
  <2>1. PICK d \in Deps :
          /\ DOMAIN plans = 1..Len(plans) /\ Len(plans) \in Nat
          /\ DOMAIN plans' = 1..(Len(plans) + 1)
          /\ \A n \in DOMAIN plans : plans'[n] = plans[n]
          /\ plans'[Len(plans) + 1].schema = current
    BY <1>4, Accepting
  <2>2. UNCHANGED <<id, seen>> /\ pc = "plan" /\ pc' = "pop"
    BY <1>4 DEF PlannerAccepts, rigid
  <2>3. \A n \in DOMAIN plans' : n \in DOMAIN plans \/ n = Len(plans) + 1
    BY <2>1
  <2> QED
    BY <2>1, <2>2, <2>3
<1> QED
  BY <1>1, <1>2, <1>3, <1>4 DEF Next, Quiet

(* Two plans never have one ID.                                            *)
THEOREM IdsArePlannedOnce == Spec => []PlannedOnce
<1>1. Init => Typing /\ MarkedOnce
  BY NumPlannersOK, NumUrisOK, NoOneIsNoSchema, EmptySeq
     DEF Init, Typing, TypeOK, MarkedOnce, PlannedOnce
<1>2. Typing /\ MarkedOnce /\ [Next \/ Stopped]_vars
        => Typing' /\ MarkedOnce'
  BY TypingInductive, MarkedOnceInductive DEF Stopped
<1>3. MarkedOnce => PlannedOnce
  BY DEF MarkedOnce
<1> QED
  BY <1>1, <1>2, <1>3, PTL DEF Spec
-----------------------------------------------------------------------------
(* Naming the schemas of X adds X to what the crawl has reached.           *)
LEMMA ReachedGrows ==
  ASSUME NEW X, UNCHANGED roots,
         named' = named \union {<<current, s>> : s \in X}
  PROVE  Reached' = Reached \union X
<1>1. ASSUME NEW s \in X PROVE s \in Reached'
  <2>1. <<current, s>> \in named' /\ <<current, s>>[2] = s
    OBVIOUS
  <2> QED
    BY <2>1 DEF Reached
<1>2. Reached \subseteq Reached'
  BY DEF Reached
<1>3. Reached' \subseteq Reached \union X
  BY DEF Reached
<1> QED
  BY <1>1, <1>2, <1>3

(* Declining planners only add to the helper's dependencies.               *)
LEMMA Naming ==
  ASSUME Typing, NEW d \in Deps, NameDeps(d)
  PROVE  /\ Range(deps') = Range(deps) \union Range(d)
         /\ named' = named \union {<<current, s>> : s \in Range(d)}
<1>1. d \in Seq(Schemas) /\ deps \in Seq(Schemas)
  BY DepsAreSchemas DEF Typing, TypeOK
<1> QED
  BY <1>1, RangeConcatenation DEF NameDeps

LEMMA AccountedInductive ==
  Typing /\ Accounted /\ [Next]_vars => Accounted'
<1> SUFFICES ASSUME Typing, Accounted, [Next]_vars PROVE Accounted'
  OBVIOUS
<1> USE DEF Accounted, Live
<1>1. CASE LoadRoot
  <2>1. PICK s \in Schemas : /\ queue' = Append(queue, s)
                             /\ roots' = roots \union {s}
    BY <1>1 DEF LoadRoot
  <2>2. Range(queue') = Range(queue) \union {s}
    BY <2>1, RangeAppend DEF Typing, TypeOK
  <2>3. UNCHANGED <<id, excluded, pc, seen, current, deps, plans, named>>
        /\ pc = "load"
    BY <1>1 DEF LoadRoot, rigid, planning
  <2> QED
    BY <2>1, <2>2, <2>3 DEF Reached, Passed
<1>2. CASE LoadFails \/ PlanningFails \/ PlannerReturnsNil
  BY <1>2 DEF LoadFails, PlanningFails, PlannerReturnsNil
<1>3. CASE AllLoaded
  BY <1>3 DEF AllLoaded, rigid, planning, Reached, Passed
<1>4. CASE PopSeen
  <2>1. Range(queue) = {Head(queue)} \union Range(queue')
    BY <1>4, RangeTail DEF PopSeen, Typing, TypeOK
  <2> QED
    BY <1>4, <2>1 DEF PopSeen, rigid, planning, Reached, Passed
<1>5. CASE PopExcluded
  <2>1. Range(queue) = {Head(queue)} \union Range(queue')
    BY <1>5, RangeTail DEF PopExcluded, Typing, TypeOK
  <2>2. Passed(id[Head(queue)])
    BY <1>5, <2>1 DEF PopExcluded, Passed
  <2> QED
    BY <1>5, <2>1, <2>2 DEF PopExcluded, rigid, planning, Reached, Passed
<1>6. CASE PopNew
  <2>1. Range(queue) = {Head(queue)} \union Range(queue')
    BY <1>6, RangeTail DEF PopNew, Typing, TypeOK
  <2>2. Range(deps) = {} /\ Range(deps') = {}
    BY <1>6 DEF PopNew, Typing, Range
  <2> QED
    BY <1>6, <2>1, <2>2 DEF PopNew, rigid, Reached, Passed
<1>7. CASE PlannerDeclines
  <2>1. PICK d \in Deps : NameDeps(d)
    BY <1>7 DEF PlannerDeclines
  <2>2. /\ Range(deps') = Range(deps) \union Range(d)
        /\ named' = named \union {<<current, s>> : s \in Range(d)}
    BY <2>1, Naming
  <2>3. UNCHANGED <<id, excluded, pc, queue, seen, current, plans, roots>>
    BY <1>7 DEF PlannerDeclines, rigid
  <2>4. Reached' = Reached \union Range(d)
    BY <2>2, <2>3, ReachedGrows
  <2> QED
    BY <2>2, <2>3, <2>4 DEF Passed
<1>8. CASE PlannerAccepts
  <2>1. PICK d \in Deps :
          /\ Range(queue') = Range(queue) \union Range(deps) \union Range(d)
          /\ named' = named \union {<<current, s>> : s \in Range(d)}
          /\ DOMAIN plans = 1..Len(plans) /\ Len(plans) \in Nat
          /\ DOMAIN plans' = 1..(Len(plans) + 1)
          /\ \A n \in DOMAIN plans : plans'[n] = plans[n]
          /\ plans'[Len(plans) + 1].schema = current
    BY <1>8, Accepting
  <2>2. /\ UNCHANGED <<id, excluded, seen, roots>>
        /\ pc = "plan" /\ pc' = "pop"
    BY <1>8 DEF PlannerAccepts, rigid
  <2>3. Reached' = Reached \union Range(d)
    BY <2>1, <2>2, ReachedGrows
  <2>4. ASSUME NEW i, i = id[current] PROVE Passed(i)'
    <3>1. /\ Len(plans) + 1 \in DOMAIN plans'
          /\ id'[plans'[Len(plans) + 1].schema] = i
      BY <2>1, <2>2, <2>4
    <3> QED
      BY <3>1 DEF Passed
  <2>5. ASSUME NEW i, Passed(i) PROVE Passed(i)'
    <3>1. CASE \E n \in DOMAIN plans : id[plans[n].schema] = i
      <4>1. PICK n \in DOMAIN plans : id[plans[n].schema] = i
        BY <3>1
      <4>2. n \in DOMAIN plans' /\ id'[plans'[n].schema] = i
        BY <2>1, <2>2, <4>1
      <4> QED
        BY <4>2 DEF Passed
    <3>2. CASE \E s \in excluded \intersect Reached : id[s] = i
      BY <2>2, <2>3, <3>2 DEF Passed
    <3> QED
      BY <2>5, <3>1, <3>2 DEF Passed
  <2>6. \A i \in seen' : Passed(i)'
    BY <2>2, <2>4, <2>5
  <2>7. Range(deps') = {}
    BY <1>8 DEF PlannerAccepts, Range
  <2> QED
    BY <2>1, <2>2, <2>3, <2>6, <2>7
<1>9. CASE Finish
  BY <1>9 DEF Finish, rigid, planning, Reached, Passed
<1>10. CASE UNCHANGED vars
  BY <1>10 DEF vars, rigid, planning, Reached, Passed
<1> QED
  BY <1>1, <1>2, <1>3, <1>4, <1>5, <1>6, <1>7, <1>8, <1>9, <1>10 DEF Next

(* A successful crawl leaves no named dependency without a plan.           *)
THEOREM CrawlIsComplete == Spec => []Complete
<1>1. Init => Typing /\ Accounted
  BY NumPlannersOK, NumUrisOK, NoOneIsNoSchema, EmptySeq
     DEF Init, Typing, TypeOK, Accounted, Live, Reached, Range
<1>2. Typing /\ Accounted /\ [Next \/ Stopped]_vars => Typing' /\ Accounted'
  BY TypingInductive, AccountedInductive DEF Stopped
<1>3. Typing /\ Accounted => Complete
  BY DEF Typing, Accounted, Live, Complete, Range
<1> QED
  BY <1>1, <1>2, <1>3, PTL DEF Spec
-----------------------------------------------------------------------------
(* A reason, once there, stays: roots, names and plans only grow.          *)
LEMMA ReasonStays ==
  ASSUME NEW s, HasReason(s), roots \subseteq roots', named \subseteq named',
         UNCHANGED plans
  PROVE  HasReason(s)'
BY DEF HasReason

LEMMA JustifiedInductive ==
  Typing /\ Justified /\ WaitsWithReason /\ [Next]_vars
    => Justified' /\ WaitsWithReason'
<1> SUFFICES ASSUME Typing, Justified, WaitsWithReason, [Next]_vars
             PROVE  Justified' /\ WaitsWithReason'
  OBVIOUS
<1> USE DEF Live
<1>1. ASSUME UNCHANGED plans, roots \subseteq roots', named \subseteq named'
      PROVE  Justified'
  BY <1>1 DEF Justified, NamedBefore
<1>2. CASE LoadRoot
  <2>1. PICK s \in Schemas : /\ queue' = Append(queue, s)
                             /\ roots' = roots \union {s}
    BY <1>2 DEF LoadRoot
  <2>2. Range(queue') = Range(queue) \union {s}
    BY <2>1, RangeAppend DEF Typing, TypeOK
  <2>3. UNCHANGED <<pc, current, deps, plans, named>> /\ pc = "load"
    BY <1>2 DEF LoadRoot, planning
  <2>4. HasReason(s)' /\ \A t : HasReason(t) => HasReason(t)'
    BY <2>1, <2>3, ReasonStays DEF HasReason
  <2> QED
    BY <1>1, <2>1, <2>2, <2>3, <2>4 DEF WaitsWithReason
<1>3. CASE LoadFails \/ AllLoaded \/ Finish \/ UNCHANGED vars
  <2>1. UNCHANGED <<queue, current, deps, plans, roots, named>>
        /\ (Live' => Live) /\ (pc' = "plan" => pc = "plan")
    BY <1>3 DEF LoadFails, AllLoaded, Finish, vars, rigid, planning
  <2> QED
    BY <1>1, <2>1 DEF WaitsWithReason, HasReason
<1>4. CASE PopSeen \/ PopExcluded \/ PopNew
  <2>1. /\ Range(queue) = {Head(queue)} \union Range(queue')
        /\ UNCHANGED <<plans, roots, named>> /\ pc = "pop"
    BY <1>4, RangeTail DEF PopSeen, PopExcluded, PopNew, Typing, TypeOK
  <2>2. /\ pc' = "plan" => current' = Head(queue)
        /\ Range(deps') = {}
    BY <1>4 DEF PopSeen, PopExcluded, PopNew, planning, Typing, Range
  <2> QED
    BY <1>1, <2>1, <2>2 DEF WaitsWithReason, HasReason
<1>5. CASE PlannerDeclines
  <2>1. PICK d \in Deps : NameDeps(d)
    BY <1>5 DEF PlannerDeclines
  <2>2. /\ Range(deps') = Range(deps) \union Range(d)
        /\ named' = named \union {<<current, s>> : s \in Range(d)}
    BY <2>1, Naming
  <2>3. UNCHANGED <<pc, queue, current, plans, roots>> /\ pc = "plan"
    BY <1>5 DEF PlannerDeclines
  <2> QED
    BY <1>1, <2>2, <2>3 DEF WaitsWithReason, HasReason
<1>6. CASE PlanningFails \/ PlannerReturnsNil
  <2>1. /\ UNCHANGED <<plans, roots>> /\ named \subseteq named'
        /\ ~ Live'
    BY <1>6 DEF PlanningFails, PlannerReturnsNil, NameDeps
  <2> QED
    BY <1>1, <2>1 DEF WaitsWithReason
<1>7. CASE PlannerAccepts
  <2>1. PICK d \in Deps :
          /\ Range(queue') = Range(queue) \union Range(deps) \union Range(d)
          /\ named' = named \union {<<current, s>> : s \in Range(d)}
          /\ DOMAIN plans = 1..Len(plans) /\ Len(plans) \in Nat
          /\ DOMAIN plans' = 1..(Len(plans) + 1)
          /\ \A n \in DOMAIN plans : plans'[n] = plans[n]
          /\ plans'[Len(plans) + 1].schema = current
    BY <1>7, Accepting
  <2>2. UNCHANGED roots /\ pc = "plan" /\ pc' = "pop"
    BY <1>7 DEF PlannerAccepts
  <2>3. HasReason(current)
    BY <2>2 DEF WaitsWithReason
  <2>4. Justified'
    <3>1. ASSUME NEW n \in DOMAIN plans
          PROVE  plans'[n].schema \in roots' \/ NamedBefore(n)'
      <4>1. n \in Nat /\ plans'[n] = plans[n]
        BY <2>1
      <4>2. CASE plans[n].schema \in roots
        BY <2>2, <4>1, <4>2
      <4>3. CASE NamedBefore(n)
        <5>1. PICK m \in 1..(n - 1) :
                <<plans[m].schema, plans[n].schema>> \in named
          BY <4>3 DEF NamedBefore
        <5>2. m \in DOMAIN plans
          BY <2>1, <4>1, <5>1
        <5>3. <<plans'[m].schema, plans'[n].schema>> \in named'
          BY <2>1, <4>1, <5>1, <5>2
        <5> QED
          BY <5>3 DEF NamedBefore
      <4> QED
        BY <4>2, <4>3 DEF Justified
    <3>2. ASSUME NEW n, n = Len(plans) + 1
          PROVE  plans'[n].schema \in roots' \/ NamedBefore(n)'
      <4>1. CASE current \in roots
        BY <2>1, <2>2, <3>2, <4>1
      <4>2. ASSUME NEW m \in DOMAIN plans,
                   <<plans[m].schema, current>> \in named
            PROVE  NamedBefore(n)'
        <5>1. m \in 1..(n - 1)
          BY <2>1, <3>2
        <5>2. <<plans'[m].schema, plans'[n].schema>> \in named'
          BY <2>1, <3>2, <4>2
        <5> QED
          BY <5>1, <5>2 DEF NamedBefore
      <4> QED
        BY <2>3, <4>1, <4>2 DEF HasReason
    <3>3. ASSUME NEW n \in DOMAIN plans'
          PROVE  n \in DOMAIN plans \/ n = Len(plans) + 1
      BY <2>1
    <3> QED
      BY <3>1, <3>2, <3>3 DEF Justified
  <2>5. ASSUME NEW s, HasReason(s) PROVE HasReason(s)'
    <3>1. CASE s \in roots
      BY <2>2, <3>1 DEF HasReason
    <3>2. ASSUME NEW m \in DOMAIN plans, <<plans[m].schema, s>> \in named
          PROVE  HasReason(s)'
      <4>1. m \in DOMAIN plans' /\ <<plans'[m].schema, s>> \in named'
        BY <2>1, <3>2
      <4> QED
        BY <4>1 DEF HasReason
    <3> QED
      BY <2>5, <3>1, <3>2 DEF HasReason
  <2>6. ASSUME NEW s, <<current, s>> \in named' PROVE HasReason(s)'
    <3>1. Len(plans) + 1 \in DOMAIN plans'
      BY <2>1
    <3> QED
      BY <2>1, <2>6, <3>1 DEF HasReason
  <2>7. Range(deps') = {}
    BY <1>7 DEF PlannerAccepts, Range
  <2> QED
    BY <2>1, <2>2, <2>4, <2>5, <2>6, <2>7 DEF WaitsWithReason
<1> QED
  BY <1>2, <1>3, <1>4, <1>5, <1>6, <1>7 DEF Next

(* Every plan is for a root or for what an earlier plan's schema named.    *)
THEOREM PlansAreJustified == Spec => []Justified
<1>1. Init => Typing /\ Justified /\ WaitsWithReason
  BY NumPlannersOK, NumUrisOK, NoOneIsNoSchema, EmptySeq
     DEF Init, Typing, TypeOK, Justified, WaitsWithReason, Live, Range
<1>2. Typing /\ Justified /\ WaitsWithReason /\ [Next \/ Stopped]_vars
        => Typing' /\ Justified' /\ WaitsWithReason'
  BY TypingInductive, JustifiedInductive DEF Stopped
<1> QED
  BY <1>1, <1>2, PTL DEF Spec
-----------------------------------------------------------------------------
(* What bounds the crawl: the URIs and IDs it may still come to; then the  *)
(* planners that may still try the schema at hand; then what is queued.    *)
(* No other measure does: planning a schema lengthens the queue, and       *)
(* passing over one that was seen leaves the IDs alone.                    *)
ToMeet == uris + (IF pc = "load" THEN 1 ELSE 0) + Cardinality(Ids \ seen)
ToTry == IF pc = "plan" THEN 1 + NumPlanners - tried ELSE 0
ToPop == Len(queue) + (IF pc \in Ended THEN 0 ELSE 1)
Rank == <<ToMeet, ToTry, ToPop>>

Ranks == Nat \X Nat \X Nat
Below(r, t) == \/ r[1] < t[1]
               \/ r[1] = t[1] /\ r[2] < t[2]
               \/ r[1] = t[1] /\ r[2] = t[2] /\ r[3] < t[3]

(* What is left of S once an element of it has been marked.                *)
LEMMA MarkingLowers ==
  ASSUME NEW S, IsFiniteSet(S), NEW M, NEW i \in S, i \notin M
  PROVE  /\ Cardinality(S \ M) \in Nat /\ Cardinality(S \ (M \union {i})) \in Nat
         /\ Cardinality(S \ (M \union {i})) < Cardinality(S \ M)
<1>1. IsFiniteSet(S \ M)
  BY FS_Subset
<1>2. S \ (M \union {i}) = (S \ M) \ {i} /\ i \in S \ M
  OBVIOUS
<1>3. IsFiniteSet(S \ (M \union {i}))
  BY <1>1, <1>2, FS_RemoveElement
<1>4. Cardinality(S \ (M \union {i})) = Cardinality(S \ M) - 1
  BY <1>1, <1>2, FS_RemoveElement
<1> QED
  BY <1>1, <1>3, <1>4, FS_CardinalityType

(* The lowest of a set of numbers, and of a set of ranks: ranks cannot be  *)
(* lowered for ever.                                                       *)
LEMMA LeastNumber ==
  ASSUME NEW T \in SUBSET Nat, T # {}
  PROVE  \E x \in T : \A y \in T : x <= y
<1> DEFINE R == {r \in Nat \X Nat : r[1] < r[2]}
<1>1. \A x, y \in T : y < x => <<y, x>> \in R
  OBVIOUS
<1>2. IsWellFoundedOn(R, Nat)
  BY NatLessThanWellFounded, Zenon DEF OpToRel
<1> HIDE DEF R
<1>3. \E x \in T : \A y \in T : ~ (<<y, x>> \in R)
  BY <1>2, WFMin
<1>4. \A x, y \in T : ~(y < x) => x <= y
  OBVIOUS
<1> QED
  BY <1>1, <1>3, <1>4

LEMMA RanksHaveLowest ==
  ASSUME NEW T \in SUBSET Ranks, T # {}
  PROVE  \E r \in T : \A t \in T : ~Below(t, r)
<1> DEFINE A == {r[1] : r \in T}
<1>1. PICK a \in A : \A x \in A : a <= x
  <2>1. A \in SUBSET Nat /\ A # {}
    BY DEF Ranks
  <2> HIDE DEF A
  <2> QED
    BY <2>1, LeastNumber
<1> DEFINE B == {r[2] : r \in {r \in T : r[1] = a}}
<1>2. PICK b \in B : \A x \in B : b <= x
  <2>1. B \in SUBSET Nat /\ B # {}
    BY <1>1 DEF Ranks
  <2> HIDE DEF B
  <2> QED
    BY <2>1, LeastNumber
<1> DEFINE C == {r[3] : r \in {r \in T : r[1] = a /\ r[2] = b}}
<1>3. PICK c \in C : \A x \in C : c <= x
  <2>1. C \in SUBSET Nat /\ C # {}
    BY <1>2 DEF Ranks
  <2> HIDE DEF C
  <2> QED
    BY <2>1, LeastNumber
<1>4. PICK r \in T : r[1] = a /\ r[2] = b /\ r[3] = c
  BY <1>3
<1>5. ASSUME NEW t \in T PROVE ~Below(t, r)
  <2>1. a <= t[1] /\ (t[1] = a => b <= t[2])
        /\ (t[1] = a /\ t[2] = b => c <= t[3])
    BY <1>1, <1>2, <1>3
  <2>2. /\ t[1] \in Nat /\ t[2] \in Nat /\ t[3] \in Nat
        /\ r[1] \in Nat /\ r[2] \in Nat /\ r[3] \in Nat
    BY DEF Ranks
  <2> QED
    BY <1>4, <2>1, <2>2 DEF Below
<1> QED
  BY <1>4, <1>5

LEMMA RankIsRank ==
  ASSUME Typing, IsFiniteSet(Ids) PROVE Rank \in Ranks
<1>1. uris \in Nat /\ tried \in 0..(NumPlanners - 1) /\ Len(queue) \in Nat
  BY NumUrisOK, LenProperties DEF Typing, TypeOK
<1>2. Cardinality(Ids \ seen) \in Nat
  BY FS_Subset, FS_CardinalityType
<1>3. ToMeet \in Nat /\ ToPop \in Nat
  BY <1>1, <1>2 DEF ToMeet, ToPop
<1>4. ToTry \in Nat
  BY <1>1, NumPlannersOK DEF ToTry
<1> QED
  BY <1>3, <1>4 DEF Rank, Ranks

(* Loading and marking lower the first number, trying a planner the        *)
(* second, passing over what was seen and finishing the last.              *)
LEMMA StepsLower ==
  ASSUME Typing, Typing', Next, IsFiniteSet(Ids) PROVE Below(Rank', Rank)
<1>1. /\ uris \in Nat /\ tried \in 0..(NumPlanners - 1) /\ Len(queue) \in Nat
      /\ NumPlanners \in Nat
  BY NumUrisOK, NumPlannersOK, LenProperties DEF Typing, TypeOK
<1>2. Cardinality(Ids \ seen) \in Nat
  BY FS_Subset, FS_CardinalityType
<1>3. /\ Below(Rank', Rank) <=> \/ ToMeet' < ToMeet
                                \/ ToMeet' = ToMeet /\ ToTry' < ToTry
                                \/ ToMeet' = ToMeet /\ ToTry' = ToTry /\ ToPop' < ToPop
  BY DEF Below, Rank
<1>4. CASE LoadRoot \/ LoadFails \/ AllLoaded
  <2>1. /\ UNCHANGED seen /\ pc = "load"
        /\ \/ uris' = uris - 1 /\ pc' = "load"
           \/ uris' = uris /\ pc' # "load"
    BY <1>4 DEF LoadRoot, LoadFails, AllLoaded
  <2>2. ToMeet' < ToMeet
    BY <1>1, <1>2, <2>1 DEF ToMeet
  <2> QED
    BY <1>3, <2>2
<1>5. CASE PopExcluded \/ PopNew
  <2>1. /\ UNCHANGED uris /\ pc = "pop" /\ pc' # "load"
        /\ id[Head(queue)] \notin seen /\ queue # <<>>
        /\ seen' = seen \union {id[Head(queue)]}
    BY <1>5 DEF PopExcluded, PopNew
  <2>2. id[Head(queue)] \in Ids
    BY <2>1, RangeTail DEF Typing, TypeOK
  <2>3. /\ Cardinality(Ids \ seen') \in Nat
        /\ Cardinality(Ids \ seen') < Cardinality(Ids \ seen)
    BY <2>1, <2>2, MarkingLowers
  <2>4. ToMeet' < ToMeet
    BY <1>1, <1>2, <2>1, <2>3 DEF ToMeet
  <2> QED
    BY <1>3, <2>4
<1>6. CASE PopSeen
  <2>1. /\ UNCHANGED <<pc, uris, seen, tried>> /\ pc = "pop" /\ queue # <<>>
        /\ queue' = Tail(queue)
    BY <1>6 DEF PopSeen, planning
  <2>2. Len(queue') = Len(queue) - 1
    BY <2>1, HeadTailProperties DEF Typing, TypeOK
  <2>3. ToMeet' = ToMeet /\ ToTry' = ToTry
    BY <2>1 DEF ToMeet, ToTry
  <2>4. ToPop' < ToPop
    BY <1>1, <2>1, <2>2 DEF ToPop, Ended
  <2> QED
    BY <1>3, <2>3, <2>4
<1>7. CASE PlannerDeclines \/ PlanningFails \/ PlannerReturnsNil \/ PlannerAccepts
  <2>1. /\ UNCHANGED <<uris, seen>> /\ pc = "plan" /\ pc' # "load"
        /\ \/ pc' = "plan" /\ tried' = tried + 1
           \/ pc' # "plan"
    BY <1>7 DEF PlannerDeclines, PlanningFails, PlannerReturnsNil, PlannerAccepts
  <2>2. ToMeet' = ToMeet
    BY <2>1 DEF ToMeet
  <2>3. ToTry' < ToTry
    BY <1>1, <2>1 DEF ToTry
  <2> QED
    BY <1>3, <2>2, <2>3
<1>8. CASE Finish
  <2>1. /\ UNCHANGED <<uris, seen, queue>> /\ pc = "pop" /\ pc' = "done"
    BY <1>8 DEF Finish
  <2>2. ToMeet' = ToMeet /\ ToTry' = ToTry
    BY <2>1 DEF ToMeet, ToTry
  <2>3. ToPop' < ToPop
    BY <1>1, <2>1 DEF ToPop, Ended
  <2> QED
    BY <1>3, <2>2, <2>3
<1> QED
  BY <1>4, <1>5, <1>6, <1>7, <1>8 DEF Next

(* The crawl runs out: every step lowers a rank that cannot be lowered for *)
(* ever, so no cycle of references, and no number of times one schema is   *)
(* queued, keeps it going.  What Terminates asks for besides is that it    *)
(* goes on as long as it can, which is its fairness.                       *)
THEOREM CrawlRunsOut ==
  ASSUME IsFiniteSet(Ids)
  PROVE  Spec => [][Below(Rank', Rank) /\ Rank \in Ranks]_vars
<1>1. Init => Typing
  BY NumPlannersOK, NumUrisOK, NoOneIsNoSchema, EmptySeq
     DEF Init, Typing, TypeOK
<1>2. Typing /\ [Next \/ Stopped]_vars => Typing'
  BY TypingInductive DEF Stopped
<1>3. Typing /\ Typing' /\ [Next \/ Stopped]_vars
        => [Below(Rank', Rank) /\ Rank \in Ranks]_vars
  BY StepsLower, RankIsRank DEF Stopped
<1> QED
  BY <1>1, <1>2, <1>3, PTL DEF Spec
=============================================================================
