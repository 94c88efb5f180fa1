-------------------------------- MODULE Crawl --------------------------------
(***************************************************************************)
(* internal/crawl/crawl.go: Crawl loads the root schemas, then plans them  *)
(* and, breadth first, every schema a planner names as a dependency, and   *)
(* groups the plans by the Go package they belong to.  Planning a schema   *)
(* is CompositePlanner.Plan (internal/planning/planner.go): the planners   *)
(* are tried in turn until one accepts or one fails for good.              *)
(*                                                                         *)
(* What a planner does with a schema is left open here (Planners has it):  *)
(* each attempt may name dependencies through helper.Dep and then accept,  *)
(* decline, fail, or return a nil plan.  A schema is its address; two      *)
(* addresses may carry one ID (two files, or two fragments that spell the  *)
(* same), and the crawl knows a schema by its ID only.                     *)
(***************************************************************************)
EXTENDS Naturals, Sequences, Functions

CONSTANTS Schemas,      \* addresses of loaded schemas
          Ids,          \* schema IDs, as strings
          Paths,        \* Go package paths, the empty one included
          NumPlanners,  \* length of the composite planner
          NumUris,      \* number of URIs Crawl is called with
          Deps,         \* sequences of schemas one planner may hand to Dep
          NoOne         \* no schema is being planned

ASSUME NumPlannersOK == NumPlanners \in Nat \ {0}
ASSUME NumUrisOK == NumUris \in Nat
ASSUME DepsAreSchemas == Deps \subseteq Seq(Schemas)
ASSUME NoOneIsNoSchema == NoOne \notin Schemas

VARIABLES id,           \* rigid: s.ID.String() of every schema
          excluded,     \* rigid: schemas with Config.Exclude
          pc,           \* "load", "pop", "plan", or how Crawl ended
          uris,         \* URIs still to load
          queue,        \* the local slice schemas
          seen,         \* IDs met
          current,      \* s, while it is being planned
          tried,        \* planners that have declined s
          deps,         \* helper.deps, for s
          plans,        \* plans made so far
          grouped,      \* the map Crawl returns
          roots,        \* history: schemas loaded for the URIs
          named         \* history: <<s, d>>, planning s named d

rigid == <<id, excluded>>
planning == <<current, tried, deps>>
vars == <<rigid, pc, uris, queue, seen, planning, plans, grouped, roots, named>>

Ended == {"done", "failed", "panicked"}

Init == /\ id \in [Schemas -> Ids]
        /\ excluded \in SUBSET Schemas
        /\ pc = "load" /\ uris = NumUris
        /\ queue = <<>> /\ seen = {}
        /\ current = NoOne /\ tried = 0 /\ deps = <<>>
        /\ plans = <<>> /\ grouped = <<>>
        /\ roots = {} /\ named = {}

(* A mutation of LoadRoot: one URI too many is read.                       *)
LoadRootPastEnd ==
  /\ pc = "load"
  /\ \E s \in Schemas : /\ queue' = Append(queue, s)
                        /\ roots' = roots \union {s}
  /\ uris' = uris - 1
  /\ UNCHANGED <<rigid, pc, seen, planning, plans, grouped, named>>

(* One URI is loaded; the loader may return any schema.                    *)
LoadRoot ==
  /\ pc = "load" /\ uris > 0
  /\ \E s \in Schemas : /\ queue' = Append(queue, s)
                        /\ roots' = roots \union {s}
  /\ uris' = uris - 1
  /\ UNCHANGED <<rigid, pc, seen, planning, plans, grouped, named>>

(* A URI does not parse, or does not load: no schema is planned.           *)
LoadFails ==
  /\ pc = "load" /\ uris > 0
  /\ pc' = "failed"
  /\ UNCHANGED <<rigid, uris, queue, seen, planning, plans, grouped,
                 roots, named>>

AllLoaded ==
  /\ pc = "load" /\ uris = 0
  /\ pc' = "pop"
  /\ UNCHANGED <<rigid, uris, queue, seen, planning, plans, grouped,
                 roots, named>>

(* A mutation of PopSeen: the schema goes to the back of the queue.        *)
PutSeenBack ==
  /\ pc = "pop" /\ queue # <<>>
  /\ id[Head(queue)] \in seen
  /\ queue' = Append(Tail(queue), Head(queue))
  /\ UNCHANGED <<rigid, pc, uris, seen, planning, plans, grouped, roots, named>>

PopSeen ==
  /\ pc = "pop" /\ queue # <<>>
  /\ id[Head(queue)] \in seen
  /\ queue' = Tail(queue)
  /\ UNCHANGED <<rigid, pc, uris, seen, planning, plans, grouped, roots, named>>

(* An excluded schema is marked seen before the crawl passes over it.      *)
PopExcluded ==
  /\ pc = "pop" /\ queue # <<>>
  /\ id[Head(queue)] \notin seen
  /\ Head(queue) \in excluded
  /\ queue' = Tail(queue)
  /\ seen' = seen \union {id[Head(queue)]}
  /\ UNCHANGED <<rigid, pc, uris, planning, plans, grouped, roots, named>>

(* A mutation of PopNew: the ID is not marked.                             *)
PopNewUnmarked ==
  /\ pc = "pop" /\ queue # <<>>
  /\ id[Head(queue)] \notin seen
  /\ Head(queue) \notin excluded
  /\ queue' = Tail(queue)
  /\ current' = Head(queue) /\ tried' = 0 /\ deps' = <<>>
  /\ pc' = "plan"
  /\ UNCHANGED <<rigid, uris, seen, plans, grouped, roots, named>>

(* A new schema gets a helper with no dependencies yet.                    *)
PopNew ==
  /\ pc = "pop" /\ queue # <<>>
  /\ id[Head(queue)] \notin seen
  /\ Head(queue) \notin excluded
  /\ queue' = Tail(queue)
  /\ seen' = seen \union {id[Head(queue)]}
  /\ current' = Head(queue) /\ tried' = 0 /\ deps' = <<>>
  /\ pc' = "plan"
  /\ UNCHANGED <<rigid, uris, plans, grouped, roots, named>>

(* SimpleHelper.Dep: dependencies pile up in the helper.                   *)
NameDeps(d) == /\ deps' = deps \o d
               /\ named' = named \union {<<current, s>> : s \in Range(d)}

(* A planner declines (ErrContinue, or either unknown-type error) and the  *)
(* next one is tried.  What it named stays in the helper.                  *)
PlannerDeclines ==
  /\ pc = "plan" /\ tried + 1 < NumPlanners
  /\ \E d \in Deps : NameDeps(d)
  /\ tried' = tried + 1
  /\ UNCHANGED <<rigid, pc, uris, queue, seen, current, plans, grouped, roots>>

(* A planner fails for another reason, or the last one declines.           *)
PlanningFails ==
  /\ pc = "plan"
  /\ \E d \in Deps : NameDeps(d)
  /\ pc' = "failed"
  /\ UNCHANGED <<rigid, uris, queue, seen, current, tried, plans, grouped, roots>>

(* A planner returns neither an error nor a plan.                          *)
PlannerReturnsNil ==
  /\ pc = "plan"
  /\ \E d \in Deps : NameDeps(d)
  /\ pc' = "panicked"
  /\ UNCHANGED <<rigid, uris, queue, seen, current, tried, plans, grouped, roots>>

(* Two mutations of PlannerAccepts: what the declining planners named is   *)
(* dropped; and plans are prepended.                                       *)
AcceptsOwnDeps ==
  /\ pc = "plan"
  /\ \E d \in Deps, p \in Paths :
       /\ queue' = queue \o d
       /\ named' = named \union {<<current, s>> : s \in Range(d)}
       /\ plans' = Append(plans, [schema |-> current, path |-> p])
  /\ pc' = "pop"
  /\ current' = NoOne /\ tried' = 0 /\ deps' = <<>>
  /\ UNCHANGED <<rigid, uris, seen, grouped, roots>>

AcceptsInReverse ==
  /\ pc = "plan"
  /\ \E d \in Deps, p \in Paths :
       /\ queue' = queue \o (deps \o d)
       /\ named' = named \union {<<current, s>> : s \in Range(d)}
       /\ plans' = <<[schema |-> current, path |-> p]>> \o plans
  /\ pc' = "pop"
  /\ current' = NoOne /\ tried' = 0 /\ deps' = <<>>
  /\ UNCHANGED <<rigid, uris, seen, grouped, roots>>

(* A planner accepts: what was named, by it or by those that declined      *)
(* before it, is queued behind everything already waiting.                 *)
PlannerAccepts ==
  /\ pc = "plan"
  /\ \E d \in Deps, p \in Paths :
       /\ queue' = queue \o (deps \o d)
       /\ named' = named \union {<<current, s>> : s \in Range(d)}
       /\ plans' = Append(plans, [schema |-> current, path |-> p])
  /\ pc' = "pop"
  /\ current' = NoOne /\ tried' = 0 /\ deps' = <<>>
  /\ UNCHANGED <<rigid, uris, seen, grouped, roots>>

(* The queue is empty: one by one the plans are appended to the group of   *)
(* their Type().GoPath.  ofPath[n] is the group of p after the first n.    *)
GroupByPath(ps) ==
  [p \in {ps[i].path : i \in DOMAIN ps} |->
     LET ofPath[n \in 0..Len(ps)] ==
           IF n = 0 THEN <<>>
           ELSE IF ps[n].path = p THEN Append(ofPath[n - 1], ps[n]) ELSE ofPath[n - 1]
     IN  ofPath[Len(ps)]]

Finish ==
  /\ pc = "pop" /\ queue = <<>>
  /\ grouped' = GroupByPath(plans)
  /\ pc' = "done"
  /\ UNCHANGED <<rigid, uris, queue, seen, planning, plans, roots, named>>

Stopped == pc \in Ended /\ UNCHANGED vars

Next == \/ LoadRoot \/ LoadFails \/ AllLoaded
        \/ PopSeen \/ PopExcluded \/ PopNew
        \/ PlannerDeclines \/ PlanningFails \/ PlannerReturnsNil
        \/ PlannerAccepts \/ Finish

Spec == Init /\ [][Next \/ Stopped]_vars
FairSpec == Spec /\ WF_vars(Next)
-----------------------------------------------------------------------------
Plan == [schema : Schemas, path : Paths]

(* Every variable ranges over its type.                                    *)
TypeOK ==
  /\ id \in [Schemas -> Ids] /\ excluded \subseteq Schemas
  /\ pc \in {"load", "pop", "plan"} \union Ended
  /\ uris \in 0..NumUris
  /\ queue \in Seq(Schemas) /\ seen \subseteq Ids
  /\ current \in Schemas \union {NoOne} /\ tried \in 0..(NumPlanners - 1)
  /\ deps \in Seq(Schemas)
  /\ plans \in Seq(Plan)
  /\ roots \subseteq Schemas /\ named \subseteq Schemas \X Schemas

(* No ID is planned twice, however often it is queued and by whomever:     *)
(* otherwise its Go type would be declared twice in its package.           *)
PlannedOnce ==
  \A i, j \in DOMAIN plans :
    id[plans[i].schema] = id[plans[j].schema] => i = j

(* Passed(i): the crawl has dealt with ID i for good.                      *)
Reached == roots \union {e[2] : e \in named}
Passed(i) == \/ \E n \in DOMAIN plans : id[plans[n].schema] = i
             \/ \E s \in excluded \intersect Reached : id[s] = i

(* A crawl that succeeds has planned the ID of every root and of every     *)
(* dependency a planner named, unless a schema with that ID asks to be     *)
(* excluded: no generated file refers to a type that is generated nowhere. *)
Complete == pc = "done" => \A s \in Reached : Passed(id[s])

(* Whatever is planned has a reason: it is a root, or planning a schema    *)
(* whose plan comes earlier named it.  By induction, a chain of named      *)
(* dependencies leads to it from a root: nothing else is generated.        *)
NamedBefore(n) ==
  \E m \in 1..(n - 1) : <<plans[m].schema, plans[n].schema>> \in named
Justified ==
  \A n \in DOMAIN plans : plans[n].schema \in roots \/ NamedBefore(n)

(* The crawl ends, whatever cycles the references form: every turn of the  *)
(* loop either shortens the queue or marks one more ID.                    *)
Terminates == <>(pc \in Ended)
=============================================================================
