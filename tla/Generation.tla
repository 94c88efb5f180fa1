----------------------------- MODULE Generation -----------------------------
(***************************************************************************)
(* The crawl of Crawl with the planners of Planners: Crawl in              *)
(* internal/crawl/crawl.go driving CompositePlanner.Plan over              *)
(* planning.Composite.  Where Crawl lets a planner do anything, here the   *)
(* schema decides what each of the seven does with it, one step for each   *)
(* planner tried.  What Crawl promises is inherited by refinement; what is *)
(* new is what can be said of the Go types and packages in the plans.      *)
(***************************************************************************)
EXTENDS Planners

CONSTANTS Docs,         \* the documents: a record for every schema
          RootLists,    \* what the URIs load, or Broken
          NumRoots,     \* the length of such a list
          Deps,         \* the sequences one planner may hand to Dep
          NoOne         \* no schema is being planned

ASSUME DocsAreTyped == \A d \in Docs : d \in [Nodes -> Schema]
ASSUME RootListsHaveOneLength ==
  NumRoots \in Nat /\ \A r \in RootLists : r \in Seq(Refs) /\ Len(r) = NumRoots
ASSUME DepsAreNodes == Deps \subseteq Seq(Nodes)
ASSUME NoOneIsNoNode == NoOne \notin Nodes

VARIABLES pc, uris, queue, seen, current, tried, deps, plans, grouped,
          roots, named          \* as in Crawl, but uris is the list itself

planning == <<current, tried, deps>>
vars == <<doc, types, pc, uris, queue, seen, planning, plans, grouped, roots, named>>

Ended == {"done", "failed", "hung"}
Id(n) == doc[n].id

Init == /\ doc \in Docs /\ types = TypesOf
        /\ uris \in RootLists
        /\ pc = "load" /\ queue = <<>> /\ seen = {}
        /\ current = NoOne /\ tried = 0 /\ deps = <<>>
        /\ plans = <<>> /\ grouped = <<>>
        /\ roots = {} /\ named = {}

LoadRoot ==
  /\ pc = "load" /\ uris # <<>> /\ Head(uris) # Broken
  /\ queue' = Append(queue, Head(uris))
  /\ roots' = roots \union {Head(uris)}
  /\ uris' = Tail(uris)
  /\ UNCHANGED <<doc, types, pc, seen, planning, plans, grouped, named>>

LoadFails ==
  /\ pc = "load" /\ uris # <<>> /\ Head(uris) = Broken
  /\ pc' = "failed"
  /\ UNCHANGED <<doc, types, uris, queue, seen, planning, plans, grouped, roots, named>>

AllLoaded ==
  /\ pc = "load" /\ uris = <<>>
  /\ pc' = "pop"
  /\ UNCHANGED <<doc, types, uris, queue, seen, planning, plans, grouped, roots, named>>

(* The schema at the head of the queue is passed over, or planned.         *)
PassOver ==
  /\ pc = "pop" /\ queue # <<>>
  /\ Id(Head(queue)) \in seen \/ doc[Head(queue)].exclude
  /\ queue' = Tail(queue)
  /\ seen' = seen \union {Id(Head(queue))}
  /\ UNCHANGED <<doc, types, pc, uris, planning, plans, grouped, roots, named>>

(* A mutation of Pop: the ID is not marked.                                *)
PopUnmarked ==
  /\ pc = "pop" /\ queue # <<>>
  /\ Id(Head(queue)) \notin seen /\ ~doc[Head(queue)].exclude
  /\ queue' = Tail(queue)
  /\ current' = Head(queue) /\ tried' = 0 /\ deps' = <<>>
  /\ pc' = "plan"
  /\ UNCHANGED <<doc, types, uris, seen, plans, grouped, roots, named>>

Pop ==
  /\ pc = "pop" /\ queue # <<>>
  /\ Id(Head(queue)) \notin seen /\ ~doc[Head(queue)].exclude
  /\ queue' = Tail(queue)
  /\ seen' = seen \union {Id(Head(queue))}
  /\ current' = Head(queue) /\ tried' = 0 /\ deps' = <<>>
  /\ pc' = "plan"
  /\ UNCHANGED <<doc, types, uris, plans, grouped, roots, named>>

(* What the next planner does with the schema: answer is its error, what   *)
(* it has handed to Dep, and its plan.                                     *)
NameDeps(answer) ==
  named' = named \union {<<current, s>> : s \in Range(answer.deps)}

PlannerDeclines(answer) ==
  /\ tried + 1 < NumComposite
  /\ answer.err \in Declining
  /\ deps' = deps \o answer.deps
  /\ NameDeps(answer)
  /\ tried' = tried + 1
  /\ UNCHANGED <<doc, types, pc, uris, queue, seen, current, plans, grouped, roots>>

PlanningFails(answer) ==
  /\ \/ answer.err = "other"
     \/ answer.err \in Declining /\ tried + 1 = NumComposite
  /\ deps' = deps \o answer.deps
  /\ NameDeps(answer)
  /\ pc' = "failed"
  /\ UNCHANGED <<doc, types, uris, queue, seen, current, tried, plans, grouped, roots>>

(* A mutation of PlannerAccepts: ErrContinue is not looked at.             *)
AcceptsAnyAnswer(answer) ==
  /\ answer.err \in {"nil", "continue"}
  /\ queue' = queue \o (deps \o answer.deps)
  /\ NameDeps(answer)
  /\ plans' = Append(plans, answer.plan)
  /\ pc' = "pop"
  /\ current' = NoOne /\ tried' = 0 /\ deps' = <<>>
  /\ UNCHANGED <<doc, types, uris, seen, grouped, roots>>

PlannerAccepts(answer) ==
  /\ answer.err = "nil"
  /\ queue' = queue \o (deps \o answer.deps)
  /\ NameDeps(answer)
  /\ plans' = Append(plans, answer.plan)
  /\ pc' = "pop"
  /\ current' = NoOne /\ tried' = 0 /\ deps' = <<>>
  /\ UNCHANGED <<doc, types, uris, seen, grouped, roots>>

(* The planner is in a loop that it does not leave: no step follows.       *)
PlannerHangs(answer) ==
  /\ answer.err = "hang"
  /\ pc' = "hung"
  /\ UNCHANGED <<doc, types, uris, queue, seen, planning, plans, grouped, roots, named>>

TryPlanner ==
  /\ pc = "plan"
  /\ \E answer \in {Composite(tried + 1, current)} :
       \/ PlannerDeclines(answer) \/ PlanningFails(answer)
       \/ PlannerAccepts(answer) \/ PlannerHangs(answer)

GroupByPath(ps) ==
  [path \in {ps[i].type.path : i \in DOMAIN ps} |->
     LET ofPath[n \in 0..Len(ps)] ==
           IF n = 0 THEN <<>>
           ELSE IF ps[n].type.path = path THEN Append(ofPath[n - 1], ps[n]) ELSE ofPath[n - 1]
     IN  ofPath[Len(ps)]]

Finish ==
  /\ pc = "pop" /\ queue = <<>>
  /\ grouped' = GroupByPath(plans)
  /\ pc' = "done"
  /\ UNCHANGED <<doc, types, uris, queue, seen, planning, plans, roots, named>>

Stopped == pc \in Ended /\ UNCHANGED vars

Next == \/ LoadRoot \/ LoadFails \/ AllLoaded
        \/ PassOver \/ Pop
        \/ TryPlanner
        \/ Finish

Spec == Init /\ [][Next \/ Stopped]_vars
-----------------------------------------------------------------------------
(* The detailed crawl seen as the one of Crawl.                            *)
Abstract(p) == [schema |-> p.schema, path |-> p.type.path]
AbstractAll(ps) == [i \in DOMAIN ps |-> Abstract(ps[i])]

C == INSTANCE Crawl WITH
       Schemas <- Nodes, NumPlanners <- NumComposite, NumUris <- NumRoots,
       id <- [n \in Nodes |-> Id(n)],
       excluded <- {n \in Nodes : doc[n].exclude},
       pc <- IF pc = "hung" THEN "plan" ELSE pc,
       uris <- Len(uris),
       plans <- AbstractAll(plans),
       grouped <- [path \in DOMAIN grouped |-> AbstractAll(grouped[path])]

(* The seven planners are planners in the sense of Crawl: whatever the     *)
(* documents, each step of the crawl is one that Crawl allows.             *)
ImplementsCrawl == C!Spec
-----------------------------------------------------------------------------
TypeOK ==
  /\ DOMAIN doc = Nodes /\ pc \in {"load", "pop", "plan"} \union Ended
  /\ Len(uris) \in 0..NumRoots /\ Range(uris) \subseteq Nodes \union {Broken}
  /\ Range(queue) \subseteq Nodes
  /\ current \in Nodes \union {NoOne} /\ tried \in 0..(NumComposite - 1)
  /\ Range(deps) \subseteq Nodes
  /\ NoPlan \notin Range(plans)

(* Types that stand for schemas, and where one is declared.                *)
Mentioned(p) == {f.type : f \in Range(p.fields)} \union p.others
OfSchema(t) == ~IsBuiltin(t) /\ t # RawMessage
Declares(type, t) == type.path = t.path /\ type.name = t.name

(* No plan of a crawl that succeeds mentions a type that is declared       *)
(* nowhere, by another plan or by the code an excluded schema stands for:  *)
(* what the planners write into fields and what they hand to Dep agree.    *)
NoDanglingType ==
  pc = "done" =>
    \A p \in Range(plans) : \A t \in Mentioned(p) :
      OfSchema(t) =>
        \/ \E q \in Range(plans) : Declares(q.type, t)
        \/ \E n \in Nodes : doc[n].exclude /\ Declares(types[n].go, t)

(* The documents for which that is so whatever they say besides:           *)
(*  - a "type" that names no JSON type is not beside an allOf;             *)
(*  - no allOf has both an object and a primitive type for members;        *)
(*  - schemas with one ID come to one Go type, as do those of their oneOf; *)
(*  - an excluded schema says what type it stands for.                     *)
TypesAreKnown == \A n \in Nodes : doc[n].type = "unknown" => doc[n].allOf = <<>>
MembersAgree ==
  \A n \in Nodes : \A a, b \in Range(doc[n].allOf) \ {Broken} :
    types[a].chosen = "object" => types[b].chosen \notin DOMAIN Primitives
TypesOfOneOf(n) == {types[m].go : m \in Range(doc[n].oneOf) \ {Broken}}
IdsAreOneType ==
  \A m, n \in Nodes :
    Id(m) = Id(n) => types[m].go = types[n].go /\ TypesOfOneOf(m) = TypesOfOneOf(n)
ExcludedAreTyped == \A n \in Nodes : doc[n].exclude => types[n].go # NoType
DocumentsMakeSense == TypesAreKnown /\ MembersAgree /\ IdsAreOneType /\ ExcludedAreTyped

(* A struct checks all it is required to: each required property that is   *)
(* its own or that of a member of its allOf, embedded or promoted.         *)
PropertyNames(n) == {p.name : p \in Range(doc[n].props)}
ChecksRequired(p) ==
  LET n == p.schema
      members == IF p.kind = "allOf" THEN Range(doc[n].allOf) ELSE {}
  IN  p.kind \in {"object", "allOf"} =>
        doc[n].required \intersect UNION {PropertyNames(m) : m \in members \union {n}}
          \subseteq p.checked
RequiredIsChecked == \A p \in Range(plans) : ChecksRequired(p)

(* A oneOf that is planned without a discriminator can be read back: the   *)
(* first token of a JSON value tells which of its members it is.           *)
Decidable(p) ==
  LET refs == doc[p.schema].oneOf
      simple == {types[m].simple : m \in Range(refs)}
  IN  p.kind = "oneOf" => /\ Cardinality(simple) = Len(refs)
                          /\ ~({"integer", "number"} \subseteq simple)
OneOfIsDecidable == \A p \in Range(plans) : Decidable(p)

(* A planner hangs only over schemas whose "type" names no JSON type and   *)
(* that are allOf of each other: an allOf that leads back to itself is     *)
(* evidence enough of an object otherwise.  Crawl's steps being all that   *)
(* is left, the crawl of any other document ends.                          *)
OnlyNonsenseHangs ==
  pc = "hung" =>
    \E n \in Nodes : doc[n].type = "unknown" /\ doc[n].allOf # <<>>

(* gen.Plan says that Deps returns "any types requiring import": the file  *)
(* a package's plans are printed to imports every package they refer to.   *)
PathsOf(p) == p.uses \union {t.path : t \in Mentioned(p)}
EveryUseIsImported ==
  \A path \in DOMAIN grouped :
    LET ps == Range(grouped[path])
        imported == {"fmt", path, ""} \union UNION {p.imports : p \in ps}
    IN  \A p \in ps : PathsOf(p) \subseteq imported

(* The only packages missing: those that the validators of a slice's items *)
(* need, and those of the members of a oneOf, which no Deps lists.         *)
LeftOut(p) ==
  IF p.kind = "slice" THEN Needed(p.fields)
  ELSE IF p.kind \in {"discriminated", "oneOf"} THEN {t.path : t \in p.others}
  ELSE {}
NothingIsLeftOut == \A p \in Range(plans) : LeftOut(p) \subseteq {p.type.path, "fmt", ""}

(* The error with which PlanMap turns a schema down is "not a object with  *)
(* only additional properties": no map is planned for one with others.     *)
MapsHaveOnlyAdditional ==
  \A p \in Range(plans) : p.kind = "map" => doc[p.schema].props = <<>>

(* The only exceptions: objects that have both.                            *)
ObjectsAreEither ==
  \A n \in Nodes :
    types[n].chosen = "object" => doc[n].props = <<>> \/ ~AddlPresent(n)
=============================================================================
