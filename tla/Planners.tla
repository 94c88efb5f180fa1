------------------------------ MODULE Planners ------------------------------
(***************************************************************************)
(* The seven planners of planning.Composite, as functions from a schema to *)
(* what their Plan method returns and what it has handed to helper.Dep by  *)
(* then.                                                                   *)
(*                                                                         *)
(* A planner works through a list of things, each of which may fail, and   *)
(* stops at the first that does.  Such a thing is a step: its error, the   *)
(* schemas it names and the fields it yields.  Then does one thing after   *)
(* another and Each(list, S) the step S for every element of list.         *)
(***************************************************************************)
EXTENDS Schemas, SequencesExt

Step(err, deps, fields) == [err |-> err, deps |-> deps, fields |-> fields]
Check(err) == Step(err, <<>>, <<>>)
Skip == Check("nil")

Then(s, t) == IF s.err # "nil" THEN s
              ELSE Step(t.err, s.deps \o t.deps, s.fields \o t.fields)
InOrder(steps) ==
  LET after[n \in 0..Len(steps)] == IF n = 0 THEN Skip ELSE Then(after[n - 1], steps[n])
  IN  after[Len(steps)]
Each(list, S(_)) == InOrder([i \in DOMAIN list |-> S(list[i])])

NoPlan == [kind |-> "nil"]
Refuse(err, deps) == [err |-> err, deps |-> deps, plan |-> NoPlan]

(* What a planner returns once its steps are done.                         *)
Result(s, plan) == IF s.err # "nil" THEN Refuse(s.err, s.deps)
                   ELSE [err |-> "nil", deps |-> s.deps, plan |-> plan]

(* A plan: the fields it has, the properties it checks to be present, the  *)
(* further types its source mentions, and the packages it refers to on top *)
(* of those of types (uses) and lists in its Deps method (imports).        *)
Plan(kind, n, type, fields, checked, others, uses, imports) ==
  [kind |-> kind, schema |-> n, type |-> type, fields |-> fields, checked |-> checked,
   others |-> others, uses |-> uses, imports |-> imports]

(* StructField, TupleItem, ItemType or ValTypeInfo: a type mentioned, and  *)
(* the packages its validators refer to.                                   *)
Field(json, type, required, packages) ==
  [json |-> json, type |-> type, required |-> required, packages |-> packages]
TypePaths(fields) == {f.type.path : f \in Range(fields)} \ {""}
Needed(fields) == UNION {f.packages : f \in Range(fields)}
-----------------------------------------------------------------------------
(* RefOrSchema.Resolve, and a loadSchemaList: only the type of the first   *)
(* schema is kept, and in a composite one without a type is an error.      *)
Resolve(r) == IF r = Broken THEN Check("other") ELSE Skip
Detect(n) == IF types[n].simple \in Errors THEN Check(types[n].simple) ELSE Skip
LoadAndDetect(r) == IF r = Broken THEN Check("other") ELSE Detect(r)
FirstType(refs) == IF refs = <<>> THEN "unknown" ELSE types[Head(refs)].simple

(* A property that is a oneOf of a type and null becomes a pointer to that *)
(* type; the error is that of the call that fails first.                   *)
IsUntypedPair(f) == types[f].go = NoType /\ Len(doc[f].oneOf) = 2
ValueSchema(f) ==
  LET a == doc[f].oneOf[1]   b == doc[f].oneOf[2]
  IN  IF types[a].simple = "null" THEN b ELSE a
IsNillable(f) == \E r \in Range(doc[f].oneOf) : types[r].simple = "null"

NillableErr(f) ==
  IF ~IsUntypedPair(f) THEN Skip
  ELSE LET loaded == Each(doc[f].oneOf, LoadAndDetect) IN
       IF loaded.err # "nil" THEN loaded
       ELSE Check(IF IsNillable(f) THEN TypeErr(ValueSchema(f)) ELSE "nil")

PointerTo(t) == [t EXCEPT !.pointer = TRUE]
IsAnyMap(f) == /\ types[f].simple = "object"
               /\ doc[f].props = <<>> /\ doc[f].addl = "true"

(* The Go type of a property, before it is decided whether to point to it. *)
BareFieldType(f) ==
  IF IsAnyMap(f) THEN Builtin("map[string]interface{}")
  ELSE IF IsUntypedPair(f) /\ IsNillable(f) THEN PointerTo(types[ValueSchema(f)].go)
  ELSE IF types[f].go = NoType /\ types[f].simple \notin JSONTypes THEN Interface
  ELSE types[f].go

FieldType(f) ==
  LET t == BareFieldType(f) IN
  IF \/ IsBuiltin(t) /\ t.name \in {"string", "int64", "bool", "float64"}
     \/ ~IsBuiltin(t) /\ types[f].simple = "object" /\ ~AddlPresent(f)
  THEN PointerTo(t) ELSE t

RawMessage == Qualified("encoding/json", "RawMessage")

(* One turn of deriveStructFields, for property p of schema n.  What is    *)
(* named is the schema of the property, even when the type mentioned is    *)
(* that of one of its oneOf.                                               *)
PropertyStep(n, p) ==
  LET f == p.schema
      field(t) == <<Field(p.name, t, p.name \in doc[n].required, ValidatorDeps(f))>>
      typed == Check(IF types[f].simple \in {"other", "hang"}
                     THEN types[f].simple ELSE "nil")
  IN  IF f = Broken THEN Check("other")
      ELSE IF doc[f].raw THEN Step("nil", <<>>, field(RawMessage))
      ELSE LET checked == Then(NillableErr(f), typed) IN
           IF checked.err # "nil" THEN checked
           ELSE Step("nil", IF IsBuiltin(BareFieldType(f)) THEN <<>> ELSE <<f>>,
                     field(FieldType(f)))

DeriveStructFields(n) == Each(doc[n].props, LAMBDA p : PropertyStep(n, p))
-----------------------------------------------------------------------------
Struct(kind, n, type, fields, checked) ==
  Plan(kind, n, type, fields, checked, {},
       {"fmt"} \union Needed(fields),
       {"fmt"} \union Needed(fields) \union TypePaths(fields))
RequiredOf(fields) == {f.json : f \in {g \in Range(fields) : g.required}}

(* mapobj.PlanMap.  In the guard && binds before ||: the type and the      *)
(* properties keep a schema out only together.                             *)
PlanMap(n) ==
  LET s == doc[n]   v == s.addl
      type == IF v \in Nodes THEN types[v].go ELSE Interface
      field == Field("", type, FALSE, IF v \in Nodes THEN ValidatorDeps(v) ELSE {})
      step == IF TypeErr(n) # "nil" THEN Check(TypeErr(n))
              ELSE IF v = Broken THEN Check("other")
              ELSE IF v = "true" THEN Skip
              ELSE IF TypeErr(v) # "nil" THEN Check(TypeErr(v))
              ELSE Step("nil", IF IsBuiltin(type) THEN <<>> ELSE <<v>>, <<>>)
  IN  IF (types[n].chosen # "object" /\ s.props # <<>>) \/ ~AddlPresent(n)
      THEN Refuse("continue", <<>>)
      ELSE Result(step, Plan("map", n, types[n].go, <<field>>, {}, {},
                             Needed(<<field>>), Needed(<<field>>) \union TypePaths(<<field>>)))

(* composite.PlanObject.                                                   *)
PlanObject(n) ==
  LET own == DeriveStructFields(n)
      step == IF types[n].simple \in Errors THEN Check(types[n].simple)
              ELSE IF types[n].simple # "object" THEN Check("continue")
              ELSE IF TypeErr(n) # "nil" THEN Check(TypeErr(n))
              ELSE own
  IN  Result(step, Struct("object", n, types[n].go, own.fields, RequiredOf(own.fields)))

(* Two mutations: the schema of an embedded member is not named, and a     *)
(* member's fields are not looked at for required properties.              *)
MemberUnnamed(n, m) ==
  LET derived == DeriveStructFields(m)
      embedded == Field("", TypeInfoHinted(m, "object"), FALSE, {})
  IN  IF doc[m].promote THEN derived
      ELSE Then([derived EXCEPT !.fields = <<>>], Step("nil", <<>>, <<embedded>>))
SubRequiredOfNone(n) == {}

(* composite.PlanAllOfObject: every member is embedded by name, or its     *)
(* fields are promoted; either way its fields are derived, and those the   *)
(* schema requires are checked.                                            *)
MemberStep(n, m) ==
  LET derived == DeriveStructFields(m)
      embedded == Field("", TypeInfoHinted(m, "object"), FALSE, {})
  IN  IF doc[m].promote THEN derived
      ELSE Then([derived EXCEPT !.fields = <<>>], Step("nil", <<m>>, <<embedded>>))

SubRequired(n) ==
  doc[n].required \intersect
    UNION {{f.json : f \in Range(DeriveStructFields(m).fields)} : m \in Range(doc[n].allOf)}

PlanAllOfObject(n) ==
  LET list == Each(doc[n].allOf, LoadAndDetect)
      type == TypeInfoHinted(n, "object")
      own == DeriveStructFields(n)
      members == Each(doc[n].allOf, LAMBDA m : MemberStep(n, m))
      all == Then(own, members)
  IN  IF list.err # "nil" THEN Refuse(list.err, <<>>)
      ELSE IF FirstType(doc[n].allOf) # "object" \/ type = NoType
      THEN Refuse("continue", <<>>)
      ELSE Result(all, Struct("allOf", n, type, all.fields,
                              RequiredOf(all.fields) \union SubRequired(n)))
(* tuple.PlanTuple: here a schema of unknown type is no error until its Go *)
(* type is asked for.                                                      *)
TupleStep(m) ==
  IF TypeErr(m) # "nil" THEN Check(TypeErr(m))
  ELSE Step("nil", IF IsBuiltin(types[m].go) THEN <<>> ELSE <<m>>,
            <<Field("", types[m].go, FALSE, ValidatorDeps(m))>>)

PlanTuple(n) ==
  LET items == Then(Each(doc[n].tuple, Resolve), Each(doc[n].tuple, TupleStep))
      packages == {"encoding/json", "fmt"} \union Needed(items.fields)
  IN  IF types[n].chosen # "array" THEN Refuse("continue", <<>>)
      ELSE IF TypeErr(n) # "nil" THEN Refuse(TypeErr(n), <<>>)
      ELSE IF doc[n].tuple = <<>> THEN Refuse("continue", <<>>)
      ELSE Result(items, Plan("tuple", n, types[n].go, items.fields, {}, {}, packages,
                              packages \union TypePaths(items.fields)))

(* slice.Build.  Deps lists the type of the items but not what their       *)
(* validators need.                                                        *)
ItemType(m) ==
  LET hinted == TypeInfoHinted(m, types[m].simple)
      t == IF hinted = NoType THEN Interface ELSE hinted
  IN  IF DetectGoBaseType(m) = "struct" THEN PointerTo(t) ELSE t

BuildSlice(n) ==
  LET m == doc[n].items
      type == IF m \in Nodes THEN ItemType(m) ELSE Interface
      field == Field("", type, FALSE, IF m \in Nodes THEN ValidatorDeps(m) ELSE {})
      items == IF m = "absent" THEN Skip
               ELSE Then(LoadAndDetect(m),
                         Step("nil", IF IsBuiltin(type) THEN <<>> ELSE <<m>>, <<>>))
      unique == Check(IF doc[n].unique /\ type.name = "interface{}" THEN "other" ELSE "nil")
  IN  IF types[n].chosen # "array" THEN Refuse("continue", <<>>)
      ELSE IF TypeErr(n) # "nil" THEN Refuse(TypeErr(n), <<>>)
      ELSE Result(Then(items, unique),
                  Plan("slice", n, types[n].go, <<field>>, {}, {},
                       {"fmt"} \union Needed(<<field>>),
                       {"fmt"} \union TypePaths(<<field>>)))

(* composite.PlanDiscriminatedOneOfObject.  The mapping goes by type name: *)
(* of two members of one name the last has all its values.                 *)
MappedStep(n, m) ==
  Check(IF TypeErr(m) # "nil" THEN TypeErr(m)
        ELSE IF types[m].go.name \notin doc[n].mapping THEN "other" ELSE "nil")

MappedTypes(n) ==
  LET type(i) == types[doc[n].oneOf[i]].go
      last == {i \in DOMAIN doc[n].oneOf :
                 \A j \in DOMAIN doc[n].oneOf : j > i => type(j).name # type(i).name}
  IN  {type(i) : i \in last}

PlanDiscriminatedOneOf(n) ==
  LET list == Each(doc[n].oneOf, LoadAndDetect)
      mapped == Then(Check(TypeErr(n)), Each(doc[n].oneOf, LAMBDA m : MappedStep(n, m)))
      fields == <<Field("discriminator", Interface, FALSE, {})>>
      packages == {"fmt", "encoding/json"}
  IN  IF ~doc[n].discriminator THEN Refuse("continue", <<>>)
      ELSE IF list.err # "nil" THEN Refuse(list.err, <<>>)
      ELSE IF FirstType(doc[n].oneOf) # "object" THEN Refuse("continue", <<>>)
      ELSE Result(Then(mapped, Step("nil", doc[n].oneOf, <<>>)),
                  Plan("discriminated", n, types[n].go, fields, {}, MappedTypes(n),
                       packages, packages))

(* composite.PlanOneOfDiffTypes: no two members may look alike in JSON,    *)
(* where an integer is a number.                                           *)
TypeAsToken(m) == types[m].simple    \* a mutation: an integer is no number
TokenOf(m) == IF types[m].simple = "integer" THEN "number" ELSE types[m].simple
SeenTwice(refs) == \E i, j \in DOMAIN refs : i # j /\ TokenOf(refs[i]) = TokenOf(refs[j])

ValueStep(m) ==
  Then(Check(TypeErr(m)),
       Step("nil", IF IsBuiltin(types[m].go) THEN <<>> ELSE <<m>>, <<>>))

PlanOneOfDiffTypes(n) ==
  LET refs == doc[n].oneOf
      list == Each(refs, LoadAndDetect)
      values == Each(refs, ValueStep)
      fields == <<Field("", Interface, FALSE, UNION {ValidatorDeps(m) : m \in Range(refs)})>>
      packages == {"fmt", "encoding/json", "bytes"} \union Needed(fields)
      containers == {m \in Range(refs) : TokenOf(m) \in {"object", "array"}}
  IN  IF list.err # "nil" THEN Refuse(list.err, <<>>)
      ELSE IF refs = <<>> \/ SeenTwice(refs) \/ TypeInfoHinted(n, "object") = NoType
      THEN Refuse("continue", <<>>)
      ELSE Result(values,
                  Plan("oneOf", n, TypeInfoHinted(n, "object"), fields, {},
                       {types[m].go : m \in containers}, packages, packages))
-----------------------------------------------------------------------------
(* planning.Composite, in the order it tries them.                         *)
NumComposite == 7
Composite(i, n) ==
  IF i = 1 THEN PlanMap(n)
  ELSE IF i = 2 THEN PlanAllOfObject(n)
  ELSE IF i = 3 THEN PlanObject(n)
  ELSE IF i = 4 THEN PlanTuple(n)
  ELSE IF i = 5 THEN BuildSlice(n)
  ELSE IF i = 6 THEN PlanDiscriminatedOneOf(n)
  ELSE PlanOneOfDiffTypes(n)
=============================================================================
