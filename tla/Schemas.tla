------------------------------- MODULE Schemas -------------------------------
(***************************************************************************)
(* The loaded schemas and what the planners ask about them: ChooseType     *)
(* (pkg/gen/schema.go), the type detection of the crawl's helper           *)
(* (internal/crawl/crawl.go) and the Typer's Go types                      *)
(* (internal/planning/planner.go).                                         *)
(*                                                                         *)
(* A schema is its address.  A RefOrSchema is the address Resolve returns  *)
(* for it, or Broken when its reference does not load.  Of a schema's      *)
(* keywords the record keeps those the planners branch on.  props is a     *)
(* sequence, in the order of the names: deriveStructFields sorts them.     *)
(***************************************************************************)
EXTENDS Naturals, Sequences, FiniteSets, Functions

CONSTANTS Nodes,        \* addresses of schemas
          Broken,       \* a reference that does not load
          Ids, Paths    \* what IDs and Go packages there are

ASSUME BrokenIsNoNode == Broken \notin Nodes
ASSUME NodesAreAddresses == Nodes \intersect {"absent", "false", "true"} = {}
ASSUME BuiltinsHaveAPath == "" \in Paths

VARIABLES doc,          \* rigid: the record of every schema
          types         \* rigid: TypesOf, what is made of its type

JSONTypes == {"array", "boolean", "integer", "null", "number", "object", "string"}

Refs == Nodes \union {Broken}

(* type is the first of the "type" keyword's names, "unknown" when that is *)
(* no JSON type.  path and name are what TypeFunc makes of the ID or of    *)
(* the gopath, gopath whether Config.GoPath is set.                        *)
Blank == [id |-> "", type |-> "absent", props |-> <<>>, required |-> {},
          addl |-> "absent",
          objectHints |-> FALSE,                \* patternProperties, min/maxProperties
          items |-> "absent", tuple |-> <<>>, unique |-> FALSE,
          arrayHints |-> FALSE,                 \* min/maxItems
          pattern |-> FALSE, stringHints |-> FALSE,     \* min/maxLength
          multipleOf |-> FALSE,
          allOf |-> <<>>, oneOf |-> <<>>, anyOf |-> <<>>,
          path |-> "", name |-> "", gopath |-> FALSE,
          exclude |-> FALSE, noValidate |-> FALSE, promote |-> FALSE, raw |-> FALSE,
          discriminator |-> FALSE,
          mapping |-> {}]                       \* type names it maps to

Property == [name : STRING, schema : Refs]
Schema == [id : Ids, type : JSONTypes \union {"absent", "unknown"},
           props : Seq(Property), required : SUBSET STRING,
           addl : Refs \union {"absent", "false", "true"},
           items : Refs \union {"absent"}, tuple : Seq(Refs), unique : BOOLEAN,
           objectHints : BOOLEAN, arrayHints : BOOLEAN, stringHints : BOOLEAN,
           pattern : BOOLEAN, multipleOf : BOOLEAN,
           allOf : Seq(Refs), oneOf : Seq(Refs), anyOf : Seq(Refs),
           path : Paths, name : STRING, gopath : BOOLEAN,
           exclude : BOOLEAN, noValidate : BOOLEAN, promote : BOOLEAN, raw : BOOLEAN,
           discriminator : BOOLEAN, mapping : SUBSET STRING]

(* BoolOrSchema.Present: false is as good as absent.                       *)
AddlPresent(n) == doc[n].addl \notin {"absent", "false"}

(* A mutation of ChooseType: allOf is no evidence of an object.            *)
ChooseTypeIgnoringAllOf(n) ==
  LET s == doc[n] IN
  IF s.type # "absent" THEN s.type
  ELSE IF s.props # <<>> \/ AddlPresent(n) \/ s.objectHints THEN "object"
  ELSE IF s.items # "absent" \/ s.tuple # <<>> \/ s.unique \/ s.arrayHints THEN "array"
  ELSE IF s.pattern \/ s.stringHints THEN "string"
  ELSE "unknown"

(* The type named first, or else the one the other keywords give away.     *)
ChooseType(n) ==
  LET s == doc[n] IN
  IF s.type # "absent" THEN s.type
  ELSE IF s.props # <<>> \/ AddlPresent(n) \/ s.objectHints \/ s.allOf # <<>> THEN "object"
  ELSE IF s.items # "absent" \/ s.tuple # <<>> \/ s.unique \/ s.arrayHints THEN "array"
  ELSE IF s.pattern \/ s.stringHints THEN "string"
  ELSE "unknown"
-----------------------------------------------------------------------------
(* An error is what errors.Is makes of it: gen.ErrContinue, ErrUnknownType *)
(* of the Typer, errTypeUnknown of the helper, or any other.  "hang" is no *)
(* error: the call does not return.                                        *)
Declining == {"continue", "unknown type", "unknown simple type"}
Errors == Declining \union {"other", "hang"}

(* DetectSimpleType past its first turn: level[k] are the schemas reached  *)
(* through k allOf.  It stops at the first level that is empty, does not   *)
(* load, or has a type.  Only schemas whose "type" names no JSON type let  *)
(* it pass, and if those are each other's allOf it does not come back:     *)
(* after as many levels as there are such schemas, one has been met twice. *)
Untyped == {m \in Nodes : ChooseType(m) = "unknown" /\ doc[m].allOf # <<>>}

SearchAllOf(n) ==
  LET level[k \in 0..Cardinality(Untyped)] ==
        IF k = 0 THEN {n} ELSE UNION {Range(doc[m].allOf) : m \in level[k - 1] \ {Broken}}
      found(k) == {ChooseType(m) : m \in level[k]} \ {"unknown"}
      stops(k) == level[k] = {} \/ Broken \in level[k] \/ found(k) # {}
      first == {k \in DOMAIN level : stops(k) /\ \A j \in 0..(k - 1) : ~stops(j)}
  IN  IF first = {} THEN "hang"
      ELSE LET k == CHOOSE k \in first : TRUE IN
           IF level[k] = {} THEN "unknown simple type"
           ELSE IF Broken \in level[k] \/ Cardinality(found(k)) > 1 THEN "other"
           ELSE CHOOSE t \in found(k) : TRUE

DetectSimpleType(n) ==
  IF ChooseType(n) # "unknown" THEN ChooseType(n)
  ELSE IF doc[n].allOf = <<>> THEN "unknown simple type"
  ELSE SearchAllOf(n)

-----------------------------------------------------------------------------
(* gen.TypeInfo.  A built-in type has no path; the zero value is Unknown.  *)
Builtin(name) == [path |-> "", name |-> name, pointer |-> FALSE]
NoType == Builtin("")
Interface == Builtin("interface{}")
Qualified(path, name) == [path |-> path, name |-> name, pointer |-> FALSE]
IsBuiltin(t) == t.path = ""

Primitives == [boolean |-> "bool", integer |-> "int64", number |-> "float64",
               null |-> "interface{}", string |-> "string"]
Primitive(t) == IF t \in DOMAIN Primitives THEN Primitives[t] ELSE ""

TypeInfoHinted(n, t) ==
  IF t \in {"unknown", "array", "object"} /\ doc[n].name # ""
  THEN Qualified(doc[n].path, doc[n].name)
  ELSE Builtin(Primitive(t))

(* Typer.typeInfo, and TypeInfo but for the error.                         *)
TypeInfo(n) ==
  LET t == ChooseType(n) IN
  IF t \notin {"array", "object"} /\ ~doc[n].gopath
  THEN Builtin(Primitive(t))
  ELSE TypeInfoHinted(n, t)

(* The helper works these out at every call; they depend on doc alone.     *)
TypesOf == [n \in Nodes |-> [chosen |-> ChooseType(n), simple |-> DetectSimpleType(n),
                             go |-> TypeInfo(n)]]

(* What TypeInfo returns besides: an unknown type is an error of its own.  *)
TypeErr(n) == IF types[n].go = NoType THEN "unknown type" ELSE "nil"

(* DetectGoBaseType.                                                       *)
GoBase == [boolean |-> "bool", integer |-> "int64", number |-> "float64",
           string |-> "string", null |-> "empty"]
DetectGoBaseType(n) ==
  LET t == types[n].simple IN
  IF doc[n].allOf # <<>> \/ doc[n].oneOf # <<>> \/ doc[n].anyOf # <<>> THEN "struct"
  ELSE IF t \in Errors THEN t
  ELSE IF t = "array" THEN IF doc[n].tuple # <<>> THEN "array" ELSE "slice"
  ELSE IF t = "object" THEN IF doc[n].props # <<>> THEN "struct" ELSE "map"
  ELSE GoBase[t]

(* The packages the validators of a schema's values need.                  *)
ValidatorDeps(n) ==
  IF types[n].chosen = "string" /\ doc[n].pattern THEN {"regexp"}
  ELSE IF types[n].chosen = "number" /\ doc[n].multipleOf THEN {"math"}
  ELSE {}
=============================================================================
