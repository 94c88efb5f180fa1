----------------------------- MODULE NamedTypes -----------------------------
(***************************************************************************)
(* What the named types of a generated file make of a value that is theirs *)
(* alone: whether json.Unmarshal reads it (Decodes) and as what (Decoded), *)
(* what their Validate says of it (Verdict), and what json.Marshal writes  *)
(* (Encoded).  They are the slices of slice.tmpl, the maps of map.tmpl,    *)
(* the arrays of tuple.tmpl and, from struct.tmpl, the structs around an   *)
(* interface{} for a oneOf whose members the first JSON token tells apart, *)
(* and for one whose members a property tells apart.                       *)
(*                                                                         *)
(* Items of arrays are names.  A nil one is written as null.  A bad one is *)
(* read, and does not meet the schema of the items.                        *)
(***************************************************************************)
EXTENDS FieldValues

ZeroItem == "zero"
NilItem == "nil"
NullItem == "null"
BadItem == "bad"

CONSTANT ItemNames
ASSUME ItemNamesAssumption == {ZeroItem, NilItem, NullItem, BadItem} \subseteq ItemNames

Values == [t : {"string"}, bytes : Nat, chars : Nat]
            \union [t : {"integer"}, n : Nat]
            \union [t : {"array"}, items : Seq(ItemNames)]
            \union [t : {"object"}, size : Nat, ok : BOOLEAN, tag : {"known", "other", "none"}]

(* An array read into a slice, and into a Go array: there items too many   *)
(* are not kept, and for those too few the interface{} stays nil.  (A      *)
(* tuple's own items are not of types with a MarshalJSON.)                 *)
ReadItem(s, item) == IF item # NullItem THEN item ELSE s.item.null
FillSlice(s, j) == [j EXCEPT !.items = [k \in DOMAIN @ |-> ReadItem(s, @[k])]]
FillTuple(s, items) ==
  [t |-> "array", items |->
     [k \in 1..s.width |-> IF k > Len(items) THEN NilItem ELSE ReadItem(s, items[k])]]

MembersFor(s, j) == {m \in s.members : m.kind = j.t}
MemberFor(s, j) == IF s.kind = "oneOf" THEN CHOOSE m \in MembersFor(s, j) : TRUE ELSE s
ZeroObject == [t |-> "object", size |-> 0, ok |-> FALSE, tag |-> "none"]

(* UnmarshalJSON of a oneOf goes by the first token.  With a discriminator *)
(* any object will do that states a known one, and if there is a default   *)
(* ("*") any object, and null: it leaves the discriminator empty.          *)
Decodes(s, j) ==
  \/ s.kind = "oneOf" /\ (MembersFor(s, j) # {} \/ (j = Null /\ s.nullable))
  \/ /\ s.kind = "discriminated"
     /\ \/ j.t = "object" /\ (j.tag = "known" \/ s.default)
        \/ j = Null /\ s.default
  \/ s.kind \in {"array", "tuple"} /\ (j = Null \/ j.t = "array")
  \/ s.kind = "map" /\ (j = Null \/ j.t = "object")

Decoded(s, j) ==
  IF s.kind = "tuple" THEN FillTuple(s, IF j = Null THEN <<>> ELSE j.items)
  ELSE IF j = Null THEN IF s.kind = "discriminated" THEN ZeroObject ELSE Nil
  ELSE IF j.t = "array" THEN FillSlice(MemberFor(s, j), j) ELSE j

VerdictIf(invalid) == IF invalid THEN "invalid" ELSE "valid"

(* A slice has its own validators, then those of its items, in order.  Of  *)
(* a nil item too Validate is called: that of a struct with something to   *)
(* check reads its fields.  An error returns before what else may panic.   *)
Items(f) == IF f = Nil THEN <<>> ELSE f.items
SliceIsInvalid(s, f) ==
  \/ Len(Items(f)) < s.minItems
  \/ \E n \in s.maxItems : Len(Items(f)) > n
  \/ s.uniqueItems /\ Cardinality(Range(Items(f))) # Len(Items(f))
ItemVerdict(s, item) ==
  IF item = s.item.null THEN s.item.nullVerdict
  ELSE VerdictIf(item = BadItem /\ s.item.checked)

SliceVerdict(s, f) ==
  LET verdicts == [k \in DOMAIN Items(f) |-> ItemVerdict(s, Items(f)[k])]
      stops == {k \in DOMAIN verdicts : verdicts[k] # "valid"}
  IN  IF SliceIsInvalid(s, f) THEN "invalid"
      ELSE IF \E k \in stops : verdicts[k] = "panic" /\ \A l \in stops : k <= l
      THEN "panic" ELSE VerdictIf(stops # {})

(* A map's values are validated one by one, if they are; nil is an empty   *)
(* map.                                                                    *)
MapIsInvalid(s, f) ==
  LET size == IF f = Nil THEN 0 ELSE f.size
  IN  \/ size < s.minProperties \/ \E n \in s.maxProperties : size > n
      \/ f # Nil /\ ~f.ok /\ s.item.checked

(* The validators of all members, each behind the type it implies; one     *)
(* "subschema" does for all.  It asks whether what is in the interface{}   *)
(* has a Validate: a slice has, a struct has not, as it is Validate of the *)
(* pointer and the struct was boxed by value.                              *)
OneOfVerdict(s, f) ==
  LET used == UNION {Validators(m) : m \in s.members}
  IN  IF f.t = "array" THEN
        IF "subschema" \in used
        THEN SliceVerdict(MemberFor(s, f), f) ELSE "valid"
      ELSE VerdictIf(\E m \in MembersFor(s, f) : \E v \in Validators(m) \ {"subschema"} : Test(v, m, f))

Verdict(s, f) ==
  CASE s.kind = "array" -> SliceVerdict(s, f)
    [] s.kind = "map" -> VerdictIf(MapIsInvalid(s, f))
    [] s.kind = "oneOf" -> OneOfVerdict(s, f)
    [] s.kind \in {"discriminated", "tuple"} -> "valid"

Encoded(f) ==
  IF f = Nil THEN Null
  ELSE IF f.t # "array" THEN f
  ELSE [f EXCEPT !.items = [k \in DOMAIN @ |-> IF @[k] = NilItem THEN NullItem ELSE @[k]]]
=============================================================================
