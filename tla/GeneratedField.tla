--------------------------- MODULE GeneratedField ---------------------------
(***************************************************************************)
(* The life of a value of generated code, a field of a generated struct or *)
(* one alone: json.Unmarshal reads it, Validate accepts it or not          *)
(* (internal/composite/struct.tmpl over the tests of FieldValues for a     *)
(* field, NamedTypes for one alone), and what is accepted is marshalled    *)
(* and read again at the other end.  What is marshalled is a pointer to    *)
(* the struct, as MarshalJSON of a oneOf asks.                             *)
(***************************************************************************)
EXTENDS NamedTypes

CONSTANTS FieldSchemas, Inputs

ASSUME FieldSchemasAssumption ==
  \A s \in FieldSchemas :
    /\ s.kind \in {"string", "integer", "object", "array", "map", "any", "raw",
                   "oneOf", "discriminated", "tuple"}
    /\ s.alone => s.kind \in {"array", "map", "oneOf", "discriminated", "tuple"}
    /\ s.width \in Nat
    /\ {s.required, s.alone, s.nullable, s.default, s.noValidate, s.closed,
        s.noOmitEmpty, s.omitEmptyArray} \subseteq BOOLEAN

(* Of the items of an array, or the values of a map: what no validator is  *)
(* there for is not refused as null, only a nil pointer to a struct with   *)
(* something to check is read, and what is nil cannot be compared.         *)
ASSUME ItemsAssumption ==
  \A s \in FieldSchemas : \A m \in s.members \union {s} :
    /\ m.item \in [checked : BOOLEAN, null : {ZeroItem, NilItem},
                   nullVerdict : {"valid", "invalid", "panic"}, nullMeets : BOOLEAN]
    /\ ~m.item.checked => m.item.nullVerdict = "valid"
    /\ m.item.nullVerdict = "panic" => m.item.null = NilItem
    /\ m.uniqueItems => m.item.null = ZeroItem

(* A limit is a number.  What can be nullable, or the member of a oneOf, is*)
(* what deriveStructFields and PlanOneOfDiffTypes make so: members are told*)
(* apart by their tokens.                                                  *)
ASSUME KeywordsAssumption ==
  \A s \in FieldSchemas : \A m \in s.members \union {s} :
    /\ {m.minLength, m.minItems, m.minProperties} \subseteq Nat
    /\ UNION {m.maxLength, m.minimum, m.maximum, m.exclusiveMinimum,
              m.exclusiveMaximum, m.maxItems, m.maxProperties} \subseteq Nat
    /\ m.multipleOf \subseteq Nat \ {0}
    /\ {m.uniqueItems, m.minimumIsExclusive, m.maximumIsExclusive,
        m.closed, m.noValidate, m.alone, m.nullable} \subseteq BOOLEAN
ASSUME MembersAssumption ==
  \A s \in FieldSchemas :
    /\ s.nullable => \/ s.kind = "oneOf"
                     \/ ~s.alone /\ s.kind \in {"string", "integer", "array", "object"}
    /\ s.kind = "oneOf" =>
         /\ \A m \in s.members :
              m.kind \in {"string", "integer", "array", "object"} /\ ~m.nullable /\ ~m.alone
         /\ \A m, n \in s.members : m.kind = n.kind => m = n

ASSUME InputsAssumption ==
  \A j \in Inputs : /\ j \in Values \union {Absent, Null}
                    /\ j.t = "array" => NilItem \notin Range(j.items)

VARIABLES schema,       \* of the property; "required" is the struct's
          json,         \* the JSON to be read: a value, Absent or Null
          field,        \* the Go field, or value
          pc, verdict,
          round, first  \* how often it was read, and what was first read
vars == <<schema, json, field, pc, verdict, round, first>>

IsPointer(s) == s.kind \in {"string", "integer", "object"} \/ (s.nullable /\ s.kind # "oneOf")

(* Types that are not nil when nothing is read, and have an UnmarshalJSON. *)
HasUnmarshaler(s) == s.kind \in {"oneOf", "discriminated", "tuple"}
-----------------------------------------------------------------------------
(* encoding/json.  null leaves a field nil, but for a RawMessage, which    *)
(* keeps whatever is there, and a type with an UnmarshalJSON, which is     *)
(* given it.  A value alone cannot be absent.  (The text of a RawMessage   *)
(* is taken as Marshal leaves it: no space, and what it escapes escaped.)  *)
JSONTypeOf(s) == IF s.kind = "map" THEN "object" ELSE s.kind
Fits(s, j) ==
  IF j = Absent THEN ~s.alone
  ELSE IF s.alone \/ HasUnmarshaler(s) THEN Decodes(s, j)
  ELSE j = Null \/ s.kind \in {"any", "raw"} \/ j.t = JSONTypeOf(s)
Unmarshal(s, j) ==
  IF j = Absent THEN IF s.kind = "tuple" THEN FillTuple(s, <<>>) ELSE Nil
  ELSE IF s.alone \/ HasUnmarshaler(s) \/ s.kind = "array" THEN Decoded(s, j)
  ELSE IF j = Null /\ s.kind # "raw" THEN Nil ELSE j

(* What omitempty omits, the tag that asks for it, and Marshal.  A nil     *)
(* pointer is empty, an empty array behind a pointer is not.               *)
IsEmpty(s, f) == \/ f = Nil
                 \/ ~s.nullable /\ s.kind = "array" /\ f.items = <<>>
                 \/ s.kind = "map" /\ f.size = 0
OmitEmptyUnlessTold(s) == ~s.noOmitEmpty   \* a mutation: arrays as others
HasOmitEmpty(s) ==
  ~((s.kind = "array" /\ ~s.nullable /\ ~s.omitEmptyArray) \/ s.noOmitEmpty)
Marshal(s, f) ==
  IF ~s.alone /\ ~HasUnmarshaler(s) /\ HasOmitEmpty(s) /\ IsEmpty(s, f)
  THEN Absent ELSE Encoded(f)
-----------------------------------------------------------------------------
(* struct.tmpl: first the required fields, then the validators.  A test    *)
(* reads the field where it is required, as it was then found to be set,   *)
(* and else where it is not nil, but for the Validate of a slice.  A nil   *)
(* pointer that is read is a panic.                                        *)
Missing(s, f) == s.required /\ f = Nil
GuardedUnlessSubschema(v, s) == ~s.required /\ v # "subschema"   \* a mutation
Guarded(v, s) == ~s.required /\ (v # "subschema" \/ IsPointer(s))
Tested(s, f) == {v \in Validators(s) : ~(Guarded(v, s) /\ f = Nil)}
Outcome(v, s, f) ==
  IF v # "subschema" THEN VerdictIf(Test(v, s, f))
  ELSE IF s.kind = "array" THEN SliceVerdict(s, f) ELSE VerdictIf(~f.ok)
ValidateStruct(s, f) ==
  IF Missing(s, f) THEN "required"
  ELSE IF IsPointer(s) /\ f = Nil /\ Tested(s, f) # {} THEN "panic"
  ELSE LET outcomes == {Outcome(v, s, f) : v \in Tested(s, f)}
       IN  IF outcomes \subseteq {"valid"} THEN "valid"
           ELSE IF "panic" \in outcomes THEN "panic" ELSE "invalid"

Validate(s, f) == IF s.alone THEN Verdict(s, f) ELSE ValidateStruct(s, f)
-----------------------------------------------------------------------------
Init == /\ schema \in FieldSchemas /\ json \in Inputs
        /\ field = Nil /\ pc = "unmarshal" /\ verdict = "none"
        /\ round = 1 /\ first = [json |-> json, field |-> Nil]

UnmarshalFails ==
  /\ pc = "unmarshal" /\ ~Fits(schema, json)
  /\ verdict' = "misfit" /\ pc' = "end"
  /\ UNCHANGED <<schema, json, field, round, first>>

(* A mutation of UnmarshalOk: the error of json.Unmarshal is not looked at. *)
UnmarshalAnyhow ==
  /\ pc = "unmarshal"
  /\ field' = Unmarshal(schema, json)
  /\ first' = IF round = 1 THEN [first EXCEPT !.field = field'] ELSE first
  /\ pc' = "validate"
  /\ UNCHANGED <<schema, json, verdict, round>>

UnmarshalOk ==
  /\ pc = "unmarshal" /\ Fits(schema, json)
  /\ field' = Unmarshal(schema, json)
  /\ first' = IF round = 1 THEN [first EXCEPT !.field = field'] ELSE first
  /\ pc' = "validate"
  /\ UNCHANGED <<schema, json, verdict, round>>

ValidateField ==
  /\ pc = "validate"
  /\ verdict' = Validate(schema, field)
  /\ pc' = IF verdict' = "valid" /\ round = 1 THEN "marshal" ELSE "end"
  /\ UNCHANGED <<schema, json, field, round, first>>

MarshalAndSend ==
  /\ pc = "marshal"
  /\ json' = Marshal(schema, field)
  /\ pc' = "unmarshal" /\ round' = 2 /\ verdict' = "none"
  /\ UNCHANGED <<schema, field, first>>

Next == UnmarshalFails \/ UnmarshalOk \/ ValidateField \/ MarshalAndSend
Spec == Init /\ [][Next]_vars
-----------------------------------------------------------------------------
TypeOK ==
  /\ pc \in {"unmarshal", "validate", "marshal", "end"}
  /\ verdict \in {"none", "misfit", "required", "panic", "invalid", "valid"}
  /\ field = Nil \/ Fits(schema, field)
  /\ round \in {1, 2}

(* What JSON Schema says of the value.  In a property null is as good as   *)
(* absent, which the repository's tests call "don't differentiate from     *)
(* unset", unless the schema is a oneOf.                                   *)
Between(x, low, high) == (\A n \in low : n <= x) /\ (\A n \in high : x <= n)
Strictly(x, low, high) == (\A n \in low : n < x) /\ (\A n \in high : x < n)

StringMeets(s, j) == /\ Between(j.chars, {s.minLength}, s.maxLength)
                     /\ s.enum # {} => j \in s.enum
IntegerMeets(s, j) ==
  /\ Between(j.n, s.minimum, s.maximum)
  /\ Strictly(j.n, s.exclusiveMinimum, s.exclusiveMaximum)
  /\ s.minimumIsExclusive => j.n \notin s.minimum
  /\ s.maximumIsExclusive => j.n \notin s.maximum
  /\ \A n \in s.multipleOf : \E k \in 0..j.n : j.n = k * n
  /\ s.enum # {} => j \in s.enum
ZeroMeets(s) == s.item.null = ZeroItem => s.item.nullVerdict # "invalid"
ArrayMeets(s, j) ==
  /\ BadItem \notin Range(j.items)
  /\ NullItem \in Range(j.items) => s.item.nullMeets
  /\ ZeroItem \in Range(j.items) => ZeroMeets(s)
  /\ Between(Len(j.items), {s.minItems}, s.maxItems)
  /\ s.uniqueItems => \A a, b \in DOMAIN j.items : j.items[a] = j.items[b] => a = b

IsRawString(s) == s.kind = "raw" /\ Validators(s) # {}

ValueMeets(s, j) ==
  \/ s.kind = "string" /\ j.t = "string" /\ StringMeets(s, j)
  \/ s.kind = "integer" /\ j.t = "integer" /\ IntegerMeets(s, j)
  \/ s.kind = "array" /\ j.t = "array" /\ ((s.noValidate /\ ~s.alone) \/ ArrayMeets(s, j))
  \/ s.kind = "object" /\ j.t = "object" /\ (s.noValidate \/ j.ok)
  \/ /\ s.kind = "map" /\ j.t = "object"
     /\ Between(j.size, {s.minProperties}, s.maxProperties) /\ j.ok
  \/ s.kind = "discriminated" /\ j.t = "object" /\ (j.tag = "known" \/ s.default) /\ j.ok
  \/ s.kind = "tuple" /\ j.t = "array" /\ Len(j.items) >= s.minItems
  \/ s.kind = "any"
  \/ s.kind = "raw" /\ (IsRawString(s) => j.t = "string" /\ StringMeets(s, j))

Meets(s, j) ==
  IF j = Absent THEN ~s.alone /\ ~s.required
  ELSE IF s.kind = "oneOf"
  THEN (j = Null /\ s.nullable) \/ \E m \in s.members : ValueMeets(m, j)
  ELSE IF s.nullable THEN j = Null \/ ValueMeets(s, j)
  ELSE IF j = Null
  THEN (s.kind = "raw" /\ ~IsRawString(s)) \/ (~s.alone /\ ~s.required /\ s.kind # "discriminated")
  ELSE ValueMeets(s, j)

(* Where the generated code is known to depart from that.                  *)
AbsentTooShort(s, j) == s.kind = "array" /\ s.minItems > 0 /\ j.t \in {"absent", "null"}
Multibyte(j) == j.t = "string" /\ j.bytes # j.chars
LimitIsLost(s) == \/ s.maxLength = {0}
                  \/ s.minimum # {} /\ s.exclusiveMinimum # {}
                  \/ s.maximum # {} /\ s.exclusiveMaximum # {}
HasQuirk(s, j) == \/ AbsentTooShort(s, j) \/ Multibyte(j)
                  \/ IsRawString(s) /\ j # Absent
                  \/ \E m \in s.members \union {s} : m.kind = j.t /\ LimitIsLost(m)

(* What is read and then accepted unseen: a property that is nullable, a   *)
(* map, a oneOf or a tuple; an object in a oneOf; what a discriminator     *)
(* selects; a tuple; a property or a member that is a closed object or     *)
(* array; null for an array or a map; items and values without a check,    *)
(* and null for an item of which what it is read as passes.                *)
ItemsUnseen(s, j) ==
  /\ j.t = "array"
  /\ \/ BadItem \in Range(j.items) /\ ~s.item.checked
     \/ /\ NullItem \in Range(j.items)
        /\ ~s.item.nullMeets /\ s.item.nullVerdict = "valid"
Unseen(s, j) ==
  \/ ~s.alone /\ (s.nullable \/ s.kind \in {"map", "oneOf"})
  \/ s.kind \in {"discriminated", "tuple"}
  \/ s.kind = "oneOf" /\ j.t = "object"
  \/ s.alone /\ j = Null
  \/ j.t \in {"array", "object"} /\ ~MemberFor(s, j).alone /\ MemberFor(s, j).closed
  \/ j.t = "array" /\ ItemsUnseen(MemberFor(s, j), j)
  \/ s.kind = "map" /\ j.t = "object" /\ ~j.ok /\ ~s.item.checked
(* Three that are valid and refused: null where it is required, as a       *)
(* member of the oneOf allows; what a member of a oneOf is not to validate;*)
(* and null for an item that may be null and is read as what may not be.   *)
Refused(s, j) ==
  \/ s.nullable /\ s.required /\ j = Null
  \/ s.kind = "oneOf" /\ j.t = "array" /\ \E m \in s.members : m.noValidate
  \/ /\ j.t = "array" /\ NullItem \in Range(j.items)
     /\ \E m \in s.members \union {s} :
          m.item.nullMeets /\ (m.item.nullVerdict # "valid" \/ m.uniqueItems)

(* Whatever the keywords, a value is read and accepted if and only if it   *)
(* meets them, those few departures aside; and unseen or not, a value that *)
(* does meet them is accepted.                                             *)
AcceptsWhatIsValid ==
  pc = "marshal" \/ (pc = "end" /\ round = 1) =>
    \/ HasQuirk(schema, json) \/ Refused(schema, json)
    \/ Meets(schema, json) /\ verdict = "valid"
    \/ ~Meets(schema, json) /\ (verdict # "valid" \/ Unseen(schema, json))

(* No nil pointer is dereferenced in a field: a test that reads it without *)
(* a guard is behind the test that the field is set.  Only null in an      *)
(* array of structs that have something to check makes Validate panic.     *)
NilIsNotRead ==
  verdict = "panic" => field # Nil /\ field.t = "array" /\ NilItem \in Range(field.items)

(* What was accepted is accepted at the other end too, with the same       *)
(* value, but for nil in place of one that is empty, null in a RawMessage  *)
(* that is written even if nil, and zeros in place of the items a tuple    *)
(* lacks.  The exceptions: omitempty takes an empty map or array for none, *)
(* and it may be required; an absent oneOf is written as null, which is    *)
(* not one of its members; and so is an absent RawMessage without an       *)
(* omitempty, whose text may be too short then.                            *)
EmptyContainer(s, f) == \/ s.kind = "map" /\ f # Nil /\ f.size = 0
                        \/ s.kind = "array" /\ f # Nil /\ f.items = <<>>
IsLost(s, f) == /\ s.required /\ EmptyContainer(s, f)
                /\ ~s.noOmitEmpty /\ (s.kind = "map" \/ s.omitEmptyArray)
NullForNone(s, f) == /\ f = Nil
                     /\ \/ s.kind = "oneOf" /\ ~s.nullable
                        \/ s.kind = "discriminated" /\ ~s.default
                        \/ IsRawString(s) /\ s.noOmitEmpty
SameButNil(s, f, g) ==
  \/ f = g
  \/ f = Nil /\ EmptyContainer(s, g)
  \/ f = Null /\ g = Nil /\ s.kind = "raw" /\ s.noOmitEmpty
  \/ f = ZeroObject /\ g = Nil /\ s.kind = "discriminated"
  \/ /\ s.kind = "tuple"
     /\ \A k \in 1..s.width :
          f.items[k] = g.items[k] \/ (f.items[k] = ZeroItem /\ g.items[k] = NilItem)
ValidStaysValid ==
  round = 2 =>
    /\ pc = "end" => \/ verdict = "valid"
                     \/ IsLost(schema, first.field) \/ NullForNone(schema, first.field)
    /\ pc = "validate" \/ verdict \in {"valid", "invalid", "required"} =>
         SameButNil(schema, field, first.field)

(* The generated comment: "Validate returns an error if this value is      *)
(* invalid according to rules defined in" the schema.  It does not always. *)
InvalidIsRejected ==
  pc = "marshal" => Meets(schema, json)
=============================================================================
