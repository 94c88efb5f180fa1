----------------------------- MODULE FieldValues -----------------------------
(***************************************************************************)
(* JSON values, the schemas of properties, and the tests that              *)
(* internal/validator/validator.go and internal/slice have generated for   *)
(* them.                                                                   *)
(*                                                                         *)
(* A keyword that may be absent is a set of at most one number.  A JSON    *)
(* value is a record with its type t; of a string there are its length in  *)
(* bytes and in characters; of an array its items; of an object its size,  *)
(* the discriminator it states, and whether what it holds is valid (ok):   *)
(* of a struct, as its Validate tells, of which this is about one field.   *)
(***************************************************************************)
EXTENDS Naturals, Sequences, FiniteSets, Functions

CONSTANT TextLength(_)    \* the bytes of a value as JSON text

Absent == [t |-> "absent"]
Null == [t |-> "null"]
Nil == [t |-> "nil"]

(* kind tells the Go type: a string, int64 or struct, a named slice or     *)
(* map, interface{}, json.RawMessage, or the named type of a oneOf, with   *)
(* or without a discriminator, or of a tuple.  The value is a field of a   *)
(* struct, or alone.  nullable: it is the member of a oneOf whose other    *)
(* member is null, or it is a oneOf with such a member.                    *)
(*                                                                         *)
(* item is the schema of an array's items or a map's values.  checked: a   *)
(* validator of it, or the Validate it calls, refuses what is bad.  There  *)
(* is none for what is closed, a map or noValidate, nor in a struct with   *)
(* nothing to check.  null: what null is read as, nil where the Go type is *)
(* a pointer, as a struct's is in a slice, a slice, map or interface{},    *)
(* else a zero value; nullVerdict is what is then said of that, and        *)
(* nullMeets whether the schema allows null.                               *)
PropertySchema ==
  [kind |-> "any", required |-> FALSE,
   minLength |-> 0, maxLength |-> {},
   minimum |-> {}, maximum |-> {},
   exclusiveMinimum |-> {}, exclusiveMaximum |-> {},            \* if numbers,
   minimumIsExclusive |-> FALSE, maximumIsExclusive |-> FALSE,  \* if booleans
   multipleOf |-> {}, enum |-> {},
   minItems |-> 0, maxItems |-> {}, uniqueItems |-> FALSE,
   item |-> [checked |-> TRUE, null |-> "zero",
             nullVerdict |-> "valid", nullMeets |-> FALSE],
   minProperties |-> 0, maxProperties |-> {},
   closed |-> FALSE,             \* additionalProperties: false, or any of an array
   alone |-> FALSE, nullable |-> FALSE,
   members |-> {}, default |-> FALSE,                           \* of a oneOf
   width |-> 0,                                                 \* of a tuple
   noValidate |-> FALSE, noOmitEmpty |-> FALSE, omitEmptyArray |-> FALSE]

(* validator.Validators, by name.                                          *)
When(condition, name) == IF condition THEN {name} ELSE {}

(* A mutation of LengthValidators: equal bounds take the place of the      *)
(* maximum but not of the minimum.                                         *)
LengthValidatorsOff(s) ==
  LET exact == s.maxLength = {s.minLength}
  IN  When(s.minLength # 0 /\ ~exact, "minLength")
        \union When(s.maxLength # {} /\ ~exact, "maxLength")

LengthValidators(s) ==
  LET exact == s.maxLength = {s.minLength}
  IN  When(s.minLength # 0 /\ exact, "length")
        \union When(s.minLength # 0 /\ ~exact, "minLength")
        \union When(s.maxLength # {} /\ ~exact, "maxLength")

(* A limit and whether it is exclusive: the number of exclusiveMinimum     *)
(* takes the place of minimum, its boolean qualifies it.                   *)
Minimum(s) == IF s.exclusiveMinimum # {} THEN s.exclusiveMinimum ELSE s.minimum
Maximum(s) == IF s.exclusiveMaximum # {} THEN s.exclusiveMaximum ELSE s.maximum
MinExclusive(s) == s.exclusiveMinimum # {} \/ s.minimumIsExclusive
MaxExclusive(s) == s.exclusiveMaximum # {} \/ s.maximumIsExclusive

NumberValidators(s) ==
  When(s.multipleOf # {}, "multipleOf")
    \union When(Minimum(s) # {}, "minimum") \union When(Maximum(s) # {}, "maximum")

(* Of a nullable field it is the oneOf that is asked, which has none.  A   *)
(* RawMessage keeps the validators of what it stands for; only those of a  *)
(* string's length compile.                                                *)
Validators(s) ==
  IF s.nullable THEN {}
  ELSE CASE s.kind = "string"  -> LengthValidators(s) \union When(s.enum # {}, "enum")
         [] s.kind = "integer" -> NumberValidators(s) \union When(s.enum # {}, "enum")
         [] s.kind = "raw"     -> LengthValidators(s)
         [] s.kind \in {"array", "object"} -> When(~s.noValidate /\ ~s.closed, "subschema")
         [] OTHER -> {}

Below(x, n, exclusive) == x < n \/ (exclusive /\ x = n)

(* The test in the generated if, which returns an error when it is true;   *)
(* "subschema" is a call of Validate instead.  The length of a RawMessage  *)
(* is that of the JSON text.                                               *)
Bytes(s, f) == IF s.kind = "raw" THEN TextLength(f) ELSE f.bytes
Test(v, s, f) ==
  \/ v = "length"     /\ \E n \in s.maxLength : Bytes(s, f) # n
  \/ v = "minLength"  /\ Bytes(s, f) < s.minLength
  \/ v = "maxLength"  /\ \E n \in s.maxLength : Bytes(s, f) > n
  \/ v = "multipleOf" /\ \E n \in s.multipleOf : f.n % n # 0
  \/ v = "minimum"    /\ \E n \in Minimum(s) : Below(f.n, n, MinExclusive(s))
  \/ v = "maximum"    /\ \E n \in Maximum(s) : Below(n, f.n, MaxExclusive(s))
  \/ v = "enum"       /\ f \notin s.enum
=============================================================================
