-------------------------- MODULE MCGeneratedField --------------------------
(***************************************************************************)
(* Every combination of the keywords of one kind of field, with bounds     *)
(* from 0 to 3, over values on either side of every bound.                 *)
(***************************************************************************)
EXTENDS GeneratedField

MCItemNames == {ZeroItem, NilItem, NullItem, BadItem, "a", "b"}

Kind(k) == [PropertySchema EXCEPT !.kind = k]
String(bytes, chars) == [t |-> "string", bytes |-> bytes, chars |-> chars]
Integer(n) == [t |-> "integer", n |-> n]
Array(items) == [t |-> "array", items |-> items]
Object(size, ok, tag) == [t |-> "object", size |-> size, ok |-> ok, tag |-> tag]

Strings ==
  {[Kind("string") EXCEPT !.minLength = a, !.maxLength = b, !.enum = e] :
     a \in 0..2, b \in {{}, {0}, {1}, {2}, {3}}, e \in {{}, {String(2, 2), String(0, 0)}}}
Integers ==
  {[Kind("integer") EXCEPT !.minimum = a, !.maximum = b, !.multipleOf = m, !.enum = e,
      !.minimumIsExclusive = x, !.maximumIsExclusive = y] :
     a \in {{}, {0}, {1}}, b \in {{}, {2}, {3}}, m \in {{}, {2}},
     e \in {{}, {Integer(0), Integer(2)}}, x \in BOOLEAN, y \in BOOLEAN}
  \union
  {[Kind("integer") EXCEPT !.minimum = a, !.maximum = b,
      !.exclusiveMinimum = x, !.exclusiveMaximum = y] :
     a \in {{}, {2}}, b \in {{}, {1}}, x \in {{}, {0}, {1}}, y \in {{}, {2}, {3}}}
Arrays ==
  {[Kind("array") EXCEPT !.minItems = a, !.maxItems = b, !.uniqueItems = u,
      !.noValidate = v, !.omitEmptyArray = o] :
     a \in 0..2, b \in {{}, {0}, {1}}, u \in BOOLEAN, v \in BOOLEAN, o \in BOOLEAN}

(* Items that are structs with something to check, such with nothing to    *)
(* check (or closed, or maps), oneOfs with a null; slices, with minItems   *)
(* and without; and strings with a minLength.  Null and what is read of it *)
(* may disagree.                                                           *)
Item(checked, null, said, meets) ==
  [checked |-> checked, null |-> null, nullVerdict |-> said, nullMeets |-> meets]
ItemKinds ==
  {Item(TRUE, NilItem, "panic", FALSE), Item(FALSE, NilItem, "valid", FALSE),
   Item(FALSE, NilItem, "valid", TRUE), Item(TRUE, NilItem, "invalid", FALSE),
   Item(TRUE, NilItem, "valid", FALSE), Item(TRUE, ZeroItem, "invalid", FALSE),
   Item(TRUE, ZeroItem, "invalid", TRUE)}
ItemArrays ==
  {[Kind("array") EXCEPT !.item = i, !.minItems = a, !.noValidate = v, !.omitEmptyArray = o] :
     i \in ItemKinds, a \in 0..1, v \in BOOLEAN, o \in BOOLEAN}
  \union
  {[Kind("array") EXCEPT !.item = i, !.uniqueItems = TRUE] :
     i \in {Item(TRUE, ZeroItem, v, m) : v \in {"valid", "invalid"}, m \in BOOLEAN}}
Others ==
  {[Kind(k) EXCEPT !.minProperties = n, !.noValidate = v] :
     k \in {"object", "map", "any", "raw"}, n \in 0..1, v \in BOOLEAN}
  \union {[Kind("raw") EXCEPT !.minLength = a, !.maxLength = b] :
            a \in {0, 3, 5}, b \in {{}, {3}, {4}}}
  \union {[Kind(k) EXCEPT !.closed = TRUE, !.minItems = 1] : k \in {"object", "array"}}

(* A member of a oneOf beside null, required or not.                       *)
Nullables ==
  {[s EXCEPT !.nullable = TRUE] :
     s \in {[Kind("string") EXCEPT !.minLength = 2], [Kind("integer") EXCEPT !.maximum = {2}],
            [Kind("array") EXCEPT !.minItems = 1], Kind("object")}}

(* Types with an UnmarshalJSON, which are not fit to be required fields,   *)
(* and those whose values stand alone.                                     *)
Members ==
  {{[Kind("string") EXCEPT !.minLength = 2], Kind("object")},
   {[Kind("integer") EXCEPT !.maximum = {2}], [Kind("array") EXCEPT !.uniqueItems = TRUE]}}
     \union {{[Kind("array") EXCEPT !.minItems = 1, !.noValidate = v], Kind("object")} : v \in BOOLEAN}
     \union {{[Kind("array") EXCEPT !.item = i], [Kind("string") EXCEPT !.maxLength = {0}]} : i \in ItemKinds}
     \union {{[Kind("array") EXCEPT !.closed = TRUE, !.minItems = 1], Kind("integer")}}
OneOfs == {[Kind("oneOf") EXCEPT !.members = ms, !.nullable = n] : ms \in Members, n \in BOOLEAN}
Discriminated == {[Kind("discriminated") EXCEPT !.default = d] : d \in BOOLEAN}
Tuples == {[Kind("tuple") EXCEPT !.width = w, !.minItems = a, !.item = i] :
             w \in 1..2, a \in 0..1,
             i \in {Item(FALSE, n, "valid", FALSE) : n \in {ZeroItem, NilItem}}}
Own == OneOfs \union Discriminated \union Tuples
Maps == {[Kind("map") EXCEPT !.minProperties = a, !.maxProperties = b, !.item.checked = c] :
           a \in 0..1, b \in {{}, {0}, {1}}, c \in BOOLEAN}
Slices == {s \in Arrays \union ItemArrays : ~s.omitEmptyArray}

MCFieldSchemas ==
  {[s EXCEPT !.required = r, !.noOmitEmpty = o] : r \in BOOLEAN, o \in BOOLEAN,
     s \in Strings \union Integers \union Arrays \union ItemArrays \union Others \union Nullables}
    \union Own
    \union {[s EXCEPT !.alone = TRUE] : s \in Own \union Maps \union Slices}

(* Two quotes around a string, a digit, and null; what else is no matter.  *)
MCTextLength(j) ==
  CASE j.t = "string" -> j.bytes + 2 [] j.t = "integer" -> 1 [] OTHER -> 4

MCInputs ==
  {Absent, Null}
    \union {String(n, n) : n \in 0..3} \union {String(3, 1)}
    \union {Integer(n) : n \in 0..4}
    \union {Array(a) : a \in {<<>>, <<"a">>, <<"a", "b">>, <<"a", "a">>, <<NullItem, BadItem>>, <<BadItem, NullItem>>, <<NullItem, NullItem>>, <<ZeroItem>>, <<ZeroItem, NullItem>>, <<NullItem, "a">>, <<"b", NullItem>>, <<BadItem>>}}
    \union {Object(n, b, tag) : n \in 0..1, b \in BOOLEAN, tag \in {"known", "other"}}
=============================================================================
