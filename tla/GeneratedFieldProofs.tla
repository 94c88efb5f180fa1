------------------------ MODULE GeneratedFieldProofs ------------------------
(***************************************************************************)
(* Proofs about GeneratedField, for schemas with any bounds and for any    *)
(* values.  What is read is a value that could be read again (Reading);    *)
(* what is accepted is still accepted when it was written and read once    *)
(* more (ComesBack, kind by kind), which is where the value is in each     *)
(* step (Sent).  What is accepted is what is valid (Judgement): each test  *)
(* against its keyword, then each kind of value against its tests.         *)
(***************************************************************************)
EXTENDS GeneratedField, FiniteSetTheorems, TLAPS

JSON == Values \union {Absent, Null}
GoValues == Values \union {Nil, Null}

Reading == /\ schema \in FieldSchemas /\ json \in JSON /\ field \in GoValues
           /\ field = Null => schema.kind = "raw"
           /\ pc \in {"unmarshal", "validate"} => verdict = "none"
Typing == TypeOK /\ Reading

(* What is known of the items of a schema that was generated from.         *)
ItemsKnown(m) ==
  /\ m.item.checked \in BOOLEAN /\ m.item.null \in {ZeroItem, NilItem}
  /\ m.item.nullVerdict \in {"valid", "invalid", "panic"} /\ m.item.nullMeets \in BOOLEAN
  /\ ~m.item.checked => m.item.nullVerdict = "valid"
  /\ m.item.nullVerdict = "panic" => m.item.null = NilItem
  /\ m.uniqueItems => m.item.null = ZeroItem
-----------------------------------------------------------------------------
LEMMA Distinct ==
  /\ Absent # Null /\ Absent # Nil /\ Null # Nil
  /\ \A v \in Values : v # Absent /\ v # Null /\ v # Nil
BY DEF Values, Absent, Null, Nil

LEMMA Kinds ==
  ASSUME NEW s \in FieldSchemas
  PROVE  /\ s.kind \in {"string", "integer", "object", "array", "map", "any", "raw",
                        "oneOf", "discriminated", "tuple"}
         /\ s.alone => s.kind \in {"array", "map", "oneOf", "discriminated", "tuple"}
         /\ s.width \in Nat
         /\ s.required \in BOOLEAN /\ s.alone \in BOOLEAN /\ s.nullable \in BOOLEAN
         /\ s.default \in BOOLEAN /\ s.noValidate \in BOOLEAN /\ s.closed \in BOOLEAN
         /\ s.noOmitEmpty \in BOOLEAN /\ s.omitEmptyArray \in BOOLEAN
         /\ ItemsKnown(s) /\ \A m \in s.members : ItemsKnown(m)
<1>1. \A m \in s.members \union {s} : ItemsKnown(m)
  BY ItemsAssumption DEF ItemsKnown
<1> QED
  BY <1>1, FieldSchemasAssumption

LEMMA ReadItemIsItem ==
  ASSUME NEW s, ItemsKnown(s), NEW item \in ItemNames
  PROVE  ReadItem(s, item) \in ItemNames
BY ItemNamesAssumption DEF ReadItem, ItemsKnown

LEMMA FilledTuple ==
  ASSUME NEW s, ItemsKnown(s), s.width \in Nat, NEW items \in Seq(ItemNames)
  PROVE  /\ FillTuple(s, items) \in Values /\ FillTuple(s, items).t = "array"
         /\ FillTuple(s, items).items \in [1..s.width -> ItemNames]
<1> DEFINE item(k) == IF k > Len(items) THEN NilItem ELSE ReadItem(s, items[k])
<1>1. ASSUME NEW k \in 1..s.width PROVE item(k) \in ItemNames
  <2>1. CASE k > Len(items)
    BY <2>1, ItemNamesAssumption
  <2>2. CASE ~(k > Len(items))
    <3>1. items[k] \in ItemNames
      BY <2>2
    <3> QED
      BY <2>2, <3>1, ReadItemIsItem
  <2> QED
    BY <2>1, <2>2
<1>2. [k \in 1..s.width |-> item(k)] \in [1..s.width -> ItemNames]
  BY <1>1
<1>3. [1..s.width -> ItemNames] \subseteq Seq(ItemNames)
  OBVIOUS
<1> HIDE DEF item
<1>4. [t |-> "array", items |-> [k \in 1..s.width |-> item(k)]] \in Values
  BY <1>2, <1>3 DEF Values
<1> QED
  BY <1>2, <1>4 DEF FillTuple, item

LEMMA FilledSlice ==
  ASSUME NEW s, ItemsKnown(s), NEW j \in Values, j.t = "array"
  PROVE  FillSlice(s, j) \in Values /\ FillSlice(s, j).t = "array"
<1>1. j \in [t : {"array"}, items : Seq(ItemNames)]
  BY DEF Values
<1>2. \A k \in DOMAIN j.items : ReadItem(s, j.items[k]) \in ItemNames
  BY <1>1, ReadItemIsItem
<1>3. [k \in DOMAIN j.items |-> ReadItem(s, j.items[k])] \in Seq(ItemNames)
  BY <1>1, <1>2
<1> QED
  BY <1>1, <1>3 DEF FillSlice, Values

LEMMA FitsByType ==
  ASSUME NEW s \in FieldSchemas, NEW j \in Values, NEW f \in Values,
         Fits(s, j), j.t = "array", f.t = "array"
  PROVE  Fits(s, f)
<1>1. j # Absent /\ f # Absent /\ j # Null /\ f # Null
  BY DEF Absent, Null
<1>2. Decodes(s, j) => Decodes(s, f)
  BY <1>1 DEF Decodes, MembersFor
<1> QED
  BY <1>1, <1>2, Kinds DEF Fits

LEMMA MemberItems ==
  ASSUME NEW s \in FieldSchemas, NEW j \in Values, j.t = "array",
         s.alone \/ HasUnmarshaler(s) => Decodes(s, j)
  PROVE  ItemsKnown(MemberFor(s, j))
<1>1. CASE s.kind = "oneOf"
  <2>1. MembersFor(s, j) # {}
    BY <1>1 DEF HasUnmarshaler, Decodes, Null
  <2>2. MemberFor(s, j) \in s.members
    BY <1>1, <2>1 DEF MemberFor, MembersFor
  <2> QED
    BY <2>2, Kinds
<1>2. CASE s.kind # "oneOf"
  BY <1>2, Kinds DEF MemberFor
<1> QED
  BY <1>1, <1>2

LEMMA WhatIsRead ==
  ASSUME NEW s \in FieldSchemas, NEW j \in JSON, Fits(s, j)
  PROVE  /\ Unmarshal(s, j) \in GoValues
         /\ Unmarshal(s, j) = Nil \/ Fits(s, Unmarshal(s, j))
         /\ Unmarshal(s, j) = Null => s.kind = "raw"
<1> DEFINE f == Unmarshal(s, j)
<1>a. s.alone \in BOOLEAN /\ (HasUnmarshaler(s) <=> s.kind \in {"oneOf", "discriminated", "tuple"})
  BY Kinds DEF HasUnmarshaler
<1>b. Absent # Null /\ Absent # Nil /\ Null # Nil
      /\ \A v \in Values : v # Absent /\ v # Null /\ v # Nil
  BY DEF Values, Absent, Null, Nil
<1>1. CASE s.kind = "tuple"
  <2> DEFINE items == IF j \in {Absent, Null} THEN <<>> ELSE j.items
  <2>1. j \in {Absent, Null} \/ j.t = "array"
    BY <1>1, <1>a, <1>b DEF Fits, Decodes
  <2>2. items \in Seq(ItemNames)
    BY <2>1 DEF JSON, Values
  <2>3. f = FillTuple(s, items)
    BY <1>1, <1>a, <1>b DEF Unmarshal, Decoded
  <2> HIDE DEF items, f
  <2>4. f \in Values /\ f.t = "array"
    <3>1. s.width \in Nat /\ ItemsKnown(s)
      BY Kinds
    <3> QED
      BY <2>2, <2>3, <3>1, FilledTuple
  <2> USE DEF f
  <2>5. Fits(s, f)
    BY <1>1, <1>a, <1>b, <2>4 DEF Fits, Decodes
  <2> QED
    BY <1>b, <2>4, <2>5 DEF GoValues
<1>2. CASE s.kind # "tuple" /\ j = Absent
  BY <1>2, <1>b DEF Unmarshal, GoValues
<1>3. CASE s.kind = "discriminated" /\ j = Null
  <2>1. f = ZeroObject
    BY <1>3, <1>a, <1>b DEF Unmarshal, Decoded
  <2>2. s.default
    BY <1>3, <1>a, <1>b DEF Fits, Decodes, Null
  <2>3. ZeroObject \in Values
    BY DEF ZeroObject, Values
  <2>4. Fits(s, ZeroObject)
    BY <1>3, <1>a, <1>b, <2>2, <2>3 DEF Fits, Decodes, ZeroObject
  <2> QED
    BY <1>b, <2>1, <2>3, <2>4 DEF GoValues
<1>4. CASE s.kind \notin {"tuple", "discriminated"} /\ j = Null
  BY <1>4, <1>a, <1>b DEF Unmarshal, Decoded, GoValues
<1>5. CASE s.kind # "tuple" /\ j \in Values /\ j.t = "array"
  <2>1. s.alone \/ HasUnmarshaler(s) => Decodes(s, j)
    BY <1>5, <1>a, <1>b DEF Fits
  <2>2. ItemsKnown(MemberFor(s, j))
    BY <1>5, <2>1, MemberItems
  <2>3. f = FillSlice(MemberFor(s, j), j) \/ f = j
    BY <1>5, <1>a, <1>b DEF Unmarshal, Decoded
  <2>4. f \in Values /\ f.t = "array"
    BY <1>5, <2>2, <2>3, FilledSlice
  <2> QED
    BY <1>b, <1>5, <2>4, FitsByType DEF GoValues
<1>6. CASE s.kind # "tuple" /\ j \in Values /\ j.t # "array"
  BY <1>6, <1>a, <1>b DEF Unmarshal, Decoded, GoValues
<1> QED
  BY <1>1, <1>2, <1>3, <1>4, <1>5, <1>6 DEF JSON
-----------------------------------------------------------------------------
LEMMA SlicePanics ==
  ASSUME NEW s, ItemsKnown(s), NEW f, SliceVerdict(s, f) = "panic"
  PROVE  f # Nil /\ NilItem \in Range(f.items)
<1>0. \A item : ItemVerdict(s, item) = "panic" => item = NilItem
  BY DEF ItemVerdict, VerdictIf, ItemsKnown
<1>1. PICK k \in DOMAIN Items(f) : Items(f)[k] = NilItem
  BY <1>0 DEF SliceVerdict, VerdictIf
<1>2. f # Nil
  BY <1>1 DEF Items
<1> QED
  BY <1>1, <1>2 DEF Items, Range

LEMMA ValidatePanics ==
  ASSUME NEW s \in FieldSchemas, NEW f \in GoValues, f = Nil \/ Fits(s, f),
         f = Null => s.kind = "raw", Validate(s, f) = "panic"
  PROVE  f # Nil /\ f.t = "array" /\ NilItem \in Range(f.items)
<1>1. CASE s.alone
  <2>1. Verdict(s, f) = "panic"
    BY <1>1 DEF Validate
  <2>2. CASE s.kind = "array"
    <3>1. SliceVerdict(s, f) = "panic"
      BY <2>1, <2>2 DEF Verdict
    <3>2. f # Nil /\ NilItem \in Range(f.items)
      BY <3>1, SlicePanics, Kinds
    <3>3. f \in Values /\ f # Absent
      BY <2>2, <3>2 DEF GoValues, Absent, Values
    <3>4. f.t = "array"
      BY <1>1, <2>2, <3>2, <3>3 DEF Fits, Decodes
    <3> QED
      BY <3>2, <3>4
  <2>3. CASE s.kind = "oneOf"
    <3>1. f.t = "array" /\ SliceVerdict(MemberFor(s, f), f) = "panic"
      BY <2>1, <2>3 DEF Verdict, OneOfVerdict, VerdictIf
    <3>2. f \in Values
      BY <3>1 DEF GoValues, Nil, Null
    <3>3. ItemsKnown(MemberFor(s, f))
      <4>1. f # Nil
        BY <3>1 DEF Nil
      <4>2. Decodes(s, f)
        BY <1>1, <3>2, <4>1, Distinct DEF Fits
      <4> QED
        BY <3>1, <3>2, <4>2, MemberItems
    <3> QED
      BY <3>1, <3>3, SlicePanics
  <2> QED
    BY <1>1, <2>1, <2>2, <2>3, Kinds DEF Verdict, VerdictIf
<1>2. CASE ~s.alone
  <2>1. ValidateStruct(s, f) = "panic"
    BY <1>2 DEF Validate
  <2>2. ASSUME f = Nil, IsPointer(s) PROVE Tested(s, f) = {} \/ Missing(s, f)
    BY <2>2 DEF Tested, Guarded, Missing
  <2>3. PICK v \in Tested(s, f) : Outcome(v, s, f) = "panic"
    BY <2>1, <2>2 DEF ValidateStruct
  <2>4. s.kind = "array" /\ SliceVerdict(s, f) = "panic"
    BY <2>3 DEF Outcome, VerdictIf
  <2>5. f # Nil /\ NilItem \in Range(f.items)
    BY <2>4, SlicePanics, Kinds
  <2>6. f \in Values /\ f # Absent /\ f # Null
    BY <2>4, <2>5 DEF GoValues, Absent, Values, Null
  <2>7. f.t = "array"
    BY <1>2, <2>4, <2>5, <2>6 DEF Fits, HasUnmarshaler, JSONTypeOf
  <2> QED
    BY <2>5, <2>7
<1> QED
  BY <1>1, <1>2

LEMMA ValidateAnswers ==
  ASSUME NEW s \in FieldSchemas, NEW f
  PROVE  Validate(s, f) \in {"required", "panic", "invalid", "valid"}
<1>1. \A m : SliceVerdict(m, f) \in {"panic", "invalid", "valid"}
  BY DEF SliceVerdict, VerdictIf
<1>2. OneOfVerdict(s, f) \in {"panic", "invalid", "valid"}
  BY <1>1 DEF OneOfVerdict, VerdictIf
<1>3. s.alone => Verdict(s, f) \in {"panic", "invalid", "valid"}
  BY <1>1, <1>2, Kinds DEF Verdict, VerdictIf
<1> QED
  BY <1>3, Kinds DEF Validate, ValidateStruct

LEMMA EncodedArray ==
  ASSUME NEW f \in Values, f.t = "array"
  PROVE  Encoded(f) \in Values /\ Encoded(f).t = "array"
<1> DEFINE item(k) == IF f.items[k] = NilItem THEN NullItem ELSE f.items[k]
<1>1. f \in [t : {"array"}, items : Seq(ItemNames)] /\ f # Nil
  BY DEF Values, Nil
<1>2. \A k \in DOMAIN f.items : item(k) \in ItemNames
  BY <1>1, ItemNamesAssumption
<1>3. [k \in DOMAIN f.items |-> item(k)] \in Seq(ItemNames)
  BY <1>1, <1>2
<1>4. Encoded(f) = [t |-> "array", items |-> [k \in DOMAIN f.items |-> item(k)]]
  BY <1>1 DEF Encoded
<1> QED
  BY <1>3, <1>4 DEF Values

LEMMA SameMember ==
  ASSUME NEW s, NEW j, NEW k, j.t = k.t
  PROVE  MemberFor(s, j) = MemberFor(s, k)
<1>1. MembersFor(s, j) = MembersFor(s, k)
  BY DEF MembersFor
<1> QED
  BY <1>1 DEF MemberFor

LEMMA WhatIsWritten ==
  ASSUME NEW s, NEW f \in GoValues
  PROVE  Marshal(s, f) \in JSON
<1>1. CASE f \in Values /\ f.t = "array"
  BY <1>1, EncodedArray DEF Marshal, JSON
<1>2. CASE ~(f \in Values /\ f.t = "array")
  BY <1>2 DEF Marshal, Encoded, JSON, GoValues, Null, Nil
<1> QED
  BY <1>1, <1>2

LEMMA TypingInit == Init => Typing
BY InputsAssumption DEF Init, Typing, TypeOK, Reading, JSON, GoValues, Nil, Null

LEMMA TypingInductive == Typing /\ [Next]_vars => Typing'
<1> SUFFICES ASSUME Typing, [Next]_vars PROVE Typing'
  OBVIOUS
<1> USE DEF Typing, TypeOK, Reading
<1>1. CASE UnmarshalFails
  BY <1>1 DEF UnmarshalFails
<1>2. CASE UnmarshalOk
  BY <1>2, WhatIsRead DEF UnmarshalOk
<1>3. CASE ValidateField
  BY <1>3, ValidateAnswers DEF ValidateField
<1>4. CASE MarshalAndSend
  BY <1>4, WhatIsWritten DEF MarshalAndSend
<1>5. CASE UNCHANGED vars
  BY <1>5 DEF vars
<1> QED
  BY <1>1, <1>2, <1>3, <1>4, <1>5 DEF Next

LEMMA NilInductive == Typing /\ NilIsNotRead /\ [Next]_vars => NilIsNotRead'
<1> SUFFICES ASSUME Typing, NilIsNotRead, [Next]_vars PROVE NilIsNotRead'
  OBVIOUS
<1> USE DEF NilIsNotRead
<1>1. CASE ValidateField
  BY <1>1, ValidatePanics DEF ValidateField, Typing, TypeOK, Reading
<1>2. CASE UnmarshalFails \/ MarshalAndSend
  BY <1>2 DEF UnmarshalFails, MarshalAndSend
<1>3. CASE UnmarshalOk
  BY <1>3 DEF UnmarshalOk, Typing, Reading
<1>4. CASE UNCHANGED vars
  BY <1>4 DEF vars
<1> QED
  BY <1>1, <1>2, <1>3, <1>4 DEF Next
-----------------------------------------------------------------------------
(* What was read is written and read again.                                *)
LEMMA SliceReadBack ==
  ASSUME NEW m, ItemsKnown(m), NEW j \in [t : {"array"}, items : Seq(ItemNames)],
         NilItem \notin Range(j.items)
  PROVE  FillSlice(m, Encoded(FillSlice(m, j))) = FillSlice(m, j)
<1> DEFINE f == FillSlice(m, j)
           D == DOMAIN j.items
           written(k) == IF f.items[k] = NilItem THEN NullItem ELSE f.items[k]
<1>1. /\ f = [t |-> "array", items |-> f.items] /\ DOMAIN f.items = D
      /\ f.items = [k \in D |-> ReadItem(m, j.items[k])]
  BY DEF FillSlice
<1>2. f # Nil /\ f.t = "array"
  BY <1>1 DEF Nil
<1> HIDE DEF f
<1>3. Encoded(f) = [t |-> "array", items |-> [k \in D |-> written(k)]]
  BY <1>1, <1>2 DEF Encoded
<1>4. ASSUME NEW k \in D PROVE ReadItem(m, written(k)) = f.items[k]
  <2>1. f.items[k] = ReadItem(m, j.items[k])
    BY <1>1
  <2>2. f.items[k] # NullItem
    BY <2>1 DEF ReadItem, NullItem, NilItem, ZeroItem, ItemsKnown
  <2>3. f.items[k] = NilItem => m.item.null = NilItem
    BY <2>1 DEF ReadItem, Range
  <2> QED
    BY <2>2, <2>3 DEF ReadItem
<1>5. FillSlice(m, Encoded(f)) = [t |-> "array", items |-> [k \in D |-> ReadItem(m, written(k))]]
  <2> HIDE DEF written
  <2> DEFINE g == Encoded(f)
  <2>1. g = [t |-> "array", items |-> g.items] /\ DOMAIN g.items = D
        /\ \A k \in D : g.items[k] = written(k)
    BY <1>3
  <2> HIDE DEF g, D
  <2>2. FillSlice(m, g) = [g EXCEPT !.items = [k \in D |-> ReadItem(m, g.items[k])]]
    BY <2>1 DEF FillSlice
  <2>3. [k \in D |-> ReadItem(m, g.items[k])] = [k \in D |-> ReadItem(m, written(k))]
    BY <2>1
  <2> QED
    BY <2>1, <2>2, <2>3 DEF g
<1>6. [k \in D |-> ReadItem(m, written(k))] = f.items
  BY <1>1, <1>4
<1> QED
  BY <1>1, <1>5, <1>6 DEF f

LEMMA EncodedAsItIs ==
  ASSUME NEW j \in Values, j.t = "array" => NilItem \notin Range(j.items)
  PROVE  Encoded(j) = j
<1>1. CASE j.t = "array"
  <2>1. j \in [t : {"array"}, items : Seq(ItemNames)] /\ j # Nil
    BY <1>1 DEF Values, Nil
  <2>2. [k \in DOMAIN j.items |-> IF j.items[k] = NilItem THEN NullItem ELSE j.items[k]] = j.items
    BY <1>1, <2>1 DEF Range
  <2> QED
    BY <1>1, <2>1, <2>2 DEF Encoded
<1>2. CASE j.t # "array"
  BY <1>2 DEF Encoded, Nil, Values
<1> QED
  BY <1>1, <1>2

LEMMA TupleReadBack ==
  ASSUME NEW s, ItemsKnown(s), s.width \in Nat, NEW items \in Seq(ItemNames),
         NEW f, f = FillTuple(s, items), NEW g, g = FillTuple(s, Encoded(f).items)
  PROVE  /\ Encoded(f) \in Values /\ Encoded(f).t = "array"
         /\ \A k \in 1..s.width :
              g.items[k] = f.items[k] \/ (g.items[k] = ZeroItem /\ f.items[k] = NilItem)
<1> DEFINE written(k) == IF f.items[k] = NilItem THEN NullItem ELSE f.items[k]
           all == [k \in 1..s.width |-> written(k)]
<1>1. /\ f = [t |-> "array", items |-> f.items] /\ f # Nil /\ f.t = "array"
      /\ f.items = [k \in 1..s.width |->
                      IF k > Len(items) THEN NilItem ELSE ReadItem(s, items[k])]
  BY DEF FillTuple, Nil
<1>2. f.items \in [1..s.width -> ItemNames]
  BY FilledTuple
<1>3. \A k \in 1..s.width : f.items[k] # NullItem
  BY <1>1 DEF ReadItem, NullItem, NilItem, ZeroItem, ItemsKnown
<1>4. Encoded(f) = [t |-> "array", items |-> all]
  BY <1>1, <1>2 DEF Encoded
<1>5. \A k \in 1..s.width : written(k) \in ItemNames
  BY <1>2, ItemNamesAssumption
<1>6. all \in Seq(ItemNames) /\ Len(all) = s.width /\ \A k \in 1..s.width : all[k] = written(k)
  <2> HIDE DEF written
  <2> QED
    BY <1>5
<1> HIDE DEF all
<1>7. Encoded(f) \in Values /\ Encoded(f).t = "array"
  BY <1>4, <1>6 DEF Values
<1>8. ASSUME NEW k \in 1..s.width
      PROVE  g.items[k] = f.items[k] \/ (g.items[k] = ZeroItem /\ f.items[k] = NilItem)
  <2>1. Encoded(f).items = all /\ ~(k > Len(all))
    BY <1>4, <1>6
  <2>2. g.items[k] = ReadItem(s, written(k))
    BY <1>6, <2>1 DEF FillTuple
  <2>3. CASE f.items[k] = NilItem
    BY <2>2, <2>3 DEF ReadItem, ItemsKnown
  <2>4. CASE f.items[k] # NilItem
    BY <1>3, <2>2, <2>4 DEF ReadItem
  <2> QED
    BY <2>3, <2>4
<1> QED
  BY <1>7, <1>8

(* g is as good as f to whoever is at the other end.                       *)
GoodAs(s, g, f) ==
  /\ SameButNil(s, g, f)
  /\ Validate(s, g) = "valid" \/ IsLost(s, f) \/ NullForNone(s, f)
ReadBack(s, f) ==
  LET m == Marshal(s, f)
  IN  IF Fits(s, m) THEN GoodAs(s, Unmarshal(s, m), f) ELSE NullForNone(s, f)

LEMMA ReadBackSame ==
  ASSUME NEW s, NEW f, Validate(s, f) = "valid",
         Fits(s, Marshal(s, f)), Unmarshal(s, Marshal(s, f)) = f
  PROVE  ReadBack(s, f)
BY DEF ReadBack, GoodAs, SameButNil

LEMMA NothingToValidate ==
  ASSUME NEW s \in FieldSchemas, NEW g, g # Nil,
         s.kind \in {"discriminated", "tuple", "raw"}, ~IsRawString(s)
  PROVE  Validate(s, g) = "valid"
<1>1. Validators(s) = {}
  BY DEF Validators, IsRawString
<1>2. ValidateStruct(s, g) = "valid"
  BY <1>1 DEF ValidateStruct, Missing, Tested
<1> QED
  BY <1>2, Kinds DEF Validate, Verdict, VerdictIf

LEMMA TupleComesBack ==
  ASSUME NEW s \in FieldSchemas, s.kind = "tuple", NEW j \in JSON, Fits(s, j)
  PROVE  ReadBack(s, Unmarshal(s, j))
<1> DEFINE f == Unmarshal(s, j)
           items == IF j \in {Absent, Null} THEN <<>> ELSE j.items
           g == FillTuple(s, Encoded(f).items)
<1>1. j \in {Absent, Null} \/ j.t = "array"
  BY Kinds, Distinct DEF Fits, Decodes, HasUnmarshaler
<1>2. items \in Seq(ItemNames)
  BY <1>1 DEF JSON, Values
<1>3. f = FillTuple(s, items)
  BY Kinds, Distinct DEF Unmarshal, Decoded, HasUnmarshaler
<1>4. ItemsKnown(s) /\ s.width \in Nat /\ s.alone \in BOOLEAN
  BY Kinds
<1> HIDE DEF f, items
<1>5. /\ Encoded(f) \in Values /\ Encoded(f).t = "array"
      /\ \A k \in 1..s.width :
           g.items[k] = f.items[k] \/ (g.items[k] = ZeroItem /\ f.items[k] = NilItem)
  BY <1>2, <1>3, <1>4, TupleReadBack
<1>6. Marshal(s, f) = Encoded(f) /\ HasUnmarshaler(s)
  BY DEF Marshal, HasUnmarshaler
<1>7. Fits(s, Encoded(f)) /\ Unmarshal(s, Encoded(f)) = g
  BY <1>4, <1>5, <1>6, Distinct DEF Fits, Decodes, Unmarshal, Decoded
<1>8. g # Nil
  BY DEF FillTuple, Nil
<1>9. Validate(s, g) = "valid"
  BY <1>8, NothingToValidate DEF IsRawString
<1>10. SameButNil(s, g, f)
  BY <1>5 DEF SameButNil
<1> QED
  BY <1>6, <1>7, <1>9, <1>10 DEF ReadBack, GoodAs, f

(* A value that is not omitted is itself again.                            *)
LEMMA ValueComesBack ==
  ASSUME NEW s \in FieldSchemas, s.kind # "tuple",
         NEW j \in Inputs, j \in Values, Fits(s, j), NEW f, f = Unmarshal(s, j)
  PROVE  Fits(s, Encoded(f)) /\ Unmarshal(s, Encoded(f)) = f /\ f \in Values
<1>1. j.t = "array" => NilItem \notin Range(j.items)
  BY InputsAssumption
<1>2. s.alone \in BOOLEAN
  BY Kinds
<1>3. CASE f = j
  BY <1>1, <1>3, EncodedAsItIs
<1>4. CASE f # j
  <2> DEFINE m == MemberFor(s, j)
  <2>1. /\ f = FillSlice(m, j) /\ j.t = "array"
        /\ s.alone \/ HasUnmarshaler(s) \/ s.kind = "array"
    <3>1. j # Absent /\ j # Null
      BY Distinct
    <3>2. f = Decoded(s, j) /\ (s.alone \/ HasUnmarshaler(s) \/ s.kind = "array")
      BY <1>2, <1>4, <3>1 DEF Unmarshal
    <3> QED
      BY <1>4, <3>1, <3>2 DEF Decoded
  <2>2. ItemsKnown(m)
    <3>1. s.alone \/ HasUnmarshaler(s) => Decodes(s, j)
      BY <1>2, Distinct DEF Fits
    <3> QED
      BY <2>1, <3>1, MemberItems
  <2>3. j \in [t : {"array"}, items : Seq(ItemNames)]
    BY <2>1 DEF Values
  <2>4. f \in Values /\ f.t = "array"
    BY <2>1, <2>2, FilledSlice
  <2>5. Encoded(f) \in Values /\ Encoded(f).t = "array"
    BY <2>4, EncodedArray
  <2>6. FillSlice(m, Encoded(f)) = f
    BY <1>1, <2>1, <2>2, <2>3, SliceReadBack
  <2>7. MemberFor(s, Encoded(f)) = m
    BY <2>1, <2>5, SameMember
  <2>8. Unmarshal(s, Encoded(f)) = f
    <3>1. Encoded(f) # Absent /\ Encoded(f) # Null
      BY <2>5, Distinct
    <3>2. Unmarshal(s, Encoded(f)) = Decoded(s, Encoded(f))
      BY <1>2, <2>1, <3>1 DEF Unmarshal
    <3> QED
      BY <2>5, <2>6, <2>7, <3>1, <3>2 DEF Decoded
  <2>9. Fits(s, Encoded(f))
    BY <2>1, <2>5, FitsByType
  <2> QED
    BY <2>4, <2>8, <2>9
<1> QED
  BY <1>3, <1>4

LEMMA NilComesBack ==
  ASSUME NEW s \in FieldSchemas, s.kind # "tuple", Validate(s, Nil) = "valid"
  PROVE  ReadBack(s, Nil)
<1> DEFINE m == Marshal(s, Nil)
<1>0. Encoded(Nil) = Null
  BY DEF Encoded
<1>a. s.alone \in BOOLEAN /\ s.default \in BOOLEAN /\ s.nullable \in BOOLEAN
  BY Kinds
<1>1. CASE m = Absent
  <2>1. ~s.alone
    BY <1>0, <1>1, <1>a, Distinct DEF Marshal
  <2> QED
    BY <1>1, <1>a, <2>1, ReadBackSame DEF Fits, Unmarshal
<1>2. CASE m # Absent
  <2>1. /\ m = Null /\ m # Absent
        /\ s.alone \/ HasUnmarshaler(s) \/ ~HasOmitEmpty(s)
    BY <1>0, <1>2, <1>a DEF Marshal, IsEmpty
  <2>2. CASE s.kind = "oneOf"
    <3>1. Unmarshal(s, Null) = Nil
      BY <2>1, <2>2 DEF Unmarshal, HasUnmarshaler, Decoded
    <3>2. Fits(s, Null) \/ ~s.nullable
      BY <2>1, <2>2 DEF Fits, HasUnmarshaler, Decodes
    <3> QED
      BY <2>1, <2>2, <3>1, <3>2, ReadBackSame DEF ReadBack, NullForNone
  <2>3. CASE s.kind = "discriminated"
    <3>1. Unmarshal(s, Null) = ZeroObject
      BY <2>1, <2>3 DEF Unmarshal, HasUnmarshaler, Decoded
    <3>2. Fits(s, Null) \/ ~s.default
      BY <2>1, <2>3 DEF Fits, HasUnmarshaler, Decodes
    <3>3. ZeroObject # Nil
      BY DEF ZeroObject, Nil
    <3>4. GoodAs(s, ZeroObject, Nil)
      BY <2>3, <3>3, NothingToValidate DEF GoodAs, SameButNil, IsRawString
    <3> QED
      BY <2>1, <2>3, <3>1, <3>2, <3>4 DEF ReadBack, NullForNone
  <2>4. CASE s.kind = "raw"
    <3>1. ~s.alone /\ ~HasUnmarshaler(s)
      BY <2>4, Kinds DEF HasUnmarshaler
    <3>2. Fits(s, Null) /\ Unmarshal(s, Null) = Null
      BY <2>4, <3>1, Distinct DEF Fits, Unmarshal
    <3>3. s.noOmitEmpty
      BY <2>1, <2>4, <3>1, Kinds DEF HasOmitEmpty
    <3>4. GoodAs(s, Null, Nil)
      BY <2>4, <3>3, Distinct, NothingToValidate DEF GoodAs, SameButNil, NullForNone
    <3> QED
      BY <2>1, <3>2, <3>4 DEF ReadBack
  <2>5. CASE s.kind \notin {"oneOf", "discriminated", "raw"}
    <3>1. ~HasUnmarshaler(s) /\ (s.alone => s.kind \in {"array", "map"})
      BY <2>5, Kinds DEF HasUnmarshaler
    <3>2. Fits(s, Null)
      BY <1>a, <3>1, Distinct DEF Fits, Decodes
    <3>3. Unmarshal(s, Null) = Nil
      BY <1>a, <2>5, <3>1, Distinct DEF Unmarshal, Decoded
    <3> QED
      BY <2>1, <3>2, <3>3, ReadBackSame
  <2> QED
    BY <2>2, <2>3, <2>4, <2>5
<1> QED
  BY <1>1, <1>2

(* omitempty: what was empty comes back as nil, and is as valid unless it  *)
(* is required.                                                            *)
LEMMA OmittedComesBack ==
  ASSUME NEW s \in FieldSchemas, s.kind # "tuple", NEW f \in Values,
         Validate(s, f) = "valid", Marshal(s, f) = Absent
  PROVE  ReadBack(s, f)
<1>0. Encoded(f) # Absent
  BY EncodedArray, Distinct DEF Encoded
<1>1. /\ ~s.alone /\ ~HasUnmarshaler(s) /\ HasOmitEmpty(s)
      /\ IsEmpty(s, f) /\ f # Nil
  BY <1>0, Kinds, Distinct DEF Marshal
<1>2. Fits(s, Absent) /\ Unmarshal(s, Absent) = Nil
  BY <1>1 DEF Fits, Unmarshal
<1>3. EmptyContainer(s, f)
  BY <1>1 DEF IsEmpty, EmptyContainer
<1>4. CASE s.required
  <2>1. IsLost(s, f)
    BY <1>1, <1>3, <1>4, Kinds DEF IsLost, IsEmpty, HasOmitEmpty
  <2> QED
    BY <1>2, <1>3, <2>1 DEF ReadBack, GoodAs, SameButNil
<1>5. CASE ~s.required
  <2>1. ~Missing(s, Nil)
    BY <1>5 DEF Missing
  <2>2. CASE Validators(s) = {}
    <3>1. ValidateStruct(s, Nil) = "valid"
      BY <2>1, <2>2 DEF ValidateStruct, Tested
    <3> QED
      BY <1>1, <1>2, <1>3, <3>1 DEF ReadBack, GoodAs, SameButNil, Validate
  <2>3. CASE Validators(s) # {}
    <3>1. s.kind = "array" /\ ~s.nullable /\ Validators(s) = {"subschema"} /\ f.items = <<>>
      BY <1>1, <2>3 DEF IsEmpty, Validators, When
    <3>2. ~IsPointer(s)
      BY <3>1 DEF IsPointer
    <3>3. Tested(s, Nil) = {"subschema"} /\ Tested(s, f) = {"subschema"}
      BY <3>1, <3>2 DEF Tested, Guarded
    <3>4. Items(Nil) = <<>> /\ Items(f) = <<>>
      BY <1>1, <3>1 DEF Items
    <3>5. SliceVerdict(s, Nil) = SliceVerdict(s, f)
      BY <3>4 DEF SliceVerdict, SliceIsInvalid
    <3>6. /\ {Outcome(v, s, f) : v \in Tested(s, f)} = {SliceVerdict(s, f)}
          /\ {Outcome(v, s, Nil) : v \in Tested(s, Nil)} = {SliceVerdict(s, f)}
      BY <3>1, <3>3, <3>5 DEF Outcome
    <3>7. ValidateStruct(s, f) = "valid"
      BY <1>1 DEF Validate
    <3>8. SliceVerdict(s, f) = "valid"
      BY <3>2, <3>6, <3>7 DEF ValidateStruct
    <3>9. ValidateStruct(s, Nil) = "valid"
      BY <2>1, <3>2, <3>6, <3>8 DEF ValidateStruct
    <3> QED
      BY <1>1, <1>2, <1>3, <3>9 DEF ReadBack, GoodAs, SameButNil, Validate
  <2> QED
    BY <2>2, <2>3
<1> QED
  BY <1>4, <1>5

LEMMA ComesBack ==
  ASSUME NEW s \in FieldSchemas, NEW j \in Inputs, Fits(s, j),
         Validate(s, Unmarshal(s, j)) = "valid"
  PROVE  ReadBack(s, Unmarshal(s, j))
<1> DEFINE f == Unmarshal(s, j)
<1>1. j \in JSON
  BY InputsAssumption DEF JSON
<1>2. CASE s.kind = "tuple"
  BY <1>1, <1>2, TupleComesBack
<1>3. CASE s.kind # "tuple" /\ f = Nil
  BY <1>3, NilComesBack
<1>4. CASE s.kind # "tuple" /\ f = Null
  <2>1. s.kind = "raw"
    BY <1>1, <1>4, WhatIsRead
  <2>2. ~s.alone /\ ~HasUnmarshaler(s)
    BY <2>1, Kinds DEF HasUnmarshaler
  <2>3. Marshal(s, Null) = Null
    BY <2>1, Distinct DEF Marshal, IsEmpty, Encoded, Null
  <2>4. Fits(s, Null) /\ Unmarshal(s, Null) = Null
    BY <2>1, <2>2, Distinct DEF Fits, Unmarshal
  <2> QED
    BY <1>4, <2>3, <2>4, ReadBackSame
<1>5. CASE s.kind # "tuple" /\ f = ZeroObject /\ j = Null
  <2>1. s.kind = "discriminated" /\ s.default
    <3>1. s.kind = "discriminated"
      BY <1>5, Distinct, Kinds DEF Unmarshal, Decoded, ZeroObject, Null, Nil
    <3> QED
      BY <1>5, <3>1, Distinct DEF Fits, Decodes, HasUnmarshaler, Null
  <2>2. ZeroObject \in Values /\ ZeroObject.t = "object"
    BY DEF ZeroObject, Values
  <2>3. Marshal(s, ZeroObject) = ZeroObject
    BY <2>1, <2>2, Distinct DEF Marshal, HasUnmarshaler, Encoded
  <2>4. Fits(s, ZeroObject) /\ Unmarshal(s, ZeroObject) = ZeroObject
    BY <2>1, <2>2, Distinct DEF Fits, Decodes, Unmarshal, Decoded, HasUnmarshaler
  <2> QED
    BY <1>5, <2>3, <2>4, ReadBackSame
<1>6. CASE s.kind # "tuple" /\ j \in Values
  <2>1. Fits(s, Encoded(f)) /\ Unmarshal(s, Encoded(f)) = f /\ f \in Values
    BY <1>6, ValueComesBack
  <2>2. CASE Marshal(s, f) = Encoded(f)
    BY <2>1, <2>2, ReadBackSame
  <2>3. CASE Marshal(s, f) = Absent
    BY <1>6, <2>1, <2>3, OmittedComesBack
  <2> QED
    BY <2>2, <2>3 DEF Marshal
<1>7. j \notin Values => f \in {Nil, Null, ZeroObject} \/ s.kind = "tuple"
  BY <1>1 DEF JSON, Unmarshal, Decoded
<1>8. j \notin Values /\ f = ZeroObject /\ s.kind # "tuple" => j = Null
  BY <1>1, Distinct DEF JSON, Unmarshal, ZeroObject, Nil
<1> QED
  BY <1>2, <1>3, <1>4, <1>5, <1>6, <1>7, <1>8
-----------------------------------------------------------------------------
(* Where the value is: as it was first read, as it was accepted, or on its *)
(* way to the other end.                                                   *)
WasRead(s, f) == \E j \in Inputs : Fits(s, j) /\ f = Unmarshal(s, j)
Accepted(s, f) == WasRead(s, f) /\ Validate(s, f) = "valid"
AtFirst ==
  /\ pc = "unmarshal" => json \in Inputs
  /\ pc \in {"validate", "marshal"} => first.field = field /\ WasRead(schema, field)
  /\ pc = "marshal" => Validate(schema, field) = "valid"
AtTheOtherEnd ==
  /\ Accepted(schema, first.field)
  /\ json = Marshal(schema, first.field)
  /\ pc # "marshal"
  /\ pc = "unmarshal" => verdict = "none"
  /\ pc = "validate" => /\ verdict = "none"
                        /\ Fits(schema, json) /\ field = Unmarshal(schema, json)
  /\ pc = "end" => \/ verdict = "misfit" /\ ~Fits(schema, json)
                   \/ /\ Fits(schema, json) /\ field = Unmarshal(schema, json)
                      /\ verdict = Validate(schema, field)
Sent == /\ schema \in FieldSchemas /\ round \in {1, 2}
        /\ pc \in {"unmarshal", "validate", "marshal", "end"}
        /\ first = [json |-> first.json, field |-> first.field]
        /\ round = 1 => AtFirst
        /\ round = 2 => AtTheOtherEnd

LEMMA SentInit == Init => Sent
BY DEF Init, Sent, AtFirst

LEMMA SentInductive == Sent /\ [Next]_vars => Sent'
<1> SUFFICES ASSUME Sent, [Next]_vars PROVE Sent'
  OBVIOUS
<1>1. CASE UnmarshalFails
  BY <1>1 DEF UnmarshalFails, Sent, AtFirst, AtTheOtherEnd
<1>2. CASE UnmarshalOk /\ round = 1
  BY <1>2 DEF UnmarshalOk, Sent, AtFirst, WasRead
<1>3. CASE UnmarshalOk /\ round = 2
  BY <1>3 DEF UnmarshalOk, Sent, AtTheOtherEnd
<1>4. CASE ValidateField
  BY <1>4 DEF ValidateField, Sent, AtFirst, AtTheOtherEnd
<1>5. CASE MarshalAndSend
  BY <1>5 DEF MarshalAndSend, Sent, AtFirst, AtTheOtherEnd, Accepted
<1>6. CASE UNCHANGED vars
  BY <1>6 DEF vars, Sent, AtFirst, AtTheOtherEnd
<1> QED
  BY <1>1, <1>2, <1>3, <1>4, <1>5, <1>6 DEF Next, Sent

LEMMA SentStaysValid == Sent => ValidStaysValid
<1> SUFFICES ASSUME Sent, round = 2 PROVE ValidStaysValid
  BY DEF ValidStaysValid
<1> DEFINE f == first.field
<1>1. AtTheOtherEnd /\ schema \in FieldSchemas
  BY DEF Sent
<1>2. ReadBack(schema, f)
  BY <1>1, ComesBack DEF AtTheOtherEnd, Accepted, WasRead
<1>3. Fits(schema, json) => GoodAs(schema, Unmarshal(schema, json), f)
  BY <1>1, <1>2 DEF ReadBack, AtTheOtherEnd
<1>4. ~Fits(schema, json) => NullForNone(schema, f)
  BY <1>1, <1>2 DEF ReadBack, AtTheOtherEnd
<1>5. pc \in {"unmarshal", "validate", "end"}
  BY <1>1 DEF Sent, AtTheOtherEnd
<1>6. ASSUME pc = "end"
      PROVE  \/ verdict = "valid"
             \/ IsLost(schema, f) \/ NullForNone(schema, f)
  BY <1>1, <1>3, <1>4, <1>6 DEF AtTheOtherEnd, GoodAs
<1>7. ASSUME pc = "validate" \/ verdict \in {"valid", "invalid", "required"}
      PROVE  SameButNil(schema, field, f)
  BY <1>1, <1>3, <1>5, <1>7 DEF AtTheOtherEnd, GoodAs
<1> QED
  BY <1>6, <1>7 DEF ValidStaysValid
-----------------------------------------------------------------------------
(* What is accepted is what is valid: first the tests that are generated   *)
(* for a keyword, against what the keyword says.                           *)
Keywords(m) ==
  /\ m.minLength \in Nat /\ m.minItems \in Nat /\ m.minProperties \in Nat
  /\ m.maxLength \subseteq Nat /\ m.minimum \subseteq Nat /\ m.maximum \subseteq Nat
  /\ m.exclusiveMinimum \subseteq Nat /\ m.exclusiveMaximum \subseteq Nat
  /\ m.maxItems \subseteq Nat /\ m.maxProperties \subseteq Nat
  /\ m.multipleOf \subseteq Nat \ {0}
  /\ m.uniqueItems \in BOOLEAN /\ m.minimumIsExclusive \in BOOLEAN
  /\ m.maximumIsExclusive \in BOOLEAN /\ m.closed \in BOOLEAN /\ m.noValidate \in BOOLEAN
  /\ m.alone \in BOOLEAN /\ m.nullable \in BOOLEAN

LEMMA KeywordsOf ==
  ASSUME NEW s \in FieldSchemas, NEW m \in s.members \union {s}
  PROVE  Keywords(m)
BY KeywordsAssumption DEF Keywords

LEMMA LengthTests ==
  ASSUME NEW m, m.kind # "raw", Keywords(m), ~LimitIsLost(m),
         NEW f, f.chars \in Nat, f.bytes = f.chars
  PROVE  (\A v \in LengthValidators(m) : ~Test(v, m, f))
           <=> Between(f.chars, {m.minLength}, m.maxLength)
<1>1. m.minLength \in Nat /\ m.maxLength \subseteq Nat /\ m.maxLength # {0}
  BY DEF Keywords, LimitIsLost
<1>2. /\ Test("length", m, f) <=> \E n \in m.maxLength : f.chars # n
      /\ Test("minLength", m, f) <=> f.chars < m.minLength
      /\ Test("maxLength", m, f) <=> \E n \in m.maxLength : f.chars > n
  BY DEF Test, Bytes
<1>3. CASE m.maxLength = {m.minLength}
  <2>1. LengthValidators(m) = {"length"}
    BY <1>1, <1>3 DEF LengthValidators, When
  <2>2. Between(f.chars, {m.minLength}, m.maxLength) <=> f.chars = m.minLength
    BY <1>1, <1>3 DEF Between
  <2> QED
    BY <1>2, <1>3, <2>1, <2>2
<1>4. CASE m.maxLength # {m.minLength}
  <2>1. LengthValidators(m) = When(m.minLength # 0, "minLength")
                                \union When(m.maxLength # {}, "maxLength")
    BY <1>4 DEF LengthValidators, When
  <2>2. (\A v \in LengthValidators(m) : ~Test(v, m, f))
          <=> /\ m.minLength # 0 => ~Test("minLength", m, f)
              /\ m.maxLength # {} => ~Test("maxLength", m, f)
    BY <2>1 DEF When
  <2> QED
    BY <1>1, <1>2, <2>2 DEF Between
<1> QED
  BY <1>3, <1>4

LEMMA StringTests ==
  ASSUME NEW m, Keywords(m), ~LimitIsLost(m), m.kind = "string", ~m.nullable,
         NEW f, f.chars \in Nat, f.bytes = f.chars
  PROVE  (\A v \in Validators(m) : ~Test(v, m, f)) <=> StringMeets(m, f)
<1>1. Validators(m) = LengthValidators(m) \union When(m.enum # {}, "enum")
  BY DEF Validators
<1>2. Test("enum", m, f) <=> f \notin m.enum
  BY DEF Test
<1>3. (\A v \in Validators(m) : ~Test(v, m, f))
        <=> /\ \A v \in LengthValidators(m) : ~Test(v, m, f)
            /\ m.enum # {} => ~Test("enum", m, f)
  BY <1>1 DEF When
<1> QED
  BY <1>2, <1>3, LengthTests DEF StringMeets

LEMMA Multiples ==
  ASSUME NEW x \in Nat, NEW n \in Nat \ {0}
  PROVE  x % n = 0 <=> \E k \in 0..x : x = k * n
<1> DEFINE q == x \div n
           r == x % n
<1>1. q \in Int /\ r \in 0..(n - 1) /\ x = n * q + r
  OBVIOUS
<1>2. q \in Nat /\ q <= x
  OBVIOUS
<1> HIDE DEF q, r
<1>3. ASSUME r = 0 PROVE \E k \in 0..x : x = k * n
  <2>1. q \in 0..x /\ x = q * n
    BY <1>1, <1>2, <1>3
  <2> QED
    BY <2>1
<1>4. ASSUME NEW k \in 0..x, x = k * n PROVE r = 0
  <2>1. n * (k - q) = r
    BY <1>1, <1>4
  <2>2. CASE k - q >= 1
    <3>1. n * (k - q) >= n
      BY <1>2, <2>2
    <3> QED
      BY <1>1, <2>1, <3>1
  <2>3. CASE k - q <= -1
    <3>1. n * (k - q) <= -n
      BY <1>2, <2>3
    <3> QED
      BY <1>1, <2>1, <3>1
  <2>4. CASE k - q = 0
    BY <2>1, <2>4
  <2> QED
    BY <1>2, <2>2, <2>3, <2>4
<1> QED
  BY <1>3, <1>4 DEF r

LEMMA IntegerTests ==
  ASSUME NEW m, Keywords(m), ~LimitIsLost(m), m.kind = "integer", ~m.nullable,
         NEW f, f.n \in Nat
  PROVE  (\A v \in Validators(m) : ~Test(v, m, f)) <=> IntegerMeets(m, f)
<1>1. Validators(m) = NumberValidators(m) \union When(m.enum # {}, "enum")
  BY DEF Validators
<1>2. (\A v \in Validators(m) : ~Test(v, m, f))
        <=> /\ m.multipleOf # {} => ~Test("multipleOf", m, f)
            /\ Minimum(m) # {} => ~Test("minimum", m, f)
            /\ Maximum(m) # {} => ~Test("maximum", m, f)
            /\ m.enum # {} => ~Test("enum", m, f)
  BY <1>1 DEF NumberValidators, When
<1>3. Test("multipleOf", m, f) <=> \E n \in m.multipleOf : f.n % n # 0
  BY DEF Test
<1>4. ~Test("multipleOf", m, f) <=> \A n \in m.multipleOf : \E k \in 0..f.n : f.n = k * n
  <2>1. \A n \in m.multipleOf : f.n % n = 0 <=> \E k \in 0..f.n : f.n = k * n
    BY Multiples DEF Keywords
  <2> QED
    BY <1>3, <2>1
<1>5. ~Test("minimum", m, f) <=> \A n \in Minimum(m) : ~Below(f.n, n, MinExclusive(m))
  BY DEF Test
<1>6. ~Test("maximum", m, f) <=> \A n \in Maximum(m) : ~Below(n, f.n, MaxExclusive(m))
  BY DEF Test
<1>7. Test("enum", m, f) <=> f \notin m.enum
  BY DEF Test
<1>8. (\A n \in Minimum(m) : ~Below(f.n, n, MinExclusive(m)))
        <=> /\ \A n \in m.minimum : n <= f.n
            /\ \A n \in m.exclusiveMinimum : n < f.n
            /\ m.minimumIsExclusive => f.n \notin m.minimum
  <2>1. m.minimum = {} \/ m.exclusiveMinimum = {}
    BY DEF LimitIsLost
  <2>2. m.minimum \subseteq Nat /\ m.exclusiveMinimum \subseteq Nat
    BY DEF Keywords
  <2>3. CASE m.exclusiveMinimum # {}
    BY <2>1, <2>2, <2>3 DEF Minimum, MinExclusive, Below
  <2>4. CASE m.exclusiveMinimum = {} /\ m.minimumIsExclusive
    BY <2>2, <2>4 DEF Minimum, MinExclusive, Below
  <2>5. CASE m.exclusiveMinimum = {} /\ ~m.minimumIsExclusive
    BY <2>2, <2>5 DEF Minimum, MinExclusive, Below
  <2> QED
    BY <2>3, <2>4, <2>5
<1>9. (\A n \in Maximum(m) : ~Below(n, f.n, MaxExclusive(m)))
        <=> /\ \A n \in m.maximum : f.n <= n
            /\ \A n \in m.exclusiveMaximum : f.n < n
            /\ m.maximumIsExclusive => f.n \notin m.maximum
  <2>1. m.maximum = {} \/ m.exclusiveMaximum = {}
    BY DEF LimitIsLost
  <2>2. m.maximum \subseteq Nat /\ m.exclusiveMaximum \subseteq Nat
    BY DEF Keywords
  <2>3. CASE m.exclusiveMaximum # {}
    BY <2>1, <2>2, <2>3 DEF Maximum, MaxExclusive, Below
  <2>4. CASE m.exclusiveMaximum = {} /\ m.maximumIsExclusive
    BY <2>2, <2>4 DEF Maximum, MaxExclusive, Below
  <2>5. CASE m.exclusiveMaximum = {} /\ ~m.maximumIsExclusive
    BY <2>2, <2>5 DEF Maximum, MaxExclusive, Below
  <2> QED
    BY <2>3, <2>4, <2>5
<1>10. IntegerMeets(m, f)
         <=> /\ \A n \in m.multipleOf : \E k \in 0..f.n : f.n = k * n
             /\ /\ \A n \in m.minimum : n <= f.n
                /\ \A n \in m.exclusiveMinimum : n < f.n
                /\ m.minimumIsExclusive => f.n \notin m.minimum
             /\ /\ \A n \in m.maximum : f.n <= n
                /\ \A n \in m.exclusiveMaximum : f.n < n
                /\ m.maximumIsExclusive => f.n \notin m.maximum
             /\ m.enum # {} => f \in m.enum
  BY Zenon DEF IntegerMeets, Between, Strictly
<1>11. (\A v \in Validators(m) : ~Test(v, m, f))
         <=> /\ ~Test("multipleOf", m, f) /\ ~Test("minimum", m, f) /\ ~Test("maximum", m, f)
             /\ m.enum # {} => ~Test("enum", m, f)
  <2>1. /\ m.multipleOf = {} => ~Test("multipleOf", m, f)
        /\ Minimum(m) = {} => ~Test("minimum", m, f)
        /\ Maximum(m) = {} => ~Test("maximum", m, f)
    BY DEF Test
  <2> QED
    BY <1>2, <2>1, Zenon
<1> QED
  BY <1>4, <1>5, <1>6, <1>7, <1>8, <1>9, <1>10, <1>11, Zenon

(* A slice's own tests, of what was read of an array without null: there   *)
(* is one name for each item if and only if no two are the same.           *)
LEMMA NamesOfItems ==
  ASSUME NEW items \in Seq(ItemNames)
  PROVE  Cardinality(Range(items)) = Len(items)
           <=> \A a, b \in DOMAIN items : items[a] = items[b] => a = b
<1> DEFINE D == 1..Len(items)
           T == Range(items)
<1>1. DOMAIN items = D /\ Len(items) \in Nat
  OBVIOUS
<1>2. IsFiniteSet(D) /\ Cardinality(D) = Len(items)
  BY <1>1, FS_Interval
<1>3. items \in [D -> T] /\ \A t \in T : \E k \in D : items[k] = t
  BY <1>1 DEF Range
<1>4. items \in Surjection(D, T)
  BY <1>3 DEF Surjection
<1>5. Cardinality(T) = Cardinality(D) <=> items \in Injection(D, T)
  BY <1>2, <1>4, FS_Surjection
<1>6. items \in Injection(D, T) <=> \A a, b \in D : items[a] = items[b] => a = b
  BY <1>3 DEF Injection, IsInjective
<1> QED
  BY <1>1, <1>2, <1>5, <1>6

LEMMA SliceIsValid ==
  ASSUME NEW m, NEW f
  PROVE  SliceVerdict(m, f) = "valid"
           <=> /\ ~SliceIsInvalid(m, f)
               /\ \A item \in Range(Items(f)) : ItemVerdict(m, item) = "valid"
<1> DEFINE verdicts == [k \in DOMAIN Items(f) |-> ItemVerdict(m, Items(f)[k])]
           stops == {k \in DOMAIN verdicts : verdicts[k] # "valid"}
<1>1. stops = {} <=> \A item \in Range(Items(f)) : ItemVerdict(m, item) = "valid"
  BY DEF Range
<1>2. SliceVerdict(m, f) = "valid" <=> ~SliceIsInvalid(m, f) /\ stops = {}
  <2> HIDE DEF verdicts
  <2> QED
    BY DEF SliceVerdict, VerdictIf, verdicts
<1> QED
  BY <1>1, <1>2

LEMMA FilledWithoutNull ==
  ASSUME NEW m, NEW j \in Values, j.t = "array", NullItem \notin Range(j.items)
  PROVE  FillSlice(m, j) = j
<1>1. j \in [t : {"array"}, items : Seq(ItemNames)]
  BY DEF Values
<1>2. [k \in DOMAIN j.items |-> ReadItem(m, j.items[k])] = j.items
  BY <1>1 DEF ReadItem, Range
<1> QED
  BY <1>1, <1>2 DEF FillSlice

(* Each item is judged rightly, but for those that no validator sees.      *)
LEMMA ItemTests ==
  ASSUME NEW m, ItemsKnown(m), NEW item, item # NilItem
  PROVE  ItemVerdict(m, ReadItem(m, item)) = "valid"
           <=> CASE item = NullItem -> m.item.nullVerdict = "valid"
                 [] item = BadItem -> ~m.item.checked
                 [] item = ZeroItem -> ZeroMeets(m)
                 [] OTHER -> TRUE
<1> USE DEF ItemVerdict, ReadItem, VerdictIf, ItemsKnown, NullItem, BadItem, ZeroItem, NilItem
<1>1. CASE item = NullItem
  BY <1>1
<1>2. CASE item = BadItem
  BY <1>2
<1>3. CASE item = ZeroItem
  BY <1>3 DEF ZeroMeets
<1>4. CASE item \notin {NullItem, BadItem, ZeroItem}
  BY <1>4
<1> QED
  BY <1>1, <1>2, <1>3, <1>4

ReadAsRefused(m, j) ==
  /\ NullItem \in Range(j.items) /\ m.item.nullMeets
  /\ m.item.nullVerdict # "valid" \/ m.uniqueItems

LEMMA SliceTests ==
  ASSUME NEW m, Keywords(m), ItemsKnown(m), NEW j \in Values, j.t = "array",
         NilItem \notin Range(j.items), ~ReadAsRefused(m, j)
  PROVE  /\ ArrayMeets(m, j) => SliceVerdict(m, FillSlice(m, j)) = "valid"
         /\ SliceVerdict(m, FillSlice(m, j)) = "valid" => ArrayMeets(m, j) \/ ItemsUnseen(m, j)
<1> DEFINE f == FillSlice(m, j)
           unique == \A a, b \in DOMAIN j.items : j.items[a] = j.items[b] => a = b
<1>1. j \in [t : {"array"}, items : Seq(ItemNames)]
  BY DEF Values
<1>2. /\ f = [t |-> "array", items |-> f.items] /\ Len(j.items) \in Nat
      /\ f.items = [k \in DOMAIN j.items |-> ReadItem(m, j.items[k])]
  BY <1>1 DEF FillSlice
<1>3. Items(f) = f.items /\ Len(f.items) = Len(j.items)
  BY <1>1, <1>2 DEF Items, Nil
<1>4. \A item : item \in Range(f.items) <=> \E read \in Range(j.items) : item = ReadItem(m, read)
  BY <1>2 DEF Range
<1>5. SliceVerdict(m, f) = "valid"
        <=> /\ ~SliceIsInvalid(m, f)
            /\ \A item \in Range(j.items) : ItemVerdict(m, ReadItem(m, item)) = "valid"
  BY <1>3, <1>4, SliceIsValid
<1>6. (\A item \in Range(j.items) : ItemVerdict(m, ReadItem(m, item)) = "valid")
        <=> /\ NullItem \in Range(j.items) => m.item.nullVerdict = "valid"
            /\ BadItem \in Range(j.items) => ~m.item.checked
            /\ ZeroItem \in Range(j.items) => ZeroMeets(m)
  BY ItemTests DEF NullItem, BadItem, ZeroItem, NilItem
<1> HIDE DEF f
<1>7. ~SliceIsInvalid(m, f)
        <=> /\ Between(Len(j.items), {m.minItems}, m.maxItems)
            /\ m.uniqueItems => Cardinality(Range(f.items)) = Len(j.items)
  BY <1>2, <1>3 DEF SliceIsInvalid, Between, Keywords
<1>8. CASE NullItem \notin Range(j.items)
  <2>1. f = j
    BY <1>8, FilledWithoutNull DEF f
  <2>2. Cardinality(Range(f.items)) = Len(j.items) <=> unique
    BY <1>1, <2>1, NamesOfItems
  <2>3. ~SliceIsInvalid(m, f) <=> /\ Between(Len(j.items), {m.minItems}, m.maxItems)
                                  /\ m.uniqueItems => unique
    BY <1>7, <2>2
  <2> HIDE DEF unique
  <2>4. ArrayMeets(m, j) <=> /\ ~SliceIsInvalid(m, f) /\ BadItem \notin Range(j.items)
                             /\ ZeroItem \in Range(j.items) => ZeroMeets(m)
    BY <1>8, <2>3 DEF ArrayMeets, unique
  <2> QED
    BY <1>5, <1>6, <1>8, <2>4 DEF ItemsUnseen, f
<1>9. CASE NullItem \in Range(j.items) /\ ~m.item.nullMeets
  BY <1>5, <1>6, <1>9 DEF ArrayMeets, ItemsUnseen, f
<1>10. CASE NullItem \in Range(j.items) /\ m.item.nullMeets
  <2>1. m.item.nullVerdict = "valid" /\ ~m.uniqueItems
    BY <1>10 DEF ReadAsRefused
  <2>2. ~SliceIsInvalid(m, f) <=> Between(Len(j.items), {m.minItems}, m.maxItems)
    BY <1>7, <2>1
  <2>3. ArrayMeets(m, j) <=> /\ ~SliceIsInvalid(m, f) /\ BadItem \notin Range(j.items)
                             /\ ZeroItem \in Range(j.items) => ZeroMeets(m)
    BY <1>10, <2>1, <2>2 DEF ArrayMeets
  <2> QED
    BY <1>5, <1>6, <2>1, <2>3 DEF ItemsUnseen, f
<1> QED
  BY <1>8, <1>9, <1>10

(* Validate of a field, which is nil or not.                               *)
LEMMA FieldVerdict ==
  ASSUME NEW s \in FieldSchemas, ~s.alone, NEW f, f # Nil
  PROVE  Validate(s, f) = "valid" <=> \A v \in Validators(s) : Outcome(v, s, f) = "valid"
<1>1. Validate(s, f) = ValidateStruct(s, f) /\ ~Missing(s, f) /\ Tested(s, f) = Validators(s)
  BY DEF Validate, Missing, Tested
<1>2. ValidateStruct(s, f) =
        LET outcomes == {Outcome(v, s, f) : v \in Validators(s)}
        IN  IF outcomes \subseteq {"valid"} THEN "valid"
            ELSE IF "panic" \in outcomes THEN "panic" ELSE "invalid"
  BY <1>1 DEF ValidateStruct
<1> QED
  BY <1>1, <1>2

LEMMA NilVerdict ==
  ASSUME NEW s \in FieldSchemas, ~s.alone
  PROVE  /\ s.required => Validate(s, Nil) # "valid"
         /\ ~s.required /\ (IsPointer(s) \/ "subschema" \notin Validators(s))
              => Validate(s, Nil) = "valid"
<1>1. Validate(s, Nil) = ValidateStruct(s, Nil)
  BY DEF Validate
<1>2. s.required => ValidateStruct(s, Nil) = "required"
  BY DEF ValidateStruct, Missing
<1>3. ASSUME ~s.required, IsPointer(s) \/ "subschema" \notin Validators(s)
      PROVE  ValidateStruct(s, Nil) = "valid"
  <2>1. Tested(s, Nil) = {} /\ ~Missing(s, Nil)
    BY <1>3 DEF Tested, Guarded, Missing
  <2> QED
    BY <2>1 DEF ValidateStruct
<1> QED
  BY <1>1, <1>2, <1>3

Judged(s, j) == Fits(s, j) /\ Validate(s, Unmarshal(s, j)) = "valid"
Judgement(s, j) == /\ Meets(s, j) => Judged(s, j)
                   /\ Judged(s, j) /\ ~Unseen(s, j) => Meets(s, j)
Judging(s, j) == /\ s \in FieldSchemas /\ j \in Inputs
                 /\ ~HasQuirk(s, j) /\ ~Refused(s, j)

LEMMA JudgingMeans ==
  ASSUME NEW s, NEW j, Judging(s, j)
  PROVE  /\ j \in JSON /\ (j.t = "array" => NilItem \notin Range(j.items))
         /\ Keywords(s) /\ (s.kind = j.t => ~LimitIsLost(s))
         /\ ~AbsentTooShort(s, j) /\ (j.t = "string" => j.bytes = j.chars)
         /\ s.nullable /\ s.required => j # Null
         /\ IsRawString(s) => j = Absent
         /\ j.t = "array" => \A m \in s.members \union {s} : ~ReadAsRefused(m, j)
         /\ s.nullable => s.kind = "oneOf" \/ (~s.alone /\ s.kind \in {"string", "integer", "array", "object"})
         /\ s.required \in BOOLEAN /\ s.alone \in BOOLEAN /\ s.nullable \in BOOLEAN
<1>1. j \in JSON /\ (j.t = "array" => NilItem \notin Range(j.items))
  BY InputsAssumption DEF Judging, JSON
<1>2. Keywords(s)
  BY KeywordsOf DEF Judging
<1>3. s.kind = j.t => ~LimitIsLost(s)
  BY DEF Judging, HasQuirk
<1>4. ~AbsentTooShort(s, j) /\ (j.t = "string" => j.bytes = j.chars)
  BY DEF Judging, HasQuirk, Multibyte
<1>5. s.nullable /\ s.required => j # Null
  BY DEF Judging, Refused
<1>6. s \in FieldSchemas
  BY DEF Judging
<1>7. s.nullable => s.kind = "oneOf" \/ (~s.alone /\ s.kind \in {"string", "integer", "array", "object"})
  BY <1>6, MembersAssumption
<1>8. s.required \in BOOLEAN /\ s.alone \in BOOLEAN /\ s.nullable \in BOOLEAN
  BY <1>6, Kinds
<1>9. IsRawString(s) => j = Absent
  BY DEF Judging, HasQuirk
<1>10. j.t = "array" => \A m \in s.members \union {s} : ~ReadAsRefused(m, j)
  BY DEF Judging, Refused, ReadAsRefused
<1> QED
  BY <1>1, <1>2, <1>3, <1>4, <1>5, <1>7, <1>8, <1>9, <1>10

(* Nothing, and null, in a property without an UnmarshalJSON.              *)
LEMMA NoneIsJudged ==
  ASSUME NEW s, NEW j, Judging(s, j), j \in {Absent, Null}, ~s.alone, s.kind # "oneOf"
  PROVE  Judgement(s, j)
<1>a. s \in FieldSchemas /\ s.nullable \in BOOLEAN
  BY JudgingMeans DEF Judging
<1>b. s.kind \in {"string", "integer", "object", "array", "map", "any", "raw",
                 "discriminated", "tuple"}
  BY <1>a, Kinds
<1>c. s.nullable => ~s.alone /\ s.kind \in {"string", "integer", "array", "object"}
  BY JudgingMeans
<1>d. s.nullable /\ s.required => j # Null
  BY JudgingMeans
<1>1. Meets(s, j) <=> \/ j = Absent /\ ~s.required
                      \/ j = Null /\ (s.nullable \/ s.kind = "raw"
                                        \/ (~s.required /\ s.kind # "discriminated"))
  BY <1>c, JudgingMeans, Distinct DEF Meets, ValueMeets, Null, Absent
<1>2. CASE s.kind = "tuple"
  <2>1. Fits(s, j) /\ Unmarshal(s, j) # Nil
    BY <1>2, Distinct DEF Fits, Decodes, HasUnmarshaler, Unmarshal, Decoded, FillTuple, Nil, Null
  <2>2. Judged(s, j)
    BY <1>a, <1>2, <2>1, NothingToValidate DEF Judged, IsRawString
  <2> QED
    BY <1>2, <2>2 DEF Judgement, Unseen
<1>3. CASE s.kind = "discriminated"
  <2>1. ASSUME Meets(s, j) PROVE Judged(s, j)
    <3>1. j = Absent /\ ~s.required
      BY <1>1, <1>3, <1>c, <2>1
    <3>2. Fits(s, j) /\ Unmarshal(s, j) = Nil /\ Validators(s) = {}
      BY <1>3, <3>1 DEF Fits, Unmarshal, Validators
    <3> QED
      BY <1>a, <3>1, <3>2, NilVerdict DEF Judged
  <2> QED
    BY <1>3, <2>1 DEF Judgement, Unseen
<1>4. CASE s.kind = "raw" /\ j = Null
  <2>1. Fits(s, j) /\ Unmarshal(s, j) = Null
    BY <1>4, Distinct DEF Fits, Unmarshal, HasUnmarshaler
  <2>2. Judged(s, j)
    BY <1>a, <1>4, <2>1, Distinct, NothingToValidate, JudgingMeans DEF Judged
  <2> QED
    BY <1>1, <1>4, <2>2 DEF Judgement
<1>5. CASE /\ s.kind \notin {"tuple", "discriminated"}
           /\ ~(s.kind = "raw" /\ j = Null)
  <2>1. Fits(s, j) /\ Unmarshal(s, j) = Nil
    BY <1>b, <1>5, Distinct DEF Fits, Unmarshal, HasUnmarshaler, Decoded
  <2>2. Meets(s, j) <=> ~s.required
    BY <1>1, <1>5, <1>d
  <2>3. ASSUME ~s.required PROVE Validate(s, Nil) = "valid"
    <3>1. CASE s.kind # "array" \/ s.nullable
      <4>1. IsPointer(s) \/ "subschema" \notin Validators(s)
        BY <1>b, <1>5, <3>1 DEF IsPointer, Validators, LengthValidators, When
      <4> QED
        BY <1>a, <2>3, <4>1, NilVerdict
    <3>2. CASE s.kind = "array" /\ ~s.nullable
      <4>1. s.minItems = 0
        BY <3>2, JudgingMeans DEF AbsentTooShort, Absent, Null, Keywords
      <4>2. s.maxItems \subseteq Nat
        BY JudgingMeans DEF Keywords
      <4>3. Items(Nil) = <<>> /\ Len(Items(Nil)) = 0 /\ Range(Items(Nil)) = {}
        BY DEF Items, Range
      <4>4. Cardinality({}) = 0
        BY FS_EmptySet
      <4>5. ~SliceIsInvalid(s, Nil)
        <5>1. Cardinality(Range(Items(Nil))) = Len(Items(Nil))
          BY <4>3, <4>4
        <5>2. \A n \in s.maxItems : ~(0 > n)
          BY <4>2
        <5> QED
          BY <4>1, <4>3, <5>1, <5>2 DEF SliceIsInvalid
      <4>6. SliceVerdict(s, Nil) = "valid"
        BY <4>3, <4>5, SliceIsValid
      <4>7. Validators(s) \subseteq {"subschema"} /\ ~IsPointer(s)
        BY <3>2 DEF Validators, When, IsPointer
      <4>8. \A v \in Tested(s, Nil) : Outcome(v, s, Nil) = "valid"
        BY <3>2, <4>6, <4>7 DEF Tested, Outcome
      <4>9. ValidateStruct(s, Nil) = "valid"
        BY <2>3, <4>7, <4>8 DEF ValidateStruct, Missing
      <4> QED
        BY <4>9 DEF Validate
    <3> QED
      BY <1>a, <3>1, <3>2
  <2>4. s.required => Validate(s, Nil) # "valid"
    BY <1>a, NilVerdict
  <2> QED
    BY <2>1, <2>2, <2>3, <2>4 DEF Judgement, Judged
<1> QED
  BY <1>2, <1>3, <1>4, <1>5

(* A value, which is not null, by the kind of the schema.                  *)
LEMMA ValueIsFound ==
  ASSUME NEW s, NEW j, Judging(s, j), j \notin {Absent, Null}
  PROVE  /\ j \in Values /\ s \in FieldSchemas
         /\ s.kind # "oneOf" => (Meets(s, j) <=> ValueMeets(s, j))
         /\ ~s.alone /\ ~HasUnmarshaler(s) =>
              (Fits(s, j) <=> s.kind \in {"any", "raw"} \/ j.t = JSONTypeOf(s))
         /\ s.alone \/ HasUnmarshaler(s) => (Fits(s, j) <=> Decodes(s, j))
<1>1. j \in Values /\ s \in FieldSchemas
  BY JudgingMeans DEF Judging, JSON
<1>2. s.alone \in BOOLEAN /\ s.nullable \in BOOLEAN
  BY JudgingMeans
<1> QED
  BY <1>1, <1>2 DEF Meets, Fits

LEMMA ScalarIsJudged ==
  ASSUME NEW s, NEW j, Judging(s, j), j \notin {Absent, Null}, s.kind \in {"string", "integer"}
  PROVE  Judgement(s, j)
<1>a. j \in Values /\ s \in FieldSchemas /\ j # Nil
  BY ValueIsFound, Distinct
<1>b. ~s.alone /\ ~HasUnmarshaler(s)
  BY <1>a, Kinds DEF HasUnmarshaler
<1>c. Keywords(s) /\ s.nullable \in BOOLEAN
  BY JudgingMeans
<1>1. Fits(s, j) <=> j.t = s.kind
  BY <1>b, ValueIsFound DEF JSONTypeOf
<1>2. Meets(s, j) <=> j.t = s.kind /\ IF s.kind = "string" THEN StringMeets(s, j) ELSE IntegerMeets(s, j)
  BY ValueIsFound DEF ValueMeets
<1>3. CASE j.t # s.kind
  BY <1>1, <1>2, <1>3 DEF Judgement, Judged
<1>4. CASE j.t = s.kind /\ s.nullable
  <2>1. Unmarshal(s, j) = j /\ Validators(s) = {}
    BY <1>b, <1>4 DEF Unmarshal, Validators
  <2>2. Judged(s, j)
    BY <1>1, <1>4, <1>a, <1>b, <2>1, FieldVerdict DEF Judged
  <2> QED
    BY <1>4, <1>b, <2>2 DEF Judgement, Unseen
<1>5. CASE j.t = s.kind /\ ~s.nullable
  <2>1. Unmarshal(s, j) = j
    BY <1>b, <1>5 DEF Unmarshal
  <2>2. "subschema" \notin Validators(s)
    BY <1>5 DEF Validators, LengthValidators, NumberValidators, When
  <2>3. \A v \in Validators(s) : Outcome(v, s, j) = "valid" <=> ~Test(v, s, j)
    BY <2>2 DEF Outcome, VerdictIf
  <2>4. Validate(s, j) = "valid" <=> \A v \in Validators(s) : ~Test(v, s, j)
    BY <1>a, <1>b, <2>3, FieldVerdict
  <2>5. ~LimitIsLost(s)
    BY <1>5, JudgingMeans
  <2>6. CASE s.kind = "string"
    <3>1. j.chars \in Nat /\ j.bytes = j.chars
      BY <1>5, <1>a, <2>6, JudgingMeans DEF Values
    <3>2. Validate(s, j) = "valid" <=> StringMeets(s, j)
      BY <1>5, <1>c, <2>4, <2>5, <2>6, <3>1, StringTests
    <3> QED
      BY <1>1, <1>2, <1>5, <2>1, <2>6, <3>2 DEF Judgement, Judged
  <2>7. CASE s.kind = "integer"
    <3>1. j.n \in Nat
      BY <1>5, <1>a, <2>7 DEF Values
    <3>2. Validate(s, j) = "valid" <=> IntegerMeets(s, j)
      BY <1>5, <1>c, <2>4, <2>5, <2>7, <3>1, IntegerTests
    <3> QED
      BY <1>1, <1>2, <1>5, <2>1, <2>7, <3>2 DEF Judgement, Judged
  <2> QED
    BY <2>6, <2>7
<1> QED
  BY <1>3, <1>4, <1>5, <1>c

LEMMA ObjectIsJudged ==
  ASSUME NEW s, NEW j, Judging(s, j), j \notin {Absent, Null}, s.kind = "object"
  PROVE  Judgement(s, j)
<1>a. j \in Values /\ s \in FieldSchemas /\ j # Nil
  BY ValueIsFound, Distinct
<1>b. ~s.alone /\ ~HasUnmarshaler(s) /\ MemberFor(s, j) = s
  BY <1>a, Kinds DEF HasUnmarshaler, MemberFor
<1>1. Fits(s, j) <=> j.t = "object"
  BY <1>b, ValueIsFound DEF JSONTypeOf
<1>2. Meets(s, j) <=> j.t = "object" /\ (s.noValidate \/ j.ok)
  BY ValueIsFound DEF ValueMeets
<1>3. Unmarshal(s, j) = j
  BY <1>b DEF Unmarshal
<1>4. CASE s.nullable \/ s.noValidate \/ s.closed
  <2>1. Validators(s) = {}
    BY <1>4 DEF Validators, When
  <2>2. Validate(s, j) = "valid"
    BY <1>a, <1>b, <2>1, FieldVerdict
  <2> QED
    BY <1>1, <1>2, <1>3, <1>4, <1>b, <2>2 DEF Judgement, Judged, Unseen
<1>5. CASE ~s.nullable /\ ~s.noValidate /\ ~s.closed
  <2>1. Validators(s) = {"subschema"}
    BY <1>5 DEF Validators, When
  <2>2. Outcome("subschema", s, j) = VerdictIf(~j.ok)
    BY DEF Outcome
  <2>3. Validate(s, j) = "valid" <=> j.ok
    BY <1>a, <1>b, <2>1, <2>2, FieldVerdict DEF VerdictIf
  <2> QED
    BY <1>1, <1>2, <1>3, <1>5, <2>3 DEF Judgement, Judged
<1> QED
  BY <1>4, <1>5

LEMMA ArrayIsJudged ==
  ASSUME NEW s, NEW j, Judging(s, j), j \notin {Absent, Null}, s.kind = "array"
  PROVE  Judgement(s, j)
<1>a. j \in Values /\ s \in FieldSchemas /\ Keywords(s)
  BY ValueIsFound, JudgingMeans
<1>b. ~HasUnmarshaler(s) /\ MemberFor(s, j) = s /\ ItemsKnown(s)
  BY <1>a, Kinds DEF HasUnmarshaler, MemberFor
<1>c. s.alone \in BOOLEAN /\ s.nullable \in BOOLEAN /\ (s.nullable => ~s.alone)
  BY JudgingMeans
<1>1. Fits(s, j) <=> j.t = "array"
  BY <1>a, <1>b, ValueIsFound, Distinct DEF JSONTypeOf, Decodes, Values
<1>2. Meets(s, j) <=> j.t = "array" /\ ((s.noValidate /\ ~s.alone) \/ ArrayMeets(s, j))
  BY ValueIsFound DEF ValueMeets
<1>3. SUFFICES ASSUME j.t = "array" PROVE Judgement(s, j)
  BY <1>1, <1>2 DEF Judgement, Judged
<1>4. Unmarshal(s, j) = FillSlice(s, j)
  BY <1>3, <1>b DEF Unmarshal, Decoded
<1>5. FillSlice(s, j) # Nil
  BY <1>3, <1>a, <1>b, FilledSlice, Distinct
<1>6. /\ ArrayMeets(s, j) => SliceVerdict(s, FillSlice(s, j)) = "valid"
      /\ SliceVerdict(s, FillSlice(s, j)) = "valid"
           => ArrayMeets(s, j) \/ ItemsUnseen(s, j)
  BY <1>3, <1>a, <1>b, JudgingMeans, SliceTests
<1>7. ItemsUnseen(s, j) => Unseen(s, j)
  BY <1>3, <1>b DEF Unseen
<1>8. CASE s.alone
  <2>1. Validate(s, FillSlice(s, j)) = SliceVerdict(s, FillSlice(s, j))
    BY <1>8 DEF Validate, Verdict
  <2> QED
    BY <1>1, <1>2, <1>3, <1>4, <1>6, <1>7, <1>8, <2>1 DEF Judgement, Judged
<1>9. CASE ~s.alone /\ (s.nullable \/ s.noValidate \/ s.closed)
  <2>1. Validators(s) = {}
    BY <1>9 DEF Validators, When
  <2>2. Validate(s, FillSlice(s, j)) = "valid"
    BY <1>5, <1>9, <1>a, <2>1, FieldVerdict
  <2>3. s.noValidate \/ Unseen(s, j)
    BY <1>3, <1>9, <1>b DEF Unseen
  <2> QED
    BY <1>1, <1>2, <1>3, <1>4, <1>9, <2>2, <2>3 DEF Judgement, Judged
<1>10. CASE ~s.alone /\ ~s.nullable /\ ~s.noValidate /\ ~s.closed
  <2>1. Validators(s) = {"subschema"}
    BY <1>10 DEF Validators, When
  <2>2. Outcome("subschema", s, FillSlice(s, j)) = SliceVerdict(s, FillSlice(s, j))
    BY DEF Outcome
  <2>3. Validate(s, FillSlice(s, j)) = "valid" <=> SliceVerdict(s, FillSlice(s, j)) = "valid"
    BY <1>5, <1>10, <1>a, <2>1, <2>2, FieldVerdict
  <2> QED
    BY <1>1, <1>2, <1>3, <1>4, <1>6, <1>7, <1>10, <2>3 DEF Judgement, Judged
<1> QED
  BY <1>8, <1>9, <1>10, <1>c

LEMMA AnyIsJudged ==
  ASSUME NEW s, NEW j, Judging(s, j), j \notin {Absent, Null}, s.kind \in {"any", "raw"}
  PROVE  Judgement(s, j)
<1>a. j \in Values /\ s \in FieldSchemas /\ j # Nil
  BY ValueIsFound, Distinct
<1>b. ~s.alone /\ ~HasUnmarshaler(s)
  BY <1>a, Kinds DEF HasUnmarshaler
<1>1. Fits(s, j) /\ Meets(s, j)
  BY <1>b, ValueIsFound, JudgingMeans DEF ValueMeets
<1>2. Unmarshal(s, j) = j /\ Validators(s) = {}
  BY <1>b, JudgingMeans DEF Unmarshal, Validators, IsRawString
<1>3. Validate(s, j) = "valid"
  BY <1>2, <1>a, <1>b, FieldVerdict
<1> QED
  BY <1>1, <1>2, <1>3 DEF Judgement, Judged

LEMMA MapIsJudged ==
  ASSUME NEW s, NEW j, Judging(s, j), j \notin {Absent, Null}, s.kind = "map"
  PROVE  Judgement(s, j)
<1>a. j \in Values /\ s \in FieldSchemas /\ j # Nil /\ Keywords(s)
  BY ValueIsFound, JudgingMeans, Distinct
<1>b. ~HasUnmarshaler(s) /\ MemberFor(s, j) = s /\ s.alone \in BOOLEAN
  BY <1>a, Kinds DEF HasUnmarshaler, MemberFor
<1>1. Fits(s, j) <=> j.t = "object"
  BY <1>a, <1>b, ValueIsFound, Distinct DEF JSONTypeOf, Decodes, Values
<1>2. Meets(s, j) <=> /\ j.t = "object"
                      /\ Between(j.size, {s.minProperties}, s.maxProperties) /\ j.ok
  BY ValueIsFound DEF ValueMeets
<1>3. SUFFICES ASSUME j.t = "object" PROVE Judgement(s, j)
  BY <1>1, <1>2 DEF Judgement, Judged
<1>4. Unmarshal(s, j) = j
  BY <1>3, <1>a, <1>b, Distinct DEF Unmarshal, Decoded
<1>5. CASE s.alone
  <2>1. Validate(s, j) = VerdictIf(MapIsInvalid(s, j))
    BY <1>5 DEF Validate, Verdict
  <2>2. j.size \in Nat
    BY <1>3, <1>a DEF Values
  <2>3. ~MapIsInvalid(s, j) <=> /\ Between(j.size, {s.minProperties}, s.maxProperties)
                                /\ j.ok \/ ~s.item.checked
    BY <1>a, <2>2 DEF MapIsInvalid, Between, Keywords
  <2>4. ~s.item.checked /\ ~j.ok => Unseen(s, j)
    BY <1>3 DEF Unseen
  <2> QED
    BY <1>1, <1>2, <1>3, <1>4, <2>1, <2>3, <2>4 DEF Judgement, Judged, VerdictIf
<1>6. CASE ~s.alone
  <2>1. Validators(s) = {}
    BY DEF Validators
  <2>2. Validate(s, j) = "valid"
    BY <1>6, <1>a, <2>1, FieldVerdict
  <2> QED
    BY <1>1, <1>3, <1>4, <1>6, <2>2 DEF Judgement, Judged, Unseen
<1> QED
  BY <1>5, <1>6, <1>b

LEMMA SelectedIsJudged ==
  ASSUME NEW s, NEW j, Judging(s, j), j \notin {Absent, Null},
         s.kind \in {"discriminated", "tuple"}
  PROVE  Judgement(s, j)
<1>a. j \in Values /\ s \in FieldSchemas
  BY ValueIsFound
<1>b. HasUnmarshaler(s)
  BY DEF HasUnmarshaler
<1>1. Fits(s, j) <=> Decodes(s, j)
  BY <1>b, ValueIsFound
<1>2. ASSUME Meets(s, j) PROVE Fits(s, j)
  <2>1. ValueMeets(s, j)
    BY <1>2, ValueIsFound
  <2> QED
    BY <1>1, <2>1 DEF ValueMeets, Decodes
<1>3. Unmarshal(s, j) # Nil
  <2>1. Unmarshal(s, j) = Decoded(s, j)
    BY <1>b DEF Unmarshal
  <2>2. CASE s.kind = "tuple"
    BY <2>1, <2>2 DEF Decoded, FillTuple, Nil
  <2>3. CASE s.kind = "discriminated" /\ j.t = "array"
    <3>1. Unmarshal(s, j) = FillSlice(s, j)
      BY <2>1, <2>3 DEF Decoded, MemberFor
    <3> QED
      BY <1>a, <2>3, <3>1, Kinds, FilledSlice, Distinct
  <2>4. CASE s.kind = "discriminated" /\ j.t # "array"
    BY <1>a, <2>1, <2>4, Distinct DEF Decoded
  <2> QED
    BY <2>2, <2>3, <2>4
<1>4. Validate(s, Unmarshal(s, j)) = "valid"
  BY <1>3, <1>a, NothingToValidate DEF IsRawString
<1> QED
  BY <1>2, <1>4 DEF Judgement, Judged, Unseen

(* A oneOf: null, a value in a property, and a value alone, by the member  *)
(* that its token tells.                                                   *)
LEMMA OneOfNoneIsJudged ==
  ASSUME NEW s, NEW j, Judging(s, j), j \in {Absent, Null}, s.kind = "oneOf"
  PROVE  Judgement(s, j)
<1>a. s \in FieldSchemas /\ s.alone \in BOOLEAN /\ s.nullable \in BOOLEAN /\ s.required \in BOOLEAN
  BY JudgingMeans DEF Judging
<1>b. \A m \in s.members : m.kind \in {"string", "integer", "array", "object"}
  BY <1>a, MembersAssumption
<1>c. MembersFor(s, Null) = {} /\ MembersFor(s, Nil) = {}
  BY <1>b DEF MembersFor, Null, Nil
<1>1. Unmarshal(s, j) = Nil
  BY Distinct DEF Unmarshal, HasUnmarshaler, Decoded
<1>2. Fits(s, j) <=> IF j = Absent THEN ~s.alone ELSE s.nullable
  BY <1>c, Distinct DEF Fits, HasUnmarshaler, Decodes
<1>3. Meets(s, j) <=> IF j = Absent THEN ~s.alone /\ ~s.required ELSE s.nullable
  <2>1. \A m \in s.members : ~ValueMeets(m, Null)
    BY <1>b DEF ValueMeets, Null
  <2> QED
    BY <2>1, Distinct DEF Meets
<1>4. CASE s.alone
  <2>1. Verdict(s, Nil) = OneOfVerdict(s, Nil)
    BY DEF Verdict
  <2>2. OneOfVerdict(s, Nil) = "valid"
    BY <1>c DEF OneOfVerdict, VerdictIf, Nil
  <2>3. Validate(s, Nil) = "valid"
    BY <1>4, <2>1, <2>2 DEF Validate
  <2> QED
    BY <1>1, <1>2, <1>3, <1>4, <2>3 DEF Judgement, Judged
<1>5. CASE ~s.alone
  <2>1. Validators(s) = {}
    BY DEF Validators
  <2>2. Validate(s, Nil) = "valid" <=> ~s.required
    BY <1>5, <1>a, <2>1, NilVerdict
  <2>3. s.nullable /\ s.required => j # Null
    BY JudgingMeans
  <2> QED
    BY <1>1, <1>2, <1>3, <1>5, <2>2, <2>3, Distinct DEF Judgement, Judged, Unseen
<1> QED
  BY <1>4, <1>5, <1>a

LEMMA OneOfMembers ==
  ASSUME NEW s, NEW j, Judging(s, j), j \notin {Absent, Null}, s.kind = "oneOf"
  PROVE  /\ Fits(s, j) <=> MembersFor(s, j) # {}
         /\ Meets(s, j) <=> \E m \in s.members : m.kind = j.t /\ ValueMeets(m, j)
         /\ \A m \in MembersFor(s, j) :
              /\ MembersFor(s, j) = {m} /\ MemberFor(s, j) = m /\ m \in s.members /\ m.kind = j.t
              /\ m.kind \in {"string", "integer", "array", "object"}
              /\ ~m.nullable /\ ~m.alone /\ Keywords(m) /\ ItemsKnown(m)
              /\ ~LimitIsLost(m)
<1>a. s \in FieldSchemas
  BY DEF Judging
<1>b. /\ \A m \in s.members : /\ m.kind \in {"string", "integer", "array", "object"}
                              /\ ~m.nullable /\ ~m.alone
      /\ \A m, n \in s.members : m.kind = n.kind => m = n
  BY <1>a, MembersAssumption
<1>1. Fits(s, j) <=> MembersFor(s, j) # {}
  BY ValueIsFound DEF HasUnmarshaler, Decodes
<1>2. \A m \in s.members : ValueMeets(m, j) => m.kind = j.t
  BY <1>b DEF ValueMeets
<1>3. Meets(s, j) <=> \E m \in s.members : m.kind = j.t /\ ValueMeets(m, j)
  BY <1>2 DEF Meets
<1>4. ASSUME NEW m \in MembersFor(s, j)
      PROVE  /\ MembersFor(s, j) = {m} /\ MemberFor(s, j) = m /\ m \in s.members /\ m.kind = j.t
             /\ m.kind \in {"string", "integer", "array", "object"}
             /\ ~m.nullable /\ ~m.alone /\ Keywords(m) /\ ItemsKnown(m)
             /\ ~LimitIsLost(m)
  <2>1. m \in s.members /\ m.kind = j.t
    BY DEF MembersFor
  <2>2. MembersFor(s, j) = {m}
    BY <1>b, <2>1 DEF MembersFor
  <2>3. MemberFor(s, j) = m
    BY <2>2 DEF MemberFor
  <2>4. Keywords(m) /\ ItemsKnown(m)
    BY <1>a, <2>1, KeywordsOf, Kinds
  <2>5. ~LimitIsLost(m)
    BY <2>1 DEF Judging, HasQuirk
  <2> QED
    BY <1>b, <2>1, <2>2, <2>3, <2>4, <2>5
<1> QED
  BY <1>1, <1>3, <1>4

LEMMA OneOfFieldIsJudged ==
  ASSUME NEW s, NEW j, Judging(s, j), j \notin {Absent, Null}, s.kind = "oneOf", ~s.alone
  PROVE  Judgement(s, j)
<1>a. j \in Values /\ s \in FieldSchemas
  BY ValueIsFound
<1>1. ASSUME Fits(s, j) PROVE Unmarshal(s, j) # Nil
  <2>1. PICK m \in MembersFor(s, j) : MemberFor(s, j) = m /\ ItemsKnown(m)
    BY <1>1, OneOfMembers
  <2>2. Unmarshal(s, j) = IF j.t = "array" THEN FillSlice(m, j) ELSE j
    BY <2>1 DEF Unmarshal, HasUnmarshaler, Decoded
  <2> QED
    BY <1>a, <2>1, <2>2, FilledSlice, Distinct
<1>2. Validators(s) = {}
  BY DEF Validators
<1>3. Fits(s, j) => Validate(s, Unmarshal(s, j)) = "valid"
  BY <1>1, <1>2, <1>a, FieldVerdict
<1>4. Meets(s, j) => Fits(s, j)
  BY OneOfMembers DEF MembersFor
<1> QED
  BY <1>3, <1>4 DEF Judgement, Judged, Unseen

LEMMA OneOfAloneIsJudged ==
  ASSUME NEW s, NEW j, Judging(s, j), j \notin {Absent, Null}, s.kind = "oneOf", s.alone
  PROVE  Judgement(s, j)
<1>a. j \in Values /\ s \in FieldSchemas
  BY ValueIsFound
<1>1. CASE MembersFor(s, j) = {}
  <2>1. ~Fits(s, j) /\ ~Meets(s, j)
    BY <1>1, OneOfMembers DEF MembersFor
  <2> QED
    BY <2>1 DEF Judgement, Judged
<1>2. ASSUME NEW m \in MembersFor(s, j) PROVE Judgement(s, j)
  <2>1. /\ MembersFor(s, j) = {m} /\ MemberFor(s, j) = m /\ m \in s.members /\ m.kind = j.t
        /\ m.kind \in {"string", "integer", "array", "object"}
        /\ ~m.nullable /\ ~m.alone /\ Keywords(m) /\ ItemsKnown(m) /\ ~LimitIsLost(m)
    BY OneOfMembers
  <2>2. Fits(s, j) /\ (Meets(s, j) <=> ValueMeets(m, j))
    <3>1. \A n \in s.members : n.kind = j.t <=> n = m
      BY <2>1 DEF MembersFor
    <3> QED
      BY <2>1, <3>1, OneOfMembers
  <2>3. \A f : Validate(s, f) = OneOfVerdict(s, f)
    BY DEF Validate, Verdict
  <2>4. CASE j.t = "array"
    <3> DEFINE f == FillSlice(m, j)
    <3>1. Unmarshal(s, j) = f
      BY <2>1, <2>4 DEF Unmarshal, HasUnmarshaler, Decoded
    <3>2. f.t = "array" /\ f \in Values
      BY <1>a, <2>1, <2>4, FilledSlice
    <3>3. MemberFor(s, f) = m
      BY <2>1, <2>4, <3>2, SameMember
    <3>4. ~m.noValidate
      BY <2>1, <2>4 DEF Judging, Refused
    <3>5. ValueMeets(m, j) <=> ArrayMeets(m, j)
      BY <2>1, <2>4, <3>4 DEF ValueMeets
    <3>6. /\ ArrayMeets(m, j) => SliceVerdict(m, f) = "valid"
          /\ SliceVerdict(m, f) = "valid"
               => ArrayMeets(m, j) \/ ItemsUnseen(m, j)
      BY <1>a, <2>1, <2>4, JudgingMeans, SliceTests
    <3>7. ItemsUnseen(m, j) \/ m.closed => Unseen(s, j)
      BY <2>1, <2>4 DEF Unseen
    <3> HIDE DEF f
    <3>8. OneOfVerdict(s, f) \in {"valid", SliceVerdict(m, f)}
      BY <3>2, <3>3 DEF OneOfVerdict
    <3>9. ~m.closed => OneOfVerdict(s, f) = SliceVerdict(m, f)
      <4>1. ~m.closed => "subschema" \in Validators(m)
        BY <2>1, <2>4, <3>4 DEF Validators, When
      <4>2. ~m.closed => "subschema" \in UNION {Validators(n) : n \in s.members}
        BY <2>1, <4>1
      <4> QED
        BY <3>2, <3>3, <4>2 DEF OneOfVerdict
    <3> QED
      BY <2>2, <2>3, <3>1, <3>5, <3>6, <3>7, <3>8, <3>9 DEF Judgement, Judged
  <2>5. CASE j.t # "array"
    <3>1. Unmarshal(s, j) = j
      BY <2>5 DEF Unmarshal, HasUnmarshaler, Decoded
    <3>2. OneOfVerdict(s, j) = VerdictIf(\E v \in Validators(m) \ {"subschema"} : Test(v, m, j))
      BY <2>1, <2>5 DEF OneOfVerdict
    <3>3. CASE j.t = "object"
      <4>1. Validators(m) \subseteq {"subschema"}
        BY <2>1, <3>3 DEF Validators, When
      <4>2. Judged(s, j)
        BY <2>2, <2>3, <3>1, <3>2, <4>1 DEF Judged, VerdictIf
      <4> QED
        BY <3>3, <4>2 DEF Judgement, Unseen
    <3>4. CASE j.t \in {"string", "integer"}
      <4>1. "subschema" \notin Validators(m)
        BY <2>1, <3>4 DEF Validators, LengthValidators, NumberValidators, When
      <4>2. OneOfVerdict(s, j) = "valid" <=> \A v \in Validators(m) : ~Test(v, m, j)
        BY <3>2, <4>1 DEF VerdictIf
      <4>3. CASE j.t = "string"
        <5>1. j.chars \in Nat /\ j.bytes = j.chars
          BY <1>a, <4>3, JudgingMeans DEF Values
        <5>2. OneOfVerdict(s, j) = "valid" <=> StringMeets(m, j)
          BY <2>1, <4>2, <4>3, <5>1, StringTests
        <5>3. ValueMeets(m, j) <=> StringMeets(m, j)
          BY <2>1, <4>3 DEF ValueMeets
        <5> QED
          BY <2>2, <2>3, <3>1, <5>2, <5>3 DEF Judgement, Judged
      <4>4. CASE j.t = "integer"
        <5>1. j.n \in Nat
          BY <1>a, <4>4 DEF Values
        <5>2. OneOfVerdict(s, j) = "valid" <=> IntegerMeets(m, j)
          BY <2>1, <4>2, <4>4, <5>1, IntegerTests
        <5>3. ValueMeets(m, j) <=> IntegerMeets(m, j)
          BY <2>1, <4>4 DEF ValueMeets
        <5> QED
          BY <2>2, <2>3, <3>1, <5>2, <5>3 DEF Judgement, Judged
      <4> QED
        BY <3>4, <4>3, <4>4
    <3> QED
      BY <2>1, <2>5, <3>3, <3>4
  <2> QED
    BY <2>4, <2>5
<1> QED
  BY <1>1, <1>2

LEMMA EveryoneIsJudged ==
  ASSUME NEW s, NEW j, Judging(s, j)
  PROVE  Judgement(s, j)
<1>a. s \in FieldSchemas /\ s.alone \in BOOLEAN
  BY JudgingMeans DEF Judging
<1>1. CASE s.kind = "oneOf"
  BY <1>1, <1>a, OneOfNoneIsJudged, OneOfFieldIsJudged, OneOfAloneIsJudged
<1>2. CASE s.kind # "oneOf" /\ j \in {Absent, Null} /\ ~s.alone
  BY <1>2, NoneIsJudged
<1>3. CASE s.kind # "oneOf" /\ j \in {Absent, Null} /\ s.alone
  <2>1. ~s.nullable /\ s.kind # "raw"
    BY <1>3, <1>a, JudgingMeans, Kinds
  <2>2. ~Meets(s, j)
    BY <1>3, <2>1 DEF Meets
  <2>3. j = Absent => ~Fits(s, j)
    BY <1>3 DEF Fits
  <2>4. j = Null => Unseen(s, j)
    BY <1>3 DEF Unseen
  <2> QED
    BY <1>3, <2>2, <2>3, <2>4 DEF Judgement, Judged
<1>4. CASE s.kind # "oneOf" /\ j \notin {Absent, Null}
  BY <1>4, <1>a, Kinds, ScalarIsJudged, ObjectIsJudged, ArrayIsJudged, AnyIsJudged,
     MapIsJudged, SelectedIsJudged
<1> QED
  BY <1>1, <1>2, <1>3, <1>4, <1>a
-----------------------------------------------------------------------------
(* What the first reading and Validate have said.                          *)
Answered ==
  /\ schema \in FieldSchemas
  /\ round = 1 =>
       /\ json \in Inputs
       /\ pc = "validate" => Fits(schema, json) /\ field = Unmarshal(schema, json)
       /\ pc = "marshal" => Judged(schema, json) /\ verdict = "valid"
       /\ pc = "end" => (verdict = "valid" <=> Judged(schema, json))
  /\ pc = "marshal" => round = 1

LEMMA AnsweredInit == Init => Answered
BY DEF Init, Answered

LEMMA AnsweredInductive == Answered /\ [Next]_vars => Answered'
<1> SUFFICES ASSUME Answered, [Next]_vars PROVE Answered'
  OBVIOUS
<1> USE DEF Answered
<1>1. CASE UnmarshalFails
  BY <1>1 DEF UnmarshalFails, Judged
<1>2. CASE UnmarshalOk
  BY <1>2 DEF UnmarshalOk
<1>3. CASE ValidateField
  BY <1>3 DEF ValidateField, Judged
<1>4. CASE MarshalAndSend
  BY <1>4 DEF MarshalAndSend
<1>5. CASE UNCHANGED vars
  BY <1>5 DEF vars
<1> QED
  BY <1>1, <1>2, <1>3, <1>4, <1>5 DEF Next

LEMMA AnsweredRightly == Answered => AcceptsWhatIsValid
<1> SUFFICES ASSUME Answered, pc = "marshal" \/ (pc = "end" /\ round = 1),
                    ~HasQuirk(schema, json), ~Refused(schema, json)
             PROVE  \/ Meets(schema, json) /\ verdict = "valid"
                    \/ ~Meets(schema, json) /\ (verdict # "valid" \/ Unseen(schema, json))
  BY DEF AcceptsWhatIsValid
<1>1. Judging(schema, json)
  BY DEF Answered, Judging
<1>2. Judgement(schema, json)
  BY <1>1, EveryoneIsJudged
<1>3. verdict = "valid" <=> Judged(schema, json)
  BY DEF Answered
<1> QED
  BY <1>2, <1>3 DEF Judgement
-----------------------------------------------------------------------------
(* TypeOK: what json.Unmarshal makes of a value could be read again.       *)
THEOREM TypeCorrect == Spec => []TypeOK
<1>1. Typing => TypeOK
  BY DEF Typing
<1> QED
  BY <1>1, TypingInit, TypingInductive, PTL DEF Spec

(* NilIsNotRead: whatever a property's keywords, its generated Validate    *)
(* reads no nil pointer but an item that was null.                         *)
THEOREM NoNilIsRead == Spec => []NilIsNotRead
<1>1. Init => NilIsNotRead
  BY DEF Init, NilIsNotRead
<1> QED
  BY <1>1, TypingInit, TypingInductive, NilInductive, PTL DEF Spec

(* ValidStaysValid: a value that was read and accepted, then marshalled,   *)
(* is read and accepted by the same generated code as what it was, but for *)
(* the exceptions that the property names.                                 *)
THEOREM ReadBackValid == Spec => []ValidStaysValid
BY SentInit, SentInductive, SentStaysValid, PTL DEF Spec

(* AcceptsWhatIsValid: for any keywords and any value, what is read and    *)
(* accepted is what JSON Schema allows, up to the departures the property  *)
(* names.                                                                  *)
THEOREM ValidIsAccepted == Spec => []AcceptsWhatIsValid
BY AnsweredInit, AnsweredInductive, AnsweredRightly, PTL DEF Spec
=============================================================================
