-------------------------- MODULE PrefixMapProofs --------------------------
(***************************************************************************)
(* Proofs about PrefixMap, for any number of calls and of strings, and as  *)
(* many prefixes as sort.Slice sorts by insertion (SliceIsShort).  Until   *)
(* the first sort ends, the slice with the exchange under way completed is *)
(* a rearrangement of what was given, in order but for the prefix being    *)
(* inserted (Inserting).  From then on it is in order, no call moves       *)
(* anything (Settling), and the binary search and the walk back may each   *)
(* be argued about as if they ran alone (LookingUp).                       *)
(***************************************************************************)
EXTENDS PrefixMap, TLAPS

Moving == {"save", "shift", "place"}

Bounds(c) ==
  /\ At(c, "less") => /\ 1 <= i[c] /\ j[c] <= i[c]
                      /\ i[c] >= N => j[c] = i[c]
  /\ pc[c] \in Moving => 1 <= j[c] /\ j[c] <= i[c] /\ i[c] < N
  /\ pc[c] \in {"shift", "place"} => tmp[c] \in Prefixes
  /\ At(c, "search") => 0 <= i[c] /\ i[c] <= j[c] /\ j[c] <= N
  /\ At(c, "walk") => i[c] < N
Typing == TypeOK /\ \A c \in Calls : Bounds(c)

Settled == first = "alone" \/ Ordered(given)

(* The slice once the exchange under way is over, and where the prefix     *)
(* being inserted is in it.                                                *)
Contents(c) == IF At(c, "place") THEN [prefixes EXCEPT ![j[c] - 1] = tmp[c]]
                                 ELSE prefixes
Inserted(c) == IF At(c, "place") THEN j[c] - 1 ELSE j[c]

InsertionSort(c) ==
  /\ pc[c] \in Sorting
  /\ \A d \in Calls \ {c} : pc[d] \in {"crawl", "failed"}
  /\ Range(Contents(c)) = Range(given)
  /\ \A k, l \in Index :
       k < l /\ l <= i[c] /\ l # Inserted(c) => Contents(c)[k] <= Contents(c)[l]
  /\ pc[c] \in {"save", "shift"} => prefixes[j[c]] < prefixes[j[c] - 1]
  /\ At(c, "shift") => tmp[c] = prefixes[j[c]]

Untouched ==
  first = "none" => prefixes = given /\ \A c \in Calls : pc[c] \in {"crawl", "failed"}
Inserting == first = "running" => \E c \in Calls : InsertionSort(c)
Settling == Settled => /\ Ordered(prefixes) /\ Range(prefixes) = Range(given)
                       /\ \A c \in Calls : pc[c] \notin Moving
Sorts == Untouched /\ Inserting /\ Settling
-----------------------------------------------------------------------------
LEMMA Middle ==
  ASSUME NEW a \in Int, NEW b \in Int, a < b
  PROVE  LET h == (a + b) \div 2 IN h \in Int /\ a <= h /\ h < b
OBVIOUS

LEMMA TypingInit == Init => Typing
BY NOK DEF Init, Typing, TypeOK, Bounds, At, Index, Sorting, Moving

LEMMA TypingInductive == Typing /\ [Next]_vars => Typing'
<1> SUFFICES ASSUME Typing, [Next]_vars PROVE Typing'
  OBVIOUS
<1> USE NOK DEF Typing, TypeOK, Bounds, At, Goto, Set, Index, Sorting, Moving
<1>1. ASSUME NEW c \in Calls, NothingToPrint(c) PROVE Typing'
  BY <1>1 DEF NothingToPrint
<1>2. ASSUME NEW c \in Calls, StartSort(c) PROVE Typing'
  BY <1>2 DEF StartSort
<1>3. ASSUME NEW c \in Calls, InPlace(c) PROVE Typing'
  BY <1>3 DEF InPlace
<1>4. ASSUME NEW c \in Calls, MustMove(c) PROVE Typing'
  BY <1>4 DEF MustMove, OutOfOrder
<1>5. ASSUME NEW c \in Calls, Save(c) PROVE Typing'
  BY <1>5 DEF Save
<1>6. ASSUME NEW c \in Calls, Shift(c) PROVE Typing'
  BY <1>6 DEF Shift
<1>7. ASSUME NEW c \in Calls, Place(c) PROVE Typing'
  BY <1>7 DEF Place
<1>8. ASSUME NEW c \in Calls, SortEnds(c) PROVE Typing'
  BY <1>8 DEF SortEnds
<1>9. ASSUME NEW c \in Calls, Probe(c) PROVE Typing'
  <2> DEFINE h == (i[c] + j[c]) \div 2
  <2>1. i[c] \in Int /\ j[c] \in Int /\ 0 <= i[c] /\ i[c] < j[c] /\ j[c] <= N
    BY <1>9 DEF Probe
  <2>2. h \in Int /\ i[c] <= h /\ h < j[c]
    BY <2>1, Middle
  <2>3. /\ Set(c, i[c], h) \/ Set(c, h + 1, j[c])
        /\ At(c, "search") /\ UNCHANGED <<given, path, prefixes, pc, tmp, result, first>>
    BY <1>9 DEF Probe
  <2> HIDE DEF h
  <2>4. i' \in [Calls -> -1..(N + 1)] /\ j' \in [Calls -> 0..(N + 1)]
    BY <2>1, <2>2, <2>3
  <2>5. i'[c] \in Int /\ j'[c] \in Int /\ 0 <= i'[c] /\ i'[c] <= j'[c] /\ j'[c] <= N
    BY <2>1, <2>2, <2>3
  <2>6. \A d \in Calls \ {c} : i'[d] = i[d] /\ j'[d] = j[d]
    BY <2>3
  <2> QED
    BY <2>3, <2>4, <2>5, <2>6
<1>10. ASSUME NEW c \in Calls, SearchEnds(c) PROVE Typing'
  BY <1>10 DEF SearchEnds
<1>11. ASSUME NEW c \in Calls, StepBack(c) PROVE Typing'
  BY <1>11 DEF StepBack
<1>12. ASSUME NEW c \in Calls, Found(c) \/ NotFound(c) PROVE Typing'
  BY <1>12 DEF Found, NotFound
<1>13. CASE UNCHANGED vars
  BY <1>13 DEF vars
<1> QED
  BY <1>1, <1>2, <1>3, <1>4, <1>5, <1>6, <1>7, <1>8, <1>9, <1>10, <1>11, <1>12, <1>13
     DEF Next, Sort, LookUp

(* The types are kept and no index leaves the slice, even in calls whose   *)
(* sorts overlap.                                                          *)
THEOREM TypeCorrect == Spec => []TypeOK
<1>1. Typing /\ [Next \/ Stopped]_vars => Typing'
  BY TypingInductive DEF Stopped
<1>2. Typing => TypeOK
  BY DEF Typing
<1> QED
  BY <1>1, <1>2, TypingInit, PTL DEF Spec
-----------------------------------------------------------------------------
LEMMA SortsInit == Init => Sorts
BY DEF Init, Sorts, Untouched, Inserting, Settling, Settled, Moving

LEMMA PrefixesAreRanks ==
  Typing => \A k \in Index : prefixes[k] \in Strings /\ prefixes[k] \in Nat
BY StringsAreRanks DEF Typing, TypeOK

LEMMA ExchangeKeepsRange ==
  ASSUME NEW s \in [Index -> Prefixes], NEW k \in Index, NEW l \in Index, k # l
  PROVE  Range([[s EXCEPT ![l] = s[k]] EXCEPT ![k] = s[l]]) = Range(s)
<1> DEFINE t == [[s EXCEPT ![l] = s[k]] EXCEPT ![k] = s[l]]
<1>1. /\ t \in [Index -> Prefixes] /\ t[k] = s[l] /\ t[l] = s[k]
      /\ \A m \in Index \ {k, l} : t[m] = s[m]
  OBVIOUS
<1> QED
  BY <1>1 DEF Range

(* A slice that is in order but for the prefix being inserted, once that   *)
(* has found its place, is in order one entry further.                     *)
LEMMA InsertedIsInOrder ==
  ASSUME NEW c \in Calls, Typing, InsertionSort(c), InPlace(c)
  PROVE  \A k, l \in Index : k < l /\ l <= i[c] => prefixes[k] <= prefixes[l]
<1> USE NOK, StringsAreRanks DEF Typing, TypeOK, Index
<1>1. /\ i[c] \in Int /\ j[c] \in Nat /\ j[c] <= i[c] /\ i[c] < N
      /\ \A k \in Index : prefixes[k] \in Nat
      /\ j[c] > 0 => prefixes[j[c] - 1] <= prefixes[j[c]]
  <2>1. i[c] \in Int /\ j[c] \in Nat /\ j[c] <= i[c] /\ i[c] < N
    BY DEF InPlace, At, Bounds
  <2>2. \A k \in Index : prefixes[k] \in Nat
    BY PrefixesAreRanks
  <2>3. j[c] > 0 => j[c] \in Index /\ j[c] - 1 \in Index
    BY <2>1
  <2> QED
    BY <2>1, <2>2, <2>3 DEF InPlace, OutOfOrder
<1>2. \A k, l \in Index : k < l /\ l <= i[c] /\ l # j[c] => prefixes[k] <= prefixes[l]
  BY DEF InsertionSort, Contents, Inserted, InPlace, At
<1> TAKE k, l \in Index
<1> HAVE k < l /\ l <= i[c]
<1>3. CASE l # j[c]
  BY <1>2, <1>3
<1>4. CASE l = j[c] /\ k = j[c] - 1
  BY <1>1, <1>4
<1>5. CASE l = j[c] /\ k < j[c] - 1
  <2>1. j[c] - 1 \in Index /\ prefixes[k] <= prefixes[j[c] - 1]
    BY <1>1, <1>2, <1>5
  <2> QED
    BY <1>1, <1>5, <2>1
<1> QED
  BY <1>1, <1>3, <1>4, <1>5

(* An exchange takes the prefix being inserted one place down.             *)
LEMMA ExchangeGoesOn ==
  ASSUME NEW c \in Calls, Typing, InsertionSort(c), Shift(c)
  PROVE  InsertionSort(c)'
<1> USE NOK, StringsAreRanks DEF Typing, TypeOK, Index, At, Goto
<1> DEFINE a == j[c] - 1  b == j[c]
           t == [[prefixes EXCEPT ![b] = prefixes[a]] EXCEPT ![a] = prefixes[b]]
<1>1. /\ a \in Index /\ b \in Index /\ a < b /\ i[c] \in Int /\ b <= i[c]
      /\ a + 1 = b
      /\ \A k \in Index : prefixes[k] \in Nat
      /\ prefixes[b] < prefixes[a] /\ tmp[c] = prefixes[b]
  <2>1. i[c] \in Int /\ j[c] \in Int /\ 1 <= j[c] /\ j[c] <= i[c] /\ i[c] < N
    BY DEF Shift, Bounds, Moving
  <2> QED
    BY <2>1, PrefixesAreRanks DEF Shift, InsertionSort
<1>2. \A k, l \in Index : k < l /\ l <= i[c] /\ l # b => prefixes[k] <= prefixes[l]
  BY DEF Shift, InsertionSort, Contents, Inserted
<1>3. Contents(c)' = t /\ Inserted(c)' = a /\ i' = i /\ pc'[c] = "place"
  BY <1>1 DEF Shift, Contents, Inserted
<1>4. t[a] = prefixes[b] /\ t[b] = prefixes[a]
        /\ \A m \in Index \ {a, b} : t[m] = prefixes[m]
  BY <1>1
<1>5. Range(t) = Range(given)
  <2>1. Range(prefixes) = Range(given)
    BY DEF Shift, InsertionSort, Contents
  <2>2. Range(t) = Range(prefixes)
    <3>1. prefixes \in [Index -> Prefixes] /\ a \in Index /\ b \in Index /\ a # b
      BY <1>1
    <3> HIDE DEF a, b, Typing, TypeOK, Index
    <3> QED
      BY <3>1, ExchangeKeepsRange
  <2> QED
    BY <2>1, <2>2
<1>6. \A k, l \in Index : k < l /\ l <= i[c] /\ l # a => t[k] <= t[l]
  <2> HIDE DEF a, b, t
  <2> TAKE k, l \in Index
  <2> HAVE k < l /\ l <= i[c] /\ l # a
  <2>1. CASE l = b /\ k = a
    BY <1>1, <1>4, <2>1
  <2>2. CASE l = b /\ k # a
    BY <1>1, <1>2, <1>4, <2>2
  <2>3. CASE l # b /\ k \notin {a, b}
    BY <1>1, <1>2, <1>4, <2>3
  <2>4. CASE l # b /\ k \in {a, b}
    BY <1>1, <1>2, <1>4, <2>4
  <2> QED
    BY <2>1, <2>2, <2>3, <2>4
<1>7. \A d \in Calls \ {c} : pc'[d] \in {"crawl", "failed"}
  BY DEF Shift, InsertionSort
<1>8. given' = given
  BY DEF Shift
<1> HIDE DEF a, b, t
<1> QED
  BY <1>3, <1>5, <1>6, <1>7, <1>8 DEF InsertionSort, Sorting

(* One call is inserting, or the slice is in order, after any step.        *)
LEMMA SortsInductive == Typing /\ Sorts /\ [Next]_vars => Sorts'
<1> SUFFICES ASSUME Typing, Sorts, [Next]_vars PROVE Sorts'
  OBVIOUS
<1> USE NOK DEF Sorts, Sorting, Moving
<1>a. /\ \A c \in Calls : pc[c] \in {"crawl", "failed", "search", "walk", "mapped"} \union Sorting
      /\ pc = [c \in Calls |-> pc[c]] /\ first \in {"none", "running", "alone", "overlapped"}
  BY DEF Typing, TypeOK
<1>c. \A c \in Calls : pc[c] \in Sorting /\ first = "running" => InsertionSort(c)
  BY DEF Inserting, InsertionSort
<1>b. \A c \in Calls : /\ pc[c] \notin {"crawl", "failed"} => first # "none"
                      /\ pc[c] \in {"search", "walk", "mapped"} => first # "running"
  BY DEF Untouched, Inserting, InsertionSort
<1>1. ASSUME NEW c \in Calls, NothingToPrint(c) PROVE Sorts'
  <2>1. UNCHANGED <<given, prefixes, i, j, tmp, first>> /\ pc' = [pc EXCEPT ![c] = "failed"]
          /\ pc[c] = "crawl"
    BY <1>1 DEF NothingToPrint, At, Goto
  <2>2. Untouched'
    BY <1>a, <2>1 DEF Untouched
  <2>3. Inserting'
    BY <1>a, <2>1 DEF Inserting, InsertionSort, Contents, Inserted, At
  <2>4. Settling'
    BY <1>a, <2>1 DEF Settling, Settled, Ordered
  <2> QED
    BY <2>2, <2>3, <2>4
<1>2. ASSUME NEW c \in Calls, StartSort(c) PROVE Sorts'
  <2>1. /\ UNCHANGED <<given, prefixes, tmp>> /\ pc' = [pc EXCEPT ![c] = "less"]
        /\ i'[c] = 1 /\ j'[c] = 1 /\ pc[c] = "crawl"
    BY <1>2 DEF StartSort, At, Goto, Set, Typing, TypeOK
  <2>2. Untouched'
    BY <1>2, <1>a DEF StartSort, Untouched
  <2>3. Settling'
    BY <1>2, <1>a, <2>1 DEF StartSort, Settling, Settled, Ordered
  <2>4. CASE first = "none"
    <3>1. \A k, l \in Index : k < l /\ l <= 1 => l = 1
      BY DEF Index
    <3>2. InsertionSort(c)'
      <4>1. given = prefixes /\ \A d \in Calls : pc[d] \in {"crawl", "failed"}
        BY <2>4 DEF Untouched
      <4> QED
        BY <1>a, <2>1, <3>1, <4>1 DEF InsertionSort, Contents, Inserted, At
    <3>3. Inserting'
      BY <3>2 DEF Inserting
    <3> QED
      BY <2>2, <2>3, <3>3
  <2>5. CASE first # "none"
    <3>1. first' # "running"
      BY <1>2, <1>a, <2>5 DEF StartSort
    <3>2. Inserting'
      BY <3>1 DEF Inserting
    <3> QED
      BY <2>2, <2>3, <3>2
  <2> QED
    BY <2>4, <2>5
<1>3. ASSUME NEW c \in Calls, InPlace(c) PROVE Sorts'
  <2>1. /\ UNCHANGED <<given, prefixes, pc, tmp, first>> /\ pc[c] = "less"
        /\ i'[c] = i[c] + 1 /\ j'[c] = i[c] + 1 /\ i[c] \in Int /\ i[c] < N
        /\ \A d \in Calls \ {c} : i'[d] = i[d] /\ j'[d] = j[d]
    BY <1>3 DEF InPlace, At, Set, Typing, TypeOK
  <2>2. ASSUME first = "running" PROVE InsertionSort(c)'
    <3>1. InsertionSort(c)
      BY <1>c, <2>1, <2>2
    <3>2. \A k, l \in Index : k < l /\ l <= i[c] => prefixes[k] <= prefixes[l]
      BY <1>3, <3>1, InsertedIsInOrder
    <3>3. \A k, l \in Index : k < l /\ l <= i'[c] /\ l # j'[c] => prefixes[k] <= prefixes[l]
      BY <2>1, <3>2 DEF Index
    <3> QED
      BY <2>1, <3>1, <3>3 DEF InsertionSort, Contents, Inserted, At
  <2> QED
    BY <1>b, <2>1, <2>2 DEF Untouched, Inserting, Settling, Settled, Ordered
<1>4. ASSUME NEW c \in Calls, MustMove(c) PROVE Sorts'
  <2>1. /\ UNCHANGED <<given, prefixes, i, j, tmp, first>> /\ pc' = [pc EXCEPT ![c] = "save"]
        /\ pc[c] = "less" /\ prefixes[j[c]] < prefixes[j[c] - 1]
        /\ j[c] \in Index /\ j[c] - 1 \in Index
    BY <1>4 DEF MustMove, OutOfOrder, At, Goto, Typing, TypeOK, Bounds, Index
  <2>2. ~Settled
    <3>1. ~Ordered(prefixes)
      BY <2>1, PrefixesAreRanks DEF Ordered, Index
    <3> QED
      BY <3>1 DEF Settling
  <2>3. ASSUME first = "running" PROVE InsertionSort(c)'
    <3>1. InsertionSort(c)
      BY <1>c, <2>1, <2>3
    <3> QED
      BY <1>a, <2>1, <3>1 DEF InsertionSort, Contents, Inserted, At
  <2> QED
    BY <1>a, <1>b, <2>1, <2>2, <2>3 DEF Untouched, Inserting, Settling, Settled, Ordered
<1>5. ASSUME NEW c \in Calls, Save(c) PROVE Sorts'
  <2>1. /\ UNCHANGED <<given, prefixes, i, j, first>> /\ pc' = [pc EXCEPT ![c] = "shift"]
        /\ pc[c] = "save" /\ tmp'[c] = prefixes[j[c]]
    BY <1>5 DEF Save, At, Goto, Typing, TypeOK
  <2>2. ASSUME first = "running" PROVE InsertionSort(c)'
    <3>1. InsertionSort(c)
      BY <1>c, <2>1, <2>2
    <3> QED
      BY <1>a, <2>1, <3>1 DEF InsertionSort, Contents, Inserted, At
  <2> QED
    BY <1>a, <1>b, <2>1, <2>2 DEF Untouched, Inserting, Settling, Settled, Ordered
<1>6. ASSUME NEW c \in Calls, Shift(c) PROVE Sorts'
  <2>1. UNCHANGED <<given, first>> /\ pc[c] = "shift"
    BY <1>6 DEF Shift, At
  <2>2. first = "running" => InsertionSort(c)'
    BY <1>6, <1>c, <2>1, ExchangeGoesOn
  <2> QED
    BY <1>b, <2>1, <2>2 DEF Untouched, Inserting, Settling, Settled, Ordered
<1>7. ASSUME NEW c \in Calls, Place(c) PROVE Sorts'
  <2>1. /\ UNCHANGED <<given, tmp, first>> /\ pc' = [pc EXCEPT ![c] = "less"] /\ pc[c] = "place"
        /\ prefixes' = Contents(c) /\ i'[c] = i[c] /\ j'[c] = Inserted(c)
    BY <1>7 DEF Place, At, Goto, Set, Contents, Inserted, Typing, TypeOK
  <2>2. ASSUME first = "running" PROVE InsertionSort(c)'
    <3>1. InsertionSort(c)
      BY <1>c, <2>1, <2>2
    <3>2. Contents(c)' = Contents(c) /\ Inserted(c)' = Inserted(c)
      BY <1>a, <2>1 DEF Contents, Inserted, At
    <3> QED
      BY <1>a, <2>1, <3>1, <3>2 DEF InsertionSort, At
  <2> QED
    BY <1>b, <2>1, <2>2 DEF Untouched, Inserting, Settling, Settled, Ordered
<1>8. ASSUME NEW c \in Calls, SortEnds(c) PROVE Sorts'
  <2>1. /\ UNCHANGED <<given, prefixes, tmp>> /\ pc' = [pc EXCEPT ![c] = "search"]
        /\ pc[c] = "less" /\ i[c] \in Int /\ i[c] >= N /\ j[c] = i[c]
        /\ first' = IF first = "running" THEN "alone" ELSE first
    BY <1>8 DEF SortEnds, At, Goto, Typing, TypeOK, Bounds
  <2>2. CASE first = "running"
    <3>1. InsertionSort(c)
      BY <1>c, <2>1, <2>2
    <3>2. Contents(c) = prefixes /\ Inserted(c) = i[c]
      BY <2>1 DEF Contents, Inserted, At
    <3>3. Ordered(prefixes) /\ Range(prefixes) = Range(given)
      BY <2>1, <3>1, <3>2 DEF InsertionSort, Ordered, Index
    <3>4. \A d \in Calls : pc'[d] \notin Moving
      BY <1>a, <2>1, <3>1 DEF InsertionSort
    <3>5. Ordered(prefixes)' /\ Range(prefixes)' = Range(given)'
      BY <2>1, <3>3 DEF Ordered
    <3> QED
      BY <2>1, <2>2, <3>4, <3>5 DEF Untouched, Inserting, Settling
  <2>3. CASE first # "running"
    BY <1>a, <1>b, <2>1, <2>3 DEF Untouched, Inserting, Settling, Settled, Ordered
  <2> QED
    BY <2>2, <2>3
<1>9. ASSUME NEW c \in Calls, LookUp(c) PROVE Sorts'
  <2>1. /\ UNCHANGED <<given, prefixes, first>> /\ pc[c] \in {"search", "walk"}
        /\ \E label \in {"search", "walk", "mapped"} : pc' = [pc EXCEPT ![c] = label]
    BY <1>9, <1>a DEF LookUp, Probe, SearchEnds, StepBack, Found, NotFound, At, Goto
  <2> QED
    BY <1>a, <1>b, <2>1 DEF Untouched, Inserting, Settling, Settled, Ordered
<1>10. CASE UNCHANGED vars
  BY <1>10 DEF vars, Untouched, Inserting, Settling, Settled, Ordered, InsertionSort, Contents,
               Inserted, At
<1> QED
  BY <1>1, <1>2, <1>3, <1>4, <1>5, <1>6, <1>7, <1>8, <1>9, <1>10 DEF Next, Sort
-----------------------------------------------------------------------------
(* What a look-up knows of the slice, once that stays as it is.            *)
LongestFound(c) ==
  IF Matching(c) = {} THEN result[c] = None
  ELSE /\ result[c] \in Matching(c)
       /\ \A p \in Matching(c) : <<p, result[c]>> \in PrefixOf
Searched(c) ==
  /\ At(c, "search") => \A k \in Index : /\ k < i[c] => prefixes[k] <= path[c]
                                       /\ k >= j[c] => prefixes[k] > path[c]
  /\ At(c, "walk") => \A k \in Index : k > i[c] => <<prefixes[k], path[c]>> \notin PrefixOf
  /\ At(c, "mapped") => LongestFound(c)
LookingUp == /\ \A c \in Calls : ~At(c, "mapped") => result[c] = None
             /\ Settled => \A c \in Calls : Searched(c)

LEMMA Ranks ==
  ASSUME Typing, NEW c \in Calls
  PROVE  /\ path[c] \in Nat /\ path[c] \in Strings
         /\ \A k \in Index : prefixes[k] \in Nat /\ prefixes[k] \in Strings
BY PrefixesAreRanks, StringsAreRanks DEF Typing, TypeOK

LEMMA LookingUpInit == Init => LookingUp
BY DEF Init, LookingUp, Searched, At

LEMMA ProbeNarrows ==
  ASSUME NEW c \in Calls, Typing, Ordered(prefixes), Searched(c), Probe(c)
  PROVE  Searched(c)'
<1> DEFINE h == (i[c] + j[c]) \div 2
<1>1. /\ i[c] \in Int /\ j[c] \in Int /\ 0 <= i[c] /\ i[c] < j[c] /\ j[c] <= N
      /\ pc[c] = "search" /\ UNCHANGED <<prefixes, pc, path>> /\ N \in Nat
  BY NOK DEF Probe, Typing, TypeOK, At, Bounds
<1>2. h \in Int /\ i[c] <= h /\ h < j[c] /\ h \in Index
  BY <1>1, Middle DEF Index
<1>3. IF prefixes[h] > path[c] THEN i'[c] = i[c] /\ j'[c] = h
                               ELSE i'[c] = h + 1 /\ j'[c] = j[c]
  BY DEF Probe, Set, Typing, TypeOK
<1>4. \A k \in Index : /\ k < i[c] => prefixes[k] <= path[c]
                      /\ k >= j[c] => prefixes[k] > path[c]
  BY <1>1 DEF Searched, At
<1>5. \A k \in Index : /\ k < h => prefixes[k] <= prefixes[h]
                      /\ k > h => prefixes[h] <= prefixes[k]
  BY <1>2 DEF Ordered
<1>6. path[c] \in Nat /\ \A k \in Index : prefixes[k] \in Nat /\ k \in Int
  BY Ranks DEF Index
<1> HIDE DEF h
<1>7. CASE prefixes[h] > path[c]
  BY <1>1, <1>2, <1>3, <1>4, <1>5, <1>6, <1>7 DEF Searched, At
<1>8. CASE ~(prefixes[h] > path[c])
  BY <1>1, <1>2, <1>3, <1>4, <1>5, <1>6, <1>8 DEF Searched, At
<1> QED
  BY <1>7, <1>8

(* Nothing greater than the path begins it.                                *)
LEMMA WalkStarts ==
  ASSUME NEW c \in Calls, Typing, Searched(c), SearchEnds(c)
  PROVE  Searched(c)'
<1>1. /\ i[c] \in Int /\ j[c] \in Int /\ i[c] = j[c] /\ pc[c] = "search" /\ pc'[c] = "walk"
      /\ UNCHANGED <<prefixes, path>> /\ i'[c] = i[c] - 1
  BY DEF SearchEnds, Typing, TypeOK, At, Goto, Bounds
<1>2. \A k \in Index : k > i'[c] => prefixes[k] > path[c]
  BY <1>1 DEF Searched, At, Index
<1>3. \A k \in Index : k > i'[c] => <<prefixes[k], path[c]>> \notin PrefixOf
  BY <1>2, Ranks, PrefixesSortFirst
<1> QED
  BY <1>1, <1>3 DEF Searched, At

LEMMA FoundIsLongest ==
  ASSUME NEW c \in Calls, Typing, Ordered(prefixes), Range(prefixes) = Range(given),
         Searched(c), Found(c)
  PROVE  Searched(c)'
<1>1. /\ i[c] \in Index /\ <<prefixes[i[c]], path[c]>> \in PrefixOf /\ result'[c] = prefixes[i[c]]
      /\ pc[c] = "walk" /\ pc'[c] = "mapped" /\ UNCHANGED <<given, path>>
      /\ DOMAIN prefixes = Index
  BY DEF Found, Begins, Typing, TypeOK, At, Goto
<1>2. result'[c] \in Matching(c)
  BY <1>1 DEF Matching, Range
<1>3. ASSUME NEW p \in Matching(c) PROVE <<p, result'[c]>> \in PrefixOf
  <2>1. PICK k \in Index : p = prefixes[k]
    BY <1>1, <1>3 DEF Matching, Range
  <2>2. <<p, path[c]>> \in PrefixOf
    BY <1>3 DEF Matching
  <2>3. k <= i[c]
    BY <1>1, <2>1, <2>2 DEF Searched, At, Index
  <2>4. prefixes[k] <= prefixes[i[c]]
    BY <1>1, <2>3, Ranks DEF Ordered, Index
  <2> QED
    BY <1>1, <2>1, <2>2, <2>4, Ranks, PrefixesNest
<1>4. Matching(c)' = Matching(c)
  BY <1>1 DEF Matching
<1>5. LongestFound(c)'
  BY <1>2, <1>3, <1>4 DEF LongestFound
<1> QED
  BY <1>1, <1>5 DEF Searched, At

LEMMA NotFoundIsNone ==
  ASSUME NEW c \in Calls, Typing, Range(prefixes) = Range(given), ~At(c, "mapped") => result[c] = None,
         Searched(c), NotFound(c)
  PROVE  Searched(c)'
<1>1. /\ i[c] < 0 /\ i[c] \in Int /\ result'[c] = None /\ UNCHANGED <<given, path>>
      /\ pc[c] = "walk" /\ pc'[c] = "mapped" /\ DOMAIN prefixes = Index
  BY DEF NotFound, Typing, TypeOK, At, Goto
<1>2. \A k \in Index : <<prefixes[k], path[c]>> \notin PrefixOf
  BY <1>1 DEF Searched, At, Index
<1>3. Matching(c)' = {}
  BY <1>1, <1>2 DEF Matching, Range
<1> QED
  BY <1>1, <1>3 DEF Searched, At, LongestFound

(* A step moves one call only.                                             *)
LEMMA OthersKeepSearching ==
  ASSUME NEW d \in Calls, Searched(d), UNCHANGED <<given, path, prefixes>>,
         i'[d] = i[d], j'[d] = j[d], pc'[d] = pc[d], result'[d] = result[d]
  PROVE  Searched(d)'
BY DEF Searched, At, LongestFound, Matching

LEMMA LookUpKeepsSearching ==
  ASSUME Typing, Settling, Settled, LookingUp, NEW c \in Calls, LookUp(c), NEW d \in Calls
  PROVE  Searched(d)'
<1>1. Ordered(prefixes) /\ Range(prefixes) = Range(given) /\ Searched(c) /\ Searched(d)
        /\ (~At(c, "mapped") => result[c] = None)
  BY DEF Settling, LookingUp
<1>2. CASE d = c
  <2>1. CASE StepBack(c)
    <3>1. /\ i[c] \in Int /\ i'[c] = i[c] - 1 /\ UNCHANGED <<pc, path, prefixes>>
          /\ pc[c] = "walk" /\ <<prefixes[i[c]], path[c]>> \notin PrefixOf
      BY <2>1 DEF StepBack, Begins, Typing, TypeOK, At
    <3>2. \A k \in Index : k > i'[c] => <<prefixes[k], path[c]>> \notin PrefixOf
      BY <1>1, <3>1 DEF Searched, At, Index
    <3> QED
      BY <1>2, <3>1, <3>2 DEF Searched, At
  <2> QED
    BY <1>1, <1>2, <2>1, ProbeNarrows, WalkStarts, FoundIsLongest, NotFoundIsNone DEF LookUp
<1>3. CASE d # c
  <2>1. /\ UNCHANGED <<given, path, prefixes>>
        /\ i'[d] = i[d] /\ j'[d] = j[d] /\ pc'[d] = pc[d] /\ result'[d] = result[d]
    BY <1>3 DEF LookUp, Probe, SearchEnds, StepBack, Found, NotFound, Set, Goto, Typing, TypeOK
  <2> QED
    BY <1>1, <2>1, OthersKeepSearching
<1> QED
  BY <1>2, <1>3

LEMMA LookingUpInductive ==
  Typing /\ Sorts /\ LookingUp /\ [Next]_vars => LookingUp'
<1> SUFFICES ASSUME Typing, Sorts, LookingUp, [Next]_vars PROVE LookingUp'
  OBVIOUS
<1>a. \A c \in Calls : Settled => pc[c] \notin Moving
  BY DEF Sorts, Settling
<1>1. ASSUME NEW c \in Calls, LookUp(c) PROVE LookingUp'
  <2>1. \A d \in Calls : ~At(d, "mapped")' => result'[d] = None
    BY <1>1 DEF LookingUp, LookUp, Probe, SearchEnds, StepBack, Found, NotFound, At, Goto,
                Typing, TypeOK
  <2>2. Settled' => Settled
    BY <1>1 DEF LookUp, Probe, SearchEnds, StepBack, Found, NotFound, Settled, Ordered
  <2> QED
    BY <1>1, <2>1, <2>2, LookUpKeepsSearching DEF LookingUp, Sorts
<1>2. ASSUME NEW c \in Calls, NothingToPrint(c) \/ StartSort(c) \/ Sort(c) PROVE LookingUp'
  <2>1. /\ UNCHANGED <<given, path, result>> /\ pc[c] \in {"crawl"} \union Sorting
        /\ \E label \in {"failed", "search"} \union Sorting : pc' = [pc EXCEPT ![c] = label]
        /\ pc \in [Calls -> {"crawl", "failed", "search", "walk", "mapped"} \union Sorting]
        /\ \A d \in Calls \ {c} : i'[d] = i[d] /\ j'[d] = j[d]
    BY <1>2 DEF NothingToPrint, StartSort, Sort, InPlace, MustMove, Save, Shift, Place, SortEnds,
                At, Goto, Set, Sorting, Typing, TypeOK
  <2>2. \A d \in Calls : ~At(d, "mapped")' => result'[d] = None
    BY <2>1 DEF LookingUp, At, Sorting
  <2>3. ASSUME Settled', NEW d \in Calls PROVE Searched(d)'
    <3>1. CASE d = c
      <4>1. CASE SortEnds(c)
        <5>1. pc'[c] = "search" /\ i'[c] = 0 /\ j'[c] = N
          BY <4>1 DEF SortEnds, Goto, Set, Typing, TypeOK
        <5> QED
          BY <3>1, <5>1, NOK DEF Searched, At, Index
      <4>2. CASE ~SortEnds(c)
        <5>1. pc'[c] \in {"failed"} \union Sorting
          BY <1>2, <4>2 DEF NothingToPrint, StartSort, Sort, InPlace, MustMove, Save, Shift,
                            Place, At, Goto, Sorting, Typing, TypeOK
        <5> QED
          BY <3>1, <5>1 DEF Searched, At, Sorting
      <4> QED
        BY <4>1, <4>2
    <3>2. CASE d # c /\ Settled
      <4>1. ~Shift(c) /\ ~Place(c)
        BY <1>a, <3>2 DEF Shift, Place, At, Moving
      <4>2. prefixes' = prefixes
        BY <1>2, <4>1 DEF NothingToPrint, StartSort, Sort, InPlace, MustMove, Save, SortEnds
      <4>3. Searched(d) /\ pc'[d] = pc[d] /\ i'[d] = i[d] /\ j'[d] = j[d]
        BY <2>1, <3>2 DEF LookingUp
      <4> QED
        BY <2>1, <4>2, <4>3, OthersKeepSearching
    <3>3. CASE d # c /\ ~Settled
      <4>1. SortEnds(c) /\ first = "running"
        BY <1>2, <2>1, <2>3, <3>3 DEF NothingToPrint, StartSort, Sort, InPlace, MustMove, Save,
              Shift, Place, SortEnds, Settled, Ordered
      <4>2. pc[d] \in {"crawl", "failed"}
        BY <2>1, <3>3, <4>1 DEF Sorts, Inserting, InsertionSort, SortEnds, At, Sorting
      <4>3. pc'[d] \in {"crawl", "failed"}
        BY <2>1, <3>3, <4>2
      <4> QED
        BY <4>3 DEF Searched, At
    <3> QED
      BY <3>1, <3>2, <3>3
  <2> QED
    BY <2>2, <2>3 DEF LookingUp
<1>3. CASE UNCHANGED vars
  <2>1. Settled' => Settled
    BY <1>3 DEF vars, Settled, Ordered
  <2> QED
    BY <1>3, <2>1, OthersKeepSearching DEF vars, LookingUp, At
<1> QED
  BY <1>1, <1>2, <1>3 DEF Next

LEMMA Invariance == Spec => [](Typing /\ Sorts /\ LookingUp)
<1>1. Init => Typing /\ Sorts /\ LookingUp
  BY TypingInit, SortsInit, LookingUpInit
<1>2. Typing /\ Sorts /\ LookingUp /\ [Next \/ Stopped]_vars
        => Typing' /\ Sorts' /\ LookingUp'
  BY TypingInductive, SortsInductive, LookingUpInductive DEF Stopped
<1> QED
  BY <1>1, <1>2, PTL DEF Spec

(* A call that has got past sorting is in the clear or was disturbed.      *)
LEMMA UndisturbedMeans ==
  ASSUME Typing, Sorts, Undisturbed
  PROVE  \/ Settled
         \/ \E c \in Calls : \A d \in Calls \ {c} : pc[d] \in {"crawl", "failed"}
         \/ \A d \in Calls : pc[d] \in {"crawl", "failed"}
BY DEF Typing, TypeOK, Sorts, Undisturbed, Settled, Untouched, Inserting, InsertionSort

(* Paths are mapped by their longest prefix.                               *)
THEOREM LongestIsTaken == Spec => []TakesLongest
<1>1. Typing /\ Sorts /\ LookingUp => TakesLongest
  <2> SUFFICES ASSUME Typing, Sorts, LookingUp, Undisturbed,
                      NEW c \in Calls, At(c, "mapped")
               PROVE  LongestFound(c)
    BY DEF TakesLongest, LongestFound
  <2>1. Settled
    BY DEF Typing, TypeOK, Sorts, Undisturbed, Settled, Untouched, Inserting, InsertionSort,
           At, Sorting
  <2> QED
    BY <2>1 DEF LookingUp, Searched
<1> QED
  BY <1>1, Invariance, PTL

(* No data race on the slice.                                              *)
THEOREM SliceIsRaceFree == Spec => []NoSliceRace
<1>1. Typing /\ Sorts => NoSliceRace
  <2> SUFFICES ASSUME Typing, Sorts, Undisturbed, NEW c \in Calls, NEW d \in Calls, c # d
               PROVE  Writes(c) \intersect (Reads(d) \union Writes(d)) = {}
    BY DEF NoSliceRace
  <2>1. CASE Settled
    BY <2>1 DEF Sorts, Settling, Writes, At, Moving
  <2>2. CASE pc[c] \in {"crawl", "failed"}
    BY <2>2 DEF Writes, At
  <2>3. CASE pc[d] \in {"crawl", "failed"}
    BY <2>3 DEF Reads, Writes, At
  <2> QED
    BY <2>1, <2>2, <2>3, UndisturbedMeans
<1> QED
  BY <1>1, Invariance, PTL
=============================================================================
