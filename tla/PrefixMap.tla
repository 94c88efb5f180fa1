----------------------------- MODULE PrefixMap -----------------------------
(***************************************************************************)
(* The option PrefixMap (generate.go) and PrefixMapper                     *)
(* (internal/planning/planner.go).  The option makes one slice of          *)
(* prefixes, and every Generate that is given the option has PrefixMapper  *)
(* sort that slice in place and then look paths up in it.  Calls of        *)
(* Generate may run concurrently; nothing keeps one from sorting while     *)
(* another reads.                                                          *)
(*                                                                         *)
(* A string is its rank among the strings that "<" orders; which of them   *)
(* begins another is given as a relation.  An entry of the slice is its    *)
(* prefix: what it is mapped to only travels along.  Package sort is       *)
(* external: sort.Slice is the insertion sort it uses for short slices, an *)
(* exchange being a copy to a temporary and two writes, and sort.Search is *)
(* its binary search.  Of longer slices, which are sorted otherwise, and   *)
(* may be written to though they are in order, this module says nothing.   *)
(***************************************************************************)
EXTENDS Integers, Sequences, Functions

CONSTANTS Calls,        \* calls of Generate that share the option
          N,            \* number of prefixes
          ShortSlice,   \* how many of them sort.Slice sorts by insertion
          Strings,      \* ranks of the strings there are
          Prefixes,     \* those that are given as prefixes
          Sought,       \* Go paths that are looked up
          PrefixOf,     \* <<p, s>>: strings.HasPrefix(s, p)
          None          \* no prefix: the path is left as it is

ASSUME NOK == N \in Nat

(* Six in the Go 1.13 of go.mod, twelve from Go 1.19 on.                   *)
ASSUME SliceIsShort == ShortSlice \in {6, 12} /\ N <= ShortSlice
ASSUME StringsAreRanks == /\ Strings \subseteq Nat
                          /\ Prefixes \subseteq Strings /\ Sought \subseteq Strings
ASSUME NoneIsNoPrefix == None \notin Prefixes

(* A string is not less than what it begins with, and of two beginnings of *)
(* one string the lesser begins the other.                                 *)
ASSUME PrefixesSortFirst == \A p, s \in Strings : <<p, s>> \in PrefixOf => p <= s
ASSUME PrefixesNest ==
  \A p, q, s \in Strings :
    <<p, s>> \in PrefixOf /\ <<q, s>> \in PrefixOf /\ p <= q => <<p, q>> \in PrefixOf

Index == 0..(N - 1)

VARIABLES given,        \* rigid: the slice as prefixPairs made it
          path,         \* rigid: the path a call looks up
          prefixes,     \* the shared slice
          pc, i, j,     \* of each call: where it is, and its two indices
          tmp,          \* the prefix being moved by an exchange
          result,       \* the prefix found
          first         \* history: how the first sort of the slice went

vars == <<given, path, prefixes, pc, i, j, tmp, result, first>>

Sorting == {"less", "save", "shift", "place"}

Init == /\ given \in [Index -> Prefixes]
        /\ path \in [Calls -> Sought]
        /\ prefixes = given
        /\ pc = [c \in Calls |-> "crawl"]
        /\ i = [c \in Calls |-> 0] /\ j = [c \in Calls |-> 0]
        /\ tmp = [c \in Calls |-> None] /\ result = [c \in Calls |-> None]
        /\ first = "none"

At(c, label) == pc[c] = label
Goto(c, label) == pc' = [pc EXCEPT ![c] = label]
Set(c, low, high) == i' = [i EXCEPT ![c] = low] /\ j' = [j EXCEPT ![c] = high]
-----------------------------------------------------------------------------
(* Generate returns before it prints: no URIs, or the crawl fails.         *)
NothingToPrint(c) ==
  /\ At(c, "crawl") /\ Goto(c, "failed")
  /\ UNCHANGED <<given, path, prefixes, i, j, tmp, result, first>>

(* Generate goes on to Print, whose call of PrefixMapper sorts the slice.  *)
StartSort(c) ==
  /\ At(c, "crawl") /\ Goto(c, "less")
  /\ Set(c, 1, 1)
  /\ first' = CASE first = "none" -> "running"
                [] first = "running" -> "overlapped"
                [] OTHER -> first
  /\ UNCHANGED <<given, path, prefixes, tmp, result>>

(* A mutation of OutOfOrder: equal prefixes are exchanged.                 *)
NotInOrder(c) == j[c] > 0 /\ prefixes[j[c]] <= prefixes[j[c] - 1]

OutOfOrder(c) == j[c] > 0 /\ prefixes[j[c]] < prefixes[j[c] - 1]

InPlace(c) ==
  /\ At(c, "less") /\ i[c] < N /\ ~OutOfOrder(c)
  /\ Set(c, i[c] + 1, i[c] + 1)
  /\ UNCHANGED <<given, path, prefixes, pc, tmp, result, first>>

MustMove(c) ==
  /\ At(c, "less") /\ i[c] < N /\ OutOfOrder(c)
  /\ Goto(c, "save")
  /\ UNCHANGED <<given, path, prefixes, i, j, tmp, result, first>>

(* The exchange of j and j - 1.                                            *)
Save(c) ==
  /\ At(c, "save") /\ Goto(c, "shift")
  /\ tmp' = [tmp EXCEPT ![c] = prefixes[j[c]]]
  /\ UNCHANGED <<given, path, prefixes, i, j, result, first>>

Shift(c) ==
  /\ At(c, "shift") /\ Goto(c, "place")
  /\ prefixes' = [prefixes EXCEPT ![j[c]] = prefixes[j[c] - 1]]
  /\ UNCHANGED <<given, path, i, j, tmp, result, first>>

Place(c) ==
  /\ At(c, "place") /\ Goto(c, "less")
  /\ prefixes' = [prefixes EXCEPT ![j[c] - 1] = tmp[c]]
  /\ Set(c, i[c], j[c] - 1)
  /\ UNCHANGED <<given, path, tmp, result, first>>

SortEnds(c) ==
  /\ At(c, "less") /\ i[c] >= N
  /\ Goto(c, "search") /\ Set(c, 0, N)
  /\ first' = IF first = "running" THEN "alone" ELSE first
  /\ UNCHANGED <<given, path, prefixes, tmp, result>>

Sort(c) == InPlace(c) \/ MustMove(c) \/ Save(c) \/ Shift(c) \/ Place(c) \/ SortEnds(c)
-----------------------------------------------------------------------------
(* The function PrefixMapper returns.  The first prefix that is greater    *)
(* than the path lies in i..j.                                             *)
(* A mutation of Probe: a prefix that is the path counts as greater.       *)
ProbeStrictly(c) ==
  /\ At(c, "search") /\ i[c] < j[c]
  /\ LET h == (i[c] + j[c]) \div 2
     IN  IF prefixes[h] >= path[c] THEN Set(c, i[c], h) ELSE Set(c, h + 1, j[c])
  /\ UNCHANGED <<given, path, prefixes, pc, tmp, result, first>>

Probe(c) ==
  /\ At(c, "search") /\ i[c] < j[c]
  /\ LET h == (i[c] + j[c]) \div 2
     IN  IF prefixes[h] > path[c] THEN Set(c, i[c], h) ELSE Set(c, h + 1, j[c])
  /\ UNCHANGED <<given, path, prefixes, pc, tmp, result, first>>

(* A mutation of SearchEnds: the index found is not stepped back from.     *)
SearchEndsThere(c) ==
  /\ At(c, "search") /\ i[c] >= j[c]
  /\ Goto(c, "walk") /\ UNCHANGED i
  /\ UNCHANGED <<given, path, prefixes, j, tmp, result, first>>

SearchEnds(c) ==
  /\ At(c, "search") /\ i[c] >= j[c]
  /\ Goto(c, "walk") /\ i' = [i EXCEPT ![c] = @ - 1]
  /\ UNCHANGED <<given, path, prefixes, j, tmp, result, first>>

Begins(c) == <<prefixes[i[c]], path[c]>> \in PrefixOf

StepBack(c) ==
  /\ At(c, "walk") /\ i[c] >= 0 /\ ~Begins(c)
  /\ i' = [i EXCEPT ![c] = @ - 1]
  /\ UNCHANGED <<given, path, prefixes, pc, j, tmp, result, first>>

Found(c) ==
  /\ At(c, "walk") /\ i[c] >= 0 /\ Begins(c)
  /\ Goto(c, "mapped") /\ result' = [result EXCEPT ![c] = prefixes[i[c]]]
  /\ UNCHANGED <<given, path, prefixes, i, j, tmp, first>>

NotFound(c) ==
  /\ At(c, "walk") /\ i[c] < 0
  /\ Goto(c, "mapped")
  /\ UNCHANGED <<given, path, prefixes, i, j, tmp, result, first>>

LookUp(c) == Probe(c) \/ SearchEnds(c) \/ StepBack(c) \/ Found(c) \/ NotFound(c)

Stopped == (\A c \in Calls : pc[c] \in {"mapped", "failed"}) /\ UNCHANGED vars

Next == \E c \in Calls : NothingToPrint(c) \/ StartSort(c) \/ Sort(c) \/ LookUp(c)

Spec == Init /\ [][Next \/ Stopped]_vars
-----------------------------------------------------------------------------
(* Every variable ranges over its type; no index leaves the slice, even    *)
(* while sorts overlap.                                                    *)
TypeOK ==
  /\ given \in [Index -> Prefixes] /\ prefixes \in [Index -> Prefixes]
  /\ path \in [Calls -> Sought]
  /\ pc \in [Calls -> {"crawl", "failed", "search", "walk", "mapped"} \union Sorting]
  /\ i \in [Calls -> -1..(N + 1)] /\ j \in [Calls -> 0..(N + 1)]
  /\ tmp \in [Calls -> Prefixes \union {None}]
  /\ result \in [Calls -> Prefixes \union {None}]
  /\ first \in {"none", "running", "alone", "overlapped"}
  /\ \A c \in Calls : At(c, "walk") /\ i[c] >= 0 => i[c] \in Index
  /\ \A c \in Calls : At(c, "search") => 0 <= i[c] /\ i[c] <= j[c] /\ j[c] <= N

Ordered(s) == \A k, l \in Index : k < l => s[k] <= s[l]

(* The calls do not interfere: either the slice was first sorted to the    *)
(* end before another call began to, or there was nothing to sort.         *)
Undisturbed == first # "overlapped" \/ Ordered(given)

(* What the next step of a call reads and writes.                          *)
Reads(c) ==
  CASE At(c, "less") /\ i[c] < N -> {j[c], j[c] - 1} \intersect Index
    [] At(c, "save") -> {j[c]}
    [] At(c, "shift") -> {j[c] - 1}
    [] At(c, "search") /\ i[c] < j[c] -> {(i[c] + j[c]) \div 2}
    [] At(c, "walk") /\ i[c] >= 0 -> {i[c]}
    [] OTHER -> {}
Writes(c) ==
  CASE At(c, "shift") -> {j[c]} [] At(c, "place") -> {j[c] - 1} [] OTHER -> {}

(* Sorting what is sorted writes nothing, so that calls which follow the   *)
(* first sort may sort and look up at the same time without a data race,   *)
(* though PrefixMapper takes no lock.                                      *)
NoSliceRace ==
  Undisturbed =>
    \A c, d \in Calls : c # d => Writes(c) \intersect (Reads(d) \union Writes(d)) = {}

(* The test "takes longest" of PrefixMapper: a path is mapped by the       *)
(* longest of the given prefixes that it begins with, and left alone when  *)
(* it begins with none, whatever the other calls are doing.                *)
Matching(c) == {p \in Range(given) : <<p, path[c]>> \in PrefixOf}
TakesLongest ==
  Undisturbed =>
    \A c \in Calls : At(c, "mapped") =>
      IF Matching(c) = {} THEN result[c] = None
      ELSE /\ result[c] \in Matching(c)
           /\ \A p \in Matching(c) : <<p, result[c]>> \in PrefixOf
=============================================================================
