-------------------------- MODULE BaseLoaderProofs --------------------------
(***************************************************************************)
(* Proofs about BaseLoader, for documents of any size.  calculateID goes   *)
(* down a document in no particular order; what it has not reached yet     *)
(* has what was decoded and is below a schema that is to be visited        *)
(* (Waits), and all else is identified for good: it states an ID, or has   *)
(* one made from that of the schema right around it.  setSrc goes the same *)
(* way again, and what has no source is below a schema it is to visit.     *)
(***************************************************************************)
EXTENDS BaseLoader, FiniteSetTheorems, SequenceTheorems, WellFoundedInduction, TLAPS

Parent(n) == SubSeq(n, 1, Len(n) - 1)
Identified(n) ==
  IF document.stated[n] # NoId THEN ids[n] = document.stated[n]
  ELSE /\ n # Root /\ ids[Parent(n)] # NoId
       /\ ids[n] = ChildId(Parent(n), n)

Waits(n) == /\ ids[n] = document.stated[n]
            /\ \E k \in 0..(Len(n) - 1) : SubSeq(n, 1, k) \in todo

Below(n) == \E k \in 0..Len(n) : SubSeq(n, 1, k) \in todo

Typing == TypeOK /\ document \in Documents
Started == pc \in {"open", "wait", "decode", "identify"} => todo = {}
Decoded == pc = "identify" => ids = document.stated
Calculating ==
  pc = "calculate" => /\ \A n \in todo : Identified(n)
                      /\ \A n \in Inline : Identified(n) \/ Waits(n)
Sourcing ==
  pc = "source" => \A n \in Inline : /\ ids[n] # NoId /\ Identified(n)
                                     /\ n \in srcs \/ Below(n)

(* In what Load returns, every schema has a source, and the ID it states   *)
(* or one made from that of the schema right around it: none is nil.       *)
EveryOneIsIdentified ==
  pc = "loaded" => srcs = Inline /\ \A n \in Inline : ids[n] # NoId /\ Identified(n)

Identifying == Started /\ Decoded /\ Calculating /\ Sourcing /\ EveryOneIsIdentified
-----------------------------------------------------------------------------
LEMMA InlineIsClosed ==
  ASSUME document \in Documents
  PROVE  /\ Inline \subseteq Seq(Seq(STRING)) /\ Root \in Inline
         /\ \A n \in Inline : \A k \in 0..Len(n) : SubSeq(n, 1, k) \in Inline
         /\ document.stated \in [Inline -> IdOrNone]
BY DocumentsAssumption DEF Inline

LEMMA ChildIdIsId ==
  ASSUME Typing, NEW n \in Inline, NEW c \in Children(n), ids[n] # NoId
  PROVE  ChildId(n, c) \in Id
<1>1. ids[n] \in Id
  BY DEF Typing, TypeOK, IdOrNone
<1>2. c \in Seq(Seq(STRING)) /\ n \in Seq(Seq(STRING)) /\ Len(c) = Len(n) + 1
  BY InlineIsClosed DEF Typing, Children
<1>3. Len(c) \in 1..Len(c)
  BY <1>2
<1>4. c[Len(c)] \in Seq(STRING)
  BY <1>2, <1>3, ElementOfSeq
<1>5. ids[n].fragment \in Seq(STRING)
  BY <1>1 DEF Id
<1>6. ids[n].fragment \o c[Len(c)] \in Seq(STRING)
  BY <1>4, <1>5, ConcatProperties
<1>7. Resolved[ids[n].url] \in Urls
  BY <1>1, ResolvedAssumption DEF Id
<1> QED
  BY <1>6, <1>7 DEF ChildId, Id

LEMMA ChildOfParent ==
  ASSUME document \in Documents, NEW n \in Inline, n # Root
  PROVE  Parent(n) \in Inline /\ n \in Children(Parent(n))
<1>1. n \in Seq(Seq(STRING)) /\ Len(n) \in Nat /\ Len(n) # 0
  BY InlineIsClosed, EmptySeq DEF Root
<1>2. Len(n) - 1 \in 0..Len(n)
  BY <1>1
<1>3. Parent(n) \in Inline
  BY <1>2, InlineIsClosed DEF Parent
<1>4. Len(Parent(n)) = Len(n) - 1
  <2>1. \A k \in 1..(Len(n) - 1) : n[k] \in Seq(STRING)
    BY <1>1
  <2> DEFINE l == Len(n) - 1
  <2>2. l \in Int /\ l >= 0
    BY <1>1
  <2>3. Len(SubSeq(n, 1, l)) = IF 1 <= l THEN l - 1 + 1 ELSE 0
    BY <2>1, <2>2, SubSeqProperties
  <2>4. Parent(n) = SubSeq(n, 1, l)
    BY DEF Parent
  <2> HIDE DEF l
  <2>5. Len(Parent(n)) = l
    BY <2>2, <2>3, <2>4
  <2> QED
    BY <2>5 DEF l
<1> QED
  BY <1>1, <1>3, <1>4 DEF Children, Parent

LEMMA IdentifiedHasId ==
  ASSUME Typing, NEW n \in Inline, Identified(n)
  PROVE  ids[n] # NoId
<1>1. CASE document.stated[n] # NoId
  BY <1>1 DEF Identified
<1>2. CASE document.stated[n] = NoId
  <2>1. Parent(n) \in Inline /\ n \in Children(Parent(n))
    BY <1>2, ChildOfParent DEF Identified, Typing
  <2>2. ChildId(Parent(n), n) \in Id
    BY <1>2, <2>1, ChildIdIsId DEF Identified
  <2> QED
    BY <1>2, <2>2, DocumentsAssumption DEF Identified
<1> QED
  BY <1>1, <1>2

LEMMA CalculatedIsTyped ==
  ASSUME Typing, Calculating, NEW n \in todo, CalculateID(n)
  PROVE  ids[n] # NoId /\ ids' \in [Inline -> IdOrNone]
<1>1. n \in Inline /\ ids[n] # NoId
  BY IdentifiedHasId DEF Typing, TypeOK, Calculating, CalculateID
<1>2. \A c \in Children(n) : ChildId(n, c) \in IdOrNone
  BY <1>1, ChildIdIsId DEF IdOrNone
<1>3. \A c \in Inline : ids[c] \in IdOrNone
  BY DEF Typing, TypeOK
<1> QED
  BY <1>1, <1>2, <1>3 DEF CalculateID

LEMMA TypingInit == Init => Typing
BY DEF Init, Typing, TypeOK, IdOrNone, Inline, Returned

LEMMA TypingInductive ==
  Typing /\ Calculating /\ [Next \/ Stopped]_vars => Typing'
<1> SUFFICES ASSUME Typing, Calculating, [Next \/ Stopped]_vars PROVE Typing'
  OBVIOUS
<1> USE DEF Typing, TypeOK, Inline, Returned
<1>1. CASE OpenFile
  BY <1>1 DEF OpenFile
<1>2. CASE Request \/ UnsupportedScheme \/ CancelledWaiting \/ Cancel
  BY <1>2 DEF Request, UnsupportedScheme, CancelledWaiting, Cancel
<1>3. CASE ServerAnswers
  BY <1>3 DEF ServerAnswers
<1>4. CASE DecodeFails \/ NoIdSet
  BY <1>4 DEF DecodeFails, NoIdSet
<1>5. CASE Decode
  BY <1>5, InlineIsClosed DEF Decode
<1>6. CASE HasId
  BY <1>6, InlineIsClosed DEF HasId
<1>7. ASSUME NEW n \in todo, CalculateID(n) PROVE Typing'
  <2>1. ids' \in [Inline -> IdOrNone]
    BY <1>7, CalculatedIsTyped
  <2> QED
    BY <1>7, <2>1 DEF CalculateID, Visited, Children
<1>8. ASSUME NEW n \in todo, SetSrc(n) PROVE Typing'
  BY <1>8 DEF SetSrc, Sourced, Children
<1>9. CASE CalculatedIDs \/ Loaded
  BY <1>9, InlineIsClosed DEF CalculatedIDs, Loaded
<1>10. CASE Stopped \/ UNCHANGED vars
  BY <1>10 DEF Stopped, vars
<1> QED
  BY <1>1, <1>2, <1>3, <1>4, <1>5, <1>6, <1>7, <1>8, <1>9, <1>10 DEF Next, Load, Server

LEMMA OpenIsClosed ==
  TypeOK /\ NothingLeftOpen /\ [Next \/ Stopped]_vars => NothingLeftOpen'
<1> SUFFICES ASSUME TypeOK, NothingLeftOpen, [Next \/ Stopped]_vars PROVE NothingLeftOpen'
  OBVIOUS
<1> USE DEF TypeOK, NothingLeftOpen, Returned
<1>1. CASE OpenFile \/ Request \/ UnsupportedScheme \/ ServerAnswers \/ CancelledWaiting
  BY <1>1 DEF OpenFile, Request, UnsupportedScheme, ServerAnswers, CancelledWaiting
<1>2. CASE Decode \/ DecodeFails \/ NoIdSet \/ HasId
  BY <1>2 DEF Decode, DecodeFails, NoIdSet, HasId
<1>3. ASSUME NEW n \in todo, CalculateID(n) \/ SetSrc(n) PROVE NothingLeftOpen'
  BY <1>3 DEF CalculateID, SetSrc
<1>4. CASE CalculatedIDs \/ Loaded \/ Cancel
  BY <1>4 DEF CalculatedIDs, Loaded, Cancel
<1>5. CASE Stopped \/ UNCHANGED vars
  BY <1>5 DEF Stopped, vars
<1> QED
  BY <1>1, <1>2, <1>3, <1>4, <1>5 DEF Next, Load, Server
-----------------------------------------------------------------------------
(* One turn of calculateID: who is identified remains so, the children are *)
(* identified now, and who waited for n now waits for one of them.         *)
LEMMA IdentifiedStays ==
  ASSUME Typing, NEW n \in todo, CalculateID(n), ids[n] # NoId,
         NEW m \in Inline, Identified(m)
  PROVE  Identified(m)'
<1>1. ids'[m] = ids[m] /\ Inline' = Inline /\ document' = document
  BY IdentifiedHasId DEF CalculateID, Inline
<1>2. CASE document.stated[m] # NoId
  BY <1>1, <1>2 DEF Identified
<1>3. CASE document.stated[m] = NoId
  <2>1. Parent(m) \in Inline /\ ids[Parent(m)] # NoId
    BY <1>3, ChildOfParent DEF Identified, Typing
  <2>2. ids'[Parent(m)] = ids[Parent(m)]
    BY <2>1 DEF CalculateID
  <2> QED
    BY <1>1, <1>3, <2>1, <2>2 DEF Identified, ChildId
<1> QED
  BY <1>2, <1>3

LEMMA ChildIsIdentified ==
  ASSUME Typing, NEW n \in todo, CalculateID(n), ids[n] # NoId,
         NEW m \in Children(n), Identified(m) \/ Waits(m)
  PROVE  Identified(m)'
<1>1. m \in Inline /\ n \in Inline /\ document' = document
  BY DEF Children, Typing, TypeOK, CalculateID
<1>2. CASE Identified(m)
  BY <1>1, <1>2, IdentifiedStays
<1>3. CASE ids[m] = document.stated[m] /\ ids[m] # NoId
  BY <1>1, <1>3 DEF Identified, CalculateID
<1>4. CASE ids[m] = document.stated[m] /\ ids[m] = NoId
  <2>1. Parent(m) = n /\ m # Root
    BY <1>1, InlineIsClosed DEF Children, Parent, Root, Typing
  <2>2. ids'[m] = ChildId(n, m) /\ ids'[n] = ids[n]
    BY <1>1, <1>4 DEF CalculateID
  <2> QED
    BY <1>1, <1>4, <2>1, <2>2 DEF Identified, ChildId
<1> QED
  BY <1>2, <1>3, <1>4 DEF Waits

(* On the way from n down to m there is a child of n.                      *)
LEMMA ChildOnTheWay ==
  ASSUME document \in Documents, NEW m \in Inline,
         NEW k \in 0..(Len(m) - 1), NEW n, SubSeq(m, 1, k) = n
  PROVE  k + 1 \in 0..Len(m) /\ SubSeq(m, 1, k + 1) \in Children(n)
<1> DEFINE q == SubSeq(m, 1, k + 1)
<1>1. m \in Seq(Seq(STRING)) /\ Len(m) \in Nat /\ k \in Nat
  BY InlineIsClosed
<1>2. Len(n) = k /\ k + 1 \in 0..Len(m)
  BY <1>1
<1>3. q \in Inline /\ Len(q) = k + 1
  BY <1>1, <1>2, InlineIsClosed
<1>4. SubSeq(q, 1, k) = n
  BY <1>1, <1>2
<1> QED
  BY <1>2, <1>3, <1>4 DEF Children

LEMMA OthersWaitOn ==
  ASSUME Typing, NEW n \in todo, CalculateID(n),
         NEW m \in Inline, m \notin Children(n), Waits(m)
  PROVE  Waits(m)'
<1>1. PICK k \in 0..(Len(m) - 1) : SubSeq(m, 1, k) \in todo
  BY DEF Waits
<1>2. ids'[m] = ids[m] /\ document' = document /\ todo' = (todo \ {n}) \union Children(n)
  BY DEF CalculateID, Visited
<1>3. m \in Seq(Seq(STRING)) /\ Len(m) \in Nat /\ k \in Nat
  BY InlineIsClosed DEF Typing
<1>4. CASE SubSeq(m, 1, k) # n
  BY <1>1, <1>2, <1>4 DEF Waits
<1>5. CASE SubSeq(m, 1, k) = n
  <2>1. k + 1 \in 0..Len(m) /\ SubSeq(m, 1, k + 1) \in Children(n)
    BY <1>5, ChildOnTheWay DEF Typing
  <2>2. k + 1 # Len(m)
    BY <1>3, <2>1, SubSeqFull
  <2>3. k + 1 \in 0..(Len(m) - 1) /\ SubSeq(m, 1, k + 1) \in todo'
    BY <1>2, <1>3, <2>1, <2>2
  <2> QED
    BY <1>2, <2>3 DEF Waits
<1> QED
  BY <1>4, <1>5

LEMMA CalculateIdentifies ==
  ASSUME Typing, Identifying, NEW n \in todo, CalculateID(n)
  PROVE  Identifying'
<1>1. Calculating /\ pc = "calculate" /\ pc' = "calculate" /\ Inline' = Inline
  BY DEF Identifying, CalculateID, Inline
<1>2. ids[n] # NoId
  BY <1>1, CalculatedIsTyped
<1>3. \A m \in Children(n) : Identified(m)'
  BY <1>1, <1>2, ChildIsIdentified DEF Calculating, Children
<1>4. \A m \in todo' : Identified(m)'
  BY <1>1, <1>2, <1>3, IdentifiedStays DEF Calculating, CalculateID, Visited, Typing, TypeOK
<1>5. \A m \in Inline : Identified(m)' \/ Waits(m)'
  BY <1>1, <1>2, <1>3, IdentifiedStays, OthersWaitOn DEF Calculating
<1> QED
  BY <1>1, <1>4, <1>5
  DEF Identifying, Started, Decoded, Calculating, Sourcing, EveryOneIsIdentified

LEMMA RootIsIdentified ==
  ASSUME Typing, Identifying, HasId
  PROVE  Identifying'
<1>1. /\ ids = document.stated /\ ids[Root] # NoId /\ todo' = {Root} /\ pc' = "calculate"
      /\ ids' = ids /\ document' = document /\ Inline' = Inline
  BY DEF Identifying, Decoded, HasId, Inline
<1>2. Identified(Root)'
  BY <1>1 DEF Identified
<1>3. ASSUME NEW m \in Inline, m # Root PROVE Waits(m)'
  <2>1. m \in Seq(Seq(STRING)) /\ Len(m) \in Nat /\ Len(m) # 0
    BY <1>3, InlineIsClosed, EmptySeq DEF Root, Typing
  <2>2. SubSeq(m, 1, 0) = Root /\ 0 \in 0..(Len(m) - 1)
    BY <2>1, SubSeqEmpty DEF Root
  <2> QED
    BY <1>1, <2>2 DEF Waits
<1> QED
  BY <1>1, <1>2, <1>3
  DEF Identifying, Started, Decoded, Calculating, Sourcing, EveryOneIsIdentified

LEMMA NoneIsWithoutId ==
  ASSUME Typing, Identifying, CalculatedIDs
  PROVE  Identifying'
<1>1. \A m \in Inline : Identified(m) /\ ids[m] # NoId
  <2>1. \A m \in Inline : Identified(m)
    BY DEF Identifying, Calculating, CalculatedIDs, Waits
  <2> QED
    BY <2>1, IdentifiedHasId
<1>2. UNCHANGED <<ids, document, srcs>> /\ todo' = {Root} /\ pc' = "source" /\ Inline' = Inline
  BY DEF CalculatedIDs, Inline
<1>3. \A m \in Inline : Identified(m)' /\ ids'[m] # NoId
  BY <1>1, <1>2 DEF Identified, ChildId
<1>4. ASSUME NEW m \in Inline PROVE Below(m)'
  <2>1. m \in Seq(Seq(STRING)) /\ Len(m) \in Nat
    BY InlineIsClosed DEF Typing
  <2>2. SubSeq(m, 1, 0) = Root /\ 0 \in 0..Len(m)
    BY <2>1, SubSeqEmpty DEF Root
  <2> QED
    BY <1>2, <2>2 DEF Below
<1> QED
  BY <1>2, <1>3, <1>4
  DEF Identifying, Started, Decoded, Calculating, Sourcing, EveryOneIsIdentified

LEMMA SetSrcGoesOn ==
  ASSUME Typing, Identifying, NEW n \in todo, SetSrc(n)
  PROVE  Identifying'
<1>1. /\ pc = "source" /\ UNCHANGED <<pc, ids, document>> /\ Inline' = Inline
      /\ srcs' = srcs \union {n} /\ todo' = (todo \ {n}) \union Children(n)
  BY DEF SetSrc, Sourced, Inline
<1>2. \A m \in Inline : Identified(m)' /\ ids'[m] # NoId
  <2>1. \A m \in Inline : Identified(m) /\ ids[m] # NoId
    BY <1>1 DEF Identifying, Sourcing
  <2> QED
    BY <1>1, <2>1 DEF Identified, ChildId
<1>3. ASSUME NEW m \in Inline, m \notin srcs, m # n PROVE Below(m)'
  <2>1. PICK k \in 0..Len(m) : SubSeq(m, 1, k) \in todo
    BY <1>1, <1>3 DEF Identifying, Sourcing, Below
  <2>2. CASE SubSeq(m, 1, k) # n
    BY <1>1, <2>1, <2>2 DEF Below
  <2>3. CASE SubSeq(m, 1, k) = n
    <3>1. m \in Seq(Seq(STRING)) /\ Len(m) \in Nat
      BY InlineIsClosed DEF Typing
    <3>2. k \in 0..(Len(m) - 1)
      <4>1. SubSeq(m, 1, Len(m)) = m
        BY <3>1, SubSeqFull
      <4> QED
        BY <1>3, <2>3, <3>1, <4>1
    <3>3. k + 1 \in 0..Len(m) /\ SubSeq(m, 1, k + 1) \in Children(n)
      BY <2>3, <3>2, ChildOnTheWay DEF Typing
    <3> QED
      BY <1>1, <3>3 DEF Below
  <2> QED
    BY <2>2, <2>3
<1> QED
  BY <1>1, <1>2, <1>3
  DEF Identifying, Started, Decoded, Calculating, Sourcing, EveryOneIsIdentified

LEMMA NoneIsWithoutSource ==
  ASSUME Typing, Identifying, Loaded
  PROVE  Identifying'
<1>1. \A m \in Inline : Identified(m) /\ ids[m] # NoId /\ m \in srcs
  BY DEF Identifying, Sourcing, Loaded, Below
<1>2. UNCHANGED <<ids, document, srcs>> /\ pc' = "loaded" /\ Inline' = Inline /\ srcs = Inline
  BY <1>1 DEF Loaded, Inline, Typing, TypeOK
<1>3. \A m \in Inline : Identified(m)' /\ ids'[m] # NoId
  BY <1>1, <1>2 DEF Identified, ChildId
<1> QED
  BY <1>2, <1>3 DEF Identifying, Started, Decoded, Calculating, Sourcing, EveryOneIsIdentified

LEMMA IdentifyingInductive ==
  Typing /\ Identifying /\ [Next \/ Stopped]_vars => Identifying'
<1> SUFFICES ASSUME Typing, Identifying, [Next \/ Stopped]_vars PROVE Identifying'
  OBVIOUS
<1> USE DEF Identifying, Started, Decoded, Calculating, Sourcing, EveryOneIsIdentified, Inline
<1>1. CASE OpenFile \/ Request \/ UnsupportedScheme \/ ServerAnswers \/ CancelledWaiting
  BY <1>1 DEF OpenFile, Request, UnsupportedScheme, ServerAnswers, CancelledWaiting
<1>2. CASE Decode \/ DecodeFails \/ NoIdSet
  BY <1>2 DEF Decode, DecodeFails, NoIdSet
<1>3. CASE HasId
  BY <1>3, RootIsIdentified
<1>4. ASSUME NEW n \in todo, CalculateID(n) PROVE Identifying'
  BY <1>4, CalculateIdentifies
<1>5. CASE CalculatedIDs
  BY <1>5, NoneIsWithoutId
<1>6. ASSUME NEW n \in todo, SetSrc(n) PROVE Identifying'
  BY <1>6, SetSrcGoesOn
<1>7. CASE Loaded
  BY <1>7, NoneIsWithoutSource
<1>8. CASE Cancel \/ Stopped \/ UNCHANGED vars
  BY <1>8 DEF Cancel, Stopped, vars, Identified, Waits, Below, ChildId, Children
<1> QED
  BY <1>1, <1>2, <1>3, <1>4, <1>5, <1>6, <1>7, <1>8 DEF Next, Load, Server
-----------------------------------------------------------------------------
(* Induction over Nat.  It is stated of a set and not of a formula, which  *)
(* is what the provers can use: from the minimal element that a            *)
(* well-founded relation gives every set.                                  *)
LEMMA LeastOf ==
  ASSUME NEW T \in SUBSET Nat, T # {}
  PROVE  \E x \in T : \A y \in T : x <= y
<1> DEFINE R == {ss \in Nat \X Nat : ss[1] < ss[2]}
<1>1. \A x, y \in T : y < x => <<y, x>> \in R
  OBVIOUS
<1>2. IsWellFoundedOn(R, Nat)
  BY NatLessThanWellFounded, Zenon DEF OpToRel
<1> HIDE DEF R
<1>3. \E x \in T : \A y \in T : ~ (<<y, x>> \in R)
  BY <1>2, WFMin
<1>4. \A x, y \in T : ~(y < x) => x <= y
  OBVIOUS
<1> QED
  BY <1>1, <1>3, <1>4

LEMMA InductionOnSet ==
  ASSUME NEW S, 0 \in S, \A n \in Nat : n \in S => n + 1 \in S
  PROVE  \A n \in Nat : n \in S
<1> DEFINE T == {n \in Nat : n \notin S}
<1> SUFFICES ASSUME T # {} PROVE FALSE
  OBVIOUS
<1>1. PICK x \in T : \A y \in T : x <= y
  <2>1. T \in SUBSET Nat
    OBVIOUS
  <2> HIDE DEF T
  <2> QED
    BY <2>1, LeastOf
<1>2. x - 1 \in Nat /\ x - 1 \in S
  BY <1>1
<1> QED
  BY <1>2

(* Flattens(h, s): h[i] is the concatenation of the first i of s.  Every   *)
(* sequence of sequences has such an h, and FlattenSeq is its last.        *)
Joined(a, b) == a \o b
Flattens(h, s, k) ==
  /\ h \in [0..k -> Seq(STRING)] /\ h[0] = <<>>
  /\ \A i \in 1..k : h[i] = Joined(h[i - 1], s[i])

LEMMA SomethingFlattens ==
  ASSUME NEW s \in Seq(Seq(STRING))
  PROVE  \E h : Flattens(h, s, Len(s))
<1> DEFINE S == {k \in Nat : k <= Len(s) => \E h : Flattens(h, s, k)}
<1>1. 0 \in S
  <2>1. Flattens([i \in 0..0 |-> <<>>], s, 0)
    BY DEF Flattens
  <2> QED
    BY <2>1
<1>2. ASSUME NEW k \in Nat, k \in S PROVE k + 1 \in S
  <2> SUFFICES ASSUME k + 1 <= Len(s) PROVE \E h : Flattens(h, s, k + 1)
    OBVIOUS
  <2>1. PICK h : Flattens(h, s, k)
    BY <1>2
  <2> DEFINE v == Joined(h[k], s[k + 1])
             g == [i \in 0..(k + 1) |-> IF i = k + 1 THEN v ELSE h[i]]
  <2>2. v \in Seq(STRING)
    <3>1. h[k] \in Seq(STRING) /\ s[k + 1] \in Seq(STRING)
      BY <2>1 DEF Flattens
    <3> QED
      BY <3>1, ConcatProperties DEF Joined
  <2>3. g \in [0..(k + 1) -> Seq(STRING)] /\ g[0] = <<>>
    BY <2>1, <2>2 DEF Flattens
  <2>4. ASSUME NEW i \in 1..(k + 1) PROVE g[i] = Joined(g[i - 1], s[i])
    <3>1. CASE i = k + 1
      BY <3>1
    <3>2. CASE i # k + 1
      BY <3>2, <2>1 DEF Flattens
    <3> QED
      BY <3>1, <3>2
  <2>5. Flattens(g, s, k + 1)
    BY <2>3, <2>4 DEF Flattens
  <2> QED
    BY <2>5
<1> HIDE DEF S
<1>3. Len(s) \in Nat /\ Len(s) \in S
  BY <1>1, <1>2, InductionOnSet
<1> QED
  BY <1>3 DEF S

LEMMA FlattenSeqIsLast ==
  ASSUME NEW s \in Seq(Seq(STRING)), NEW h, Flattens(h, s, Len(s))
  PROVE  FlattenSeq(s) = h[Len(s)]
<1> DEFINE n == Len(s)
           Flat(f) == f = [i \in 1..n |-> IF i = 1 THEN s[i] ELSE Joined(f[i - 1], s[i])]
<1>1. CASE n = 0
  BY <1>1, EmptySeq DEF FlattenSeq, Flattens
<1>2. CASE n # 0
  <2> DEFINE g == [i \in 1..n |-> h[i]]
  <2>1. n \in Nat /\ n >= 1
    BY <1>2
  <2>2. h[1] = s[1]
    <3>1. s[1] \in Seq(STRING) /\ h[1] = Joined(<<>>, s[1])
      BY <2>1 DEF Flattens
    <3> QED
      BY <3>1, ConcatEmptySeq DEF Joined
  <2>3. Flat(g)
    <3>1. \A i \in 1..n : h[i] = IF i = 1 THEN s[i] ELSE Joined(g[i - 1], s[i])
      BY <2>1, <2>2 DEF Flattens
    <3> QED
      BY <3>1
  <2> DEFINE f == CHOOSE f : Flat(f)
  <2>4. Flat(f)
    <3> HIDE DEF Flat
    <3> QED
      BY <2>3
  <2>5. FlattenSeq(s) = f[n]
    BY <1>2 DEF FlattenSeq, Joined
  <2> HIDE DEF f
  <2> DEFINE S == {k \in Nat : k \in 1..n => f[k] = h[k]}
  <2>6. 0 \in S
    OBVIOUS
  <2>7. ASSUME NEW k \in Nat, k \in S PROVE k + 1 \in S
    BY <2>2, <2>4, <2>7 DEF Flattens
  <2> HIDE DEF S
  <2>8. n \in S
    BY <2>1, <2>6, <2>7, InductionOnSet
  <2> QED
    BY <2>1, <2>5, <2>8 DEF S
<1> QED
  BY <1>1, <1>2

LEMMA FlattenSeqAppend ==
  ASSUME NEW s \in Seq(Seq(STRING)), NEW x \in Seq(STRING)
  PROVE  FlattenSeq(Append(s, x)) = FlattenSeq(s) \o x
<1> DEFINE t == Append(s, x)
<1>1. /\ t \in Seq(Seq(STRING)) /\ Len(t) = Len(s) + 1 /\ Len(s) \in Nat
      /\ \A i \in 1..Len(s) : t[i] = s[i]
      /\ t[Len(s) + 1] = x
  BY AppendProperties
<1> HIDE DEF t
<1>2. PICK h : Flattens(h, t, Len(t))
  BY <1>1, SomethingFlattens
<1> DEFINE g == [i \in 0..Len(s) |-> h[i]]
<1>3. Flattens(g, s, Len(s))
  BY <1>1, <1>2 DEF Flattens
<1>4. FlattenSeq(s) = h[Len(s)]
  BY <1>1, <1>3, FlattenSeqIsLast
<1>5. FlattenSeq(t) = h[Len(s) + 1]
  BY <1>1, <1>2, FlattenSeqIsLast
<1>6. h[Len(s) + 1] = h[Len(s)] \o x
  <2>1. Len(s) + 1 \in 1..Len(t) /\ Len(s) + 1 - 1 = Len(s)
    BY <1>1
  <2>2. h[Len(s) + 1] = Joined(h[Len(s) + 1 - 1], t[Len(s) + 1])
    BY <1>2, <2>1 DEF Flattens
  <2>3. h[Len(s) + 1] = Joined(h[Len(s)], x)
    BY <1>1, <2>1, <2>2
  <2> QED
    BY <2>3 DEF Joined
<1> QED
  BY <1>4, <1>5, <1>6 DEF t
-----------------------------------------------------------------------------
(* StatesAbove(n, k): the schema k keys down to n states an ID, and none   *)
(* from there down to n does.  k is then the one that Nearest chooses.     *)
StatesAbove(n, k) ==
  /\ k \in 0..Len(n) /\ document.stated[SubSeq(n, 1, k)] # NoId
  /\ \A j \in (k + 1)..Len(n) : document.stated[SubSeq(n, 1, j)] = NoId

LEMMA NearestStates ==
  ASSUME NEW n \in Inline, n \in Seq(Seq(STRING)), NEW k, StatesAbove(n, k)
  PROVE  Nearest(n) = k
<1>1. StatesAbove(n, Nearest(n))
  BY DEF StatesAbove, Nearest
<1>2. \A i, j \in 0..Len(n) : i < j => ~(StatesAbove(n, i) /\ StatesAbove(n, j))
  BY DEF StatesAbove
<1>3. k \in 0..Len(n) /\ Nearest(n) \in 0..Len(n) /\ Len(n) \in Nat
  BY <1>1 DEF StatesAbove
<1> QED
  BY <1>1, <1>2, <1>3

(* What states its own ID has it.                                          *)
LEMMA StatedIsWhole ==
  ASSUME Typing, NEW n \in Inline, Identified(n), document.stated[n] # NoId
  PROVE  StatesAbove(n, Len(n)) /\ ids[n] = IdFrom(n, Len(n))
<1>1. n \in Seq(Seq(STRING)) /\ Len(n) \in Nat /\ SubSeq(n, 1, Len(n)) = n
  BY InlineIsClosed, SubSeqFull DEF Typing
<1>2. StatesAbove(n, Len(n))
  <2>1. Len(n) \in 0..Len(n) /\ (Len(n) + 1)..Len(n) = {}
    BY <1>1
  <2>2. document.stated[SubSeq(n, 1, Len(n))] # NoId
    BY <1>1
  <2> QED
    BY <2>1, <2>2 DEF StatesAbove
<1> QED
  BY <1>1, <1>2 DEF IdFrom, Identified

(* What does not goes by what its parent goes by, one key further.         *)
LEMMA UnstatedIsWhole ==
  ASSUME Typing, NEW n \in Inline, Identified(n), document.stated[n] = NoId,
         NEW k, StatesAbove(Parent(n), k), ids[Parent(n)] = IdFrom(Parent(n), k)
  PROVE  StatesAbove(n, k) /\ ids[n] = IdFrom(n, k)
<1> DEFINE p == Parent(n)
<1>1. n # Root /\ ids[p] # NoId /\ ids[n] = ChildId(p, n)
  BY DEF Identified
<1>2. p \in Inline /\ n \in Children(p)
  BY <1>1, ChildOfParent DEF Typing
<1>3. /\ n \in Seq(Seq(STRING)) /\ p \in Seq(Seq(STRING)) /\ Len(p) \in Nat
      /\ Len(n) = Len(p) + 1 /\ n[Len(n)] \in Seq(STRING)
  <2>1. n \in Seq(Seq(STRING)) /\ p \in Seq(Seq(STRING)) /\ Len(n) = Len(p) + 1
    BY <1>2, InlineIsClosed DEF Typing, Children
  <2>2. Len(n) \in 1..Len(n)
    BY <2>1
  <2> QED
    BY <2>1, <2>2, ElementOfSeq
<1>4. \A j \in 0..Len(p) : SubSeq(p, 1, j) = SubSeq(n, 1, j)
  <2> SUFFICES ASSUME NEW j \in 0..Len(p) PROVE SubSeq(p, 1, j) = SubSeq(n, 1, j)
    OBVIOUS
  <2>1. CASE j = 0
    BY <2>1, <1>3, SubSeqEmpty
  <2>2. CASE j # 0
    <3>1. 1 \in 1..Len(n) /\ Len(p) \in 1..Len(n)
      BY <1>3, <2>2
    <3>2. 1 \in 1..(Len(p) - 1 + 1) /\ j \in 1..(Len(p) - 1 + 1)
      BY <1>3, <2>2
    <3>3. SubSeq(SubSeq(n, 1, Len(p)), 1, j) = SubSeq(n, 1 + 1 - 1, 1 + j - 1)
      BY <3>1, <3>2, <1>3, SubSeqOfSubSeq
    <3>4. p = SubSeq(n, 1, Len(p)) /\ 1 + 1 - 1 = 1 /\ 1 + j - 1 = j
      BY <1>3 DEF Parent
    <3> HIDE DEF p
    <3> QED
      BY <3>3, <3>4
  <2> QED
    BY <2>1, <2>2
<1> HIDE DEF p
<1>5. k \in 0..Len(p) /\ k \in Nat
  BY <1>3 DEF StatesAbove, p
<1>6. StatesAbove(n, k)
  <2>1. SubSeq(n, 1, Len(n)) = n
    BY <1>3, SubSeqFull
  <2>2. \A j \in (k + 1)..Len(n) : j = Len(n) \/ (j \in (k + 1)..Len(p) /\ j \in 0..Len(p))
    BY <1>3, <1>5
  <2>3. StatesAbove(p, k)
    BY DEF p
  <2>4. \A j \in (k + 1)..Len(n) : document.stated[SubSeq(n, 1, j)] = NoId
    BY <1>4, <2>1, <2>2, <2>3 DEF StatesAbove
  <2>5. document.stated[SubSeq(n, 1, k)] # NoId
    BY <1>4, <1>5, <2>3 DEF StatesAbove
  <2> QED
    BY <1>3, <1>5, <2>4, <2>5 DEF StatesAbove
<1> DEFINE s == SubSeq(p, k + 1, Len(p))
           x == n[Len(n)]
<1>7. s \in Seq(Seq(STRING)) /\ SubSeq(n, k + 1, Len(n)) = Append(s, x)
  <2>1. \A i \in (k + 1)..Len(p) : p[i] = n[i] /\ p[i] \in Seq(STRING)
    <3>1. p = SubSeq(n, 1, Len(p)) /\ \A i \in 1..Len(p) : n[i] \in Seq(STRING)
      BY <1>3 DEF p, Parent
    <3>2. \A i \in 1..(Len(p) - 1 + 1) : SubSeq(n, 1, Len(p))[i] = n[1 + i - 1]
      BY <1>3, <3>1, SubSeqProperties
    <3>3. \A i \in 1..Len(p) : p[i] = n[1 + i - 1]
      BY <1>3, <3>1, <3>2
    <3> QED
      BY <1>3, <1>5, <3>1, <3>3
  <2>2. s \in Seq(Seq(STRING)) /\ SubSeq(n, k + 1, Len(p)) = s
    <3>1. s \in Seq(Seq(STRING))
      BY <1>3, <1>5, <2>1, SubSeqProperties
    <3>2. SubSeq(n, k + 1, Len(p)) = s
      BY <1>3, <1>5, <2>1
    <3> QED
      BY <3>1, <3>2
  <2>3. k + 1 \in 1..Len(n) /\ Len(n) \in (k + 1)..Len(n) /\ Len(n) - 1 = Len(p)
    BY <1>3, <1>5
  <2>4. SubSeq(n, k + 1, Len(n)) = SubSeq(n, k + 1, Len(n) - 1) \o <<x>>
    BY <1>3, <2>3, SubSeqRecursiveSecond
  <2> HIDE DEF s
  <2>5. SubSeq(n, k + 1, Len(n)) = s \o <<x>>
    BY <2>2, <2>3, <2>4
  <2>6. Append(s, x) = s \o <<x>>
    BY <1>3, <2>2, AppendIsConcat
  <2> QED
    BY <2>2, <2>5, <2>6
<1> HIDE DEF s
<1>8. FlattenSeq(SubSeq(n, k + 1, Len(n))) = FlattenSeq(s) \o x
  BY <1>3, <1>7, FlattenSeqAppend
<1> DEFINE base == document.stated[SubSeq(n, 1, k)]
<1>9. base \in Id
  BY <1>3, <1>5, <1>6, InlineIsClosed DEF StatesAbove, Typing, IdOrNone
<1>10. FlattenSeq(s) \in Seq(STRING)
  <2>1. PICK h : Flattens(h, s, Len(s))
    BY <1>7, SomethingFlattens
  <2>2. FlattenSeq(s) = h[Len(s)] /\ Len(s) \in 0..Len(s)
    BY <1>7, <2>1, FlattenSeqIsLast
  <2> QED
    BY <2>1, <2>2 DEF Flattens
<1>11. base.fragment \in Seq(STRING) /\ base.url \in Urls /\ x \in Seq(STRING)
  BY <1>3, <1>9 DEF Id
<1>12. /\ Resolved[ids[p].url] = Resolved[base.url]
       /\ ids[p].fragment = base.fragment \o FlattenSeq(s)
  <2>1. SubSeq(p, 1, k) = SubSeq(n, 1, k) /\ ids[p] = IdFrom(p, k)
    BY <1>4, <1>5 DEF p
  <2>2. CASE k = Len(p)
    <3>1. ids[p] = base
      BY <2>1, <2>2 DEF IdFrom
    <3>2. FlattenSeq(s) = <<>>
      BY <1>3, <2>2, SubSeqEmpty DEF s, FlattenSeq
    <3> QED
      BY <1>11, <3>1, <3>2, ConcatEmptySeq
  <2>3. CASE k # Len(p)
    <3>1. ids[p] = [url |-> Resolved[base.url], fragment |-> base.fragment \o FlattenSeq(s)]
      BY <2>1, <2>3 DEF IdFrom, s
    <3> QED
      BY <1>11, <3>1, ResolvedAssumption
  <2> QED
    BY <2>2, <2>3
<1>13. ids[n] = [url |-> Resolved[base.url], fragment |-> base.fragment \o (FlattenSeq(s) \o x)]
  <2>1. ids[n] = [url |-> Resolved[ids[p].url], fragment |-> ids[p].fragment \o x]
    BY <1>1 DEF ChildId, p
  <2>2. \A a, b, c \in Seq(STRING) : (a \o b) \o c = a \o (b \o c)
    BY ConcatAssociative
  <2>3. (base.fragment \o FlattenSeq(s)) \o x = base.fragment \o (FlattenSeq(s) \o x)
    BY <1>10, <1>11, <2>2
  <2>4. ids[p].fragment \o x = base.fragment \o (FlattenSeq(s) \o x)
    BY <1>12, <2>3
  <2> QED
    BY <1>12, <2>1, <2>4
<1>14. k # Len(n)
  BY <1>3, <1>5
<1> QED
  BY <1>6, <1>8, <1>13, <1>14 DEF IdFrom

LEMMA IdentifiedIsWhole ==
  ASSUME Typing, EveryOneIsIdentified
  PROVE  LoadedIsWhole
<1> SUFFICES ASSUME pc = "loaded"
             PROVE  \A n \in Inline : ids[n] = IdFrom(n, Nearest(n))
  BY DEF LoadedIsWhole, EveryOneIsIdentified
<1> DEFINE Whole(n) == \E k : StatesAbove(n, k) /\ ids[n] = IdFrom(n, k)
           S == {m \in Nat : \A n \in Inline : Len(n) = m => Whole(n)}
<1>1. \A n \in Inline : n \in Seq(Seq(STRING)) /\ Len(n) \in Nat /\ Identified(n)
  BY InlineIsClosed DEF EveryOneIsIdentified, Typing
<1>2. 0 \in S
  <2> SUFFICES ASSUME NEW n \in Inline, Len(n) = 0 PROVE Whole(n)
    OBVIOUS
  <2>1. n = Root
    BY <1>1, EmptySeq DEF Root
  <2> QED
    BY <1>1, <2>1, StatedIsWhole DEF Identified
<1>3. ASSUME NEW m \in Nat, m \in S PROVE m + 1 \in S
  <2> SUFFICES ASSUME NEW n \in Inline, Len(n) = m + 1 PROVE Whole(n)
    OBVIOUS
  <2>1. CASE document.stated[n] # NoId
    BY <1>1, <2>1, StatedIsWhole
  <2>2. CASE document.stated[n] = NoId
    <3>1. n # Root
      BY <1>1, <2>2 DEF Identified
    <3>2. Parent(n) \in Inline /\ Len(Parent(n)) = m
      BY <1>1, <3>1, ChildOfParent DEF Typing, Children
    <3>3. Whole(Parent(n))
      BY <1>3, <3>2
    <3> QED
      BY <1>1, <2>2, <3>3, UnstatedIsWhole
  <2> QED
    BY <2>1, <2>2
<1> HIDE DEF S
<1>4. \A m \in Nat : m \in S
  BY <1>2, <1>3, InductionOnSet
<1>5. \A n \in Inline : Whole(n)
  BY <1>1, <1>4 DEF S
<1> QED
  BY <1>1, <1>5, NearestStates
-----------------------------------------------------------------------------
LEMMA Invariance == Spec => [](Typing /\ NothingLeftOpen /\ Identifying)
<1>1. Init => Typing /\ NothingLeftOpen /\ Identifying
  BY TypingInit DEF Init, NothingLeftOpen, Returned, Identifying, Started, Decoded,
                    Calculating, Sourcing, EveryOneIsIdentified
<1>2. Typing /\ NothingLeftOpen /\ Identifying /\ [Next \/ Stopped]_vars
        => (Typing /\ NothingLeftOpen /\ Identifying)'
  BY TypingInductive, OpenIsClosed, IdentifyingInductive DEF Typing, Identifying
<1> QED
  BY <1>1, <1>2, PTL DEF Spec

(* The variables keep their types, for documents of any size.              *)
THEOREM TypeCorrect == Spec => []TypeOK
<1>1. Typing => TypeOK
  BY DEF Typing
<1> QED
  BY <1>1, Invariance, PTL

(* On every way out of Load, what was opened has been closed.              *)
THEOREM BodyIsClosed == Spec => []NothingLeftOpen
BY Invariance, PTL

(* What Load returns has a source and the right ID everywhere, however     *)
(* deep: by induction on the keys that lead to a schema.                   *)
THEOREM LoadedSchemasAreWhole == Spec => []LoadedIsWhole
<1>1. Typing /\ Identifying => LoadedIsWhole
  BY IdentifiedIsWhole DEF Identifying
<1> QED
  BY <1>1, Invariance, PTL

(* No schema that Load returns has a nil ID or Src.                        *)
THEOREM EverySchemaIsIdentified == Spec => []EveryOneIsIdentified
<1>1. Identifying => EveryOneIsIdentified
  BY DEF Identifying
<1> QED
  BY <1>1, Invariance, PTL
-----------------------------------------------------------------------------
(* What is still ahead of a Load: its stages, the schemas that calculateID *)
(* and then setSrc are to visit or that are below one of these, and the    *)
(* caller's one cancellation.                                              *)
Stage == [open |-> 0, wait |-> 1, decode |-> 2, identify |-> 3, calculate |-> 4,
          source |-> 5, loaded |-> 6, failed |-> 6]
LastStage == 6
StagesAhead == (Stage[pc] + 1)..LastStage
AheadIn(stage) == IF Stage[pc] < Stage[stage] THEN Inline
                  ELSE IF pc = stage THEN {n \in Inline : Below(n)} ELSE {}
CancelAhead == IF cancelled THEN {} ELSE {"cancel"}
Ahead == <<StagesAhead, AheadIn("calculate"), AheadIn("source"), CancelAhead>>

(* A step takes something from one of these sets and adds to none.         *)
Shrinks == /\ \A i \in 1..4 : Ahead'[i] \subseteq Ahead[i]
           /\ \E i \in 1..4 : Ahead'[i] # Ahead[i]

(* No schema that is to be visited is below another one that is: so each   *)
(* goes to it once, though calculateID goes down to children that state an *)
(* ID as well.                                                             *)
Apart == \A n \in todo : \A k \in 0..(Len(n) - 1) : SubSeq(n, 1, k) \notin todo

LEMMA PrefixOfPrefix ==
  ASSUME document \in Documents, NEW n \in Inline, NEW k \in 0..Len(n), NEW j \in 0..k
  PROVE  /\ Len(n) \in Nat /\ Len(SubSeq(n, 1, k)) = k
         /\ SubSeq(SubSeq(n, 1, k), 1, j) = SubSeq(n, 1, j)
<1>1. n \in Seq(Seq(STRING)) /\ Len(n) \in Nat
  BY InlineIsClosed
<1> DEFINE p == SubSeq(n, 1, k)
<1>2. /\ p \in Seq(Seq(STRING)) /\ Len(p) = k
      /\ \A i \in 1..k : p[i] = n[i]
  <2>1. \A i \in 1..Len(n) : n[i] \in Seq(STRING)
    BY <1>1
  <2>2. k \in Int /\ k <= Len(n) /\ k >= 0
    BY <1>1
  <2>3. p = [i \in 1..k |-> n[i]]
    BY <1>1, <2>2
  <2> QED
    BY <2>1, <2>2, <2>3
<1>3. SubSeq(p, 1, j) = [i \in 1..j |-> p[i]] /\ SubSeq(n, 1, j) = [i \in 1..j |-> n[i]]
  BY <1>1, <1>2
<1> QED
  BY <1>1, <1>2, <1>3

(* What visiting n does to the schemas that are to be visited: no prefix   *)
(* of n is any more, and whatever is below one now was before.             *)
LEMMA VisitingShrinks ==
  ASSUME Typing, Apart, NEW n \in todo,
         todo' = (todo \ {n}) \union Children(n), document' = document
  PROVE  /\ Apart'
         /\ n \in Inline /\ Below(n) /\ ~Below(n)'
         /\ \A m \in Inline : Below(m)' => Below(m)
<1>1. /\ document \in Documents /\ n \in Inline /\ todo \subseteq Inline
      /\ n \in Seq(Seq(STRING)) /\ Len(n) \in Nat
      /\ todo' = (todo \ {n}) \union Children(n)
  BY InlineIsClosed DEF Typing, TypeOK
<1>2. /\ \A c \in Children(n) : /\ c \in Inline /\ c \in Seq(Seq(STRING)) /\ Len(c) = Len(n) + 1
                                /\ SubSeq(c, 1, Len(n)) = n
      /\ n \notin Children(n)
  BY <1>1, InlineIsClosed DEF Children
<1>3. SubSeq(n, 1, Len(n)) = n
  BY <1>1
(* Whose prefix is a child of n has n for a prefix.                        *)
<1>4. ASSUME NEW m \in Inline, NEW k \in 0..Len(m), SubSeq(m, 1, k) \in Children(n)
      PROVE  k = Len(n) + 1 /\ Len(m) \in Nat /\ SubSeq(m, 1, Len(n)) = n
  <2>1. Len(m) \in Nat /\ Len(SubSeq(m, 1, k)) = k
    <3>1. m \in Seq(Seq(STRING))
      BY <1>1, InlineIsClosed
    <3>2. 0 \in 0..k
      BY <3>1
    <3> QED
      BY <1>1, <3>2, PrefixOfPrefix
  <2>2. k = Len(n) + 1 /\ SubSeq(SubSeq(m, 1, k), 1, Len(n)) = n
    BY <1>2, <1>4, <2>1
  <2>3. Len(n) \in 0..k
    BY <1>1, <2>2
  <2> QED
    BY <1>1, <2>1, <2>2, <2>3, PrefixOfPrefix
<1>5. ASSUME NEW k \in 0..Len(n) PROVE SubSeq(n, 1, k) \notin todo'
  <2>1. SubSeq(n, 1, k) \notin Children(n)
    BY <1>1, <1>4
  <2>2. CASE k = Len(n)
    BY <1>1, <1>2, <1>3, <2>2
  <2>3. CASE k \in 0..(Len(n) - 1)
    BY <1>1, <2>1, <2>3 DEF Apart
  <2> QED
    BY <1>1, <2>2, <2>3
<1>6. Apart'
  <2> SUFFICES ASSUME NEW m \in todo', NEW k \in 0..(Len(m) - 1)
               PROVE  SubSeq(m, 1, k) \notin todo'
    BY DEF Apart
  <2>0. m \in Inline /\ Len(m) \in Nat /\ k \in 0..Len(m)
    <3>1. m \in Inline
      BY <1>1, <1>2
    <3>2. m \in Seq(Seq(STRING))
      BY <1>1, <3>1, InlineIsClosed
    <3> QED
      BY <3>1, <3>2
  <2>1. CASE m \in Children(n)
    <3>1. Len(m) = Len(n) + 1 /\ SubSeq(m, 1, Len(n)) = n /\ k \in 0..Len(n)
      BY <1>1, <1>2, <2>1
    <3>2. SubSeq(n, 1, k) = SubSeq(m, 1, k)
      <4>1. Len(n) \in 0..Len(m)
        BY <1>1, <3>1
      <4> QED
        BY <1>1, <2>0, <3>1, <4>1, PrefixOfPrefix
    <3> QED
      BY <1>5, <3>1, <3>2
  <2>2. CASE m \in todo
    <3>1. \A j \in 0..(Len(m) - 1) : SubSeq(m, 1, j) \notin todo
      BY <2>2 DEF Apart
    <3>2. CASE SubSeq(m, 1, k) \in Children(n)
      <4>1. k = Len(n) + 1 /\ SubSeq(m, 1, Len(n)) = n
        BY <1>4, <2>0, <3>2
      <4>2. Len(n) \in 0..(Len(m) - 1)
        BY <1>1, <2>0, <4>1
      <4> QED
        BY <3>1, <4>1, <4>2
    <3> QED
      BY <1>1, <3>1, <3>2
  <2> QED
    BY <1>1, <2>1, <2>2
<1>7. ASSUME NEW m \in Inline, Below(m)' PROVE Below(m)
  <2>1. PICK k \in 0..Len(m) : SubSeq(m, 1, k) \in todo'
    BY <1>7 DEF Below
  <2>2. CASE SubSeq(m, 1, k) \in Children(n)
    <3>1. k = Len(n) + 1 /\ Len(m) \in Nat /\ SubSeq(m, 1, Len(n)) = n
      BY <1>4, <2>2
    <3>2. Len(n) \in 0..Len(m)
      BY <1>1, <3>1
    <3> QED
      BY <3>1, <3>2 DEF Below
  <2> QED
    BY <1>1, <2>1, <2>2 DEF Below
<1>8. Below(n) /\ ~Below(n)'
  <2>1. Len(n) \in 0..Len(n)
    BY <1>1
  <2> QED
    BY <1>3, <1>5, <2>1 DEF Below
<1> QED
  BY <1>1, <1>6, <1>7, <1>8

(* The steps but those of calculateID and setSrc for a schema and of the   *)
(* caller.                                                                 *)
Passage == \/ OpenFile \/ Request \/ UnsupportedScheme \/ CancelledWaiting
           \/ ServerAnswers \/ Decode \/ DecodeFails \/ NoIdSet \/ HasId
           \/ CalculatedIDs \/ Loaded

LEMMA PassageShrinks ==
  ASSUME Typing, Started, Apart, Passage
  PROVE  Apart' /\ Shrinks
<1> USE DEF OpenFile, Request, UnsupportedScheme, CancelledWaiting, ServerAnswers, Decode,
            DecodeFails, NoIdSet, HasId, CalculatedIDs, Loaded, Passage, Typing, TypeOK, Returned
<1>1. /\ Stage[pc] \in 0..5 /\ Stage[pc'] \in 0..6 /\ Stage[pc] < Stage[pc']
      /\ Stage["calculate"] = 4 /\ Stage["source"] = 5
  BY DEF Stage
<1>2. StagesAhead' \subseteq StagesAhead /\ StagesAhead' # StagesAhead
  <2>1. Stage[pc'] \in StagesAhead /\ Stage[pc'] \notin StagesAhead'
    BY <1>1 DEF StagesAhead, LastStage
  <2> QED
    BY <1>1, <2>1 DEF StagesAhead, LastStage
<1>3. /\ Inline' = Inline /\ cancelled' = cancelled
      /\ todo' = todo \/ todo' = {Root}
  BY DEF Inline
<1>4. ASSUME NEW stage \in {"calculate", "source"}
      PROVE  AheadIn(stage)' \subseteq AheadIn(stage)
  <2>1. CASE Stage[pc] < Stage[stage]
    BY <1>3, <2>1 DEF AheadIn
  <2>2. CASE ~(Stage[pc] < Stage[stage])
    <3>1. pc' # stage /\ ~(Stage[pc'] < Stage[stage])
      BY <1>1, <1>4, <2>2
    <3> QED
      BY <3>1 DEF AheadIn
  <2> QED
    BY <2>1, <2>2
<1>5. Apart'
  <2>1. Len(Root) = 0
    BY DEF Root
  <2> QED
    BY <1>3, <2>1 DEF Apart
<1> QED
  BY <1>2, <1>3, <1>4, <1>5 DEF Shrinks, Ahead, CancelAhead

(* One turn of calculateID, or of setSrc, for n.                           *)
LEMMA TurnShrinks ==
  ASSUME Typing, Apart, NEW n \in todo, CalculateID(n) \/ SetSrc(n)
  PROVE  Apart' /\ Shrinks
<1>1. /\ pc \in {"calculate", "source"} /\ UNCHANGED <<pc, document, cancelled>>
      /\ todo' = (todo \ {n}) \union Children(n) /\ Inline' = Inline
  BY DEF CalculateID, Visited, SetSrc, Sourced, Inline
<1>2. /\ Apart' /\ n \in Inline /\ Below(n) /\ ~Below(n)'
      /\ \A m \in Inline : Below(m)' => Below(m)
  BY <1>1, VisitingShrinks
<1>3. Stage["calculate"] < Stage["source"] /\ \A stage : ~(Stage[pc] < Stage[pc])
  BY <1>1 DEF Stage
<1>4. AheadIn(pc)' \subseteq AheadIn(pc) /\ AheadIn(pc)' # AheadIn(pc)
  BY <1>1, <1>2, <1>3 DEF AheadIn
<1>5. ASSUME NEW stage \in {"calculate", "source"}, stage # pc
      PROVE  AheadIn(stage)' = AheadIn(stage)
  BY <1>1, <1>5 DEF AheadIn
<1>6. UNCHANGED <<StagesAhead, CancelAhead>>
  BY <1>1 DEF StagesAhead, CancelAhead
<1>7. /\ Ahead'[1] = Ahead[1] /\ Ahead'[4] = Ahead[4]
      /\ Ahead[2] = AheadIn("calculate") /\ Ahead'[2] = AheadIn("calculate")'
      /\ Ahead[3] = AheadIn("source") /\ Ahead'[3] = AheadIn("source")'
  BY <1>6 DEF Ahead
<1>8. CASE pc = "calculate"
  <2>1. Ahead'[2] \subseteq Ahead[2] /\ Ahead'[2] # Ahead[2] /\ Ahead'[3] = Ahead[3]
    BY <1>1, <1>4, <1>5, <1>7, <1>8
  <2> QED
    BY <1>2, <1>7, <2>1 DEF Shrinks
<1>9. CASE pc = "source"
  <2>1. Ahead'[3] \subseteq Ahead[3] /\ Ahead'[3] # Ahead[3] /\ Ahead'[2] = Ahead[2]
    BY <1>1, <1>4, <1>5, <1>7, <1>9
  <2> QED
    BY <1>2, <1>7, <2>1 DEF Shrinks
<1> QED
  BY <1>1, <1>8, <1>9

LEMMA StepShrinks ==
  ASSUME Typing, Started, Apart, Next
  PROVE  Apart' /\ Shrinks
<1>1. CASE Passage
  BY <1>1, PassageShrinks
<1>2. ASSUME NEW n \in todo, CalculateID(n) \/ SetSrc(n) PROVE Apart' /\ Shrinks
  BY <1>2, TurnShrinks
<1>3. CASE Cancel
  <2>1. CancelAhead = {"cancel"} /\ CancelAhead' = {}
    BY <1>3 DEF Cancel, CancelAhead
  <2>2. Apart' /\ UNCHANGED StagesAhead
    BY <1>3 DEF Cancel, Apart, StagesAhead
  <2>3. \A stage : AheadIn(stage)' = AheadIn(stage)
    <3>1. UNCHANGED <<pc, todo>> /\ Inline' = Inline
      BY <1>3 DEF Cancel, Inline
    <3>2. \A n : Below(n)' <=> Below(n)
      BY <3>1 DEF Below
    <3> QED
      BY <3>1, <3>2 DEF AheadIn
  <2> QED
    BY <2>1, <2>2, <2>3 DEF Shrinks, Ahead
<1> QED
  BY <1>1, <1>2, <1>3 DEF Next, Load, Server, Passage

LEMMA AheadIsFinite ==
  ASSUME Typing, \A d \in Documents : IsFiniteSet(d.nodes)
  PROVE  \A i \in 1..4 : IsFiniteSet(Ahead[i])
<1>1. IsFiniteSet(StagesAhead)
  <2>1. Stage[pc] + 1 \in Int /\ LastStage \in Int
    BY DEF Stage, LastStage, Typing, TypeOK, Returned
  <2> QED
    BY <2>1, FS_Interval DEF StagesAhead
<1>2. \A stage : IsFiniteSet(AheadIn(stage))
  <2>1. IsFiniteSet(Inline)
    BY DEF Typing, Inline
  <2>2. \A stage : AheadIn(stage) \subseteq Inline
    BY DEF AheadIn
  <2> QED
    BY <2>1, <2>2, FS_Subset
<1>3. IsFiniteSet(CancelAhead)
  BY FS_EmptySet, FS_Singleton DEF CancelAhead
<1> QED
  BY <1>1, <1>2, <1>3 DEF Ahead

(* A Load runs out: of a document, which is finite, calculateID and setSrc *)
(* visit every schema once, however deep, and nothing is tried again.  What      *)
(* CancelledReturns asks for besides is that it goes on while it can.      *)
THEOREM LoadRunsOut ==
  ASSUME \A d \in Documents : IsFiniteSet(d.nodes)
  PROVE  Spec => [][/\ \A i \in 1..4 : IsFiniteSet(Ahead[i])
                    /\ Shrinks]_vars
<1>1. Init => Apart
  BY DEF Init, Apart
<1>2. /\ Typing /\ Identifying /\ Apart /\ [Next \/ Stopped]_vars
      => /\ Apart'
         /\ [(\A i \in 1..4 : IsFiniteSet(Ahead[i])) /\ Shrinks]_vars
  <2> SUFFICES ASSUME Typing, Identifying, Apart, [Next \/ Stopped]_vars
               PROVE  /\ Apart'
                      /\ [(\A i \in 1..4 : IsFiniteSet(Ahead[i])) /\ Shrinks]_vars
    OBVIOUS
  <2>1. CASE Next
    BY <2>1, StepShrinks, AheadIsFinite DEF Identifying
  <2>2. CASE UNCHANGED vars
    BY <2>2 DEF vars, Apart
  <2> QED
    BY <2>1, <2>2 DEF Stopped
<1> QED
  BY <1>1, <1>2, Invariance, PTL DEF Spec
=============================================================================
