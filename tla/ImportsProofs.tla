---------------------------- MODULE ImportsProofs ----------------------------
(***************************************************************************)
(* Proofs about Imports.  The aliases are never changed once made, so the  *)
(* invariant is that they are those of Imported, and that what is printed  *)
(* was looked up in them, and is a base where they do not have it.  That   *)
(* no two packages of one base share a name is a matter of counting: UpTo  *)
(* grows with every path, and Rank with it.                                *)
(***************************************************************************)
EXTENDS Imports, FiniteSetTheorems, TLAPS

USE DEF BuiltinPath

AliasesMade == pc = "print" => aliases = [p \in Imported |-> Alias(p)]
PrintedAliases == \A q \in printed : q[2] = Qualifier(q[1])

IInv == TypeOK /\ AliasesMade /\ PrintedAliases
-----------------------------------------------------------------------------
(* The paths up to p are among the imported ones, p is one of them, and    *)
(* there are at most as many as there are paths.                           *)
LEMMA RankIsCount ==
  ASSUME deps \subseteq Paths \union {BuiltinPath}, NEW p \in Imported
  PROVE  /\ p \in Paths /\ UpTo(p) \subseteq Paths /\ IsFiniteSet(UpTo(p)) /\ p \in UpTo(p)
         /\ Rank(p) \in 1..Cardinality(Paths)
<1>1. Imported \subseteq Paths
  BY DEF Imported
<1>2. UpTo(p) \subseteq Paths /\ p \in UpTo(p)
  <2>1. p \in Imported /\ p \in Nat
    BY <1>1, PathsAreRanks
  <2>2. p <= p
    BY <2>1
  <2> QED  BY <1>1, <2>1, <2>2, Zenon DEF UpTo
<1>3. IsFiniteSet(UpTo(p)) /\ Cardinality(UpTo(p)) <= Cardinality(Paths)
  BY <1>2, PathsAreRanks, FS_Subset
<1>4. Cardinality(UpTo(p)) \in Nat /\ Cardinality(Paths) \in Nat
  BY <1>3, PathsAreRanks, FS_CardinalityType
<1>5. Cardinality(UpTo(p)) # 0
  BY <1>2, <1>3, FS_EmptySet
<1> QED
  BY <1>1, <1>2, <1>3, <1>4, <1>5 DEF Rank

(* Every alias is a name.                                                  *)
LEMMA AliasIsName ==
  ASSUME deps \subseteq Paths \union {BuiltinPath}, NEW p \in Imported
  PROVE  Alias(p) \in Names
<1>1. p \in Paths /\ Rank(p) \in 1..Cardinality(Paths)
  BY RankIsCount
<1>2. Base[p] \in Bases /\ Base[p] \in Names
  BY <1>1, BaseIsName
<1>3. CASE Rank(p) < 2
  BY <1>2, <1>3 DEF Alias
<1>4. CASE ~(Rank(p) < 2)
  <2>1. Rank(p) \in Numbers
    <3>1. Cardinality(Paths) \in Nat
      BY PathsAreRanks, FS_CardinalityType
    <3> QED  BY <1>1, <1>4, <3>1 DEF Numbers
  <2>2. Numbered[Base[p]][Rank(p)] \in Names
    BY <2>1, <1>2, NumberedIsName
  <2> QED  BY <2>2, <1>4 DEF Alias
<1> QED  BY <1>3, <1>4

(* Of two paths of one base the later has the higher rank.                 *)
LEMMA RankGrows ==
  ASSUME deps \subseteq Paths \union {BuiltinPath},
         NEW p \in Imported, NEW q \in Imported, Base[p] = Base[q], p < q
  PROVE  Rank(p) < Rank(q)
<1>1. p \in Nat /\ q \in Nat
  BY RankIsCount, PathsAreRanks
<1>2. UpTo(p) \subseteq UpTo(q)
  <2> SUFFICES ASSUME NEW r \in UpTo(p) PROVE r \in UpTo(q)
    OBVIOUS
  <2>1. r \in Nat
    BY RankIsCount, PathsAreRanks
  <2> QED  BY <1>1, <2>1 DEF UpTo
<1>3. q \in UpTo(q) /\ q \notin UpTo(p)
  BY <1>1, RankIsCount DEF UpTo
<1>4. /\ IsFiniteSet(UpTo(q)) /\ IsFiniteSet(UpTo(p))
      /\ Cardinality(UpTo(p)) <= Cardinality(UpTo(q))
      /\ Cardinality(UpTo(p)) = Cardinality(UpTo(q)) => UpTo(p) = UpTo(q)
  BY <1>2, RankIsCount, FS_Subset
<1>5. Cardinality(UpTo(p)) \in Nat /\ Cardinality(UpTo(q)) \in Nat
  BY <1>4, FS_CardinalityType
<1> QED  BY <1>3, <1>4, <1>5 DEF Rank

(* Two paths of one base with one alias have one rank: the first goes by   *)
(* the base itself, and a number makes a name of its own.                  *)
LEMMA AliasTellsRank ==
  ASSUME deps \subseteq Paths \union {BuiltinPath},
         NEW p \in Imported, NEW q \in Imported,
         Base[p] = Base[q], Alias(p) = Alias(q)
  PROVE  Rank(p) = Rank(q)
<1>1. Cardinality(Paths) \in Nat
  BY PathsAreRanks, FS_CardinalityType
<1>2. /\ Rank(p) \in 1..Cardinality(Paths) /\ Rank(q) \in 1..Cardinality(Paths)
      /\ Base[p] \in Bases
  BY RankIsCount, BaseIsName
<1>3. /\ Rank(p) = 1 \/ Rank(p) \in Numbers
      /\ Rank(q) = 1 \/ Rank(q) \in Numbers
  BY <1>1, <1>2 DEF Numbers
<1>4. \A k \in Numbers : k \in Nat /\ ~(k < 2)
  BY <1>1 DEF Numbers
<1>5. CASE Rank(p) = 1 /\ Rank(q) = 1
  BY <1>5
<1>6. CASE Rank(p) = 1 /\ Rank(q) \in Numbers
  <2>1. Alias(p) = Base[p] /\ Alias(q) = Numbered[Base[p]][Rank(q)]
    BY <1>4, <1>6 DEF Alias
  <2> QED  BY <1>2, <1>6, <2>1, NumberedIsNew
<1>7. CASE Rank(p) \in Numbers /\ Rank(q) = 1
  <2>1. Alias(q) = Base[p] /\ Alias(p) = Numbered[Base[p]][Rank(p)]
    BY <1>4, <1>7 DEF Alias
  <2> QED  BY <1>2, <1>7, <2>1, NumberedIsNew
<1>8. CASE Rank(p) \in Numbers /\ Rank(q) \in Numbers
  <2>1. /\ Alias(p) = Numbered[Base[p]][Rank(p)]
        /\ Alias(q) = Numbered[Base[p]][Rank(q)]
    BY <1>4, <1>8 DEF Alias
  <2> QED  BY <1>2, <1>8, <2>1, NumberedIsNew
<1> QED  BY <1>3, <1>5, <1>6, <1>7, <1>8
-----------------------------------------------------------------------------
LEMMA InitEstablishes == Init => IInv
<1> SUFFICES ASSUME Init PROVE IInv
  OBVIOUS
<1>1. TypeOK
  <2>1. aliases \in [{} -> Names] /\ {} \in SUBSET Paths /\ DOMAIN aliases = {}
    BY DEF Init
  <2> QED  BY <2>1, PathsAreRanks DEF Init, TypeOK
<1> QED  BY <1>1 DEF Init, IInv, AliasesMade, PrintedAliases

LEMMA StepPreserves == IInv /\ [Next]_vars => IInv'
<1> SUFFICES ASSUME IInv, [Next]_vars PROVE IInv'
  OBVIOUS
<1> USE DEF IInv
<1>1. ASSUME NEW p \in Paths \union {BuiltinPath}, CollectDep(p) PROVE IInv'
  <2>1. TypeOK'
    BY <1>1 DEF TypeOK, CollectDep
  <2>2. AliasesMade' /\ PrintedAliases'
    BY <1>1 DEF TypeOK, CollectDep, AliasesMade, PrintedAliases, Qualifier
  <2> QED  BY <2>1, <2>2
<1>2. CASE NewImports
  <2>1. deps \subseteq Paths \union {BuiltinPath} /\ printed = {}
    BY <1>2 DEF TypeOK, NewImports
  <2>2. Imported \in SUBSET Paths
    BY <2>1 DEF Imported
  <2>3. aliases' \in [Imported -> Names]
    BY <1>2, <2>1, AliasIsName DEF NewImports
  <2>4. TypeOK'
    BY <1>2, <2>2, <2>3 DEF TypeOK, NewImports
  <2>5. Imported' = Imported /\ \A p \in Imported : Alias(p)' = Alias(p)
    BY <1>2 DEF NewImports, Imported, Alias, Rank, UpTo
  <2>6. AliasesMade'
    BY <1>2, <2>5 DEF NewImports, AliasesMade
  <2>7. PrintedAliases'
    BY <1>2, <2>1 DEF NewImports, PrintedAliases
  <2> QED  BY <2>4, <2>6, <2>7
<1>3. ASSUME NEW p \in Paths, QualName(p) PROVE IInv'
  <2>1. Qualifier(p) \in Names
    BY BaseIsName DEF TypeOK, Qualifier
  <2>2. TypeOK'
    BY <1>3, <2>1 DEF TypeOK, QualName
  <2>3. Imported' = Imported /\ \A q \in Imported : Alias(q)' = Alias(q)
    BY <1>3 DEF QualName, Imported, Alias, Rank, UpTo
  <2>4. AliasesMade'
    BY <1>3, <2>3 DEF QualName, AliasesMade
  <2>5. PrintedAliases'
    BY <1>3 DEF QualName, PrintedAliases, Qualifier
  <2> QED  BY <2>2, <2>4, <2>5
<1>4. CASE UNCHANGED vars
  BY <1>4 DEF vars, TypeOK, AliasesMade, PrintedAliases, Qualifier, Imported, Alias, Rank, UpTo
<1> QED  BY <1>1, <1>2, <1>3, <1>4 DEF Next

LEMMA Invariance == Spec => []IInv
<1> QED  BY InitEstablishes, StepPreserves, PTL DEF Spec
-----------------------------------------------------------------------------
(* The variables keep their types, and nothing is imported or printed      *)
(* before all Deps are collected.                                          *)
THEOREM TypeCorrect == Spec => []TypeOK
<1>1. IInv => TypeOK
  BY DEF IInv
<1> QED  BY <1>1, Invariance, PTL

(* However many packages of one base a file imports, the numbers keep      *)
(* their names apart.                                                      *)
THEOREM AliasesKeepApart == Spec => []SameBaseApart
<1>1. IInv => SameBaseApart
  <2> SUFFICES ASSUME IInv, NEW p \in DOMAIN aliases, NEW q \in DOMAIN aliases,
                      Base[p] = Base[q], aliases[p] = aliases[q]
               PROVE  p = q
    BY DEF SameBaseApart
  <2>1. CASE pc = "deps"
    BY <2>1 DEF IInv, TypeOK
  <2>2. CASE pc = "print"
    <3>1. /\ p \in Imported /\ q \in Imported /\ Alias(p) = Alias(q)
          /\ deps \subseteq Paths \union {BuiltinPath}
      BY <2>2 DEF IInv, TypeOK, AliasesMade
    <3>2. Rank(p) = Rank(q)
      BY <3>1, AliasTellsRank
    <3>3. /\ p \in Nat /\ q \in Nat
          /\ Rank(p) \in Nat /\ Rank(q) \in Nat
      <4>1. Cardinality(Paths) \in Nat
        BY PathsAreRanks, FS_CardinalityType
      <4>2. p \in Paths /\ Rank(p) \in 1..Cardinality(Paths)
        BY <3>1, RankIsCount
      <4>3. q \in Paths /\ Rank(q) \in 1..Cardinality(Paths)
        BY <3>1, RankIsCount
      <4> QED  BY <4>1, <4>2, <4>3, PathsAreRanks
    <3>4. ~(p < q) /\ ~(q < p)
      BY <3>1, <3>2, <3>3, RankGrows
    <3> QED  BY <3>3, <3>4
  <2> QED  BY <2>1, <2>2 DEF IInv, TypeOK
<1> QED  BY <1>1, Invariance, PTL
-----------------------------------------------------------------------------
(* No package's name is that of another with a number appended, nor are    *)
(* two different names ever one with numbers appended.  Written out, this  *)
(* is so where none is another followed by digits, as foo2 is foo.         *)
BasesDoNotClash ==
  \A p, q \in Paths : Base[p] # Base[q] =>
    \A j, k \in Numbers : /\ Numbered[Base[p]][j] # Base[q]
                          /\ Numbered[Base[p]][j] # Numbered[Base[q]][k]

(* Packages of different bases have different names.                       *)
LEMMA AliasTellsBase ==
  ASSUME BasesDoNotClash, deps \subseteq Paths \union {BuiltinPath},
         NEW p \in Imported, NEW q \in Imported, Alias(p) = Alias(q)
  PROVE  Base[p] = Base[q]
<1>1. /\ p \in Paths /\ Rank(p) \in 1..Cardinality(Paths)
      /\ q \in Paths /\ Rank(q) \in 1..Cardinality(Paths)
  BY RankIsCount
<1>2. Cardinality(Paths) \in Nat
  BY PathsAreRanks, FS_CardinalityType
<1>3. /\ Rank(p) < 2 \/ Rank(p) \in Numbers
      /\ Rank(q) < 2 \/ Rank(q) \in Numbers
  BY <1>1, <1>2 DEF Numbers
<1>4. CASE Rank(p) < 2 /\ Rank(q) < 2
  BY <1>4 DEF Alias
<1>5. CASE ~(Rank(p) < 2) /\ Rank(q) < 2
  BY <1>1, <1>3, <1>5 DEF Alias, BasesDoNotClash
<1>6. CASE Rank(p) < 2 /\ ~(Rank(q) < 2)
  BY <1>1, <1>3, <1>6 DEF Alias, BasesDoNotClash
<1>7. CASE ~(Rank(p) < 2) /\ ~(Rank(q) < 2)
  BY <1>1, <1>3, <1>7 DEF Alias, BasesDoNotClash
<1> QED
  BY <1>4, <1>5, <1>6, <1>7

(* QualifiersApart, where bases do not clash: then a qualifier stands for  *)
(* one imported package, so there is nothing else than what imports_clash  *)
(* finds, a name made for one base that is also another's, as it is or     *)
(* numbered.                                                               *)
THEOREM QualifiersTellPackages ==
  ASSUME BasesDoNotClash
  PROVE  Spec => []QualifiersApart
<1>1. IInv /\ SameBaseApart => QualifiersApart
  <2> SUFFICES ASSUME IInv, SameBaseApart, NEW q \in printed, NEW r \in printed,
                      q[1] \in DOMAIN aliases, r[1] \in DOMAIN aliases, q[2] = r[2]
               PROVE  q[1] = r[1]
    BY DEF QualifiersApart
  <2>1. pc = "print"
    BY DEF IInv, TypeOK
  <2>2. aliases[q[1]] = aliases[r[1]]
    BY DEF IInv, PrintedAliases, Qualifier
  <2>3. /\ q[1] \in Imported /\ r[1] \in Imported /\ Alias(q[1]) = Alias(r[1])
        /\ deps \subseteq Paths \union {BuiltinPath}
    BY <2>1, <2>2 DEF IInv, AliasesMade, TypeOK
  <2>4. Base[q[1]] = Base[r[1]]
    BY <2>3, AliasTellsBase
  <2> QED
    BY <2>2, <2>4 DEF SameBaseApart
<1> QED
  BY <1>1, Invariance, AliasesKeepApart, PTL
=============================================================================
