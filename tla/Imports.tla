------------------------------- MODULE Imports -------------------------------
(***************************************************************************)
(* The imports of a generated file: NewImports, List and QualName of       *)
(* pkg/gen/imports.go, as printer.Print (internal/print/printer.go) and    *)
(* the templates use them.                                                 *)
(*                                                                         *)
(* A Go path is its rank among the strings sort.Strings compares, and the  *)
(* empty path of the built-in types is 0.  What path.Base makes of a path, *)
(* and what Sprintf makes of a base and a number, are given as functions.  *)
(***************************************************************************)
EXTENDS Naturals, FiniteSets

CONSTANTS Paths,        \* Go paths that can be imported
          BaseImports,  \* what every file imports: fmt
          Bases,        \* names of packages
          Names,        \* names a package can be imported by
          Base,         \* path.Base of each path
          Numbered      \* fmt.Sprintf("%s%d", name, number)

Numbers == 2..Cardinality(Paths)

ASSUME PathsAreRanks == /\ IsFiniteSet(Paths) /\ Paths \subseteq Nat \ {0}
                        /\ BaseImports \subseteq Paths
ASSUME BaseIsName == Bases \subseteq Names /\ Base \in [Paths -> Bases]
ASSUME NumberedIsName == Numbered \in [Bases -> [Numbers -> Names]]

(* Appending digits to a name makes another, and another for each number.  *)
ASSUME NumberedIsNew ==
  \A name \in Bases : \A j, k \in Numbers :
    /\ Numbered[name][j] # name
    /\ Numbered[name][j] = Numbered[name][k] => j = k

BuiltinPath == 0

VARIABLES pc, currentGoPath,
          deps,         \* what is asked for: the paths of the plans' Deps
          aliases,      \* the name a path is imported by: its base, or an alias
          printed       \* qualified names in the file: path and qualifier
vars == <<pc, currentGoPath, deps, aliases, printed>>

TypeOK ==
  /\ pc \in {"deps", "print"} /\ currentGoPath \in Paths
  /\ deps \subseteq Paths \union {BuiltinPath}
  /\ \E imported \in SUBSET Paths : aliases \in [imported -> Names]
  /\ printed \subseteq Paths \X Names
  /\ pc = "deps" => DOMAIN aliases = {} /\ printed = {}
-----------------------------------------------------------------------------
Init == /\ pc = "deps" /\ currentGoPath \in Paths
        /\ deps = BaseImports /\ printed = {}
        /\ aliases = [p \in {} |-> "none"]

(* A plan's Deps: any types, built in, of this package or another.         *)
CollectDep(p) ==
  /\ pc = "deps"
  /\ deps' = deps \union {p}
  /\ UNCHANGED <<pc, currentGoPath, aliases, printed>>

Imported == deps \ {BuiltinPath, currentGoPath}

(* The paths of the same base up to p, in the order of the strings: the    *)
(* first goes by its base, the others by their number.                     *)
UpTo(p) == {q \in Imported : Base[q] = Base[p] /\ q <= p}
RankPastFirst(p) == Cardinality(UpTo(p)) - 1    \* a mutation: off by one
Rank(p) == Cardinality(UpTo(p))
Alias(p) == IF Rank(p) < 2 THEN Base[p] ELSE Numbered[Base[p]][Rank(p)]

(* A mutation of NewImports: made before all Deps are collected.           *)
NewImportsEarly ==
  /\ pc = "deps"
  /\ aliases' = [p \in Imported |-> Alias(p)]
  /\ UNCHANGED <<pc, currentGoPath, deps, printed>>

NewImports ==
  /\ pc = "deps"
  /\ aliases' = [p \in Imported |-> Alias(p)]
  /\ pc' = "print"
  /\ UNCHANGED <<currentGoPath, deps, printed>>

(* QualName takes any type a template gives it.  Types of this package and *)
(* those built in have no qualifier.  A path that no Deps listed has no    *)
(* alias, and no import either: it goes by its base all the same.          *)
Qualifier(p) == IF p \in DOMAIN aliases THEN aliases[p] ELSE Base[p]
QualName(p) ==
  /\ pc = "print" /\ p # currentGoPath
  /\ printed' = printed \union {<<p, Qualifier(p)>>}
  /\ UNCHANGED <<pc, currentGoPath, deps, aliases>>

Next == \/ \E p \in Paths \union {BuiltinPath} : CollectDep(p)
        \/ NewImports
        \/ \E p \in Paths : QualName(p)

Spec == Init /\ [][Next]_vars
-----------------------------------------------------------------------------
(* No two packages of one base go by one name.                             *)
SameBaseApart ==
  \A p, q \in DOMAIN aliases : Base[p] = Base[q] /\ aliases[p] = aliases[q] => p = q

(* Imports promises "appropriately qualified names": a qualifier that      *)
(* stands for two packages that the file imports is none.  Where a         *)
(* package's own base looks like the alias of another, it does.  (What is  *)
(* not imported is EveryUseIsImported's matter, in Generation.)            *)
QualifiersApart ==
  \A q, r \in printed :
    {q[1], r[1]} \subseteq DOMAIN aliases /\ q[2] = r[2] => q[1] = r[1]
=============================================================================
