-------------------------- MODULE GenerationProofs --------------------------
(***************************************************************************)
(* Proofs about Generation, for all documents.                             *)
(***************************************************************************)
EXTENDS Generation, SequenceTheorems, FiniteSetTheorems, WellFoundedInduction, TLAPS

Rigid == doc \in Docs /\ types = TypesOf
Nonsense == \E n \in Nodes : doc[n].type = "unknown" /\ doc[n].allOf # <<>>

(* A step, as the planners make them.                                      *)
Listing(x) == x \in Seq(Range(x))
IsStep(s) == /\ s = Step(s.err, s.deps, s.fields)
             /\ s.deps \in Seq(Nodes) /\ Listing(s.fields)
             /\ s.err = "hang" => Nonsense

(* What a planner may return for schema n.                                 *)
SoundPlan(n, p) ==
  /\ p.schema = n /\ p.kind # NoPlan.kind /\ p.type.path \in Paths
  /\ ChecksRequired(p) /\ Decidable(p)
Sound(n, answer) ==
  /\ answer.deps \in Seq(Nodes)
  /\ answer.err = "hang" => Nonsense
  /\ answer.err = "nil" => SoundPlan(n, answer.plan)
-----------------------------------------------------------------------------
(* Induction over Nat.  It is stated of a set and not of a formula, which  *)
(* is what the provers can use: from the minimal element that a            *)
(* well-founded relation gives every set.                                  *)
LEMMA LeastOf ==
  ASSUME NEW T \in SUBSET Nat, T # {}
  PROVE  \E x \in T : \A y \in T : x <= y
<1> DEFINE R == {ss \in Nat \X Nat : ss[1] < ss[2]}
<1>1. \A x, y \in T : y < x => <<y, x>> \in R
  OBVIOUS
<1>2. IsWellFoundedOn(R, Nat)
  BY NatLessThanWellFounded, Zenon DEF OpToRel
<1> HIDE DEF R
<1>3. \E x \in T : \A y \in T : ~ (<<y, x>> \in R)
  BY <1>2, WFMin
<1>4. \A x, y \in T : ~(y < x) => x <= y
  OBVIOUS
<1> QED
  BY <1>1, <1>3, <1>4

LEMMA InductionOnSet ==
  ASSUME NEW S, 0 \in S, \A n \in Nat : n \in S => n + 1 \in S
  PROVE  \A n \in Nat : n \in S
<1> DEFINE T == {n \in Nat : n \notin S}
<1> SUFFICES ASSUME T # {} PROVE FALSE
  OBVIOUS
<1>1. PICK x \in T : \A y \in T : x <= y
  <2>1. T \in SUBSET Nat
    OBVIOUS
  <2> HIDE DEF T
  <2> QED
    BY <2>1, LeastOf
<1>2. x - 1 \in Nat /\ x - 1 \in S
  BY <1>1
<1> QED
  BY <1>2

(* What is written down as a function of 1..n is a sequence.               *)
LEMMA DomainIsLength ==
  ASSUME NEW n \in Nat, NEW s, s = [i \in 1..n |-> s[i]]
  PROVE  /\ Listing(s) /\ Len(s) = n
         /\ \A i \in 1..n : s[i] \in Range(s)
<1>1. \A i \in 1..n : s[i] \in Range(s)
  BY DEF Range
<1>2. s \in Seq(Range(s)) /\ DOMAIN s = 1..n
  BY <1>1, SeqDef
<1> QED
  BY <1>1, <1>2 DEF Listing

LEMMA ListingsConcat ==
  ASSUME NEW s, NEW t, Listing(s), Listing(t)
  PROVE  Listing(s \o t) /\ Range(s \o t) = Range(s) \union Range(t)
<1> DEFINE S == Range(s) \union Range(t)
<1>1. s \in Seq(S) /\ t \in Seq(S)
  <2>1. s \in Seq(Range(s)) /\ t \in Seq(Range(t))
    BY DEF Listing
  <2> QED
    BY <2>1
<1>2. /\ s \o t \in Seq(S) /\ Len(s \o t) = Len(s) + Len(t)
      /\ \A i \in 1..(Len(s) + Len(t)) :
           (s \o t)[i] = IF i <= Len(s) THEN s[i] ELSE t[i - Len(s)]
  <2> HIDE DEF S
  <2> QED
    BY <1>1, ConcatProperties
<1>3. Range(s \o t) = Range(s) \union Range(t)
  <2> DEFINE c == s \o t
  <2>1. /\ DOMAIN s = 1..Len(s) /\ DOMAIN t = 1..Len(t) /\ DOMAIN c = 1..(Len(s) + Len(t))
        /\ Len(s) \in Nat /\ Len(t) \in Nat
    BY <1>1, <1>2
  <2> HIDE DEF c
  <2>2. \A i \in DOMAIN c : c[i] \in S
    <3>1. \A i \in DOMAIN c : c[i] = IF i <= Len(s) THEN s[i] ELSE t[i - Len(s)]
      BY <1>2, <2>1 DEF c
    <3>2. \A i \in DOMAIN c : (i <= Len(s) /\ i \in DOMAIN s) \/ (~(i <= Len(s)) /\ i - Len(s) \in DOMAIN t)
      BY <2>1
    <3> QED
      BY <3>1, <3>2 DEF Range
  <2>3. \A i \in DOMAIN s : i \in DOMAIN c /\ c[i] = s[i]
    BY <1>2, <2>1 DEF c
  <2>4. \A i \in DOMAIN t : Len(s) + i \in DOMAIN c /\ c[Len(s) + i] = t[i]
    <3> TAKE i \in DOMAIN t
    <3>1. Len(s) + i \in DOMAIN c /\ ~(Len(s) + i <= Len(s)) /\ Len(s) + i - Len(s) = i
      BY <2>1
    <3> QED
      BY <1>2, <2>1, <3>1 DEF c
  <2>5. Range(c) \subseteq S
    BY <2>2 DEF Range
  <2>6. S \subseteq Range(c)
    BY <2>3, <2>4 DEF Range
  <2> QED
    BY <2>5, <2>6 DEF c
<1> QED
  BY <1>2, <1>3 DEF Listing

LEMMA NodesConcat ==
  ASSUME NEW s \in Seq(Nodes), NEW t \in Seq(Nodes)
  PROVE  s \o t \in Seq(Nodes) /\ Range(s \o t) = Range(s) \union Range(t)
<1>1. Listing(s) /\ Listing(t)
  <2>1. \A u \in Seq(Nodes) : u \in Seq(Range(u))
    BY DEF Range
  <2> QED
    BY <2>1 DEF Listing
<1> QED
  BY <1>1, ListingsConcat, ConcatProperties
-----------------------------------------------------------------------------
LEMMA CheckIsStep ==
  ASSUME NEW e, e = "hang" => Nonsense
  PROVE  IsStep(Check(e)) /\ Check(e).err = e
<1>1. <<>> \in Seq(Nodes) /\ Listing(<<>>)
  BY DEF Listing
<1> QED
  BY <1>1 DEF IsStep, Check, Step

LEMMA StepIsStep ==
  ASSUME NEW ds \in Seq(Nodes), NEW fs, Listing(fs)
  PROVE  IsStep(Step("nil", ds, fs))
BY DEF IsStep, Step

LEMMA ThenIsStep ==
  ASSUME NEW s, NEW t, IsStep(s), IsStep(t)
  PROVE  /\ IsStep(Then(s, t))
         /\ Then(s, t).err = "nil" <=> s.err = "nil" /\ t.err = "nil"
         /\ Then(s, t).err = "nil" =>
              /\ Range(Then(s, t).fields) = Range(s.fields) \union Range(t.fields)
              /\ Range(Then(s, t).deps) = Range(s.deps) \union Range(t.deps)
<1>1. CASE s.err # "nil"
  BY <1>1 DEF Then
<1>2. CASE s.err = "nil"
  <2> DEFINE r == Step(t.err, s.deps \o t.deps, s.fields \o t.fields)
  <2>1. Then(s, t) = r
    BY <1>2 DEF Then
  <2>2. /\ s.deps \o t.deps \in Seq(Nodes)
        /\ Range(s.deps \o t.deps) = Range(s.deps) \union Range(t.deps)
    BY NodesConcat DEF IsStep
  <2>3. /\ Listing(s.fields \o t.fields)
        /\ Range(s.fields \o t.fields) = Range(s.fields) \union Range(t.fields)
    BY ListingsConcat DEF IsStep
  <2>4. r.err = t.err /\ r.deps = s.deps \o t.deps /\ r.fields = s.fields \o t.fields
    BY DEF Step
  <2>5. r = Step(r.err, r.deps, r.fields)
    BY DEF Step
  <2> HIDE DEF r
  <2> QED
    BY <1>2, <2>1, <2>2, <2>3, <2>4, <2>5 DEF IsStep
<1> QED
  BY <1>1, <1>2

(* After(h, steps, n): h[k] is what the first k steps come to.             *)
After(h, steps, n) ==
  h = [k \in 0..n |-> IF k = 0 THEN Skip ELSE Then(h[k - 1], steps[k])]

LEMMA AfterExists ==
  ASSUME NEW n \in Nat, NEW steps
  PROVE  \E h : After(h, steps, n)
<1> DEFINE S == {k \in Nat : \E h : After(h, steps, k)}
<1>1. 0 \in S
  <2>1. After([k \in 0..0 |-> Skip], steps, 0)
    BY DEF After
  <2> QED
    BY <2>1
<1>2. ASSUME NEW k \in Nat, k \in S PROVE k + 1 \in S
  <2>1. PICK h : After(h, steps, k)
    BY <1>2
  <2> DEFINE g == [i \in 0..(k + 1) |-> IF i = k + 1 THEN Then(h[k], steps[k + 1]) ELSE h[i]]
  <2>2. ASSUME NEW i \in 0..(k + 1)
        PROVE  g[i] = IF i = 0 THEN Skip ELSE Then(g[i - 1], steps[i])
    <3>1. CASE i = k + 1
      BY <3>1
    <3>2. CASE i # k + 1
      <4>1. i \in 0..k /\ g[i] = h[i] /\ (i # 0 => g[i - 1] = h[i - 1])
        BY <3>2
      <4> HIDE DEF g
      <4> QED
        BY <2>1, <4>1 DEF After
    <3> QED
      BY <3>1, <3>2
  <2>3. After(g, steps, k + 1)
    <3>1. DOMAIN g = 0..(k + 1) /\ g = [i \in 0..(k + 1) |-> g[i]]
      OBVIOUS
    <3> HIDE DEF g
    <3> QED
      BY <2>2, <3>1 DEF After
  <2> QED
    BY <2>3
<1> HIDE DEF S
<1>3. n \in S
  BY <1>1, <1>2, InductionOnSet
<1> QED
  BY <1>3 DEF S

LEMMA AfterOneMore ==
  ASSUME NEW n \in Nat, NEW steps, NEW h, After(h, steps, n), NEW k \in Nat, k + 1 \in 1..n
  PROVE  h[k + 1] = Then(h[k], steps[k + 1])
<1>1. \A i \in 0..n : h[i] = IF i = 0 THEN Skip ELSE Then(h[i - 1], steps[i])
  BY Zenon DEF After
<1>2. k + 1 \in 0..n /\ k + 1 # 0 /\ k + 1 - 1 = k
  OBVIOUS
<1> QED
  BY <1>1, <1>2

OneMore(r, s, t) ==
  /\ IsStep(r)
  /\ r.err = "nil" <=> s.err = "nil" /\ t.err = "nil"
  /\ r.err = "nil" => /\ Range(r.fields) = Range(s.fields) \union Range(t.fields)
                      /\ Range(r.deps) = Range(s.deps) \union Range(t.deps)

LEMMA AfterIsStep ==
  ASSUME NEW n \in Nat, NEW steps, NEW h, NEW k \in Nat, k + 1 \in 1..n,
         After(h, steps, n), IsStep(h[k]), IsStep(steps[k + 1])
  PROVE  OneMore(h[k + 1], h[k], steps[k + 1])
<1>1. h[k + 1] = Then(h[k], steps[k + 1])
  BY AfterOneMore
<1> QED
  BY <1>1, ThenIsStep DEF OneMore

(* One step after another: if no one fails, all has been done.             *)
LEMMA InOrderIsStep ==
  ASSUME NEW n \in Nat, NEW steps, steps = [i \in 1..n |-> steps[i]],
         \A i \in 1..n : IsStep(steps[i])
  PROVE  /\ IsStep(InOrder(steps))
         /\ InOrder(steps).err = "nil" =>
              \A i \in 1..n : /\ steps[i].err = "nil"
                              /\ Range(steps[i].fields) \subseteq Range(InOrder(steps).fields)
                              /\ Range(steps[i].deps) \subseteq Range(InOrder(steps).deps)
<1> DEFINE h == CHOOSE h : After(h, steps, n)
<1>1. InOrder(steps) = h[n]
  <2>1. Len(steps) = n
    BY DomainIsLength
  <2> QED
    BY <2>1 DEF InOrder, After
<1>2. After(h, steps, n)
  BY AfterExists
<1> HIDE DEF h
<1> DEFINE Good(k) ==
      /\ IsStep(h[k])
      /\ h[k].err = "nil" =>
           \A i \in 1..k : /\ steps[i].err = "nil"
                           /\ Range(steps[i].fields) \subseteq Range(h[k].fields)
                           /\ Range(steps[i].deps) \subseteq Range(h[k].deps)
    S == {k \in Nat : k <= n => Good(k)}
<1>3. 0 \in S
  <2>1. h[0] = Skip
    BY <1>2 DEF After
  <2>2. IsStep(Skip)
    BY CheckIsStep DEF Skip
  <2> QED
    BY <2>1, <2>2
<1>4. ASSUME NEW k \in Nat, k \in S PROVE k + 1 \in S
  <2> SUFFICES ASSUME k + 1 <= n PROVE Good(k + 1)
    OBVIOUS
  <2>1. Good(k) /\ k + 1 \in 1..n
    BY <1>4
  <2>2. IsStep(h[k]) /\ IsStep(steps[k + 1])
    BY <2>1
  <2> HIDE DEF Good
  <2>3. OneMore(h[k + 1], h[k], steps[k + 1])
    BY <1>2, <2>1, <2>2, AfterIsStep, Zenon
  <2> USE DEF Good
  <2>4. ASSUME h[k + 1].err = "nil", NEW i \in 1..(k + 1)
        PROVE  /\ steps[i].err = "nil"
               /\ Range(steps[i].fields) \subseteq Range(h[k + 1].fields)
               /\ Range(steps[i].deps) \subseteq Range(h[k + 1].deps)
    <3>1. CASE i = k + 1
      BY <2>3, <2>4, <3>1 DEF OneMore
    <3>2. CASE i # k + 1
      <4>1. i \in 1..k
        BY <3>2
      <4> QED
        BY <2>1, <2>3, <2>4, <4>1 DEF OneMore
    <3> QED
      BY <3>1, <3>2
  <2> QED
    BY <2>3, <2>4 DEF OneMore
<1> HIDE DEF S, Good
<1>5. Good(n)
  <2>1. n \in S
    BY <1>3, <1>4, InductionOnSet
  <2> QED
    BY <2>1 DEF S
<1> QED
  BY <1>1, <1>5 DEF Good
-----------------------------------------------------------------------------
LEMMA NodeIsTyped ==
  ASSUME Rigid, NEW n \in Nodes
  PROVE  /\ doc[n] \in Schema
         /\ types[n].chosen = ChooseType(n) /\ types[n].simple = DetectSimpleType(n)
         /\ types[n].go = TypeInfo(n)
<1>1. doc \in [Nodes -> Schema]
  BY DocsAreTyped DEF Rigid
<1>2. types[n] = [chosen |-> ChooseType(n), simple |-> DetectSimpleType(n), go |-> TypeInfo(n)]
  BY DEF Rigid, TypesOf
<1> QED
  BY <1>1, <1>2

LEMMA ListIsTyped ==
  ASSUME Rigid, NEW n \in Nodes
  PROVE  /\ doc[n].props \in Seq(Property)
         /\ doc[n].oneOf \in Seq(Refs) /\ doc[n].allOf \in Seq(Refs) /\ doc[n].tuple \in Seq(Refs)
         /\ doc[n].addl \in Refs \union {"absent", "false", "true"}
         /\ doc[n].items \in Refs \union {"absent"}
<1>1. doc[n] \in Schema
  BY NodeIsTyped
<1> HIDE DEF Rigid
<1> QED
  BY <1>1 DEF Schema

(* Only a schema that hangs the search through allOf has type "hang".      *)
LEMMA OnlySearchHangs ==
  ASSUME Rigid, NEW n \in Nodes, types[n].simple = "hang"
  PROVE  Nonsense
<1>1. doc[n].type \in JSONTypes \union {"absent", "unknown"}
  BY NodeIsTyped DEF Schema
<1>2. ChooseType(n) \in JSONTypes \union {"unknown"}
  BY <1>1 DEF ChooseType, JSONTypes
<1>3. DetectSimpleType(n) = "hang"
  BY NodeIsTyped
<1>4. ChooseType(n) = "unknown" /\ doc[n].allOf # <<>>
  BY <1>2, <1>3 DEF DetectSimpleType, JSONTypes
<1>5. doc[n].type = "unknown"
  BY <1>1, <1>4 DEF ChooseType, JSONTypes
<1> QED
  BY <1>4, <1>5 DEF Nonsense

(* A Go type is of no package, or of that of the schema.                   *)
LEMMA GoTypeHasPath ==
  ASSUME Rigid, NEW n \in Nodes
  PROVE  types[n].go.path \in Paths /\ \A t : TypeInfoHinted(n, t).path \in Paths
<1>1. doc[n].path \in Paths
  BY NodeIsTyped DEF Schema
<1>2. \A x : Builtin(x).path \in Paths
  BY BuiltinsHaveAPath DEF Builtin
<1>3. \A x : Qualified(doc[n].path, x).path \in Paths
  BY <1>1 DEF Qualified
<1>4. \A t : TypeInfoHinted(n, t).path \in Paths
  BY <1>2, <1>3 DEF TypeInfoHinted
<1>5. TypeInfo(n).path \in Paths
  BY <1>2, <1>4 DEF TypeInfo
<1> QED
  BY <1>4, <1>5, NodeIsTyped

LEMMA DetectIsStep ==
  ASSUME Rigid, NEW r \in Refs
  PROVE  /\ IsStep(LoadAndDetect(r)) /\ IsStep(Resolve(r))
         /\ LoadAndDetect(r).err = "nil" => r \in Nodes /\ types[r].simple \notin Errors
         /\ Resolve(r).err = "nil" => r \in Nodes
<1>1. IsStep(Check("other")) /\ IsStep(Skip) /\ Check("other").err = "other"
  BY CheckIsStep DEF Skip
<1>2. CASE r = Broken
  BY <1>1, <1>2 DEF LoadAndDetect, Resolve
<1>3. CASE r # Broken
  <2>1. r \in Nodes
    BY <1>3 DEF Refs
  <2>2. IsStep(Check(types[r].simple)) /\ Check(types[r].simple).err = types[r].simple
    BY <2>1, CheckIsStep, OnlySearchHangs
  <2>3. "nil" \notin Errors
    BY DEF Errors, Declining
  <2> QED
    BY <1>1, <1>3, <2>1, <2>2, <2>3 DEF LoadAndDetect, Resolve, Detect
<1> QED
  BY <1>2, <1>3

(* The lists a planner goes through.                                       *)
LEMMA ListsAreSteps ==
  ASSUME Rigid, NEW refs \in Seq(Refs)
  PROVE  /\ IsStep(Each(refs, LoadAndDetect)) /\ IsStep(Each(refs, Resolve))
         /\ Each(refs, LoadAndDetect).err = "nil" =>
              refs \in Seq(Nodes) /\ \A m \in Range(refs) : types[m].simple \notin Errors
         /\ Each(refs, Resolve).err = "nil" => refs \in Seq(Nodes)
<1> DEFINE n == Len(refs)
           loads == [i \in DOMAIN refs |-> LoadAndDetect(refs[i])]
           resolves == [i \in DOMAIN refs |-> Resolve(refs[i])]
<1>1. n \in Nat /\ DOMAIN refs = 1..n /\ \A i \in 1..n : refs[i] \in Refs
  OBVIOUS
<1>2. /\ loads = [i \in 1..n |-> loads[i]] /\ resolves = [i \in 1..n |-> resolves[i]]
      /\ \A i \in 1..n : loads[i] = LoadAndDetect(refs[i]) /\ resolves[i] = Resolve(refs[i])
  BY <1>1
<1>3. Each(refs, LoadAndDetect) = InOrder(loads) /\ Each(refs, Resolve) = InOrder(resolves)
  BY DEF Each
<1> HIDE DEF n, loads, resolves
<1>4. \A i \in 1..n : IsStep(loads[i]) /\ IsStep(resolves[i])
  BY <1>1, <1>2, DetectIsStep
<1>5. /\ IsStep(InOrder(loads))
      /\ InOrder(loads).err = "nil" => \A i \in 1..n : loads[i].err = "nil"
  BY <1>1, <1>2, <1>4, InOrderIsStep
<1>6. /\ IsStep(InOrder(resolves))
      /\ InOrder(resolves).err = "nil" => \A i \in 1..n : resolves[i].err = "nil"
  BY <1>1, <1>2, <1>4, InOrderIsStep
<1>7. (\A i \in 1..n : refs[i] \in Nodes) => refs \in Seq(Nodes)
  BY <1>1 DEF n
<1>8. ASSUME \A i \in 1..n : loads[i].err = "nil"
      PROVE  \A i \in 1..n : refs[i] \in Nodes /\ types[refs[i]].simple \notin Errors
  BY <1>1, <1>2, <1>8, DetectIsStep
<1>9. ASSUME \A i \in 1..n : resolves[i].err = "nil"
      PROVE  \A i \in 1..n : refs[i] \in Nodes
  BY <1>1, <1>2, <1>9, DetectIsStep
<1> QED
  BY <1>1, <1>3, <1>5, <1>6, <1>7, <1>8, <1>9 DEF Range
-----------------------------------------------------------------------------
LEMMA TypeErrIsStep ==
  ASSUME NEW n
  PROVE  TypeErr(n) \in {"unknown type", "nil"} /\ IsStep(Check(TypeErr(n)))
         /\ Check(TypeErr(n)).err = TypeErr(n)
<1>1. TypeErr(n) \in {"unknown type", "nil"}
  BY DEF TypeErr
<1> QED
  BY <1>1, CheckIsStep

LEMMA OneField ==
  ASSUME NEW f
  PROVE  Listing(<<f>>) /\ Range(<<f>>) = {f}
<1>1. Range(<<f>>) = {f}
  BY DEF Range
<1> QED
  BY <1>1 DEF Listing

LEMMA NillableIsStep ==
  ASSUME Rigid, NEW f \in Nodes
  PROVE  IsStep(NillableErr(f))
<1> DEFINE loaded == Each(doc[f].oneOf, LoadAndDetect)
           last == IF IsNillable(f) THEN TypeErr(ValueSchema(f)) ELSE "nil"
<1>1. IsStep(loaded)
  BY ListIsTyped, ListsAreSteps
<1>2. IsStep(Check(last)) /\ IsStep(Skip)
  BY TypeErrIsStep, CheckIsStep DEF Skip
<1>3. NillableErr(f) \in {Skip, loaded, Check(last)}
  BY DEF NillableErr
<1> QED
  BY <1>1, <1>2, <1>3

(* Derives(n, p, s): the step s yields the field of property p of schema n.*)
Derives(n, p, s) ==
  \E f \in Range(s.fields) : f.json = p.name /\ (p.name \in doc[n].required => f.required)

LEMMA PropertyIsStep ==
  ASSUME Rigid, NEW n \in Nodes, NEW p \in Property
  PROVE  /\ IsStep(PropertyStep(n, p))
         /\ PropertyStep(n, p).err = "nil" => Derives(n, p, PropertyStep(n, p))
<1> DEFINE f == p.schema
           fields(t) == <<Field(p.name, t, p.name \in doc[n].required, ValidatorDeps(f))>>
           typed == Check(IF types[f].simple \in {"other", "hang"} THEN types[f].simple ELSE "nil")
           checked == Then(NillableErr(f), typed)
           ds == IF IsBuiltin(BareFieldType(f)) THEN <<>> ELSE <<f>>
<1>1. f \in Refs
  BY DEF Property
<1>2. CASE f = Broken
  <2>1. PropertyStep(n, p) = Check("other")
    BY <1>2 DEF PropertyStep
  <2> QED
    BY <2>1, CheckIsStep
<1>3. CASE f # Broken
  <2>1. f \in Nodes
    BY <1>1, <1>3 DEF Refs
  <2>2. \A t : Listing(fields(t)) /\ Derives(n, p, Step("nil", <<>>, fields(t)))
                /\ Derives(n, p, Step("nil", <<f>>, fields(t)))
    <3> TAKE t
    <3> DEFINE g == Field(p.name, t, p.name \in doc[n].required, ValidatorDeps(f))
    <3>1. g.json = p.name /\ (p.name \in doc[n].required => g.required)
      BY DEF Field
    <3>2. fields(t) = <<g>>
      OBVIOUS
    <3>3. \A ds0 : Step("nil", ds0, fields(t)).fields = fields(t)
      BY DEF Step
    <3> HIDE DEF g, fields
    <3>4. Listing(fields(t)) /\ Range(fields(t)) = {g}
      BY <3>2, OneField
    <3> QED
      BY <3>1, <3>3, <3>4 DEF Derives
  <2>3. IsStep(typed)
    <3>1. types[f].simple = "hang" => Nonsense
      BY <2>1, OnlySearchHangs
    <3>2. (IF types[f].simple \in {"other", "hang"} THEN types[f].simple ELSE "nil") = "hang" => Nonsense
      BY <3>1
    <3> QED
      BY <3>2, CheckIsStep
  <2>4. IsStep(checked)
    BY <2>1, <2>3, NillableIsStep, ThenIsStep
  <2>5. ds \in Seq(Nodes) /\ ds \in {<<>>, <<f>>} /\ <<>> \in Seq(Nodes)
    BY <2>1
  <2>6. CASE doc[f].raw
    <3>1. PropertyStep(n, p) = Step("nil", <<>>, fields(RawMessage))
      BY <1>3, <2>6 DEF PropertyStep
    <3> HIDE DEF fields
    <3> QED
      BY <2>2, <2>5, <3>1, StepIsStep
  <2>7. CASE ~doc[f].raw
    <3>1. PropertyStep(n, p) =
            IF checked.err # "nil" THEN checked ELSE Step("nil", ds, fields(FieldType(f)))
      BY <1>3, <2>7 DEF PropertyStep
    <3> HIDE DEF fields, checked, ds
    <3> QED
      BY <2>2, <2>4, <2>5, <3>1, StepIsStep
  <2> QED
    BY <2>6, <2>7
<1> QED
  BY <1>2, <1>3

LEMMA DeriveIsStep ==
  ASSUME Rigid, NEW n \in Nodes
  PROVE  /\ IsStep(DeriveStructFields(n))
         /\ DeriveStructFields(n).err = "nil" =>
              \A p \in Range(doc[n].props) : Derives(n, p, DeriveStructFields(n))
<1> DEFINE ps == doc[n].props
           m == Len(ps)
           steps == [i \in DOMAIN ps |-> PropertyStep(n, ps[i])]
<1>1. ps \in Seq(Property)
  BY ListIsTyped
<1>2. m \in Nat /\ DOMAIN ps = 1..m /\ \A i \in 1..m : ps[i] \in Property
  BY <1>1
<1>3. DeriveStructFields(n) = InOrder(steps)
  BY DEF DeriveStructFields, Each
<1>4. steps = [i \in 1..m |-> steps[i]] /\ \A i \in 1..m : steps[i] = PropertyStep(n, ps[i])
  BY <1>2
<1> HIDE DEF ps, m, steps
<1>5. \A i \in 1..m : IsStep(steps[i]) /\ (steps[i].err = "nil" => Derives(n, ps[i], steps[i]))
  BY <1>2, <1>4, PropertyIsStep
<1>6. /\ IsStep(InOrder(steps))
      /\ InOrder(steps).err = "nil" =>
           \A i \in 1..m : /\ steps[i].err = "nil"
                           /\ Range(steps[i].fields) \subseteq Range(InOrder(steps).fields)
  BY <1>2, <1>4, <1>5, InOrderIsStep
<1>7. ASSUME InOrder(steps).err = "nil", NEW p \in Range(ps)
      PROVE  Derives(n, p, InOrder(steps))
  <2>1. PICK i \in 1..m : ps[i] = p
    BY <1>2 DEF Range
  <2>2. Derives(n, p, steps[i]) /\ Range(steps[i].fields) \subseteq Range(InOrder(steps).fields)
    BY <1>5, <1>6, <1>7, <2>1
  <2> QED
    BY <2>2 DEF Derives
<1> QED
  BY <1>3, <1>6, <1>7 DEF ps
-----------------------------------------------------------------------------
LEMMA RefuseIsSound ==
  ASSUME NEW n, NEW e, e # "nil", e = "hang" => Nonsense, NEW ds \in Seq(Nodes)
  PROVE  Sound(n, Refuse(e, ds))
BY DEF Sound, Refuse

(* A planner that turns the schema down before it names any.               *)
LEMMA ContinueIsSound ==
  ASSUME NEW n
  PROVE  Sound(n, Refuse("continue", <<>>))
<1>1. <<>> \in Seq(Nodes)
  OBVIOUS
<1> QED
  BY <1>1, RefuseIsSound

LEMMA UntypedIsRefused ==
  ASSUME NEW n, TypeErr(n) # "nil"
  PROVE  Sound(n, Refuse(TypeErr(n), <<>>))
<1>1. TypeErr(n) = "unknown type"
  BY DEF TypeErr
<1>2. <<>> \in Seq(Nodes)
  OBVIOUS
<1> QED
  BY <1>1, <1>2, RefuseIsSound

LEMMA ResultIsSound ==
  ASSUME NEW n, NEW s, IsStep(s), NEW plan, s.err = "nil" => SoundPlan(n, plan)
  PROVE  Sound(n, Result(s, plan))
<1>1. CASE s.err # "nil"
  BY <1>1, RefuseIsSound DEF Result, IsStep
<1>2. CASE s.err = "nil"
  BY <1>2 DEF Result, Sound, IsStep
<1> QED
  BY <1>1, <1>2

(* A plan of any other kind than these three has nothing to keep to.       *)
LEMMA OtherPlanIsSound ==
  ASSUME NEW n, NEW kind \in {"map", "tuple", "slice", "discriminated"},
         NEW type, type.path \in Paths,
         NEW fields, NEW checked, NEW others, NEW uses, NEW imports
  PROVE  SoundPlan(n, Plan(kind, n, type, fields, checked, others, uses, imports))
BY DEF SoundPlan, Plan, NoPlan, ChecksRequired, Decidable

LEMMA StructIsSound ==
  ASSUME NEW n, NEW kind \in {"object", "allOf"}, NEW type, type.path \in Paths,
         NEW fields, NEW checked, ChecksRequired(Struct(kind, n, type, fields, checked))
  PROVE  SoundPlan(n, Struct(kind, n, type, fields, checked))
BY DEF SoundPlan, Struct, Plan, NoPlan, Decidable

LEMMA PlanMapIsSound ==
  ASSUME Rigid, NEW n \in Nodes
  PROVE  Sound(n, PlanMap(n))
<1> DEFINE v == doc[n].addl
           type == IF v \in Nodes THEN types[v].go ELSE Interface
           field == Field("", type, FALSE, IF v \in Nodes THEN ValidatorDeps(v) ELSE {})
           step == IF TypeErr(n) # "nil" THEN Check(TypeErr(n))
                   ELSE IF v = Broken THEN Check("other")
                   ELSE IF v = "true" THEN Skip
                   ELSE IF TypeErr(v) # "nil" THEN Check(TypeErr(v))
                   ELSE Step("nil", IF IsBuiltin(type) THEN <<>> ELSE <<v>>, <<>>)
           plan == Plan("map", n, types[n].go, <<field>>, {}, {},
                        Needed(<<field>>), Needed(<<field>>) \union TypePaths(<<field>>))
<1>1. CASE PlanMap(n) = Refuse("continue", <<>>)
  BY <1>1, ContinueIsSound
<1>2. CASE PlanMap(n) # Refuse("continue", <<>>)
  <2>1. PlanMap(n) = Result(step, plan) /\ AddlPresent(n)
    BY <1>2 DEF PlanMap
  <2>2. SoundPlan(n, plan)
    BY GoTypeHasPath, OtherPlanIsSound
  <2>3. IsStep(step)
    <3>1. IsStep(Check(TypeErr(n))) /\ IsStep(Check(TypeErr(v))) /\ IsStep(Skip)
          /\ IsStep(Check("other"))
      BY TypeErrIsStep, CheckIsStep DEF Skip
    <3>2. CASE v \in Nodes
      <4>1. (IF IsBuiltin(type) THEN <<>> ELSE <<v>>) \in Seq(Nodes) /\ Listing(<<>>)
        BY <3>2 DEF Listing
      <4>2. IsStep(Step("nil", IF IsBuiltin(type) THEN <<>> ELSE <<v>>, <<>>))
        BY <4>1, StepIsStep
      <4> QED
        BY <3>1, <4>2
    <3>3. CASE v \notin Nodes
      <4>1. v \in {Broken, "true"}
        BY <2>1, <3>3, ListIsTyped DEF AddlPresent, Refs
      <4> QED
        BY <3>1, <4>1
    <3> QED
      BY <3>2, <3>3
  <2> HIDE DEF step, plan
  <2> QED
    BY <2>1, <2>2, <2>3, ResultIsSound
<1> QED
  BY <1>1, <1>2

LEMMA PlanObjectIsSound ==
  ASSUME Rigid, NEW n \in Nodes
  PROVE  Sound(n, PlanObject(n))
<1> DEFINE own == DeriveStructFields(n)
           step == IF types[n].simple \in Errors THEN Check(types[n].simple)
                   ELSE IF types[n].simple # "object" THEN Check("continue")
                   ELSE IF TypeErr(n) # "nil" THEN Check(TypeErr(n))
                   ELSE own
           plan == Struct("object", n, types[n].go, own.fields, RequiredOf(own.fields))
<1>1. PlanObject(n) = Result(step, plan)
  BY DEF PlanObject
<1>2. IsStep(own) /\ (own.err = "nil" => \A p \in Range(doc[n].props) : Derives(n, p, own))
  BY DeriveIsStep
<1>3. IsStep(Check(types[n].simple)) /\ Check(types[n].simple).err = types[n].simple
  BY OnlySearchHangs, CheckIsStep
<1>4. IsStep(Check("continue")) /\ Check("continue").err = "continue"
      /\ IsStep(Check(TypeErr(n))) /\ Check(TypeErr(n)).err = TypeErr(n)
  BY TypeErrIsStep, CheckIsStep
<1>5. "nil" \notin Errors
  BY DEF Errors, Declining
<1> HIDE DEF own
<1>6. IsStep(step) /\ (step.err = "nil" => own.err = "nil")
  BY <1>2, <1>3, <1>4, <1>5
<1>7. ASSUME own.err = "nil" PROVE SoundPlan(n, plan)
  <2>1. PropertyNames(n) \intersect doc[n].required \subseteq RequiredOf(own.fields)
    BY <1>2, <1>7 DEF PropertyNames, RequiredOf, Derives
  <2>2. ChecksRequired(plan)
    <3>1. plan.schema = n /\ plan.kind = "object" /\ plan.checked = RequiredOf(own.fields)
      BY DEF Struct, Plan
    <3> HIDE DEF plan
    <3> QED
      BY <2>1, <3>1 DEF ChecksRequired
  <2> QED
    BY <2>2, GoTypeHasPath, StructIsSound
<1> HIDE DEF step, plan
<1> QED
  BY <1>1, <1>6, <1>7, ResultIsSound

(* A member of an allOf: its own properties are looked at either way.      *)
LEMMA MemberIsStep ==
  ASSUME Rigid, NEW n \in Nodes, NEW m \in Nodes
  PROVE  /\ IsStep(MemberStep(n, m))
         /\ MemberStep(n, m).err = "nil" => DeriveStructFields(m).err = "nil"
<1> DEFINE derived == DeriveStructFields(m)
           bare == [derived EXCEPT !.fields = <<>>]
           embedded == Field("", TypeInfoHinted(m, "object"), FALSE, {})
           mention == Step("nil", <<m>>, <<embedded>>)
<1>1. IsStep(derived)
  BY DeriveIsStep
<1>2. IsStep(mention)
  <2>1. <<m>> \in Seq(Nodes)
    OBVIOUS
  <2>2. Listing(<<embedded>>)
    BY OneField
  <2> HIDE DEF embedded
  <2> QED
    BY <2>1, <2>2, StepIsStep
<1>3. MemberStep(n, m) = IF doc[m].promote THEN derived ELSE Then(bare, mention)
  BY DEF MemberStep
<1> HIDE DEF derived, mention
<1>4. IsStep(bare) /\ bare.err = derived.err
  <2>1. bare = Step(derived.err, derived.deps, <<>>)
    BY <1>1 DEF IsStep, Step
  <2>2. Listing(<<>>)
    BY DEF Listing
  <2> HIDE DEF bare
  <2>3. bare.err = derived.err /\ bare.deps = derived.deps /\ bare.fields = <<>>
    BY <2>1 DEF Step
  <2> QED
    BY <1>1, <2>1, <2>2, <2>3 DEF IsStep
<1> HIDE DEF bare
<1>5. IsStep(Then(bare, mention)) /\ (Then(bare, mention).err = "nil" => bare.err = "nil")
  BY <1>2, <1>4, ThenIsStep
<1> QED
  BY <1>1, <1>3, <1>4, <1>5 DEF derived

LEMMA MembersAreSteps ==
  ASSUME Rigid, NEW n \in Nodes, NEW ms \in Seq(Nodes)
  PROVE  LET members == Each(ms, LAMBDA m : MemberStep(n, m))
         IN  /\ IsStep(members)
             /\ members.err = "nil" => \A m \in Range(ms) : DeriveStructFields(m).err = "nil"
<1> DEFINE k == Len(ms)
           steps == [i \in DOMAIN ms |-> MemberStep(n, ms[i])]
<1>1. k \in Nat /\ DOMAIN ms = 1..k /\ \A i \in 1..k : ms[i] \in Nodes
  OBVIOUS
<1>2. Each(ms, LAMBDA m : MemberStep(n, m)) = InOrder(steps)
  BY DEF Each
<1>3. steps = [i \in 1..k |-> steps[i]] /\ \A i \in 1..k : steps[i] = MemberStep(n, ms[i])
  BY <1>1
<1> HIDE DEF k, steps
<1>4. \A i \in 1..k : /\ IsStep(steps[i])
                      /\ steps[i].err = "nil" => DeriveStructFields(ms[i]).err = "nil"
  BY <1>1, <1>3, MemberIsStep
<1>5. IsStep(InOrder(steps)) /\ (InOrder(steps).err = "nil" => \A i \in 1..k : steps[i].err = "nil")
  BY <1>1, <1>3, <1>4, InOrderIsStep
<1> QED
  BY <1>1, <1>2, <1>4, <1>5 DEF Range

(* What is required and described is checked: in the schema's own fields,  *)
(* or in those a member contributes.                                       *)
LEMMA AllOfChecksRequired ==
  ASSUME Rigid, NEW n \in Nodes, doc[n].allOf \in Seq(Nodes), NEW fields,
         NEW m \in Range(doc[n].allOf) \union {n},
         DeriveStructFields(m).err = "nil",
         Range(DeriveStructFields(n).fields) \subseteq Range(fields)
  PROVE  doc[n].required \intersect PropertyNames(m)
           \subseteq RequiredOf(fields) \union SubRequired(n)
<1> SUFFICES ASSUME NEW p \in Range(doc[m].props), p.name \in doc[n].required
             PROVE  p.name \in RequiredOf(fields) \union SubRequired(n)
  BY DEF PropertyNames
<1>1. m \in Nodes
  BY DEF Range
<1>2. Derives(m, p, DeriveStructFields(m))
  BY <1>1, DeriveIsStep
<1>3. CASE m = n
  BY <1>2, <1>3 DEF Derives, RequiredOf
<1>4. CASE m # n
  <2>1. m \in Range(doc[n].allOf) /\ \E f \in Range(DeriveStructFields(m).fields) : f.json = p.name
    BY <1>2, <1>4 DEF Derives
  <2> QED
    BY <2>1 DEF SubRequired
<1> QED
  BY <1>3, <1>4

LEMMA PlanAllOfIsSound ==
  ASSUME Rigid, NEW n \in Nodes
  PROVE  Sound(n, PlanAllOfObject(n))
<1> DEFINE ms == doc[n].allOf
           list == Each(ms, LoadAndDetect)
           type == TypeInfoHinted(n, "object")
           own == DeriveStructFields(n)
           members == Each(ms, LAMBDA m : MemberStep(n, m))
           all == Then(own, members)
           plan == Struct("allOf", n, type, all.fields,
                          RequiredOf(all.fields) \union SubRequired(n))
<1>1. PlanAllOfObject(n) = IF list.err # "nil" THEN Refuse(list.err, <<>>)
        ELSE IF FirstType(ms) # "object" \/ type = NoType THEN Refuse("continue", <<>>)
        ELSE Result(all, plan)
  BY DEF PlanAllOfObject
<1>2. ms \in Seq(Refs)
  BY ListIsTyped
<1>3. IsStep(list) /\ (list.err = "nil" => ms \in Seq(Nodes))
  BY <1>2, ListsAreSteps
<1>4. list.err # "nil" => Sound(n, Refuse(list.err, <<>>))
  <2>1. <<>> \in Seq(Nodes) /\ (list.err = "hang" => Nonsense)
    BY <1>3 DEF IsStep
  <2> QED
    BY <2>1, RefuseIsSound
<1>5. ASSUME ms \in Seq(Nodes) PROVE Sound(n, Result(all, plan))
  <2>1. IsStep(own)
    BY DeriveIsStep
  <2>2. IsStep(members) /\ (members.err = "nil" => \A m \in Range(ms) : DeriveStructFields(m).err = "nil")
    BY <1>5, MembersAreSteps
  <2> HIDE DEF own, members
  <2>3. /\ IsStep(all) /\ (all.err = "nil" => own.err = "nil" /\ members.err = "nil")
        /\ all.err = "nil" => Range(own.fields) \subseteq Range(all.fields)
    BY <2>1, <2>2, ThenIsStep
  <2> HIDE DEF all
  <2>4. ASSUME all.err = "nil" PROVE SoundPlan(n, plan)
    <3>1. \A m \in Range(ms) \union {n} :
            doc[n].required \intersect PropertyNames(m) \subseteq RequiredOf(all.fields) \union SubRequired(n)
      BY <1>5, <2>2, <2>3, <2>4, AllOfChecksRequired DEF own
    <3>2. plan.schema = n /\ plan.kind = "allOf"
          /\ plan.checked = RequiredOf(all.fields) \union SubRequired(n)
      BY DEF Struct, Plan
    <3>3. ChecksRequired(plan)
      <4> HIDE DEF plan
      <4> QED
        BY <3>1, <3>2 DEF ChecksRequired
    <3> QED
      BY <3>3, GoTypeHasPath, StructIsSound
  <2> HIDE DEF plan
  <2> QED
    BY <2>3, <2>4, ResultIsSound
<1> HIDE DEF list, all, plan
<1> QED
  BY <1>1, <1>3, <1>4, <1>5, ContinueIsSound

LEMMA TuplesAreSteps ==
  ASSUME Rigid, NEW ms \in Seq(Nodes)
  PROVE  IsStep(Each(ms, TupleStep)) /\ IsStep(Each(ms, ValueStep))
<1> DEFINE k == Len(ms)
           items == [i \in DOMAIN ms |-> TupleStep(ms[i])]
           values == [i \in DOMAIN ms |-> ValueStep(ms[i])]
           dep(m) == IF IsBuiltin(types[m].go) THEN <<>> ELSE <<m>>
<1>1. k \in Nat /\ DOMAIN ms = 1..k /\ \A i \in 1..k : ms[i] \in Nodes
  OBVIOUS
<1>2. Each(ms, TupleStep) = InOrder(items) /\ Each(ms, ValueStep) = InOrder(values)
  BY DEF Each
<1>3. /\ items = [i \in 1..k |-> items[i]] /\ values = [i \in 1..k |-> values[i]]
      /\ \A i \in 1..k : items[i] = TupleStep(ms[i]) /\ values[i] = ValueStep(ms[i])
  BY <1>1
<1> HIDE DEF k, items, values
<1>4. ASSUME NEW m \in Nodes PROVE IsStep(TupleStep(m)) /\ IsStep(ValueStep(m))
  <2> DEFINE f == Field("", types[m].go, FALSE, ValidatorDeps(m))
  <2>1. dep(m) \in Seq(Nodes)
    OBVIOUS
  <2>2. Listing(<<f>>)
    BY OneField
  <2>3. Listing(<<>>)
    BY DEF Listing
  <2> HIDE DEF dep, f
  <2>4. IsStep(Step("nil", dep(m), <<f>>)) /\ IsStep(Step("nil", dep(m), <<>>))
    BY <2>1, <2>2, <2>3, StepIsStep
  <2>5. IsStep(Check(TypeErr(m)))
    BY TypeErrIsStep
  <2>6. IsStep(TupleStep(m))
    BY <2>4, <2>5 DEF TupleStep, dep, f
  <2>7. ValueStep(m) = Then(Check(TypeErr(m)), Step("nil", dep(m), <<>>))
    BY DEF ValueStep, dep
  <2> QED
    BY <2>4, <2>5, <2>6, <2>7, ThenIsStep
<1>5. \A i \in 1..k : IsStep(items[i]) /\ IsStep(values[i])
  BY <1>1, <1>3, <1>4
<1> QED
  BY <1>1, <1>2, <1>3, <1>5, InOrderIsStep

LEMMA PlanTupleIsSound ==
  ASSUME Rigid, NEW n \in Nodes
  PROVE  Sound(n, PlanTuple(n))
<1> DEFINE ms == doc[n].tuple
           resolved == Each(ms, Resolve)
           made == Each(ms, TupleStep)
           items == Then(resolved, made)
           packages == {"encoding/json", "fmt"} \union Needed(items.fields)
           plan == Plan("tuple", n, types[n].go, items.fields, {}, {}, packages,
                        packages \union TypePaths(items.fields))
<1>1. PlanTuple(n) = IF types[n].chosen # "array" THEN Refuse("continue", <<>>)
        ELSE IF TypeErr(n) # "nil" THEN Refuse(TypeErr(n), <<>>)
        ELSE IF ms = <<>> THEN Refuse("continue", <<>>)
        ELSE Result(items, plan)
  BY DEF PlanTuple
<1>2. IsStep(resolved) /\ (resolved.err = "nil" => ms \in Seq(Nodes))
  BY ListIsTyped, ListsAreSteps
<1>3. IsStep(items)
  <2>1. CASE resolved.err # "nil"
    <3> HIDE DEF resolved, made
    <3> QED
      BY <1>2, <2>1 DEF Then
  <2>2. CASE resolved.err = "nil"
    <3>1. IsStep(made)
      BY <1>2, <2>2, TuplesAreSteps
    <3> HIDE DEF resolved, made
    <3> QED
      BY <1>2, <3>1, ThenIsStep
  <2> QED
    BY <2>1, <2>2
<1>4. SoundPlan(n, plan)
  BY GoTypeHasPath, OtherPlanIsSound
<1>5. TypeErr(n) # "nil" => Sound(n, Refuse(TypeErr(n), <<>>))
  BY UntypedIsRefused
<1> HIDE DEF items, plan
<1> QED
  BY <1>1, <1>3, <1>4, <1>5, ContinueIsSound, ResultIsSound

LEMMA BuildSliceIsSound ==
  ASSUME Rigid, NEW n \in Nodes
  PROVE  Sound(n, BuildSlice(n))
<1> DEFINE m == doc[n].items
           type == IF m \in Nodes THEN ItemType(m) ELSE Interface
           field == Field("", type, FALSE, IF m \in Nodes THEN ValidatorDeps(m) ELSE {})
           dep == Step("nil", IF IsBuiltin(type) THEN <<>> ELSE <<m>>, <<>>)
           items == IF m = "absent" THEN Skip ELSE Then(LoadAndDetect(m), dep)
           unique == Check(IF doc[n].unique /\ type.name = "interface{}" THEN "other" ELSE "nil")
           plan == Plan("slice", n, types[n].go, <<field>>, {}, {},
                        {"fmt"} \union Needed(<<field>>),
                        {"fmt"} \union TypePaths(<<field>>))
<1>1. BuildSlice(n) = IF types[n].chosen # "array" THEN Refuse("continue", <<>>)
        ELSE IF TypeErr(n) # "nil" THEN Refuse(TypeErr(n), <<>>)
        ELSE Result(Then(items, unique), plan)
  BY DEF BuildSlice
<1>2. IsStep(items)
  <2>1. IsStep(Skip)
    BY CheckIsStep DEF Skip
  <2>2. ASSUME m # "absent" PROVE IsStep(Then(LoadAndDetect(m), dep))
    <3>1. m \in Refs
      BY <2>2, ListIsTyped
    <3>2. IsStep(LoadAndDetect(m)) /\ (LoadAndDetect(m).err = "nil" => m \in Nodes)
      BY <3>1, DetectIsStep
    <3>3. CASE LoadAndDetect(m).err # "nil"
      BY <3>2, <3>3 DEF Then
    <3>4. CASE LoadAndDetect(m).err = "nil"
      <4>1. (IF IsBuiltin(type) THEN <<>> ELSE <<m>>) \in Seq(Nodes) /\ Listing(<<>>)
        BY <3>2, <3>4 DEF Listing
      <4>2. IsStep(dep)
        BY <4>1, StepIsStep
      <4> HIDE DEF dep
      <4> QED
        BY <3>2, <4>2, ThenIsStep
    <3> QED
      BY <3>3, <3>4
  <2> QED
    BY <2>1, <2>2
<1>3. IsStep(unique)
  BY CheckIsStep
<1>4. SoundPlan(n, plan)
  BY GoTypeHasPath, OtherPlanIsSound
<1>5. TypeErr(n) # "nil" => Sound(n, Refuse(TypeErr(n), <<>>))
  BY UntypedIsRefused
<1> HIDE DEF items, unique, plan
<1>6. IsStep(Then(items, unique))
  BY <1>2, <1>3, ThenIsStep
<1> QED
  BY <1>1, <1>4, <1>5, <1>6, ContinueIsSound, ResultIsSound

LEMMA MappedAreSteps ==
  ASSUME NEW n, NEW ms \in Seq(Refs)
  PROVE  IsStep(InOrder([i \in DOMAIN ms |-> MappedStep(n, ms[i])]))
<1> DEFINE k == Len(ms)
           steps == [i \in DOMAIN ms |-> MappedStep(n, ms[i])]
<1>1. k \in Nat /\ DOMAIN ms = 1..k
  OBVIOUS
<1>3. steps = [i \in 1..k |-> steps[i]] /\ \A i \in 1..k : steps[i] = MappedStep(n, ms[i])
  BY <1>1
<1> HIDE DEF k, steps
<1>4. \A m : IsStep(MappedStep(n, m))
  BY TypeErrIsStep, CheckIsStep DEF MappedStep
<1>5. IsStep(InOrder(steps))
  BY <1>1, <1>3, <1>4, InOrderIsStep
<1> QED
  BY <1>5 DEF steps

LEMMA PlanDiscriminatedIsSound ==
  ASSUME Rigid, NEW n \in Nodes
  PROVE  Sound(n, PlanDiscriminatedOneOf(n))
<1> DEFINE ms == doc[n].oneOf
           list == Each(ms, LoadAndDetect)
           each == Each(ms, LAMBDA m : MappedStep(n, m))
           mapped == Then(Check(TypeErr(n)), each)
           all == Then(mapped, Step("nil", ms, <<>>))
           fields == <<Field("discriminator", Interface, FALSE, {})>>
           packages == {"fmt", "encoding/json"}
           plan == Plan("discriminated", n, types[n].go, fields, {}, MappedTypes(n),
                        packages, packages)
<1>1. PlanDiscriminatedOneOf(n) =
        IF ~doc[n].discriminator THEN Refuse("continue", <<>>)
        ELSE IF list.err # "nil" THEN Refuse(list.err, <<>>)
        ELSE IF FirstType(ms) # "object" THEN Refuse("continue", <<>>)
        ELSE Result(all, plan)
  BY DEF PlanDiscriminatedOneOf
<1>2. ms \in Seq(Refs)
  BY ListIsTyped
<1>3. IsStep(list) /\ (list.err = "nil" => ms \in Seq(Nodes))
  BY <1>2, ListsAreSteps
<1>4. list.err # "nil" => Sound(n, Refuse(list.err, <<>>))
  <2>1. <<>> \in Seq(Nodes) /\ (list.err = "hang" => Nonsense)
    BY <1>3 DEF IsStep
  <2> QED
    BY <2>1, RefuseIsSound
<1>5. SoundPlan(n, plan)
  BY GoTypeHasPath, OtherPlanIsSound
<1>6. IsStep(mapped)
  <2>1. IsStep(each)
    <3>1. each = InOrder([i \in DOMAIN ms |-> MappedStep(n, ms[i])])
      BY DEF Each
    <3> HIDE DEF ms
    <3> QED
      BY <1>2, <3>1, MappedAreSteps
  <2>2. IsStep(Check(TypeErr(n)))
    BY TypeErrIsStep
  <2> HIDE DEF each
  <2> QED
    BY <2>1, <2>2, ThenIsStep
<1>7. ASSUME ms \in Seq(Nodes) PROVE IsStep(all)
  <2>1. Listing(<<>>)
    BY DEF Listing
  <2>2. IsStep(Step("nil", ms, <<>>))
    BY <1>7, <2>1, StepIsStep
  <2> HIDE DEF mapped
  <2> QED
    BY <1>6, <2>2, ThenIsStep
<1> HIDE DEF list, all, plan
<1> QED
  BY <1>1, <1>3, <1>4, <1>5, <1>7, ContinueIsSound, ResultIsSound

(* What tells the members of a oneOf apart: their types do, if no two of   *)
(* them begin alike, and then there is no integer beside a number.         *)
LEMMA UnlikeMembers ==
  ASSUME NEW ms \in Seq(Nodes), ~SeenTwice(ms)
  PROVE  LET simple == {types[m].simple : m \in Range(ms)}
         IN  Cardinality(simple) = Len(ms) /\ ~({"integer", "number"} \subseteq simple)
<1> DEFINE simple == {types[m].simple : m \in Range(ms)}
           k == Len(ms)
           f == [i \in 1..k |-> types[ms[i]].simple]
<1>1. k \in Nat /\ DOMAIN ms = 1..k
  OBVIOUS
<1>2. \A i, j \in 1..k : i # j => TokenOf(ms[i]) # TokenOf(ms[j])
  BY <1>1 DEF SeenTwice
<1>3. \A i, j \in 1..k : f[i] = f[j] => i = j
  BY <1>2 DEF TokenOf
<1>4. \A x : x \in simple <=> \E i \in 1..k : x = f[i]
  BY <1>1 DEF Range
<1>5. ~({"integer", "number"} \subseteq simple)
  <2> SUFFICES ASSUME "integer" \in simple, "number" \in simple PROVE FALSE
    OBVIOUS
  <2>1. PICK i \in 1..k : "integer" = f[i]
    BY <1>4
  <2>2. PICK j \in 1..k : "number" = f[j]
    BY <1>4
  <2>3. types[ms[i]].simple = "integer" /\ types[ms[j]].simple = "number"
    BY <2>1, <2>2
  <2>4. TokenOf(ms[i]) = TokenOf(ms[j]) /\ i # j
    BY <2>3 DEF TokenOf
  <2> QED
    BY <1>2, <2>4
<1>6. f \in [1..k -> simple]
  <2>1. DOMAIN f = 1..k /\ f = [i \in 1..k |-> f[i]]
    OBVIOUS
  <2> HIDE DEF f, simple
  <2> QED
    BY <1>4, <2>1
<1> HIDE DEF f, simple
<1>7. ExistsBijection(1..k, simple)
  BY <1>3, <1>4, <1>6 DEF ExistsBijection, Bijection, Injection, Surjection, IsInjective
<1>8. Cardinality(simple) = k
  BY <1>1, <1>7, FS_CountingElements
<1> QED
  BY <1>5, <1>8 DEF simple

LEMMA PlanOneOfIsSound ==
  ASSUME Rigid, NEW n \in Nodes
  PROVE  Sound(n, PlanOneOfDiffTypes(n))
<1> DEFINE refs == doc[n].oneOf
           list == Each(refs, LoadAndDetect)
           values == Each(refs, ValueStep)
           type == TypeInfoHinted(n, "object")
           fields == <<Field("", Interface, FALSE, UNION {ValidatorDeps(m) : m \in Range(refs)})>>
           packages == {"fmt", "encoding/json", "bytes"} \union Needed(fields)
           containers == {m \in Range(refs) : TokenOf(m) \in {"object", "array"}}
           plan == Plan("oneOf", n, type, fields, {}, {types[m].go : m \in containers},
                        packages, packages)
<1>1. PlanOneOfDiffTypes(n) =
        IF list.err # "nil" THEN Refuse(list.err, <<>>)
        ELSE IF refs = <<>> \/ SeenTwice(refs) \/ type = NoType THEN Refuse("continue", <<>>)
        ELSE Result(values, plan)
  BY DEF PlanOneOfDiffTypes
<1>2. refs \in Seq(Refs)
  BY ListIsTyped
<1>3. IsStep(list) /\ (list.err = "nil" => refs \in Seq(Nodes))
  BY <1>2, ListsAreSteps
<1>4. list.err # "nil" => Sound(n, Refuse(list.err, <<>>))
  <2>1. <<>> \in Seq(Nodes) /\ (list.err = "hang" => Nonsense)
    BY <1>3 DEF IsStep
  <2> QED
    BY <2>1, RefuseIsSound
<1>5. ASSUME refs \in Seq(Nodes), ~SeenTwice(refs) PROVE SoundPlan(n, plan)
  <2>1. plan.schema = n /\ plan.kind = "oneOf" /\ plan.type = type
    BY DEF Plan
  <2>2. type.path \in Paths
    BY GoTypeHasPath
  <2> HIDE DEF plan, type
  <2>3. ChecksRequired(plan) /\ plan.kind # NoPlan.kind
    BY <2>1 DEF ChecksRequired, NoPlan
  <2>4. Decidable(plan)
    BY <1>5, <2>1, UnlikeMembers DEF Decidable
  <2> QED
    BY <2>1, <2>2, <2>3, <2>4 DEF SoundPlan
<1>6. refs \in Seq(Nodes) => IsStep(values)
  BY TuplesAreSteps
<1> HIDE DEF list, values, plan
<1> QED
  BY <1>1, <1>3, <1>4, <1>5, <1>6, ContinueIsSound, ResultIsSound

(* The seven planners, in the order they are tried.                        *)
LEMMA CompositeIsSound ==
  ASSUME Rigid, NEW n \in Nodes, NEW i \in 1..NumComposite
  PROVE  Sound(n, Composite(i, n))
<1>1. i \in {1, 2, 3, 4, 5, 6, 7}
  BY DEF NumComposite
<1>2. Composite(1, n) = PlanMap(n)
  BY DEF Composite
<1>3. Composite(2, n) = PlanAllOfObject(n)
  BY DEF Composite
<1>4. Composite(3, n) = PlanObject(n)
  BY DEF Composite
<1>5. Composite(4, n) = PlanTuple(n)
  BY DEF Composite
<1>6. Composite(5, n) = BuildSlice(n)
  BY DEF Composite
<1>7. Composite(6, n) = PlanDiscriminatedOneOf(n)
  BY DEF Composite
<1>8. Composite(7, n) = PlanOneOfDiffTypes(n)
  BY DEF Composite
<1> QED
  BY <1>1, <1>2, <1>3, <1>4, <1>5, <1>6, <1>7, <1>8, PlanMapIsSound, PlanAllOfIsSound,
     PlanObjectIsSound, PlanTupleIsSound, BuildSliceIsSound, PlanDiscriminatedIsSound,
     PlanOneOfIsSound
-----------------------------------------------------------------------------
(* The inductive invariant: what the state is made of, that a plan is one  *)
(* that a planner may return, and that a crawl hangs over nonsense only.   *)
PlansAreSound == \A p \in Range(plans) : p.schema \in Nodes /\ SoundPlan(p.schema, p)
Typing ==
  /\ Rigid
  /\ pc \in {"load", "pop", "plan"} \union Ended
  /\ uris \in Seq(Refs) /\ Len(uris) <= NumRoots
  /\ queue \in Seq(Nodes)
  /\ current \in Nodes \union {NoOne} /\ (pc = "plan" => current \in Nodes)
  /\ tried \in 0..(NumComposite - 1)
  /\ deps \in Seq(Nodes)
  /\ Listing(plans) /\ PlansAreSound
  /\ pc = "hung" => Nonsense

LEMMA RigidStays ==
  ASSUME doc' = doc, types' = types
  PROVE  /\ Rigid' <=> Rigid
         /\ Nonsense' <=> Nonsense
         /\ \A n, p : SoundPlan(n, p)' <=> SoundPlan(n, p)
<1>1. (Rigid' <=> Rigid) /\ (Nonsense' <=> Nonsense)
  <2>1. TypesOf' = TypesOf
    BY DEF TypesOf, ChooseType, DetectSimpleType, TypeInfo, SearchAllOf, Untyped,
           AddlPresent, TypeInfoHinted
  <2> QED
    BY <2>1 DEF Rigid, Nonsense
<1>2. ASSUME NEW n, NEW p PROVE SoundPlan(n, p)' <=> SoundPlan(n, p)
  <2>1. ChecksRequired(p)' <=> ChecksRequired(p)
    BY DEF ChecksRequired, PropertyNames
  <2>2. Decidable(p)' <=> Decidable(p)
    BY DEF Decidable
  <2> QED
    BY <2>1, <2>2 DEF SoundPlan
<1> QED
  BY <1>1, <1>2

LEMMA TypingInit == Init => Typing
<1> SUFFICES ASSUME Init PROVE Typing
  OBVIOUS
<1> USE DEF Init
<1>1. Rigid
  BY DEF Rigid
<1>2. uris \in Seq(Refs) /\ Len(uris) <= NumRoots
  BY RootListsHaveOneLength
<1>3. queue \in Seq(Nodes) /\ deps \in Seq(Nodes)
  OBVIOUS
<1>4. Listing(plans) /\ PlansAreSound
  BY DEF Listing, PlansAreSound, Range
<1> QED
  BY <1>1, <1>2, <1>3, <1>4 DEF Typing, NumComposite

LEMMA TypingNext == Typing /\ [Next \/ Stopped]_vars => Typing'
<1> SUFFICES ASSUME Typing, [Next \/ Stopped]_vars PROVE Typing'
  OBVIOUS
<1>0. doc' = doc /\ types' = types
  BY DEF Next, Stopped, vars, LoadRoot, LoadFails, AllLoaded, PassOver, Pop, TryPlanner, Finish,
         PlannerDeclines, PlanningFails, PlannerAccepts, PlannerHangs
<1>1. /\ Rigid' /\ (Nonsense' <=> Nonsense)
      /\ \A n, p : SoundPlan(n, p)' <=> SoundPlan(n, p)
  BY <1>0, RigidStays DEF Typing
<1>2. PlansAreSound' <=> \A p \in Range(plans') : p.schema \in Nodes /\ SoundPlan(p.schema, p)
  BY <1>1 DEF PlansAreSound
<1>3. Listing(plans)' <=> Listing(plans')
  BY DEF Listing
<1>a. CASE LoadRoot
  <2>1. uris \in Seq(Refs) /\ uris # <<>>
    BY <1>a DEF Typing, LoadRoot
  <2>2. Head(uris) \in Refs /\ uris' \in Seq(Refs) /\ Len(uris') <= NumRoots
    <3>1. uris' = Tail(uris) /\ Len(uris) <= NumRoots /\ NumRoots \in Nat
      BY <1>a, RootListsHaveOneLength DEF Typing, LoadRoot
    <3> QED
      BY <2>1, <3>1
  <2>3. queue' \in Seq(Nodes)
    BY <1>a, <2>2 DEF Typing, LoadRoot, Refs
  <2> QED
    BY <1>1, <1>2, <1>3, <1>a, <2>2, <2>3 DEF Typing, LoadRoot, PlansAreSound, planning
<1>b. CASE LoadFails
  BY <1>1, <1>2, <1>3, <1>b DEF Typing, LoadFails, PlansAreSound, planning, Ended
<1>c. CASE AllLoaded
  BY <1>1, <1>2, <1>3, <1>c DEF Typing, AllLoaded, PlansAreSound, planning
<1>d. CASE PassOver
  <2>1. queue' \in Seq(Nodes)
    BY <1>d DEF Typing, PassOver
  <2> QED
    BY <1>1, <1>2, <1>3, <1>d, <2>1 DEF Typing, PassOver, PlansAreSound, planning
<1>e. CASE Pop
  <2>1. queue' \in Seq(Nodes) /\ current' \in Nodes
    BY <1>e DEF Typing, Pop
  <2>2. deps' \in Seq(Nodes) /\ tried' \in 0..(NumComposite - 1)
    BY <1>e DEF Pop, NumComposite
  <2> QED
    BY <1>1, <1>2, <1>3, <1>e, <2>1, <2>2 DEF Typing, Pop, PlansAreSound
<1>f. CASE TryPlanner
  <2> DEFINE answer == Composite(tried + 1, current)
  <2>1. /\ pc = "plan"
        /\ \/ PlannerDeclines(answer) \/ PlanningFails(answer)
           \/ PlannerAccepts(answer) \/ PlannerHangs(answer)
    BY <1>f DEF TryPlanner
  <2>2. current \in Nodes /\ tried \in Nat /\ tried + 1 \in 1..NumComposite
    BY <2>1 DEF Typing, NumComposite
  <2>3. Sound(current, answer)
    BY <2>2, CompositeIsSound DEF Typing
  <2> HIDE DEF answer
  <2>4. deps \o answer.deps \in Seq(Nodes)
    BY <2>3, NodesConcat DEF Typing, Sound
  <2>5. CASE PlannerDeclines(answer)
    <3>1. tried' \in 0..(NumComposite - 1)
      BY <2>2, <2>5 DEF PlannerDeclines, NumComposite
    <3> QED
      BY <1>1, <1>2, <1>3, <2>4, <2>5, <3>1 DEF Typing, PlannerDeclines, PlansAreSound
  <2>6. CASE PlanningFails(answer)
    BY <1>1, <1>2, <1>3, <2>4, <2>6 DEF Typing, PlanningFails, PlansAreSound, Ended
  <2>7. CASE PlannerAccepts(answer)
    <3>1. SoundPlan(current, answer.plan) /\ answer.plan.schema = current
      BY <2>3, <2>7 DEF PlannerAccepts, Sound, SoundPlan
    <3>2. Listing(plans') /\ Range(plans') = Range(plans) \union {answer.plan}
      <4>1. plans' = plans \o <<answer.plan>>
        BY <2>7 DEF PlannerAccepts, Typing, Listing
      <4>2. Listing(<<answer.plan>>) /\ Range(<<answer.plan>>) = {answer.plan}
        BY OneField
      <4> QED
        BY <4>1, <4>2, ListingsConcat DEF Typing
    <3>3. \A p \in Range(plans') : p.schema \in Nodes /\ SoundPlan(p.schema, p)
      BY <2>2, <3>1, <3>2 DEF Typing, PlansAreSound
    <3>4. queue' \in Seq(Nodes)
      BY <2>4, <2>7, NodesConcat DEF Typing, PlannerAccepts
    <3>5. deps' \in Seq(Nodes) /\ tried' \in 0..(NumComposite - 1)
      BY <2>7 DEF PlannerAccepts, NumComposite
    <3> QED
      BY <1>1, <1>2, <1>3, <2>7, <3>2, <3>3, <3>4, <3>5 DEF Typing, PlannerAccepts
  <2>8. CASE PlannerHangs(answer)
    <3>1. Nonsense
      BY <2>3, <2>8 DEF PlannerHangs, Sound
    <3> QED
      BY <1>1, <1>2, <1>3, <2>8, <3>1 DEF Typing, PlannerHangs, PlansAreSound, planning, Ended
  <2> QED
    BY <2>1, <2>5, <2>6, <2>7, <2>8
<1>g. CASE Finish
  BY <1>1, <1>2, <1>3, <1>g DEF Typing, Finish, PlansAreSound, planning, Ended
<1>h. CASE UNCHANGED vars
  BY <1>1, <1>2, <1>3, <1>h DEF Typing, PlansAreSound, vars, planning
<1> QED
  BY <1>a, <1>b, <1>c, <1>d, <1>e, <1>f, <1>g, <1>h DEF Next, Stopped

THEOREM TypingHolds == Spec => []Typing
BY TypingInit, TypingNext, PTL DEF Spec
-----------------------------------------------------------------------------
(* TypeOK: whatever the documents, every variable keeps to what the crawl  *)
(* of internal/crawl/crawl.go puts there; no plan is nil.                  *)
THEOREM TypeCorrect == Spec => []TypeOK
<1>1. Typing => TypeOK
  <2> SUFFICES ASSUME Typing PROVE TypeOK
    OBVIOUS
  <2>1. DOMAIN doc = Nodes
    BY DocsAreTyped DEF Typing, Rigid
  <2>2. Len(uris) \in 0..NumRoots /\ Range(uris) \subseteq Nodes \union {Broken}
    BY RootListsHaveOneLength DEF Typing, Refs, Range
  <2>3. Range(queue) \subseteq Nodes /\ Range(deps) \subseteq Nodes
    BY DEF Typing, Range
  <2>4. NoPlan \notin Range(plans)
    BY DEF Typing, PlansAreSound, SoundPlan
  <2> QED
    BY <2>1, <2>2, <2>3, <2>4 DEF Typing, TypeOK
<1> QED
  BY <1>1, TypingHolds, PTL

(* RequiredIsChecked: of any document, the struct that PlanObject or       *)
(* PlanAllOfObject plans checks every required property that its schema or *)
(* a member of its allOf describes.                                        *)
THEOREM StructsCheckRequired == Spec => []RequiredIsChecked
<1>1. Typing => RequiredIsChecked
  BY DEF Typing, PlansAreSound, SoundPlan, RequiredIsChecked
<1> QED
  BY <1>1, TypingHolds, PTL

(* OneOfIsDecidable: of any document, a oneOf that PlanOneOfDiffTypes      *)
(* accepts has no two members that begin alike in JSON.                    *)
THEOREM OneOfsCanBeRead == Spec => []OneOfIsDecidable
<1>1. Typing => OneOfIsDecidable
  BY DEF Typing, PlansAreSound, SoundPlan, OneOfIsDecidable
<1> QED
  BY <1>1, TypingHolds, PTL

(* OnlyNonsenseHangs: DetectSimpleType leaves its loop unless a schema of  *)
(* unknown "type" has an allOf.                                            *)
THEOREM SenseIsPlanned == Spec => []OnlyNonsenseHangs
<1>1. Typing => OnlyNonsenseHangs
  BY DEF Typing, Nonsense, OnlyNonsenseHangs
<1> QED
  BY <1>1, TypingHolds, PTL
-----------------------------------------------------------------------------
(* The groups of the plans, of both crawls: g[k] is the group of path      *)
(* after k plans.                                                          *)
Grouping(g, ps, path, n) ==
  g = [k \in 0..n |->
         IF k = 0 THEN <<>>
         ELSE IF ps[k].type.path = path THEN Append(g[k - 1], ps[k]) ELSE g[k - 1]]
AbstractGrouping(g, ps, path, n) ==
  g = [k \in 0..n |->
         IF k = 0 THEN <<>>
         ELSE IF ps[k].path = path THEN Append(g[k - 1], ps[k]) ELSE g[k - 1]]

PlanByPlan(as, ps, n) == \A i \in 1..n : as[i] = Abstract(ps[i])
EndsAs(f, g, n) == f[n] = AbstractAll(g[n])

LEMMA GroupingExists ==
  ASSUME NEW n \in Nat, NEW ps, NEW path
  PROVE  \E g : Grouping(g, ps, path, n)
<1> DEFINE S == {k \in Nat : \E g : Grouping(g, ps, path, k)}
<1>1. 0 \in S
  <2>1. Grouping([k \in 0..0 |-> <<>>], ps, path, 0)
    BY DEF Grouping
  <2> QED
    BY <2>1
<1>2. ASSUME NEW k \in Nat, k \in S PROVE k + 1 \in S
  <2>1. PICK g : Grouping(g, ps, path, k)
    BY <1>2
  <2> DEFINE one(s, x) == IF x.type.path = path THEN Append(s, x) ELSE s
             h == [i \in 0..(k + 1) |-> IF i = k + 1 THEN one(g[k], ps[k + 1]) ELSE g[i]]
  <2>2. ASSUME NEW i \in 0..(k + 1)
        PROVE  h[i] = IF i = 0 THEN <<>> ELSE one(h[i - 1], ps[i])
    <3>1. CASE i = k + 1
      BY <3>1
    <3>2. CASE i # k + 1
      <4>1. i \in 0..k /\ h[i] = g[i] /\ (i # 0 => h[i - 1] = g[i - 1])
        BY <3>2
      <4> HIDE DEF h
      <4> QED
        BY <2>1, <4>1 DEF Grouping
    <3> QED
      BY <3>1, <3>2
  <2>3. Grouping(h, ps, path, k + 1)
    <3>1. DOMAIN h = 0..(k + 1) /\ h = [i \in 0..(k + 1) |-> h[i]]
      OBVIOUS
    <3> HIDE DEF h
    <3> QED
      BY <2>2, <3>1 DEF Grouping
  <2> QED
    BY <2>3
<1> HIDE DEF S
<1>3. n \in S
  BY <1>1, <1>2, InductionOnSet
<1> QED
  BY <1>3 DEF S

LEMMA WhatIsAppended ==
  ASSUME NEW s, Listing(s), NEW x
  PROVE  /\ Append(s, x) = s \o <<x>>
         /\ Append(s, x) = [i \in 1..(Len(s) + 1) |-> IF i = Len(s) + 1 THEN x ELSE s[i]]
<1>1. s \in Seq(Range(s) \union {x}) /\ x \in Range(s) \union {x}
  <2>1. s \in Seq(Range(s))
    BY DEF Listing
  <2> QED
    BY <2>1
<1> DEFINE S == Range(s) \union {x}
<1>2. s \in Seq(S) /\ x \in S
  BY <1>1
<1> HIDE DEF S
<1>3. Append(s, x) = s \o <<x>>
  BY <1>2
<1>4. Append(s, x) = [i \in 1..(Len(s) + 1) |-> IF i = Len(s) + 1 THEN x ELSE s[i]]
  <2>1. /\ Append(s, x) \in Seq(S) /\ Len(Append(s, x)) = Len(s) + 1
        /\ \A i \in 1..Len(s) : Append(s, x)[i] = s[i]
        /\ Append(s, x)[Len(s) + 1] = x
    BY <1>2, AppendProperties
  <2> DEFINE r == Append(s, x)
  <2> HIDE DEF r
  <2>2. DOMAIN r = 1..(Len(s) + 1) /\ r = [i \in 1..(Len(s) + 1) |-> r[i]] /\ Len(s) \in Nat
    <3>1. r \in Seq(S) /\ Len(r) = Len(s) + 1
      BY <2>1 DEF r
    <3>2. r = [i \in 1..Len(r) |-> r[i]] /\ DOMAIN r = 1..Len(r)
      BY <3>1
    <3>3. Len(s) \in Nat
      BY <1>2
    <3> QED
      BY <3>1, <3>2, <3>3, Zenon
  <2>3. \A i \in 1..(Len(s) + 1) : r[i] = IF i = Len(s) + 1 THEN x ELSE s[i]
    <3>1. \A i \in 1..(Len(s) + 1) : i # Len(s) + 1 => i \in 1..Len(s)
      BY <2>2
    <3> QED
      BY <2>1, <3>1 DEF r
  <2> QED
    BY <2>2, <2>3 DEF r
<1> QED
  BY <1>3, <1>4

LEMMA AbstractAppend ==
  ASSUME NEW s, Listing(s), NEW p
  PROVE  AbstractAll(Append(s, p)) = Append(AbstractAll(s), Abstract(p))
<1> DEFINE n == Len(s)   a == AbstractAll(s)   r == Append(s, p)
<1>1. /\ n \in Nat /\ DOMAIN s = 1..n
      /\ DOMAIN r = 1..(n + 1) /\ \A i \in 1..(n + 1) : r[i] = IF i = n + 1 THEN p ELSE s[i]
  BY DEF Listing
<1>2. a = [i \in 1..n |-> a[i]] /\ \A i \in 1..n : a[i] = Abstract(s[i])
  BY <1>1 DEF AbstractAll
<1>3. AbstractAll(r) = [i \in 1..(n + 1) |-> IF i = n + 1 THEN Abstract(p) ELSE Abstract(s[i])]
  BY <1>1 DEF AbstractAll
<1> HIDE DEF a, n, r
<1>4. Listing(a) /\ Len(a) = n
  BY <1>1, <1>2, DomainIsLength
<1>5. Append(a, Abstract(p)) = [i \in 1..(n + 1) |-> IF i = n + 1 THEN Abstract(p) ELSE a[i]]
  <2>1. Append(a, Abstract(p)) =
          [i \in 1..(Len(a) + 1) |-> IF i = Len(a) + 1 THEN Abstract(p) ELSE a[i]]
    BY <1>4, WhatIsAppended, Zenon
  <2> QED
    BY <1>4, <2>1, Zenon
<1> QED
  BY <1>1, <1>2, <1>3, <1>5 DEF a, r

LEMMA GroupingIsUnique ==
  ASSUME NEW n \in Nat, NEW as, NEW path, NEW f, NEW h,
         AbstractGrouping(f, as, path, n), AbstractGrouping(h, as, path, n)
  PROVE  f[n] = h[n]
<1>1. ASSUME NEW g, AbstractGrouping(g, as, path, n), NEW k \in 0..n
      PROVE  g[k] = IF k = 0 THEN <<>>
                    ELSE IF as[k].path = path THEN Append(g[k - 1], as[k]) ELSE g[k - 1]
  BY <1>1, Zenon DEF AbstractGrouping
<1> DEFINE S == {k \in Nat : k <= n => f[k] = h[k]}
<1>2. 0 \in S
  <2>1. f[0] = <<>> /\ h[0] = <<>>
    <3>1. 0 \in 0..n
      OBVIOUS
    <3> QED
      BY <1>1, <3>1, Zenon
  <2> QED
    BY <2>1
<1>3. ASSUME NEW k \in Nat, k \in S PROVE k + 1 \in S
  <2> SUFFICES ASSUME k + 1 <= n PROVE f[k + 1] = h[k + 1]
    OBVIOUS
  <2>1. f[k] = h[k] /\ k + 1 \in 0..n /\ k + 1 # 0 /\ k + 1 - 1 = k
    BY <1>3
  <2> HIDE DEF S
  <2>2. ASSUME NEW g, AbstractGrouping(g, as, path, n)
        PROVE  g[k + 1] = IF as[k + 1].path = path THEN Append(g[k], as[k + 1]) ELSE g[k]
    <3> DEFINE j == k + 1
    <3> HIDE DEF j
    <3>1. j \in 0..n /\ j # 0 /\ j - 1 = k
      BY <2>1 DEF j
    <3>2. g[j] = IF j = 0 THEN <<>>
                 ELSE IF as[j].path = path THEN Append(g[j - 1], as[j]) ELSE g[j - 1]
      BY <1>1, <2>2, <3>1, Zenon
    <3>3. g[j] = IF as[j].path = path THEN Append(g[k], as[j]) ELSE g[k]
      BY <3>1, <3>2, Zenon
    <3> QED
      BY <3>3, Zenon DEF j
  <2> QED
    BY <2>1, <2>2
<1> HIDE DEF S
<1>4. n \in S
  BY <1>2, <1>3, InductionOnSet
<1> QED
  BY <1>4 DEF S

(* Both crawls group alike: the abstract group is what the group becomes.  *)
LEMMA GroupsAreAbstracted ==
  ASSUME NEW n \in Nat, NEW ps, NEW as, NEW path, NEW g,
         PlanByPlan(as, ps, n), Grouping(g, ps, path, n)
  PROVE  \E f : AbstractGrouping(f, as, path, n) /\ EndsAs(f, g, n)
<1> DEFINE h == [k \in 0..n |-> AbstractAll(g[k])]
<1>1. \A k \in 0..n : h[k] = AbstractAll(g[k])
  OBVIOUS
<1>2. DOMAIN h = 0..n /\ h = [k \in 0..n |-> h[k]]
  OBVIOUS
<1> HIDE DEF h
<1>3. /\ g[0] = <<>>
      /\ \A k \in 1..n : g[k] = IF ps[k].type.path = path THEN Append(g[k - 1], ps[k]) ELSE g[k - 1]
  <2>1. \A k \in 0..n : g[k] = IF k = 0 THEN <<>>
         ELSE IF ps[k].type.path = path THEN Append(g[k - 1], ps[k]) ELSE g[k - 1]
    BY Zenon DEF Grouping
  <2> QED
    BY <2>1
<1>4. \A k \in 0..n : Listing(g[k])
  <2> DEFINE S == {k \in Nat : k <= n => Listing(g[k])}
  <2>1. 0 \in S
    <3>1. Listing(<<>>)
      BY DEF Listing
    <3> QED
      BY <1>3, <3>1
  <2>2. ASSUME NEW k \in Nat, k \in S PROVE k + 1 \in S
    <3> SUFFICES ASSUME k + 1 <= n PROVE Listing(g[k + 1])
      OBVIOUS
    <3>1. Listing(g[k]) /\ k + 1 \in 1..n /\ k + 1 - 1 = k
      BY <2>2
    <3>2. g[k + 1] = IF ps[k + 1].type.path = path THEN Append(g[k], ps[k + 1]) ELSE g[k]
      BY <1>3, <3>1
    <3>3. Append(g[k], ps[k + 1]) = g[k] \o <<ps[k + 1]>>
      BY <3>1, WhatIsAppended
    <3>4. Listing(<<ps[k + 1]>>)
      BY OneField
    <3>5. Listing(g[k] \o <<ps[k + 1]>>)
      BY <3>1, <3>4, ListingsConcat
    <3> QED
      BY <3>1, <3>2, <3>3, <3>5
  <2> HIDE DEF S
  <2>3. \A k \in Nat : k \in S
    BY <2>1, <2>2, InductionOnSet
  <2> QED
    BY <2>3 DEF S
<1>5. h[0] = <<>>
  <2>1. AbstractAll(<<>>) = <<>>
    BY DEF AbstractAll
  <2>2. 0 \in 0..n
    OBVIOUS
  <2> QED
    BY <1>1, <1>3, <2>1, <2>2
<1>6. ASSUME NEW k \in 1..n
      PROVE  h[k] = IF as[k].path = path THEN Append(h[k - 1], as[k]) ELSE h[k - 1]
  <2>1. k - 1 \in 0..n /\ k \in 0..n /\ Listing(g[k - 1])
    BY <1>4
  <2>2. h[k] = AbstractAll(g[k]) /\ h[k - 1] = AbstractAll(g[k - 1])
    BY <1>1, <2>1
  <2>3. AbstractAll(Append(g[k - 1], ps[k])) = Append(AbstractAll(g[k - 1]), Abstract(ps[k]))
    BY <2>1, AbstractAppend
  <2>4. as[k] = Abstract(ps[k]) /\ as[k].path = ps[k].type.path
    <3>1. \A p : Abstract(p).path = p.type.path
      BY DEF Abstract
    <3>2. as[k] = Abstract(ps[k])
      BY DEF PlanByPlan
    <3> QED
      BY <3>1, <3>2
  <2> QED
    BY <1>3, <2>2, <2>3, <2>4
<1>7. AbstractGrouping(h, as, path, n)
  <2>2. \A k \in 0..n : h[k] = IF k = 0 THEN <<>>
          ELSE IF as[k].path = path THEN Append(h[k - 1], as[k]) ELSE h[k - 1]
    <3>1. \A k \in 0..n : k # 0 => k \in 1..n
      OBVIOUS
    <3> QED
      BY <1>5, <1>6, <3>1
  <2> QED
    BY <1>2, <2>2, Zenon DEF AbstractGrouping
<1>8. h[n] = AbstractAll(g[n])
  BY <1>1
<1> QED
  BY <1>7, <1>8 DEF EndsAs

LEMMA OneGroupRefines ==
  ASSUME NEW n \in Nat, NEW ps, NEW as, NEW path,
         PlanByPlan(as, ps, n)
  PROVE  AbstractAll((CHOOSE g : Grouping(g, ps, path, n))[n])
           = (CHOOSE g : AbstractGrouping(g, as, path, n))[n]
<1> DEFINE own == CHOOSE g : Grouping(g, ps, path, n)
           abstract == CHOOSE g : AbstractGrouping(g, as, path, n)
<1>1. Grouping(own, ps, path, n)
  BY GroupingExists, Zenon
<1> HIDE DEF own
<1>2. PICK f : AbstractGrouping(f, as, path, n) /\ EndsAs(f, own, n)
  BY <1>1, GroupsAreAbstracted, Zenon
<1>3. AbstractGrouping(abstract, as, path, n)
  BY <1>2, Zenon
<1> HIDE DEF abstract
<1>4. f[n] = abstract[n]
  BY <1>2, <1>3, GroupingIsUnique, Zenon
<1> QED
  BY <1>2, <1>4 DEF own, abstract, EndsAs

LEMMA GroupsRefine ==
  ASSUME NEW ps, Listing(ps)
  PROVE  [path \in DOMAIN GroupByPath(ps) |-> AbstractAll(GroupByPath(ps)[path])]
           = C!GroupByPath(AbstractAll(ps))
<1> DEFINE n == Len(ps)
           as == AbstractAll(ps)
           Of(path) == CHOOSE g : Grouping(g, ps, path, n)
           AbstractOf(path) == CHOOSE g : AbstractGrouping(g, as, path, n)
           paths == {ps[i].type.path : i \in DOMAIN ps}
<1>1. n \in Nat /\ DOMAIN ps = 1..n
  BY DEF Listing
<1>a. as = [i \in 1..n |-> as[i]]
  BY <1>1 DEF AbstractAll
<1>2. \A i \in 1..n : as[i] = Abstract(ps[i])
  BY <1>1 DEF AbstractAll
<1>3. GroupByPath(ps) = [path \in paths |-> Of(path)[n]]
  BY DEF GroupByPath, Grouping
<1> HIDE DEF as
<1>4. Len(as) = n /\ DOMAIN as = 1..n
  BY <1>1, <1>a, DomainIsLength
<1>5. {as[i].path : i \in DOMAIN as} = paths
  <2>1. \A p : Abstract(p).path = p.type.path
    BY DEF Abstract
  <2>2. \A i \in 1..n : as[i].path = ps[i].type.path
    BY <1>2, <2>1
  <2> QED
    BY <1>1, <1>4, <2>2
<1>6. C!GroupByPath(as) = [path \in paths |-> AbstractOf(path)[n]]
  <2>1. C!GroupByPath(as) =
          [path \in {as[i].path : i \in DOMAIN as} |->
             (CHOOSE g : AbstractGrouping(g, as, path, Len(as)))[Len(as)]]
    BY DEF C!GroupByPath, AbstractGrouping
  <2> QED
    BY <1>4, <1>5, <2>1, Zenon
<1> HIDE DEF n, Of, AbstractOf, paths
<1>7. \A path : AbstractAll(Of(path)[n]) = AbstractOf(path)[n]
  BY <1>1, <1>2, OneGroupRefines DEF Of, AbstractOf, PlanByPlan
<1>8. DOMAIN GroupByPath(ps) = paths /\ \A path \in paths : GroupByPath(ps)[path] = Of(path)[n]
  BY <1>3
<1> QED
  BY <1>6, <1>7, <1>8 DEF as

(* What Crawl sees of the state changes with the state.                    *)
LEMMA RefinesInit == Init => C!Init
<1> SUFFICES ASSUME Init PROVE C!Init
  OBVIOUS
<1> USE DEF Init
<1>1. [n \in Nodes |-> Id(n)] \in [Nodes -> Ids]
  BY DocsAreTyped DEF Id, Schema
<1>2. Len(uris) = NumRoots
  BY RootListsHaveOneLength
<1>3. AbstractAll(plans) = <<>>
  BY DEF AbstractAll
<1>4. [path \in DOMAIN grouped |-> AbstractAll(grouped[path])] = <<>>
  OBVIOUS
<1> QED
  BY <1>1, <1>2, <1>3, <1>4 DEF C!Init

LEMMA RefinesNext ==
  ASSUME Deps = Seq(Nodes), Typing, [Next \/ Stopped]_vars
  PROVE  [C!Next \/ C!Stopped]_C!vars
<1> DEFINE groups == [path \in DOMAIN grouped |-> AbstractAll(grouped[path])]
           ids == [n \in Nodes |-> Id(n)]
           excluded == {n \in Nodes : doc[n].exclude}
           at == IF pc = "hung" THEN "plan" ELSE pc
<1>0. doc' = doc /\ types' = types
  BY DEF Next, Stopped, vars, LoadRoot, LoadFails, AllLoaded, PassOver, Pop, TryPlanner, Finish,
         PlannerDeclines, PlanningFails, PlannerAccepts, PlannerHangs
<1>1. ids' = ids /\ excluded' = excluded
  BY <1>0 DEF Id
<1>2. \A n \in Nodes : ids[n] = Id(n) /\ (n \in excluded <=> doc[n].exclude)
  OBVIOUS
<1>3. plans' = plans => AbstractAll(plans)' = AbstractAll(plans)
  BY DEF AbstractAll, Abstract
<1>4. grouped' = grouped => groups' = groups
  BY DEF AbstractAll, Abstract
<1>5. uris' = uris => Len(uris)' = Len(uris)
  OBVIOUS
<1>6. pc # "hung" => at = pc
  OBVIOUS
<1>7. pc' # "hung" => at' = pc'
  OBVIOUS
<1> HIDE DEF ids, excluded, groups, at
<1> USE DEF C!vars, C!rigid, C!planning, planning
<1>a. CASE LoadRoot
  <2>1. uris \in Seq(Refs) /\ uris # <<>> /\ uris' = Tail(uris)
    BY <1>a DEF Typing, LoadRoot
  <2>2. Head(uris) \in Nodes
    BY <1>a, <2>1 DEF LoadRoot, Refs
  <2>3. Len(uris) > 0 /\ Len(uris)' = Len(uris) - 1
    BY <2>1
  <2>4. C!LoadRoot
    BY <1>1, <1>3, <1>4, <1>6, <1>7, <1>a, <2>2, <2>3 DEF LoadRoot, C!LoadRoot, ids, excluded, groups, at
  <2> QED
    BY <2>4 DEF C!Next
<1>b. CASE LoadFails
  <2>1. Len(uris) > 0
    BY <1>b DEF Typing, LoadFails
  <2>2. C!LoadFails
    BY <1>1, <1>3, <1>4, <1>5, <1>6, <1>7, <1>b, <2>1
       DEF LoadFails, C!LoadFails, ids, excluded, groups, at
  <2> QED
    BY <2>2 DEF C!Next
<1>c. CASE AllLoaded
  <2>1. Len(uris) = 0
    BY <1>c DEF AllLoaded
  <2>2. C!AllLoaded
    BY <1>1, <1>3, <1>4, <1>5, <1>6, <1>7, <1>c, <2>1
       DEF AllLoaded, C!AllLoaded, ids, excluded, groups, at
  <2> QED
    BY <2>2 DEF C!Next
<1>d. CASE PassOver
  <2>1. Head(queue) \in Nodes
    BY <1>d DEF Typing, PassOver
  <2>2. at = "pop" /\ at' = at /\ ids[Head(queue)] = Id(Head(queue))
        /\ (Head(queue) \in excluded <=> doc[Head(queue)].exclude)
    BY <1>2, <1>6, <1>7, <1>d, <2>1 DEF PassOver
  <2>3. CASE Id(Head(queue)) \in seen
    <3>1. seen' = seen
      BY <1>d, <2>3 DEF PassOver
    <3>2. C!PopSeen
      BY <1>1, <1>3, <1>4, <1>5, <1>d, <2>2, <2>3, <3>1
         DEF PassOver, C!PopSeen, ids, excluded, groups, at
    <3> QED
      BY <3>2 DEF C!Next
  <2>4. CASE Id(Head(queue)) \notin seen
    <3>1. C!PopExcluded
      BY <1>1, <1>3, <1>4, <1>5, <1>d, <2>2, <2>4
         DEF PassOver, C!PopExcluded, ids, excluded, groups, at
    <3> QED
      BY <3>1 DEF C!Next
  <2> QED
    BY <2>3, <2>4
<1>e. CASE Pop
  <2>1. Head(queue) \in Nodes
    BY <1>e DEF Typing, Pop
  <2>2. at = "pop" /\ at' = "plan" /\ ids[Head(queue)] = Id(Head(queue))
        /\ Head(queue) \notin excluded
    BY <1>2, <1>6, <1>7, <1>e, <2>1 DEF Pop
  <2>3. C!PopNew
    BY <1>1, <1>3, <1>4, <1>5, <1>e, <2>2 DEF Pop, C!PopNew, ids, excluded, groups, at
  <2> QED
    BY <2>3 DEF C!Next
<1>f. CASE TryPlanner
  <2> DEFINE answer == Composite(tried + 1, current)
  <2>1. /\ pc = "plan"
        /\ \/ PlannerDeclines(answer) \/ PlanningFails(answer)
           \/ PlannerAccepts(answer) \/ PlannerHangs(answer)
    BY <1>f DEF TryPlanner
  <2>2. current \in Nodes /\ tried \in Nat /\ tried + 1 \in 1..NumComposite
    BY <2>1 DEF Typing, NumComposite
  <2>3. Sound(current, answer)
    BY <2>2, CompositeIsSound DEF Typing
  <2> HIDE DEF answer
  <2>4. at = "plan" /\ answer.deps \in Deps
    BY <1>6, <2>1, <2>3 DEF Sound
  <2>5. CASE PlannerDeclines(answer)
    <3>1. at' = at
      BY <1>7, <2>1, <2>4, <2>5 DEF PlannerDeclines
    <3>2. \E d \in Deps : C!NameDeps(d)
      <4>1. C!NameDeps(answer.deps)
        BY <2>5 DEF PlannerDeclines, NameDeps, C!NameDeps, Range, C!Range
      <4> QED
        BY <2>4, <4>1
    <3>3. C!PlannerDeclines
      BY <1>1, <1>3, <1>4, <1>5, <2>4, <2>5, <3>1, <3>2
         DEF PlannerDeclines, C!PlannerDeclines, ids, excluded, groups, at
    <3> QED
      BY <3>3 DEF C!Next
  <2>6. CASE PlanningFails(answer)
    <3>1. at' = "failed"
      BY <1>7, <2>6 DEF PlanningFails
    <3>2. \E d \in Deps : C!NameDeps(d)
      <4>1. C!NameDeps(answer.deps)
        BY <2>6 DEF PlanningFails, NameDeps, C!NameDeps, Range, C!Range
      <4> QED
        BY <2>4, <4>1
    <3>3. C!PlanningFails
      BY <1>1, <1>3, <1>4, <1>5, <2>4, <2>6, <3>1, <3>2
         DEF PlanningFails, C!PlanningFails, ids, excluded, groups, at
    <3> QED
      BY <3>3 DEF C!Next
  <2>7. CASE PlannerAccepts(answer)
    <3>1. at' = "pop" /\ answer.plan.type.path \in Paths /\ answer.plan.schema = current
      BY <1>7, <2>3, <2>7 DEF PlannerAccepts, Sound, SoundPlan
    <3>2. AbstractAll(plans)' =
            Append(AbstractAll(plans), [schema |-> current, path |-> answer.plan.type.path])
      <4>1. AbstractAll(plans') = AbstractAll(plans)'
        BY DEF AbstractAll, Abstract
      <4>2. AbstractAll(Append(plans, answer.plan))
              = Append(AbstractAll(plans), Abstract(answer.plan))
        BY AbstractAppend DEF Typing
      <4>3. Abstract(answer.plan) = [schema |-> current, path |-> answer.plan.type.path]
        BY <3>1 DEF Abstract
      <4> QED
        BY <2>7, <4>1, <4>2, <4>3 DEF PlannerAccepts
    <3>3. \E d \in Deps, p \in Paths :
            /\ queue' = queue \o (deps \o d)
            /\ named' = named \union {<<current, s>> : s \in C!Range(d)}
            /\ AbstractAll(plans)' = Append(AbstractAll(plans), [schema |-> current, path |-> p])
      <4> DEFINE path == answer.plan.type.path
      <4>1. path \in Paths
            /\ AbstractAll(plans)' = Append(AbstractAll(plans), [schema |-> current, path |-> path])
        BY <3>1, <3>2
      <4>2. /\ queue' = queue \o (deps \o answer.deps)
            /\ named' = named \union {<<current, s>> : s \in C!Range(answer.deps)}
        BY <2>7 DEF PlannerAccepts, NameDeps, Range, C!Range
      <4> HIDE DEF path
      <4> QED
        BY <2>4, <4>1, <4>2, Zenon
    <3>4. C!PlannerAccepts
      BY <1>1, <1>4, <1>5, <2>4, <2>7, <3>1, <3>3
         DEF PlannerAccepts, C!PlannerAccepts, ids, excluded, groups, at
    <3> QED
      BY <3>4 DEF C!Next
  <2>8. CASE PlannerHangs(answer)
    <3>1. at' = at
      BY <2>1, <2>8 DEF PlannerHangs, at
    <3> QED
      BY <1>1, <1>3, <1>4, <1>5, <2>8, <3>1 DEF PlannerHangs, ids, excluded, groups, at
  <2> QED
    BY <2>1, <2>5, <2>6, <2>7, <2>8
<1>g. CASE Finish
  <2>1. at = "pop" /\ at' = "done"
    BY <1>6, <1>7, <1>g DEF Finish
  <2>2. groups' = C!GroupByPath(AbstractAll(plans))
    <3>1. groups' = [path \in DOMAIN grouped' |-> AbstractAll(grouped'[path])]
      BY DEF groups, AbstractAll, Abstract
    <3>2. grouped' = GroupByPath(plans) /\ Listing(plans)
      BY <1>g DEF Finish, Typing
    <3> QED
      BY <3>1, <3>2, GroupsRefine
  <2>3. C!Finish
    BY <1>1, <1>3, <1>5, <1>g, <2>1, <2>2 DEF Finish, C!Finish, ids, excluded, groups, at
  <2> QED
    BY <2>3 DEF C!Next
<1>h. CASE UNCHANGED vars
  <2>1. at' = at
    BY <1>h DEF vars, at
  <2> QED
    BY <1>1, <1>3, <1>4, <1>5, <1>h, <2>1 DEF vars, ids, excluded, groups, at
<1> QED
  BY <1>a, <1>b, <1>c, <1>d, <1>e, <1>f, <1>g, <1>h DEF Next, Stopped

(* ImplementsCrawl: whatever the documents, each step of the detailed      *)
(* crawl is one that Crawl allows, or none.  Crawl asks what a planner may *)
(* name as a constant; here it may name what it likes.                     *)
THEOREM PlannersRefineCrawl ==
  ASSUME Deps = Seq(Nodes)
  PROVE  Spec => ImplementsCrawl
<1>1. Init => C!Init
  BY RefinesInit
<1>2. Typing /\ [Next \/ Stopped]_vars => [C!Next \/ C!Stopped]_C!vars
  BY RefinesNext
<1> QED
  BY <1>1, <1>2, TypingHolds, PTL DEF Spec, C!Spec, ImplementsCrawl
-----------------------------------------------------------------------------
(* Crawl once more, with its theorems.                                     *)
P == INSTANCE CrawlProofs WITH
       Schemas <- Nodes, NumPlanners <- NumComposite, NumUris <- NumRoots,
       id <- [n \in Nodes |-> Id(n)],
       excluded <- {n \in Nodes : doc[n].exclude},
       pc <- IF pc = "hung" THEN "plan" ELSE pc,
       uris <- Len(uris),
       plans <- AbstractAll(plans),
       grouped <- [path \in DOMAIN grouped |-> AbstractAll(grouped[path])]

(* P and C are one specification, with and without its theorems.           *)
LEMMA SameCrawl ==
  /\ C!Init <=> P!Init
  /\ [C!Next \/ C!Stopped]_C!vars <=> [P!Next \/ P!Stopped]_P!vars
<1>1. C!Init <=> P!Init
  BY DEF C!Init, P!Init
<1>2. C!LoadRoot <=> P!LoadRoot
  BY DEF C!LoadRoot, P!LoadRoot, C!rigid, P!rigid, C!planning, P!planning
<1>3. C!LoadFails <=> P!LoadFails
  BY DEF C!LoadFails, P!LoadFails, C!rigid, P!rigid, C!planning, P!planning
<1>4. C!AllLoaded <=> P!AllLoaded
  BY DEF C!AllLoaded, P!AllLoaded, C!rigid, P!rigid, C!planning, P!planning
<1>5. C!PopSeen <=> P!PopSeen
  BY DEF C!PopSeen, P!PopSeen, C!rigid, P!rigid, C!planning, P!planning
<1>6. C!PopExcluded <=> P!PopExcluded
  BY DEF C!PopExcluded, P!PopExcluded, C!rigid, P!rigid, C!planning, P!planning
<1>7. C!PopNew <=> P!PopNew
  BY DEF C!PopNew, P!PopNew, C!rigid, P!rigid, C!planning, P!planning
<1>8. C!PlannerDeclines <=> P!PlannerDeclines
  BY DEF C!PlannerDeclines, P!PlannerDeclines, C!rigid, P!rigid, C!planning,
       P!planning, C!NameDeps, P!NameDeps, C!Range, P!Range
<1>9. C!PlanningFails <=> P!PlanningFails
  BY DEF C!PlanningFails, P!PlanningFails, C!rigid, P!rigid, C!planning,
       P!planning, C!NameDeps, P!NameDeps, C!Range, P!Range
<1>10. C!PlannerReturnsNil <=> P!PlannerReturnsNil
  BY DEF C!PlannerReturnsNil, P!PlannerReturnsNil, C!rigid, P!rigid,
       C!planning, P!planning, C!NameDeps, P!NameDeps, C!Range, P!Range
<1>11. C!PlannerAccepts <=> P!PlannerAccepts
  BY DEF C!PlannerAccepts, P!PlannerAccepts, C!rigid, P!rigid, C!planning,
       P!planning, C!Range, P!Range
<1>12. C!Finish <=> P!Finish
  BY DEF C!Finish, P!Finish, C!rigid, P!rigid, C!planning, P!planning,
       C!GroupByPath, P!GroupByPath
<1>13. C!Stopped <=> P!Stopped
  BY DEF C!Stopped, P!Stopped, C!rigid, P!rigid, C!planning, P!planning,
       C!vars, P!vars, C!Ended, P!Ended
<1>14. C!vars = P!vars /\ (C!vars' = C!vars <=> P!vars' = P!vars)
  BY DEF C!vars, P!vars, C!rigid, P!rigid, C!planning, P!planning
<1> QED
  BY <1>1, <1>2, <1>3, <1>4, <1>5, <1>6, <1>7, <1>8, <1>9, <1>10, <1>11,
       <1>12, <1>13, <1>14 DEF C!Next, P!Next

LEMMA SamePromises ==
  /\ C!PlannedOnce <=> P!PlannedOnce
  /\ C!Complete <=> P!Complete
  /\ C!Justified <=> P!Justified
<1>1. C!PlannedOnce <=> P!PlannedOnce
  BY DEF C!PlannedOnce, P!PlannedOnce
<1>2. C!Reached = P!Reached
  BY DEF C!Reached, P!Reached
<1>3. \A i : C!Passed(i) <=> P!Passed(i)
  BY <1>2 DEF C!Passed, P!Passed
<1>4. C!Complete <=> P!Complete
  BY <1>2, <1>3 DEF C!Complete, P!Complete
<1>5. \A n : C!NamedBefore(n) <=> P!NamedBefore(n)
  BY DEF C!NamedBefore, P!NamedBefore
<1>6. C!Justified <=> P!Justified
  BY <1>5 DEF C!Justified, P!Justified
<1> QED
  BY <1>1, <1>4, <1>6

(* What Crawl promises, for the crawl with the real planners: no ID is     *)
(* planned twice, nothing that was named is missing where the crawl        *)
(* succeeds, and nothing is planned without a reason.                      *)
THEOREM CrawlsPromisesHold ==
  ASSUME Deps = Seq(Nodes)
  PROVE  Spec => [](C!PlannedOnce /\ C!Complete /\ C!Justified)
<1>1. Spec => C!Spec
  BY PlannersRefineCrawl DEF ImplementsCrawl
<1>2. C!Spec => P!Spec
  BY SameCrawl, PTL DEF C!Spec, P!Spec
<1>3. /\ NumComposite \in Nat \ {0} /\ NumRoots \in Nat
      /\ Deps \subseteq Seq(Nodes) /\ NoOne \notin Nodes
  BY DepsAreNodes, NoOneIsNoNode, RootListsHaveOneLength DEF NumComposite
<1>4. P!Spec => []P!PlannedOnce
  BY <1>3, P!IdsArePlannedOnce
<1>5. P!Spec => []P!Complete
  BY <1>3, P!CrawlIsComplete
<1>6. P!Spec => []P!Justified
  BY <1>3, P!PlansAreJustified
<1> QED
  BY <1>1, <1>2, <1>4, <1>5, <1>6, SamePromises, PTL
-----------------------------------------------------------------------------
(* A step of the detailed crawl is one of the abstract crawl and not just  *)
(* a stutter of it, but for that of a planner which hangs.                 *)
LEMMA StepsAreSteps ==
  ASSUME Typing, Next, pc' # "hung"
  PROVE  ~ UNCHANGED P!vars
<1> SUFFICES \/ Len(uris') # Len(uris) \/ pc' # pc
             \/ queue' # queue \/ tried' # tried
  <2>1. pc # "hung"
    BY DEF Next, LoadRoot, LoadFails, AllLoaded, PassOver, Pop, TryPlanner, Finish
  <2>2. (IF pc' = "hung" THEN "plan" ELSE pc') = (IF pc = "hung" THEN "plan" ELSE pc)
          <=> pc' = pc
    BY <2>1
  <2> QED
    BY <2>2 DEF P!vars, P!planning
<1>1. CASE LoadRoot
  <2>1. uris \in Seq(Refs) /\ uris # <<>>
    BY <1>1 DEF LoadRoot, Typing
  <2>2. Len(Tail(uris)) # Len(uris)
    BY <2>1, HeadTailProperties
  <2> QED
    BY <1>1, <2>2 DEF LoadRoot
<1>2. CASE PassOver
  <2>1. queue \in Seq(Nodes) /\ queue # <<>>
    BY <1>2 DEF PassOver, Typing
  <2>2. Len(Tail(queue)) # Len(queue)
    BY <2>1, HeadTailProperties
  <2> QED
    BY <1>2, <2>2 DEF PassOver
<1>3. CASE LoadFails \/ AllLoaded \/ Pop \/ Finish
  BY <1>3 DEF LoadFails, AllLoaded, Pop, Finish
<1>4. CASE TryPlanner
  <2>1. PICK answer : \/ PlannerDeclines(answer) \/ PlanningFails(answer)
                      \/ PlannerAccepts(answer) \/ PlannerHangs(answer)
    BY <1>4 DEF TryPlanner
  <2>2. tried \in Nat
    BY DEF Typing, NumComposite
  <2> QED
    BY <1>4, <2>1, <2>2
       DEF TryPlanner, PlannerDeclines, PlanningFails, PlannerAccepts, PlannerHangs
<1> QED
  BY <1>1, <1>2, <1>3, <1>4 DEF Next

(* The crawl with the real planners runs out, whatever refers to what: a   *)
(* step lowers the rank of Crawl, or is that of a planner which hangs, and *)
(* OnlyNonsenseHangs says over which documents one does.                   *)
THEOREM GenerationRunsOut ==
  ASSUME Deps = Seq(Nodes), IsFiniteSet(Ids)
  PROVE  Spec => [][\/ P!Below(P!Rank', P!Rank) /\ P!Rank \in P!Ranks
                    \/ pc' = "hung"]_vars
<1>1. Spec => C!Spec
  BY PlannersRefineCrawl DEF ImplementsCrawl
<1>2. C!Spec => P!Spec
  BY SameCrawl, PTL DEF C!Spec, P!Spec
<1>3. /\ NumComposite \in Nat \ {0} /\ NumRoots \in Nat
      /\ Deps \subseteq Seq(Nodes) /\ NoOne \notin Nodes
  BY DepsAreNodes, NoOneIsNoNode, RootListsHaveOneLength DEF NumComposite
<1>4. P!Spec => [][P!Below(P!Rank', P!Rank) /\ P!Rank \in P!Ranks]_P!vars
  <2>1. P!IsFiniteSet(Ids)
    BY DEF IsFiniteSet, P!IsFiniteSet
  <2> QED
    BY <1>3, <2>1, P!CrawlRunsOut
<1>5. /\ Typing /\ [Next \/ Stopped]_vars
      /\ [P!Below(P!Rank', P!Rank) /\ P!Rank \in P!Ranks]_P!vars
      => [\/ P!Below(P!Rank', P!Rank) /\ P!Rank \in P!Ranks
          \/ pc' = "hung"]_vars
  BY StepsAreSteps DEF Stopped
<1> QED
  BY <1>1, <1>2, <1>4, <1>5, TypingHolds, PTL DEF Spec
-----------------------------------------------------------------------------
(* What is mentioned is named, and what is named is declared.              *)

(* Schema m stands for type t: it is of that type, or it is of none and a  *)
(* member of its oneOf is.  A type that is mentioned is accounted for by   *)
(* the schemas D if one of them stands for it.                             *)
StandsFor(m, t) ==
  \/ Declares(types[m].go, t)
  \/ types[m].go = NoType /\ \E g \in TypesOfOneOf(m) : Declares(g, t)
Accounted(t, D) == OfSchema(t) => \E m \in D : StandsFor(m, t)

(* A step names the schemas of the types that it mentions.                 *)
Names(s) == \A f \in Range(s.fields) : Accounted(f.type, Range(s.deps))

(* So does the plan p of n, which is declared under the name of n; if n    *)
(* itself has no Go type, the typed members of its oneOf are named too.    *)
NamesFor(n, p, D) ==
  /\ D \subseteq Nodes
  /\ p.type \in {types[n].go, TypeInfoHinted(n, "object")}
  /\ \A t \in Mentioned(p) : Accounted(t, D)
  /\ types[n].go = NoType =>
       \A m \in Range(doc[n].oneOf) \ {Broken} : IsBuiltin(types[m].go) \/ m \in D
AnswerNames(n, answer) ==
  answer.err = "nil" => NamesFor(n, answer.plan, Range(answer.deps))

LEMMA AccountedGrows ==
  ASSUME NEW t, NEW D, NEW E, D \subseteq E, Accounted(t, D)
  PROVE  Accounted(t, E)
BY DEF Accounted

LEMMA NothingToName ==
  ASSUME NEW s, s.fields = <<>>
  PROVE  Names(s)
<1>1. Range(<<>>) = {}
  BY DEF Range
<1> QED
  BY <1>1 DEF Names

LEMMA CheckNames ==
  ASSUME NEW e
  PROVE  Names(Check(e))
BY NothingToName DEF Check, Step

LEMMA OneNames ==
  ASSUME NEW e, NEW ds, NEW f, Accounted(f.type, Range(ds))
  PROVE  Names(Step(e, ds, <<f>>))
<1>1. Range(<<f>>) = {f}
  BY OneField
<1> QED
  BY <1>1 DEF Names, Step

LEMMA ThenNames ==
  ASSUME NEW s, NEW t, IsStep(s), IsStep(t), Names(s), Names(t)
  PROVE  Names(Then(s, t))
<1>1. CASE s.err # "nil"
  BY <1>1 DEF Then
<1>2. CASE s.err = "nil"
  <2> DEFINE ds == s.deps \o t.deps
             fs == s.fields \o t.fields
  <2>1. Then(s, t).deps = ds /\ Then(s, t).fields = fs
    BY <1>2 DEF Then, Step
  <2>2. Range(ds) = Range(s.deps) \union Range(t.deps)
    BY NodesConcat DEF IsStep
  <2>3. Range(fs) = Range(s.fields) \union Range(t.fields)
    BY ListingsConcat DEF IsStep
  <2> HIDE DEF ds, fs
  <2>4. ASSUME NEW f \in Range(fs) PROVE Accounted(f.type, Range(ds))
    <3>1. CASE f \in Range(s.fields)
      BY <2>2, <3>1, AccountedGrows DEF Names
    <3>2. CASE f \in Range(t.fields)
      BY <2>2, <3>2, AccountedGrows DEF Names
    <3> QED
      BY <2>3, <2>4, <3>1, <3>2
  <2> QED
    BY <2>1, <2>4 DEF Names
<1> QED
  BY <1>1, <1>2

LEMMA InOrderNames ==
  ASSUME NEW n \in Nat, NEW steps, steps = [i \in 1..n |-> steps[i]],
         \A i \in 1..n : IsStep(steps[i]) /\ Names(steps[i])
  PROVE  Names(InOrder(steps))
<1> DEFINE h == CHOOSE h : After(h, steps, n)
<1>1. InOrder(steps) = h[n]
  <2>1. Len(steps) = n
    BY DomainIsLength
  <2> QED
    BY <2>1 DEF InOrder, After
<1>2. After(h, steps, n)
  BY AfterExists
<1> HIDE DEF h
<1> DEFINE S == {k \in Nat : k <= n => IsStep(h[k]) /\ Names(h[k])}
<1>3. 0 \in S
  <2>1. h[0] = Skip
    BY <1>2 DEF After
  <2>2. IsStep(Skip) /\ Names(Skip)
    BY CheckIsStep, CheckNames DEF Skip
  <2> QED
    BY <2>1, <2>2
<1>4. ASSUME NEW k \in Nat, k \in S PROVE k + 1 \in S
  <2> SUFFICES ASSUME k + 1 <= n PROVE IsStep(h[k + 1]) /\ Names(h[k + 1])
    OBVIOUS
  <2>1. k + 1 \in 1..n /\ IsStep(h[k]) /\ Names(h[k])
    BY <1>4
  <2>2. IsStep(steps[k + 1]) /\ Names(steps[k + 1])
    BY <2>1
  <2>3. h[k + 1] = Then(h[k], steps[k + 1])
    BY <1>2, <2>1, AfterOneMore
  <2> QED
    BY <2>1, <2>2, <2>3, ThenIsStep, ThenNames
<1> HIDE DEF S
<1>5. n \in S
  BY <1>3, <1>4, InductionOnSet
<1> QED
  BY <1>1, <1>5 DEF S
-----------------------------------------------------------------------------
(* The Go type of a schema, if it is of a package, is the schema's own.    *)
LEMMA OwnType ==
  ASSUME Rigid, NEW n \in Nodes
  PROVE  /\ ~IsBuiltin(types[n].go) => /\ types[n].go = Qualified(doc[n].path, doc[n].name)
                                       /\ TypeInfoHinted(n, "object") = types[n].go
         /\ \A t : TypeInfoHinted(n, t) \in {Qualified(doc[n].path, doc[n].name),
                                             Builtin(Primitive(t))}
         /\ ChooseType(n) \in JSONTypes \union {"unknown"}
<1>1. \A x : IsBuiltin(Builtin(x))
  BY DEF Builtin, IsBuiltin
<1>2. types[n].go = TypeInfo(n)
  BY NodeIsTyped
<1>3. ASSUME ~IsBuiltin(types[n].go)
      PROVE  types[n].go = Qualified(doc[n].path, doc[n].name) /\ doc[n].name # ""
  BY <1>1, <1>2, <1>3 DEF TypeInfo, TypeInfoHinted
<1>4. doc[n].type \in JSONTypes \union {"absent", "unknown"}
  BY NodeIsTyped DEF Schema
<1>5. ChooseType(n) \in JSONTypes \union {"unknown"}
  BY <1>4 DEF ChooseType, JSONTypes
<1> QED
  BY <1>3, <1>5 DEF TypeInfoHinted

(* Where types are known, what is detected is what is chosen.              *)
LEMMA KnownTypes ==
  ASSUME Rigid, TypesAreKnown, NEW n \in Nodes
  PROVE  /\ types[n].chosen # "unknown" => types[n].simple = types[n].chosen
         /\ types[n].chosen = "unknown" =>
              types[n].simple = "unknown simple type" /\ doc[n].allOf = <<>>
<1>1. types[n].chosen = ChooseType(n) /\ types[n].simple = DetectSimpleType(n)
  BY NodeIsTyped
<1>2. ASSUME ChooseType(n) = "unknown" PROVE doc[n].allOf = <<>>
  BY <1>2 DEF ChooseType, TypesAreKnown
<1> QED
  BY <1>1, <1>2 DEF DetectSimpleType

LEMMA NamesOfTypes ==
  /\ \A x : Builtin(x).name = x /\ Builtin(x).path = ""
  /\ \A x, y : Qualified(x, y).path = x /\ Qualified(x, y).name = y
  /\ NoType.name = ""
  /\ \A t \in DOMAIN Primitives : Primitive(t) # ""
  /\ DOMAIN Primitives = {"boolean", "integer", "null", "number", "string"}
<1>1. \A x : Builtin(x).name = x /\ Builtin(x).path = ""
  BY DEF Builtin
<1>2. \A x, y : Qualified(x, y).path = x /\ Qualified(x, y).name = y
  BY DEF Qualified
<1>3. DOMAIN Primitives = {"boolean", "integer", "null", "number", "string"}
  BY DEF Primitives
<1>4. /\ Primitives.boolean # "" /\ Primitives.integer # "" /\ Primitives.null # ""
      /\ Primitives.number # "" /\ Primitives.string # ""
  BY DEF Primitives
<1> QED
  BY <1>1, <1>2, <1>3, <1>4 DEF NoType, Primitive

LEMMA KnownIsTyped ==
  ASSUME Rigid, TypesAreKnown, NEW n \in Nodes, types[n].chosen # "unknown",
         TypeInfoHinted(n, "object") # NoType
  PROVE  types[n].go # NoType
<1>1. types[n].chosen = ChooseType(n) /\ types[n].go = TypeInfo(n)
  BY NodeIsTyped
<1>2. ChooseType(n) \in JSONTypes
  BY <1>1, OwnType
<1>3. CASE ChooseType(n) \in {"array", "object"}
  <2>1. doc[n].name # ""
    BY NamesOfTypes DEF TypeInfoHinted, Primitive, NoType
  <2>2. types[n].go = Qualified(doc[n].path, doc[n].name)
    BY <1>1, <1>3, <2>1 DEF TypeInfo, TypeInfoHinted
  <2>3. types[n].go.name = doc[n].name
    <3>1. Qualified(doc[n].path, doc[n].name).name = doc[n].name
      BY DEF Qualified
    <3> QED
      BY <2>2, <3>1
  <2> QED
    BY <2>1, <2>3, NamesOfTypes, Zenon
<1>4. CASE ChooseType(n) \notin {"array", "object"}
  <2>1. ChooseType(n) \in DOMAIN Primitives
    BY <1>2, <1>4, NamesOfTypes DEF JSONTypes
  <2>2. types[n].go = Builtin(Primitive(ChooseType(n)))
    BY <1>1, <1>2, <1>4 DEF TypeInfo, TypeInfoHinted, JSONTypes
  <2>3. types[n].go.name = Primitive(ChooseType(n))
    BY <2>2, NamesOfTypes, Zenon
  <2> QED
    BY <2>1, <2>3, NamesOfTypes, Zenon
<1> QED
  BY <1>3, <1>4

(* The type of a schema that is named is accounted for, pointed to or not. *)
SameName(t, u) == t.path = u.path /\ t.name = u.name

LEMMA PointerKeepsName ==
  ASSUME Rigid, NEW n \in Nodes
  PROVE  /\ SameName(PointerTo(types[n].go), types[n].go)
         /\ \A t : SameName(PointerTo(TypeInfoHinted(n, t)), TypeInfoHinted(n, t))
         /\ \A x : SameName(PointerTo(PointerTo(types[n].go)), types[n].go)
         /\ \A x : SameName(PointerTo(Builtin(x)), Builtin(x))
<1>1. \A x : SameName(PointerTo(Builtin(x)), Builtin(x))
              /\ SameName(PointerTo(PointerTo(Builtin(x))), Builtin(x))
  BY DEF SameName, PointerTo, Builtin
<1>2. \A x, y : SameName(PointerTo(Qualified(x, y)), Qualified(x, y))
                 /\ SameName(PointerTo(PointerTo(Qualified(x, y))), Qualified(x, y))
  BY DEF SameName, PointerTo, Qualified
<1>3. \A t : TypeInfoHinted(n, t) \in {Qualified(doc[n].path, doc[n].name), Builtin(Primitive(t))}
  BY OwnType
<1>4. types[n].go \in {Qualified(doc[n].path, doc[n].name), Builtin(Primitive(ChooseType(n)))}
  BY <1>3, NodeIsTyped DEF TypeInfo
<1> QED
  BY <1>1, <1>2, <1>3, <1>4

LEMMA OwnIsAccounted ==
  ASSUME NEW m, NEW D, NEW t, SameName(t, types[m].go), IsBuiltin(types[m].go) \/ m \in D
  PROVE  Accounted(t, D)
BY DEF Accounted, StandsFor, OfSchema, IsBuiltin, SameName, Declares

LEMMA BuiltinIsAccounted ==
  ASSUME NEW t, IsBuiltin(t), NEW D
  PROVE  Accounted(t, D)
BY DEF Accounted, OfSchema

-----------------------------------------------------------------------------
LEMMA ListsName ==
  ASSUME Rigid, NEW refs \in Seq(Refs)
  PROVE  Names(Each(refs, LoadAndDetect)) /\ Names(Each(refs, Resolve))
<1> DEFINE n == Len(refs)
           loads == [i \in DOMAIN refs |-> LoadAndDetect(refs[i])]
           resolves == [i \in DOMAIN refs |-> Resolve(refs[i])]
<1>1. n \in Nat /\ DOMAIN refs = 1..n /\ \A i \in 1..n : refs[i] \in Refs
  OBVIOUS
<1>2. /\ loads = [i \in 1..n |-> loads[i]] /\ resolves = [i \in 1..n |-> resolves[i]]
      /\ \A i \in 1..n : loads[i] = LoadAndDetect(refs[i]) /\ resolves[i] = Resolve(refs[i])
  BY <1>1
<1>3. Each(refs, LoadAndDetect) = InOrder(loads) /\ Each(refs, Resolve) = InOrder(resolves)
  BY DEF Each
<1> HIDE DEF n, loads, resolves
<1>4. \A r : Names(LoadAndDetect(r)) /\ Names(Resolve(r))
  BY CheckNames DEF LoadAndDetect, Resolve, Detect, Skip
<1>5. /\ \A i \in 1..n : IsStep(loads[i]) /\ Names(loads[i])
      /\ \A i \in 1..n : IsStep(resolves[i]) /\ Names(resolves[i])
  BY <1>1, <1>2, <1>4, DetectIsStep
<1>6. Names(InOrder(loads))
  BY <1>1, <1>2, <1>5, InOrderNames
<1>7. Names(InOrder(resolves))
  BY <1>1, <1>2, <1>5, InOrderNames
<1> QED
  BY <1>3, <1>6, <1>7

(* A property that is a pair of a type and null is of a type of its oneOf; *)
(* any other is of its own, or of a built-in one.                          *)
LEMMA BareIsAccounted ==
  ASSUME Rigid, NEW f \in Nodes, NillableErr(f).err = "nil"
  PROVE  /\ ~IsBuiltin(BareFieldType(f)) => StandsFor(f, BareFieldType(f))
         /\ SameName(FieldType(f), BareFieldType(f))
<1>1. \/ \E x : BareFieldType(f) = Builtin(x)
      \/ BareFieldType(f) = types[f].go
      \/ IsUntypedPair(f) /\ BareFieldType(f) = PointerTo(types[ValueSchema(f)].go)
  BY DEF BareFieldType, Interface
<1>2. FieldType(f) \in {BareFieldType(f), PointerTo(BareFieldType(f))}
  BY DEF FieldType
<1>3. CASE \E x : BareFieldType(f) = Builtin(x)
  <2>1. IsBuiltin(BareFieldType(f))
    BY <1>3, NamesOfTypes DEF IsBuiltin
  <2>2. SameName(PointerTo(BareFieldType(f)), BareFieldType(f))
    BY <1>3, PointerKeepsName
  <2> QED
    BY <1>2, <2>1, <2>2 DEF SameName
<1>4. CASE BareFieldType(f) = types[f].go
  <2>1. StandsFor(f, types[f].go)
    BY DEF StandsFor, Declares
  <2>2. SameName(PointerTo(BareFieldType(f)), BareFieldType(f))
    BY <1>4, PointerKeepsName
  <2> QED
    BY <1>2, <1>4, <2>1, <2>2 DEF SameName
<1>5. CASE IsUntypedPair(f) /\ BareFieldType(f) = PointerTo(types[ValueSchema(f)].go)
  <2> DEFINE v == ValueSchema(f)
             loaded == Each(doc[f].oneOf, LoadAndDetect)
  <2>1. loaded.err = "nil"
    BY <1>5 DEF NillableErr
  <2>2. doc[f].oneOf \in Seq(Nodes) /\ Len(doc[f].oneOf) = 2
    BY <1>5, <2>1, ListIsTyped, ListsAreSteps DEF IsUntypedPair
  <2>3. v \in Nodes /\ v \in Range(doc[f].oneOf)
    <3>1. 1 \in DOMAIN doc[f].oneOf /\ 2 \in DOMAIN doc[f].oneOf
      BY <2>2
    <3>2. v \in {doc[f].oneOf[1], doc[f].oneOf[2]}
      BY DEF ValueSchema
    <3> QED
      BY <2>2, <3>1, <3>2 DEF Range
  <2> HIDE DEF v, loaded
  <2>4. types[v].go \in TypesOfOneOf(f)
    BY <2>3, BrokenIsNoNode DEF TypesOfOneOf
  <2>5. /\ SameName(PointerTo(types[v].go), types[v].go)
        /\ SameName(PointerTo(PointerTo(types[v].go)), types[v].go)
    BY <2>3, PointerKeepsName
  <2>6. types[f].go = NoType
    BY <1>5 DEF IsUntypedPair
  <2>7. BareFieldType(f) = PointerTo(types[v].go)
    BY <1>5 DEF v
  <2>8. StandsFor(f, BareFieldType(f))
    BY <2>4, <2>5, <2>6, <2>7 DEF StandsFor, Declares, SameName
  <2> QED
    BY <1>2, <2>5, <2>7, <2>8 DEF SameName
<1> QED
  BY <1>1, <1>3, <1>4, <1>5

LEMMA PropertyNamesType ==
  ASSUME Rigid, NEW n \in Nodes, NEW p \in Property
  PROVE  Names(PropertyStep(n, p))
<1> DEFINE f == p.schema
           field(t) == Field(p.name, t, p.name \in doc[n].required, ValidatorDeps(f))
           typed == Check(IF types[f].simple \in {"other", "hang"} THEN types[f].simple ELSE "nil")
           checked == Then(NillableErr(f), typed)
           ds == IF IsBuiltin(BareFieldType(f)) THEN <<>> ELSE <<f>>
<1>1. f \in Refs
  BY DEF Property
<1>2. CASE f = Broken
  BY <1>2, CheckNames DEF PropertyStep
<1>3. CASE f # Broken /\ doc[f].raw
  <2>1. PropertyStep(n, p) = Step("nil", <<>>, <<field(RawMessage)>>)
    BY <1>3 DEF PropertyStep
  <2>2. field(RawMessage).type = RawMessage
    BY DEF Field
  <2>3. Accounted(RawMessage, Range(<<>>))
    BY DEF Accounted, OfSchema
  <2> HIDE DEF field
  <2> QED
    BY <2>1, <2>2, <2>3, OneNames
<1>4. CASE f # Broken /\ ~doc[f].raw
  <2>1. f \in Nodes
    BY <1>1, <1>4 DEF Refs
  <2>2. IsStep(NillableErr(f)) /\ Names(NillableErr(f))
    <3>1. Names(Each(doc[f].oneOf, LoadAndDetect))
      BY <2>1, ListIsTyped, ListsName
    <3>2. \A e : Names(Check(e))
      BY CheckNames
    <3> QED
      BY <2>1, <3>1, <3>2, NillableIsStep DEF NillableErr, Skip
  <2>3. IsStep(typed) /\ Names(typed)
    <3> DEFINE e == IF types[f].simple \in {"other", "hang"} THEN types[f].simple ELSE "nil"
    <3>1. e = "hang" => Nonsense
      BY <2>1, OnlySearchHangs
    <3> HIDE DEF e
    <3> QED
      BY <3>1, CheckIsStep, CheckNames DEF e
  <2>4. PropertyStep(n, p) =
          IF checked.err # "nil" THEN checked ELSE Step("nil", ds, <<field(FieldType(f))>>)
    BY <1>4 DEF PropertyStep
  <2>5. Names(checked) /\ (checked.err = "nil" => NillableErr(f).err = "nil")
    BY <2>2, <2>3, ThenNames, ThenIsStep
  <2>6. ASSUME NillableErr(f).err = "nil" PROVE Names(Step("nil", ds, <<field(FieldType(f))>>))
    <3>1. field(FieldType(f)).type = FieldType(f)
      BY DEF Field
    <3>2. Accounted(FieldType(f), Range(ds))
      <4>1. CASE IsBuiltin(BareFieldType(f))
        BY <2>1, <2>6, <4>1, BareIsAccounted, BuiltinIsAccounted DEF SameName, IsBuiltin
      <4>2. CASE ~IsBuiltin(BareFieldType(f))
        <5>1. f \in Range(ds)
          BY <4>2, OneField
        <5>2. StandsFor(f, BareFieldType(f)) /\ SameName(FieldType(f), BareFieldType(f))
          BY <2>1, <2>6, <4>2, BareIsAccounted
        <5>3. StandsFor(f, FieldType(f))
          BY <5>2 DEF StandsFor, SameName, Declares
        <5> QED
          BY <5>1, <5>3 DEF Accounted
      <4> QED
        BY <4>1, <4>2
    <3> HIDE DEF field, ds
    <3> QED
      BY <3>1, <3>2, OneNames
  <2> HIDE DEF checked, field, ds
  <2> QED
    BY <2>4, <2>5, <2>6
<1> QED
  BY <1>2, <1>3, <1>4

LEMMA DerivedName ==
  ASSUME Rigid, NEW n \in Nodes
  PROVE  Names(DeriveStructFields(n))
<1> DEFINE ps == doc[n].props
           m == Len(ps)
           steps == [i \in DOMAIN ps |-> PropertyStep(n, ps[i])]
<1>1. ps \in Seq(Property)
  BY ListIsTyped
<1>2. m \in Nat /\ DOMAIN ps = 1..m /\ \A i \in 1..m : ps[i] \in Property
  BY <1>1
<1>3. DeriveStructFields(n) = InOrder(steps)
  BY DEF DeriveStructFields, Each
<1>4. steps = [i \in 1..m |-> steps[i]] /\ \A i \in 1..m : steps[i] = PropertyStep(n, ps[i])
  BY <1>2
<1> HIDE DEF ps, m, steps
<1>5. \A i \in 1..m : IsStep(steps[i]) /\ Names(steps[i])
  BY <1>2, <1>4, PropertyIsStep, PropertyNamesType
<1> QED
  BY <1>2, <1>3, <1>4, <1>5, InOrderNames

-----------------------------------------------------------------------------
(* A planner that returns a plan has done its steps.                       *)
LEMMA RefusalNamesNone ==
  ASSUME NEW n, NEW e, e # "nil", NEW ds
  PROVE  AnswerNames(n, Refuse(e, ds))
BY DEF AnswerNames, Refuse

LEMMA UntypedNamesNone ==
  ASSUME NEW n, TypeErr(n) # "nil", NEW ds
  PROVE  AnswerNames(n, Refuse(TypeErr(n), ds))
BY RefusalNamesNone

LEMMA ResultNames ==
  ASSUME NEW n, NEW s, NEW plan,
         s.err = "nil" => NamesFor(n, plan, Range(s.deps))
  PROVE  AnswerNames(n, Result(s, plan))
<1>1. CASE s.err # "nil"
  BY <1>1, RefusalNamesNone DEF Result
<1>2. CASE s.err = "nil"
  BY <1>2 DEF Result, AnswerNames
<1> QED
  BY <1>1, <1>2

LEMMA DepsAreIn ==
  ASSUME NEW s, IsStep(s)
  PROVE  Range(s.deps) \subseteq Nodes
<1>1. s.deps \in Seq(Nodes)
  BY DEF IsStep
<1> QED
  BY <1>1 DEF Range

(* A plan that is typed as its schema, and one field of it.                *)
LEMMA TypedPlanNames ==
  ASSUME NEW n, types[n].go # NoType, NEW D, D \subseteq Nodes, NEW p,
         p.type \in {types[n].go, TypeInfoHinted(n, "object")},
         \A f \in Range(p.fields) : Accounted(f.type, D),
         \A t \in p.others : Accounted(t, D)
  PROVE  NamesFor(n, p, D)
BY DEF NamesFor, Mentioned

LEMMA PlanMapNames ==
  ASSUME Rigid, NEW n \in Nodes
  PROVE  AnswerNames(n, PlanMap(n))
<1> DEFINE v == doc[n].addl
           type == IF v \in Nodes THEN types[v].go ELSE Interface
           field == Field("", type, FALSE, IF v \in Nodes THEN ValidatorDeps(v) ELSE {})
           ds == IF IsBuiltin(type) THEN <<>> ELSE <<v>>
           step == IF TypeErr(n) # "nil" THEN Check(TypeErr(n))
                   ELSE IF v = Broken THEN Check("other")
                   ELSE IF v = "true" THEN Skip
                   ELSE IF TypeErr(v) # "nil" THEN Check(TypeErr(v))
                   ELSE Step("nil", ds, <<>>)
           plan == Plan("map", n, types[n].go, <<field>>, {}, {},
                        Needed(<<field>>), Needed(<<field>>) \union TypePaths(<<field>>))
<1>1. CASE PlanMap(n) = Refuse("continue", <<>>)
  BY <1>1, RefusalNamesNone
<1>2. CASE PlanMap(n) # Refuse("continue", <<>>)
  <2>1. PlanMap(n) = Result(step, plan) /\ AddlPresent(n)
    BY <1>2 DEF PlanMap
  <2>2. ASSUME step.err = "nil" PROVE NamesFor(n, plan, Range(step.deps))
    <3>1. /\ TypeErr(n) = "nil" /\ v # Broken
          /\ v = "true" => step = Skip
          /\ v # "true" => step = Step("nil", ds, <<>>)
      <4>1. \A e : Check(e).err = e
        BY DEF Check, Step
      <4> HIDE DEF v
      <4>2. TypeErr(n) = "nil" /\ v # Broken
        BY <2>2, <4>1
      <4>3. v # "true" => TypeErr(v) = "nil"
        BY <2>2, <4>1, <4>2
      <4> HIDE DEF ds
      <4>4. v = "true" => step = Skip
        BY <4>2
      <4>5. v # "true" => step = Step("nil", ds, <<>>)
        BY <4>2, <4>3
      <4> QED
        BY <4>2, <4>4, <4>5
    <3>2. v \in Nodes \/ v = "true"
      BY <2>1, <3>1, ListIsTyped DEF AddlPresent, Refs
    <3>3. types[n].go # NoType
      BY <3>1 DEF TypeErr
    <3>4. /\ plan.type = types[n].go /\ plan.others = {}
          /\ plan.fields = <<field>> /\ field.type = type
      BY DEF Plan, Field
    <3>5. Range(<<field>>) = {field}
      BY OneField
    <3>6. Range(step.deps) \subseteq Nodes /\ Accounted(type, Range(step.deps))
      <4>1. CASE v = "true"
        <5>1. type = Interface
          BY <4>1, NodesAreAddresses
        <5>2. IsBuiltin(Interface)
          BY DEF Interface, Builtin, IsBuiltin
        <5>3. step.deps = <<>> /\ Range(<<>>) = {}
          BY <3>1, <4>1 DEF Skip, Check, Step, Range
        <5> HIDE DEF type
        <5> QED
          BY <5>1, <5>2, <5>3, BuiltinIsAccounted
      <4>2. CASE v # "true"
        <5>1. v \in Nodes /\ type = types[v].go /\ step.deps = ds
          BY <3>1, <3>2, <4>2 DEF Step
        <5>2. Range(ds) = IF IsBuiltin(type) THEN {} ELSE {v}
          BY OneField DEF Range
        <5> HIDE DEF type, ds, v
        <5>3. Accounted(type, Range(ds))
          BY <5>1, <5>2, OwnIsAccounted DEF SameName
        <5> QED
          BY <5>1, <5>2, <5>3
      <4> QED
        BY <4>1, <4>2
    <3> HIDE DEF plan, step, field, type
    <3> QED
      BY <3>3, <3>4, <3>5, <3>6, TypedPlanNames
  <2> HIDE DEF step, plan
  <2> QED
    BY <2>1, <2>2, ResultNames
<1> QED
  BY <1>1, <1>2

LEMMA StructNames ==
  ASSUME NEW n, types[n].go # NoType, NEW kind, NEW s, IsStep(s), Names(s),
         NEW type \in {types[n].go, TypeInfoHinted(n, "object")}, NEW checked
  PROVE  NamesFor(n, Struct(kind, n, type, s.fields, checked), Range(s.deps))
<1> DEFINE plan == Struct(kind, n, type, s.fields, checked)
<1>1. plan.type = type /\ plan.fields = s.fields /\ plan.others = {}
  BY DEF Struct, Plan
<1>2. Range(s.deps) \subseteq Nodes
  BY DepsAreIn
<1> HIDE DEF plan
<1>3. NamesFor(n, plan, Range(s.deps))
  BY <1>1, <1>2, TypedPlanNames DEF Names
<1> QED
  BY <1>3 DEF plan

LEMMA PlanObjectNames ==
  ASSUME Rigid, NEW n \in Nodes
  PROVE  AnswerNames(n, PlanObject(n))
<1> DEFINE own == DeriveStructFields(n)
           step == IF types[n].simple \in Errors THEN Check(types[n].simple)
                   ELSE IF types[n].simple # "object" THEN Check("continue")
                   ELSE IF TypeErr(n) # "nil" THEN Check(TypeErr(n))
                   ELSE own
           plan == Struct("object", n, types[n].go, own.fields, RequiredOf(own.fields))
<1>1. PlanObject(n) = Result(step, plan)
  BY DEF PlanObject
<1>2. IsStep(own) /\ Names(own)
  BY DeriveIsStep, DerivedName
<1>3. ASSUME step.err = "nil" PROVE step = own /\ types[n].go # NoType
  <2>1. \A e : Check(e).err = e
    BY DEF Check, Step
  <2>2. "nil" \notin Errors
    BY DEF Errors, Declining
  <2> HIDE DEF own
  <2> QED
    BY <1>3, <2>1, <2>2 DEF TypeErr
<1> HIDE DEF own
<1>4. step.err = "nil" => NamesFor(n, plan, Range(step.deps))
  BY <1>2, <1>3, StructNames
<1> HIDE DEF step, plan
<1> QED
  BY <1>1, <1>4, ResultNames

(* A member is embedded as an object: where the types of an allOf are      *)
(* known and agree, that is the type it is planned with.                   *)
LEMMA MemberIsNamed ==
  ASSUME Rigid, TypesAreKnown, MembersAgree, NEW n \in Nodes, NEW m \in Nodes,
         doc[n].allOf \in Seq(Nodes), m \in Range(doc[n].allOf),
         FirstType(doc[n].allOf) = "object", types[m].simple \notin Errors
  PROVE  Accounted(TypeInfoHinted(m, "object"), {m})
<1> DEFINE a == Head(doc[n].allOf)
<1>1. a \in Nodes /\ a \in Range(doc[n].allOf) /\ types[a].simple = "object"
  <2>1. doc[n].allOf # <<>> /\ types[a].simple = "object"
    BY DEF FirstType
  <2>2. 1 \in DOMAIN doc[n].allOf /\ a = doc[n].allOf[1]
    BY <2>1
  <2> QED
    BY <2>1, <2>2 DEF Range
<1> HIDE DEF a
<1>2. types[a].chosen = "object"
  BY <1>1, KnownTypes
<1>3. types[m].chosen \notin DOMAIN Primitives
  BY <1>1, <1>2, BrokenIsNoNode DEF MembersAgree
<1>4. types[m].chosen # "unknown"
  BY KnownTypes DEF Errors, Declining
<1>5. types[m].chosen = ChooseType(m) /\ types[m].go = TypeInfo(m)
  BY NodeIsTyped
<1>6. types[m].chosen \in {"array", "object"}
  BY <1>3, <1>4, <1>5, OwnType, NamesOfTypes DEF JSONTypes
<1>7. CASE doc[m].name = ""
  <2>1. TypeInfoHinted(m, "object") = NoType
    BY <1>7, NamesOfTypes DEF TypeInfoHinted, Primitive, NoType
  <2>2. IsBuiltin(NoType)
    BY DEF IsBuiltin, NoType, Builtin
  <2> QED
    BY <2>1, <2>2, BuiltinIsAccounted
<1>8. CASE doc[m].name # ""
  <2>1. types[m].go = TypeInfoHinted(m, "object")
    BY <1>5, <1>6, <1>8 DEF TypeInfo, TypeInfoHinted
  <2> QED
    BY <2>1, OwnIsAccounted DEF SameName
<1> QED
  BY <1>7, <1>8

LEMMA MembersName ==
  ASSUME Rigid, NEW n \in Nodes, NEW ms \in Seq(Nodes),
         \A m \in Range(ms) : Accounted(TypeInfoHinted(m, "object"), {m})
  PROVE  Names(Each(ms, LAMBDA m : MemberStep(n, m)))
<1> DEFINE k == Len(ms)
           steps == [i \in DOMAIN ms |-> MemberStep(n, ms[i])]
<1>1. k \in Nat /\ DOMAIN ms = 1..k /\ \A i \in 1..k : ms[i] \in Nodes
  OBVIOUS
<1>2. Each(ms, LAMBDA m : MemberStep(n, m)) = InOrder(steps)
  BY DEF Each
<1>3. steps = [i \in 1..k |-> steps[i]] /\ \A i \in 1..k : steps[i] = MemberStep(n, ms[i])
  BY <1>1
<1> HIDE DEF k, steps
<1>4. ASSUME NEW m \in Nodes, m \in Range(ms) PROVE Names(MemberStep(n, m))
  <2> DEFINE derived == DeriveStructFields(m)
             bare == [derived EXCEPT !.fields = <<>>]
             embedded == Field("", TypeInfoHinted(m, "object"), FALSE, {})
             mention == Step("nil", <<m>>, <<embedded>>)
  <2>1. IsStep(derived) /\ Names(derived)
    BY DeriveIsStep, DerivedName
  <2>2. IsStep(mention) /\ Names(mention)
    <3>1. embedded.type = TypeInfoHinted(m, "object")
      BY DEF Field
    <3>2. Range(<<m>>) = {m} /\ <<m>> \in Seq(Nodes)
      BY OneField
    <3> HIDE DEF embedded
    <3>3. Listing(<<embedded>>)
      BY OneField
    <3> QED
      BY <1>4, <3>1, <3>2, <3>3, StepIsStep, OneNames
  <2>3. MemberStep(n, m) = IF doc[m].promote THEN derived ELSE Then(bare, mention)
    BY DEF MemberStep
  <2> HIDE DEF derived, mention
  <2>4. IsStep(bare) /\ bare.fields = <<>>
    <3>1. bare = Step(derived.err, derived.deps, <<>>)
      BY <2>1 DEF IsStep, Step
    <3>2. Listing(<<>>)
      BY DEF Listing
    <3> HIDE DEF bare
    <3>3. bare.err = derived.err /\ bare.deps = derived.deps /\ bare.fields = <<>>
      BY <3>1 DEF Step
    <3> QED
      BY <2>1, <3>1, <3>2, <3>3 DEF IsStep
  <2> HIDE DEF bare
  <2> QED
    BY <2>1, <2>2, <2>3, <2>4, NothingToName, ThenNames
<1>5. \A i \in 1..k : IsStep(steps[i]) /\ Names(steps[i])
  BY <1>1, <1>3, <1>4, MemberIsStep DEF Range
<1> QED
  BY <1>1, <1>2, <1>3, <1>5, InOrderNames

LEMMA PlanAllOfNames ==
  ASSUME Rigid, TypesAreKnown, MembersAgree, NEW n \in Nodes
  PROVE  AnswerNames(n, PlanAllOfObject(n))
<1> DEFINE ms == doc[n].allOf
           list == Each(ms, LoadAndDetect)
           type == TypeInfoHinted(n, "object")
           own == DeriveStructFields(n)
           members == Each(ms, LAMBDA m : MemberStep(n, m))
           all == Then(own, members)
           plan == Struct("allOf", n, type, all.fields,
                          RequiredOf(all.fields) \union SubRequired(n))
<1>1. PlanAllOfObject(n) = IF list.err # "nil" THEN Refuse(list.err, <<>>)
        ELSE IF FirstType(ms) # "object" \/ type = NoType THEN Refuse("continue", <<>>)
        ELSE Result(all, plan)
  BY DEF PlanAllOfObject
<1>2. ms \in Seq(Refs)
  BY ListIsTyped
<1>3. list.err = "nil" => ms \in Seq(Nodes) /\ \A m \in Range(ms) : types[m].simple \notin Errors
  BY <1>2, ListsAreSteps
<1>4. list.err # "nil" => AnswerNames(n, Refuse(list.err, <<>>))
  BY RefusalNamesNone
<1>5. ASSUME ms \in Seq(Nodes), \A m \in Range(ms) : types[m].simple \notin Errors,
             FirstType(ms) = "object", type # NoType
      PROVE  AnswerNames(n, Result(all, plan))
  <2>1. IsStep(own) /\ Names(own)
    BY DeriveIsStep, DerivedName
  <2>2. IsStep(members)
    BY <1>5, MembersAreSteps
  <2>3. Names(members)
    <3>1. \A m \in Range(ms) : m \in Nodes
      BY <1>5 DEF Range
    <3>2. \A m \in Range(ms) : Accounted(TypeInfoHinted(m, "object"), {m})
      BY <1>5, <3>1, MemberIsNamed
    <3> QED
      BY <1>5, <3>2, MembersName
  <2> HIDE DEF own, members
  <2>4. IsStep(all) /\ Names(all)
    BY <2>1, <2>2, <2>3, ThenIsStep, ThenNames
  <2>5. types[n].go # NoType
    <3>1. ms # <<>>
      BY <1>5 DEF FirstType
    <3>2. types[n].chosen # "unknown"
      BY <3>1, KnownTypes
    <3> QED
      BY <1>5, <3>2, KnownIsTyped
  <2> HIDE DEF all
  <2>6. all.err = "nil" => NamesFor(n, plan, Range(all.deps))
    BY <2>4, <2>5, StructNames
  <2> HIDE DEF plan
  <2> QED
    BY <2>6, ResultNames
<1> HIDE DEF list, all, plan, type
<1> QED
  BY <1>1, <1>3, <1>4, <1>5, RefusalNamesNone

LEMMA ThenHasDeps ==
  ASSUME NEW s, NEW t, IsStep(s), IsStep(t), Then(s, t).err = "nil"
  PROVE  /\ IsStep(Then(s, t))
         /\ Range(s.deps) \subseteq Range(Then(s, t).deps)
         /\ Range(t.deps) \subseteq Range(Then(s, t).deps)
<1>1. IsStep(Then(s, t))
  BY ThenIsStep
<1>2. Range(Then(s, t).deps) = Range(s.deps) \union Range(t.deps)
  BY ThenIsStep
<1> QED
  BY <1>1, <1>2

LEMMA ValuesName ==
  ASSUME Rigid, NEW ms \in Seq(Nodes)
  PROVE  /\ Names(Each(ms, TupleStep)) /\ Names(Each(ms, ValueStep))
         /\ Each(ms, ValueStep).err = "nil" =>
              \A m \in Range(ms) :
                IsBuiltin(types[m].go) \/ m \in Range(Each(ms, ValueStep).deps)
<1> DEFINE k == Len(ms)
           items == [i \in DOMAIN ms |-> TupleStep(ms[i])]
           values == [i \in DOMAIN ms |-> ValueStep(ms[i])]
           dep(m) == IF IsBuiltin(types[m].go) THEN <<>> ELSE <<m>>
<1>1. k \in Nat /\ DOMAIN ms = 1..k /\ \A i \in 1..k : ms[i] \in Nodes
  OBVIOUS
<1>2. Each(ms, TupleStep) = InOrder(items) /\ Each(ms, ValueStep) = InOrder(values)
  BY DEF Each
<1>3. /\ items = [i \in 1..k |-> items[i]] /\ values = [i \in 1..k |-> values[i]]
      /\ \A i \in 1..k : items[i] = TupleStep(ms[i]) /\ values[i] = ValueStep(ms[i])
  BY <1>1
<1> HIDE DEF k, items, values
<1>4. ASSUME NEW m \in Nodes
      PROVE  /\ IsStep(TupleStep(m)) /\ Names(TupleStep(m))
             /\ IsStep(ValueStep(m)) /\ Names(ValueStep(m))
             /\ ValueStep(m).err = "nil" =>
                  IsBuiltin(types[m].go) \/ m \in Range(ValueStep(m).deps)
  <2> DEFINE f == Field("", types[m].go, FALSE, ValidatorDeps(m))
             named1 == Step("nil", dep(m), <<f>>)
             named2 == Step("nil", dep(m), <<>>)
  <2>1. dep(m) \in Seq(Nodes) /\ Range(dep(m)) = IF IsBuiltin(types[m].go) THEN {} ELSE {m}
    BY OneField DEF Range
  <2>2. f.type = types[m].go
    BY DEF Field
  <2>3. Listing(<<>>)
    BY DEF Listing
  <2> HIDE DEF dep, f
  <2>4. Listing(<<f>>)
    BY OneField
  <2>5. IsStep(named1) /\ IsStep(named2)
    BY <2>1, <2>3, <2>4, StepIsStep
  <2>6. Accounted(types[m].go, Range(dep(m)))
    BY <2>1, OwnIsAccounted DEF SameName
  <2>7. Names(named1) /\ Names(named2)
    <3>1. Names(named1)
      BY <2>2, <2>6, OneNames
    <3>2. named2.fields = <<>>
      BY DEF Step
    <3> QED
      BY <3>1, <3>2, NothingToName
  <2>8. named2.deps = dep(m)
    BY DEF Step
  <2>9. IsStep(Check(TypeErr(m))) /\ Names(Check(TypeErr(m)))
    BY TypeErrIsStep, CheckNames
  <2>10. TupleStep(m) \in {Check(TypeErr(m)), named1}
    BY DEF TupleStep, dep, f
  <2>11. ValueStep(m) = Then(Check(TypeErr(m)), named2)
    BY DEF ValueStep, dep
  <2> HIDE DEF named1, named2
  <2>12. IsStep(ValueStep(m)) /\ Names(ValueStep(m))
    BY <2>5, <2>7, <2>9, <2>11, ThenIsStep, ThenNames
  <2>13. ASSUME ValueStep(m).err = "nil"
         PROVE  IsBuiltin(types[m].go) \/ m \in Range(ValueStep(m).deps)
    <3>1. Range(dep(m)) \subseteq Range(ValueStep(m).deps)
      BY <2>5, <2>8, <2>9, <2>11, <2>13, ThenIsStep
    <3> QED
      BY <2>1, <3>1
  <2> QED
    BY <2>5, <2>7, <2>9, <2>10, <2>12, <2>13
<1>5. \A i \in 1..k : IsStep(items[i]) /\ Names(items[i])
  BY <1>1, <1>3, <1>4
<1>6. \A i \in 1..k : IsStep(values[i]) /\ Names(values[i])
  BY <1>1, <1>3, <1>4
<1>7. Names(InOrder(items)) /\ Names(InOrder(values))
  BY <1>1, <1>3, <1>5, <1>6, InOrderNames
<1>8. ASSUME InOrder(values).err = "nil", NEW m \in Range(ms)
      PROVE  IsBuiltin(types[m].go) \/ m \in Range(InOrder(values).deps)
  <2>1. PICK i \in 1..k : ms[i] = m
    BY <1>1 DEF Range
  <2>2. \A j \in 1..k : /\ values[j].err = "nil"
                        /\ Range(values[j].deps) \subseteq Range(InOrder(values).deps)
    BY <1>1, <1>3, <1>6, <1>8, InOrderIsStep
  <2>3. values[i] = ValueStep(m) /\ m \in Nodes
    BY <1>1, <1>3, <2>1
  <2> QED
    BY <1>4, <2>2, <2>3
<1> QED
  BY <1>2, <1>7, <1>8

LEMMA PlanTupleNames ==
  ASSUME Rigid, NEW n \in Nodes
  PROVE  AnswerNames(n, PlanTuple(n))
<1> DEFINE ms == doc[n].tuple
           resolved == Each(ms, Resolve)
           made == Each(ms, TupleStep)
           items == Then(resolved, made)
           packages == {"encoding/json", "fmt"} \union Needed(items.fields)
           plan == Plan("tuple", n, types[n].go, items.fields, {}, {}, packages,
                        packages \union TypePaths(items.fields))
<1>1. PlanTuple(n) = IF types[n].chosen # "array" THEN Refuse("continue", <<>>)
        ELSE IF TypeErr(n) # "nil" THEN Refuse(TypeErr(n), <<>>)
        ELSE IF ms = <<>> THEN Refuse("continue", <<>>)
        ELSE Result(items, plan)
  BY DEF PlanTuple
<1>2. /\ IsStep(resolved) /\ Names(resolved)
      /\ resolved.err = "nil" => ms \in Seq(Nodes)
  BY ListIsTyped, ListsAreSteps, ListsName
<1>3. ms \in Seq(Nodes) => IsStep(made) /\ Names(made)
  BY TuplesAreSteps, ValuesName
<1>4. plan.type = types[n].go /\ plan.fields = items.fields /\ plan.others = {}
  BY DEF Plan
<1> HIDE DEF resolved, made, plan
<1>5. ASSUME items.err = "nil", TypeErr(n) = "nil" PROVE NamesFor(n, plan, Range(items.deps))
  <2>1. resolved.err = "nil"
    BY <1>5 DEF Then
  <2>2. IsStep(items) /\ Names(items)
    BY <1>2, <1>3, <2>1, ThenIsStep, ThenNames
  <2>3. types[n].go # NoType
    BY <1>5 DEF TypeErr
  <2> HIDE DEF items
  <2> QED
    BY <1>4, <2>2, <2>3, DepsAreIn, TypedPlanNames DEF Names
<1> HIDE DEF items
<1>6. TypeErr(n) = "nil" => AnswerNames(n, Result(items, plan))
  BY <1>5, ResultNames
<1> QED
  BY <1>1, <1>6, RefusalNamesNone, UntypedNamesNone

LEMMA ItemIsAccounted ==
  ASSUME Rigid, TypesAreKnown, NEW m \in Nodes, types[m].simple \notin Errors
  PROVE  IsBuiltin(ItemType(m)) \/ StandsFor(m, ItemType(m))
<1> DEFINE hinted == TypeInfoHinted(m, types[m].simple)
<1>1. types[m].chosen # "unknown" /\ types[m].simple = types[m].chosen
  BY KnownTypes DEF Errors, Declining
<1>2. types[m].chosen = ChooseType(m) /\ types[m].go = TypeInfo(m)
  BY NodeIsTyped
<1>3. IsBuiltin(hinted) \/ types[m].go = hinted
  <2>1. CASE ChooseType(m) \in {"array", "object"}
    BY <1>1, <1>2, <2>1 DEF TypeInfo
  <2>2. CASE ChooseType(m) \notin {"array", "object"}
    BY <1>1, <1>2, <2>2, NamesOfTypes DEF TypeInfoHinted, IsBuiltin
  <2> QED
    BY <2>1, <2>2
<1>4. IsBuiltin(Interface) /\ SameName(PointerTo(Interface), Interface)
      /\ SameName(PointerTo(hinted), hinted)
  BY NamesOfTypes, PointerKeepsName DEF Interface, IsBuiltin
<1>5. ItemType(m) \in {Interface, hinted, PointerTo(Interface), PointerTo(hinted)}
  BY DEF ItemType
<1> HIDE DEF hinted
<1> QED
  BY <1>3, <1>4, <1>5 DEF IsBuiltin, StandsFor, Declares, SameName

LEMMA BuildSliceNames ==
  ASSUME Rigid, TypesAreKnown, NEW n \in Nodes
  PROVE  AnswerNames(n, BuildSlice(n))
<1> DEFINE m == doc[n].items
           type == IF m \in Nodes THEN ItemType(m) ELSE Interface
           field == Field("", type, FALSE, IF m \in Nodes THEN ValidatorDeps(m) ELSE {})
           ds == IF IsBuiltin(type) THEN <<>> ELSE <<m>>
           dep == Step("nil", ds, <<>>)
           items == IF m = "absent" THEN Skip ELSE Then(LoadAndDetect(m), dep)
           unique == Check(IF doc[n].unique /\ type.name = "interface{}" THEN "other" ELSE "nil")
           all == Then(items, unique)
           plan == Plan("slice", n, types[n].go, <<field>>, {}, {},
                        {"fmt"} \union Needed(<<field>>),
                        {"fmt"} \union TypePaths(<<field>>))
<1>1. BuildSlice(n) = IF types[n].chosen # "array" THEN Refuse("continue", <<>>)
        ELSE IF TypeErr(n) # "nil" THEN Refuse(TypeErr(n), <<>>)
        ELSE Result(all, plan)
  BY DEF BuildSlice
<1>2. plan.type = types[n].go /\ plan.fields = <<field>> /\ plan.others = {} /\ field.type = type
  BY DEF Plan, Field
<1>3. unique.deps = <<>> /\ IsStep(unique)
  BY CheckIsStep DEF Check, Step
<1>4. m \in Refs \union {"absent"}
  BY ListIsTyped
<1> HIDE DEF plan, unique
<1>5. ASSUME all.err = "nil" PROVE Range(all.deps) \subseteq Nodes /\ Accounted(type, Range(all.deps))
  <2>1. items.err = "nil"
    BY <1>5 DEF Then
  <2>2. CASE m = "absent"
    <3>1. type = Interface /\ items = Skip
      BY <2>2, NodesAreAddresses
    <3>2. all.deps = <<>> \o <<>>
      BY <1>3, <2>1, <3>1 DEF Then, Skip, Check, Step
    <3>3. Range(all.deps) = {}
      BY <3>2 DEF Range
    <3>4. IsBuiltin(Interface)
      BY NamesOfTypes DEF Interface, IsBuiltin
    <3> HIDE DEF all, type
    <3> QED
      BY <3>1, <3>3, <3>4, BuiltinIsAccounted
  <2>3. CASE m # "absent"
    <3>1. items = Then(LoadAndDetect(m), dep) /\ m \in Refs
      BY <1>4, <2>3
    <3>2. LoadAndDetect(m).err = "nil"
      BY <2>1, <3>1 DEF Then
    <3>3. m \in Nodes /\ types[m].simple \notin Errors /\ IsStep(LoadAndDetect(m))
      BY <3>1, <3>2, DetectIsStep
    <3>4. type = ItemType(m)
      BY <3>3
    <3>5. IsBuiltin(type) \/ StandsFor(m, type)
      BY <3>3, <3>4, ItemIsAccounted
    <3> HIDE DEF type, m
    <3>6. Range(ds) = (IF IsBuiltin(type) THEN {} ELSE {m}) /\ ds \in Seq(Nodes)
      BY <3>3, OneField DEF Range
    <3> HIDE DEF ds
    <3>7. IsStep(dep) /\ dep.deps = ds
      <4>1. Listing(<<>>)
        BY DEF Listing
      <4>2. dep.deps = ds
        BY DEF Step
      <4> QED
        BY <3>6, <4>1, <4>2, StepIsStep
    <3> HIDE DEF dep, items
    <3>8. IsStep(items) /\ Range(ds) \subseteq Range(items.deps)
      BY <2>1, <3>1, <3>3, <3>7, ThenHasDeps
    <3>9. IsStep(all) /\ Range(items.deps) \subseteq Range(all.deps)
      BY <1>3, <1>5, <3>8, ThenHasDeps
    <3> HIDE DEF all
    <3> QED
      BY <3>5, <3>6, <3>8, <3>9, DepsAreIn, BuiltinIsAccounted DEF Accounted
  <2> QED
    BY <2>2, <2>3
<1> HIDE DEF all, field, type
<1>6. ASSUME TypeErr(n) = "nil", all.err = "nil" PROVE NamesFor(n, plan, Range(all.deps))
  <2>1. types[n].go # NoType
    BY <1>6 DEF TypeErr
  <2>2. Range(<<field>>) = {field}
    BY OneField
  <2> QED
    BY <1>2, <1>5, <1>6, <2>1, <2>2, TypedPlanNames
<1>7. TypeErr(n) = "nil" => AnswerNames(n, Result(all, plan))
  BY <1>6, ResultNames
<1> QED
  BY <1>1, <1>7, RefusalNamesNone, UntypedNamesNone

LEMMA PlanDiscriminatedNames ==
  ASSUME Rigid, NEW n \in Nodes
  PROVE  AnswerNames(n, PlanDiscriminatedOneOf(n))
<1> DEFINE ms == doc[n].oneOf
           list == Each(ms, LoadAndDetect)
           each == Each(ms, LAMBDA m : MappedStep(n, m))
           mapped == Then(Check(TypeErr(n)), each)
           naming == Step("nil", ms, <<>>)
           all == Then(mapped, naming)
           fields == <<Field("discriminator", Interface, FALSE, {})>>
           packages == {"fmt", "encoding/json"}
           plan == Plan("discriminated", n, types[n].go, fields, {}, MappedTypes(n),
                        packages, packages)
<1>1. PlanDiscriminatedOneOf(n) =
        IF ~doc[n].discriminator THEN Refuse("continue", <<>>)
        ELSE IF list.err # "nil" THEN Refuse(list.err, <<>>)
        ELSE IF FirstType(ms) # "object" THEN Refuse("continue", <<>>)
        ELSE Result(all, plan)
  BY DEF PlanDiscriminatedOneOf
<1>2. ms \in Seq(Refs)
  BY ListIsTyped
<1>3. list.err = "nil" => ms \in Seq(Nodes)
  BY <1>2, ListsAreSteps
<1>4. IsStep(mapped)
  <2>1. IsStep(each)
    <3>1. each = InOrder([i \in DOMAIN ms |-> MappedStep(n, ms[i])])
      BY DEF Each
    <3> HIDE DEF ms
    <3> QED
      BY <1>2, <3>1, MappedAreSteps
  <2>2. IsStep(Check(TypeErr(n)))
    BY TypeErrIsStep
  <2> HIDE DEF each
  <2> QED
    BY <2>1, <2>2, ThenIsStep
<1>5. ASSUME ms \in Seq(Nodes), all.err = "nil" PROVE NamesFor(n, plan, Range(all.deps))
  <2>1. IsStep(naming) /\ naming.deps = ms
    <3>1. Listing(<<>>)
      BY DEF Listing
    <3>2. naming.deps = ms
      BY DEF Step
    <3> QED
      BY <1>5, <3>1, <3>2, StepIsStep
  <2>2. mapped.err = "nil"
    BY <1>5 DEF Then
  <2>3. types[n].go # NoType
    <3>1. Check(TypeErr(n)).err = "nil"
      BY <2>2 DEF Then
    <3> QED
      BY <3>1 DEF TypeErr, Check, Step
  <2> HIDE DEF naming, mapped
  <2>4. IsStep(all) /\ Range(ms) \subseteq Range(all.deps)
    BY <1>4, <1>5, <2>1, ThenHasDeps
  <2> HIDE DEF all
  <2>5. /\ plan.type = types[n].go /\ plan.fields = fields /\ plan.others = MappedTypes(n)
        /\ Field("discriminator", Interface, FALSE, {}).type = Interface
    BY DEF Plan, Field
  <2>6. \A t \in MappedTypes(n) : \E m \in Range(ms) : t = types[m].go
    BY DEF MappedTypes, Range
  <2>7. \A t \in MappedTypes(n) : Accounted(t, Range(all.deps))
    BY <2>4, <2>6, OwnIsAccounted DEF SameName
  <2>8. \A f \in Range(fields) : Accounted(f.type, Range(all.deps))
    <3>1. Range(fields) = {Field("discriminator", Interface, FALSE, {})}
      BY OneField
    <3>2. IsBuiltin(Interface)
      BY NamesOfTypes DEF Interface, IsBuiltin
    <3> HIDE DEF fields
    <3> QED
      BY <2>5, <3>1, <3>2, BuiltinIsAccounted
  <2> HIDE DEF plan, fields
  <2> QED
    BY <2>3, <2>4, <2>5, <2>7, <2>8, DepsAreIn, TypedPlanNames
<1> HIDE DEF list, all, plan
<1>6. ms \in Seq(Nodes) => AnswerNames(n, Result(all, plan))
  BY <1>5, ResultNames
<1> QED
  BY <1>1, <1>3, <1>6, RefusalNamesNone

LEMMA PlanOneOfNames ==
  ASSUME Rigid, NEW n \in Nodes
  PROVE  AnswerNames(n, PlanOneOfDiffTypes(n))
<1> DEFINE refs == doc[n].oneOf
           list == Each(refs, LoadAndDetect)
           values == Each(refs, ValueStep)
           type == TypeInfoHinted(n, "object")
           field == Field("", Interface, FALSE, UNION {ValidatorDeps(m) : m \in Range(refs)})
           fields == <<field>>
           packages == {"fmt", "encoding/json", "bytes"} \union Needed(fields)
           containers == {m \in Range(refs) : TokenOf(m) \in {"object", "array"}}
           plan == Plan("oneOf", n, type, fields, {}, {types[m].go : m \in containers},
                        packages, packages)
<1>1. PlanOneOfDiffTypes(n) =
        IF list.err # "nil" THEN Refuse(list.err, <<>>)
        ELSE IF refs = <<>> \/ SeenTwice(refs) \/ type = NoType THEN Refuse("continue", <<>>)
        ELSE Result(values, plan)
  BY DEF PlanOneOfDiffTypes
<1>2. refs \in Seq(Refs)
  BY ListIsTyped
<1>3. list.err = "nil" => refs \in Seq(Nodes)
  BY <1>2, ListsAreSteps
<1>4. ASSUME refs \in Seq(Nodes), values.err = "nil" PROVE NamesFor(n, plan, Range(values.deps))
  <2>1. \A m \in Range(refs) : IsBuiltin(types[m].go) \/ m \in Range(values.deps)
    BY <1>4, ValuesName
  <2>2. IsStep(values)
    BY <1>4, TuplesAreSteps
  <2> HIDE DEF values
  <2>3. Range(values.deps) \subseteq Nodes
    BY <2>2, DepsAreIn
  <2>4. /\ plan.type = type /\ plan.fields = fields
        /\ plan.others = {types[m].go : m \in containers} /\ field.type = Interface
    BY DEF Plan, Field
  <2>5. \A t \in {types[m].go : m \in containers} : Accounted(t, Range(values.deps))
    BY <2>1, OwnIsAccounted DEF SameName
  <2>6. Range(fields) = {field} /\ IsBuiltin(Interface)
    BY OneField, NamesOfTypes DEF Interface, IsBuiltin
  <2> HIDE DEF plan, fields, field, containers
  <2>7. \A t \in Mentioned(plan) : Accounted(t, Range(values.deps))
    BY <2>4, <2>5, <2>6, BuiltinIsAccounted DEF Mentioned
  <2> QED
    BY <2>1, <2>3, <2>4, <2>7 DEF NamesFor
<1> HIDE DEF list, values, plan
<1>5. refs \in Seq(Nodes) => AnswerNames(n, Result(values, plan))
  BY <1>4, ResultNames
<1> QED
  BY <1>1, <1>3, <1>5, RefusalNamesNone

LEMMA CompositeNames ==
  ASSUME Rigid, TypesAreKnown, MembersAgree, NEW n \in Nodes, NEW i \in 1..NumComposite
  PROVE  AnswerNames(n, Composite(i, n))
<1>1. i \in {1, 2, 3, 4, 5, 6, 7}
  BY DEF NumComposite
<1>2. Composite(i, n) \in {PlanMap(n), PlanAllOfObject(n), PlanObject(n), PlanTuple(n),
                           BuildSlice(n), PlanDiscriminatedOneOf(n), PlanOneOfDiffTypes(n)}
  BY <1>1 DEF Composite
<1> QED
  BY <1>2, PlanMapNames, PlanAllOfNames, PlanObjectNames, PlanTupleNames, BuildSliceNames,
     PlanDiscriminatedNames, PlanOneOfNames
-----------------------------------------------------------------------------
(* Whatever a plan mentions is accounted for by schemas that were named    *)
(* while its own schema was planned.                                       *)
PlansNameTypes ==
  TypesAreKnown /\ MembersAgree =>
    \A p \in Range(plans) :
      \E D : NamesFor(p.schema, p, D) /\ \A m \in D : <<p.schema, m>> \in named
TypingAndNames == Typing /\ PlansNameTypes

LEMMA NamesStay ==
  ASSUME doc' = doc, types' = types
  PROVE  /\ TypesAreKnown' <=> TypesAreKnown
         /\ MembersAgree' <=> MembersAgree
         /\ \A n, p, D : NamesFor(n, p, D)' <=> NamesFor(n, p, D)
<1>1. (TypesAreKnown' <=> TypesAreKnown) /\ (MembersAgree' <=> MembersAgree)
  BY DEF TypesAreKnown, MembersAgree
<1>2. ASSUME NEW n, NEW p, NEW D PROVE NamesFor(n, p, D)' <=> NamesFor(n, p, D)
  <2>1. \A m, t : StandsFor(m, t)' <=> StandsFor(m, t)
    BY DEF StandsFor, TypesOfOneOf
  <2>2. \A t : Accounted(t, D)' <=> Accounted(t, D)
    BY <2>1 DEF Accounted
  <2>3. TypeInfoHinted(n, "object")' = TypeInfoHinted(n, "object")
    BY DEF TypeInfoHinted
  <2> QED
    BY <2>2, <2>3 DEF NamesFor
<1> QED
  BY <1>1, <1>2

LEMMA NamesInductive ==
  ASSUME TypingAndNames, [Next \/ Stopped]_vars
  PROVE  TypingAndNames'
<1> USE DEF TypingAndNames
<1>1. Typing'
  BY TypingNext
<1>2. doc' = doc /\ types' = types
  BY DEF Next, Stopped, vars, LoadRoot, LoadFails, AllLoaded, PassOver, Pop, TryPlanner, Finish,
         PlannerDeclines, PlanningFails, PlannerAccepts, PlannerHangs
<1>3. /\ TypesAreKnown' <=> TypesAreKnown
      /\ MembersAgree' <=> MembersAgree
      /\ \A n, p, D : NamesFor(n, p, D)' <=> NamesFor(n, p, D)
  BY <1>2, NamesStay
<1>4. ASSUME plans' = plans, named \subseteq named' PROVE PlansNameTypes'
  BY <1>3, <1>4 DEF PlansNameTypes
<1>5. CASE TryPlanner
  <2> DEFINE answer == Composite(tried + 1, current)
  <2>1. /\ pc = "plan"
        /\ \/ PlannerDeclines(answer) \/ PlanningFails(answer)
           \/ PlannerAccepts(answer) \/ PlannerHangs(answer)
    BY <1>5 DEF TryPlanner
  <2>2. current \in Nodes /\ tried \in Nat /\ tried + 1 \in 1..NumComposite
    BY <2>1 DEF Typing, NumComposite
  <2>3. Sound(current, answer)
    BY <2>2, CompositeIsSound DEF Typing
  <2>4. TypesAreKnown /\ MembersAgree => AnswerNames(current, answer)
    BY <2>2, CompositeNames DEF Typing
  <2> HIDE DEF answer
  <2>5. CASE PlannerDeclines(answer) \/ PlanningFails(answer) \/ PlannerHangs(answer)
    BY <1>1, <1>4, <2>5 DEF PlannerDeclines, PlanningFails, PlannerHangs, NameDeps
  <2>6. CASE PlannerAccepts(answer)
    <3>1. answer.err = "nil" /\ answer.plan.schema = current
      BY <2>3, <2>6 DEF PlannerAccepts, Sound, SoundPlan
    <3>2. Range(plans') = Range(plans) \union {answer.plan}
      <4>1. plans' = plans \o <<answer.plan>>
        BY <2>6 DEF PlannerAccepts, Typing, Listing
      <4>2. Listing(<<answer.plan>>) /\ Range(<<answer.plan>>) = {answer.plan}
        BY OneField
      <4> QED
        BY <4>1, <4>2, ListingsConcat DEF Typing
    <3>3. named' = named \union {<<current, s>> : s \in Range(answer.deps)}
      BY <2>6 DEF PlannerAccepts, NameDeps
    <3>4. ASSUME TypesAreKnown, MembersAgree, NEW p \in Range(plans')
          PROVE  \E D : NamesFor(p.schema, p, D) /\ \A m \in D : <<p.schema, m>> \in named'
      <4>1. CASE p \in Range(plans)
        BY <3>3, <3>4, <4>1 DEF PlansNameTypes
      <4>2. CASE p = answer.plan
        <5>1. NamesFor(p.schema, p, Range(answer.deps))
          BY <2>4, <3>1, <3>4, <4>2 DEF AnswerNames
        <5>2. \A m \in Range(answer.deps) : <<p.schema, m>> \in named'
          BY <3>1, <3>3, <4>2
        <5> QED
          BY <5>1, <5>2
      <4> QED
        BY <3>2, <3>4, <4>1, <4>2
    <3> QED
      BY <1>1, <1>3, <3>4 DEF PlansNameTypes
  <2> QED
    BY <1>1, <2>1, <2>5, <2>6
<1>6. CASE ~TryPlanner
  BY <1>1, <1>4, <1>6 DEF Next, Stopped, vars, LoadRoot, LoadFails, AllLoaded, PassOver, Pop, Finish
<1> QED
  BY <1>5, <1>6

(* Where the crawl has succeeded, what was named is planned or excluded,   *)
(* it or another schema of its ID.                                         *)
LEMMA NamedIsDealtWith ==
  ASSUME Typing, C!Complete, pc = "done", NEW n, NEW m \in Nodes, <<n, m>> \in named
  PROVE  \/ \E q \in Range(plans) : q.schema \in Nodes /\ Id(q.schema) = Id(m)
         \/ \E e \in Nodes : doc[e].exclude /\ Id(e) = Id(m)
<1> DEFINE ids == [k \in Nodes |-> Id(k)]
           excluded == {k \in Nodes : doc[k].exclude}
<1>1. C!Passed(ids[m])
  <2>1. m \in C!Reached
    BY DEF C!Reached
  <2> QED
    BY <2>1 DEF C!Complete
<1>2. ids[m] = Id(m)
  OBVIOUS
<1>3. CASE \E k \in DOMAIN AbstractAll(plans) : ids[AbstractAll(plans)[k].schema] = ids[m]
  <2>1. PICK k \in DOMAIN AbstractAll(plans) : ids[AbstractAll(plans)[k].schema] = ids[m]
    BY <1>3
  <2>2. k \in DOMAIN plans /\ AbstractAll(plans)[k].schema = plans[k].schema
    BY DEF AbstractAll, Abstract
  <2>3. plans[k] \in Range(plans) /\ plans[k].schema \in Nodes
    BY <2>2 DEF Range, Typing, PlansAreSound
  <2> QED
    BY <2>1, <2>2, <2>3
<1>4. CASE \E e \in excluded : ids[e] = ids[m]
  BY <1>4
<1>5. \/ \E k \in DOMAIN AbstractAll(plans) : ids[AbstractAll(plans)[k].schema] = ids[m]
      \/ \E e \in excluded : ids[e] = ids[m]
  BY <1>1 DEF C!Passed
<1> QED
  BY <1>3, <1>4, <1>5

LEMMA SenseIsDeclared ==
  ASSUME TypingAndNames, C!Complete, DocumentsMakeSense
  PROVE  NoDanglingType
<1> SUFFICES ASSUME pc = "done", NEW p \in Range(plans), NEW t \in Mentioned(p), OfSchema(t)
             PROVE  \/ \E q \in Range(plans) : Declares(q.type, t)
                    \/ \E n \in Nodes : doc[n].exclude /\ Declares(types[n].go, t)
  BY DEF NoDanglingType
<1> USE DEF TypingAndNames, DocumentsMakeSense
<1>0. Rigid
  BY DEF Typing
<1>1. \A q \in Range(plans) :
        \E D : NamesFor(q.schema, q, D) /\ \A m \in D : <<q.schema, m>> \in named
  BY DEF PlansNameTypes
<1>2. ASSUME NEW n, NEW m \in Nodes, <<n, m>> \in named, Declares(types[m].go, t)
      PROVE  \/ \E q \in Range(plans) : Declares(q.type, t)
             \/ \E e \in Nodes : doc[e].exclude /\ Declares(types[e].go, t)
  <2>1. ASSUME NEW q \in Range(plans), q.schema \in Nodes, Id(q.schema) = Id(m)
        PROVE  Declares(q.type, t)
    <3>1. types[q.schema].go = types[m].go
      BY <2>1 DEF IdsAreOneType
    <3>2. ~IsBuiltin(types[q.schema].go)
      BY <1>2, <3>1 DEF Declares, OfSchema, IsBuiltin
    <3>3. TypeInfoHinted(q.schema, "object") = types[q.schema].go
      BY <1>0, <2>1, <3>2, OwnType
    <3>4. q.type = types[m].go
      BY <1>1, <3>1, <3>3 DEF NamesFor
    <3> QED
      BY <1>2, <3>4
  <2>2. ASSUME NEW e \in Nodes, Id(e) = Id(m) PROVE Declares(types[e].go, t)
    BY <1>2, <2>2 DEF IdsAreOneType
  <2> QED
    BY <1>2, <2>1, <2>2, NamedIsDealtWith
<1>3. PICK D : NamesFor(p.schema, p, D) /\ \A m \in D : <<p.schema, m>> \in named
  BY <1>1
<1>4. PICK m \in D : StandsFor(m, t)
  BY <1>3 DEF NamesFor, Accounted
<1>5. m \in Nodes /\ <<p.schema, m>> \in named
  BY <1>3, <1>4 DEF NamesFor
<1>6. CASE Declares(types[m].go, t)
  BY <1>2, <1>5, <1>6
<1>7. CASE types[m].go = NoType /\ \E g \in TypesOfOneOf(m) : Declares(g, t)
  <2>1. PICK g \in TypesOfOneOf(m) : Declares(g, t)
    BY <1>7
  <2>2. ASSUME NEW e \in Nodes, Id(e) = Id(m)
        PROVE  types[e].go = NoType /\ g \in TypesOfOneOf(e)
    BY <1>5, <1>7, <2>1, <2>2 DEF IdsAreOneType
  <2>3. PICK q \in Range(plans) : q.schema \in Nodes /\ Id(q.schema) = Id(m)
    <3>1. \A e \in Nodes : doc[e].exclude => Id(e) # Id(m)
      BY <2>2 DEF ExcludedAreTyped
    <3> QED
      BY <1>5, <3>1, NamedIsDealtWith
  <2>4. PICK E : NamesFor(q.schema, q, E) /\ \A k \in E : <<q.schema, k>> \in named
    BY <1>1
  <2>5. PICK v \in Range(doc[q.schema].oneOf) \ {Broken} : g = types[v].go
    BY <2>2, <2>3 DEF TypesOfOneOf
  <2>6. ~IsBuiltin(types[v].go)
    BY <2>1, <2>5 DEF Declares, OfSchema, IsBuiltin
  <2>7. v \in E /\ E \subseteq Nodes
    BY <2>2, <2>3, <2>4, <2>5, <2>6 DEF NamesFor
  <2> QED
    BY <1>2, <2>1, <2>4, <2>5, <2>7
<1> QED
  BY <1>4, <1>6, <1>7 DEF StandsFor

(* NoDanglingType: of any documents that make sense, the Go code mentions  *)
(* no type that is declared nowhere: what deriveStructFields and the other *)
(* planners write into fields, and what they hand to helper.Dep, agree.    *)
THEOREM NothingDangles ==
  ASSUME Deps = Seq(Nodes)
  PROVE  Spec => [](DocumentsMakeSense => NoDanglingType)
<1>1. Init => TypingAndNames
  <2>1. Init => Typing
    BY TypingInit
  <2>2. Init => PlansNameTypes
    BY DEF Init, PlansNameTypes, Range
  <2> QED
    BY <2>1, <2>2 DEF TypingAndNames
<1>2. TypingAndNames /\ [Next \/ Stopped]_vars => TypingAndNames'
  BY NamesInductive
<1>3. TypingAndNames /\ C!Complete => (DocumentsMakeSense => NoDanglingType)
  BY SenseIsDeclared
<1>4. Spec => []C!Complete
  BY CrawlsPromisesHold, PTL
<1> QED
  BY <1>1, <1>2, <1>3, <1>4, PTL DEF Spec
-----------------------------------------------------------------------------
(* What the plan p of schema n imports, and which maps are planned.        *)
ImportsItsUses(p) == PathsOf(p) \subseteq p.imports \union {"fmt", ""} \union LeftOut(p)
IsMapProper(n, p) ==
  p.kind = "map" => AddlPresent(n) /\ (types[n].chosen = "object" \/ doc[n].props = <<>>)
Dutiful(n, p) == ImportsItsUses(p) /\ IsMapProper(n, p)
AnswerIsDutiful(n, answer) == answer.err = "nil" => Dutiful(n, answer.plan)

LEMMA RefusalIsDutiful ==
  ASSUME NEW n, NEW err, NEW ds, err # "nil"
  PROVE  AnswerIsDutiful(n, Refuse(err, ds))
BY DEF AnswerIsDutiful, Refuse

LEMMA ContinueIsDutiful ==
  ASSUME NEW n PROVE AnswerIsDutiful(n, Refuse("continue", <<>>))
BY RefusalIsDutiful

LEMMA UntypedIsDutiful ==
  ASSUME NEW n, TypeErr(n) # "nil" PROVE AnswerIsDutiful(n, Refuse(TypeErr(n), <<>>))
BY RefusalIsDutiful

LEMMA ResultIsDutiful ==
  ASSUME NEW n, NEW s, NEW p, Dutiful(n, p)
  PROVE  AnswerIsDutiful(n, Result(s, p))
BY DEF AnswerIsDutiful, Result, Refuse

(* A plan imports what it uses if its Deps lists the packages its source   *)
(* refers to, those of its fields' types and those of the other types.     *)
Listed(p) == p.uses \union TypePaths(p.fields) \union {t.path : t \in p.others}
               \subseteq p.imports \union {"fmt", ""} \union LeftOut(p)

LEMMA ListedIsImported == ASSUME NEW p, Listed(p) PROVE ImportsItsUses(p)
<1> DEFINE D == p.imports \union {"fmt", ""} \union LeftOut(p)
<1>1. \A f \in Range(p.fields) : f.type.path \in D
  BY DEF Listed, TypePaths
<1>2. \A t \in Mentioned(p) : t.path \in D
  BY <1>1 DEF Listed, Mentioned
<1> QED
  BY <1>2 DEF Listed, ImportsItsUses, PathsOf

LEMMA StructIsDutiful ==
  ASSUME NEW kind \in {"object", "allOf"}, NEW n, NEW type, NEW fields, NEW checked
  PROVE  Dutiful(n, Struct(kind, n, type, fields, checked))
<1> DEFINE p == Struct(kind, n, type, fields, checked)
<1>1. p.kind = kind
  BY DEF Struct, Plan
<1>2. ImportsItsUses(p)
  <2>1. Listed(p)
    BY DEF Listed, Plan, Struct
  <2> HIDE DEF p
  <2> QED
    BY <2>1, ListedIsImported
<1> QED
  BY <1>1, <1>2 DEF Dutiful, IsMapProper

LEMMA PlanMapIsDutiful == ASSUME NEW n PROVE AnswerIsDutiful(n, PlanMap(n))
<1> DEFINE s == doc[n]
           v == s.addl
           type == IF v \in Nodes THEN types[v].go ELSE Interface
           field == Field("", type, FALSE, IF v \in Nodes THEN ValidatorDeps(v) ELSE {})
           step == IF TypeErr(n) # "nil" THEN Check(TypeErr(n))
                   ELSE IF v = Broken THEN Check("other")
                   ELSE IF v = "true" THEN Skip
                   ELSE IF TypeErr(v) # "nil" THEN Check(TypeErr(v))
                   ELSE Step("nil", IF IsBuiltin(type) THEN <<>> ELSE <<v>>, <<>>)
           p == Plan("map", n, types[n].go, <<field>>, {}, {},
                     Needed(<<field>>), Needed(<<field>>) \union TypePaths(<<field>>))
<1>1. PlanMap(n) = IF (types[n].chosen # "object" /\ s.props # <<>>) \/ ~AddlPresent(n)
                   THEN Refuse("continue", <<>>) ELSE Result(step, p)
  BY DEF PlanMap
<1> HIDE DEF step, field
<1>2. ImportsItsUses(p)
  <2>1. Listed(p)
    BY DEF Listed, Plan, Struct
  <2> HIDE DEF p
  <2> QED
    BY <2>1, ListedIsImported
<1>3. CASE (types[n].chosen # "object" /\ s.props # <<>>) \/ ~AddlPresent(n)
  BY <1>1, <1>3, ContinueIsDutiful
<1>4. CASE ~((types[n].chosen # "object" /\ s.props # <<>>) \/ ~AddlPresent(n))
  <2>1. Dutiful(n, p)
    BY <1>2, <1>4 DEF Dutiful, IsMapProper
  <2> HIDE DEF p
  <2> QED
    BY <1>1, <1>4, <2>1, ResultIsDutiful
<1> QED
  BY <1>3, <1>4

LEMMA PlanAllOfIsDutiful == ASSUME NEW n PROVE AnswerIsDutiful(n, PlanAllOfObject(n))
<1> DEFINE list == Each(doc[n].allOf, LoadAndDetect)
           type == TypeInfoHinted(n, "object")
           own == DeriveStructFields(n)
           members == Each(doc[n].allOf, LAMBDA m : MemberStep(n, m))
           all == Then(own, members)
           p == Struct("allOf", n, type, all.fields,
                       RequiredOf(all.fields) \union SubRequired(n))
<1>1. PlanAllOfObject(n) =
        IF list.err # "nil" THEN Refuse(list.err, <<>>)
        ELSE IF FirstType(doc[n].allOf) # "object" \/ type = NoType
        THEN Refuse("continue", <<>>) ELSE Result(all, p)
  BY DEF PlanAllOfObject
<1>2. Dutiful(n, p)
  BY StructIsDutiful
<1> HIDE DEF list, type, all, p
<1> QED
  BY <1>1, <1>2, ResultIsDutiful, RefusalIsDutiful, ContinueIsDutiful

LEMMA PlanObjectIsDutiful == ASSUME NEW n PROVE AnswerIsDutiful(n, PlanObject(n))
<1> DEFINE own == DeriveStructFields(n)
<1>1. Dutiful(n, Struct("object", n, types[n].go, own.fields, RequiredOf(own.fields)))
  BY StructIsDutiful
<1> QED
  BY <1>1, ResultIsDutiful DEF PlanObject

LEMMA PlanTupleIsDutiful == ASSUME NEW n PROVE AnswerIsDutiful(n, PlanTuple(n))
<1> DEFINE items == Then(Each(doc[n].tuple, Resolve), Each(doc[n].tuple, TupleStep))
           packages == {"encoding/json", "fmt"} \union Needed(items.fields)
           p == Plan("tuple", n, types[n].go, items.fields, {}, {}, packages,
                     packages \union TypePaths(items.fields))
<1>1. PlanTuple(n) = IF types[n].chosen # "array" THEN Refuse("continue", <<>>)
                     ELSE IF TypeErr(n) # "nil" THEN Refuse(TypeErr(n), <<>>)
                     ELSE IF doc[n].tuple = <<>> THEN Refuse("continue", <<>>)
                     ELSE Result(items, p)
  BY DEF PlanTuple
<1> HIDE DEF items
<1>2. ImportsItsUses(p)
  <2>1. Listed(p)
    BY DEF Listed, Plan, Struct
  <2> HIDE DEF p
  <2> QED
    BY <2>1, ListedIsImported
<1>3. Dutiful(n, p)
  BY <1>2 DEF Dutiful, IsMapProper, Plan
<1> HIDE DEF p
<1> QED
  BY <1>1, <1>3, ResultIsDutiful, ContinueIsDutiful, UntypedIsDutiful

LEMMA BuildSliceIsDutiful == ASSUME NEW n PROVE AnswerIsDutiful(n, BuildSlice(n))
<1> DEFINE m == doc[n].items
           type == IF m \in Nodes THEN ItemType(m) ELSE Interface
           field == Field("", type, FALSE, IF m \in Nodes THEN ValidatorDeps(m) ELSE {})
           items == IF m = "absent" THEN Skip
                    ELSE Then(LoadAndDetect(m),
                              Step("nil", IF IsBuiltin(type) THEN <<>> ELSE <<m>>, <<>>))
           unique == Check(IF doc[n].unique /\ type.name = "interface{}" THEN "other" ELSE "nil")
           step == Then(items, unique)
           p == Plan("slice", n, types[n].go, <<field>>, {}, {},
                     {"fmt"} \union Needed(<<field>>), {"fmt"} \union TypePaths(<<field>>))
<1>1. BuildSlice(n) = IF types[n].chosen # "array" THEN Refuse("continue", <<>>)
                      ELSE IF TypeErr(n) # "nil" THEN Refuse(TypeErr(n), <<>>)
                      ELSE Result(step, p)
  BY DEF BuildSlice
<1> HIDE DEF step, field
<1>2. LeftOut(p) = Needed(<<field>>) /\ p.kind = "slice"
  BY DEF LeftOut, Plan
<1>3. ImportsItsUses(p)
  <2>1. Listed(p)
    BY <1>2 DEF Listed, Plan, Struct
  <2> HIDE DEF p
  <2> QED
    BY <2>1, ListedIsImported
<1>4. Dutiful(n, p)
  BY <1>2, <1>3 DEF Dutiful, IsMapProper
<1> HIDE DEF p
<1> QED
  BY <1>1, <1>4, ResultIsDutiful, ContinueIsDutiful, UntypedIsDutiful

(* Of a single field of a built-in type, there is no package to import.    *)
LEMMA NoPathOfInterface ==
  ASSUME NEW json, NEW required, NEW packages
  PROVE  TypePaths(<<Field(json, Interface, required, packages)>>) = {}
<1> DEFINE f == Field(json, Interface, required, packages)
<1>1. f.type.path = ""
  BY DEF Field, Interface, Builtin
<1> HIDE DEF f
<1>2. Range(<<f>>) = {f}
  BY OneField
<1>3. TypePaths(<<f>>) = {g.type.path : g \in {f}} \ {""}
  BY <1>2 DEF TypePaths
<1>4. TypePaths(<<f>>) = {}
  BY <1>1, <1>3
<1> QED
  BY <1>4 DEF f

LEMMA PlanDiscriminatedIsDutiful ==
  ASSUME NEW n PROVE AnswerIsDutiful(n, PlanDiscriminatedOneOf(n))
<1> DEFINE list == Each(doc[n].oneOf, LoadAndDetect)
           mapped == Then(Check(TypeErr(n)), Each(doc[n].oneOf, LAMBDA m : MappedStep(n, m)))
           fields == <<Field("discriminator", Interface, FALSE, {})>>
           packages == {"fmt", "encoding/json"}
           step == Then(mapped, Step("nil", doc[n].oneOf, <<>>))
           p == Plan("discriminated", n, types[n].go, fields, {}, MappedTypes(n),
                     packages, packages)
<1>1. PlanDiscriminatedOneOf(n) =
        IF ~doc[n].discriminator THEN Refuse("continue", <<>>)
        ELSE IF list.err # "nil" THEN Refuse(list.err, <<>>)
        ELSE IF FirstType(doc[n].oneOf) # "object" THEN Refuse("continue", <<>>)
        ELSE Result(step, p)
  BY DEF PlanDiscriminatedOneOf
<1>2. TypePaths(fields) = {}
  BY NoPathOfInterface
<1> HIDE DEF list, step, fields
<1>3. LeftOut(p) = {t.path : t \in MappedTypes(n)} /\ p.kind = "discriminated"
  BY DEF LeftOut, Plan
<1>4. ImportsItsUses(p)
  <2>1. Listed(p)
    BY <1>2, <1>3 DEF Listed, Plan, Struct
  <2> HIDE DEF p
  <2> QED
    BY <2>1, ListedIsImported
<1>5. Dutiful(n, p)
  BY <1>3, <1>4 DEF Dutiful, IsMapProper
<1> HIDE DEF p
<1> QED
  BY <1>1, <1>5, ResultIsDutiful, RefusalIsDutiful, ContinueIsDutiful

LEMMA PlanOneOfIsDutiful == ASSUME NEW n PROVE AnswerIsDutiful(n, PlanOneOfDiffTypes(n))
<1> DEFINE refs == doc[n].oneOf
           list == Each(refs, LoadAndDetect)
           values == Each(refs, ValueStep)
           fields == <<Field("", Interface, FALSE, UNION {ValidatorDeps(m) : m \in Range(refs)})>>
           packages == {"fmt", "encoding/json", "bytes"} \union Needed(fields)
           containers == {m \in Range(refs) : TokenOf(m) \in {"object", "array"}}
           others == {types[m].go : m \in containers}
           p == Plan("oneOf", n, TypeInfoHinted(n, "object"), fields, {}, others,
                     packages, packages)
<1>1. PlanOneOfDiffTypes(n) =
        IF list.err # "nil" THEN Refuse(list.err, <<>>)
        ELSE IF refs = <<>> \/ SeenTwice(refs) \/ TypeInfoHinted(n, "object") = NoType
        THEN Refuse("continue", <<>>)
        ELSE Result(values, p)
  BY DEF PlanOneOfDiffTypes
<1>2. TypePaths(fields) = {}
  BY NoPathOfInterface
<1> HIDE DEF list, values, fields, others
<1>3. LeftOut(p) = {t.path : t \in others} /\ p.kind = "oneOf"
  BY DEF LeftOut, Plan
<1>4. ImportsItsUses(p)
  <2>1. Listed(p)
    BY <1>2, <1>3 DEF Listed, Plan, Struct
  <2> HIDE DEF p
  <2> QED
    BY <2>1, ListedIsImported
<1>5. Dutiful(n, p)
  BY <1>3, <1>4 DEF Dutiful, IsMapProper
<1> HIDE DEF p
<1> QED
  BY <1>1, <1>5, ResultIsDutiful, RefusalIsDutiful, ContinueIsDutiful

LEMMA CompositeIsDutiful ==
  ASSUME NEW n, NEW i \in 1..NumComposite PROVE AnswerIsDutiful(n, Composite(i, n))
BY PlanMapIsDutiful, PlanAllOfIsDutiful, PlanObjectIsDutiful, PlanTupleIsDutiful,
   BuildSliceIsDutiful, PlanDiscriminatedIsDutiful, PlanOneOfIsDutiful DEF Composite
-----------------------------------------------------------------------------
(* Of a package's plans, each is one of all and of that package.           *)
LEMMA GroupsAreOfPlans ==
  ASSUME Listing(plans), NEW path \in DOMAIN GroupByPath(plans),
         NEW p \in Range(GroupByPath(plans)[path])
  PROVE  p \in Range(plans) /\ p.type.path = path
<1> DEFINE n == Len(plans)
           g == CHOOSE g : Grouping(g, plans, path, n)
           Of == {q \in Range(plans) : q.type.path = path}
<1>1. n \in Nat /\ DOMAIN plans = 1..n
  BY DEF Listing
<1>2. GroupByPath(plans)[path] = g[n]
  BY DEF GroupByPath, Grouping
<1>3. Grouping(g, plans, path, n)
  BY <1>1, GroupingExists
<1> HIDE DEF g
<1> DEFINE S == {k \in Nat : k <= n => g[k] \in Seq(Of)}
<1>4. 0 \in S
  BY <1>1, <1>3 DEF Grouping
<1>5. ASSUME NEW k \in Nat, k \in S PROVE k + 1 \in S
  <2> SUFFICES ASSUME k + 1 <= n PROVE g[k + 1] \in Seq(Of)
    OBVIOUS
  <2>1. g[k] \in Seq(Of)
    BY <1>1, <1>5
  <2>2. g[k + 1] = IF plans[k + 1].type.path = path THEN Append(g[k], plans[k + 1]) ELSE g[k]
    <3>1. \A j \in 0..n : j # 0 =>
            g[j] = IF plans[j].type.path = path THEN Append(g[j - 1], plans[j]) ELSE g[j - 1]
      BY <1>1, <1>3 DEF Grouping
    <3>2. k + 1 \in 0..n /\ k + 1 # 0 /\ (k + 1) - 1 = k
      BY <1>1, <1>5
    <3> HIDE DEF n
    <3> QED
      BY <3>1, <3>2
  <2>3. plans[k + 1] \in Range(plans)
    BY <1>1 DEF Range
  <2> HIDE DEF Of
  <2>4. plans[k + 1].type.path = path => plans[k + 1] \in Of
    BY <2>3 DEF Of
  <2> QED
    BY <2>1, <2>2, <2>4
<1> HIDE DEF S
<1>6. n \in S
  BY <1>1, <1>4, <1>5, InductionOnSet
<1>7. g[n] \in Seq(Of)
  BY <1>1, <1>6 DEF S
<1>8. p \in Of
  <2> HIDE DEF Of
  <2> QED
    BY <1>2, <1>7 DEF Range
<1> QED
  BY <1>8

(* The inductive invariant: every plan is dutiful, and the plans are       *)
(* grouped when the crawl is done.                                         *)
PlansAreDutiful == \A p \in Range(plans) : Dutiful(p.schema, p)
IsGrouped == grouped = IF pc = "done" THEN GroupByPath(plans) ELSE <<>>
TypingAndDuty == Typing /\ PlansAreDutiful /\ IsGrouped

LEMMA DutyInductive ==
  ASSUME TypingAndDuty, [Next \/ Stopped]_vars
  PROVE  TypingAndDuty'
<1> USE DEF TypingAndDuty
<1>1. Typing'
  BY TypingNext
<1>2. doc' = doc /\ types' = types
  BY DEF Next, Stopped, vars, LoadRoot, LoadFails, AllLoaded, PassOver, Pop, TryPlanner, Finish,
         PlannerDeclines, PlanningFails, PlannerAccepts, PlannerHangs
<1>3. \A n, p : Dutiful(n, p)' <=> Dutiful(n, p)
  BY <1>2 DEF Dutiful, ImportsItsUses, IsMapProper, AddlPresent
<1>4. CASE TryPlanner
  <2> DEFINE answer == Composite(tried + 1, current)
  <2>1. /\ pc = "plan"
        /\ \/ PlannerDeclines(answer) \/ PlanningFails(answer)
           \/ PlannerAccepts(answer) \/ PlannerHangs(answer)
    BY <1>4 DEF TryPlanner
  <2>2. current \in Nodes /\ tried \in Nat /\ tried + 1 \in 1..NumComposite
    BY <2>1 DEF Typing, NumComposite
  <2>3. Sound(current, answer)
    BY <2>2, CompositeIsSound DEF Typing
  <2>4. AnswerIsDutiful(current, answer)
    BY <2>2, CompositeIsDutiful
  <2> HIDE DEF answer
  <2>5. IsGrouped'
    BY <2>1 DEF IsGrouped, PlannerDeclines, PlanningFails, PlannerAccepts, PlannerHangs
  <2>6. CASE PlannerDeclines(answer) \/ PlanningFails(answer) \/ PlannerHangs(answer)
    <3>1. plans' = plans
      BY <2>6 DEF PlannerDeclines, PlanningFails, PlannerHangs
    <3> QED
      BY <1>1, <1>3, <2>5, <3>1 DEF PlansAreDutiful
  <2>7. CASE PlannerAccepts(answer)
    <3>1. answer.err = "nil" /\ answer.plan.schema = current
      BY <2>3, <2>7 DEF PlannerAccepts, Sound, SoundPlan
    <3>2. Range(plans') = Range(plans) \union {answer.plan}
      <4>1. plans' = plans \o <<answer.plan>>
        BY <2>7 DEF PlannerAccepts, Typing, Listing
      <4>2. Listing(<<answer.plan>>) /\ Range(<<answer.plan>>) = {answer.plan}
        BY OneField
      <4> QED
        BY <4>1, <4>2, ListingsConcat DEF Typing
    <3>3. Dutiful(answer.plan.schema, answer.plan)
      BY <2>4, <3>1 DEF AnswerIsDutiful
    <3>4. PlansAreDutiful'
      BY <1>3, <3>2, <3>3 DEF PlansAreDutiful
    <3> QED
      BY <1>1, <2>5, <3>4
  <2> QED
    BY <2>1, <2>6, <2>7
<1>5. CASE Finish
  BY <1>1, <1>3, <1>5 DEF Finish, PlansAreDutiful, IsGrouped
<1>6. CASE ~TryPlanner /\ ~Finish
  <2>1. plans' = plans /\ grouped' = grouped /\ (pc' = "done" <=> pc = "done")
    BY <1>6 DEF Next, Stopped, vars, LoadRoot, LoadFails, AllLoaded, PassOver, Pop
  <2> QED
    BY <1>1, <1>3, <2>1 DEF PlansAreDutiful, IsGrouped
<1> QED
  BY <1>4, <1>5, <1>6

LEMMA DutyHolds == Spec => []TypingAndDuty
<1>1. Init => TypingAndDuty
  <2>1. Init => Typing
    BY TypingInit
  <2> QED
    BY <2>1 DEF Init, TypingAndDuty, PlansAreDutiful, IsGrouped, Range
<1>2. TypingAndDuty /\ [Next \/ Stopped]_vars => TypingAndDuty'
  BY DutyInductive
<1> QED
  BY <1>1, <1>2, PTL DEF Spec

(* EveryUseIsImported, but for the packages the finding is about: what     *)
(* the Deps of slices and oneOfs leave out is all that a file may refer to *)
(* without importing it.                                                   *)
THEOREM OnlyLeftOutIsMissing == Spec => [](NothingIsLeftOut => EveryUseIsImported)
<1>1. ASSUME TypingAndDuty, NothingIsLeftOut PROVE EveryUseIsImported
  <2> SUFFICES ASSUME NEW path \in DOMAIN grouped, NEW p \in Range(grouped[path])
               PROVE  PathsOf(p) \subseteq
                        {"fmt", path, ""} \union UNION {q.imports : q \in Range(grouped[path])}
    BY DEF EveryUseIsImported
  <2>1. grouped = GroupByPath(plans)
    <3>1. DOMAIN grouped # {} /\ DOMAIN <<>> = {}
      OBVIOUS
    <3> QED
      BY <1>1, <3>1 DEF TypingAndDuty, IsGrouped
  <2>2. p \in Range(plans) /\ p.type.path = path
    BY <1>1, <2>1, GroupsAreOfPlans DEF TypingAndDuty, Typing
  <2>3. PathsOf(p) \subseteq p.imports \union {"fmt", ""} \union LeftOut(p)
    BY <1>1, <2>2 DEF TypingAndDuty, PlansAreDutiful, Dutiful, ImportsItsUses
  <2>4. LeftOut(p) \subseteq {path, "fmt", ""}
    BY <1>1, <2>2 DEF NothingIsLeftOut
  <2> QED
    BY <2>3, <2>4
<1> QED
  BY <1>1, DutyHolds, PTL

(* MapsHaveOnlyAdditional, but for the objects the finding is about: those *)
(* with both properties and additionalProperties are all that PlanMap      *)
(* takes for a map and should not.                                         *)
THEOREM OnlyBothIsMisread == Spec => [](ObjectsAreEither => MapsHaveOnlyAdditional)
<1>1. ASSUME TypingAndDuty, ObjectsAreEither PROVE MapsHaveOnlyAdditional
  <2> SUFFICES ASSUME NEW p \in Range(plans), p.kind = "map" PROVE doc[p.schema].props = <<>>
    BY DEF MapsHaveOnlyAdditional
  <2>1. p.schema \in Nodes
    BY <1>1 DEF TypingAndDuty, Typing, PlansAreSound
  <2>2. AddlPresent(p.schema)
        /\ (types[p.schema].chosen = "object" \/ doc[p.schema].props = <<>>)
    BY <1>1 DEF TypingAndDuty, PlansAreDutiful, Dutiful, IsMapProper
  <2> QED
    BY <1>1, <2>1, <2>2 DEF ObjectsAreEither
<1> QED
  BY <1>1, DutyHolds, PTL
=============================================================================
