---------------------------- MODULE MCGeneration ----------------------------
(***************************************************************************)
(* Documents: a root with one level of keywords, over a fixed catalogue of *)
(* schemas for its properties, items and members, some of which lead on to *)
(* others.  "copy" is what a second reference to the document of "obj"     *)
(* loads: the same schema at another address.                              *)
(***************************************************************************)
EXTENDS Generation

Typed(t) == [Blank EXCEPT !.type = t]
Ref(name, schema) == [name |-> name, schema |-> schema]
Named(s, path, name) == [s EXCEPT !.path = path, !.name = name]

Obj == Named([Blank EXCEPT !.props = <<Ref("a", "str")>>], "q", "Obj")
Leaves == [
  str |-> [Typed("string") EXCEPT !.pattern = TRUE],
  int |-> Typed("integer"),
  num |-> [Typed("number") EXCEPT !.multipleOf = TRUE],
  nul |-> Typed("null"),
  any |-> Blank,
  obj |-> Obj,
  copy |-> Obj,
  arr |-> [Typed("array") EXCEPT !.items = "str"],
  maybe |-> [Blank EXCEPT !.oneOf = <<"obj", "nul">>],
  vague |-> [Blank EXCEPT !.oneOf = <<"any", "nul">>],
  map |-> [Blank EXCEPT !.addl = "int"],
  mix |-> [Blank EXCEPT !.allOf = <<"obj">>],
  prom |-> [Typed("object") EXCEPT !.props = <<Ref("b", "maybe")>>, !.promote = TRUE],
  odd |-> [Blank EXCEPT !.props = <<Ref("c", "vague2")>>],
  vague2 |-> [Blank EXCEPT !.oneOf = <<"any", "nul">>]]

Names == DOMAIN Leaves \union {"root"}
Complete(n, s) ==
  [s EXCEPT !.id = IF n = "copy" THEN "obj" ELSE n,
            !.path = IF s.path = "" THEN "p" ELSE s.path,
            !.name = IF s.name = "" THEN n ELSE s.name]
Document(root) ==
  [n \in Names |-> Complete(n, IF n = "root" THEN root ELSE Leaves[n])]
Excluding(d, n) == [d EXCEPT ![n].exclude = TRUE]

AnyRef == DOMAIN Leaves \union {Broken}
Objects ==
  {[Blank EXCEPT !.props = ps, !.addl = a, !.type = t, !.required = {"a"}] :
     ps \in {<<>>} \union {<<Ref("a", r)>> : r \in AnyRef}
              \union {<<Ref("a", r), Ref("z", "odd")>> : r \in AnyRef},
     a \in {"absent", "false", "true", "obj", "str", Broken},
     t \in {"absent", "object"}}
Compositions ==
  {[Blank EXCEPT !.props = ps, !.allOf = ms, !.required = {"a", "b", "z"}] :
     ps \in {<<>>, <<Ref("z", "map")>>},
     ms \in {<<m>> : m \in AnyRef}
        \union {<<m, k>> : m, k \in {"obj", "copy", "mix", "prom", "odd", "arr", Broken}}}
Arrays ==
  {[Blank EXCEPT !.items = i, !.unique = u, !.type = "array"] :
     i \in AnyRef \union {"absent"}, u \in BOOLEAN}
Tuples ==
  {[Blank EXCEPT !.tuple = <<r, s>>] : r, s \in AnyRef}
OneOfs ==
  {[Blank EXCEPT !.oneOf = ms, !.gopath = g, !.discriminator = d,
                 !.mapping = {"Obj", "prom"}] :
     ms \in {<<m>> : m \in AnyRef} \union {<<m, k>> : m, k \in AnyRef},
     g \in BOOLEAN, d \in BOOLEAN}
Roots == Objects \union Compositions \union Arrays \union Tuples \union OneOfs

MCDocs == {Document(r) : r \in Roots}
            \union {Excluding(Document(r), "obj") : r \in Compositions \union Arrays}

(* Fewer documents, where a planner names at most three schemas, for the   *)
(* refinement.  In two thirds of them "any" is its own allOf, and in half  *)
(* of those it also has a "type" that names no JSON type.                  *)
Looping(s) == Complete("any", [s EXCEPT !.allOf = <<"any">>])
SmallRoots == {r \in Compositions \union Arrays : r.props = <<>> /\ r.allOf # <<"odd", "odd">>}
MCSmallDocs ==
  UNION {{Document(r), [Document(r) EXCEPT !["any"] = Looping(Blank)],
          [Document(r) EXCEPT !["any"] = Looping(Typed("unknown"))]} : r \in SmallRoots}

MCNodes == Names
MCIds == Names \ {"copy"}
MCRootList == {<<"root">>}
MCAllDocs == MCDocs \union MCSmallDocs
MCRootPairs == {<<"root", "arr">>, <<"root", Broken>>}
MCDeps == UNION {[1..k -> Names] : k \in 0..3}
=============================================================================
