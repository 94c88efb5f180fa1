------------------------------ MODULE MCImports ------------------------------
(***************************************************************************)
(* Paths in the order of their strings: a/foo, b/foo, c/foo, d/foo2, fmt.  *)
(***************************************************************************)
EXTENDS Imports, Sequences

MCPaths == 1..5
MCBaseImports == {5}
MCBases == {"foo", "foo2", "fmt"}
MCBase == <<"foo", "foo", "foo", "foo2", "fmt">>
Digits == <<"1", "2", "3", "4", "5">>
MCNumbered == [name \in MCBases |-> [k \in 2..5 |-> name \o Digits[k]]]
MCNames == MCBases \union {MCNumbered[name][k] : name \in MCBases, k \in 2..5}
=============================================================================
