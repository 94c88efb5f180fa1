---------------------------- MODULE MCPrefixMap ----------------------------
(***************************************************************************)
(* Strings in their order, with the prefixes and the paths that make the   *)
(* cases of TestMapPrefix and more: the path is a prefix, two prefixes     *)
(* match, the nearest lesser prefix does not, none does.                   *)
(***************************************************************************)
EXTENDS PrefixMap, TLC

(* "a", "a/b", "a/b/c", "a/c", "b"                                         *)
Text == << <<"a">>, <<"a", "b">>, <<"a", "b", "c">>, <<"a", "c">>, <<"b">> >>
MCStrings == DOMAIN Text
MCPrefixes == 1..4
MCSought == {1, 3, 4, 5}
MCPrefixOf == {<<p, s>> \in MCStrings \X MCStrings :
                 /\ Len(Text[p]) <= Len(Text[s])
                 /\ SubSeq(Text[s], 1, Len(Text[p])) = Text[p]}
MCSymmetry == Permutations(Calls)
=============================================================================
