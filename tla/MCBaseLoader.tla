---------------------------- MODULE MCBaseLoader ----------------------------
(***************************************************************************)
(* Documents of a root, two schemas in it and one below the first of them, *)
(* any of which states an absolute ID, a relative one, or none.  A key is  *)
(* a sequence of segments, as in "properties/a".                           *)
(***************************************************************************)
EXTENDS BaseLoader

A == <<"properties", "a">>
Items == <<"items">>
Nodes == {Root, <<A>>, <<Items>>, <<A, Items>>}
Stated(u) == [url |-> u, fragment |-> <<>>]
MCUrls == {"http://h/u", "v/w", "/v/v/w"}
MCResolved == [u \in MCUrls |-> IF u = "v/w" THEN "/v/v/w" ELSE u]
MCDocuments ==
  {[nodes |-> ns, stated |-> s] :
     ns \in {Nodes}, s \in [Nodes -> {NoId, Stated("http://h/u"), Stated("v/w")}]}
MCSchemes == {"file", "http", "ftp"}
=============================================================================
