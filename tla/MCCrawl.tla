------------------------------- MODULE MCCrawl -------------------------------
(* The crawl of two URIs over three schemas and every assignment of IDs    *)
(* and exclusions to them.  A planner names at most one dependency, so a   *)
(* schema, with two planners, at most two.                                 *)
EXTENDS Crawl

MCDeps == {<<>>} \union {<<s>> : s \in Schemas}
=============================================================================
