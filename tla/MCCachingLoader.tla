--------------------------- MODULE MCCachingLoader ---------------------------
(* The caching loader on two callers that load two URLs, each again and    *)
(* again.  No symmetry: liveness is checked too.                           *)
EXTENDS CachingLoader
=============================================================================
