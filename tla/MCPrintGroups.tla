---------------------------- MODULE MCPrintGroups ----------------------------
(* Print on three packages and two files, over files of an earlier run     *)
(* that are longer than any it writes.                                     *)
EXTENDS PrintGroups
=============================================================================
