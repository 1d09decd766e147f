--------------------------- MODULE MCSchemaCache ---------------------------
(***************************************************************************)
(* Two processes and two query threads; a TTL of one hour, so that a file  *)
(* can be fresh, as old as its TTL, and older.                             *)
(***************************************************************************)
EXTENDS SchemaCache, TLC

Symmetry == Permutations(Processes) \union Permutations(Threads)
=============================================================================
