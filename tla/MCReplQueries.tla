--------------------------- MODULE MCReplQueries ---------------------------
(***************************************************************************)
(* Two queries of three and two statements: an abandoned query can be      *)
(* caught anywhere in planning and executing the next one.                 *)
(***************************************************************************)
EXTENDS ReplQueries

CONSTANTS q1, q2

MCLength == [q \in Queries |-> IF q = q1 THEN 3 ELSE 2]
=============================================================================
