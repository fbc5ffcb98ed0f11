------------------------------ MODULE MCDbPool ------------------------------
(***************************************************************************)
(* Two ranks, a read and the three registrations in a ring of three.       *)
(***************************************************************************)
EXTENDS DbPool
=============================================================================
