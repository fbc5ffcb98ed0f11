-------------------------- MODULE MCRewardsProgram --------------------------
(***************************************************************************)
(* Two epochs, an operator and two players, and a root that promises more  *)
(* than some of the totals it may be published with.                       *)
(***************************************************************************)
EXTENDS RewardsProgram

CONSTANTS op, alice, bob

MCRoots == {<< <<alice, 1>>, <<bob, 2>> >>, << <<alice, 2>> >>}
=============================================================================
