-------------------------- MODULE MCAdminDecisions --------------------------
(***************************************************************************)
(* Two proposals and two decisions over one reward epoch and one economy   *)
(* epoch; an operator's token and a superadmin's, both of which may        *)
(* propose.                                                                *)
(***************************************************************************)
EXTENDS AdminDecisions

CONSTANTS q1, q2, a1, a2, operator, superadmin

MCTargets == {<<"seal-reward-epoch", 0>>, <<"close-economy-epoch", 1>>}
MCTargetsAbsent == MCTargets \cup {<<"seal-reward-epoch", 7>>}
=============================================================================
