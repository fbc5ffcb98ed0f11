--------------------------- MODULE MCRewardLedger ---------------------------
(***************************************************************************)
(* Instances of the reward ledger for TLC: three signed events of two      *)
(* players, two wallets, a week of two days, one epoch per week.           *)
(***************************************************************************)
EXTENDS RewardLedger

CONSTANTS p1, p2, w1, w2, e1, e2, e3

\* Two events of p1 in two matches, and one of p2 in the second of them.
MCmatch_id == [e \in {e1, e2, e3} |-> IF e = e1 THEN "m1" ELSE "m2"]
MCplayer_id == [e \in {e1, e2, e3} |-> IF e = e3 THEN p2 ELSE p1]
MCamount == [e \in {e1, e2, e3} |-> IF e = e3 THEN 1 ELSE 2]
MCaccounts == [p \in {p1, p2} |-> IF p = p1 THEN w1 ELSE w2]
=============================================================================
