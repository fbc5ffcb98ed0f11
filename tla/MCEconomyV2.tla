---------------------------- MODULE MCEconomyV2 ----------------------------
(***************************************************************************)
(* Small instances of one v2 market for TLC: an operator and two players,  *)
(* any of whom may become the authority.                                   *)
(***************************************************************************)
EXTENDS EconomyV2

CONSTANTS op, alice, bob

\* A rake of 1 or 2 quarters; a fee of 3 makes the rounding visible.
MCFeesOne == [t \in {1} |-> 4]

MCFeesSmall == [t \in {1} |-> 3]
MCBalanceSmall == [w \in Wallets |-> IF w = op THEN 1 ELSE 3]
MCBalance == [w \in Wallets |-> IF w = op THEN 1 ELSE 4]

\* One leaf; two leaves; a table naming both players for more than some totals.
MCRoots == { << <<alice, 2>> >>,
             << <<alice, 1>>, <<bob, 2>> >> }
MCRootsSmall == { << <<alice, 1>>, <<bob, 1>> >> }
=============================================================================
