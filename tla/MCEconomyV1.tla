---------------------------- MODULE MCEconomyV1 ----------------------------
(***************************************************************************)
(* Two epochs of the v1 market, an operator and two players.               *)
(***************************************************************************)
EXTENDS EconomyV1

CONSTANTS op, alice, bob

\* The two kinds of entry.
MCFeeTables == {[match |-> 1, tournament |-> 2]}
MCBalance == [w \in Wallets |-> CASE w = alice -> 2 [] w = bob -> 1 [] OTHER -> 0]

\* One table, which promises more than the smaller total.
MCRoots == { << <<alice, 1>>, <<bob, 1>> >> }
=============================================================================
