---------------------------- MODULE MCServerSlots ----------------------------
(***************************************************************************)
(* Two slots, an address on each of two hosts, one client per host, a code.*)
(***************************************************************************)
EXTENDS ServerSlots

MCIp == [a \in {"a1", "b1"} |-> IF a = "b1" THEN "b" ELSE "a"]
=============================================================================
