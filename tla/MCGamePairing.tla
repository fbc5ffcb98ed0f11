---------------------------- MODULE MCGamePairing ----------------------------
(***************************************************************************)
(* Two connections in a slot or two, a session and two tokens; a request   *)
(* lives for two ticks, an HTTP call for one.                              *)
(***************************************************************************)
EXTENDS GamePairing

MCSessionExpiry == [s \in Sessions |-> MaxTime]
=============================================================================
