------------------------------ MODULE MCNetConn ------------------------------
(***************************************************************************)
(* A session from the handshake on, one chunk each way; and a session that *)
(* has exchanged six chunks of the server, which sends two more and      *)
(* wraps around the eight sequence numbers of the instance.                *)
(***************************************************************************)
EXTENDS NetConn

Numbers(c, s) == [e \in {"client", "server"} |-> IF e = "client" THEN c ELSE s]
MCInFlight == Numbers(1, 2)
ShortSession == {[from |-> Numbers(0, 0), upto |-> Numbers(1, 1)]}
MCSessions == {[from |-> Numbers(0, 0), upto |-> Numbers(1, 1)],
               [from |-> Numbers(0, 6), upto |-> Numbers(1, 8)]}
=============================================================================
