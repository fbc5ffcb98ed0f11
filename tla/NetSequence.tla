----------------------------- MODULE NetSequence -----------------------------
(***************************************************************************)
(* Arithmetic on the sequence numbers of vital chunks (CNetBase and        *)
(* CNetConnection, engine/shared/network.cpp and network_conn.cpp).        *)
(* Numbers live in 0 .. NET_MAX_SEQUENCE - 1 and wrap around.              *)
(***************************************************************************)
EXTENDS Integers

CONSTANTS
  NET_MAX_SEQUENCE,
  BufferSize,   \* vital chunks the resend buffer (NET_CONN_BUFFERSIZE) holds
  ChunkSpan,    \* a vital chunk arrives before its end has queued
                \* ChunkSpan newer ones, or never
  AckDelay      \* an ack arrives before more than BufferSize + AckDelay
                \* chunks beyond the acknowledged one are queued, or never

ASSUME SequenceAssumption ==
  /\ NET_MAX_SEQUENCE \in Nat \ {0, 1}
  /\ BufferSize \in Nat \ {0}
  /\ ChunkSpan \in Nat
  /\ AckDelay \in Nat
  /\ ChunkSpan < NET_MAX_SEQUENCE
  /\ 2 * (BufferSize + AckDelay) < NET_MAX_SEQUENCE

SeqNumbers == 0 .. NET_MAX_SEQUENCE - 1

(* The number of the n-th vital chunk of a connection.                     *)
ChunkSeq(n) == n % NET_MAX_SEQUENCE

(* CNetBase::IsSeqInBackroom: seq is at most half the sequence space       *)
(* behind ack, the receiver's last number (ack itself included).           *)
IsSeqInBackroom(seq, ack) ==
  LET bottom == ack - (NET_MAX_SEQUENCE \div 2)
  IN  IF bottom < 0
      THEN seq <= ack \/ seq >= bottom + NET_MAX_SEQUENCE
      ELSE seq <= ack /\ seq >= bottom

AckInRange_no_wrap(sequence, peerAck, ack) == ~(ack < peerAck \/ ack > sequence)

(* The ack test at the top of CNetConnection::Feed: the packet's ack lies  *)
(* between the last ack of the peer and the own sequence number.           *)
AckInRange(sequence, peerAck, ack) ==
  IF sequence >= peerAck
  THEN ~(ack < peerAck \/ ack > sequence)
  ELSE ~(ack < peerAck /\ ack > sequence)
=============================================================================
