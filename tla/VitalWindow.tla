----------------------------- MODULE VitalWindow -----------------------------
(***************************************************************************)
(* What a connection promises about its vital chunks, in one direction:    *)
(* the sender numbers them modulo NET_MAX_SEQUENCE and keeps the ones that *)
(* are not acknowledged, the receiver takes the one after its last number. *)
(* The network may deliver, at any time and any number of times, every     *)
(* chunk and every ack that is not older than its assumed delay; nothing   *)
(* else of packets, timers and resends matters, so none of it is here.     *)
(* NetConn, the detailed model, takes only steps of this one.              *)
(***************************************************************************)
EXTENDS NetSequence, Sequences

VARIABLES
  sent,    \* number of vital chunks queued so far; chunk n carries message n
  log,     \* messages the receiver handed out, in order
  base     \* first message still in the resend buffer (base .. sent)

vars == <<sent, log, base>>

TypeOK ==
  /\ sent \in Nat
  /\ log \in Seq(Nat)
  /\ base \in Nat

Init ==
  /\ sent = 0
  /\ log = << >>
  /\ base = 1

(* QueueChunk with room in the resend buffer.                              *)
Queue ==
  /\ sent - base + 1 < BufferSize
  /\ sent' = sent + 1
  /\ UNCHANGED <<log, base>>

(* UnpackNextChunk on chunk n: taken if its number is the next one. The    *)
(* receiver knows the number only, not n.                                  *)
Receive(n) ==
  /\ n \in 1 .. sent
  /\ sent - n < ChunkSpan
  /\ ChunkSeq(n) = ChunkSeq(ChunkSeq(Len(log)) + 1)
  /\ log' = Append(log, n)
  /\ UNCHANGED <<sent, base>>

(* AckChunks on an ack the receiver sent when it had k chunks: everything  *)
(* at the head of the buffer that lies behind the ack is released.         *)
Release(k) ==
  /\ k \in 0 .. Len(log)
  /\ sent - k <= BufferSize + AckDelay
  /\ \E b \in base .. sent + 1 :
       /\ \A n \in base .. b - 1 : IsSeqInBackroom(ChunkSeq(n), ChunkSeq(k))
       /\ b <= sent => ~IsSeqInBackroom(ChunkSeq(b), ChunkSeq(k))
       /\ base' = b
  /\ UNCHANGED <<sent, log>>

Next ==
  \/ Queue
  \/ \E n \in Nat : Receive(n)
  \/ \E k \in Nat : Release(k)

Spec == Init /\ [][Next]_vars

(* The receiver has handed out exactly the first messages, in order, each  *)
(* once.                                                                   *)
InOrder == \A i \in DOMAIN log : log[i] = i

(* A message leaves the resend buffer only after the receiver has it.      *)
BufferCovers == base <= Len(log) + 1
=============================================================================
