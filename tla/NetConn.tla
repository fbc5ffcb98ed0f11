------------------------------- MODULE NetConn -------------------------------
(***************************************************************************)
(* One connection of the game protocol: the CNetConnection of a client     *)
(* (CNetClient) and the one in a server slot (CNetServer), over UDP. The   *)
(* network may lose, delay, reorder and duplicate packets; time is a       *)
(* choice of which timers are due when Update runs.                        *)
(*                                                                         *)
(* The payload of a vital chunk is its index among the chunks its end has  *)
(* queued, so what arrives can be compared with what was sent; the header  *)
(* carries only the index modulo NET_MAX_SEQUENCE, as in the code.         *)
(* Non-vital chunks have no number and no history: a packet of them alone, *)
(* like a keepalive, is a packet without vital chunks.                     *)
(***************************************************************************)
EXTENDS NetSequence, Sequences, SequencesExt

CONSTANTS
  Client, Server,        \* the two ends
  NET_MAX_PACKET_CHUNKS,
  Sessions,              \* bound: vital chunks each end has sent, and has
                         \* acknowledged, when the model starts, and the
                         \* number it sends in all: records [from, upto]
  StalePeerAcks,         \* peer acks a timed-out connection may have left
  InFlight               \* bound: packets in flight in each direction

Ends == {Client, Server}
Peer(e) == IF e = Client THEN Server ELSE Client

ASSUME ConnAssumption ==
  /\ Client # Server
  /\ NET_MAX_PACKET_CHUNKS \in Nat \ {0}
  /\ Sessions \subseteq [from : [Ends -> Nat], upto : [Ends -> Nat]]
  /\ StalePeerAcks \subseteq SeqNumbers
  /\ InFlight \in [Ends -> Nat \ {0}]

VARIABLES
  conn,    \* the CNetConnection of each end
  net,     \* packets each end sent that are in flight, oldest first
  session, \* the element of Sessions of this behaviour
  sent,    \* history: vital chunks each end queued in this session
  rcvd,    \* history: payloads of the vital chunks each end handed out
  broken   \* history: the code paths taken that give up the guarantee

vars == <<conn, net, session, sent, rcvd, broken>>

-----------------------------------------------------------------------------
(* The chunk and the packet as handed to the network.                      *)
Chunks == [seq : SeqNumbers, data : Nat]

(* CNetConnection::Reset                                                   *)
Reset == [state |-> "OFFLINE", sequence |-> 0, ack |-> 0, peerAck |-> 0,
          remoteClosed |-> FALSE, token |-> "UNKNOWN",
          resendRequested |-> FALSE, buffer |-> << >>,
          chunks |-> << >>, resendFlag |-> FALSE]

(* CNetConnection::DirectInit                                              *)
DirectInit == [Reset EXCEPT !.state = "ONLINE", !.token = "token"]

(* Applies op to the elements of s from left to right.                     *)
Each(op(_, _), r, s) ==
  LET f[i \in 0 .. Len(s)] == IF i = 0 THEN r ELSE op(f[i - 1], s[i]) IN f[Len(s)]

(* A handler under way: the connection and the packets it has sent.        *)
Run(c) == [c |-> c, out |-> << >>]

Packet(kind, c, chunks, resend) ==
  [kind |-> kind, ack |-> c.ack, acked |-> 0, token |-> c.token,
   resend |-> resend, chunks |-> chunks]

(* CNetConnection::SendControl, SendConnect                                *)
SendControl(r, msg) == [r EXCEPT !.out = Append(@, Packet(msg, r.c, << >>, FALSE))]

(* CNetConnection::Flush; other: the packet also has a non-vital chunk     *)
Flush(r, other) ==
  IF r.c.chunks = << >> /\ ~r.c.resendFlag /\ ~other THEN r
  ELSE [c |-> [r.c EXCEPT !.chunks = << >>, !.resendFlag = FALSE],
        out |-> Append(r.out, Packet("CHUNKS", r.c, r.c.chunks, r.c.resendFlag))]

(* CNetConnection::QueueChunkEx up to saving the chunk                     *)
Pack(r, chunk) ==
  IF r.c.state \in {"OFFLINE", "ERROR"} THEN r
  ELSE LET f == IF Len(r.c.chunks) = NET_MAX_PACKET_CHUNKS THEN Flush(r, FALSE) ELSE r
       IN  [f EXCEPT !.c.chunks = Append(@, chunk)]

(* CNetConnection::QueueChunk of a vital chunk: the number is used up even *)
(* when the connection is down; the chunk is saved if the buffer has room. *)
QueueVital(r, n) ==
  LET chunk == [seq |-> (r.c.sequence + 1) % NET_MAX_SEQUENCE, data |-> n]
      p == Pack([r EXCEPT !.c.sequence = chunk.seq], chunk)
  IN  IF r.c.state \in {"OFFLINE", "ERROR"} \/ Len(r.c.buffer) = BufferSize THEN p
      ELSE [p EXCEPT !.c.buffer = Append(@, chunk)]

(* CNetConnection::ResendChunk is Pack of a saved chunk; Resend            *)
Resend(r) == Each(Pack, r, r.c.buffer)

(* CNetConnection::AnswerResendRequest; due: the interval has passed       *)
AnswerResendRequest(r, due) ==
  IF ~r.c.resendRequested \/ ~due THEN r
  ELSE Resend([r EXCEPT !.c.resendRequested = FALSE])

AckChunks_no_wrap(c, ack) == [c EXCEPT !.buffer = SelectSeq(@, LAMBDA k : k.seq > ack)]

(* CNetConnection::AckChunks                                               *)
AckChunks(c, ack) ==
  LET kept == {i \in DOMAIN c.buffer : ~IsSeqInBackroom(c.buffer[i].seq, ack)}
      first == IF kept = {} THEN Len(c.buffer) + 1
               ELSE CHOOSE i \in kept : \A j \in kept : i <= j
  IN  [c EXCEPT !.buffer = SubSeq(@, first, Len(@))]

(* CNetConnection::Disconnect; quiet: m_TimeoutSituation                   *)
Disconnect(r, quiet) ==
  IF r.c.state = "OFFLINE" THEN r
  ELSE [(IF r.c.remoteClosed \/ quiet THEN r ELSE SendControl(r, "CLOSE"))
          EXCEPT !.c = Reset]

(* The tests at the top of CNetConnection::Feed: token, then ack           *)
FeedAccepts(c, p) ==
  /\ c.token # "UNKNOWN" => p.token = c.token
  /\ AckInRange(c.sequence, c.peerAck, p.ack)

(* The rest of CNetConnection::Feed. due: AnswerResendRequest's interval   *)
Feed(r, p, due) ==
  LET r1 == AnswerResendRequest(
              [r EXCEPT !.c.peerAck = p.ack,
                        !.c.resendRequested = @ \/ p.resend], due)
      r2 == IF p.kind = "CONNECTACCEPT" /\ r1.c.state = "CONNECT"
            THEN [SendControl([r1 EXCEPT !.c.token = p.token], "ACCEPT")
                    EXCEPT !.c.state = "ONLINE"]
            ELSE r1
  IN  IF p.kind = "CLOSE"
      THEN [r1 EXCEPT !.c.state = "ERROR", !.c.remoteClosed = TRUE]
      ELSE IF r2.c.state = "ONLINE" THEN [r2 EXCEPT !.c = AckChunks(@, p.ack)]
      ELSE r2

UnpackChunk_any_new(u, chunk) ==
  IF IsSeqInBackroom(chunk.seq, u.c.ack) THEN u
  ELSE [c |-> [u.c EXCEPT !.ack = chunk.seq], got |-> Append(u.got, chunk.data)]

(* CPacketChunkUnpacker::UnpackNextChunk on a vital chunk: u is the        *)
(* connection and the payloads handed out so far.                          *)
UnpackChunk(u, chunk) ==
  IF chunk.seq = (u.c.ack + 1) % NET_MAX_SEQUENCE
  THEN [c |-> [u.c EXCEPT !.ack = chunk.seq], got |-> Append(u.got, chunk.data)]
  ELSE IF IsSeqInBackroom(chunk.seq, u.c.ack) THEN u
  ELSE [u EXCEPT !.c.resendFlag = TRUE]

UpdateConn_never_resends(r, due) ==
  LET r1 == AnswerResendRequest(r, "answer" \in due)
      r3 == IF "flush" \in due THEN Flush(r1, FALSE) ELSE r1
  IN  IF r1.c.state = "ONLINE"
      THEN IF "keepalive" \in due /\ r3 = r1 THEN SendControl(r3, "CHUNKS") ELSE r3
      ELSE IF "flush" \in due THEN SendControl(r1, "CONNECT")
      ELSE r1

(* CNetConnection::Update of a live connection, with the timers that are   *)
(* due: the answer to a resend request, the oldest chunk unacknowledged    *)
(* for a second, half a second and a second without sending.               *)
UpdateConn(r, due) ==
  LET r1 == AnswerResendRequest(r, "answer" \in due)
      r2 == IF r1.c.buffer # << >> /\ "resend" \in due
            THEN Pack(r1, Head(r1.c.buffer)) ELSE r1
      r3 == IF "flush" \in due THEN Flush(r2, FALSE) ELSE r2
  IN  IF r2.c.state = "ONLINE"
      THEN IF "keepalive" \in due /\ r3 = r2 THEN SendControl(r3, "CHUNKS") ELSE r3
      ELSE IF "flush" \in due THEN SendControl(r2, "CONNECT")
      ELSE r2

DueTimers == {a \cup b \cup c : a \in {{}, {"answer"}}, b \in {{}, {"resend"}},
                                c \in {{}, {"flush"}, {"flush", "keepalive"}}}

(* Timers that make a difference. The resend timer of a chunk is not due   *)
(* while the chunk waits in the packet under construction, which leaves    *)
(* within half a second.                                                   *)
PossiblyDue(c) ==
  {"flush", "keepalive"} \cup
  {t \in {"answer"} : c.resendRequested} \cup
  {t \in {"resend"} : c.buffer # << >> /\ Head(c.buffer) \notin Range(c.chunks)}

-----------------------------------------------------------------------------
(* Packets in flight carry, beside the ack, the count it stands for; the   *)
(* ack of a CONNECTACCEPT, 0, is always that of the start. When a          *)
(* direction is full its oldest packet is lost. Packets that are too old,  *)
(* or that an end which is offline would ignore, are gone.                 *)
Fresh(e, p, count) ==
  /\ \A i \in DOMAIN p.chunks : count[e] - p.chunks[i].data < ChunkSpan
  /\ count[Peer(e)] - p.acked <= BufferSize + AckDelay
Heard(p, c) == c.state = "OFFLINE" => p.kind \in {"CONNECT", "ACCEPT"}

InTransit(e, packets, conns, count) ==
  LET kept == Each(LAMBDA s, p : IF Fresh(e, p, count) /\ Heard(p, conns[Peer(e)])
                                 THEN Append(s, p) ELSE s, << >>, packets)
  IN  IF Len(kept) > InFlight[e]
      THEN SubSeq(kept, Len(kept) - InFlight[e] + 1, Len(kept)) ELSE kept

Transmit(flying, e, out, conns, count) ==
  LET acked == IF conn[e].state = "OFFLINE" THEN 0 ELSE Len(rcvd[e])
      new == [i \in DOMAIN out |->
                [out[i] EXCEPT !.acked = IF out[i].kind = "CONNECTACCEPT" THEN 0 ELSE acked]]
  IN  \E own \in {flying[e] \o new} :
        net' = [d \in Ends |-> InTransit(d, IF d = e THEN own ELSE flying[d], conns, count)]

(* The end e finishes a handler with result r.                             *)
Finish(e, r) ==
  /\ conn' = [conn EXCEPT ![e] = r.c]
  /\ Transmit(net, e, r.out, conn', sent)

(* Before the handshake, or in a session that has exchanged and            *)
(* acknowledged some chunks.                                               *)
Init ==
  /\ session \in Sessions
  /\ LET fresh == \A e \in Ends : session.from[e] = 0
     IN  conn = [e \in Ends |-> IF fresh THEN Reset ELSE
           [DirectInit EXCEPT !.sequence = ChunkSeq(session.from[e]),
                              !.peerAck = ChunkSeq(session.from[e]),
                              !.ack = ChunkSeq(session.from[Peer(e)])]]
  /\ net = [e \in Ends |-> << >>]
  /\ sent = session.from
  /\ rcvd = [e \in Ends |-> [i \in 1 .. session.from[Peer(e)] |-> i]]
  /\ broken = {}

(* CNetClient::Connect; the client connects once.                          *)
Connect ==
  /\ conn = [e \in Ends |-> Reset] /\ sent = [e \in Ends |-> 0] /\ rcvd[Client] = << >>
  /\ net[Client] = << >>
  /\ Finish(Client, SendControl(Run([Reset EXCEPT !.state = "CONNECT"]), "CONNECT"))
  /\ UNCHANGED <<session, sent, rcvd, broken>>

(* CNetClient::Send, CNetServer::Send of a vital chunk                     *)
SendVital(e) ==
  /\ conn[e].state \in {"ONLINE", "ERROR"}
  /\ sent[e] < session.upto[e]
  /\ LET r == QueueVital(Run(conn[e]), sent[e] + 1)
     IN  /\ conn' = [conn EXCEPT ![e] = r.c]
         /\ sent' = [sent EXCEPT ![e] = @ + 1]
         /\ Transmit(net, e, r.out, conn', sent')
  /\ broken' = IF conn[e].state = "ONLINE" /\ Len(conn[e].buffer) = BufferSize
               THEN broken \cup {"out of buffer"} ELSE broken
  /\ UNCHANGED <<session, rcvd>>

(* The same of a non-vital chunk with NETSENDFLAG_FLUSH (a snapshot, an    *)
(* input)                                                                  *)
SendFlush(e) ==
  /\ conn[e].state = "ONLINE"
  /\ Finish(e, Flush(Run(conn[e]), TRUE))
  /\ UNCHANGED <<session, sent, rcvd, broken>>

(* CNetClient::Disconnect, CNetServer::Drop                                *)
Close(e) ==
  /\ conn[e].state # "OFFLINE"
  /\ Finish(e, Disconnect(Run(conn[e]), FALSE))
  /\ UNCHANGED <<session, sent, rcvd, broken>>

(* CNetClient::Update, CNetServer::Update                                  *)
Update(e, due) ==
  /\ conn[e].state \in {"CONNECT", "ONLINE"}
  /\ due \subseteq PossiblyDue(conn[e])
  /\ Finish(e, UpdateConn(Run(conn[e]), due))
  /\ UNCHANGED <<session, sent, rcvd, broken>>

(* The same on a connection that is closed by the peer, or heard nothing   *)
(* for m_ConnTimeout, or has a chunk unacknowledged for that long: it      *)
(* becomes ERROR and is dropped at once.                                   *)
TimeOut(e) ==
  /\ \/ conn[e].state \in {"ERROR", "ONLINE"}
     \/ conn[e].buffer # << >>
  /\ Finish(e, Disconnect(Run(conn[e]), conn[e].state # "ERROR"))
  /\ UNCHANGED <<session, sent, rcvd, broken>>

-----------------------------------------------------------------------------
(* Recv at end e of packet i of its peer by connection c: Feed, then the   *)
(* chunks one by one. taken: the chunks unpacked before the application    *)
(* closed the connection or moved it to another slot, the others are       *)
(* dropped. keep: a copy of the packet stays in flight.                    *)
Receive(e, c, i, due, reply, taken, react(_), keep) ==
  LET p == net[Peer(e)][i]
      ok == FeedAccepts(c, p)
      r == IF ok THEN Feed([c |-> c, out |-> reply], p, due) ELSE [c |-> c, out |-> reply]
      chunks == IF ok THEN SubSeq(p.chunks, 1, taken) ELSE << >>
      u == Each(UnpackChunk, [c |-> r.c, got |-> << >>], chunks)
      a == react([c |-> u.c, out |-> r.out])
  IN  /\ taken \in 0 .. Len(p.chunks)
      /\ conn' = [conn EXCEPT ![e] = a.c]
      /\ rcvd' = [rcvd EXCEPT ![e] = @ \o u.got]
      /\ Transmit(IF keep THEN net ELSE [net EXCEPT ![Peer(e)] = RemoveAt(@, i)],
                  e, a.out, conn', sent)

Arrived(e, i) == i \in DOMAIN net[Peer(e)]
Nothing(r) == r
NoReply == << >>

(* CNetClient::Recv and the part of CNetServer::Recv for a packet of a     *)
(* connected client.                                                       *)
Recv(e, i, due, keep) ==
  /\ Arrived(e, i)
  /\ conn[e].state \in {"CONNECT", "ONLINE"}
  /\ net[Peer(e)][i].kind \notin {"CONNECT", "ACCEPT"}
  /\ due => conn[e].resendRequested \/ net[Peer(e)][i].resend
  /\ Receive(e, conn[e], i, due, NoReply, Len(net[Peer(e)][i].chunks), Nothing, keep)
  /\ UNCHANGED <<session, sent, broken>>

(* The application closes the connection on the last of the taken chunks.  *)
RecvAndClose(e, i, taken) ==
  /\ Arrived(e, i)
  /\ conn[e].state = "ONLINE"
  /\ net[Peer(e)][i].kind = "CHUNKS"
  /\ Receive(e, conn[e], i, FALSE, NoReply, taken,
             LAMBDA r : Disconnect(r, FALSE), FALSE)
  /\ UNCHANGED <<session, sent, broken>>

(* CNetServer::OnTokenCtrlMsg on NET_CTRLMSG_CONNECT: the token is sent;   *)
(* a slot of this address is fed the packet too.                           *)
RecvConnect(i, keep) ==
  /\ Arrived(Server, i)
  /\ net[Client][i].kind = "CONNECT"
  /\ LET reply == <<Packet("CONNECTACCEPT", [ack |-> 0, token |-> "token"], << >>, FALSE)>>
     IN  IF conn[Server].state \in {"OFFLINE", "ERROR"}
         THEN /\ Transmit(IF keep THEN net ELSE [net EXCEPT ![Client] = RemoveAt(@, i)],
                          Server, reply, conn, sent)
              /\ UNCHANGED <<conn, rcvd>>
         ELSE Receive(Server, conn[Server], i, FALSE, reply, 0, Nothing, keep)
  /\ UNCHANGED <<session, sent, broken>>

(* NET_CTRLMSG_ACCEPT with the token: TryAcceptClient. A new client takes  *)
(* the free slot; the same address again starts its slot from scratch, and *)
(* the packet is then fed to the new connection.                           *)
RecvAccept(i, keep) ==
  /\ Arrived(Server, i)
  /\ net[Client][i].kind = "ACCEPT"
  /\ conn[Server].state # "ERROR"
  /\ conn' = [conn EXCEPT ![Server] = DirectInit]
  /\ sent' = [sent EXCEPT ![Server] = 0]
  /\ rcvd' = [rcvd EXCEPT ![Server] = << >>]
  /\ Transmit(IF keep THEN net ELSE [net EXCEPT ![Client] = RemoveAt(@, i)],
              Server, NoReply, conn', sent')
  /\ broken' = IF conn[Server].state # "OFFLINE" \/ sent[Server] > 0 \/ rcvd[Server] # << >>
               THEN broken \cup {"rejoin"} ELSE broken
  /\ UNCHANGED session

(* CNetServer::ResumeOldConnection, in the handler of a chunk (the timeout *)
(* chat command): the session continues in the slot of a timed-out         *)
(* connection. ResumeConnection copies the numbers, the token and the      *)
(* resend buffer; the last ack of the peer, a pending resend request and   *)
(* the packet under construction are those the timed-out connection left.  *)
ResumeConnection(r, peerAck, left) ==
  [r EXCEPT !.c.peerAck = peerAck, !.c.chunks = left, !.c.resendFlag = FALSE]

RecvAndResume(i, taken, peerAck, left) ==
  /\ Arrived(Server, i)
  /\ conn[Server].state = "ONLINE"
  /\ taken > 0
  /\ Receive(Server, conn[Server], i, FALSE, NoReply, taken,
             LAMBDA r : ResumeConnection(r, peerAck, left), FALSE)
  /\ broken' = IF left = << >> THEN broken ELSE broken \cup {"stale construct"}
  /\ UNCHANGED <<session, sent>>

Positions == 1 .. InFlight[Client] + InFlight[Server]

(* Bound: a session is followed until the code gives its guarantee up.     *)
Next ==
  /\ broken = {}
  /\ \/ Connect
     \/ \E e \in Ends :
          \/ SendVital(e) \/ SendFlush(e) \/ Close(e) \/ TimeOut(e)
          \/ \E due \in DueTimers : Update(e, due)
          \/ \E i \in Positions : \E due, keep \in BOOLEAN : Recv(e, i, due, keep)
          \/ \E i \in Positions : \E taken \in 0 .. NET_MAX_PACKET_CHUNKS :
               RecvAndClose(e, i, taken)
     \/ \E i \in Positions : \E keep \in BOOLEAN :
          RecvConnect(i, keep) \/ RecvAccept(i, keep)
     \/ \E i \in Positions : \E taken \in 1 .. NET_MAX_PACKET_CHUNKS :
          \E peerAck \in StalePeerAcks :
            \E left \in {<< >>} \cup {<<[seq |-> s, data |-> 0]>> : s \in StalePeerAcks} :
              RecvAndResume(i, taken, peerAck, left)

(* Both loops call Update on every turn, so every timer comes due.         *)
UpdateAll(e) == Update(e, PossiblyDue(conn[e]))

(* A packet with the next chunk, or with an ack that releases chunks, and  *)
(* that the connection accepts: a packet sent again and again gets through *)
(* in the end.                                                             *)
Useful(e, p) ==
  /\ FeedAccepts(conn[e], p)
  /\ \/ \E i \in DOMAIN p.chunks : p.chunks[i].data = Len(rcvd[e]) + 1
     \/ \E i \in DOMAIN conn[e].buffer : conn[e].buffer[i].data <= p.acked

RecvUseful(e) ==
  \E i \in Positions :
    /\ Arrived(e, i)
    /\ Useful(e, net[Peer(e)][i])
    /\ Recv(e, i, FALSE, FALSE)

Fairness == \A e \in Ends : WF_vars(UpdateAll(e)) /\ SF_vars(RecvUseful(e))

Spec == Init /\ [][Next]_vars
FairSpec == Spec /\ Fairness

-----------------------------------------------------------------------------
States == {"OFFLINE", "CONNECT", "ONLINE", "ERROR"}
Packets == [kind : {"CONNECT", "CONNECTACCEPT", "ACCEPT", "CLOSE", "CHUNKS"},
            ack : SeqNumbers, acked : Nat, token : {"UNKNOWN", "token"},
            resend : BOOLEAN, chunks : Seq(Chunks)]

TypeOK ==
  /\ conn \in [Ends -> [state : States, sequence : SeqNumbers, ack : SeqNumbers,
                        peerAck : SeqNumbers, remoteClosed : BOOLEAN,
                        token : {"UNKNOWN", "token"}, resendRequested : BOOLEAN,
                        buffer : Seq(Chunks), chunks : Seq(Chunks),
                        resendFlag : BOOLEAN]]
  /\ net \in [Ends -> Seq(Packets)]
  /\ session \in Sessions
  /\ sent \in [Ends -> Nat]
  /\ rcvd \in [Ends -> Seq(Nat)]
  /\ broken \subseteq {"out of buffer", "rejoin", "stale construct"}

(* Every end hands out the vital chunks of its peer in the order they were *)
(* queued, without a gap and each exactly once, whatever the network loses,*)
(* duplicates and reorders and although the numbers wrap around.           *)
VitalInOrder ==
  broken = {} => \A e \in Ends : \A i \in DOMAIN rcvd[e] : rcvd[e][i] = i

BothOnline == \A e \in Ends : conn[e].state = "ONLINE"

(* A chunk leaves the resend buffer only when the peer has it: AckChunks   *)
(* never takes a stale or wrapped ack for a newer one.                     *)
BufferCovers ==
  BothOnline /\ broken = {} => \A e \in Ends :
    \A n \in Len(rcvd[Peer(e)]) + 1 .. sent[e] :
      \E i \in DOMAIN conn[e].buffer : conn[e].buffer[i].data = n

(* The connection is reliable: what has arrived is in order and complete,  *)
(* and what has not can still be resent.                                   *)
Reliable == TypeOK /\ VitalInOrder /\ BufferCovers

(* The ack test of Feed never locks the peer out for good: the ack the     *)
(* peer sends now is accepted, or a chunk is left to resend whose receipt  *)
(* will make it acceptable, also after ResumeConnection kept the last ack  *)
(* of another session.                                                     *)
NoLockOut ==
  BothOnline /\ broken = {} => \A e \in Ends :
    \/ AckInRange(conn[e].sequence, conn[e].peerAck, conn[Peer(e)].ack)
    \/ /\ conn[e].buffer # << >>
       /\ AckInRange(conn[e].sequence, conn[e].peerAck, conn[e].sequence)

(* The window protocol of one direction, with the chunks that are released *)
(* read off the buffer.                                                    *)
Window(e) == INSTANCE VitalWindow WITH
  sent <- sent[e],
  log <- rcvd[Peer(e)],
  base <- IF conn[e].buffer = << >> THEN sent[e] + 1 ELSE conn[e].buffer[1].data

(* As long as both ends stay online every step is, for either direction, a *)
(* step of the window protocol.                                            *)
WindowStep(e) == BothOnline /\ BothOnline' /\ broken' = {} =>
  [\/ Window(e)!Queue
   \/ \E n \in 1 .. sent[e] : Window(e)!Receive(n)
   \/ \E k \in 0 .. Len(rcvd[Peer(e)]) : Window(e)!Release(k)]_(Window(e)!vars)
RefinesWindow == [][\A e \in Ends : WindowStep(e)]_vars

(* While both ends stay online, every vital chunk that was queued is       *)
(* handed out at the other end and released from the resend buffer.        *)
SessionSettles ==
  BothOnline ~>
    \/ \A e \in Ends : Len(rcvd[Peer(e)]) = sent[e] /\ conn[e].buffer = << >>
    \/ ~BothOnline
    \/ broken # {}
=============================================================================
