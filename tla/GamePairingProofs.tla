------------------------- MODULE GamePairingProofs -------------------------
(***************************************************************************)
(* The identity of a game connection, for every number of slots,           *)
(* connections, sessions and tokens and for all lifetimes: what a          *)
(* connection waits for is polled, its lease is its own, a token is        *)
(* redeemed once and what is over stays over.                              *)
(***************************************************************************)
EXTENDS GamePairing, FiniteSetTheorems, TLAPS

-----------------------------------------------------------------------------
(* The inductive invariant.                                                *)

(* What is true of one identity object: it waits or answers only while it  *)
(* is connected, and a lease, a wait and an offer exclude each other.      *)
ObjectInv(k) ==
  /\ k.pending => k.connected
  /\ k.lease # None => /\ k.connected /\ ~k.pending
                       /\ k.lease.expires <= k.deadline
  /\ k.seal # None => k.lease = None /\ ~k.pending

(* Token t was redeemed by request r for session s of connection c, and is *)
(* good until x.                                                           *)
RedeemedBy(t, r, s, c, x) ==
  /\ rows[t] # None /\ rows[t].status = "consumed"
  /\ rows[t].by = r /\ rows[t].nonce = c /\ rows[t].session = s
  /\ x <= rows[t].expires

(* The lease of k comes from the last request of the connection c.         *)
LeaseBacked(c, k) ==
  k.lease # None => \E t \in Tokens :
    RedeemedBy(t, <<c, k.serial>>, k.lease.session, c, k.lease.expires)

ObjectsInv == \A c \in Connections :
  conn[c] # None => ObjectInv(conn[c]) /\ LeaseBacked(c, conn[c])

AliveInv == \A c \in Connections : Alive(c) => conn[c] # None

EntriesInv ==
  /\ IsFiniteSet(entries)
  /\ \A d, e \in entries : d.conn = e.conn => d = e

(* The request of an entry has not been forgotten.                         *)
PolledInv == \A e \in entries : http[<<e.conn, e.serial>>] # None

PendingInv == \A c \in Connections : Alive(c) /\ conn[c].pending =>
  \E e \in entries : e.conn = c /\ e.serial = conn[c].serial

(* An answer that is under way, or waits to be polled, is what the backend *)
(* wrote down.                                                             *)
AnswerInv(r, q) ==
  /\ rows[q.token] # None
  /\ q.state \in {"answered", "done"} =>
       /\ q.reply # None
       /\ \E t \in Tokens : RedeemedBy(t, r, q.reply.session, q.reply.nonce, q.reply.expires)

HttpInv == \A r \in Requests : http[r] # None => AnswerInv(r, http[r])

RowInv(t) ==
  /\ rows[t].by # None => rows[t].status = "consumed"
  /\ rows[t].offer # None => rows[t].offer[1] = rows[t].nonce
  /\ rows[t].status = "issued" =>
       \A u \in Tokens \ {t} : rows[u] # None /\ rows[u].session = rows[t].session
                               => rows[u].status # "issued"

RowsInv == \A t \in Tokens : rows[t] # None => RowInv(t)

ClearInv == \A t \in clear : rows[t] # None

(* The game server's clock starts late enough to be set back.              *)
ClockInv == time >= MaxRollback

IInv ==
  /\ TypeOK /\ ClockInv
  /\ AliveInv /\ ObjectsInv /\ EntriesInv /\ PolledInv /\ PendingInv
  /\ HttpInv /\ RowsInv /\ ClearInv

-----------------------------------------------------------------------------
(* The operations on one identity object.                                  *)

LEMMA Numbers ==
  /\ Life \in Nat /\ SealInterval \in Nat /\ SealInterval < Life
  /\ SealAttempts \in Nat /\ SealAttempts > 0
  /\ MaxPending \in Nat /\ MaxPending > 0
  /\ MaxSerial \in Nat /\ MaxSerial > 0
  /\ MaxTime \in Nat /\ MaxRollback \in Nat /\ MaxRollback <= MaxTime
BY PairingAssumption

(* The game server's clock reads a time of the model.                      *)
LEMMA NowInRange ==
  ASSUME TypeOK, ClockInv
  PROVE  Now \in 0 .. MaxTime /\ time \in 0 .. MaxTime
BY Numbers DEF TypeOK, ClockInv, Now

LEMMA NowIsTime ==
  ASSUME Now \in 0 .. MaxTime
  PROVE  Now \in Times /\ Now + Life \in Times /\ Now + SealInterval \in Times
BY Numbers DEF Times

(* What a call that neither begins a request nor takes an answer may do to *)
(* an object: it may end what the object waits for, offers or answers, and *)
(* it never turns its clock back.                                          *)
Evolves(k, l) ==
  /\ l \in Identity /\ ObjectInv(l)
  /\ l.serial = k.serial
  /\ l.pending => k.pending
  /\ l.lease # None => l.lease = k.lease /\ l.lastNow >= k.lastNow

LEMMA Fields ==
  ASSUME NEW k \in Identity
  PROVE  /\ k.connected \in BOOLEAN /\ k.pending \in BOOLEAN /\ k.serial \in 0 .. MaxSerial
         /\ k.deadline \in Times /\ k.lastNow \in Times /\ k.nextSealAt \in Times
         /\ k.seal \in SealType \cup {None} /\ k.lease \in LeaseType \cup {None}
         /\ k.deadline \in Nat /\ k.lastNow \in Nat /\ k.nextSealAt \in Nat /\ k.serial \in Nat
BY Numbers DEF Identity, Times

LEMMA Stays ==
  ASSUME NEW k \in Identity, ObjectInv(k)
  PROVE  Evolves(k, k)
BY Fields DEF Evolves

LEMMA EvolvesTwice ==
  ASSUME NEW k \in Identity, NEW l \in Identity, NEW m \in Identity,
         Evolves(k, l), Evolves(l, m)
  PROVE  Evolves(k, m)
BY Fields DEF Evolves

LEMMA DisconnectEvolves ==
  ASSUME NEW k \in Identity
  PROVE  /\ Evolves(k, Disconnect(k))
         /\ ~Disconnect(k).connected /\ Disconnect(k).seal = None
BY Fields DEF Evolves, Disconnect, Identity, ObjectInv

LEMMA ClockEvolves ==
  ASSUME NEW k \in Identity, ObjectInv(k), Now \in 0 .. MaxTime
  PROVE  /\ Clock(k) \in Identity
         /\ Evolves(k, Clock(k))
         /\ Clock(k).connected => Clock(k).lastNow = Now /\ Now >= k.lastNow
         /\ Clock(k).seal # None => Clock(k).seal = k.seal
         /\ Clock(k).connected => Clock(k).deadline = k.deadline
<1>1. CASE ~k.connected
  <2>1. Clock(k) = k
    BY <1>1 DEF Clock
  <2> QED BY <1>1, <2>1, Stays
<1>2. CASE k.connected /\ Now < k.lastNow
  <2>1. Clock(k) = Disconnect(k)
    BY <1>2 DEF Clock
  <2> QED BY <2>1, DisconnectEvolves DEF Evolves
<1>3. CASE k.connected /\ ~(Now < k.lastNow)
  <2>1. Clock(k) = [k EXCEPT !.lastNow = Now]
    BY <1>3 DEF Clock
  <2>2. Now \in Times /\ Now >= k.lastNow
    BY <1>3, Fields, NowIsTime, Numbers
  <2> QED BY <1>3, <2>1, <2>2, Fields DEF Evolves, Identity, ObjectInv
<1> QED BY <1>1, <1>2, <1>3, Fields

LEMMA FailEvolves ==
  ASSUME NEW k \in Identity, ObjectInv(k), NEW n
  PROVE  /\ Fail(k, n) \in Identity /\ Evolves(k, Fail(k, n))
         /\ k.serial = n => ~Fail(k, n).pending
<1>1. CASE Matches(k, n)
  <2>1. Fail(k, n) = [k EXCEPT !.pending = FALSE, !.lease = None]
    BY <1>1 DEF Fail
  <2> QED BY <2>1, Fields DEF Evolves, Identity, ObjectInv
<1>2. CASE ~Matches(k, n)
  <2>1. Fail(k, n) = k
    BY <1>2 DEF Fail
  <2> QED BY <1>2, <2>1, Stays DEF Matches, ObjectInv
<1> QED BY <1>1, <1>2

(* Active                                                                  *)
LEMMA ExpireEvolves ==
  ASSUME NEW k \in Identity, ObjectInv(k)
  PROVE  LET l == IF k.lease # None /\ k.lease.expires <= Now
                  THEN [k EXCEPT !.lease = None] ELSE k
         IN  l \in Identity /\ Evolves(k, l)
<1>1. [k EXCEPT !.lease = None] \in Identity /\ Evolves(k, [k EXCEPT !.lease = None])
  BY Fields DEF Evolves, Identity, ObjectInv
<1> QED BY <1>1, Stays

(* BeginSealedPairing                                                      *)
LEMMA OfferEvolves ==
  ASSUME NEW k \in Identity, ObjectInv(k), Now \in 0 .. MaxTime,
         NEW seal \in SealType \cup {None}
  PROVE  LET l == [k EXCEPT !.nextSealAt = Now + SealInterval, !.pending = FALSE,
                            !.lease = None, !.seal = seal]
         IN  l \in Identity /\ Evolves(k, l)
<1>1. Now + SealInterval \in Times
  BY NowIsTime
<1> QED BY <1>1, Fields DEF Evolves, Identity, ObjectInv

(* OpenSealedPairing                                                       *)
LEMMA EnvelopeEvolves ==
  ASSUME NEW k \in Identity, ObjectInv(k), k.seal # None, NEW c, NEW t
  PROVE  LET seal == OpenEnvelope(c, k.seal, t)
             l == [k EXCEPT !.seal = seal]
         IN  /\ l \in Identity /\ Evolves(k, l)
             /\ (seal.attempts > k.seal.attempts /\ ~seal.key) => Opens(c, k.seal, t)
<1> DEFINE seal == OpenEnvelope(c, k.seal, t)
           l == [k EXCEPT !.seal = seal]
           old == k.seal
<1>1. /\ old \in SealType /\ old.attempts \in 0 .. SealAttempts
      /\ old.issued \in Times /\ old.key \in BOOLEAN
  BY Fields DEF SealType
<1>2. CASE Now < old.issued \/ Now >= old.issued + Life \/ old.attempts >= SealAttempts
  <2>1. seal = [old EXCEPT !.key = FALSE]
    BY <1>2 DEF OpenEnvelope
  <2>2. seal \in SealType /\ ~(seal.attempts > old.attempts)
    <3> HIDE DEF seal, old
    <3>1. seal \in SealType /\ seal.attempts = old.attempts
      BY <1>1, <2>1 DEF SealType
    <3> QED BY <1>1, <3>1, Numbers
  <2> HIDE DEF seal
  <2>3. l \in Identity /\ Evolves(k, l)
    BY <2>2, Fields DEF Evolves, Identity, ObjectInv
  <2> QED BY <2>2, <2>3 DEF seal
<1>3. CASE ~(Now < old.issued \/ Now >= old.issued + Life \/ old.attempts >= SealAttempts)
  <2> DEFINE opens == Opens(c, old, t)
  <2>1. seal = [old EXCEPT !.attempts = old.attempts + 1, !.key = ~opens]
    BY <1>3 DEF OpenEnvelope
  <2>2. opens \in BOOLEAN
    BY DEF Opens
  <2> HIDE DEF opens
  <2>3. old.attempts + 1 \in 0 .. SealAttempts
    BY <1>1, <1>3, Numbers
  <2>4. seal \in SealType /\ (~seal.key => opens)
    BY <1>1, <2>1, <2>2, <2>3 DEF SealType
  <2> HIDE DEF seal
  <2>5. l \in Identity /\ Evolves(k, l)
    BY <2>4, Fields DEF Evolves, Identity, ObjectInv
  <2> QED BY <2>4, <2>5 DEF seal, opens
<1> QED BY <1>2, <1>3

(* Begin                                                                   *)
LEMMA BeginObject ==
  ASSUME NEW k \in Identity, CanBegin(k), Now \in 0 .. MaxTime
  PROVE  /\ Begin(k) \in Identity /\ ObjectInv(Begin(k))
         /\ Begin(k).serial = k.serial + 1 /\ k.serial + 1 \in 1 .. MaxSerial
         /\ Begin(k).lease = None
<1>1. k.connected /\ k.serial + 1 \in 0 .. MaxSerial /\ k.serial + 1 \in 1 .. MaxSerial
  BY Fields, Numbers DEF CanBegin
<1>2. Now + Life \in Times
  BY NowIsTime
<1> QED BY <1>1, <1>2, Fields DEF Begin, Identity, ObjectInv

(* Complete                                                                *)
LEMMA LeaseObject ==
  ASSUME NEW k \in Identity, ObjectInv(k), k.connected, k.pending,
         NEW lease \in LeaseType, lease.expires <= k.deadline
  PROVE  LET l == [k EXCEPT !.pending = FALSE, !.lease = lease]
         IN  /\ l \in Identity /\ ObjectInv(l)
             /\ l.serial = k.serial /\ ~l.pending /\ l.lastNow = k.lastNow
BY Fields DEF Identity, ObjectInv

(* The object of a new connection, and of one that is gone.                *)
LEMMA NewObject ==
  NewIdentity \in Identity /\ ObjectInv(NewIdentity) /\ ~NewIdentity.pending
  /\ NewIdentity.lease = None
BY Numbers DEF NewIdentity, Identity, ObjectInv, Times

LEMMA GoneObject ==
  ASSUME NEW c \in Connections, conn[c] \in Identity
  PROVE  Gone(c) \in Identity /\ Evolves(conn[c], Gone(c)) /\ ~Gone(c).pending
<1> DEFINE k == [NewIdentity EXCEPT !.serial = conn[c].serial]
<1>1. k \in Identity /\ k.serial = conn[c].serial
  BY NewObject, Fields DEF Identity, NewIdentity
<1>2. Evolves(k, Disconnect(k)) /\ Gone(c) = Disconnect(k)
  BY <1>1, DisconnectEvolves DEF Gone
<1>3. Disconnect(k).lease = None /\ ~Disconnect(k).pending
  <2> HIDE DEF k
  <2> QED BY <1>1 DEF Disconnect, Identity
<1> HIDE DEF k
<1> QED BY <1>1, <1>2, <1>3 DEF Evolves

-----------------------------------------------------------------------------
(* Frames.                                                                 *)

LEMMA AliveMeans ==
  ASSUME TypeOK, NEW c \in Connections
  PROVE  Alive(c) <=> \E s \in Slots : slot[s] = c
BY DEF Alive, Range, TypeOK

LEMMA ObjectOf ==
  ASSUME TypeOK, NEW c \in Connections, conn[c] # None
  PROVE  conn[c] \in Identity
BY DEF TypeOK

LEMMA AliveObject ==
  ASSUME IInv, NEW c \in Connections, Alive(c)
  PROVE  conn[c] # None /\ conn[c] \in Identity /\ ObjectInv(conn[c])
BY ObjectOf DEF IInv, AliveInv, ObjectsInv

(* Steps without a new request and without an answer taken.                *)
QuietAt(c) ==
  /\ conn[c] # None => Evolves(conn[c], conn'[c])
  /\ conn[c] = None => conn'[c] \in {None, NewIdentity}

LEMMA LeaseStays ==
  ASSUME NEW c \in Connections, NEW k, NEW l, Evolves(k, l), LeaseBacked(c, k), rows' = rows
  PROVE  LeaseBacked(c, l)'
BY DEF Evolves, LeaseBacked, RedeemedBy

LEMMA QuietKeeps ==
  ASSUME IInv,
         conn' \in [Connections -> Identity \cup {None}],
         slot' \in [Slots -> Connections \cup {None}],
         \A c \in Connections : QuietAt(c),
         \A c \in Connections :
           Alive(c)' => conn'[c] # None /\ (Alive(c) \/ conn[c] = None),
         UNCHANGED <<time, behind, entries, http, rows, active>>,
         clear' \subseteq Tokens, \A t \in clear' : rows[t] # None
  PROVE  IInv'
<1>1. TypeOK'
  BY DEF IInv, TypeOK
<1>2. ClockInv' /\ AliveInv' /\ EntriesInv' /\ PolledInv' /\ ClearInv'
  BY DEF IInv, ClockInv, AliveInv, EntriesInv, PolledInv, ClearInv
<1>3. HttpInv' /\ RowsInv'
  BY DEF IInv, HttpInv, AnswerInv, RedeemedBy, RowsInv, RowInv
<1>4. ObjectsInv'
  <2> SUFFICES ASSUME NEW c \in Connections, conn'[c] # None
               PROVE  ObjectInv(conn'[c]) /\ LeaseBacked(c, conn[c])'
    BY DEF ObjectsInv, ObjectInv
  <2>1. CASE conn[c] # None
    <3>1. Evolves(conn[c], conn'[c]) /\ LeaseBacked(c, conn[c])
      BY <2>1 DEF QuietAt, IInv, ObjectsInv
    <3>2. rows' = rows
      OBVIOUS
    <3> QED BY <3>1, <3>2 DEF Evolves, LeaseBacked, RedeemedBy
  <2>2. CASE conn[c] = None
    <3>1. conn'[c] = NewIdentity
      BY <2>2 DEF QuietAt
    <3> QED BY <3>1, NewObject DEF LeaseBacked
  <2> QED BY <2>1, <2>2
<1>5. PendingInv'
  <2> SUFFICES ASSUME NEW c \in Connections, Alive(c)', conn'[c].pending
               PROVE  \E e \in entries : e.conn = c /\ e.serial = conn'[c].serial
    BY DEF PendingInv
  <2>1. conn[c] # None
    BY NewObject DEF QuietAt
  <2>2. Alive(c) /\ conn[c].pending /\ conn'[c].serial = conn[c].serial
    BY <2>1 DEF QuietAt, Evolves
  <2> QED BY <2>2 DEF IInv, PendingInv
<1> QED BY <1>1, <1>2, <1>3, <1>4, <1>5 DEF IInv

(* An object that answers after a step has not turned its clock back.      *)
Ages == \A c \in Connections :
  conn[c] # None /\ conn'[c].lease # None => conn'[c].lastNow >= conn[c].lastNow

(* A call on the living connection c that leaves the object l.             *)
LEMMA CallKeeps ==
  ASSUME IInv, NEW c \in Connections, Alive(c), NEW l \in Identity,
         Evolves(conn[c], l), conn' = [conn EXCEPT ![c] = l],
         UNCHANGED <<time, behind, slot, entries, http, rows, active>>,
         clear' \subseteq Tokens, \A t \in clear' : rows[t] # None
  PROVE  IInv' /\ Ages
<1>1. conn \in [Connections -> Identity \cup {None}] /\ slot' \in [Slots -> Connections \cup {None}]
  BY DEF IInv, TypeOK
<1>2. conn' \in [Connections -> Identity \cup {None}]
  BY <1>1
<1>3. ASSUME NEW d \in Connections
      PROVE  QuietAt(d)
  <2>1. conn[d] # None => Evolves(conn[d], conn[d])
    BY Stays, ObjectOf DEF IInv, ObjectsInv
  <2> QED BY <1>1, <2>1, AliveObject DEF QuietAt
<1>4. ASSUME NEW d \in Connections, Alive(d)'
      PROVE  conn'[d] # None /\ Alive(d)
  <2>1. slot' = slot
    OBVIOUS
  <2>2. Alive(d)
    BY <1>4, <2>1 DEF Alive, Range
  <2>3. None \notin Identity
    BY PairingAssumption
  <2> QED BY <1>1, <2>2, <2>3, AliveObject
<1>5. Ages
  BY <1>3 DEF Ages, QuietAt, Evolves
<1> QED BY <1>1, <1>2, <1>3, <1>4, <1>5, QuietKeeps

(* Where the objects stay as they are.                                     *)
LEMMA ObjectsStay ==
  ASSUME IInv, conn' = conn
  PROVE  Ages
BY ObjectOf, Fields DEF IInv, Ages

-----------------------------------------------------------------------------
(* One step per operation.                                                 *)

LEMMA ActiveStep ==
  ASSUME IInv, NEW c \in Connections, Active(c)
  PROVE  IInv' /\ Ages
<1> DEFINE k == Clock(conn[c])
           l == IF k.lease # None /\ k.lease.expires <= Now
                THEN [k EXCEPT !.lease = None] ELSE k
<1>1. Alive(c) /\ conn[c] \in Identity /\ ObjectInv(conn[c])
  BY AliveObject DEF Active
<1>2. Now \in 0 .. MaxTime
  BY NowInRange DEF IInv
<1>3. k \in Identity /\ Evolves(conn[c], k) /\ ObjectInv(k)
  BY <1>1, <1>2, ClockEvolves DEF Evolves
<1>4. l \in Identity /\ Evolves(k, l)
  <2> HIDE DEF k
  <2> QED BY <1>3, ExpireEvolves
<1>5. conn' = [conn EXCEPT ![c] = l] /\ clear' = clear
      /\ UNCHANGED <<time, behind, slot, entries, http, rows, active>>
  BY DEF Active, Call, backend
<1> HIDE DEF k, l
<1>6. Evolves(conn[c], l)
  BY <1>1, <1>3, <1>4, EvolvesTwice
<1>7. clear' \subseteq Tokens /\ \A t \in clear' : rows[t] # None
  BY <1>5 DEF IInv, TypeOK, ClearInv
<1> QED BY <1>1, <1>4, <1>5, <1>6, <1>7, CallKeeps

LEMMA BeginSealedPairingStep ==
  ASSUME IInv, NEW c \in Connections, NEW ready \in BOOLEAN, BeginSealedPairing(c, ready)
  PROVE  IInv' /\ Ages
<1> DEFINE k == Clock(conn[c])
           seal == IF ready THEN [issued |-> Now, attempts |-> 0, key |-> TRUE] ELSE None
           l == [k EXCEPT !.nextSealAt = Now + SealInterval, !.pending = FALSE,
                          !.lease = None, !.seal = seal]
<1>1. Alive(c) /\ conn[c] \in Identity /\ ObjectInv(conn[c])
  BY AliveObject DEF BeginSealedPairing
<1>2. Now \in 0 .. MaxTime
  BY NowInRange DEF IInv
<1>3. k \in Identity /\ Evolves(conn[c], k) /\ ObjectInv(k)
  BY <1>1, <1>2, ClockEvolves DEF Evolves
<1>4. seal \in SealType \cup {None}
  BY <1>2, NowIsTime, Numbers DEF SealType
<1>5. l \in Identity /\ Evolves(k, l)
  <2> HIDE DEF k, seal
  <2> QED BY <1>2, <1>3, <1>4, OfferEvolves
<1>6. (conn' = [conn EXCEPT ![c] = k] \/ conn' = [conn EXCEPT ![c] = l]) /\ clear' = clear
      /\ UNCHANGED <<time, behind, slot, entries, http, rows, active>>
  BY DEF BeginSealedPairing, Call, backend
<1> HIDE DEF k, l, seal
<1>7. Evolves(conn[c], l)
  BY <1>1, <1>3, <1>5, EvolvesTwice
<1>8. clear' \subseteq Tokens /\ \A t \in clear' : rows[t] # None
  BY <1>6 DEF IInv, TypeOK, ClearInv
<1>9. CASE conn' = [conn EXCEPT ![c] = k]
  BY <1>1, <1>3, <1>6, <1>8, <1>9, CallKeeps
<1>10. CASE conn' = [conn EXCEPT ![c] = l]
  BY <1>1, <1>5, <1>6, <1>7, <1>8, <1>10, CallKeeps
<1> QED BY <1>6, <1>9, <1>10

(* The second part is about what the server learns.                        *)
LEMMA OpenSealedPairingStep ==
  ASSUME IInv, NEW c \in Connections, NEW t \in Tokens \cup {None}, OpenSealedPairing(c, t)
  PROVE  /\ IInv' /\ Ages
         /\ \A u \in clear' \ clear :
              Alive(c) /\ conn[c].seal # None /\ Opens(c, conn[c].seal, u)
<1> DEFINE k == Clock(conn[c])
           seal == OpenEnvelope(c, k.seal, t)
           l == [k EXCEPT !.seal = seal]
<1>1. Alive(c) /\ conn[c] \in Identity /\ ObjectInv(conn[c])
  BY AliveObject DEF OpenSealedPairing
<1>2. Now \in 0 .. MaxTime
  BY NowInRange DEF IInv
<1>3. /\ k \in Identity /\ Evolves(conn[c], k) /\ ObjectInv(k)
      /\ k.seal # None => k.seal = conn[c].seal
  BY <1>1, <1>2, ClockEvolves DEF Evolves
<1>4. UNCHANGED <<time, behind, slot, entries, http, rows, active>>
      /\ (t # None => rows[t] # None)
  BY DEF OpenSealedPairing, Call, backend
<1>5. clear \subseteq Tokens /\ \A u \in clear : rows[u] # None
  BY DEF IInv, TypeOK, ClearInv
<1>6. CASE k.seal = None \/ (k.seal # None /\ ~k.seal.key)
  <2>1. conn' = [conn EXCEPT ![c] = k] /\ clear' = clear
    BY <1>6 DEF OpenSealedPairing, Call
  <2> HIDE DEF k
  <2> QED BY <1>1, <1>3, <1>4, <1>5, <2>1, CallKeeps
<1>7. CASE ~(k.seal = None \/ (k.seal # None /\ ~k.seal.key))
  <2> DEFINE opened == seal.attempts > k.seal.attempts /\ ~seal.key
  <2>1. conn' = [conn EXCEPT ![c] = l] /\ clear' = IF opened THEN clear \cup {t} ELSE clear
    BY <1>7 DEF OpenSealedPairing, Call
  <2>2. l \in Identity /\ Evolves(k, l) /\ (opened => Opens(c, k.seal, t))
    <3> HIDE DEF k
    <3> QED BY <1>3, <1>7, EnvelopeEvolves
  <2> HIDE DEF k, seal, l, opened
  <2>3. Evolves(conn[c], l)
    BY <1>1, <1>3, <2>2, EvolvesTwice
  <2>4. opened => t # None
    BY <2>2 DEF Opens
  <2>5. clear' \subseteq Tokens /\ \A u \in clear' : rows[u] # None
    BY <1>4, <1>5, <2>1, <2>4
  <2>6. IInv' /\ Ages
    BY <1>1, <1>4, <2>1, <2>2, <2>3, <2>5, CallKeeps
  <2>7. \A u \in clear' \ clear : u = t /\ opened
    BY <2>1
  <2> QED BY <1>1, <1>3, <1>7, <2>2, <2>6, <2>7
<1> QED BY <1>6, <1>7

LEMMA OnClientDropStep ==
  ASSUME IInv, NEW s \in Slots, OnClientDrop(s)
  PROVE  IInv' /\ Ages
<1> DEFINE c == slot[s]
<1>1. TypeOK /\ slot \in [Slots -> Connections \cup {None}]
      /\ conn \in [Connections -> Identity \cup {None}]
  BY DEF IInv, TypeOK
<1>2. c \in Connections /\ Alive(c)
  BY <1>1 DEF OnClientDrop, Alive, Range
<1>3. /\ slot' = [slot EXCEPT ![s] = None] /\ conn' = [conn EXCEPT ![c] = Gone(c)]
      /\ UNCHANGED <<time, behind, entries, http, rows, active, clear>>
  BY DEF OnClientDrop, backend
<1> HIDE DEF c
<1>4. Gone(c) \in Identity /\ Evolves(conn[c], Gone(c))
  BY <1>2, AliveObject, GoneObject
<1>5. slot' \in [Slots -> Connections \cup {None}] /\ conn' \in [Connections -> Identity \cup {None}]
  BY <1>1, <1>3, <1>4
<1>6. ASSUME NEW d \in Connections
      PROVE  QuietAt(d)
  <2>1. conn[d] # None => Evolves(conn[d], conn[d])
    BY <1>1, Stays DEF IInv, ObjectsInv
  <2> QED BY <1>1, <1>2, <1>3, <1>4, <2>1, AliveObject DEF QuietAt
<1>7. ASSUME NEW d \in Connections, Alive(d)'
      PROVE  conn'[d] # None /\ Alive(d)
  <2>1. Alive(d)
    BY <1>1, <1>3, <1>7, PairingAssumption DEF Alive, Range
  <2>2. None \notin Identity
    BY PairingAssumption
  <2> QED BY <1>1, <1>3, <1>4, <2>1, <2>2, AliveObject
<1>8. clear' \subseteq Tokens /\ \A t \in clear' : rows[t] # None
  BY <1>3 DEF IInv, TypeOK, ClearInv
<1>9. Ages
  BY <1>6 DEF Ages, QuietAt, Evolves
<1> QED BY <1>3, <1>5, <1>6, <1>7, <1>8, <1>9, QuietKeeps

LEMMA OnClientConnectedStep ==
  ASSUME IInv, NEW s \in Slots, OnClientConnected(s)
  PROVE  IInv' /\ Ages
<1> DEFINE c == CHOOSE d \in Fresh(conn) : TRUE
<1>1. slot \in [Slots -> Connections \cup {None}]
      /\ conn \in [Connections -> Identity \cup {None}]
  BY DEF IInv, TypeOK
<1>2. c \in Connections /\ conn[c] = None
  BY <1>1 DEF OnClientConnected, Fresh
<1>3. /\ slot' = [slot EXCEPT ![s] = c]
      /\ conn' = [d \in Connections |-> IF d = c THEN NewIdentity
                                        ELSE IF d = slot[s] THEN Gone(d) ELSE conn[d]]
      /\ UNCHANGED <<time, behind, entries, http, rows, active, clear>>
  BY DEF OnClientConnected, backend
<1> HIDE DEF c
<1>4. ASSUME NEW d \in Connections, d = slot[s]
      PROVE  Gone(d) \in Identity /\ Evolves(conn[d], Gone(d)) /\ conn[d] # None
  <2>1. Alive(d)
    BY <1>1, <1>4 DEF Alive, Range
  <2> QED BY <2>1, AliveObject, GoneObject
<1>5. slot' \in [Slots -> Connections \cup {None}]
  BY <1>1, <1>2, <1>3
<1>6. conn' \in [Connections -> Identity \cup {None}]
  BY <1>1, <1>3, <1>4, NewObject
<1>7. ASSUME NEW d \in Connections
      PROVE  QuietAt(d)
  <2>1. conn[d] # None => Evolves(conn[d], conn[d])
    BY <1>1, Stays DEF IInv, ObjectsInv
  <2> QED BY <1>2, <1>3, <1>4, <2>1 DEF QuietAt
<1>8. ASSUME NEW d \in Connections, Alive(d)'
      PROVE  conn'[d] # None /\ (Alive(d) \/ conn[d] = None)
  <2>1. Alive(d) \/ d = c
    BY <1>1, <1>3, <1>8 DEF Alive, Range
  <2>2. None \notin Identity
    BY PairingAssumption
  <2> QED BY <1>2, <1>3, <1>4, <2>1, <2>2, AliveObject, NewObject
<1>9. clear' \subseteq Tokens /\ \A t \in clear' : rows[t] # None
  BY <1>3 DEF IInv, TypeOK, ClearInv
<1>10. Ages
  BY <1>7 DEF Ages, QuietAt, Evolves
<1> QED BY <1>3, <1>5, <1>6, <1>7, <1>8, <1>9, <1>10, QuietKeeps

(* Rows are added and their state changes, but what was redeemed stays so. *)
Grows == \A t \in Tokens : rows[t] # None =>
  /\ rows'[t] # None
  /\ rows'[t].session = rows[t].session /\ rows'[t].nonce = rows[t].nonce
  /\ rows'[t].expires = rows[t].expires
  /\ rows[t].status = "consumed" => /\ rows'[t].status = "consumed"
                                    /\ rows'[t].by = rows[t].by

LEMMA GrownRow ==
  ASSUME Grows, NEW t \in Tokens, NEW r, NEW s, NEW c, NEW x, RedeemedBy(t, r, s, c, x)
  PROVE  /\ rows'[t] # None /\ rows'[t].status = "consumed"
         /\ rows'[t].by = r /\ rows'[t].nonce = c /\ rows'[t].session = s
         /\ x <= rows'[t].expires
BY DEF Grows, RedeemedBy

(* Steps that leave the connections and what is polled alone.              *)
LEMMA ElsewhereKeeps ==
  ASSUME IInv, Grows, UNCHANGED <<slot, conn, entries>>,
         TypeOK', ClockInv', PolledInv', HttpInv', RowsInv', ClearInv'
  PROVE  IInv' /\ Ages
<1>1. AliveInv' /\ EntriesInv' /\ PendingInv'
  BY DEF IInv, AliveInv, EntriesInv, PendingInv, Alive, Range
<1>2. ObjectsInv'
  <2> SUFFICES ASSUME NEW c \in Connections, conn[c] # None, conn[c].lease # None
               PROVE  LeaseBacked(c, conn[c])'
    BY DEF IInv, ObjectsInv, ObjectInv, LeaseBacked
  <2>1. PICK t \in Tokens :
          RedeemedBy(t, <<c, conn[c].serial>>, conn[c].lease.session, c, conn[c].lease.expires)
    BY DEF IInv, ObjectsInv, LeaseBacked
  <2> QED BY <2>1, GrownRow DEF LeaseBacked, RedeemedBy
<1>3. Ages
  BY ObjectsStay
<1> QED BY <1>1, <1>2, <1>3 DEF IInv

(* Answers that are on their way, while rows grow.                         *)
LEMMA AnswersStay ==
  ASSUME Grows, NEW r, NEW q \in HttpRequest, AnswerInv(r, q)
  PROVE  AnswerInv(r, q)'
<1>1. q.token \in Tokens
  BY DEF HttpRequest
<1>2. rows'[q.token] # None
  BY <1>1 DEF AnswerInv, Grows
<1>3. CASE q.state \in {"answered", "done"}
  <2>1. PICK t \in Tokens :
          RedeemedBy(t, r, q.reply.session, q.reply.nonce, q.reply.expires)
    BY <1>3 DEF AnswerInv
  <2>2. RedeemedBy(t, r, q.reply.session, q.reply.nonce, q.reply.expires)'
    BY <2>1, GrownRow DEF RedeemedBy
  <2> QED BY <1>2, <1>3, <2>2 DEF AnswerInv
<1> QED BY <1>2, <1>3 DEF AnswerInv

LEMMA SameRows ==
  ASSUME rows' = rows
  PROVE  Grows
BY DEF Grows

LEMMA RevokeStep ==
  ASSUME IInv, NEW s \in Sessions, Revoke(s)
  PROVE  IInv' /\ Ages
<1>1. active' = active \ {s} /\ UNCHANGED <<time, behind, slot, conn, entries, http, rows, clear>>
  BY DEF Revoke
<1>2. TypeOK' /\ ClockInv' /\ ClearInv'
  BY <1>1 DEF IInv, TypeOK, ClockInv, ClearInv
<1>3. HttpInv' /\ PolledInv' /\ RowsInv'
  BY <1>1 DEF IInv, HttpInv, AnswerInv, RedeemedBy, PolledInv, RowsInv, RowInv
<1> QED BY <1>1, <1>2, <1>3, SameRows, ElsewhereKeeps

LEMMA ClocksStep ==
  ASSUME IInv, Tick \/ SetClockBack
  PROVE  IInv' /\ Ages
<1>1. UNCHANGED <<slot, conn, entries, http, rows, active, clear>>
  BY DEF Tick, SetClockBack, backend
<1>2. TypeOK' /\ ClockInv' /\ ClearInv'
  BY <1>1, Numbers DEF IInv, TypeOK, ClockInv, ClearInv, Tick, SetClockBack
<1>3. HttpInv' /\ PolledInv' /\ RowsInv'
  BY <1>1 DEF IInv, HttpInv, AnswerInv, RedeemedBy, PolledInv, RowsInv, RowInv
<1> QED BY <1>1, <1>2, <1>3, SameRows, ElsewhereKeeps

LEMMA NothingStep ==
  ASSUME IInv, UNCHANGED vars
  PROVE  IInv' /\ Ages
<1>1. UNCHANGED <<time, behind, slot, conn, entries, http, rows, active, clear>>
  BY DEF vars
<1>2. TypeOK' /\ ClockInv' /\ ClearInv'
  BY <1>1 DEF IInv, TypeOK, ClockInv, ClearInv
<1>3. HttpInv' /\ PolledInv' /\ RowsInv'
  BY <1>1 DEF IInv, HttpInv, AnswerInv, RedeemedBy, PolledInv, RowsInv, RowInv
<1> QED BY <1>1, <1>2, <1>3, SameRows, ElsewhereKeeps

LEMMA HttpEndsStep ==
  ASSUME IInv, NEW r \in Requests, NEW state \in {"done", "error"}, HttpEnds(r, state)
  PROVE  IInv' /\ Ages
<1> DEFINE old == http[r]
           new == IF Polls(r) THEN [old EXCEPT !.state = state,
                                               !.reply = IF state = "error" THEN None ELSE old.reply]
                  ELSE None
<1>1. http \in [Requests -> HttpRequest \cup {None}]
  BY DEF IInv, TypeOK
<1>2. old \in HttpRequest /\ (old.state = "answered" \/ (old.state = "sent" /\ state = "error"))
  BY <1>1 DEF HttpEnds
<1>3. http' = [http EXCEPT ![r] = new]
      /\ UNCHANGED <<time, behind, slot, conn, entries, rows, active, clear>>
  BY DEF HttpEnds, backend
<1>4. new # None => /\ new.state = state /\ new.token = old.token
                    /\ new.reply = IF state = "error" THEN None ELSE old.reply
                    /\ new \in HttpRequest
  BY <1>2 DEF HttpRequest
<1>5. new \in HttpRequest \cup {None}
  BY <1>4
<1> HIDE DEF new, old
<1>6. http' \in [Requests -> HttpRequest \cup {None}]
  BY <1>1, <1>3, <1>5
<1>7. TypeOK' /\ ClockInv' /\ ClearInv'
  BY <1>3, <1>6 DEF IInv, TypeOK, ClockInv, ClearInv
<1>8. RowsInv'
  BY <1>3 DEF IInv, RowsInv, RowInv
<1>9. HttpInv'
  <2> SUFFICES ASSUME NEW q \in Requests, NEW a, a = http'[q], a # None
               PROVE  AnswerInv(q, a)
    BY <1>3 DEF HttpInv, AnswerInv, RedeemedBy
  <2>1. CASE q # r
    BY <1>1, <1>3, <2>1 DEF IInv, HttpInv
  <2>2. CASE q = r
    <3>1. a = new /\ http[r] = old /\ AnswerInv(r, old)
      BY <1>1, <1>2, <1>3, <2>2 DEF old, HttpEnds, IInv, HttpInv
    <3> QED BY <1>2, <1>4, <2>2, <3>1 DEF AnswerInv
  <2> QED BY <2>1, <2>2
<1>10. PolledInv'
  <2> SUFFICES ASSUME NEW e \in entries
               PROVE  http'[<<e.conn, e.serial>>] # None
    BY <1>3 DEF PolledInv
  <2>1. <<e.conn, e.serial>> \in Requests /\ http[<<e.conn, e.serial>>] # None
    BY DEF IInv, TypeOK, PolledInv, Requests
  <2>2. <<e.conn, e.serial>> = r => new # None
    BY <1>2, PairingAssumption DEF new, Polls, HttpRequest
  <2> QED BY <1>1, <1>3, <2>1, <2>2
<1> QED BY <1>3, <1>7, <1>8, <1>9, <1>10, SameRows, ElsewhereKeeps

(* What TokenRedeemedOnce says of a step.                                  *)
RedeemsOnce == \A t \in Tokens :
  rows[t] # None /\ rows'[t].by # rows[t].by =>
    /\ rows[t].by = None
    /\ rows[t].session \in active'
    /\ \A u \in Tokens \ {t} : rows[u] # None /\ rows[u].session = rows[t].session
                               => rows[u].status # "issued"

LEMMA MinOf ==
  ASSUME NEW S, NEW m \in S, \A y \in S : m <= y
  PROVE  Min(S) \in S /\ \A y \in S : Min(S) <= y
BY DEF Min

LEMMA MinOfTwo ==
  ASSUME NEW a \in Nat, NEW b \in Nat
  PROVE  Min({a, b}) \in Nat /\ Min({a, b}) <= a /\ Min({a, b}) <= b
<1> DEFINE S == {a, b}
<1>1. a <= b \/ b <= a
  OBVIOUS
<1>2. CASE a <= b
  <2>1. a \in S /\ \A y \in S : a <= y
    BY <1>2
  <2>2. Min(S) \in S /\ \A y \in S : Min(S) <= y
    BY <2>1, MinOf
  <2> QED BY <2>2
<1>3. CASE b <= a
  <2>1. b \in S /\ \A y \in S : b <= y
    BY <1>3
  <2>2. Min(S) \in S /\ \A y \in S : Min(S) <= y
    BY <2>1, MinOf
  <2> QED BY <2>2
<1> QED BY <1>1, <1>2, <1>3

LEMMA RedeemStep ==
  ASSUME IInv, NEW r \in Requests, Redeem(r)
  PROVE  IInv' /\ Ages /\ RedeemsOnce
<1>1. /\ http \in [Requests -> HttpRequest \cup {None}]
      /\ rows \in [Tokens -> Row \cup {None}]
      /\ HttpInv /\ RowsInv
  BY DEF IInv, TypeOK
<1>2. http[r] # None /\ http[r] \in HttpRequest
  BY <1>1 DEF Redeem
<1>3. PICK t \in Tokens : t = http[r].token
  BY <1>2 DEF HttpRequest
<1>4. PICK row \in Row : row = rows[t] /\ rows[t] # None
  BY <1>1, <1>2, <1>3 DEF HttpInv, AnswerInv
<1>5. PICK limit : limit = Min({row.expires, SessionExpiry[row.session]})
  OBVIOUS
<1>6. limit \in Times /\ limit <= row.expires
  <2>1. row.expires \in Nat /\ row.expires \in Times /\ row.session \in Sessions
    BY Numbers DEF Row, Times
  <2>2. SessionExpiry[row.session] \in Nat
    BY <2>1, PairingAssumption
  <2>3. limit \in Nat /\ limit <= row.expires
    BY <1>5, <2>1, <2>2, MinOfTwo
  <2> QED BY <2>1, <2>3, Numbers DEF Times
<1>7. PICK reply \in Reply :
        reply = [session |-> row.session, nonce |-> row.nonce, expires |-> limit]
  BY <1>6 DEF Reply, Row
<1>8. /\ row.status = "issued" /\ row.session \in active
      /\ rows' = [rows EXCEPT ![t].status = "consumed", ![t].by = r]
      /\ http' = [http EXCEPT ![r].state = "answered", ![r].reply = reply]
      /\ UNCHANGED <<time, behind, slot, conn, entries, active, clear>>
  BY <1>3, <1>4, <1>5, <1>7 DEF Redeem, Redeemable
<1>9. rows'[t] = [row EXCEPT !.status = "consumed", !.by = r]
      /\ \A u \in Tokens \ {t} : rows'[u] = rows[u]
  BY <1>1, <1>4, <1>8
<1>10. http'[r] = [http[r] EXCEPT !.state = "answered", !.reply = reply]
       /\ \A q \in Requests \ {r} : http'[q] = http[q]
  BY <1>1, <1>8
<1>11. /\ rows'[t] \in Row /\ rows'[t].session = row.session /\ rows'[t].nonce = row.nonce
       /\ rows'[t].expires = row.expires /\ rows'[t].status = "consumed" /\ rows'[t].by = r
       /\ rows'[t].offer = row.offer
  BY <1>9 DEF Row
<1>12. /\ http'[r] \in HttpRequest /\ http'[r].token = t /\ http'[r].reply = reply
       /\ http'[r].state = "answered"
  BY <1>2, <1>3, <1>10 DEF HttpRequest
<1>13. rows' \in [Tokens -> Row \cup {None}]
  <2>1. \A u \in Tokens : rows'[u] \in Row \cup {None}
    BY <1>1, <1>9, <1>11
  <2>2. rows' = [u \in Tokens |-> rows'[u]]
    BY <1>1, <1>8
  <2> QED BY <2>1, <2>2
<1>14. http' \in [Requests -> HttpRequest \cup {None}]
  <2>1. \A q \in Requests : http'[q] \in HttpRequest \cup {None}
    BY <1>1, <1>10, <1>12
  <2>2. http' = [q \in Requests |-> http'[q]]
    BY <1>1, <1>8
  <2> QED BY <2>1, <2>2
<1>15. None \notin Row /\ None \notin Reply /\ RowInv(t) /\ row.by = None
  BY <1>1, <1>4, <1>8, PairingAssumption DEF RowsInv, RowInv
<1>16. Grows
  BY <1>4, <1>8, <1>9, <1>11, <1>15 DEF Grows
<1>17. TypeOK' /\ ClockInv' /\ ClearInv'
  BY <1>8, <1>13, <1>14, <1>16 DEF IInv, TypeOK, ClockInv, ClearInv, Grows
<1>18. RowsInv'
  <2>1. RowInv(t)'
    BY <1>4, <1>11, <1>15 DEF RowInv
  <2>2. ASSUME NEW u \in Tokens \ {t}, rows'[u] # None
        PROVE  RowInv(u)'
    <3>1. rows[u] # None /\ rows'[u] = rows[u] /\ RowInv(u)
      BY <1>1, <1>9, <2>2 DEF RowsInv
    <3>2. ASSUME rows[u].status = "issued", NEW v \in Tokens \ {u}, rows'[v] # None,
                 rows'[v].session = rows[u].session
          PROVE  rows'[v].status # "issued"
      <4>1. CASE v = t
        BY <1>11, <4>1
      <4>2. CASE v # t
        BY <1>9, <3>1, <3>2, <4>2 DEF RowInv
      <4> QED BY <4>1, <4>2
    <3> QED BY <3>1, <3>2 DEF RowInv
  <2> QED BY <2>1, <2>2 DEF RowsInv
<1>19. HttpInv'
  <2> SUFFICES ASSUME NEW q \in Requests, NEW a, a = http'[q], a # None
               PROVE  AnswerInv(q, a)'
    BY DEF HttpInv, AnswerInv, RedeemedBy
  <2>1. CASE q # r
    <3>1. a = http[q] /\ a \in HttpRequest
      BY <1>1, <1>10, <2>1
    <3> QED BY <1>1, <1>16, <3>1, AnswersStay DEF HttpInv
  <2>2. CASE q = r
    <3>1. a.token = t /\ a.reply = reply
      BY <1>12, <2>2
    <3>2. RedeemedBy(t, r, row.session, row.nonce, limit)'
      BY <1>6, <1>11, <1>15 DEF RedeemedBy
    <3>3. rows'[t] # None
      BY <1>11, <1>15
    <3> QED BY <1>7, <1>15, <2>2, <3>1, <3>2, <3>3 DEF AnswerInv
  <2> QED BY <2>1, <2>2
<1>20. RedeemsOnce
  BY <1>4, <1>8, <1>9, <1>15 DEF RedeemsOnce, RowInv
<1>21. PolledInv'
  <2> SUFFICES ASSUME NEW e \in entries
               PROVE  http'[<<e.conn, e.serial>>] # None
    BY <1>8 DEF PolledInv
  <2>1. <<e.conn, e.serial>> \in Requests /\ http[<<e.conn, e.serial>>] # None
    BY DEF IInv, TypeOK, PolledInv, Requests
  <2> QED BY <1>10, <1>12, <2>1, PairingAssumption
<1> QED BY <1>8, <1>16, <1>17, <1>18, <1>19, <1>20, <1>21, ElsewhereKeeps

LEMMA MinOfLimits ==
  ASSUME NEW a \in Nat, NEW b \in Nat, NEW S, S = {a, b} \/ \E x \in Nat : S = {a, b, x}
  PROVE  Min(S) \in Nat /\ Min(S) <= a
<1>1. S \in SUBSET Nat /\ a \in S
  OBVIOUS
<1>2. \E m \in S : \A y \in S : m <= y
  <2>1. PICK m \in {a, b} : m <= a /\ m <= b
    <3>1. a <= b \/ b <= a
      OBVIOUS
    <3> QED BY <3>1
  <2>2. CASE S = {a, b}
    BY <2>1, <2>2
  <2>3. ASSUME NEW x \in Nat, S = {a, b, x}
        PROVE  \E n \in S : \A y \in S : n <= y
    <3>1. m <= x \/ x <= m
      BY <2>1
    <3> QED BY <2>1, <2>3, <3>1
  <2> QED BY <2>2, <2>3
<1>3. Min(S) \in S /\ \A y \in S : Min(S) <= y
  BY <1>2, MinOf
<1> QED BY <1>1, <1>3

LEMMA IssueStep ==
  ASSUME IInv, NEW s \in Sessions, NEW c \in Connections,
         NEW offer \in (Connections \X Times) \cup {None},
         offer # None => offer[1] = c, Issue(s, c, offer)
  PROVE  IInv' /\ Ages /\ RedeemsOnce
         /\ \A u \in clear' \ clear : rows'[u].offer = None
<1>1. /\ rows \in [Tokens -> Row \cup {None}] /\ RowsInv /\ None \notin Row
      /\ clear \subseteq Tokens /\ \A u \in clear : rows[u] # None
  BY PairingAssumption DEF IInv, TypeOK, ClearInv
<1>2. PICK t \in Tokens : t = CHOOSE u \in Fresh(rows) : TRUE
  BY <1>1 DEF Issue, Fresh
<1>3. rows[t] = None
  BY <1>1, <1>2 DEF Issue, Fresh
<1>4. PICK limits : limits = {time + Life, SessionExpiry[s]} \cup
                               (IF offer = None THEN {} ELSE {offer[2] + Life})
  OBVIOUS
<1>5. PICK row : row = [session |-> s, nonce |-> c, expires |-> Min(limits),
                        status |-> "issued", by |-> None, offer |-> offer]
  OBVIOUS
<1>6. /\ rows' = [u \in Tokens |->
           IF u = t THEN row
           ELSE IF rows[u] # None /\ rows[u].session = s /\ rows[u].status = "issued"
           THEN [rows[u] EXCEPT !.status = "deleted"]
           ELSE rows[u]]
      /\ clear' = IF offer = None THEN clear \cup {t} ELSE clear
      /\ UNCHANGED <<time, behind, slot, conn, entries, http, active>>
  BY <1>2, <1>4, <1>5 DEF Issue
<1>7. row \in Row
  <2>1. time \in Nat /\ time + Life \in Nat /\ time + Life \in Times
        /\ SessionExpiry[s] \in Nat
    <3>1. SessionExpiry[s] \in Nat
      BY PairingAssumption
    <3> QED BY <3>1, Numbers DEF IInv, TypeOK, Times
  <2>2. limits = {time + Life, SessionExpiry[s]}
        \/ \E x \in Nat : limits = {time + Life, SessionExpiry[s], x}
    <3>1. CASE offer = None
      BY <1>4, <3>1
    <3>2. CASE offer # None
      <4>1. offer[2] + Life \in Nat
        BY <3>2, Numbers DEF Times
      <4> QED BY <1>4, <3>2, <4>1
    <3> QED BY <3>1, <3>2
  <2>3. Min(limits) \in Nat /\ Min(limits) <= time + Life
    BY <2>1, <2>2, MinOfLimits
  <2>4. Min(limits) \in Times
    BY <2>1, <2>3, Numbers DEF Times
  <2> QED BY <1>5, <2>4 DEF Row
<1>8. /\ row.session = s /\ row.nonce = c /\ row.by = None /\ row.offer = offer
      /\ rows'[t] = row
  BY <1>5, <1>6
<1>9. ASSUME NEW u \in Tokens \ {t}
      PROVE  /\ rows'[u] \in Row \cup {None} /\ (rows'[u] # None => rows[u] # None)
             /\ rows[u] # None =>
                  /\ rows'[u] \in Row
                  /\ rows'[u].session = rows[u].session /\ rows'[u].nonce = rows[u].nonce
                  /\ rows'[u].expires = rows[u].expires /\ rows'[u].by = rows[u].by
                  /\ rows'[u].offer = rows[u].offer
                  /\ \/ rows'[u].status = rows[u].status
                     \/ rows'[u].status = "deleted" /\ rows[u].status = "issued"
                  /\ ~(rows'[u].session = s /\ rows'[u].status = "issued")
  <2>1. CASE rows[u] # None /\ rows[u].session = s /\ rows[u].status = "issued"
    <3>1. rows'[u] = [rows[u] EXCEPT !.status = "deleted"] /\ rows[u] \in Row
      BY <1>1, <1>6, <2>1
    <3> QED BY <2>1, <3>1 DEF Row
  <2>2. CASE ~(rows[u] # None /\ rows[u].session = s /\ rows[u].status = "issued")
    BY <1>1, <1>6, <2>2
  <2> QED BY <2>1, <2>2
<1>10. Grows
  BY <1>1, <1>3, <1>9 DEF Grows
<1>11. rows' \in [Tokens -> Row \cup {None}]
  <2>1. \A u \in Tokens : rows'[u] \in Row \cup {None}
    BY <1>7, <1>8, <1>9
  <2>2. rows' = [u \in Tokens |-> rows'[u]]
    BY <1>6
  <2> QED BY <2>1, <2>2
<1>12. clear' \subseteq Tokens /\ \A u \in clear' : rows'[u] # None
  BY <1>1, <1>6, <1>7, <1>8, <1>10 DEF Grows
<1>13. TypeOK' /\ ClockInv' /\ ClearInv'
  BY <1>6, <1>11, <1>12 DEF IInv, TypeOK, ClockInv, ClearInv
<1>14. RowsInv'
  <2>1. RowInv(t)'
    BY <1>8, <1>9 DEF RowInv
  <2>2. ASSUME NEW u \in Tokens \ {t}, rows'[u] # None
        PROVE  RowInv(u)'
    <3>1. rows[u] # None /\ RowInv(u)
      BY <1>1, <1>9, <2>2 DEF RowsInv
    <3>2. rows'[u].by # None => rows'[u].status = "consumed"
      BY <1>9, <3>1 DEF RowInv
    <3>3. rows'[u].offer # None => rows'[u].offer[1] = rows'[u].nonce
      BY <1>9, <3>1 DEF RowInv
    <3>4. ASSUME rows'[u].status = "issued", NEW v \in Tokens \ {u}, rows'[v] # None,
                 rows'[v].session = rows'[u].session
          PROVE  rows'[v].status # "issued"
      <4>1. CASE v = t
        BY <1>8, <1>9, <3>1, <3>4, <4>1
      <4>2. CASE v # t
        <5>1. rows[u].status = "issued" /\ rows'[u].session = rows[u].session
          BY <1>9, <3>1, <3>4
        <5>2. /\ rows[v] # None /\ rows[v].session = rows[u].session
              /\ (rows'[v].status = "issued" => rows[v].status = "issued")
          BY <1>9, <3>4, <4>2, <5>1
        <5> QED BY <3>1, <5>1, <5>2 DEF RowInv
      <4> QED BY <4>1, <4>2
    <3> QED BY <3>2, <3>3, <3>4 DEF RowInv
  <2> QED BY <2>1, <2>2 DEF RowsInv
<1>15. HttpInv'
  <2> SUFFICES ASSUME NEW q \in Requests, NEW a, a = http'[q], a # None
               PROVE  AnswerInv(q, a)'
    BY DEF HttpInv, AnswerInv, RedeemedBy
  <2>1. a = http[q] /\ a \in HttpRequest
    BY <1>6 DEF IInv, TypeOK
  <2> QED BY <1>10, <2>1, AnswersStay DEF IInv, HttpInv
<1>16. RedeemsOnce
  BY <1>3, <1>9 DEF RedeemsOnce
<1>17. \A u \in clear' \ clear : rows'[u].offer = None
  BY <1>6, <1>8
<1>18. PolledInv'
  BY <1>6 DEF IInv, PolledInv
<1> QED BY <1>6, <1>10, <1>13, <1>14, <1>15, <1>16, <1>17, <1>18, ElsewhereKeeps

LEMMA IssueForOfferStep ==
  ASSUME IInv, NEW s \in Sessions, NEW c \in Connections, IssueForOffer(s, c)
  PROVE  IInv' /\ Ages /\ RedeemsOnce
         /\ \A u \in clear' \ clear : rows'[u].offer = None
<1> DEFINE offer == <<c, conn[c].seal.issued>>
<1>1. conn[c] \in Identity /\ conn[c].seal # None
  BY ObjectOf DEF IssueForOffer, IInv
<1>2. conn[c].seal.issued \in Times
  BY <1>1, Fields DEF SealType
<1>3. offer \in (Connections \X Times) \cup {None} /\ offer[1] = c
  BY <1>2
<1>4. Issue(s, c, offer)
  BY DEF IssueForOffer
<1> QED BY <1>3, <1>4, IssueStep

(* Steps that end what some connections wait for.                          *)
Settles(c) ==
  /\ conn[c] = None => conn'[c] = None
  /\ conn[c] # None =>
       /\ conn'[c] \in Identity /\ ObjectInv(conn'[c])
       /\ LeaseBacked(c, conn[c])'
       /\ conn'[c].lease # None => conn'[c].lastNow >= conn[c].lastNow
  /\ Alive(c) /\ conn'[c].pending =>
       \E e \in entries' : e.conn = c /\ e.serial = conn'[c].serial

LEMMA ReleasedRequest ==
  ASSUME NEW kept, NEW r \in Requests
  PROVE  /\ Released(kept)[r] \in {None, http[r]}
         /\ (\E e \in kept : r = <<e.conn, e.serial>>) => Released(kept)[r] = http[r]
BY DEF Released

LEMMA ReleasedKeeps ==
  ASSUME IInv, NEW kept \in SUBSET entries, http' = Released(kept), rows' = rows
  PROVE  /\ http' \in [Requests -> HttpRequest \cup {None}]
         /\ HttpInv'
         /\ \A e \in kept : http'[<<e.conn, e.serial>>] # None
<1>1. http \in [Requests -> HttpRequest \cup {None}] /\ HttpInv /\ PolledInv
  BY DEF IInv, TypeOK
<1>2. \A r \in Requests : http'[r] \in {None, http[r]}
  BY ReleasedRequest
<1>3. http' \in [Requests -> HttpRequest \cup {None}]
  <2>1. \A r \in Requests : http'[r] \in HttpRequest \cup {None}
    BY <1>1, <1>2
  <2>2. http' = [r \in Requests |-> http'[r]]
    BY DEF Released
  <2> QED BY <2>1, <2>2
<1>4. HttpInv'
  <2> SUFFICES ASSUME NEW q \in Requests, NEW a, a = http'[q], a # None
               PROVE  AnswerInv(q, a)
    BY DEF HttpInv, AnswerInv, RedeemedBy
  <2> QED BY <1>1, <1>2 DEF HttpInv
<1>5. ASSUME NEW e \in kept
      PROVE  http'[<<e.conn, e.serial>>] # None
  <2>1. <<e.conn, e.serial>> \in Requests
    BY DEF IInv, TypeOK, Requests
  <2>2. http'[<<e.conn, e.serial>>] = http[<<e.conn, e.serial>>]
    BY <2>1, ReleasedRequest
  <2> QED BY <1>1, <2>2 DEF PolledInv
<1> QED BY <1>3, <1>4, <1>5

LEMMA SettlesKeeps ==
  ASSUME IInv, entries' \subseteq entries, http' = Released(entries'),
         UNCHANGED <<time, behind, slot, rows, active, clear>>,
         conn' = [c \in Connections |-> conn'[c]],
         \A c \in Connections : Settles(c)
  PROVE  IInv' /\ Ages
<1>1. /\ http' \in [Requests -> HttpRequest \cup {None}] /\ HttpInv'
      /\ \A e \in entries' : http'[<<e.conn, e.serial>>] # None
  BY ReleasedKeeps
<1>2. conn' \in [Connections -> Identity \cup {None}]
  <2>1. \A c \in Connections : conn'[c] \in Identity \cup {None}
    BY DEF Settles
  <2> QED BY <2>1
<1>3. /\ IsFiniteSet(entries') /\ Cardinality(entries') <= MaxPending
      /\ entries' \subseteq [conn : Connections, serial : 1 .. MaxSerial, startedAt : Times]
  <2>1. IsFiniteSet(entries) /\ Cardinality(entries) <= MaxPending
    BY DEF IInv, TypeOK, EntriesInv
  <2>2. IsFiniteSet(entries') /\ Cardinality(entries') <= Cardinality(entries)
        /\ Cardinality(entries') \in Nat /\ Cardinality(entries) \in Nat
    BY <2>1, FS_Subset, FS_CardinalityType
  <2> QED BY <2>1, <2>2, Numbers DEF IInv, TypeOK
<1>4. TypeOK' /\ ClockInv' /\ ClearInv'
  BY <1>1, <1>2, <1>3 DEF IInv, TypeOK, ClockInv, ClearInv
<1>5. EntriesInv' /\ PolledInv' /\ RowsInv'
  BY <1>1, <1>3 DEF IInv, EntriesInv, PolledInv, RowsInv, RowInv
<1>6. \A c \in Connections : conn'[c] = None <=> conn[c] = None
  BY PairingAssumption DEF Settles
<1>7. \A c \in Connections : Alive(c)' <=> Alive(c)
  <2>1. slot' = slot
    OBVIOUS
  <2> QED BY <2>1 DEF Alive, Range
<1>8. AliveInv' /\ ObjectsInv'
  BY <1>6, <1>7 DEF IInv, AliveInv, ObjectsInv, Settles, ObjectInv
<1>9. PendingInv'
  BY <1>7 DEF PendingInv, Settles
<1>10. Ages
  BY DEF Ages, Settles
<1> QED BY <1>1, <1>4, <1>5, <1>8, <1>9, <1>10 DEF IInv

(* The entry of a connection is what Poll and the destructor choose.       *)
LEMMA EntryOf ==
  ASSUME IInv, NEW e \in entries
  PROVE  (CHOOSE d \in entries : d.conn = e.conn) = e
BY DEF IInv, EntriesInv

(* What nobody polls for does not wait.                                    *)
LEMMA WaitsForEntry ==
  ASSUME IInv, NEW c \in Connections, Alive(c), conn[c].pending, NEW e \in entries, e.conn = c
  PROVE  e.serial = conn[c].serial
BY DEF IInv, EntriesInv, PendingInv

(* A connection that a step leaves as it is, and that no entry is for.     *)
LEMMA OthersSettle ==
  ASSUME IInv, NEW c \in Connections, conn'[c] = conn[c], rows' = rows,
         ~(Alive(c) /\ \E e \in entries : e.conn = c)
  PROVE  Settles(c)
<1>1. CASE conn[c] = None
  <2>1. ~Alive(c)
    BY <1>1 DEF IInv, AliveInv
  <2> QED BY <1>1, <2>1 DEF Settles
<1>2. CASE conn[c] # None
  <2>1. conn[c] \in Identity /\ ObjectInv(conn[c]) /\ LeaseBacked(c, conn[c])
    BY <1>2, ObjectOf DEF IInv, ObjectsInv
  <2>2. LeaseBacked(c, conn[c])'
    BY <2>1 DEF LeaseBacked, RedeemedBy
  <2>3. ~(Alive(c) /\ conn[c].pending)
    BY DEF IInv, PendingInv
  <2> QED BY <1>2, <2>1, <2>2, <2>3, Fields DEF Settles
<1> QED BY <1>1, <1>2

(* A connection whose object becomes l.                                    *)
LEMMA EvolvedSettles ==
  ASSUME IInv, NEW c \in Connections, Alive(c), rows' = rows,
         NEW l, conn'[c] = l, Evolves(conn[c], l),
         l.pending => \E e \in entries' : e.conn = c /\ e.serial = conn[c].serial
  PROVE  Settles(c)
<1>1. conn[c] # None /\ LeaseBacked(c, conn[c])
  BY AliveObject DEF IInv, ObjectsInv
<1>2. LeaseBacked(c, conn[c])'
  BY <1>1 DEF Evolves, LeaseBacked, RedeemedBy
<1> QED BY <1>1, <1>2 DEF Settles, Evolves

LEMMA DestroyStep ==
  ASSUME IInv, Destroy
  PROVE  IInv' /\ Ages
<1>1. /\ conn' = [c \in Connections |->
           IF Alive(c) /\ \E e \in entries : e.conn = c
           THEN Fail(conn[c], (CHOOSE e \in entries : e.conn = c).serial)
           ELSE conn[c]]
      /\ entries' = {} /\ http' = Released(entries')
      /\ UNCHANGED <<time, behind, slot, rows, active, clear>>
  BY DEF Destroy, backend
<1>2. ASSUME NEW c \in Connections
      PROVE  Settles(c)
  <2>1. CASE ~(Alive(c) /\ \E e \in entries : e.conn = c)
    BY <1>1, <2>1, OthersSettle
  <2>2. CASE Alive(c) /\ \E e \in entries : e.conn = c
    <3>1. PICK e \in entries : e.conn = c
      BY <2>2
    <3>2. conn'[c] = Fail(conn[c], e.serial)
      BY <1>1, <2>2, <3>1, EntryOf
    <3>3. conn[c] \in Identity /\ ObjectInv(conn[c])
      BY <2>2, AliveObject
    <3>4. /\ Evolves(conn[c], Fail(conn[c], e.serial))
          /\ conn[c].serial = e.serial => ~Fail(conn[c], e.serial).pending
      BY <3>3, FailEvolves
    <3>5. ~Fail(conn[c], e.serial).pending
      BY <2>2, <3>1, <3>4, WaitsForEntry DEF Evolves
    <3> QED BY <1>1, <2>2, <3>2, <3>4, <3>5, EvolvedSettles
  <2> QED BY <2>1, <2>2
<1> QED BY <1>1, <1>2, SettlesKeeps

(* An answer that Poll takes for connection c.                             *)
LEMMA CompleteSettles ==
  ASSUME IInv, NEW c \in Connections, Alive(c), rows' = rows, NEW e \in entries, e.conn = c,
         ~Kept(e), Completes(Clock(conn[c]), e), conn'[c] = Polled(Clock(conn[c]), e)
  PROVE  Settles(c)
<1>1. conn[c] # None /\ conn[c] \in Identity /\ ObjectInv(conn[c])
  BY AliveObject
<1>2. PICK k \in Identity : /\ k = Clock(conn[c]) /\ Evolves(conn[c], k)
                            /\ (k.connected => k.lastNow >= conn[c].lastNow)
  <2>1. Now \in 0 .. MaxTime
    BY NowInRange DEF IInv
  <2> QED BY <1>1, <2>1, ClockEvolves DEF Evolves
<1>3. PICK r \in Requests : r = <<c, e.serial>>
  BY DEF IInv, TypeOK, Requests
<1>4. PICK q \in HttpRequest : q = http[r] /\ AnswerInv(r, q)
  BY <1>3, PairingAssumption DEF IInv, TypeOK, PolledInv, HttpInv
<1>5. /\ k.connected /\ k.pending /\ k.serial = e.serial
      /\ q.state = "done" /\ q.reply.nonce = c /\ q.reply.expires <= k.deadline
  BY <1>2, <1>3, <1>4 DEF Completes, Current, Matches
<1>6. PICK t \in Tokens :
        q.reply # None /\ RedeemedBy(t, r, q.reply.session, c, q.reply.expires)
  BY <1>4, <1>5 DEF AnswerInv
<1>7. PICK lease \in LeaseType :
        lease = [session |-> q.reply.session, expires |-> q.reply.expires]
  <2>1. q.reply \in Reply
    BY <1>6 DEF HttpRequest
  <2> QED BY <2>1 DEF Reply, LeaseType
<1>8. lease.session = q.reply.session /\ lease.expires = q.reply.expires
  BY <1>7
<1>9. PICK l : l = [k EXCEPT !.pending = FALSE, !.lease = lease]
  OBVIOUS
<1>10. conn'[c] = l
  BY <1>2, <1>3, <1>4, <1>7, <1>9 DEF Polled
<1>11. /\ l \in Identity /\ ObjectInv(l)
       /\ l.serial = k.serial /\ ~l.pending /\ l.lastNow = k.lastNow
  BY <1>2, <1>5, <1>8, <1>9, LeaseObject DEF Evolves
<1>12. l.lease = lease
  BY <1>9 DEF Identity
<1>13. LeaseBacked(c, l)'
  BY <1>3, <1>5, <1>6, <1>8, <1>11, <1>12 DEF LeaseBacked, RedeemedBy
<1>14. LeaseBacked(c, conn[c])'
  BY <1>10, <1>13 DEF LeaseBacked, RedeemedBy
<1> QED BY <1>1, <1>2, <1>5, <1>10, <1>11, <1>14 DEF Settles

LEMMA PollStep ==
  ASSUME IInv, Poll
  PROVE  IInv' /\ Ages
<1>1. /\ conn' = [c \in Connections |->
           IF Alive(c) /\ \E e \in entries : e.conn = c
           THEN Polled(Clock(conn[c]), CHOOSE e \in entries : e.conn = c)
           ELSE conn[c]]
      /\ entries' = {e \in entries : Kept(e)} /\ http' = Released(entries')
      /\ UNCHANGED <<time, behind, slot, rows, active, clear>>
  BY DEF Poll, backend
<1>2. ASSUME NEW c \in Connections
      PROVE  Settles(c)
  <2>1. CASE ~(Alive(c) /\ \E e \in entries : e.conn = c)
    BY <1>1, <2>1, OthersSettle
  <2>2. CASE Alive(c) /\ \E e \in entries : e.conn = c
    <3>1. PICK e \in entries : e.conn = c
      BY <2>2
    <3>2. PICK k : k = Clock(conn[c])
      OBVIOUS
    <3>3. conn'[c] = Polled(k, e)
      BY <1>1, <2>2, <3>1, <3>2, EntryOf
    <3>4. conn[c] \in Identity /\ ObjectInv(conn[c])
      BY <2>2, AliveObject
    <3>5. k \in Identity /\ Evolves(conn[c], k)
      <4>1. Now \in 0 .. MaxTime
        BY NowInRange DEF IInv
      <4> QED BY <3>2, <3>4, <4>1, ClockEvolves
    <3>6. CASE Kept(e)
      <4>1. conn'[c] = k /\ e \in entries'
        BY <1>1, <3>3, <3>6 DEF Polled
      <4>2. k.serial = e.serial /\ k.serial = conn[c].serial
        BY <3>1, <3>2, <3>5, <3>6 DEF Kept, Current, Matches, Evolves
      <4> QED BY <1>1, <2>2, <3>1, <3>5, <4>1, <4>2, EvolvedSettles
    <3>7. CASE ~Kept(e) /\ Completes(k, e)
      BY <1>1, <2>2, <3>1, <3>2, <3>3, <3>7, CompleteSettles
    <3>8. CASE ~Kept(e) /\ ~Completes(k, e)
      <4>1. conn'[c] = Fail(k, e.serial)
        BY <3>3, <3>8 DEF Polled
      <4>2. /\ Fail(k, e.serial) \in Identity /\ Evolves(k, Fail(k, e.serial))
            /\ k.serial = e.serial => ~Fail(k, e.serial).pending
        BY <3>5, FailEvolves DEF Evolves
      <4>3. Evolves(conn[c], Fail(k, e.serial))
        BY <3>4, <3>5, <4>2, EvolvesTwice
      <4>4. ~Fail(k, e.serial).pending
        BY <2>2, <3>1, <3>5, <4>2, <4>3, WaitsForEntry DEF Evolves
      <4> QED BY <1>1, <2>2, <4>1, <4>3, <4>4, EvolvedSettles
    <3> QED BY <3>6, <3>7, <3>8
  <2> QED BY <2>1, <2>2
<1> QED BY <1>1, <1>2, SettlesKeeps

LEMMA StartStep ==
  ASSUME IInv, NEW c \in Connections, NEW t \in Tokens, Start(c, t)
  PROVE  IInv' /\ Ages /\ UNCHANGED <<rows, clear>>
<1>1. Alive(c) /\ t \in clear /\ rows[t] # None
      /\ conn[c] # None /\ conn[c] \in Identity /\ ObjectInv(conn[c])
  BY AliveObject DEF Start, IInv, ClearInv
<1>2. PICK k \in Identity : k = Clock(conn[c]) /\ Evolves(conn[c], k) /\ ObjectInv(k)
  <2>1. Now \in 0 .. MaxTime
    BY NowInRange DEF IInv
  <2> QED BY <1>1, <2>1, ClockEvolves DEF Evolves
<1>3. CASE ~CanBegin(k)
  <2>1. /\ conn' = [conn EXCEPT ![c] = k]
        /\ UNCHANGED <<time, behind, slot, entries, http, rows, active, clear>>
    BY <1>2, <1>3 DEF Start, Call, backend
  <2>2. clear' \subseteq Tokens /\ \A u \in clear' : rows[u] # None
    BY <2>1 DEF IInv, TypeOK, ClearInv
  <2> QED BY <1>1, <1>2, <2>1, <2>2, CallKeeps
<1>4. CASE CanBegin(k)
  <2>1. PICK n \in 1 .. MaxSerial : n = k.serial + 1
    <3>1. Now \in 0 .. MaxTime
      BY NowInRange DEF IInv
    <3> QED BY <1>4, <3>1, BeginObject
  <2>2. PICK l \in Identity : l = Begin(k) /\ ObjectInv(l) /\ l.serial = n /\ l.lease = None
    <3>1. Now \in 0 .. MaxTime
      BY NowInRange DEF IInv
    <3> QED BY <1>4, <2>1, <3>1, BeginObject
  <2>3. PICK kept \in SUBSET entries : kept = {e \in entries : e.conn # c}
    OBVIOUS
  <2>4. PICK entry : entry = [conn |-> c, serial |-> n, startedAt |-> Now]
    OBVIOUS
  <2>5. PICK q \in HttpRequest : q = [state |-> "sent", token |-> t, reply |-> None]
    BY DEF HttpRequest
  <2>6. /\ conn' = [conn EXCEPT ![c] = l]
        /\ entries' = kept \cup {entry}
        /\ http' = [Released(kept) EXCEPT ![<<c, n>>] = q]
        /\ UNCHANGED <<time, behind, slot, rows, active, clear>>
    BY <1>2, <1>4, <2>1, <2>2, <2>3, <2>4, <2>5 DEF Start, backend
  <2>7. PICK r \in Requests : r = <<c, n>>
    BY DEF Requests
  <2>8. /\ http \in [Requests -> HttpRequest \cup {None}] /\ HttpInv /\ PolledInv
        /\ conn \in [Connections -> Identity \cup {None}]
    BY DEF IInv, TypeOK
  <2>9. http'[r] = q /\ \A p \in Requests \ {r} : http'[p] = Released(kept)[p]
    BY <2>6, <2>7 DEF Released
  <2>10. http' \in [Requests -> HttpRequest \cup {None}]
    <3>1. \A p \in Requests : http'[p] \in HttpRequest \cup {None}
      BY <2>8, <2>9, ReleasedRequest
    <3>2. http' = [p \in Requests |-> http'[p]]
      BY <2>6 DEF Released
    <3> QED BY <3>1, <3>2
  <2>11. HttpInv'
    <3> SUFFICES ASSUME NEW p \in Requests, NEW a, a = http'[p], a # None
                 PROVE  AnswerInv(p, a)
      BY <2>6 DEF HttpInv, AnswerInv, RedeemedBy
    <3>1. CASE p # r
      BY <2>8, <2>9, <3>1, ReleasedRequest DEF HttpInv
    <3>2. CASE p = r
      <4>1. a.token = t /\ a.state = "sent"
        BY <2>5, <2>9, <3>2
      <4> QED BY <1>1, <4>1 DEF AnswerInv
    <3> QED BY <3>1, <3>2
  <2>12. PolledInv'
    <3> SUFFICES ASSUME NEW e \in entries'
                 PROVE  http'[<<e.conn, e.serial>>] # None
      BY DEF PolledInv
    <3>1. CASE e = entry
      <4>1. <<e.conn, e.serial>> = r
        BY <2>4, <2>7, <3>1
      <4> QED BY <2>9, <4>1, PairingAssumption
    <3>2. CASE e # entry
      <4>1. e \in kept /\ e \in entries /\ e.conn # c
        BY <2>3, <2>6, <3>2
      <4>2. <<e.conn, e.serial>> \in Requests \ {r}
        BY <2>7, <4>1 DEF IInv, TypeOK, Requests
      <4>3. http'[<<e.conn, e.serial>>] = http[<<e.conn, e.serial>>]
        BY <2>9, <4>1, <4>2, ReleasedRequest
      <4> QED BY <2>8, <4>1, <4>3 DEF PolledInv
    <3> QED BY <3>1, <3>2
  <2>13. /\ IsFiniteSet(entries') /\ Cardinality(entries') <= MaxPending
         /\ entries' \subseteq [conn : Connections, serial : 1 .. MaxSerial, startedAt : Times]
    <3>1. IsFiniteSet(entries) /\ Cardinality(entries) < MaxPending
      BY DEF IInv, EntriesInv, Start
    <3>2. /\ IsFiniteSet(kept) /\ Cardinality(kept) <= Cardinality(entries)
          /\ Cardinality(kept) \in Nat /\ Cardinality(entries) \in Nat
      BY <3>1, FS_Subset, FS_CardinalityType
    <3>3. /\ IsFiniteSet(entries')
          /\ \/ Cardinality(entries') = Cardinality(kept)
             \/ Cardinality(entries') = Cardinality(kept) + 1
      BY <2>6, <3>2, FS_AddElement
    <3>4. entry \in [conn : Connections, serial : 1 .. MaxSerial, startedAt : Times]
      <4>1. Now \in Times
        BY NowInRange, NowIsTime DEF IInv
      <4> QED BY <2>4, <4>1
    <3>5. entries' \subseteq [conn : Connections, serial : 1 .. MaxSerial, startedAt : Times]
      BY <2>6, <3>4 DEF IInv, TypeOK
    <3> QED BY <3>1, <3>2, <3>3, <3>5, Numbers
  <2>14. conn' \in [Connections -> Identity \cup {None}]
    BY <2>6, <2>8
  <2>15. TypeOK' /\ ClockInv' /\ ClearInv' /\ RowsInv'
    BY <2>6, <2>10, <2>13, <2>14 DEF IInv, TypeOK, ClockInv, ClearInv, RowsInv, RowInv
  <2>16. EntriesInv'
    <3>1. ASSUME NEW d \in entries', NEW e \in entries', d.conn = e.conn
          PROVE  d = e
      BY <2>3, <2>4, <2>6, <3>1 DEF IInv, EntriesInv
    <3> QED BY <2>13, <3>1 DEF EntriesInv
  <2>17. \A d \in Connections : Alive(d)' <=> Alive(d)
    BY <2>6 DEF Alive, Range
  <2>18. conn'[c] = l /\ \A d \in Connections \ {c} : conn'[d] = conn[d]
    BY <2>6, <2>8
  <2>19. AliveInv'
    BY <2>2, <2>17, <2>18, PairingAssumption DEF IInv, AliveInv
  <2>20. ObjectsInv'
    <3> SUFFICES ASSUME NEW d \in Connections, NEW m, m = conn'[d], m # None
                 PROVE  ObjectInv(m) /\ LeaseBacked(d, m)
      BY <2>6 DEF ObjectsInv, LeaseBacked, RedeemedBy
    <3>1. CASE d = c
      BY <2>2, <2>18, <3>1 DEF LeaseBacked
    <3>2. CASE d # c
      BY <2>18, <3>2 DEF IInv, ObjectsInv
    <3> QED BY <3>1, <3>2
  <2>21. PendingInv'
    <3> SUFFICES ASSUME NEW d \in Connections, Alive(d), conn'[d].pending
                 PROVE  \E e \in entries' : e.conn = d /\ e.serial = conn'[d].serial
      BY <2>17 DEF PendingInv
    <3>1. CASE d = c
      BY <2>2, <2>4, <2>6, <2>18, <3>1
    <3>2. CASE d # c
      <4>1. PICK e \in entries : e.conn = d /\ e.serial = conn[d].serial
        BY <2>18, <3>2 DEF IInv, PendingInv
      <4> QED BY <2>3, <2>6, <2>18, <3>2, <4>1
    <3> QED BY <3>1, <3>2
  <2>22. Ages
    <3>1. \A d \in Connections : conn[d] # None => conn[d].lastNow >= conn[d].lastNow
      BY <2>8, Fields
    <3> QED BY <2>2, <2>18, <3>1 DEF Ages
  <2> QED BY <2>6, <2>11, <2>12, <2>15, <2>16, <2>19, <2>20, <2>21, <2>22 DEF IInv
<1> QED BY <1>3, <1>4

-----------------------------------------------------------------------------
(* The invariant holds, and every step is as it should be.                 *)

LEMMA InitInv ==
  ASSUME Init
  PROVE  IInv
<1>1. /\ None \notin Connections /\ MaxRollback \in 0 .. MaxTime /\ 0 \in 0 .. MaxRollback
  BY PairingAssumption, Numbers
<1>2. IsFiniteSet(entries) /\ Cardinality(entries) = 0 /\ entries = {}
  BY FS_EmptySet DEF Init
<1>3. TypeOK
  BY <1>1, <1>2, Numbers DEF Init, TypeOK
<1>4. ClockInv /\ EntriesInv /\ PolledInv /\ RowsInv /\ ClearInv /\ HttpInv /\ ObjectsInv
  BY <1>1, <1>2, Numbers DEF Init, ClockInv, EntriesInv, PolledInv, RowsInv, ClearInv, HttpInv,
     ObjectsInv
<1>5. \A c \in Connections : ~Alive(c)
  BY <1>1 DEF Init, Alive, Range
<1> QED BY <1>3, <1>4, <1>5 DEF IInv, AliveInv, PendingInv

(* What ExpiredStaysExpired says of a step about what the server learns.   *)
LearnsOpened == \A t \in Tokens :
  t \in clear' \ clear /\ rows'[t].offer # None =>
    /\ Alive(rows[t].nonce)
    /\ conn[rows[t].nonce].seal # None
    /\ rows[t].offer[2] = conn[rows[t].nonce].seal.issued
    /\ Now < rows[t].expires

LEMMA OpenedIsLearnt ==
  ASSUME IInv, NEW c \in Connections, NEW t \in Tokens \cup {None}, OpenSealedPairing(c, t)
  PROVE  IInv' /\ Ages /\ UNCHANGED rows /\ LearnsOpened
<1>1. /\ IInv' /\ Ages
      /\ \A u \in clear' \ clear :
           Alive(c) /\ conn[c].seal # None /\ Opens(c, conn[c].seal, u)
  BY OpenSealedPairingStep
<1>2. rows' = rows
  BY DEF OpenSealedPairing, Call, backend
<1>3. ASSUME NEW u \in Tokens, u \in clear' \ clear, rows'[u].offer # None
      PROVE  /\ Alive(rows[u].nonce)
             /\ conn[rows[u].nonce].seal # None
             /\ rows[u].offer[2] = conn[rows[u].nonce].seal.issued
             /\ Now < rows[u].expires
  <2>1. /\ Alive(c) /\ conn[c].seal # None
        /\ rows[u].offer = <<c, conn[c].seal.issued>> /\ rows[u].expires > Now
    BY <1>1, <1>3 DEF Opens
  <2>2. rows[u] # None /\ rows[u] \in Row
    BY <1>1, <1>2, <1>3 DEF IInv, ClearInv, TypeOK
  <2>3. rows[u].offer[1] = rows[u].nonce
    BY <1>2, <1>3, <2>2 DEF IInv, RowsInv, RowInv
  <2>4. rows[u].nonce = c /\ rows[u].offer[2] = conn[c].seal.issued
    BY <2>1, <2>3
  <2>5. rows[u].expires \in Int /\ Now \in Int
    BY <2>2, Numbers, NowInRange DEF IInv, Row, Times
  <2> QED BY <2>1, <2>4, <2>5
<1> QED BY <1>1, <1>2, <1>3 DEF LearnsOpened

LEMMA NextStep ==
  ASSUME IInv, [Next]_vars
  PROVE  IInv' /\ Ages /\ RedeemsOnce /\ LearnsOpened
<1>1. rows' = rows => RedeemsOnce
  BY DEF RedeemsOnce
<1>2. clear' = clear => LearnsOpened
  BY DEF LearnsOpened
<1>3. ASSUME NEW s \in Slots, OnClientDrop(s) \/ OnClientConnected(s)
      PROVE  IInv' /\ Ages /\ UNCHANGED <<rows, clear>>
  BY <1>3, OnClientDropStep, OnClientConnectedStep DEF OnClientDrop, OnClientConnected, backend
<1>4. ASSUME NEW c \in Connections, Active(c)
      PROVE  IInv' /\ Ages /\ UNCHANGED <<rows, clear>>
  BY <1>4, ActiveStep DEF Active, Call, backend
<1>5. ASSUME NEW c \in Connections, NEW ready \in BOOLEAN, BeginSealedPairing(c, ready)
      PROVE  IInv' /\ Ages /\ UNCHANGED <<rows, clear>>
  BY <1>5, BeginSealedPairingStep DEF BeginSealedPairing, Call, backend
<1>6. ASSUME NEW c \in Connections, NEW s \in Sessions,
             Issue(s, c, None) \/ IssueForOffer(s, c)
      PROVE  IInv' /\ Ages /\ RedeemsOnce /\ LearnsOpened
  BY <1>6, IssueStep, IssueForOfferStep DEF LearnsOpened
<1>7. ASSUME Poll \/ Destroy
      PROVE  IInv' /\ Ages /\ UNCHANGED <<rows, clear>>
  BY <1>7, PollStep, DestroyStep DEF Poll, Destroy, backend
<1>8. ASSUME NEW r \in Requests, Redeem(r)
      PROVE  IInv' /\ Ages /\ RedeemsOnce /\ LearnsOpened
  BY <1>2, <1>8, RedeemStep DEF Redeem
<1>9. ASSUME NEW r \in Requests, NEW state \in {"done", "error"}, HttpEnds(r, state)
      PROVE  IInv' /\ Ages /\ UNCHANGED <<rows, clear>>
  BY <1>9, HttpEndsStep DEF HttpEnds, backend
<1>10. ASSUME NEW s \in Sessions, Revoke(s)
       PROVE  IInv' /\ Ages /\ UNCHANGED <<rows, clear>>
  BY <1>10, RevokeStep DEF Revoke
<1>11. ASSUME Tick \/ SetClockBack
       PROVE  IInv' /\ Ages /\ UNCHANGED <<rows, clear>>
  BY <1>11, ClocksStep DEF Tick, SetClockBack, backend
<1>12. ASSUME UNCHANGED vars
       PROVE  IInv' /\ Ages /\ UNCHANGED <<rows, clear>>
  BY <1>12, NothingStep DEF vars
<1> QED
  BY <1>1, <1>2, <1>3, <1>4, <1>5, <1>6, <1>7, <1>8, <1>9, <1>10, <1>11, <1>12,
     StartStep, OpenedIsLearnt DEF Next

LEMMA Invariance == Spec => []IInv
<1>1. Init => IInv
  BY InitInv
<1>2. IInv /\ [Next]_vars => IInv'
  BY NextStep
<1> QED BY <1>1, <1>2, PTL DEF Spec

-----------------------------------------------------------------------------
(* What a connection waits for is polled, whatever was begun, failed,      *)
(* superseded or destroyed (Start, Poll and the destructor of              *)
(* GamePairingHttp); an offer excludes a lease and a wait.                 *)
THEOREM PairingAlwaysConsistent == Spec => []PairingConsistent
<1>1. IInv => PairingConsistent
  <2> SUFFICES ASSUME IInv
               PROVE  PairingConsistent
    OBVIOUS
  <2>1. PendingIsPolled
    <3> SUFFICES ASSUME NEW c \in Connections, Alive(c), conn[c].pending
                 PROVE  \E e \in entries : /\ e.serial = conn[c].serial
                                           /\ {d \in entries : d.conn = c} = {e}
      BY DEF PendingIsPolled
    <3>1. PICK e \in entries : e.conn = c /\ e.serial = conn[c].serial
      BY DEF IInv, PendingInv
    <3> QED BY <3>1 DEF IInv, EntriesInv
  <2>2. SealExcludesLease
    BY AliveObject DEF SealExcludesLease, ObjectInv
  <2> QED BY <2>1, <2>2 DEF PairingConsistent, IInv
<1> QED BY <1>1, Invariance, PTL

(* The identity a connection answers with (PlayerId) is of a token that    *)
(* was issued for it and redeemed by its own last request.                 *)
THEOREM LeaseAlwaysOwn == Spec => []LeaseFromOwnRequest
<1>1. IInv => LeaseFromOwnRequest
  <2> SUFFICES ASSUME IInv, NEW c \in Connections, Alive(c), conn[c].lease # None
               PROVE  /\ conn[c].connected /\ ~conn[c].pending
                      /\ conn[c].lease.expires <= conn[c].deadline
                      /\ \E t \in Tokens :
                           /\ rows[t] # None /\ rows[t].by = <<c, conn[c].serial>>
                           /\ rows[t].nonce = c /\ rows[t].session = conn[c].lease.session
                           /\ conn[c].lease.expires <= rows[t].expires
    BY DEF LeaseFromOwnRequest
  <2>1. conn[c] # None /\ ObjectInv(conn[c]) /\ LeaseBacked(c, conn[c])
    BY AliveObject DEF IInv, ObjectsInv
  <2> QED BY <2>1 DEF ObjectInv, LeaseBacked, RedeemedBy
<1> QED BY <1>1, Invariance, PTL

(* GamePairing.redeem consumes a token once, and never one that issue has  *)
(* superseded.                                                             *)
THEOREM TokenAlwaysRedeemedOnce == Spec => TokenRedeemedOnce
<1>1. IInv /\ [Next]_vars => [\A t \in Tokens :
        rows[t] # None /\ rows'[t].by # rows[t].by =>
          /\ rows[t].by = None
          /\ rows[t].session \in active'
          /\ \A u \in Tokens \ {t} : rows[u] # None /\ rows[u].session = rows[t].session
                                     => rows[u].status # "issued"]_vars
  BY NextStep DEF RedeemsOnce
<1> QED BY <1>1, Invariance, PTL DEF Spec, TokenRedeemedOnce

(* A lease seen to be over is not answered for again, also when Clock      *)
(* meets a clock that was set back; a sealed token is learnt only by       *)
(* opening it with the offer it was sealed for.                            *)
THEOREM ExpiredAlwaysStaysExpired == Spec => ExpiredStaysExpired
<1>1. IInv /\ [Next]_vars => [
        /\ \A c \in Connections :
             conn[c] # None /\ conn[c].lease # None /\ conn[c].lease.expires <= conn[c].lastNow =>
               ~Answers(conn'[c]) \/ conn'[c].lease # conn[c].lease
        /\ \A t \in Tokens :
             t \in clear' \ clear /\ rows'[t].offer # None =>
               /\ Alive(rows[t].nonce)
               /\ conn[rows[t].nonce].seal # None
               /\ rows[t].offer[2] = conn[rows[t].nonce].seal.issued
               /\ Now < rows[t].expires]_vars
  <2> SUFFICES ASSUME IInv, [Next]_vars, NEW c \in Connections, conn[c] # None,
                      conn[c].lease # None, conn[c].lease.expires <= conn[c].lastNow
               PROVE  ~Answers(conn'[c]) \/ conn'[c].lease # conn[c].lease
    BY NextStep DEF LearnsOpened
  <2> SUFFICES ASSUME Answers(conn'[c]), conn'[c].lease = conn[c].lease
               PROVE  FALSE
    OBVIOUS
  <2>1. Ages /\ IInv'
    BY NextStep
  <2>2. conn[c] \in Identity /\ conn'[c] \in Identity
    BY <2>1 DEF IInv, TypeOK, Answers
  <2>3. conn'[c].lastNow >= conn[c].lastNow
    BY <2>1 DEF Ages
  <2>4. /\ conn[c].lastNow \in Nat /\ conn'[c].lastNow \in Nat /\ Now \in Int
        /\ conn[c].lease.expires \in Int
    <3>1. conn[c].lease \in LeaseType
      BY <2>2, Fields
    <3> QED BY <2>2, <3>1, Fields, NowInRange, Numbers DEF IInv, LeaseType, Times
  <2>5. Now >= conn'[c].lastNow /\ conn[c].lease.expires > Now
    BY DEF Answers
  <2> QED BY <2>3, <2>4, <2>5
<1> QED BY <1>1, Invariance, PTL DEF Spec, ExpiredStaysExpired
=============================================================================
