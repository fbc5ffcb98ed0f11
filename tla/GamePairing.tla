---------------------------- MODULE GamePairing ----------------------------
(***************************************************************************)
(* Pairing a game connection with a wallet session. The backend issues a   *)
(* one-use token for the nonce of a connection, in the clear or sealed to  *)
(* an offer of the game server; the server redeems the token over HTTPS    *)
(* and leases the identity in the answer until it expires.                 *)
(*                                                                         *)
(* GameConnectionIdentity and GamePairingHttp run on the game thread, so a *)
(* call is an action. HTTP requests run beside it: the backend may redeem  *)
(* a token long after the game has forgotten the request. The nonce of a   *)
(* connection is 32 random bytes: it stands for the connection itself.     *)
(* A reply for another domain is refused like one for another nonce, and   *)
(* is left out. Cryptography is perfect: only the backend makes envelopes, *)
(* and only the key of an offer opens those made for it.                   *)
(***************************************************************************)
EXTENDS Integers, FiniteSets, FiniteSetsExt, Functions

CONSTANTS
  Slots,          \* client slots of the game server
  Connections,    \* GameConnectionIdentity objects, one for every connection
  Sessions,       \* wallet sessions of the backend
  SessionExpiry,  \* session -> sessions.expires_at
  Tokens,         \* pairing tokens
  None,
  Life,           \* 120000 ms: a request, an offer, a token
  HttpTimeout,    \* 10000 ms
  SealInterval,   \* 2000 ms between offers
  SealAttempts,   \* 8 envelopes for an offer
  MaxPending,     \* 128 requests
  MaxSerial,      \* largest value of m_Serial
  MaxRequests,    \* bound: requests of all connections
  MaxTime,        \* bound: last time of the backend's clock
  MaxRollback     \* bound: how far the game server's clock is set back

Times == 0 .. MaxTime + Life
Requests == Connections \X (1 .. MaxSerial)

(* GamePairingSeal, the lease and GameConnectionIdentity                   *)
SealType == [issued : Times, attempts : 0 .. SealAttempts, key : BOOLEAN]
LeaseType == [session : Sessions, expires : Times]
Identity ==
  [connected : BOOLEAN, pending : BOOLEAN, serial : 0 .. MaxSerial, deadline : Times,
   lastNow : Times, nextSealAt : Times, seal : SealType \cup {None},
   lease : LeaseType \cup {None}]

(* A request on its way with the answer, and a row of game_pairings        *)
Reply == [session : Sessions, nonce : Connections, expires : Times]
HttpRequest == [state : {"sent", "answered", "done", "error"}, token : Tokens,
                reply : Reply \cup {None}]
Row == [session : Sessions, nonce : Connections, expires : Times,
        status : {"issued", "deleted", "consumed"}, by : Requests \cup {None},
        offer : (Connections \X Times) \cup {None}]

ASSUME PairingAssumption ==
  /\ None \notin Slots \cup Connections \cup Sessions \cup Tokens
  /\ None \notin Identity /\ None \notin HttpRequest /\ None \notin Row
  /\ None \notin SealType /\ None \notin LeaseType
  /\ None \notin Reply /\ None \notin Requests
  /\ SessionExpiry \in [Sessions -> Nat]
  /\ HttpTimeout \in Nat \ {0} /\ SealInterval \in Nat \ {0}
  /\ Life \in Nat /\ HttpTimeout < Life /\ SealInterval < Life
  /\ {SealAttempts, MaxPending, MaxSerial} \subseteq Nat \ {0}
  /\ {MaxRequests, MaxTime, MaxRollback} \subseteq Nat /\ MaxRollback <= MaxTime

VARIABLES
  time,     \* the backend's clock
  behind,   \* how far the game server's clock is behind it
  slot,     \* m_aGameIdentities
  conn,     \* the objects
  entries,  \* m_Pending of GamePairingHttp
  http,     \* the HTTP request of <<connection, serial>>
  rows,     \* table game_pairings
  active,   \* sessions that are not revoked, with binding and account
  clear     \* tokens the game server may know

vars == <<time, behind, slot, conn, entries, http, rows, active, clear>>
backend == <<rows, active>>

Now == time - behind                \* the game server's clock
Fresh(f) == {x \in DOMAIN f : f[x] = None}   \* never used so far
Alive(c) == c \in Range(slot)       \* whether a weak_ptr to c can be locked

NewIdentity == [connected |-> TRUE, pending |-> FALSE, serial |-> 0, deadline |-> 0,
                lastNow |-> 0, nextSealAt |-> 0, seal |-> None, lease |-> None]

Init ==
  /\ time = MaxRollback /\ behind = 0
  /\ slot = [s \in Slots |-> None]
  /\ conn = [c \in Connections |-> None]
  /\ entries = {}
  /\ http = [r \in Requests |-> None]
  /\ rows = [t \in Tokens |-> None]
  /\ active = Sessions
  /\ clear = {}

-----------------------------------------------------------------------------
(* GameConnectionIdentity::Disconnect                                      *)
Disconnect(k) ==
  [k EXCEPT !.connected = FALSE, !.pending = FALSE, !.lease = None, !.seal = None]

(* GameConnectionIdentity::Clock, first thing in every call                *)
Clock_accepts_rollback(k) == IF k.connected THEN [k EXCEPT !.lastNow = Now] ELSE k

Clock(k) ==
  IF ~k.connected THEN k
  ELSE IF Now < k.lastNow THEN Disconnect(k)
  ELSE [k EXCEPT !.lastNow = Now]

(* Matches, for a request of the same connection                           *)
Matches(k, serial) == k.connected /\ k.pending /\ k.serial = serial

Fail(k, serial) ==
  IF Matches(k, serial) THEN [k EXCEPT !.pending = FALSE, !.lease = None] ELSE k

(* The object of a slot has no other owner: released, it is destroyed.     *)
Gone(c) == Disconnect([NewIdentity EXCEPT !.serial = conn[c].serial])

(* CGameContext::OnClientConnected                                         *)
OnClientConnected(s) ==
  /\ Fresh(conn) # {}
  /\ LET c == CHOOSE d \in Fresh(conn) : TRUE
     IN  /\ slot' = [slot EXCEPT ![s] = c]
         /\ conn' = [d \in Connections |-> IF d = c THEN NewIdentity
                                           ELSE IF d = slot[s] THEN Gone(d) ELSE conn[d]]
  /\ UNCHANGED <<time, behind, entries, http, backend, clear>>

(* CGameContext::OnClientDrop, and its destructor for every slot           *)
OnClientDrop(s) ==
  /\ slot[s] # None
  /\ slot' = [slot EXCEPT ![s] = None]
  /\ conn' = [conn EXCEPT ![slot[s]] = Gone(slot[s])]
  /\ UNCHANGED <<time, behind, entries, http, backend, clear>>

(* A call on a living connection                                           *)
Call(c, k) ==
  /\ conn' = [conn EXCEPT ![c] = k]
  /\ UNCHANGED <<time, behind, slot, http, backend>>

(* PlayerId and SignChallenge: Active drops a lease that has expired.      *)
Active(c) ==
  /\ Alive(c)
  /\ LET k == Clock(conn[c])
     IN  Call(c, IF k.lease # None /\ k.lease.expires <= Now
                 THEN [k EXCEPT !.lease = None] ELSE k)
  /\ UNCHANGED <<entries, clear>>

(* GameConnectionIdentity::BeginSealedPairing; ready is whether the key    *)
(* and the signature of the offer could be made                            *)
BeginSealedPairing(c, ready) ==
  /\ Alive(c)
  /\ LET k == Clock(conn[c])
         seal == IF ready THEN [issued |-> Now, attempts |-> 0, key |-> TRUE] ELSE None
     IN  IF ~k.connected \/ Now < k.nextSealAt THEN Call(c, k)
         ELSE Call(c, [k EXCEPT !.nextSealAt = Now + SealInterval, !.pending = FALSE,
                                !.lease = None, !.seal = seal])
  /\ UNCHANGED <<entries, clear>>

(* GamePairingSeal::OpenEnvelope of an envelope with token t, or of junk   *)
(* (None), while the seal has its key. Decrypting it uses the key up.      *)
Opens(c, seal, t) ==
  /\ t # None
  /\ rows[t].offer = <<c, seal.issued>>
  /\ rows[t].expires > Now /\ rows[t].expires <= seal.issued + Life

OpenEnvelope(c, seal, t) ==
  IF \/ Now < seal.issued \/ Now >= seal.issued + Life \/ seal.attempts >= SealAttempts
  THEN [seal EXCEPT !.key = FALSE]
  ELSE [seal EXCEPT !.attempts = @ + 1, !.key = ~Opens(c, seal, t)]

OpenSealedPairing(c, t) ==
  /\ Alive(c)
  /\ t # None => rows[t] # None
  /\ LET k == Clock(conn[c])
     IN  IF k.seal = None \/ (k.seal # None /\ ~k.seal.key)
         THEN Call(c, k) /\ UNCHANGED clear
         ELSE LET seal == OpenEnvelope(c, k.seal, t)
              IN  /\ Call(c, [k EXCEPT !.seal = seal])
                  /\ clear' = IF seal.attempts > k.seal.attempts /\ ~seal.key
                              THEN clear \cup {t} ELSE clear
  /\ UNCHANGED entries

-----------------------------------------------------------------------------
(* GameConnectionIdentity::Begin                                           *)
Begun == MapThenSumSet(LAMBDA c : IF conn[c] = None THEN 0 ELSE conn[c].serial, Connections)

CanBegin(k) == k.connected /\ k.serial < MaxSerial

Begin(k) ==
  [k EXCEPT !.lease = None, !.seal = None, !.pending = TRUE,
            !.deadline = Now + Life, !.serial = @ + 1]

(* An HTTP request that nobody polls and that has ended is destroyed; one  *)
(* that was aborted on its way may still reach the backend.                *)
Ended(r) == http[r] # None /\ http[r].state \in {"done", "error"}

Released(kept) == [r \in Requests |->
  IF Ended(r) /\ ~\E e \in kept : r = <<e.conn, e.serial>> THEN None ELSE http[r]]

Polls(r) == \E e \in entries : r = <<e.conn, e.serial>>

(* GamePairingHttp::Start: an older request of the connection is aborted.  *)
Start(c, t) ==
  /\ Alive(c) /\ t \in clear
  /\ Begun < MaxRequests
  /\ Cardinality(entries) < MaxPending
  /\ conn[c].connected
  /\ LET k == Clock(conn[c])
     IN  IF ~CanBegin(k)
         THEN Call(c, k) /\ UNCHANGED <<entries, clear>>
         ELSE /\ conn' = [conn EXCEPT ![c] = Begin(k)]
              /\ entries' = {e \in entries : e.conn # c} \cup
                   {[conn |-> c, serial |-> k.serial + 1, startedAt |-> Now]}
              /\ http' = [Released({e \in entries : e.conn # c}) EXCEPT ![<<c, k.serial + 1>>] =
                            [state |-> "sent", token |-> t, reply |-> None]]
              /\ UNCHANGED <<time, behind, slot, backend, clear>>

(* GameConnectionIdentity::IsPending after Clock                           *)
Current(k, e) == Matches(k, e.serial) /\ Now < k.deadline

TimedOut(e) == Now < e.startedAt \/ Now - e.startedAt >= HttpTimeout

(* Whether Poll keeps entry e, whose connection is c                       *)
Kept(e) ==
  /\ Alive(e.conn)
  /\ Current(Clock(conn[e.conn]), e) /\ ~TimedOut(e)
  /\ ~Ended(<<e.conn, e.serial>>)

(* GameConnectionIdentity::Complete for the reply of e                     *)
Completes_any_expiry(k, e) ==
  LET r == http[<<e.conn, e.serial>>]
  IN  /\ Current(k, e) /\ ~TimedOut(e)
      /\ r.state = "done"
      /\ r.reply.nonce = e.conn

Completes(k, e) ==
  LET r == http[<<e.conn, e.serial>>]
  IN  /\ Current(k, e) /\ ~TimedOut(e)
      /\ r.state = "done"
      /\ r.reply.nonce = e.conn
      /\ r.reply.expires > Now /\ r.reply.expires <= k.deadline

Polled_forgets_failure(k, e) ==
  IF Kept(e) THEN k
  ELSE IF Completes(k, e)
  THEN [k EXCEPT !.pending = FALSE,
                 !.lease = [session |-> http[<<e.conn, e.serial>>].reply.session,
                            expires |-> http[<<e.conn, e.serial>>].reply.expires]]
  ELSE k

Polled(k, e) ==
  IF Kept(e) THEN k
  ELSE IF Completes(k, e)
  THEN [k EXCEPT !.pending = FALSE,
                 !.lease = [session |-> http[<<e.conn, e.serial>>].reply.session,
                            expires |-> http[<<e.conn, e.serial>>].reply.expires]]
  ELSE Fail(k, e.serial)

(* GamePairingHttp::Poll                                                   *)
Poll ==
  /\ entries # {}
  /\ conn' = [c \in Connections |->
       IF Alive(c) /\ \E e \in entries : e.conn = c
       THEN Polled(Clock(conn[c]), CHOOSE e \in entries : e.conn = c)
       ELSE conn[c]]
  /\ entries' = {e \in entries : Kept(e)}
  /\ http' = Released({e \in entries : Kept(e)})
  /\ UNCHANGED <<time, behind, slot, backend, clear>>

(* GamePairingHttp::~GamePairingHttp                                       *)
Destroy ==
  /\ entries # {}
  /\ conn' = [c \in Connections |->
       IF Alive(c) /\ \E e \in entries : e.conn = c
       THEN Fail(conn[c], (CHOOSE e \in entries : e.conn = c).serial)
       ELSE conn[c]]
  /\ entries' = {}
  /\ http' = Released({})
  /\ UNCHANGED <<time, behind, slot, backend, clear>>

-----------------------------------------------------------------------------
(* GamePairing.issue and issueSealedPairing, for session s and the nonce   *)
(* of c, or for an offer of c. The session's pending token is deleted.     *)
Issue(s, c, offer) ==
  /\ s \in active /\ SessionExpiry[s] > time
  /\ Alive(c)
  /\ Fresh(rows) # {}
  /\ offer # None => offer[2] <= time /\ offer[2] + Life > time
  /\ LET t == CHOOSE u \in Fresh(rows) : TRUE
         limits == {time + Life, SessionExpiry[s]} \cup
                   (IF offer = None THEN {} ELSE {offer[2] + Life})
     IN  /\ rows' = [u \in Tokens |->
           IF u = t THEN [session |-> s, nonce |-> c, expires |-> Min(limits),
                          status |-> "issued", by |-> None, offer |-> offer]
           ELSE IF rows[u] # None /\ rows[u].session = s /\ rows[u].status = "issued"
           THEN [rows[u] EXCEPT !.status = "deleted"]
           ELSE rows[u]]
         /\ clear' = IF offer = None THEN clear \cup {t} ELSE clear
  /\ UNCHANGED <<time, behind, slot, conn, entries, http, active>>

IssueForOffer(s, c) ==
  /\ conn[c] # None /\ conn[c].seal # None
  /\ Issue(s, c, <<c, conn[c].seal.issued>>)

(* GamePairing.redeem                                                      *)
Redeemable_again(r, row) ==
  /\ row.status # "deleted" /\ row.expires > time /\ row.nonce = r[1]
  /\ row.session \in active /\ SessionExpiry[row.session] > time

Redeemable(r, row) ==
  /\ row.status = "issued" /\ row.expires > time /\ row.nonce = r[1]
  /\ row.session \in active /\ SessionExpiry[row.session] > time

Redeem(r) ==
  /\ http[r] # None /\ http[r].state = "sent"
  /\ LET t == http[r].token
         row == rows[t]
         reply == [session |-> row.session, nonce |-> row.nonce,
                   expires |-> Min({row.expires, SessionExpiry[row.session]})]
     IN  /\ Redeemable(r, row)
         /\ rows' = [rows EXCEPT ![t].status = "consumed", ![t].by = r]
         /\ http' = [http EXCEPT ![r].state = "answered", ![r].reply = reply]
  /\ UNCHANGED <<time, behind, slot, conn, entries, active, clear>>

(* The request ends: its answer arrives, or the backend refuses it, or it  *)
(* fails or times out, before or after the backend has seen it.            *)
HttpEnds(r, state) ==
  /\ http[r] # None
  /\ \/ http[r].state = "answered"
     \/ http[r].state = "sent" /\ state = "error"
  /\ http' = [http EXCEPT ![r] =
       IF Polls(r)
       THEN [http[r] EXCEPT !.state = state,
                            !.reply = IF state = "error" THEN None ELSE http[r].reply]
       ELSE None]
  /\ UNCHANGED <<time, behind, slot, conn, entries, backend, clear>>

(* A session, its binding or its account is revoked.                       *)
Revoke(s) ==
  /\ s \in active
  /\ active' = active \ {s}
  /\ UNCHANGED <<time, behind, slot, conn, entries, http, rows, clear>>

Tick ==
  /\ time < MaxTime
  /\ time' = time + 1
  /\ UNCHANGED <<behind, slot, conn, entries, http, backend, clear>>

SetClockBack ==
  /\ behind < MaxRollback
  /\ behind' = behind + 1
  /\ UNCHANGED <<time, slot, conn, entries, http, backend, clear>>

Next ==
  \/ \E s \in Slots : OnClientDrop(s) \/ OnClientConnected(s)
  \/ \E c \in Connections :
       \/ Active(c)
       \/ \E ready \in BOOLEAN : BeginSealedPairing(c, ready)
       \/ \E t \in Tokens \cup {None} : OpenSealedPairing(c, t)
       \/ \E t \in Tokens : Start(c, t)
       \/ \E s \in Sessions : Issue(s, c, None) \/ IssueForOffer(s, c)
  \/ Poll \/ Destroy
  \/ \E r \in Requests : Redeem(r) \/ \E state \in {"done", "error"} : HttpEnds(r, state)
  \/ \E s \in Sessions : Revoke(s)
  \/ Tick \/ SetClockBack

Spec == Init /\ [][Next]_vars

-----------------------------------------------------------------------------
TypeOK ==
  /\ time \in 0 .. MaxTime /\ behind \in 0 .. MaxRollback
  /\ slot \in [Slots -> Connections \cup {None}]
  /\ conn \in [Connections -> Identity \cup {None}]
  /\ entries \subseteq [conn : Connections, serial : 1 .. MaxSerial, startedAt : Times]
  /\ Cardinality(entries) <= MaxPending
  /\ http \in [Requests -> HttpRequest \cup {None}]
  /\ rows \in [Tokens -> Row \cup {None}]
  /\ active \subseteq Sessions /\ clear \subseteq Tokens

(* A connection waits for an answer only while GamePairingHttp polls for   *)
(* exactly that request, whatever was begun, failed, superseded or         *)
(* destroyed: it never stays pending with nobody to end it.                *)
PendingIsPolled == \A c \in Connections :
  Alive(c) /\ conn[c].pending =>
    \E e \in entries : /\ e.serial = conn[c].serial
                       /\ {d \in entries : d.conn = c} = {e}

(* A lease comes from the last request the connection began, of a token    *)
(* issued for this very connection and redeemed by that request, and it    *)
(* ends with the token and with the request's own deadline.                *)
LeaseFromOwnRequest == \A c \in Connections :
  Alive(c) /\ conn[c].lease # None =>
    /\ conn[c].connected /\ ~conn[c].pending
    /\ conn[c].lease.expires <= conn[c].deadline
    /\ \E t \in Tokens : /\ rows[t] # None
                         /\ rows[t].by = <<c, conn[c].serial>>
                         /\ rows[t].nonce = c
                         /\ rows[t].session = conn[c].lease.session
                         /\ conn[c].lease.expires <= rows[t].expires

(* However requests are repeated, aborted, delayed or lost, a token is     *)
(* redeemed by one request, of a session that was not revoked, and a       *)
(* superseded token by none.                                               *)
TokenRedeemedOnce == [][\A t \in Tokens :
  rows[t] # None /\ rows'[t].by # rows[t].by =>
    /\ rows[t].by = None
    /\ rows[t].session \in active'
    /\ \A u \in Tokens \ {t} : rows[u] # None /\ rows[u].session = rows[t].session
                               => rows[u].status # "issued"]_vars

(* A connection that offers a seal has no lease and waits for no answer:   *)
(* the offer ends what was pending, and an answer that arrives later does  *)
(* not revive it.                                                          *)
SealExcludesLease == \A c \in Connections :
  Alive(c) /\ conn[c].seal # None => conn[c].lease = None /\ ~conn[c].pending

(* The identity objects are consistent with the requests under way.        *)
PairingConsistent == TypeOK /\ PendingIsPolled /\ SealExcludesLease

Answers(k) == k # None /\ k.connected /\ Now >= k.lastNow /\ k.lease # None /\ k.lease.expires > Now

(* What is over stays over. A lease that was seen to be over is never      *)
(* answered for again, also when the clock of the server is set back; and  *)
(* a sealed token becomes known to the server only through the connection  *)
(* and the offer it was sealed for, while the token is good.               *)
ExpiredStaysExpired == [][
  /\ \A c \in Connections :
       conn[c] # None /\ conn[c].lease # None /\ conn[c].lease.expires <= conn[c].lastNow =>
         ~Answers(conn'[c]) \/ conn'[c].lease # conn[c].lease
  /\ \A t \in Tokens :
       t \in clear' \ clear /\ rows'[t].offer # None =>
         /\ Alive(rows[t].nonce)
         /\ conn[rows[t].nonce].seal # None
         /\ rows[t].offer[2] = conn[rows[t].nonce].seal.issued
         /\ Now < rows[t].expires]_vars
=============================================================================
