--------------------------- MODULE GameServerProofs ---------------------------
(***************************************************************************)
(* The game server. Slots, clients and players agree, for every number of  *)
(* slots, addresses, timeout codes and map reloads, and for every order in *)
(* which clients come, rejoin, fail, resume and are dropped. No rank that  *)
(* reached the backup file is lost, for every number of queries, every     *)
(* size of the ring and every interleaving of the three threads of the     *)
(* database pool with failing databases.                                   *)
(***************************************************************************)
EXTENDS ServerSlots, DbPool, TLAPS, FiniteSetTheorems

(* A client flagged to rejoin is on its way back into the game, and a free *)
(* slot keeps nothing of its last client.                                  *)
ClientShape == \A s \in Slots :
  /\ client[s].rejoin => client[s].state \in {"CONNECTING", "READY"}
  /\ client[s].state = "EMPTY" => client[s].persist = None

(* What is persisted over a reload waits for the next player: as long as   *)
(* it is there, the slot has none, so a takeover cannot move it to another *)
(* client.                                                                 *)
PersistAlone == \A s \in Slots : client[s].persist # None => player[s] = None

(* Only a protected connection waits, and only between two updates it is   *)
(* online at the same time.                                                *)
SituationProtected == \A s \in Slots :
  conn[s].situation => conn[s].protected /\ conn[s].state # "OFFLINE"

IInv ==
  /\ SlotsConsistent /\ SlotBelongs
  /\ ClientShape /\ PersistAlone /\ SituationProtected

Conns ==
  [state : {"OFFLINE", "ONLINE", "ERROR"}, addr : Addrs \cup {None},
   token : {"unknown", "unsupported", "token"},
   protected : BOOLEAN, situation : BOOLEAN]
Clients ==
  [state : {"EMPTY", "PREAUTH", "AUTH", "CONNECTING", "READY", "INGAME"},
   rejoin : BOOLEAN, persist : Addrs \cup {None}]
Players == [owner : Addrs, ready : BOOLEAN, code : Codes \cup {NoCode}]

(* What IInv says of one slot: all of it but OneSlotPerAddress.            *)
Good(c, cl, p, i) ==
  /\ c \in Conns /\ cl \in Clients /\ p \in Players \cup {None} /\ i \in Addrs \cup {None}
  /\ c.state = "OFFLINE" <=> cl.state = "EMPTY"
  /\ c.state = "OFFLINE" <=> c.addr = None
  /\ HasPlayer(cl) => p # None /\ p.owner = c.addr
  /\ cl.persist # None => cl.persist = c.addr
  /\ cl.rejoin => cl.state \in {"CONNECTING", "READY"}
  /\ cl.state = "EMPTY" => cl.persist = None
  /\ cl.persist # None => p = None
  /\ c.situation => c.protected /\ c.state # "OFFLINE"

GoodSlot(s) == Good(conn[s], client[s], player[s], identity[s])

AllGood == \A s \in Slots : GoodSlot(s)

SlotFunctions ==
  /\ DOMAIN conn = Slots /\ DOMAIN client = Slots
  /\ DOMAIN player = Slots /\ DOMAIN identity = Slots
  /\ conn = [s \in Slots |-> conn[s]] /\ client = [s \in Slots |-> client[s]]
  /\ player = [s \in Slots |-> player[s]] /\ identity = [s \in Slots |-> identity[s]]
  /\ reloads \in 0 .. MaxReloads

-----------------------------------------------------------------------------
LEMMA MinIn ==
  ASSUME NEW S \in SUBSET Nat, S # {}
  PROVE  Min(S) \in S
<1> DEFINE R == {p \in Nat \X Nat : p[1] < p[2]}
<1>1. IsWellFoundedOn(R, Nat)
  BY NatLessThanWellFounded DEF OpToRel
<1>2. PICK x \in S : \A y \in S : ~ (<<y, x>> \in R)
  BY <1>1, WFMin
<1>3. ASSUME NEW y \in S PROVE x =< y
  <2>1. x \in Nat /\ y \in Nat
    OBVIOUS
  <2>2. CASE y < x
    <3>1. <<y, x>> \in R
      BY <2>1, <2>2
    <3> QED BY <3>1, <1>2
  <2> QED BY <2>1, <2>2
<1> QED BY <1>3 DEF Min

LEMMA SlotsAreNat == Slots \subseteq Nat
BY SlotsAssumption DEF Slots

LEMMA IInvBySlot ==
  IInv <=> SlotFunctions /\ OneSlotPerAddress /\ AllGood
<1> USE DEF AllGood
<1>1. ASSUME IInv PROVE SlotFunctions /\ OneSlotPerAddress
  BY <1>1 DEF IInv, SlotsConsistent, TypeOK, SlotFunctions
<1>2. ASSUME IInv, NEW s \in Slots PROVE GoodSlot(s)
  BY <1>2 DEF IInv, SlotsConsistent, SlotBelongs, TypeOK, SlotsAgree, PlayerBehindClient,
     PersistBelongs, ClientShape, PersistAlone, SituationProtected, GoodSlot, Good,
     Conns, Clients, Players
<1>3. ASSUME SlotFunctions, OneSlotPerAddress, AllGood PROVE IInv
  <2>1. TypeOK
    BY <1>3 DEF TypeOK, SlotFunctions, GoodSlot, Good, Conns, Clients, Players
  <2>2. SlotsAgree /\ PlayerBehindClient /\ PersistBelongs
    BY <1>3 DEF SlotsAgree, PlayerBehindClient, PersistBelongs, GoodSlot, Good
  <2>3. ClientShape /\ PersistAlone /\ SituationProtected
    BY <1>3 DEF ClientShape, PersistAlone, SituationProtected, GoodSlot, Good
  <2> QED BY <1>3, <2>1, <2>2, <2>3 DEF IInv, SlotsConsistent, SlotBelongs
<1> QED BY <1>1, <1>2, <1>3

LEMMA IInvBySlotNext ==
  SlotFunctions' /\ OneSlotPerAddress' /\ AllGood' => IInv'
BY IInvBySlot, PTL

LEMMA PlayerIsNotNone == \A p \in Players : p # None
BY SlotsAssumption DEF Players

LEMMA NewPlayerType ==
  ASSUME NEW a \in Addrs
  PROVE  NewPlayer(a) \in Players /\ NewPlayer(a).owner = a
BY DEF NewPlayer, Players

LEMMA ResetGood ==
  ASSUME NEW p \in Players \cup {None}, NEW i \in Addrs \cup {None}
  PROVE  Good(Reset, EmptyClient, p, i)
BY SlotsAssumption DEF Good, Reset, EmptyClient, Conns, Clients, HasPlayer, AtLeastReady

\* A handler that leaves the other slots alone, and its own in order, keeps
\* IInv as long as it does not bring an address that is live elsewhere.
LEMMA AtKeeps ==
  ASSUME IInv, NEW s \in Slots, NEW c, NEW cl, NEW p, NEW i, At(s, c, cl, p, i),
         Good(c, cl, p, i),
         c.state = "ONLINE" => \A t \in Slots \ {s} : conn[t].state = "ONLINE" => conn[t].addr # c.addr
  PROVE  IInv'
<1>1. SlotFunctions /\ OneSlotPerAddress /\ \A t \in Slots : GoodSlot(t)
  BY IInvBySlot DEF AllGood
<1>2. SlotFunctions'
  BY <1>1 DEF SlotFunctions, At
<1>3. /\ conn'[s] = c /\ client'[s] = cl /\ player'[s] = p /\ identity'[s] = i
      /\ \A t \in Slots \ {s} : conn'[t] = conn[t] /\ client'[t] = client[t]
                                /\ player'[t] = player[t] /\ identity'[t] = identity[t]
  BY <1>1 DEF SlotFunctions, At
<1>4. \A t \in Slots : GoodSlot(t)'
  BY <1>1, <1>3 DEF GoodSlot
<1>5. OneSlotPerAddress'
  BY <1>1, <1>3 DEF OneSlotPerAddress
<1> QED BY <1>2, <1>4, <1>5, IInvBySlotNext DEF AllGood

LEMMA InitKeeps == Init => IInv
<1> SUFFICES ASSUME Init PROVE IInv
  OBVIOUS
<1>1. SlotFunctions
  BY SlotsAssumption DEF Init, SlotFunctions
<1>2. OneSlotPerAddress
  BY DEF Init, OneSlotPerAddress, Reset
<1>3. \A s \in Slots : GoodSlot(s)
  BY ResetGood DEF Init, GoodSlot
<1> QED BY <1>1, <1>2, <1>3, IInvBySlot DEF AllGood

-----------------------------------------------------------------------------
(* One lemma per handler.                                                  *)
LEMMA SlotFacts ==
  ASSUME IInv, NEW s \in Slots
  PROVE  Good(conn[s], client[s], player[s], identity[s])
BY IInvBySlot DEF AllGood, GoodSlot

LEMMA DroppedTypes ==
  ASSUME IInv, NEW s \in Slots
  PROVE  /\ DroppedPlayer(s) \in Players \cup {None}
         /\ DroppedIdentity(s) \in Addrs \cup {None}
BY SlotFacts DEF Good, DroppedPlayer, DroppedIdentity

LEMMA DropKeeps ==
  ASSUME IInv, NEW s \in Slots, Drop(s)
  PROVE  IInv'
<1>1. Good(Reset, EmptyClient, DroppedPlayer(s), DroppedIdentity(s))
  BY DroppedTypes, ResetGood
<1> QED BY <1>1, AtKeeps DEF Drop, Reset

\* A handler that changes only what the server knows of an online client.
LEMMA OnlineKeeps ==
  ASSUME IInv, NEW s \in Slots, FromClient(s), NEW c, c.state = "ONLINE", c.addr = conn[s].addr,
         NEW cl, NEW p, NEW i, At(s, c, cl, p, i), Good(c, cl, p, i)
  PROVE  IInv'
<1>1. \A t \in Slots \ {s} : conn[t].state = "ONLINE" => conn[t].addr # c.addr
  BY DEF IInv, SlotsConsistent, OneSlotPerAddress, FromClient
<1> QED BY <1>1, AtKeeps

LEMMA RejoinKeeps ==
  ASSUME IInv, NEW s \in Slots, FromClient(s), NEW token \in {"unknown", "unsupported", "token"},
         NEW vanillaAuth \in BOOLEAN, ClientRejoin(s, conn[s].addr, token, vanillaAuth)
  PROVE  IInv'
<1> DEFINE c == DirectInit(conn[s].addr, token)
           known == [client[s] EXCEPT !.state = "CONNECTING", !.rejoin = TRUE]
<1>1. Good(conn[s], client[s], player[s], identity[s]) /\ conn[s].state = "ONLINE"
  BY SlotFacts DEF FromClient
<1>2. c \in Conns /\ c.state = "ONLINE" /\ c.addr = conn[s].addr /\ c.addr # None
      /\ c.situation = FALSE
  BY <1>1 DEF Good, DirectInit, Reset, Conns
<1>3. CASE IsKnownToGame(client[s])
  <2>1. known \in Clients /\ known.state = "CONNECTING" /\ known.rejoin
        /\ known.persist = client[s].persist
    BY <1>1 DEF Good, Clients
  <2>2. HasPlayer(client[s])
    BY <1>3 DEF IsKnownToGame, HasPlayer, AtLeastReady
  <2>3. Good(c, known, player[s], identity[s])
    BY <1>1, <1>2, <2>1, <2>2 DEF Good
  <2> QED BY <1>2, <1>3, <2>3, OnlineKeeps DEF ClientRejoin
<1>4. CASE ~ IsKnownToGame(client[s])
  <2>1. NewClient(vanillaAuth) \in Clients /\ NewClient(vanillaAuth).state \in {"PREAUTH", "CONNECTING"}
        /\ NewClient(vanillaAuth).rejoin = FALSE /\ NewClient(vanillaAuth).persist = None
    BY DEF NewClient, EmptyClient, Clients
  <2>2. Good(c, NewClient(vanillaAuth), DroppedPlayer(s), DroppedIdentity(s))
    BY <1>2, <2>1, DroppedTypes DEF Good, HasPlayer, AtLeastReady
  <2> QED BY <1>2, <1>4, <2>2, OnlineKeeps DEF ClientRejoin
<1> QED BY <1>3, <1>4

LEMMA AcceptKeeps ==
  ASSUME IInv, NEW a \in Addrs, NEW token \in {"unknown", "unsupported", "token"},
         NEW vanillaAuth \in BOOLEAN, TryAcceptClient(a, token, vanillaAuth)
  PROVE  IInv'
<1>1. CASE SlotsOf(a) # {}
  <2> DEFINE s == Min(SlotsOf(a))
  <2>1. s \in SlotsOf(a)
    BY <1>1, MinIn, SlotsAreNat DEF SlotsOf
  <2>2. s \in Slots /\ FromClient(s) /\ conn[s].addr = a
    BY <2>1 DEF SlotsOf, FromClient
  <2>3. ClientRejoin(s, conn[s].addr, token, vanillaAuth)
    BY <1>1, <2>2 DEF TryAcceptClient
  <2> HIDE DEF s
  <2> QED BY <2>2, <2>3, RejoinKeeps
<1>2. CASE SlotsOf(a) = {}
  <2> DEFINE s == Min(FreeSlots)
             c == DirectInit(a, token)
             cl == [NewClient(vanillaAuth) EXCEPT !.persist = client[s].persist]
  <2>1. s \in FreeSlots
    BY <1>2, MinIn, SlotsAreNat DEF FreeSlots, TryAcceptClient
  <2>2. s \in Slots /\ conn[s].state = "OFFLINE"
    BY <2>1 DEF FreeSlots
  <2>3. At(s, c, cl, player[s], identity[s])
    BY <1>2 DEF TryAcceptClient
  <2> HIDE DEF s
  <2>4. Good(conn[s], client[s], player[s], identity[s])
    BY <2>2, SlotFacts
  <2>5. c \in Conns /\ c.state = "ONLINE" /\ c.addr = a /\ c.situation = FALSE
    BY DEF DirectInit, Reset, Conns
  <2>6. client[s].persist = None
    BY <2>2, <2>4 DEF Good
  <2>7. cl \in Clients /\ cl.state \in {"PREAUTH", "CONNECTING"} /\ cl.rejoin = FALSE /\ cl.persist = None
    BY <2>6 DEF NewClient, EmptyClient, Clients
  <2>8. Good(c, cl, player[s], identity[s])
    BY <2>4, <2>5, <2>7, SlotsAssumption DEF Good, HasPlayer, AtLeastReady
  <2>9. \A t \in Slots \ {s} : conn[t].state = "ONLINE" => conn[t].addr # c.addr
    BY <1>2, <2>5 DEF SlotsOf
  <2> HIDE DEF c, cl
  <2> QED BY <2>2, <2>3, <2>8, <2>9, AtKeeps
<1> QED BY <1>1, <1>2

\* CONNECT of a vanilla client forgets the token and nothing else.
LEMMA ReconnectKeeps ==
  ASSUME IInv, NEW a \in Addrs, VanillaReconnect(a)
  PROVE  IInv'
<1> DEFINE s == Min(SlotsOf(a))
           c == [conn[s] EXCEPT !.token = "unknown"]
<1>1. s \in SlotsOf(a)
  BY MinIn, SlotsAreNat DEF SlotsOf, VanillaReconnect
<1>2. s \in Slots /\ FromClient(s)
  BY <1>1 DEF SlotsOf, FromClient
<1>3. conn' = [conn EXCEPT ![s] = c] /\ UNCHANGED <<client, player, identity, reloads>>
  BY DEF VanillaReconnect
<1> HIDE DEF s
<1>4. Good(conn[s], client[s], player[s], identity[s]) /\ conn[s].state = "ONLINE"
  BY <1>2, SlotFacts DEF FromClient
<1>5. c \in Conns /\ c.state = "ONLINE" /\ c.addr = conn[s].addr
      /\ c.situation = conn[s].situation /\ c.protected = conn[s].protected
  BY <1>4 DEF Good, Conns
<1> HIDE DEF c
<1>6. Good(c, client[s], player[s], identity[s])
  BY <1>4, <1>5 DEF Good
<1>7. At(s, c, client[s], player[s], identity[s])
  BY <1>2, <1>3, IInvBySlot DEF At, SlotFunctions
<1> QED BY <1>2, <1>5, <1>6, <1>7, OnlineKeeps

LEMMA MessageKeeps ==
  ASSUME IInv, NEW s \in Slots,
         OnNetMsgClientVer(s) \/ OnNetMsgReady(s) \/ OnStartInfo(s) \/ OnNetMsgEnterGame(s)
  PROVE  IInv'
<1>1. Good(conn[s], client[s], player[s], identity[s])
  BY SlotFacts
<1>2. FromClient(s) /\ conn[s].state = "ONLINE" /\ conn[s].addr \in Addrs
  BY <1>1 DEF Good, Conns, OnNetMsgClientVer, OnNetMsgReady, OnStartInfo, OnNetMsgEnterGame, FromClient
<1>3. ASSUME NEW cl \in Clients, NEW p \in Players \cup {None}, NEW i \in Addrs \cup {None},
             At(s, conn[s], cl, p, i), cl.state # "EMPTY",
             HasPlayer(cl) => p # None /\ p.owner = conn[s].addr,
             cl.persist \in {None, client[s].persist}, cl.persist # None => p = None,
             cl.rejoin => cl.state \in {"CONNECTING", "READY"}
      PROVE  IInv'
  <2>1. Good(conn[s], cl, p, i)
    BY <1>1, <1>2, <1>3, SlotsAssumption DEF Good
  <2> QED BY <1>2, <1>3, <2>1, OnlineKeeps
<1>4. CASE OnNetMsgClientVer(s)
  <2> DEFINE cl == [client[s] EXCEPT !.state = "AUTH"]
  <2>1. cl \in Clients /\ cl.state = "AUTH" /\ cl.rejoin = FALSE /\ cl.persist = client[s].persist
    BY <1>1, <1>4 DEF Good, Clients, OnNetMsgClientVer
  <2>2. At(s, conn[s], cl, player[s], identity[s])
    BY <1>4 DEF OnNetMsgClientVer, ClientBecomes
  <2> HIDE DEF cl
  <2> QED BY <1>1, <1>3, <2>1, <2>2 DEF Good, HasPlayer, AtLeastReady
<1>5. CASE OnNetMsgReady(s)
  <2> DEFINE cl == [client[s] EXCEPT !.state = "READY", !.persist = None]
  <2>1. cl \in Clients /\ cl.state = "READY" /\ cl.rejoin = client[s].rejoin /\ cl.persist = None
    BY <1>1 DEF Good, Clients
  <2>2. CASE client[s].rejoin
    <3>1. At(s, conn[s], cl, player[s], identity[s])
      BY <1>5, <2>2 DEF OnNetMsgReady, ClientBecomes
    <3>2. HasPlayer(client[s])
      BY <2>2 DEF HasPlayer
    <3> HIDE DEF cl
    <3> QED BY <1>1, <1>3, <2>1, <3>1, <3>2 DEF Good
  <2>3. CASE ~ client[s].rejoin
    <3>1. At(s, conn[s], cl, NewPlayer(conn[s].addr), conn[s].addr)
      BY <1>5, <2>3 DEF OnNetMsgReady
    <3>2. NewPlayer(conn[s].addr) \in Players /\ NewPlayer(conn[s].addr).owner = conn[s].addr
          /\ NewPlayer(conn[s].addr) # None
      BY <1>2, NewPlayerType, PlayerIsNotNone
    <3> HIDE DEF cl
    <3> QED BY <1>2, <1>3, <2>1, <3>1, <3>2 DEF Good
  <2> QED BY <2>2, <2>3
<1>6. CASE OnStartInfo(s)
  <2> DEFINE p == [player[s] EXCEPT !.ready = TRUE]
  <2>1. player[s] # None /\ AtLeastReady(client[s]) /\ At(s, conn[s], client[s], p, identity[s])
    BY <1>6 DEF OnStartInfo
  <2>2. p \in Players /\ p.owner = player[s].owner
    BY <1>1, <2>1 DEF Good, Players
  <2>3. p # None
    BY <2>2, PlayerIsNotNone
  <2> HIDE DEF p
  <2> QED BY <1>1, <1>3, <2>1, <2>2, <2>3 DEF Good, AtLeastReady
<1>7. CASE OnNetMsgEnterGame(s)
  <2> DEFINE cl == [client[s] EXCEPT !.state = "INGAME", !.rejoin = FALSE]
  <2>1. cl \in Clients /\ cl.state = "INGAME" /\ cl.rejoin = FALSE /\ cl.persist = client[s].persist
    BY <1>1 DEF Good, Clients
  <2>2. At(s, conn[s], cl, player[s], identity[s]) /\ HasPlayer(client[s])
    BY <1>7 DEF OnNetMsgEnterGame, ClientBecomes, HasPlayer, AtLeastReady
  <2> HIDE DEF cl
  <2> QED BY <1>1, <1>3, <2>1, <2>2 DEF Good
<1> QED BY <1>4, <1>5, <1>6, <1>7

LEMMA InfoKeeps ==
  ASSUME IInv, NEW s \in Slots, NEW good \in BOOLEAN, NEW reservedAuth \in BOOLEAN,
         OnNetMsgInfo(s, good, reservedAuth)
  PROVE  IInv'
<1> DEFINE cl == [client[s] EXCEPT !.state = "CONNECTING"]
<1>1. Good(conn[s], client[s], player[s], identity[s]) /\ FromClient(s)
      /\ conn[s].state = "ONLINE" /\ client[s].state \in {"PREAUTH", "AUTH"}
  BY SlotFacts DEF OnNetMsgInfo, FromClient
<1>2. CASE ClientBecomes(s, cl)
  <2>1. cl \in Clients /\ cl.state = "CONNECTING" /\ cl.rejoin = FALSE /\ cl.persist = client[s].persist
    BY <1>1 DEF Good, Clients
  <2>2. At(s, conn[s], cl, player[s], identity[s])
    BY <1>2 DEF ClientBecomes
  <2> HIDE DEF cl
  <2>3. Good(conn[s], cl, player[s], identity[s])
    BY <1>1, <2>1 DEF Good, HasPlayer, AtLeastReady
  <2> QED BY <1>1, <2>2, <2>3, OnlineKeeps
<1>3. CASE Drop(s)
  BY <1>3, DropKeeps
<1> QED BY <1>2, <1>3 DEF OnNetMsgInfo

LEMMA CloseKeeps ==
  ASSUME IInv, NEW s \in Slots, RecvClose(s)
  PROVE  IInv'
<1> DEFINE c == [conn[s] EXCEPT !.state = "ERROR"]
<1>1. Good(conn[s], client[s], player[s], identity[s]) /\ conn[s].state = "ONLINE"
  BY SlotFacts DEF RecvClose, FromClient
<1>2. c \in Conns /\ c.state = "ERROR" /\ c.addr = conn[s].addr
      /\ c.situation = conn[s].situation /\ c.protected = conn[s].protected
  BY <1>1 DEF Good, Conns
<1>3. At(s, c, client[s], player[s], identity[s])
  BY IInvBySlot DEF At, SlotFunctions, RecvClose
<1> HIDE DEF c
<1>4. Good(c, client[s], player[s], identity[s])
  BY <1>1, <1>2 DEF Good
<1> QED BY <1>2, <1>3, <1>4, AtKeeps

\* A takeover: slot s goes on with the address of o, and o is free.
LEMMA TakeoverKeeps ==
  ASSUME IInv, NEW o \in Slots, NEW s \in Slots \ {o}, FromClient(o),
         player[s] # None, conn[s].state = "ERROR", SetTimedOut(s, o)
  PROVE  IInv'
<1> DEFINE c == [conn[s] EXCEPT !.state = "ONLINE", !.addr = conn[o].addr, !.token = conn[o].token]
           p == [player[s] EXCEPT !.owner = conn[o].addr]
<1>1. Good(conn[s], client[s], player[s], identity[s])
  BY SlotFacts
<1>2. Good(conn[o], client[o], player[o], identity[o]) /\ conn[o].state = "ONLINE"
      /\ conn[o].addr \in Addrs
  BY SlotFacts DEF Good, Conns, FromClient
<1>3. SlotFunctions /\ OneSlotPerAddress /\ AllGood
  BY IInvBySlot
<1>4. /\ conn' = [conn EXCEPT ![s] = c, ![o] = Reset]
      /\ client' = [client EXCEPT ![o] = EmptyClient]
      /\ player' = [player EXCEPT ![s] = p, ![o] = DroppedPlayer(o)]
      /\ identity' = [identity EXCEPT ![o] = DroppedIdentity(o)]
      /\ reloads' = reloads
  BY DEF SetTimedOut
<1>5. c \in Conns /\ c.state = "ONLINE" /\ c.addr = conn[o].addr
      /\ c.situation = conn[s].situation /\ c.protected = conn[s].protected
  BY <1>1, <1>2 DEF Good, Conns
<1>6. p \in Players /\ p.owner = conn[o].addr
  BY <1>1, <1>2 DEF Good, Players
<1>7. p # None
  BY <1>6, PlayerIsNotNone
<1> HIDE DEF c, p
<1>8. Good(c, client[s], p, identity[s])
  BY <1>1, <1>2, <1>5, <1>6, <1>7, SlotsAssumption DEF Good
<1>9. Good(Reset, EmptyClient, DroppedPlayer(o), DroppedIdentity(o))
  BY DroppedTypes, ResetGood
<1>10. /\ conn'[s] = c /\ client'[s] = client[s] /\ player'[s] = p /\ identity'[s] = identity[s]
       /\ conn'[o] = Reset /\ client'[o] = EmptyClient /\ player'[o] = DroppedPlayer(o)
       /\ identity'[o] = DroppedIdentity(o)
       /\ \A t \in Slots \ {s, o} : conn'[t] = conn[t] /\ client'[t] = client[t]
                                    /\ player'[t] = player[t] /\ identity'[t] = identity[t]
  BY <1>3, <1>4 DEF SlotFunctions
<1>11. SlotFunctions'
  BY <1>3, <1>4 DEF SlotFunctions
<1>12. AllGood'
  BY <1>3, <1>8, <1>9, <1>10 DEF AllGood, GoodSlot
<1>13. OneSlotPerAddress'
  BY <1>2, <1>3, <1>5, <1>10 DEF OneSlotPerAddress, Reset
<1> QED BY <1>11, <1>12, <1>13, IInvBySlotNext

LEMMA ResumableMin ==
  ASSUME NEW o \in Slots, NEW code, Resumable(o, code) # {}
  PROVE  LET s == Min(Resumable(o, code))
         IN  s \in Slots \ {o} /\ player[s] # None /\ conn[s].state = "ERROR"
<1>1. Min(Resumable(o, code)) \in Resumable(o, code)
  BY MinIn, SlotsAreNat DEF Resumable
<1> QED BY <1>1 DEF Resumable

LEMMA TimeoutKeeps ==
  ASSUME IInv, NEW o \in Slots, NEW arg \in Codes \cup {NoCode}, ConTimeout(o, arg)
  PROVE  IInv'
<1> DEFINE code == IF arg = NoCode THEN player[o].code ELSE arg
           s == Min(Resumable(o, code))
<1>1. CASE Resumable(o, code) # {}
  <2>1. SetTimedOut(s, o) /\ FromClient(o)
    BY <1>1 DEF ConTimeout
  <2>2. s \in Slots \ {o} /\ player[s] # None /\ conn[s].state = "ERROR"
    BY <1>1, ResumableMin
  <2> HIDE DEF s
  <2> QED BY <2>1, <2>2, TakeoverKeeps
<1>2. CASE Resumable(o, code) = {}
  <2> DEFINE c == [conn[o] EXCEPT !.protected = TRUE]
             p == [player[o] EXCEPT !.code = arg]
  <2>1. At(o, c, client[o], p, identity[o]) /\ FromClient(o) /\ player[o] # None
        /\ client[o].state = "INGAME" /\ conn[o].state = "ONLINE"
    BY <1>2 DEF ConTimeout, FromClient
  <2>2. Good(conn[o], client[o], player[o], identity[o])
    BY SlotFacts
  <2>3. c \in Conns /\ c.state = "ONLINE" /\ c.addr = conn[o].addr /\ c.protected
    BY <2>1, <2>2 DEF Good, Conns
  <2>4. p \in Players /\ p.owner = player[o].owner
    BY <2>1, <2>2 DEF Good, Players
  <2>5. p # None
    BY <2>4, PlayerIsNotNone
  <2> HIDE DEF c, p
  <2>6. Good(c, client[o], p, identity[o])
    BY <2>1, <2>2, <2>3, <2>4, <2>5 DEF Good
  <2> QED BY <2>1, <2>3, <2>6, OnlineKeeps
<1> QED BY <1>1, <1>2

LEMMA UpdatedConn ==
  ASSUME NEW c \in Conns, NEW s, NEW silent, NEW over,
         c.situation => c.protected /\ c.state # "OFFLINE"
  PROVE  LET u == Updated(c, s \in silent, s \in over)
         IN  /\ u \in Conns
             /\ u.addr = c.addr /\ u.protected = c.protected
             /\ u.state = "OFFLINE" <=> c.state = "OFFLINE"
             /\ u.state = "ONLINE" => c.state = "ONLINE"
             /\ u.situation => c.state = "ONLINE" \/ c.situation
             /\ u.situation /\ ~ (u.state = "ERROR" /\ ~ Waiting(u)) => u.protected /\ u.state # "OFFLINE"
<1>1. CASE c.state = "ONLINE" /\ s \in silent
  BY <1>1 DEF Updated, Conns, Waiting
<1>2. CASE c.state = "ONLINE" /\ s \notin silent
  BY <1>2 DEF Updated, Conns
<1>3. CASE c.state # "ONLINE" /\ c.state = "ERROR" /\ c.situation /\ s \in over
  BY <1>3 DEF Updated, Conns
<1>4. CASE c.state # "ONLINE" /\ ~ (c.state = "ERROR" /\ c.situation /\ s \in over)
  BY <1>4 DEF Updated, Conns
<1> QED BY <1>1, <1>2, <1>3, <1>4

LEMMA UpdateKeeps ==
  ASSUME IInv, NEW silent, NEW over, NetUpdate(silent, over)
  PROVE  IInv'
<1> DEFINE u(s) == Updated(conn[s], s \in silent, s \in over)
           drop(s) == u(s).state = "ERROR" /\ ~ Waiting(u(s))
<1>1. /\ conn' = [s \in Slots |-> IF drop(s) THEN Reset ELSE u(s)]
      /\ client' = [s \in Slots |-> IF drop(s) THEN EmptyClient ELSE client[s]]
      /\ player' = [s \in Slots |-> IF drop(s) THEN DroppedPlayer(s) ELSE player[s]]
      /\ identity' = [s \in Slots |-> IF drop(s) THEN DroppedIdentity(s) ELSE identity[s]]
      /\ reloads' = reloads
  BY DEF NetUpdate
<1>2. SlotFunctions /\ OneSlotPerAddress /\ AllGood
  BY IInvBySlot
<1>3. SlotFunctions'
  BY <1>1, <1>2 DEF SlotFunctions
<1>4. ASSUME NEW s \in Slots
      PROVE  /\ u(s) \in Conns
             /\ u(s).addr = conn[s].addr
             /\ u(s).state = "OFFLINE" <=> conn[s].state = "OFFLINE"
             /\ u(s).state = "ONLINE" => conn[s].state = "ONLINE"
             /\ u(s).situation /\ ~ drop(s) => u(s).protected /\ u(s).state # "OFFLINE"
  <2>1. conn[s] \in Conns /\ (conn[s].situation => conn[s].protected /\ conn[s].state # "OFFLINE")
    BY SlotFacts DEF Good
  <2> QED BY <2>1, UpdatedConn
<1>5. ASSUME NEW s \in Slots PROVE GoodSlot(s)'
  <2>1. CASE drop(s)
    BY <2>1, <1>1, DroppedTypes, ResetGood DEF GoodSlot
  <2>2. CASE ~ drop(s)
    <3>1. GoodSlot(s)' = Good(u(s), client[s], player[s], identity[s])
      BY <2>2, <1>1 DEF GoodSlot
    <3> HIDE DEF u, drop
    <3> QED BY <3>1, <2>2, <1>4, SlotFacts DEF Good
  <2> QED BY <2>1, <2>2
<1>6. \A s \in Slots : conn'[s].state = "ONLINE" =>
        conn[s].state = "ONLINE" /\ conn'[s].addr = conn[s].addr
  BY <1>1, <1>4 DEF Reset
<1>7. OneSlotPerAddress'
  BY <1>2, <1>6 DEF OneSlotPerAddress
<1> QED BY <1>3, <1>5, <1>7, IInvBySlotNext DEF AllGood

LEMMA ReloadKeeps ==
  ASSUME IInv, MapReload
  PROVE  IInv'
<1>1. SlotFunctions /\ OneSlotPerAddress /\ AllGood
  BY IInvBySlot
<1>2. SlotFunctions'
  BY <1>1, SlotsAssumption DEF SlotFunctions, MapReload
<1>3. OneSlotPerAddress'
  BY <1>1 DEF OneSlotPerAddress, MapReload
<1>4. ASSUME NEW s \in Slots PROVE GoodSlot(s)'
  <2> DEFINE r == Reloaded(client[s], player[s])
  <2>1. Good(conn[s], client[s], player[s], identity[s])
    BY SlotFacts
  <2>2. IsKnownToGame(client[s]) => player[s] # None /\ player[s] \in Players
                                    /\ player[s].owner = conn[s].addr
    BY <2>1 DEF Good, IsKnownToGame, HasPlayer, AtLeastReady
  <2>3. CASE client[s].state \in {"EMPTY", "PREAUTH", "AUTH"}
    <3>1. ~ IsKnownToGame(client[s])
      BY <2>1, <2>3 DEF Good, IsKnownToGame
    <3>2. r = client[s]
      BY <2>1, <2>3, <3>1 DEF Reloaded, Good, Clients
    <3>3. Good(conn[s], client[s], None, None)
      BY <2>1, <2>3 DEF Good, HasPlayer, AtLeastReady
    <3> QED BY <3>2, <3>3 DEF GoodSlot, MapReload
  <2>4. CASE client[s].state \notin {"EMPTY", "PREAUTH", "AUTH"}
    <3>1. r \in Clients /\ r.state = "CONNECTING" /\ r.rejoin = FALSE
          /\ (r.persist # None => r.persist = conn[s].addr)
      <4>1. CASE IsKnownToGame(client[s])
        <5>1. r = [state |-> "CONNECTING", rejoin |-> FALSE, persist |-> player[s].owner]
          BY <2>2, <2>4, <4>1 DEF Reloaded
        <5>2. player[s].owner \in Addrs /\ player[s].owner = conn[s].addr
          BY <2>2, <4>1 DEF Players
        <5> QED BY <5>1, <5>2 DEF Clients
      <4>2. CASE ~ IsKnownToGame(client[s])
        <5>1. r = [state |-> "CONNECTING", rejoin |-> FALSE, persist |-> client[s].persist]
          BY <2>4, <4>2 DEF Reloaded
        <5> QED BY <5>1, <2>1 DEF Good, Clients
      <4> QED BY <4>1, <4>2
    <3>2. Good(conn[s], r, None, None)
      <4> HIDE DEF r
      <4> QED BY <2>1, <2>4, <3>1 DEF Good, HasPlayer, AtLeastReady
    <3> QED BY <3>2 DEF GoodSlot, MapReload
  <2> QED BY <2>3, <2>4
<1> QED BY <1>2, <1>3, <1>4, IInvBySlotNext DEF AllGood

LEMMA NextKeeps == IInv /\ [Next]_vars => IInv'
<1> SUFFICES ASSUME IInv, [Next]_vars PROVE IInv'
  OBVIOUS
<1>1. ASSUME NEW a \in Addrs, AcceptToken(a) \/ AcceptVanilla(a) \/ AcceptVanillaInput(a)
      PROVE  IInv'
  BY <1>1, AcceptKeeps DEF AcceptToken, AcceptVanilla, AcceptVanillaInput
<1>2. ASSUME NEW a \in Addrs, VanillaReconnect(a) PROVE IInv'
  BY <1>2, ReconnectKeeps
<1>3. ASSUME NEW s \in Slots, Kick(s) PROVE IInv'
  BY <1>3, DropKeeps DEF Kick
<1>4. CASE UNCHANGED vars
  BY <1>4 DEF vars, IInv, SlotsConsistent, SlotBelongs, TypeOK, SlotsAgree, OneSlotPerAddress,
     PlayerBehindClient, PersistBelongs, ClientShape, PersistAlone, SituationProtected
<1> QED BY <1>1, <1>2, <1>3, <1>4, MessageKeeps, InfoKeeps, TimeoutKeeps, CloseKeeps,
      UpdateKeeps, ReloadKeeps DEF Next

(* The network's slots, the server's clients and the addresses agree       *)
(* however slots are freed, resumed and taken again (CNetServer::Drop,     *)
(* DelClientCallback, CServer::SetTimedOut).                               *)
THEOREM SlotsAlwaysConsistent == Spec => []SlotsConsistent
<1>1. IInv => SlotsConsistent
  BY DEF IInv
<1> QED BY <1>1, InitKeeps, NextKeeps, PTL DEF Spec

(* The player of a READY, INGAME or rejoining client is there and is the   *)
(* one of the connection in the slot, and what was persisted over a map    *)
(* reload stays with the client it was taken from.                         *)
THEOREM SlotAlwaysBelongs == Spec => []SlotBelongs
<1>1. IInv => SlotBelongs
  BY DEF IInv
<1> QED BY <1>1, InitKeeps, NextKeeps, PTL DEF Spec

-----------------------------------------------------------------------------
(* sv_max_clients_per_ip.                                                  *)
Counted(c) == c.state = "ONLINE" \/ c.situation

Busy(ip) == {s \in Slots : Counted(conn[s]) /\ Ip[conn[s].addr] = ip}

(* The steps in which no host gains a slot.                                *)
NoneGains ==
  \A s \in Slots : Counted(conn'[s]) => Counted(conn[s]) /\ conn'[s].addr = conn[s].addr

(* A client accepted under the limit.                                      *)
Gains(s, a) ==
  /\ NumClientsWithAddr(a) + 1 <= MaxClientsPerIp
  /\ conn'[s].addr = a
  /\ \A t \in Slots \ {s} : conn'[t] = conn[t]

(* A takeover moves the slot of o to s.                                    *)
Moves(s, o) ==
  /\ s # o /\ conn[o].state = "ONLINE"
  /\ conn'[s].addr = conn[o].addr /\ conn'[o] = Reset
  /\ \A t \in Slots \ {s, o} : conn'[t] = conn[t]

LEMMA SlotsFinite ==
  ASSUME NEW S \in SUBSET Slots
  PROVE  IsFiniteSet(S) /\ Cardinality(S) \in Nat
<1>1. MaxClients - 1 \in Int /\ 0 \in Int
  BY SlotsAssumption
<1>2. IsFiniteSet(Slots)
  BY <1>1, FS_Interval DEF Slots
<1>3. IsFiniteSet(S)
  BY <1>2, FS_Subset
<1> QED BY <1>3, FS_CardinalityType

LEMMA OneMore ==
  ASSUME NEW S, IsFiniteSet(S), NEW x
  PROVE  /\ IsFiniteSet(S \cup {x})
         /\ Cardinality(S \cup {x}) <= Cardinality(S) + 1
<1>1. Cardinality(S) \in Nat
  BY FS_CardinalityType
<1>2. IsFiniteSet(S \cup {x})
      /\ Cardinality(S \cup {x}) = IF x \in S THEN Cardinality(S) ELSE Cardinality(S) + 1
  BY FS_AddElement
<1> QED BY <1>1, <1>2

LEMMA AtNoneGains ==
  ASSUME IInv, NEW s \in Slots, NEW c, NEW cl, NEW p, NEW i, At(s, c, cl, p, i),
         Counted(c) => Counted(conn[s]) /\ c.addr = conn[s].addr
  PROVE  NoneGains
BY IInvBySlot DEF SlotFunctions, At, NoneGains

LEMMA AcceptGains ==
  ASSUME IInv, NEW a \in Addrs, NEW token, NEW vanillaAuth, TryAcceptClient(a, token, vanillaAuth)
  PROVE  NoneGains \/ \E s \in Slots : Gains(s, a)
<1>1. DirectInit(a, token).addr = a
  BY DEF DirectInit, Reset
<1>2. CASE SlotsOf(a) # {}
  <2> DEFINE s == Min(SlotsOf(a))
  <2>1. s \in SlotsOf(a)
    BY <1>2, MinIn, SlotsAreNat DEF SlotsOf
  <2>2. s \in Slots /\ conn[s].state = "ONLINE" /\ conn[s].addr = a
    BY <2>1 DEF SlotsOf
  <2>3. ClientRejoin(s, a, token, vanillaAuth)
    BY <1>2 DEF TryAcceptClient
  <2> HIDE DEF s
  <2>4. \E cl, p, i : At(s, DirectInit(a, token), cl, p, i)
    BY <2>3 DEF ClientRejoin
  <2> QED BY <1>1, <2>2, <2>4, AtNoneGains DEF Counted
<1>3. CASE SlotsOf(a) = {}
  <2> DEFINE s == Min(FreeSlots)
  <2>1. s \in Slots
    BY <1>3, MinIn, SlotsAreNat DEF FreeSlots, TryAcceptClient
  <2>2. conn' = [conn EXCEPT ![s] = DirectInit(a, token)] /\ NumClientsWithAddr(a) + 1 <= MaxClientsPerIp
    BY <1>3 DEF TryAcceptClient, At
  <2> HIDE DEF s
  <2>3. Gains(s, a)
    BY <1>1, <2>1, <2>2, IInvBySlot DEF SlotFunctions, Gains
  <2> QED BY <2>1, <2>3
<1> QED BY <1>2, <1>3

LEMMA DropNoneGains ==
  ASSUME IInv, NEW s \in Slots, Drop(s)
  PROVE  NoneGains
BY AtNoneGains DEF Drop, Reset, Counted

LEMMA NextGains ==
  ASSUME IInv, Next
  PROVE  \/ NoneGains
         \/ \E s \in Slots, a \in Addrs : Gains(s, a)
         \/ \E s, o \in Slots : Moves(s, o)
<1>1. ASSUME NEW a \in Addrs, AcceptToken(a) \/ AcceptVanilla(a) \/ AcceptVanillaInput(a)
      PROVE  NoneGains \/ \E s \in Slots : Gains(s, a)
  BY <1>1, AcceptGains DEF AcceptToken, AcceptVanilla, AcceptVanillaInput
<1>2. ASSUME NEW a \in Addrs, VanillaReconnect(a) PROVE NoneGains
  <2>1. conn \in [Slots -> Conns]
    BY DEF IInv, SlotsConsistent, TypeOK, Conns
  <2> QED BY <1>2, <2>1 DEF VanillaReconnect, NoneGains, Counted, Conns
<1>3. ASSUME NEW s \in Slots,
             OnNetMsgClientVer(s) \/ OnNetMsgReady(s) \/ OnStartInfo(s) \/ OnNetMsgEnterGame(s)
      PROVE  NoneGains
  <2>1. \E cl, p, i : At(s, conn[s], cl, p, i)
    BY <1>3 DEF OnNetMsgClientVer, OnNetMsgReady, OnStartInfo, OnNetMsgEnterGame, ClientBecomes
  <2> QED BY <2>1, AtNoneGains
<1>4. ASSUME NEW s \in Slots, NEW good, NEW reservedAuth, OnNetMsgInfo(s, good, reservedAuth)
      PROVE  NoneGains
  <2>1. Drop(s) \/ \E cl, p, i : At(s, conn[s], cl, p, i)
    BY <1>4 DEF OnNetMsgInfo, ClientBecomes
  <2> QED BY <2>1, AtNoneGains, DropNoneGains
<1>5. ASSUME NEW o \in Slots, NEW arg, ConTimeout(o, arg)
      PROVE  NoneGains \/ \E s \in Slots : Moves(s, o)
  <2> DEFINE code == IF arg = NoCode THEN player[o].code ELSE arg
             s == Min(Resumable(o, code))
  <2>1. CASE Resumable(o, code) # {}
    <3>1. s \in Slots \ {o} /\ SetTimedOut(s, o) /\ conn[o].state = "ONLINE"
      BY <1>5, <2>1, ResumableMin DEF ConTimeout, FromClient
    <3> HIDE DEF s
    <3>2. conn[s] \in Conns /\ DOMAIN conn = Slots
      BY <3>1 DEF IInv, SlotsConsistent, TypeOK, Conns
    <3>3. Moves(s, o)
      BY <3>1, <3>2 DEF SetTimedOut, Moves, Conns
    <3> QED BY <3>1, <3>3
  <2>2. CASE Resumable(o, code) = {}
    <3> DEFINE c == [conn[o] EXCEPT !.protected = TRUE]
    <3>1. conn[o] \in Conns
      BY DEF IInv, SlotsConsistent, TypeOK, Conns
    <3>2. c.addr = conn[o].addr /\ conn[o].state = "ONLINE"
      BY <1>5, <3>1 DEF Conns, ConTimeout, FromClient
    <3>3. \E cl, p, i : At(o, c, cl, p, i)
      BY <1>5, <2>2 DEF ConTimeout
    <3> QED BY <3>2, <3>3, AtNoneGains DEF Counted
  <2> QED BY <2>1, <2>2
<1>6. ASSUME NEW s \in Slots, RecvClose(s) PROVE NoneGains
  <2>1. conn \in [Slots -> Conns]
    BY DEF IInv, SlotsConsistent, TypeOK, Conns
  <2> QED BY <1>6, <2>1 DEF RecvClose, FromClient, NoneGains, Counted, Conns
<1>7. ASSUME NEW s \in Slots, Kick(s) PROVE NoneGains
  BY <1>7, DropNoneGains DEF Kick
<1>8. ASSUME NEW silent, NEW over, NetUpdate(silent, over) PROVE NoneGains
  <2> SUFFICES ASSUME NEW s \in Slots, Counted(conn'[s])
               PROVE  Counted(conn[s]) /\ conn'[s].addr = conn[s].addr
    BY DEF NoneGains
  <2> DEFINE u == Updated(conn[s], s \in silent, s \in over)
  <2>1. conn'[s] \in {Reset, u}
    BY <1>8 DEF NetUpdate
  <2>2. conn'[s] = u
    BY <2>1 DEF Counted, Reset
  <2>3. conn[s] \in Conns /\ (conn[s].situation => conn[s].protected /\ conn[s].state # "OFFLINE")
    BY SlotFacts DEF Good
  <2> QED BY <2>2, <2>3, UpdatedConn DEF Counted
<1>9. MapReload => NoneGains
  BY DEF MapReload, NoneGains
<1> QED BY <1>1, <1>2, <1>3, <1>4, <1>5, <1>6, <1>7, <1>8, <1>9 DEF Next

LEMMA LimitKept ==
  ASSUME IInv, PerIpLimit, [Next]_vars
  PROVE  PerIpLimit'
<1> SUFFICES ASSUME NEW ip \in Range(Ip) PROVE Cardinality(Busy(ip)') <= MaxClientsPerIp
  BY DEF PerIpLimit, Busy, Counted
<1>1. /\ IsFiniteSet(Busy(ip)) /\ Cardinality(Busy(ip)) \in Nat
      /\ Cardinality(Busy(ip)) <= MaxClientsPerIp
      /\ IsFiniteSet(Busy(ip)') /\ Cardinality(Busy(ip)') \in Nat
      /\ MaxClientsPerIp \in Nat
  BY SlotsFinite, SlotsAssumption DEF Busy, PerIpLimit, Counted
<1>2. CASE Busy(ip)' \subseteq Busy(ip)
  BY <1>1, <1>2, FS_Subset
<1>3. CASE NoneGains
  BY <1>2, <1>3 DEF NoneGains, Busy
<1>4. ASSUME NEW s \in Slots, NEW a \in Addrs, Gains(s, a)
      PROVE  Cardinality(Busy(ip)') <= MaxClientsPerIp
  <2>1. CASE Ip[a] # ip
    BY <1>2, <1>4, <2>1 DEF Gains, Busy
  <2>2. CASE Ip[a] = ip
    <3>1. \A t \in Slots : Counted(conn[t]) <=> conn[t].state = "ONLINE" \/ Waiting(conn[t])
      BY SlotFacts DEF Good, Conns, Counted, Waiting
    <3>2. Busy(ip) = {t \in Slots : /\ conn[t].state = "ONLINE" \/ Waiting(conn[t])
                                    /\ Ip[conn[t].addr] = Ip[a]}
      BY <2>2, <3>1 DEF Busy
    <3>3. Cardinality(Busy(ip)) + 1 <= MaxClientsPerIp
      BY <1>4, <3>2 DEF Gains, NumClientsWithAddr
    <3>4. Busy(ip)' \subseteq Busy(ip) \cup {s}
      BY <1>4 DEF Gains, Busy
    <3>5. IsFiniteSet(Busy(ip) \cup {s}) /\ Cardinality(Busy(ip) \cup {s}) <= Cardinality(Busy(ip)) + 1
      BY <1>1, OneMore
    <3>6. Cardinality(Busy(ip)') <= Cardinality(Busy(ip) \cup {s})
          /\ Cardinality(Busy(ip) \cup {s}) \in Nat
      BY <3>4, <3>5, FS_Subset, FS_CardinalityType
    <3> QED BY <1>1, <3>3, <3>5, <3>6
  <2> QED BY <2>1, <2>2
<1>5. ASSUME NEW s \in Slots, NEW o \in Slots, Moves(s, o)
      PROVE  Cardinality(Busy(ip)') <= MaxClientsPerIp
  <2>1. CASE Ip[conn[o].addr] # ip
    BY <1>2, <1>5, <2>1 DEF Moves, Busy, Counted, Reset
  <2>2. CASE Ip[conn[o].addr] = ip
    <3>1. o \in Busy(ip)
      BY <1>5, <2>2 DEF Moves, Busy, Counted
    <3> DEFINE R == Busy(ip) \ {o}
    <3>2. IsFiniteSet(R) /\ Cardinality(R) = Cardinality(Busy(ip)) - 1
      BY <1>1, <3>1, FS_RemoveElement
    <3>3. Busy(ip)' \subseteq R \cup {s}
      BY <1>5 DEF Moves, Busy, Counted, Reset
    <3> HIDE DEF R
    <3>4. IsFiniteSet(R \cup {s}) /\ Cardinality(R \cup {s}) <= Cardinality(R) + 1
      BY <3>2, OneMore
    <3>5. Cardinality(Busy(ip)') <= Cardinality(R \cup {s}) /\ Cardinality(R \cup {s}) \in Nat
      BY <3>3, <3>4, FS_Subset, FS_CardinalityType
    <3> QED BY <1>1, <3>2, <3>4, <3>5
  <2> QED BY <2>1, <2>2
<1>6. CASE UNCHANGED vars
  BY <1>2, <1>6 DEF vars, Busy
<1> QED BY <1>3, <1>4, <1>5, <1>6, NextGains

(* sv_max_clients_per_ip bounds the slots of a host that play or wait for  *)
(* their client, although it is tested only in TryAcceptClient and a       *)
(* takeover moves a slot to another host.                                  *)
THEOREM LimitAlwaysHolds == Spec => []PerIpLimit
<1>1. Init => PerIpLimit
  <2> SUFFICES ASSUME Init, NEW ip \in Range(Ip) PROVE Cardinality(Busy(ip)) <= MaxClientsPerIp
    BY DEF PerIpLimit, Busy, Counted
  <2>1. Busy(ip) = {}
    BY DEF Init, Busy, Counted, Reset
  <2> QED BY <2>1, FS_EmptySet, SlotsAssumption
<1> QED BY <1>1, InitKeeps, NextKeeps, LimitKept, PTL DEF Spec

-----------------------------------------------------------------------------
(* What a step may do to players and identities.                           *)
OwnerKept(s) ==
  player[s] # None /\ player'[s] # None => player'[s].owner = player[s].owner

IdentityOwn(s) ==
  HasPlayer(client'[s]) /\ identity'[s] # conn'[s].addr =>
    HasPlayer(client[s]) /\ identity[s] # conn[s].addr /\ identity'[s] = identity[s]

Same(s) ==
  conn'[s] = conn[s] /\ client'[s] = client[s] /\ player'[s] = player[s] /\ identity'[s] = identity[s]

LEMMA AtOther ==
  ASSUME IInv, NEW s \in Slots, NEW c, NEW cl, NEW p, NEW i, At(s, c, cl, p, i)
  PROVE  /\ conn'[s] = c /\ client'[s] = cl /\ player'[s] = p /\ identity'[s] = i
         /\ \A t \in Slots \ {s} : Same(t)
BY IInvBySlot DEF At, SlotFunctions, Same

LEMMA SameKeeps ==
  ASSUME NEW s, Same(s)
  PROVE  OwnerKept(s) /\ IdentityOwn(s)
BY DEF Same, OwnerKept, IdentityOwn

LEMMA DropOwn ==
  ASSUME IInv, NEW s \in Slots, Drop(s)
  PROVE  \A t \in Slots : OwnerKept(t) /\ IdentityOwn(t)
<1>1. /\ client'[s] = EmptyClient /\ player'[s] = DroppedPlayer(s)
      /\ \A t \in Slots \ {s} : Same(t)
  BY AtOther DEF Drop
<1>2. OwnerKept(s)
  BY <1>1 DEF OwnerKept, DroppedPlayer
<1>3. IdentityOwn(s)
  BY <1>1 DEF IdentityOwn, EmptyClient, HasPlayer, AtLeastReady
<1> QED BY <1>1, <1>2, <1>3, SameKeeps

LEMMA AcceptOwn ==
  ASSUME IInv, NEW a \in Addrs, NEW token, NEW vanillaAuth \in BOOLEAN,
         TryAcceptClient(a, token, vanillaAuth)
  PROVE  \A t \in Slots : OwnerKept(t) /\ IdentityOwn(t)
<1>1. DirectInit(a, token).addr = a
  BY DEF DirectInit, Reset
<1>2. NewClient(vanillaAuth) \in Clients /\ NewClient(vanillaAuth).state \in {"PREAUTH", "CONNECTING"}
      /\ NewClient(vanillaAuth).rejoin = FALSE
  BY DEF NewClient, EmptyClient, Clients
<1>3. CASE SlotsOf(a) # {}
  <2> DEFINE s == Min(SlotsOf(a))
  <2>1. s \in SlotsOf(a)
    BY <1>3, MinIn, SlotsAreNat DEF SlotsOf
  <2>2. s \in Slots /\ conn[s].addr = a
    BY <2>1 DEF SlotsOf
  <2>3. ClientRejoin(s, a, token, vanillaAuth)
    BY <1>3 DEF TryAcceptClient
  <2> HIDE DEF s
  <2>4. CASE IsKnownToGame(client[s])
    <3>1. conn'[s].addr = a /\ player'[s] = player[s] /\ identity'[s] = identity[s]
          /\ \A t \in Slots \ {s} : Same(t)
      BY <1>1, <2>2, <2>3, <2>4, AtOther DEF ClientRejoin
    <3>2. HasPlayer(client[s])
      BY <2>4 DEF IsKnownToGame, HasPlayer, AtLeastReady
    <3> QED BY <2>2, <3>1, <3>2, SameKeeps DEF OwnerKept, IdentityOwn
  <2>5. CASE ~ IsKnownToGame(client[s])
    <3>1. client'[s] = NewClient(vanillaAuth) /\ player'[s] = DroppedPlayer(s)
          /\ \A t \in Slots \ {s} : Same(t)
      BY <2>2, <2>3, <2>5, AtOther DEF ClientRejoin
    <3>2. OwnerKept(s)
      BY <3>1 DEF OwnerKept, DroppedPlayer
    <3>3. IdentityOwn(s)
      BY <3>1, <1>2 DEF IdentityOwn, HasPlayer, AtLeastReady
    <3> QED BY <3>1, <3>2, <3>3, SameKeeps
  <2> QED BY <2>4, <2>5
<1>4. CASE SlotsOf(a) = {}
  <2> DEFINE s == Min(FreeSlots)
             cl == [NewClient(vanillaAuth) EXCEPT !.persist = client[s].persist]
  <2>1. s \in Slots
    BY <1>4, MinIn, SlotsAreNat DEF FreeSlots, TryAcceptClient
  <2>2. At(s, DirectInit(a, token), cl, player[s], identity[s])
    BY <1>4 DEF TryAcceptClient
  <2> HIDE DEF s
  <2>3. cl.state \in {"PREAUTH", "CONNECTING"} /\ cl.rejoin = FALSE
    BY <1>2 DEF Clients
  <2> HIDE DEF cl
  <2>4. client'[s] = cl /\ player'[s] = player[s] /\ \A t \in Slots \ {s} : Same(t)
    BY <2>1, <2>2, AtOther
  <2> QED BY <2>3, <2>4, SameKeeps DEF OwnerKept, IdentityOwn, HasPlayer, AtLeastReady
<1> QED BY <1>3, <1>4

(* Steps other than a READY message and a takeover.                        *)
LEMMA OthersOwn ==
  ASSUME IInv, [Next]_vars,
         \A s \in Slots : ~ OnNetMsgReady(s),
         \A s \in Slots, arg \in Codes \cup {NoCode} : ~ ConTimeout(s, arg)
  PROVE  \A t \in Slots : OwnerKept(t) /\ IdentityOwn(t)
<1> DEFINE Goal == \A t \in Slots : OwnerKept(t) /\ IdentityOwn(t)
<1>1. ASSUME NEW a \in Addrs, AcceptToken(a) \/ AcceptVanilla(a) \/ AcceptVanillaInput(a)
      PROVE  Goal
  BY <1>1, AcceptOwn DEF AcceptToken, AcceptVanilla, AcceptVanillaInput
<1>2. conn \in [Slots -> Conns] /\ client \in [Slots -> Clients]
  BY DEF IInv, SlotsConsistent, TypeOK, Conns, Clients
<1>3. ASSUME NEW a \in Addrs, VanillaReconnect(a) PROVE Goal
  BY <1>2, <1>3 DEF VanillaReconnect, OwnerKept, IdentityOwn, Conns
<1>4. ASSUME NEW s \in Slots, OnNetMsgClientVer(s) PROVE Goal
  <2> DEFINE cl == [client[s] EXCEPT !.state = "AUTH"]
  <2>1. cl.state = "AUTH" /\ cl.rejoin = client[s].rejoin
    BY <1>2 DEF Clients
  <2>2. At(s, conn[s], cl, player[s], identity[s])
    BY <1>4 DEF OnNetMsgClientVer, ClientBecomes
  <2> HIDE DEF cl
  <2> QED BY <2>1, <2>2, AtOther, SameKeeps DEF OwnerKept, IdentityOwn, HasPlayer, AtLeastReady
<1>5. ASSUME NEW s \in Slots, OnStartInfo(s) PROVE Goal
  <2> DEFINE p == [player[s] EXCEPT !.ready = TRUE]
  <2>1. p.owner = player[s].owner
    BY <1>5, SlotFacts DEF Good, Players, OnStartInfo
  <2>2. At(s, conn[s], client[s], p, identity[s])
    BY <1>5 DEF OnStartInfo
  <2> HIDE DEF p
  <2> QED BY <2>1, <2>2, AtOther, SameKeeps DEF OwnerKept, IdentityOwn
<1>6. ASSUME NEW s \in Slots, OnNetMsgEnterGame(s) PROVE Goal
  <2> DEFINE cl == [client[s] EXCEPT !.state = "INGAME", !.rejoin = FALSE]
  <2>1. At(s, conn[s], cl, player[s], identity[s]) /\ HasPlayer(client[s])
    BY <1>6 DEF OnNetMsgEnterGame, ClientBecomes, HasPlayer, AtLeastReady
  <2> HIDE DEF cl
  <2> QED BY <2>1, AtOther, SameKeeps DEF OwnerKept, IdentityOwn
<1>7. ASSUME NEW s \in Slots, NEW good, NEW reservedAuth, OnNetMsgInfo(s, good, reservedAuth)
      PROVE  Goal
  <2> DEFINE cl == [client[s] EXCEPT !.state = "CONNECTING"]
  <2>1. Drop(s) \/ At(s, conn[s], cl, player[s], identity[s])
    BY <1>7 DEF OnNetMsgInfo, ClientBecomes
  <2>2. cl.state = "CONNECTING" /\ cl.rejoin = client[s].rejoin
    BY <1>2 DEF Clients
  <2> HIDE DEF cl
  <2>3. CASE At(s, conn[s], cl, player[s], identity[s])
    BY <2>2, <2>3, AtOther, SameKeeps DEF OwnerKept, IdentityOwn, HasPlayer, AtLeastReady
  <2> QED BY <2>1, <2>3, DropOwn
<1>8. ASSUME NEW s \in Slots, RecvClose(s) PROVE Goal
  BY <1>2, <1>8 DEF RecvClose, OwnerKept, IdentityOwn, Conns
<1>9. ASSUME NEW s \in Slots, Kick(s) PROVE Goal
  BY <1>9, DropOwn DEF Kick
<1>10. ASSUME NEW silent, NEW over, NetUpdate(silent, over) PROVE Goal
  <2> SUFFICES ASSUME NEW s \in Slots PROVE OwnerKept(s) /\ IdentityOwn(s)
    OBVIOUS
  <2> DEFINE u == Updated(conn[s], s \in silent, s \in over)
  <2>1. u.addr = conn[s].addr
    BY SlotFacts, UpdatedConn DEF Good
  <2>2. \/ client'[s] = EmptyClient /\ player'[s] = DroppedPlayer(s)
        \/ conn'[s] = u /\ client'[s] = client[s] /\ player'[s] = player[s] /\ identity'[s] = identity[s]
    BY <1>10 DEF NetUpdate
  <2>3. OwnerKept(s)
    BY <2>2 DEF OwnerKept, DroppedPlayer
  <2>4. IdentityOwn(s)
    <3> HIDE DEF u
    <3> QED BY <2>1, <2>2 DEF IdentityOwn, EmptyClient, HasPlayer, AtLeastReady
  <2> QED BY <2>3, <2>4
<1>11. ASSUME MapReload PROVE Goal
  <2> SUFFICES ASSUME NEW s \in Slots PROVE OwnerKept(s) /\ IdentityOwn(s)
    OBVIOUS
  <2>1. player'[s] = None /\ client'[s] = Reloaded(client[s], player[s])
    BY <1>11 DEF MapReload
  <2>2. ~ HasPlayer(Reloaded(client[s], player[s]))
    <3>1. client[s] \in Clients
          /\ (client[s].rejoin => client[s].state \in {"CONNECTING", "READY"})
      BY SlotFacts DEF Good
    <3>2. CASE client[s].state \in {"EMPTY", "PREAUTH", "AUTH"}
      <4>1. Reloaded(client[s], player[s]).state = client[s].state
            /\ Reloaded(client[s], player[s]).rejoin = client[s].rejoin
        BY <3>1, <3>2 DEF Reloaded, Clients
      <4> QED BY <3>1, <3>2, <4>1 DEF HasPlayer, AtLeastReady
    <3>3. CASE client[s].state \notin {"EMPTY", "PREAUTH", "AUTH"}
      BY <3>3 DEF Reloaded, HasPlayer, AtLeastReady
    <3> QED BY <3>2, <3>3
  <2> QED BY <2>1, <2>2 DEF OwnerKept, IdentityOwn
<1>12. CASE UNCHANGED vars
  BY <1>12, SameKeeps DEF vars, Same
<1> QED BY <1>1, <1>3, <1>4, <1>5, <1>6, <1>7, <1>8, <1>9, <1>10, <1>11, <1>12 DEF Next

LEMMA ReadyOwn ==
  ASSUME IInv, NEW s \in Slots, OnNetMsgReady(s)
  PROVE  /\ \A t \in Slots : IdentityOwn(t)
         /\ \A t \in Slots : OwnerKept(t) \/ (client[t].state = "CONNECTING" /\ ~ client[t].rejoin)
<1> DEFINE cl == [client[s] EXCEPT !.state = "READY", !.persist = None]
<1>1. client[s].state = "CONNECTING"
  BY DEF OnNetMsgReady
<1>2. CASE client[s].rejoin
  <2>1. At(s, conn[s], cl, player[s], identity[s]) /\ HasPlayer(client[s])
    BY <1>2 DEF OnNetMsgReady, ClientBecomes, HasPlayer
  <2> HIDE DEF cl
  <2> QED BY <2>1, AtOther, SameKeeps DEF OwnerKept, IdentityOwn
<1>3. CASE ~ client[s].rejoin
  <2>1. At(s, conn[s], cl, NewPlayer(conn[s].addr), conn[s].addr)
    BY <1>3 DEF OnNetMsgReady
  <2> HIDE DEF cl
  <2> QED BY <1>1, <1>3, <2>1, AtOther, SameKeeps DEF OwnerKept, IdentityOwn
<1> QED BY <1>2, <1>3

LEMMA TakeoverOwn ==
  ASSUME IInv, NEW o \in Slots, NEW s \in Slots \ {o}, FromClient(o),
         player[s] # None, conn[s].state = "ERROR", SetTimedOut(s, o)
  PROVE  /\ OwnerKept(o) /\ IdentityOwn(o)
         /\ \A t \in Slots \ {s, o} : Same(t)
         /\ conn'[s].state = "ONLINE"
         /\ player'[s].owner = conn[o].addr
         /\ client'[o].state = "EMPTY"
<1>1. SlotFunctions /\ conn[s] \in Conns /\ player[s] \in Players
  BY IInvBySlot, SlotFacts DEF Good
<1>2. /\ conn'[s].state = "ONLINE" /\ player'[s].owner = conn[o].addr
      /\ client'[o] = EmptyClient /\ player'[o] = DroppedPlayer(o)
  BY <1>1 DEF SlotFunctions, SetTimedOut, Conns, Players
<1>3. \A t \in Slots \ {s, o} : Same(t)
  BY <1>1 DEF SlotFunctions, SetTimedOut, Same
<1>4. OwnerKept(o)
  BY <1>2 DEF OwnerKept, DroppedPlayer
<1>5. IdentityOwn(o)
  BY <1>2 DEF IdentityOwn, EmptyClient, HasPlayer, AtLeastReady
<1> QED BY <1>2, <1>3, <1>4, <1>5 DEF EmptyClient

LEMMA TimeoutOwn ==
  ASSUME IInv, NEW o \in Slots, NEW arg \in Codes \cup {NoCode}, ConTimeout(o, arg)
  PROVE  \/ \A t \in Slots : OwnerKept(t) /\ IdentityOwn(t)
         \/ \E s \in Slots \ {o} :
              /\ \A t \in Slots \ {s} : OwnerKept(t) /\ IdentityOwn(t)
              /\ conn[s].state = "ERROR" /\ conn'[s].state = "ONLINE"
              /\ player'[s].owner = conn[o].addr
              /\ client[o].state = "INGAME" /\ client'[o].state = "EMPTY"
<1> DEFINE code == IF arg = NoCode THEN player[o].code ELSE arg
           s == Min(Resumable(o, code))
<1>1. CASE Resumable(o, code) # {}
  <2>1. SetTimedOut(s, o) /\ FromClient(o) /\ client[o].state = "INGAME"
    BY <1>1 DEF ConTimeout
  <2>2. s \in Slots \ {o} /\ player[s] # None /\ conn[s].state = "ERROR"
    BY <1>1, ResumableMin
  <2> HIDE DEF s
  <2>3. \A t \in Slots \ {s} : OwnerKept(t) /\ IdentityOwn(t)
    BY <2>1, <2>2, TakeoverOwn, SameKeeps
  <2> QED BY <2>1, <2>2, <2>3, TakeoverOwn
<1>2. CASE Resumable(o, code) = {}
  <2> DEFINE c == [conn[o] EXCEPT !.protected = TRUE]
             p == [player[o] EXCEPT !.code = arg]
  <2>1. At(o, c, client[o], p, identity[o]) /\ player[o] # None
    BY <1>2 DEF ConTimeout
  <2>2. c.addr = conn[o].addr
    BY SlotFacts DEF Good, Conns
  <2>3. p.owner = player[o].owner
    BY <2>1, SlotFacts DEF Good, Players
  <2> HIDE DEF c, p
  <2> QED BY <2>1, <2>2, <2>3, AtOther, SameKeeps DEF OwnerKept, IdentityOwn
<1> QED BY <1>1, <1>2

(* A player changes hands only by its timeout code, to a client whose own  *)
(* slot is freed in the same step, or when the client of a slot starts     *)
(* over (CGameContext::ConTimeout, CServer::SetTimedOut, OnClientDrop).    *)
THEOREM OwnerChangesByCode == Spec => HandedOverByCode
<1> DEFINE Handed(s) ==
      player[s] # None /\ player'[s] # None /\ player'[s].owner # player[s].owner =>
        \/ /\ conn[s].state = "ERROR"
           /\ \E o \in Slots \ {s} : /\ conn[o].addr = player'[s].owner
                                     /\ client[o].state = "INGAME"
                                     /\ client'[o].state = "EMPTY"
        \/ client[s].state = "CONNECTING" /\ ~client[s].rejoin
<1>1. ASSUME IInv, [Next]_vars PROVE \A s \in Slots : Handed(s)
  <2>1. CASE \E s \in Slots : OnNetMsgReady(s)
    BY <1>1, <2>1, ReadyOwn DEF OwnerKept
  <2>2. ASSUME NEW o \in Slots, NEW arg \in Codes \cup {NoCode}, ConTimeout(o, arg)
        PROVE  \A s \in Slots : Handed(s)
    <3>1. CASE \A t \in Slots : OwnerKept(t) /\ IdentityOwn(t)
      BY <3>1 DEF OwnerKept
    <3>2. ASSUME NEW s \in Slots \ {o},
                 \A t \in Slots \ {s} : OwnerKept(t) /\ IdentityOwn(t),
                 conn[s].state = "ERROR", player'[s].owner = conn[o].addr,
                 client[o].state = "INGAME", client'[o].state = "EMPTY"
          PROVE  \A t \in Slots : Handed(t)
      BY <3>2 DEF OwnerKept
    <3> HIDE DEF Handed
    <3> QED BY <1>1, <2>2, <3>1, <3>2, TimeoutOwn
  <2>3. CASE /\ \A s \in Slots : ~ OnNetMsgReady(s)
             /\ \A s \in Slots, arg \in Codes \cup {NoCode} : ~ ConTimeout(s, arg)
    BY <1>1, <2>3, OthersOwn DEF OwnerKept
  <2> HIDE DEF Handed
  <2> QED BY <2>1, <2>2, <2>3
<1>2. IInv /\ [Next]_vars => [\A s \in Slots : Handed(s)]_vars
  BY <1>1
<1> QED BY <1>2, InitKeeps, NextKeeps, PTL DEF Spec, HandedOverByCode

(* A client plays with the identity made for its own connection; only a    *)
(* takeover leaves a player with the identity of the connection that had   *)
(* failed (CGameContext::OnClientConnected, ResetGameIdentity).            *)
THEOREM IdentityStaysOwn == Spec => IdentityNotInherited
<1> DEFINE Own(s) ==
      HasPlayer(client'[s]) /\ identity'[s] # conn'[s].addr =>
        \/ conn[s].state = "ERROR" /\ conn'[s].state = "ONLINE"
        \/ HasPlayer(client[s]) /\ identity[s] # conn[s].addr /\ identity'[s] = identity[s]
<1>1. ASSUME IInv, [Next]_vars PROVE \A s \in Slots : Own(s)
  <2>1. CASE \E s \in Slots : OnNetMsgReady(s)
    BY <1>1, <2>1, ReadyOwn DEF IdentityOwn
  <2>2. CASE \E o \in Slots, arg \in Codes \cup {NoCode} : ConTimeout(o, arg)
    BY <1>1, <2>2, TimeoutOwn DEF IdentityOwn
  <2>3. CASE /\ \A s \in Slots : ~ OnNetMsgReady(s)
             /\ \A s \in Slots, arg \in Codes \cup {NoCode} : ~ ConTimeout(s, arg)
    BY <1>1, <2>3, OthersOwn DEF IdentityOwn
  <2> QED BY <2>1, <2>2, <2>3
<1>2. IInv /\ [Next]_vars => [\A s \in Slots : Own(s)]_vars
  BY <1>1
<1> QED BY <1>2, InitKeeps, NextKeeps, PTL DEF Spec, IdentityNotInherited

-----------------------------------------------------------------------------
(* The database pool.                                                      *)
Indices == 0 .. QueueSize - 1

(* A query is in one slot of the ring, or in the worker's hands, never in  *)
(* both: the backup thread cannot store a rank again while the worker is   *)
(* about to delete it.                                                     *)
RingOK ==
  /\ inserted \in Seq(Queries)
  /\ handled \in Seq(Queries)
  /\ backup \in [job : Nat, runs : BOOLEAN, file : BOOLEAN]
  /\ ring \in [Indices -> Queries \cup {Null}]
  /\ \A i \in Indices : ring[i] # Null => ring[i] \in Range(inserted)
  /\ \A i, j \in Indices : i # j /\ ring[i] # Null => ring[i] # ring[j]
  /\ query # Null => query \in Range(inserted) /\ \A i \in Indices : ring[i] # query

(* The copy in race_backup is deleted only when the rank is elsewhere.     *)
SafeToRemove == pc = "remove" /\ query \in first => query \in remote \cup race

PoolInv == RingOK /\ RankKept /\ SafeToRemove

-----------------------------------------------------------------------------
LEMMA RangeAppend ==
  ASSUME NEW S, NEW s \in Seq(S), NEW q \in S
  PROVE  /\ Append(s, q) \in Seq(S)
         /\ Range(Append(s, q)) = Range(s) \cup {q}
<1>1. Append(s, q) \in Seq(S) /\ DOMAIN Append(s, q) = 1 .. Len(s) + 1 /\ Len(s) \in Nat
      /\ DOMAIN s = 1 .. Len(s)
  OBVIOUS
<1>2. \A i \in 1 .. Len(s) : Append(s, q)[i] = s[i]
  OBVIOUS
<1>3. Append(s, q)[Len(s) + 1] = q
  OBVIOUS
<1>4. Range(s) \cup {q} \subseteq Range(Append(s, q))
  BY <1>1, <1>2, <1>3 DEF Range
<1>5. Range(Append(s, q)) \subseteq Range(s) \cup {q}
  <2> SUFFICES ASSUME NEW i \in 1 .. Len(s) + 1 PROVE Append(s, q)[i] \in Range(s) \cup {q}
    BY <1>1 DEF Range
  <2>1. CASE i = Len(s) + 1
    BY <2>1, <1>3
  <2>2. CASE i \in 1 .. Len(s)
    BY <2>2, <1>1, <1>2 DEF Range
  <2> QED BY <2>1, <2>2, <1>1
<1> QED BY <1>1, <1>4, <1>5

LEMMA SlotIndex ==
  ASSUME NEW n \in Nat
  PROVE  Slot(n) \in Indices
BY PoolAssumption DEF Slot, Indices

LEMMA FreshIsNew ==
  ASSUME NEW q \in Fresh
  PROVE  q \in Queries /\ q \notin Range(inserted)
<1>1. CASE q \in Adds /\ q \notin Range(inserted)
  BY <1>1 DEF Queries
<1>2. CASE q \in {CHOOSE x \in S : TRUE : S \in {Ranks \ Range(inserted), Reads \ Range(inserted)} \ {{}}}
  <2>1. PICK S \in {Ranks \ Range(inserted), Reads \ Range(inserted)} \ {{}} : q = CHOOSE x \in S : TRUE
    BY <1>2
  <2>2. q \in S
    BY <2>1
  <2> QED BY <2>1, <2>2 DEF Queries
<1> QED BY <1>1, <1>2 DEF Fresh

-----------------------------------------------------------------------------
LEMMA PoolInitKeeps == PoolInit => PoolInv
<1> SUFFICES ASSUME PoolInit PROVE PoolInv
  OBVIOUS
<1>1. RingOK
  BY DEF PoolInit, RingOK, Indices
<1>2. RankKept /\ SafeToRemove
  BY DEF PoolInit, RankKept, SafeToRemove
<1> QED BY <1>1, <1>2 DEF PoolInv

LEMMA ExecuteKeeps ==
  ASSUME PoolInv, NEW q \in Fresh, Execute(q)
  PROVE  PoolInv'
<1> DEFINE s == Slot(Len(inserted))
<1>1. /\ ring' = [ring EXCEPT ![s] = q] /\ inserted' = Append(inserted, q)
      /\ UNCHANGED <<handled, backup, pc, query, remote, race, raceBackup, first>>
  BY DEF Execute, stored
<1>2. RingOK
  BY DEF PoolInv
<1>3. q \in Queries /\ q # Null /\ q \notin Range(inserted)
  BY FreshIsNew, PoolAssumption
<1>4. s \in Indices
  BY <1>2, SlotIndex DEF RingOK
<1> HIDE DEF s
<1>5. inserted' \in Seq(Queries) /\ Range(inserted') = Range(inserted) \cup {q}
  BY <1>1, <1>2, <1>3, RangeAppend DEF RingOK
<1>6. /\ ring' \in [Indices -> Queries \cup {Null}]
      /\ ring'[s] = q
      /\ \A i \in Indices : i # s => ring'[i] = ring[i]
  BY <1>1, <1>2, <1>3, <1>4 DEF RingOK
<1>7. RingOK'
  <2>1. \A i \in Indices : ring'[i] # Null => ring'[i] \in Range(inserted')
    BY <1>2, <1>5, <1>6 DEF RingOK
  <2>2. \A i, j \in Indices : i # j /\ ring'[i] # Null => ring'[i] # ring'[j]
    <3> SUFFICES ASSUME NEW i \in Indices, NEW j \in Indices, i # j, ring'[i] # Null
                 PROVE  ring'[i] # ring'[j]
      OBVIOUS
    <3>1. CASE i = s
      BY <3>1, <1>2, <1>3, <1>6 DEF RingOK
    <3>2. CASE j = s
      BY <3>2, <1>2, <1>3, <1>6 DEF RingOK
    <3>3. CASE i # s /\ j # s
      BY <3>3, <1>2, <1>6 DEF RingOK
    <3> QED BY <3>1, <3>2, <3>3
  <2>3. query' # Null => query' \in Range(inserted') /\ \A i \in Indices : ring'[i] # query'
    BY <1>1, <1>2, <1>3, <1>5, <1>6 DEF RingOK
  <2> QED BY <1>1, <1>2, <1>5, <1>6, <2>1, <2>2, <2>3 DEF RingOK
<1>8. (RankKept /\ SafeToRemove)'
  BY <1>1 DEF PoolInv, RankKept, Stored, SafeToRemove
<1> QED BY <1>7, <1>8 DEF PoolInv

(* The backup thread stores what is in the ring, so not what the worker    *)
(* is deleting.                                                            *)
LEMMA BackupKeeps ==
  ASSUME PoolInv, NEW ok \in BOOLEAN, Backup(ok)
  PROVE  PoolInv'
<1> DEFINE q == ring[Slot(backup.job)]
<1>1. UNCHANGED <<inserted, handled, ring, pc, query, remote, race>>
  BY DEF Backup
<1>2. \/ q \in Ranks /\ raceBackup' = raceBackup \cup {q} /\ first' = first \cup {q}
      \/ UNCHANGED <<raceBackup, first>>
  BY DEF Backup
<1>3. Slot(backup.job) \in Indices
  BY SlotIndex DEF PoolInv, RingOK
<1>4. RingOK'
  <2>1. backup' \in [job : Nat, runs : BOOLEAN, file : BOOLEAN]
    BY DEF Backup, PoolInv, RingOK
  <2> QED BY <1>1, <2>1 DEF PoolInv, RingOK
<1>5. RankKept'
  BY <1>1, <1>2 DEF PoolInv, RankKept, Stored
<1>6. q \in Ranks => q # query
  BY <1>3, PoolAssumption DEF PoolInv, RingOK, Queries
<1>7. SafeToRemove'
  BY <1>1, <1>2, <1>6 DEF PoolInv, SafeToRemove
<1> QED BY <1>4, <1>5, <1>7 DEF PoolInv

(* Steps that leave the ring and the worker's query alone                  *)
LEMMA RingUnchanged ==
  ASSUME RingOK, UNCHANGED <<inserted, handled, backup, ring, query>>
  PROVE  RingOK'
BY DEF RingOK

LEMMA WorkerTakeKeeps ==
  ASSUME PoolInv, WorkerTake
  PROVE  PoolInv'
<1> DEFINE s == Slot(Len(handled))
           q == ring[s]
<1>1. s \in Indices /\ RingOK
  BY SlotIndex DEF PoolInv, RingOK
<1>2. UNCHANGED <<inserted, backup, remote, race, raceBackup, first>> /\ pc' # "remove"
  <2>1. UNCHANGED <<inserted, backup, remote, race, raceBackup, first>>
    BY DEF WorkerTake, stored
  <2>2. pc' = "left" \/ pc' = "write" \/ pc' = "other"
    BY DEF WorkerTake
  <2> QED BY <2>1, <2>2
<1>3. (RankKept /\ SafeToRemove)'
  BY <1>2 DEF PoolInv, RankKept, Stored, SafeToRemove
<1>4. CASE q = Null
  <2>1. UNCHANGED <<ring, handled, query>>
    BY <1>4 DEF WorkerTake
  <2> QED BY <2>1, <1>1, <1>2, <1>3, RingUnchanged DEF PoolInv
<1>5. CASE q # Null
  <2>1. ring' = [ring EXCEPT ![s] = Null] /\ handled' = Append(handled, q) /\ query' = q
    BY <1>5 DEF WorkerTake
  <2>2. q \in Queries /\ q \in Range(inserted) /\ \A i \in Indices : i # s => ring[i] # q
    BY <1>1, <1>5 DEF RingOK
  <2>3. /\ ring' \in [Indices -> Queries \cup {Null}]
        /\ ring'[s] = Null
        /\ \A i \in Indices : i # s => ring'[i] = ring[i]
    BY <1>1, <2>1 DEF RingOK
  <2>4. handled' \in Seq(Queries)
    BY <1>1, <2>1, <2>2 DEF RingOK
  <2> HIDE DEF s, q
  <2>5. RingOK'
    BY <1>1, <1>2, <1>5, <2>1, <2>2, <2>3, <2>4 DEF RingOK
  <2> QED BY <1>3, <2>5 DEF PoolInv
<1> QED BY <1>4, <1>5

LEMMA WorkerWriteKeeps ==
  ASSUME PoolInv, NEW executed \in BOOLEAN, NEW ok \in BOOLEAN, WorkerWrite(executed, ok)
  PROVE  PoolInv'
<1>1. UNCHANGED <<inserted, handled, backup, ring, query, race, raceBackup, first>>
  BY DEF WorkerWrite, pool
<1>2. remote \subseteq remote' /\ (pc' = "remove" => query \in remote')
  BY DEF WorkerWrite
<1>3. (RankKept /\ SafeToRemove)'
  BY <1>1, <1>2 DEF PoolInv, RankKept, Stored, SafeToRemove
<1> QED BY <1>1, <1>3, RingUnchanged DEF PoolInv

(* NORMAL_SUCCEEDED deletes a copy, or the second statement of             *)
(* NORMAL_FAILED does.                                                     *)
LEMMA WorkerRemoveKeeps ==
  ASSUME PoolInv, NEW ok \in BOOLEAN, WorkerRemove(ok)
  PROVE  PoolInv'
<1>1. UNCHANGED <<inserted, handled, backup, ring, query, remote, race, first>>
  BY DEF WorkerRemove, pool
<1>2. pc = "remove" /\ pc' = "complete" /\ raceBackup \ {query} \subseteq raceBackup'
  BY DEF WorkerRemove
<1>3. (RankKept /\ SafeToRemove)'
  BY <1>1, <1>2 DEF PoolInv, RankKept, Stored, SafeToRemove
<1> QED BY <1>1, <1>3, RingUnchanged DEF PoolInv

(* The copy is deleted only after it was moved: a rank the backup thread   *)
(* had stored is in race_backup then, if it is nowhere else.               *)
LEMMA WorkerKeepKeeps ==
  ASSUME PoolInv, NEW ok \in BOOLEAN, WorkerKeep(ok)
  PROVE  PoolInv'
<1>1. UNCHANGED <<inserted, handled, backup, ring, query, remote, raceBackup, first>>
  BY DEF WorkerKeep, pool
<1>2. race \subseteq race' /\ (pc' = "remove" => {query} \cap raceBackup \subseteq race')
  BY DEF WorkerKeep
<1>3. (RankKept /\ SafeToRemove)'
  BY <1>1, <1>2 DEF PoolInv, RankKept, Stored, SafeToRemove
<1> QED BY <1>1, <1>3, RingUnchanged DEF PoolInv

LEMMA WorkerCompleteKeeps ==
  ASSUME PoolInv, WorkerComplete
  PROVE  PoolInv'
<1>1. /\ UNCHANGED <<inserted, handled, backup, ring, remote, race, raceBackup, first>>
      /\ query' = Null /\ pc' = "top"
  BY DEF WorkerComplete, pool, stored
<1>2. RingOK'
  BY <1>1 DEF PoolInv, RingOK
<1>3. (RankKept /\ SafeToRemove)'
  BY <1>1 DEF PoolInv, RankKept, Stored, SafeToRemove
<1> QED BY <1>2, <1>3 DEF PoolInv

(* The main thread's other steps, and the worker's that store nothing      *)
LEMMA OtherKeeps ==
  ASSUME PoolInv,
         UNCHANGED <<inserted, handled, backup, ring, query, remote, race, raceBackup, first>>,
         pc' = pc \/ pc' # "remove"
  PROVE  PoolInv'
<1>1. (RankKept /\ SafeToRemove)'
  BY DEF PoolInv, RankKept, Stored, SafeToRemove
<1> QED BY <1>1, RingUnchanged DEF PoolInv

LEMMA StepKeeps == PoolInv /\ [PoolNext]_poolVars => PoolInv'
<1> SUFFICES ASSUME PoolInv, [PoolNext]_poolVars PROVE PoolInv'
  OBVIOUS
<1>1. CASE OnShutdown \/ LeaveShutdown \/ WorkerTop \/ (\E ok \in BOOLEAN : WorkerOther(ok)) \/ UNCHANGED poolVars
  <2>1. /\ UNCHANGED <<inserted, handled, backup, ring, query, remote, race, raceBackup, first>>
        /\ pc' = pc \/ pc' = "wait" \/ pc' = "complete"
    BY <1>1 DEF OnShutdown, LeaveShutdown, WorkerTop, WorkerOther, poolVars, pool, stored
  <2> QED BY <2>1, OtherKeeps
<1> QED BY <1>1, ExecuteKeeps, BackupKeeps, WorkerTakeKeeps, WorkerWriteKeeps, WorkerRemoveKeeps,
        WorkerKeepKeeps, WorkerCompleteKeeps DEF PoolNext, Worker

LEMMA PoolInvariant == PoolSpec => []PoolInv
BY PoolInitKeeps, StepKeeps, PTL DEF PoolSpec

(* A rank the backup thread has written is on the write server or in the   *)
(* backup file at every moment, whatever the database calls do and         *)
(* whenever the server shuts down or dies.                                 *)
THEOREM RankNeverLost == PoolSpec => []RankKept
BY PoolInvariant, PTL DEF PoolInv

-----------------------------------------------------------------------------
(* The order of the queries. The ring holds exactly the queries that the   *)
(* worker has not taken, each in the slot of its number, and each          *)
(* semaphore counts the turns its thread still owes; the turn after the    *)
(* last query is the one that ends the thread.                             *)
Ended == IF backup.runs THEN 0 ELSE 1
Asked == IF main = "runs" THEN 0 ELSE 1
Left == IF pc = "left" THEN 1 ELSE 0

RingHolds ==
  /\ \A n \in Nat : Len(handled) <= n /\ n < Len(inserted) => ring[Slot(n)] = inserted[n + 1]
  /\ \A i \in Indices : ring[i] # Null =>
       \E n \in Nat : Len(handled) <= n /\ n < Len(inserted) /\ i = Slot(n)

Counters ==
  /\ numBackup \in Nat /\ numWorker \in Nat
  /\ Len(handled) <= backup.job /\ backup.job <= Len(inserted)
  /\ Len(inserted) - Len(handled) <= MaxOutstanding
  /\ numBackup + backup.job + Ended = Len(inserted) + Asked
  /\ numWorker + Len(handled) + Left = backup.job + Ended
  /\ ~backup.runs => backup.job = Len(inserted)

Prefix == \A i \in 1 .. Len(handled) : handled[i] = inserted[i]

Order == RingHolds /\ Counters /\ Prefix

LEMMA SlotDistinct ==
  ASSUME NEW m \in Nat, NEW n \in Nat, m < n, n - m < QueueSize
  PROVE  Slot(m) # Slot(n)
<1> DEFINE p == m \div QueueSize
           r == n \div QueueSize
           x == m % QueueSize
           y == n % QueueSize
<1>1. QueueSize \in Nat /\ QueueSize > 0
  BY PoolAssumption
<1>2. p \in Nat /\ r \in Nat /\ x \in 0 .. QueueSize - 1 /\ y \in 0 .. QueueSize - 1
  BY <1>1
<1>3. m = QueueSize * p + x /\ n = QueueSize * r + y
  BY <1>1
<1>4. Slot(m) = x /\ Slot(n) = y
  BY DEF Slot
<1> HIDE DEF p, r, x, y
<1>5. SUFFICES ASSUME x = y PROVE FALSE
  BY <1>4
<1>6. n - m = QueueSize * (r - p)
  BY <1>1, <1>2, <1>3, <1>5
<1>7. CASE r - p >= 1
  <2>1. QueueSize * (r - p) >= QueueSize
    BY <1>1, <1>2, <1>7
  <2> QED BY <2>1, <1>1, <1>6
<1>8. CASE r <= p
  <2>1. QueueSize * (p - r) >= 0
    BY <1>1, <1>2, <1>8
  <2>2. QueueSize * (p - r) = m - n
    BY <1>1, <1>2, <1>6
  <2> QED BY <2>1, <2>2
<1> QED BY <1>2, <1>7, <1>8

(* The slot a thread looks at: the query of that number, or nothing.       *)
LEMMA RingAt ==
  ASSUME RingOK, Order, NEW n \in Nat, Len(handled) <= n, n <= Len(inserted)
  PROVE  /\ n < Len(inserted) => ring[Slot(n)] = inserted[n + 1] /\ inserted[n + 1] # Null
         /\ n = Len(inserted) => ring[Slot(n)] = Null
<1>1. Len(inserted) \in Nat /\ Len(handled) \in Nat /\ inserted \in Seq(Queries)
  BY DEF RingOK
<1>2. ASSUME n < Len(inserted)
      PROVE  ring[Slot(n)] = inserted[n + 1] /\ inserted[n + 1] # Null
  <2>1. ring[Slot(n)] = inserted[n + 1]
    BY <1>2 DEF Order, RingHolds
  <2>2. inserted[n + 1] \in Queries
    BY <1>1, <1>2
  <2> QED BY <2>1, <2>2, PoolAssumption
<1>3. ASSUME n = Len(inserted), ring[Slot(n)] # Null
      PROVE  FALSE
  <2>1. Slot(n) \in Indices
    BY SlotIndex
  <2>2. PICK m \in Nat : Len(handled) <= m /\ m < Len(inserted) /\ Slot(n) = Slot(m)
    BY <1>3, <2>1 DEF Order, RingHolds
  <2>3. n - m < QueueSize
    BY <1>1, <1>3, <2>2, PoolAssumption DEF Order, Counters
  <2> QED BY <1>1, <1>3, <2>2, <2>3, SlotDistinct
<1> QED BY <1>2, <1>3

LEMMA InitOrder == PoolInit => Order
BY PoolAssumption DEF PoolInit, Order, RingHolds, Counters, Prefix, Ended, Asked, Left, Indices

LEMMA ExecuteOrder ==
  ASSUME RingOK, Order, NEW q \in Fresh, Execute(q)
  PROVE  Order'
<1> DEFINE I == Len(inserted)
           H == Len(handled)
<1>1. /\ ring' = [ring EXCEPT ![Slot(I)] = q] /\ inserted' = Append(inserted, q)
      /\ main = "runs" /\ I - H < MaxOutstanding /\ numBackup' = numBackup + 1
      /\ UNCHANGED <<main, numWorker, handled, backup, pc>>
  BY DEF Execute
<1>2. /\ I \in Nat /\ H \in Nat /\ inserted \in Seq(Queries) /\ q \in Queries
      /\ MaxOutstanding \in Nat /\ QueueSize \in Nat /\ MaxOutstanding < QueueSize /\ H <= I
      /\ Slot(I) \in Indices
      /\ ring \in [Indices -> Queries \cup {Null}]
      /\ backup \in [job : Nat, runs : BOOLEAN, file : BOOLEAN]
  BY FreshIsNew, SlotIndex, PoolAssumption DEF RingOK, Order, Counters
<1>3. /\ Len(inserted') = I + 1 /\ inserted'[I + 1] = q
      /\ \A i \in 1 .. I : inserted'[i] = inserted[i]
  BY <1>1, <1>2
<1>4. Counters'
  <2>1. Ended' = Ended /\ Asked' = Asked /\ Left' = Left
    BY <1>1 DEF Ended, Asked, Left
  <2>2. Ended \in {0, 1} /\ Asked = 0 /\ Left \in {0, 1}
    BY <1>1 DEF Ended, Asked, Left
  <2>3. backup.runs
    BY <1>2, <2>2 DEF Order, Counters, Ended
  <2> QED BY <1>1, <1>2, <1>3, <2>1, <2>2, <2>3 DEF Order, Counters
<1>5. Prefix'
  BY <1>1, <1>2, <1>3 DEF Order, Prefix
<1>6. \A n \in Nat : H <= n /\ n < I + 1 => ring'[Slot(n)] = inserted'[n + 1]
  <2> SUFFICES ASSUME NEW n \in Nat, H <= n, n < I + 1 PROVE ring'[Slot(n)] = inserted'[n + 1]
    OBVIOUS
  <2>1. CASE n = I
    BY <2>1, <1>1, <1>2, <1>3
  <2>2. CASE n < I
    <3>1. Slot(n) \in Indices /\ Slot(n) # Slot(I)
      BY <2>2, <1>1, <1>2, SlotIndex, SlotDistinct
    <3>2. ring'[Slot(n)] = ring[Slot(n)]
      BY <3>1, <1>1, <1>2
    <3>3. ring[Slot(n)] = inserted[n + 1]
      BY <2>2 DEF Order, RingHolds
    <3> QED BY <2>2, <3>2, <3>3, <1>2, <1>3
  <2> QED BY <2>1, <2>2, <1>2
<1>7. ASSUME NEW i \in Indices, ring'[i] # Null
      PROVE  \E n \in Nat : H <= n /\ n < I + 1 /\ i = Slot(n)
  <2>1. CASE i = Slot(I)
    BY <2>1, <1>2
  <2>2. CASE i # Slot(I)
    <3>1. ring[i] # Null
      BY <2>2, <1>1, <1>2, <1>7
    <3>2. PICK n \in Nat : H <= n /\ n < I /\ i = Slot(n)
      BY <3>1 DEF Order, RingHolds
    <3> QED BY <3>2, <1>2
  <2> QED BY <2>1, <2>2
<1>8. RingHolds'
  BY <1>1, <1>3, <1>6, <1>7 DEF RingHolds
<1> QED BY <1>4, <1>5, <1>8 DEF Order

LEMMA BackupOrder ==
  ASSUME RingOK, Order, NEW ok \in BOOLEAN, Backup(ok)
  PROVE  Order'
<1> DEFINE q == ring[Slot(backup.job)]
<1>1. /\ backup.runs /\ numBackup > 0 /\ numBackup' = numBackup - 1 /\ numWorker' = numWorker + 1
      /\ UNCHANGED <<inserted, handled, ring, main, pc>>
      /\ q = Null => backup' = [job |-> backup.job, runs |-> FALSE, file |-> backup.file]
      /\ q # Null => backup'.job = backup.job + 1 /\ backup'.runs = TRUE
  BY DEF Backup
<1>2. /\ Len(inserted) \in Nat /\ Len(handled) \in Nat /\ backup.job \in Nat
      /\ backup \in [job : Nat, runs : BOOLEAN, file : BOOLEAN]
  BY DEF RingOK
<1>3. (RingHolds /\ Prefix)'
  BY <1>1 DEF Order, RingHolds, Prefix
<1>4. /\ backup.job < Len(inserted) => q # Null
      /\ backup.job = Len(inserted) => q = Null
  BY <1>2, RingAt DEF Order, Counters
<1> HIDE DEF q
<1>5. CASE backup.job < Len(inserted)
  <2>1. backup'.job = backup.job + 1 /\ backup'.runs = TRUE
    BY <1>1, <1>4, <1>5
  <2>2. Ended = 0 /\ Ended' = 0 /\ Asked' = Asked /\ Left' = Left
    BY <1>1, <2>1 DEF Ended, Asked, Left
  <2>3. Asked \in Nat /\ Left \in Nat
    BY DEF Asked, Left
  <2>4. Counters'
    BY <1>1, <1>2, <1>5, <2>1, <2>2, <2>3 DEF Order, Counters
  <2> QED BY <1>3, <2>4 DEF Order
<1>6. CASE backup.job = Len(inserted)
  <2>1. backup'.job = backup.job /\ backup'.runs = FALSE
    BY <1>1, <1>4, <1>6
  <2>2. Ended = 0 /\ Ended' = 1 /\ Asked' = Asked /\ Left' = Left
    BY <1>1, <2>1 DEF Ended, Asked, Left
  <2>3. Asked \in Nat /\ Left \in Nat
    BY DEF Asked, Left
  <2>4. Counters'
    BY <1>1, <1>2, <1>6, <2>1, <2>2, <2>3 DEF Order, Counters
  <2> QED BY <1>3, <2>4 DEF Order
<1> QED BY <1>2, <1>5, <1>6 DEF Order, Counters

LEMMA WorkerTakeOrder ==
  ASSUME RingOK, Order, WorkerTake
  PROVE  Order'
<1> DEFINE I == Len(inserted)
           H == Len(handled)
           q == ring[Slot(H)]
<1>1. /\ pc = "wait" /\ numWorker > 0 /\ numWorker' = numWorker - 1
      /\ UNCHANGED <<inserted, main, numBackup, backup>>
      /\ q = Null => pc' = "left" /\ UNCHANGED <<ring, handled>>
  BY DEF WorkerTake
<1>2. q # Null => /\ ring' = [ring EXCEPT ![Slot(H)] = Null] /\ handled' = Append(handled, q)
                  /\ pc' = "write" \/ pc' = "other"
  BY DEF WorkerTake
<1>3. /\ I \in Nat /\ H \in Nat /\ H <= I /\ backup.job \in Nat /\ H <= backup.job /\ backup.job <= I
      /\ inserted \in Seq(Queries) /\ handled \in Seq(Queries)
      /\ MaxOutstanding \in Nat /\ QueueSize \in Nat /\ MaxOutstanding < QueueSize
      /\ Slot(H) \in Indices
      /\ ring \in [Indices -> Queries \cup {Null}]
      /\ backup \in [job : Nat, runs : BOOLEAN, file : BOOLEAN]
  BY SlotIndex, PoolAssumption DEF RingOK, Order, Counters
<1>4. /\ H < I => q = inserted[H + 1] /\ q # Null
      /\ H = I => q = Null
  BY <1>3, RingAt
<1>5. Left = 0 /\ Asked' = Asked /\ Ended' = Ended /\ Asked \in Nat /\ Ended \in Nat
  BY <1>1 DEF Left, Asked, Ended
<1>6. CASE H = I
  <2>1. pc' = "left" /\ ring' = ring /\ handled' = handled
    BY <1>1, <1>4, <1>6
  <2>2. Left' = 1
    BY <2>1 DEF Left
  <2>3. Counters'
    BY <1>1, <1>3, <1>5, <2>1, <2>2 DEF Order, Counters
  <2> QED BY <1>1, <2>1, <2>3 DEF Order, RingHolds, Prefix
<1>7. CASE H < I
  <2>1. /\ ring' = [ring EXCEPT ![Slot(H)] = Null] /\ handled' = Append(handled, q)
        /\ pc' = "write" \/ pc' = "other"
    BY <1>2, <1>4, <1>7
  <2>2. q = inserted[H + 1] /\ q \in Queries
    BY <1>3, <1>4, <1>7
  <2>3. Left' = 0
    BY <2>1 DEF Left
  <2> HIDE DEF q
  <2>4. /\ Len(handled') = H + 1 /\ handled'[H + 1] = q
        /\ \A i \in 1 .. H : handled'[i] = handled[i]
    BY <1>3, <2>1, <2>2
  <2>5. H < backup.job
    BY <1>1, <1>3, <1>5, <1>7 DEF Order, Counters, Ended
  <2>6. Counters'
    BY <1>1, <1>3, <1>5, <1>7, <2>3, <2>4, <2>5 DEF Order, Counters
  <2>7. Prefix'
    BY <1>1, <1>3, <2>2, <2>4 DEF Order, Prefix
  <2>8. \A n \in Nat : H + 1 <= n /\ n < I => ring'[Slot(n)] = inserted[n + 1]
    <3> SUFFICES ASSUME NEW n \in Nat, H + 1 <= n, n < I PROVE ring'[Slot(n)] = inserted[n + 1]
      OBVIOUS
    <3>1. Slot(n) \in Indices /\ Slot(n) # Slot(H)
      BY <1>3, SlotIndex, SlotDistinct DEF Order, Counters
    <3>2. ring[Slot(n)] = inserted[n + 1]
      BY <1>3 DEF Order, RingHolds
    <3> QED BY <3>1, <3>2, <1>3, <2>1
  <2>9. ASSUME NEW i \in Indices, ring'[i] # Null
        PROVE  \E n \in Nat : H + 1 <= n /\ n < I /\ i = Slot(n)
    <3>1. i # Slot(H) /\ ring[i] # Null
      BY <1>3, <2>1, <2>9
    <3>2. PICK n \in Nat : H <= n /\ n < I /\ i = Slot(n)
      BY <3>1 DEF Order, RingHolds
    <3>3. n # H
      BY <3>1, <3>2
    <3> QED BY <3>2, <3>3, <1>3
  <2>10. RingHolds'
    BY <1>1, <2>4, <2>8, <2>9 DEF RingHolds
  <2> QED BY <2>6, <2>7, <2>10 DEF Order
<1> QED BY <1>3, <1>6, <1>7

LEMMA OnShutdownOrder ==
  ASSUME RingOK, Order, OnShutdown
  PROVE  Order'
<1>1. /\ main = "runs" /\ main' = "waits" /\ numBackup' = numBackup + 1
      /\ UNCHANGED <<inserted, handled, ring, backup, numWorker, pc>>
  BY DEF OnShutdown
<1>2. (RingHolds /\ Prefix)'
  BY <1>1 DEF Order, RingHolds, Prefix
<1>3. Asked = 0 /\ Asked' = 1 /\ Ended' = Ended /\ Left' = Left
  BY <1>1 DEF Asked, Ended, Left
<1>4. /\ Ended \in Nat /\ Left \in Nat /\ Len(inserted) \in Nat /\ Len(handled) \in Nat
      /\ backup \in [job : Nat, runs : BOOLEAN, file : BOOLEAN]
  BY DEF Ended, Left, RingOK
<1>5. /\ numBackup' + backup'.job + Ended' = Len(inserted') + Asked'
      /\ numWorker' + Len(handled') + Left' = backup'.job + Ended'
  BY <1>1, <1>3, <1>4 DEF Order, Counters
<1>6. numBackup' \in Nat
  BY <1>1 DEF Order, Counters
<1>7. Counters'
  BY <1>1, <1>5, <1>6 DEF Order, Counters
<1> QED BY <1>2, <1>7 DEF Order

(* Steps that change neither a counter, the ring nor whether a thread runs *)
LEMMA OtherOrder ==
  ASSUME Order, UNCHANGED <<inserted, handled, ring, backup, numBackup, numWorker>>,
         Asked' = Asked, Left' = Left
  PROVE  Order'
<1>1. Ended' = Ended
  BY DEF Ended
<1> QED BY <1>1 DEF Order, RingHolds, Counters, Prefix

LEMMA StepOrder == PoolInv /\ Order /\ [PoolNext]_poolVars => Order'
<1> SUFFICES ASSUME PoolInv, Order, [PoolNext]_poolVars PROVE Order'
  OBVIOUS
<1>1. RingOK
  BY DEF PoolInv
<1>2. CASE \/ LeaveShutdown \/ WorkerTop \/ WorkerComplete
           \/ \E ok \in BOOLEAN : WorkerOther(ok) \/ WorkerRemove(ok) \/ WorkerKeep(ok)
           \/ \E executed, ok \in BOOLEAN : WorkerWrite(executed, ok)
           \/ UNCHANGED poolVars
  <2>1. UNCHANGED <<inserted, handled, ring, backup, numBackup, numWorker>>
    BY <1>2 DEF LeaveShutdown, WorkerTop, WorkerComplete, WorkerOther, WorkerRemove,
         WorkerKeep, WorkerWrite, poolVars, pool
  <2>2. main' = main \/ (main = "waits" /\ main' = "left")
    BY <1>2 DEF LeaveShutdown, WorkerTop, WorkerComplete, WorkerOther, WorkerRemove,
         WorkerKeep, WorkerWrite, poolVars
  <2>3. pc' = pc \/ (pc # "left" /\ pc' # "left")
    BY <1>2 DEF LeaveShutdown, WorkerTop, WorkerComplete, WorkerOther, WorkerRemove,
         WorkerKeep, WorkerWrite, poolVars
  <2>4. Asked' = Asked /\ Left' = Left
    BY <2>2, <2>3 DEF Asked, Left
  <2> QED BY <2>1, <2>4, OtherOrder
<1> QED BY <1>1, <1>2, ExecuteOrder, BackupOrder, WorkerTakeOrder, OnShutdownOrder DEF PoolNext, Worker

LEMMA OrderGivesPrefix == PoolInv /\ Order => BackupThenWorker
<1> SUFFICES ASSUME PoolInv, Order PROVE BackupThenWorker
  OBVIOUS
<1>1. /\ Len(inserted) \in Nat /\ Len(handled) \in Nat /\ Len(handled) <= Len(inserted)
      /\ inserted \in Seq(Queries) /\ handled \in Seq(Queries) /\ backup.job \in Nat
      /\ Len(handled) <= backup.job /\ backup.job <= Len(inserted)
  BY DEF PoolInv, RingOK, Order, Counters
<1>2. handled = SubSeq(inserted, 1, Len(handled))
  BY <1>1 DEF Order, Prefix
<1>3. SubSeq(handled, 1, Len(handled)) = handled
  BY <1>1
<1> QED BY <1>1, <1>2, <1>3 DEF BackupThenWorker, IsPrefix

(* The worker executes the queries in the order they were queued, each     *)
(* once and only after the backup thread has seen it; reusing the ring's   *)
(* slots mixes nothing up as long as fewer queries are waiting than the    *)
(* ring has slots (PoolAssumption).                                        *)
THEOREM QueriesInOrder == PoolSpec => []BackupThenWorker
<1>1. PoolInit => PoolInv /\ Order
  BY PoolInitKeeps, InitOrder
<1>2. PoolInv /\ Order /\ [PoolNext]_poolVars => (PoolInv /\ Order)'
  BY StepKeeps, StepOrder
<1> QED BY <1>1, <1>2, OrderGivesPrefix, PTL DEF PoolSpec

-----------------------------------------------------------------------------
(* What a query is answered. The worker holds a query exactly between      *)
(* taking and completing it; it answers with success only when the write   *)
(* server has the rank or the backup file is there to keep it.             *)
Answers ==
  /\ pc \in {"top", "wait", "left"} => query = Null
  /\ pc \in {"write", "remove", "keep"} => query \in Ranks
  /\ pc = "other" => query \in Queries \ Ranks
  /\ pc = "complete" => query \in Queries
  /\ pc \in {"remove", "keep"} => worker.file
  /\ pc = "complete" /\ query \in Ranks /\ worker.success => query \in remote \/ worker.file
  /\ \A q \in Ranks : result[q] = TRUE => q \in remote \/ worker.file
  /\ \A q \in Range(handled) : q = query \/ result[q] # Null

(* The worker ends only after the last query and only in a shutdown.       *)
Drains ==
  /\ main = "left" => pc = "left"
  /\ main = "waits" => shutdown \/ pc = "left"
  /\ pc = "left" => Len(handled) = Len(inserted) /\ main # "runs"

LEMMA InitAnswers == PoolInit => PoolTypeOK /\ Answers /\ Drains
<1> SUFFICES ASSUME PoolInit PROVE PoolTypeOK /\ Answers /\ Drains
  OBVIOUS
<1>1. PoolTypeOK
  <2>1. ring \in [0 .. QueueSize - 1 -> Queries \cup {Null}] /\ result \in [Queries -> BOOLEAN \cup {Null}]
    BY DEF PoolInit
  <2>2. /\ backup \in [job : Nat, runs : BOOLEAN, file : BOOLEAN]
        /\ worker \in [success : BOOLEAN, failMode : BOOLEAN, read : BOOLEAN, write : BOOLEAN, file : BOOLEAN]
    BY DEF PoolInit
  <2>3. inserted \in Seq(Queries) /\ handled \in Seq(Queries)
    BY DEF PoolInit
  <2> QED BY <2>1, <2>2, <2>3 DEF PoolInit, PoolTypeOK
<1>2. Answers
  <2>1. Range(handled) = {}
    BY DEF PoolInit, Range
  <2>2. \A q \in Ranks : result[q] # TRUE
    BY PoolAssumption DEF PoolInit, Queries
  <2> QED BY <2>1, <2>2 DEF PoolInit, Answers
<1>3. Drains
  BY DEF PoolInit, Drains
<1> QED BY <1>1, <1>2, <1>3

LEMMA ExecuteAnswers ==
  ASSUME PoolTypeOK, Answers, Drains, NEW q \in Fresh, Execute(q)
  PROVE  (PoolTypeOK /\ Answers /\ Drains)'
<1>1. /\ ring' = [ring EXCEPT ![Slot(Len(inserted))] = q] /\ inserted' = Append(inserted, q)
      /\ numBackup' = numBackup + 1 /\ main = "runs"
      /\ UNCHANGED <<main, shutdown, numWorker, backup, pc, query, worker, result, handled,
                     remote, race, raceBackup, first>>
  BY DEF Execute, stored
<1>2. q \in Queries
  BY FreshIsNew
<1>3. PoolTypeOK'
  <2>1. ring' \in [0 .. QueueSize - 1 -> Queries \cup {Null}]
    <3>1. ring' = [ring EXCEPT ![Slot(Len(inserted))] = q]
      BY <1>1
    <3>2. ring \in [0 .. QueueSize - 1 -> Queries \cup {Null}]
      BY DEF PoolTypeOK
    <3> QED BY <1>2, <3>1, <3>2
  <2>2. inserted' \in Seq(Queries) /\ numBackup' \in Nat
    BY <1>1, <1>2, RangeAppend DEF PoolTypeOK
  <2> QED BY <1>1, <2>1, <2>2 DEF PoolTypeOK
<1>4. Answers' /\ Drains'
  BY <1>1 DEF Answers, Drains
<1> QED BY <1>3, <1>4

LEMMA BackupAnswers ==
  ASSUME PoolTypeOK, Answers, Drains, NEW ok \in BOOLEAN, Backup(ok)
  PROVE  (PoolTypeOK /\ Answers /\ Drains)'
<1> DEFINE q == ring[Slot(backup.job)]
<1>1. UNCHANGED <<inserted, main, ring, shutdown, pc, query, worker, result, handled, remote, race>>
  BY DEF Backup
<1>2. numBackup' \in Nat /\ numWorker' \in Nat
  BY DEF Backup, PoolTypeOK
<1>3. backup' \in [job : Nat, runs : BOOLEAN, file : BOOLEAN]
  BY DEF Backup, PoolTypeOK
<1>4. {raceBackup', first'} \subseteq SUBSET Ranks
  BY DEF Backup, PoolTypeOK
<1>5. PoolTypeOK'
  BY <1>1, <1>2, <1>3, <1>4 DEF PoolTypeOK
<1>6. Answers' /\ Drains'
  BY <1>1 DEF Answers, Drains
<1> QED BY <1>5, <1>6

LEMMA TakeAnswers ==
  ASSUME RingOK, Order, PoolTypeOK, Answers, Drains, WorkerTake
  PROVE  (PoolTypeOK /\ Answers /\ Drains)'
<1> DEFINE q == ring[Slot(Len(handled))]
<1>1. /\ pc = "wait" /\ numWorker > 0 /\ numWorker' = numWorker - 1 /\ query = Null
      /\ UNCHANGED <<inserted, main, numBackup, backup, result, remote, race, raceBackup, first>>
  BY DEF WorkerTake, stored, Answers
<1>2. numWorker' \in Nat /\ Len(handled) \in Nat /\ Len(inserted) \in Nat /\ Len(handled) <= Len(inserted)
  BY <1>1 DEF PoolTypeOK, Order, Counters
<1>3. CASE q = Null
  <2>1. shutdown' = FALSE /\ pc' = "left" /\ UNCHANGED <<ring, handled, query, worker>>
    BY <1>3 DEF WorkerTake
  <2>2. PoolTypeOK'
    BY <1>1, <1>2, <2>1 DEF PoolTypeOK
  <2>3. Answers'
    BY <1>1, <2>1 DEF Answers
  <2>4. Len(handled) = Len(inserted)
    BY <1>2, <1>3, RingAt
  <2>5. main # "runs"
    <3>1. numWorker + Len(handled) + Left = backup.job + Ended /\ Left = 0 /\ backup.job \in Nat
          /\ Ended \in {0, 1} /\ Asked \in {0, 1} /\ numBackup \in Nat
          /\ numBackup + backup.job + Ended = Len(inserted) + Asked
          /\ backup.job <= Len(inserted)
      BY <1>1 DEF Order, Counters, Left, Ended, Asked, PoolTypeOK
    <3>2. Asked = 1
      BY <1>1, <1>2, <2>4, <3>1 DEF PoolTypeOK
    <3> QED BY <3>2 DEF Asked
  <2>6. Drains'
    BY <1>1, <2>1, <2>4, <2>5 DEF Drains
  <2> QED BY <2>2, <2>3, <2>6
<1>4. CASE q # Null
  <2>1. /\ ring' = [ring EXCEPT ![Slot(Len(handled))] = Null]
        /\ handled' = Append(handled, q) /\ query' = q
        /\ pc' = (IF q \in Ranks THEN "write" ELSE "other")
        /\ worker' = [worker EXCEPT !.success = FALSE] /\ shutdown' = shutdown
    BY <1>4 DEF WorkerTake
  <2>2. q \in Queries
    BY <1>2, <1>4, SlotIndex DEF PoolTypeOK, Indices
  <2>3. worker' \in [success : BOOLEAN, failMode : BOOLEAN, read : BOOLEAN, write : BOOLEAN, file : BOOLEAN]
        /\ worker'.file = worker.file
    BY <2>1 DEF PoolTypeOK
  <2>4. PoolTypeOK'
    <3>1. ring' \in [0 .. QueueSize - 1 -> Queries \cup {Null}] /\ pc' \in {"write", "other"}
      BY <2>1 DEF PoolTypeOK
    <3>2. handled' \in Seq(Queries)
      BY <2>1, <2>2, RangeAppend DEF PoolTypeOK
    <3> QED BY <1>1, <1>2, <2>1, <2>2, <2>3, <3>1, <3>2 DEF PoolTypeOK
  <2>5. Range(handled') = Range(handled) \cup {q}
    BY <2>1, <2>2, RangeAppend DEF PoolTypeOK
  <2>6. \A x \in Range(handled) : x = query \/ result[x] # Null
    BY DEF Answers
  <2>7. \A x \in Range(handled) : x # Null
    <3>1. \A i \in DOMAIN handled : handled[i] \in Queries
      BY DEF PoolTypeOK
    <3> QED BY <3>1, PoolAssumption DEF Range
  <2>8. \A x \in Range(handled') : x = query' \/ result'[x] # Null
    BY <1>1, <2>1, <2>5, <2>6, <2>7
  <2>9. Answers'
    BY <1>1, <2>1, <2>2, <2>3, <2>8 DEF Answers
  <2>10. Drains'
    BY <1>1, <2>1 DEF Drains
  <2> QED BY <2>4, <2>9, <2>10
<1> QED BY <1>3, <1>4

LEMMA OtherAnswers ==
  ASSUME PoolTypeOK, Answers, Drains, NEW ok \in BOOLEAN, WorkerOther(ok)
  PROVE  (PoolTypeOK /\ Answers /\ Drains)'
<1>1. /\ pc = "other" /\ pc' = "complete"
      /\ UNCHANGED <<inserted, main, pool, backup, query, result, handled, stored>>
  BY DEF WorkerOther
<1>2. /\ worker' \in [success : BOOLEAN, failMode : BOOLEAN, read : BOOLEAN, write : BOOLEAN, file : BOOLEAN]
      /\ worker.file => worker'.file
  <2> DEFINE success == query \in Adds \/ (worker.read /\ ~shutdown /\ ~worker.failMode /\ ok)
  <2>1. worker' = [worker EXCEPT !.success = success,
                     !.failMode = @ \/ ~success,
                     !.read = @ \/ query = "add_read",
                     !.write = @ \/ query = "add_write",
                     !.file = @ \/ query = "add_backup"]
    BY DEF WorkerOther
  <2>2. success \in BOOLEAN
    OBVIOUS
  <2>3. worker \in [success : BOOLEAN, failMode : BOOLEAN, read : BOOLEAN, write : BOOLEAN, file : BOOLEAN]
    BY DEF PoolTypeOK
  <2> HIDE DEF success
  <2>4. worker' = [success |-> success, failMode |-> worker.failMode \/ ~success,
                   read |-> worker.read \/ query = "add_read", write |-> worker.write \/ query = "add_write",
                   file |-> worker.file \/ query = "add_backup"]
    BY <2>1, <2>3
  <2> QED BY <2>2, <2>3, <2>4
<1>3. PoolTypeOK'
  BY <1>1, <1>2 DEF PoolTypeOK, pool, stored
<1>4. Answers' /\ Drains'
  BY <1>1, <1>2 DEF Answers, Drains, pool, stored
<1> QED BY <1>3, <1>4

LEMMA WriteAnswers ==
  ASSUME PoolTypeOK, Answers, Drains, NEW executed \in BOOLEAN, NEW ok \in BOOLEAN,
         WorkerWrite(executed, ok)
  PROVE  (PoolTypeOK /\ Answers /\ Drains)'
<1> DEFINE success == ~Skips /\ worker.write /\ ok
<1>1. /\ pc = "write" /\ query \in Ranks
      /\ UNCHANGED <<inserted, main, pool, backup, query, result, handled, race, raceBackup, first>>
  BY DEF WorkerWrite, Answers
<1>2. /\ pc' = (IF ~worker.file THEN "complete" ELSE IF success THEN "remove" ELSE "keep")
      /\ remote \subseteq remote' /\ remote' \subseteq remote \cup {query}
      /\ success => query \in remote'
  BY DEF WorkerWrite
<1>3. worker' = [worker EXCEPT !.success = success, !.failMode = @ \/ ~success]
  BY DEF WorkerWrite
<1>4. /\ worker' \in [success : BOOLEAN, failMode : BOOLEAN, read : BOOLEAN, write : BOOLEAN, file : BOOLEAN]
      /\ worker'.file = worker.file
      /\ worker'.success = success
  BY <1>3 DEF PoolTypeOK
<1>5. PoolTypeOK'
  BY <1>1, <1>2, <1>4 DEF PoolTypeOK, pool
<1>6. Answers'
  <2>1. \A q \in Ranks : result'[q] = TRUE => q \in remote' \/ worker'.file
    BY <1>1, <1>2, <1>4 DEF Answers
  <2>2. \A q \in Range(handled') : q = query' \/ result'[q] # Null
    BY <1>1 DEF Answers
  <2>3. pc' \in {"remove", "keep"} => worker'.file
    BY <1>2, <1>4
  <2>4. pc' = "complete" /\ worker'.success => query' \in remote'
    BY <1>1, <1>2, <1>4
  <2>5. pc' \in {"complete", "remove", "keep"} /\ query' \in Ranks
    BY <1>1, <1>2
  <2> QED BY <2>1, <2>2, <2>3, <2>4, <2>5 DEF Answers, Queries
<1>7. Drains'
  BY <1>1, <1>2 DEF Drains, pool
<1> QED BY <1>5, <1>6, <1>7

LEMMA RemoveAnswers ==
  ASSUME PoolTypeOK, Answers, Drains, NEW ok \in BOOLEAN, WorkerRemove(ok) \/ WorkerKeep(ok)
  PROVE  (PoolTypeOK /\ Answers /\ Drains)'
<1>1. /\ pc \in {"remove", "keep"} /\ query \in Ranks /\ worker.file
      /\ pc' \in {"remove", "complete"}
      /\ UNCHANGED <<inserted, main, pool, backup, query, result, handled, remote, first>>
  BY DEF WorkerRemove, WorkerKeep, Answers
<1>2. {race', raceBackup'} \subseteq SUBSET Ranks
  BY DEF WorkerRemove, WorkerKeep, PoolTypeOK
<1>3. /\ worker' \in [success : BOOLEAN, failMode : BOOLEAN, read : BOOLEAN, write : BOOLEAN, file : BOOLEAN]
      /\ worker'.file = worker.file
  BY DEF WorkerRemove, WorkerKeep, PoolTypeOK
<1>4. PoolTypeOK'
  BY <1>1, <1>2, <1>3 DEF PoolTypeOK, pool
<1>5. Answers'
  <2>1. \A q \in Ranks : result'[q] = TRUE => q \in remote' \/ worker'.file
    BY <1>1, <1>3 DEF Answers
  <2>2. \A q \in Range(handled') : q = query' \/ result'[q] # Null
    BY <1>1 DEF Answers
  <2> QED BY <1>1, <1>3, <2>1, <2>2 DEF Answers, Queries
<1>6. Drains'
  BY <1>1 DEF Drains, pool
<1> QED BY <1>4, <1>5, <1>6

LEMMA CompleteAnswers ==
  ASSUME PoolTypeOK, Answers, Drains, WorkerComplete
  PROVE  (PoolTypeOK /\ Answers /\ Drains)'
<1>1. /\ pc = "complete" /\ pc' = "top" /\ query' = Null /\ query \in Queries
      /\ result' = [result EXCEPT ![query] = worker.success]
      /\ UNCHANGED <<inserted, main, pool, backup, worker, handled, stored>>
  BY DEF WorkerComplete, Answers
<1>2. worker.success \in BOOLEAN /\ worker.success # Null
  BY PoolAssumption DEF PoolTypeOK
<1>3. PoolTypeOK'
  BY <1>1, <1>2 DEF PoolTypeOK, pool, stored
<1>4. \A q \in Queries : result'[q] = IF q = query THEN worker.success ELSE result[q]
  BY <1>1 DEF PoolTypeOK
<1>5. \A q \in Ranks : result'[q] = TRUE => q \in remote' \/ worker'.file
  BY <1>1, <1>2, <1>4 DEF Answers, Queries, stored
<1>6. \A q \in Range(handled) : q \in Queries
  <2>1. \A i \in DOMAIN handled : handled[i] \in Queries
    BY DEF PoolTypeOK
  <2> QED BY <2>1 DEF Range
<1>7. \A q \in Range(handled') : q = query' \/ result'[q] # Null
  BY <1>1, <1>2, <1>4, <1>6 DEF Answers
<1>8. Answers'
  BY <1>1, <1>5, <1>7 DEF Answers
<1>9. Drains'
  BY <1>1 DEF Drains, pool
<1> QED BY <1>3, <1>8, <1>9

LEMMA MainAnswers ==
  ASSUME PoolTypeOK, Answers, Drains, OnShutdown \/ LeaveShutdown \/ WorkerTop \/ UNCHANGED poolVars
  PROVE  (PoolTypeOK /\ Answers /\ Drains)'
<1>1. CASE OnShutdown
  <2>1. /\ main = "runs" /\ main' = "waits" /\ shutdown' = TRUE /\ numBackup' = numBackup + 1
        /\ UNCHANGED <<inserted, ring, numWorker, backup, pc, query, worker, result, handled,
                       remote, race, raceBackup, first>>
    BY <1>1 DEF OnShutdown, stored
  <2> QED BY <2>1 DEF PoolTypeOK, Answers, Drains
<1>2. CASE LeaveShutdown
  BY <1>2 DEF LeaveShutdown, pool, stored, PoolTypeOK, Answers, Drains
<1>3. CASE WorkerTop
  <2>1. /\ pc = "top" /\ pc' = "wait"
        /\ UNCHANGED <<inserted, main, ring, shutdown, numBackup, numWorker, backup, query, result,
                       handled, remote, race, raceBackup, first>>
    BY <1>3 DEF WorkerTop, pool, stored
  <2>2. /\ worker' \in [success : BOOLEAN, failMode : BOOLEAN, read : BOOLEAN, write : BOOLEAN, file : BOOLEAN]
        /\ worker'.file = worker.file
    BY <1>3 DEF WorkerTop, PoolTypeOK
  <2> QED BY <2>1, <2>2 DEF PoolTypeOK, Answers, Drains
<1>4. CASE UNCHANGED poolVars
  BY <1>4 DEF poolVars, pool, stored, PoolTypeOK, Answers, Drains
<1> QED BY <1>1, <1>2, <1>3, <1>4

LEMMA StepAnswers ==
  PoolInv /\ Order /\ PoolTypeOK /\ Answers /\ Drains /\ [PoolNext]_poolVars => (PoolTypeOK /\ Answers /\ Drains)'
<1> SUFFICES ASSUME PoolInv, Order, PoolTypeOK, Answers, Drains, [PoolNext]_poolVars
             PROVE  (PoolTypeOK /\ Answers /\ Drains)'
  OBVIOUS
<1>1. RingOK
  BY DEF PoolInv
<1>2. CASE Worker
  <2>1. CASE WorkerTop \/ WorkerTake \/ WorkerComplete
    BY <1>1, <2>1, MainAnswers, TakeAnswers, CompleteAnswers
  <2>2. CASE \E ok \in BOOLEAN : WorkerOther(ok) \/ WorkerRemove(ok) \/ WorkerKeep(ok)
    BY <2>2, OtherAnswers, RemoveAnswers
  <2>3. CASE \E executed, ok \in BOOLEAN : WorkerWrite(executed, ok)
    BY <2>3, WriteAnswers
  <2> QED BY <1>2, <2>1, <2>2, <2>3 DEF Worker
<1>3. CASE OnShutdown \/ LeaveShutdown \/ UNCHANGED poolVars
  BY <1>3, MainAnswers
<1>4. CASE \E q \in Fresh : Execute(q)
  BY <1>4, ExecuteAnswers
<1>5. CASE \E ok \in BOOLEAN : Backup(ok)
  BY <1>5, BackupAnswers
<1>6. PoolNext \/ UNCHANGED poolVars
  OBVIOUS
<1> QED BY <1>2, <1>3, <1>4, <1>5, <1>6, Zenon DEF PoolNext

LEMMA AnswersGiveConsistent ==
  PoolInv /\ Order /\ PoolTypeOK /\ Answers /\ Drains => PoolConsistent
<1> SUFFICES ASSUME PoolInv, Order, PoolTypeOK, Answers, Drains PROVE PoolConsistent
  OBVIOUS
<1>1. SuccessMeansStored
  BY DEF SuccessMeansStored, Answers, Stored, PoolInv, RankKept
<1>2. ASSUME main = "left"
      PROVE  /\ handled = inserted /\ \A q \in Range(inserted) : result[q] # Null
             /\ pc = "left" /\ ~backup.runs
  <2>1. pc = "left" /\ Len(handled) = Len(inserted) /\ query = Null
    BY <1>2 DEF Drains, Answers
  <2>2. handled = inserted
    <3>1. handled \in Seq(Queries) /\ inserted \in Seq(Queries)
      BY DEF PoolTypeOK
    <3>2. \A i \in 1 .. Len(handled) : handled[i] = inserted[i]
      BY DEF Order, Prefix
    <3> QED BY <2>1, <3>1, <3>2
  <2>3. \A q \in Range(handled) : q \in Queries
    <3>1. \A i \in DOMAIN handled : handled[i] \in Queries
      BY DEF PoolTypeOK
    <3> QED BY <3>1 DEF Range
  <2>4. \A q \in Range(inserted) : result[q] # Null
    BY <2>1, <2>2, <2>3, PoolAssumption DEF Answers
  <2>5. ~backup.runs
    <3>1. /\ numWorker + Len(handled) + Left = backup.job + Ended /\ Left = 1
          /\ backup.job <= Len(inserted) /\ numWorker \in Nat /\ backup.job \in Nat
          /\ Len(handled) \in Nat /\ Ended \in {0, 1}
      BY <2>1 DEF Order, Counters, Left, Ended, PoolTypeOK
    <3>2. Ended = 1
      BY <2>1, <3>1
    <3> QED BY <3>2 DEF Ended
  <2> QED BY <2>1, <2>2, <2>4, <2>5
<1> QED BY <1>1, <1>2 DEF PoolConsistent, ShutdownDrains

(* A query reports success only for what is stored, and when OnShutdown    *)
(* returns every query was handled and answered and both threads have      *)
(* ended (CDbConnectionPool::OnShutdown, CBackup and CWorker), whichever   *)
(* database calls fail and however the threads interleave.                 *)
THEOREM PoolAlwaysConsistent == PoolSpec => []PoolConsistent
<1> DEFINE All == PoolInv /\ Order /\ PoolTypeOK /\ Answers /\ Drains
<1>1. PoolInit => All
  BY PoolInitKeeps, InitOrder, InitAnswers
<1>2. All /\ [PoolNext]_poolVars => All'
  BY StepKeeps, StepOrder, StepAnswers
<1>3. All => PoolConsistent
  BY AnswersGiveConsistent
<1> HIDE DEF All
<1> QED BY <1>1, <1>2, <1>3, PTL DEF PoolSpec
=============================================================================
