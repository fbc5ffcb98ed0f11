----------------------------- MODULE ServerSlots -----------------------------
(***************************************************************************)
(* The slots of a game server: the connection of each slot (CNetServer),   *)
(* the client state machine (CServer) and the game's player with its       *)
(* wallet identity (CGameContext). A client comes, rejoins from the same   *)
(* address, times out, is resumed from another slot by its timeout code,   *)
(* is kicked, and the map is reloaded under all of them.                   *)
(*                                                                         *)
(* Everything runs on the server thread: PumpNetwork calls NetUpdate and   *)
(* then handles every packet that has arrived, so a handler is an action.  *)
(* Sequence numbers and resends are NetConn's business. ReconnectClient    *)
(* and RedirectClient have no caller, and debug dummies have no            *)
(* connection: both are left out.                                          *)
(***************************************************************************)
EXTENDS Integers, FiniteSets, FiniteSetsExt, Functions

CONSTANTS
  MaxClients,       \* number of slots
  Addrs,            \* addresses with port of the clients
  Ip,               \* address -> address without port
  MaxClientsPerIp,
  ReservedSlots,    \* sv_reserved_slots
  Codes,            \* timeout codes players choose
  None,
  MaxReloads        \* bound: map reloads

Slots == 0 .. MaxClients - 1
NoCode == ""        \* the code of a player who never chose one

ASSUME SlotsAssumption ==
  /\ MaxClients \in Nat \ {0}
  /\ MaxClientsPerIp \in 1 .. MaxClients
  /\ ReservedSlots \in 0 .. MaxClients
  /\ DOMAIN Ip = Addrs
  /\ NoCode \notin Codes
  /\ None \notin Addrs
  /\ None \notin [owner : Addrs, ready : BOOLEAN, code : Codes \cup {NoCode}]
  /\ MaxReloads \in Nat

VARIABLES
  conn,      \* m_aSlots[s].m_Connection
  client,    \* m_aClients[s]
  player,    \* m_apPlayers[s]
  identity,  \* m_aGameIdentities[s], None or the address whose connection
             \* it was created for
  reloads

vars == <<conn, client, player, identity, reloads>>

-----------------------------------------------------------------------------
Reset == [state |-> "OFFLINE", addr |-> None, token |-> "unknown",
          protected |-> FALSE, situation |-> FALSE]

(* CNetConnection::DirectInit                                              *)
DirectInit(a, token) == [Reset EXCEPT !.state = "ONLINE", !.addr = a, !.token = token]

EmptyClient == [state |-> "EMPTY", rejoin |-> FALSE, persist |-> None]

(* CClient::IsKnownToGame                                                  *)
IsKnownToGame(c) == c.state = "INGAME" \/ c.rejoin

AtLeastReady(c) == c.state \in {"READY", "INGAME"}

(* The clients whose player the game's handlers use                        *)
HasPlayer(c) == AtLeastReady(c) \/ c.rejoin

Init ==
  /\ conn = [s \in Slots |-> Reset]
  /\ client = [s \in Slots |-> EmptyClient]
  /\ player = [s \in Slots |-> None]
  /\ identity = [s \in Slots |-> None]
  /\ reloads = 0

(* What a handler does to one slot.                                        *)
At(s, c, cl, p, i) ==
  /\ conn' = [conn EXCEPT ![s] = c]
  /\ client' = [client EXCEPT ![s] = cl]
  /\ player' = [player EXCEPT ![s] = p]
  /\ identity' = [identity EXCEPT ![s] = i]
  /\ UNCHANGED reloads

ClientBecomes(s, cl) == At(s, conn[s], cl, player[s], identity[s])

-----------------------------------------------------------------------------
(* CServer::DelClientCallback: the game hears of the drop only of a client *)
(* that is READY or INGAME.                                                *)
DroppedPlayer(s) == IF AtLeastReady(client[s]) THEN None ELSE player[s]
DroppedIdentity(s) == IF AtLeastReady(client[s]) THEN None ELSE identity[s]

(* CNetServer::Drop                                                        *)
Drop(s) == At(s, Reset, EmptyClient, DroppedPlayer(s), DroppedIdentity(s))

(* CNetServer::GetClientSlot: the slots that are candidates                *)
SlotsOf(a) == {s \in Slots : conn[s].state = "ONLINE" /\ conn[s].addr = a}

(* A slot that waits for its client to come back                           *)
Waiting(c) == c.state = "ERROR" /\ c.protected /\ c.situation

(* CNetServer::NumClientsWithAddr                                          *)
NumClientsWithAddr_online(a) ==
  Cardinality({s \in Slots : conn[s].state = "ONLINE" /\ Ip[conn[s].addr] = Ip[a]})

NumClientsWithAddr(a) ==
  Cardinality({s \in Slots : /\ conn[s].state = "ONLINE" \/ Waiting(conn[s])
                             /\ Ip[conn[s].addr] = Ip[a]})

FreeSlots == {s \in Slots : conn[s].state = "OFFLINE"}

(* NewClientCallback; after the vanilla handshake NewClientNoAuthCallback  *)
NewClient(vanillaAuth) ==
  [EmptyClient EXCEPT !.state = IF vanillaAuth THEN "CONNECTING" ELSE "PREAUTH"]

(* CServer::ClientRejoinCallback: a client known to the game keeps its     *)
(* player, any other one is dropped and starts over.                       *)
ClientRejoin(s, a, token, vanillaAuth) ==
  IF IsKnownToGame(client[s])
  THEN At(s, DirectInit(a, token),
          [client[s] EXCEPT !.state = "CONNECTING", !.rejoin = TRUE],
          player[s], identity[s])
  ELSE At(s, DirectInit(a, token), NewClient(vanillaAuth),
          DroppedPlayer(s), DroppedIdentity(s))

(* CNetServer::TryAcceptClient. A refusal (also by the rate limit          *)
(* Connlimit) changes nothing.                                             *)
TryAcceptClient(a, token, vanillaAuth) ==
  IF SlotsOf(a) # {}
  THEN ClientRejoin(Min(SlotsOf(a)), a, token, vanillaAuth)
  ELSE /\ NumClientsWithAddr(a) + 1 <= MaxClientsPerIp
       /\ FreeSlots # {}
       /\ LET s == Min(FreeSlots)
          IN  At(s, DirectInit(a, token),
                 [NewClient(vanillaAuth) EXCEPT !.persist = client[s].persist],
                 player[s], identity[s])

(* OnTokenCtrlMsg, OnSixupCtrlMsg: a handshake that proved its token       *)
AcceptToken(a) == TryAcceptClient(a, "token", FALSE)

(* CNetServer::OnPreConnMsg. sv_vanilla_antispoof may be switched at any   *)
(* time. Without it, a vanilla CONNECT is accepted directly.               *)
VanillaSlot(a, tokens) == \A s \in SlotsOf(a) : conn[s].token \in tokens

AcceptVanilla(a) ==
  /\ VanillaSlot(a, {"unknown", "unsupported"})
  /\ TryAcceptClient(a, "unsupported", FALSE)

(* With it, CONNECT takes the token away from a vanilla slot, and an input *)
(* that echoes the vanilla token is accepted.                              *)
VanillaReconnect(a) ==
  /\ SlotsOf(a) # {} /\ VanillaSlot(a, {"unsupported"})
  /\ conn' = [conn EXCEPT ![Min(SlotsOf(a))].token = "unknown"]
  /\ UNCHANGED <<client, player, identity, reloads>>

AcceptVanillaInput(a) ==
  /\ VanillaSlot(a, {"unknown"})
  /\ TryAcceptClient(a, "unsupported", TRUE)

-----------------------------------------------------------------------------
(* Messages of the client in slot s.                                       *)
FromClient(s) == conn[s].state = "ONLINE"

OnNetMsgClientVer(s) ==
  /\ FromClient(s)
  /\ client[s].state = "PREAUTH"
  /\ ClientBecomes(s, [client[s] EXCEPT !.state = "AUTH"])

(* Wrong version or password, or no reserved slot: dropped.                *)
OnNetMsgInfo(s, good, reservedAuth) ==
  /\ FromClient(s)
  /\ client[s].state \in {"PREAUTH", "AUTH"}
  /\ LET connected == Cardinality({t \in Slots : client[t].state # "EMPTY"})
     IN  IF good /\ (connected <= MaxClients - ReservedSlots \/ reservedAuth)
         THEN ClientBecomes(s, [client[s] EXCEPT !.state = "CONNECTING"])
         ELSE Drop(s)

(* CGameContext::CreatePlayer, called by OnClientConnected                 *)
NewPlayer(a) == [owner |-> a, ready |-> FALSE, code |-> NoCode]

OnNetMsgReady_keeps_identity(s) ==
  /\ FromClient(s)
  /\ client[s].state = "CONNECTING"
  /\ LET cl == [client[s] EXCEPT !.state = "READY", !.persist = None]
     IN  IF client[s].rejoin
         THEN ClientBecomes(s, cl)
         ELSE At(s, conn[s], cl, NewPlayer(conn[s].addr),
                 IF identity[s] # None THEN identity[s] ELSE conn[s].addr)

(* A client that rejoins has its player, any other one gets a new one and  *)
(* a new identity.                                                         *)
OnNetMsgReady(s) ==
  /\ FromClient(s)
  /\ client[s].state = "CONNECTING"
  /\ LET cl == [client[s] EXCEPT !.state = "READY", !.persist = None]
     IN  IF client[s].rejoin
         THEN ClientBecomes(s, cl)
         ELSE At(s, conn[s], cl, NewPlayer(conn[s].addr), conn[s].addr)

(* CGameContext::OnStartInfoNetMessage                                     *)
OnStartInfo(s) ==
  /\ FromClient(s)
  /\ AtLeastReady(client[s])
  /\ player[s] # None /\ ~player[s].ready
  /\ At(s, conn[s], client[s], [player[s] EXCEPT !.ready = TRUE], identity[s])

OnNetMsgEnterGame(s) ==
  /\ FromClient(s)
  /\ client[s].state = "READY"
  /\ player[s] # None /\ player[s].ready
  /\ ClientBecomes(s, [client[s] EXCEPT !.state = "INGAME", !.rejoin = FALSE])

-----------------------------------------------------------------------------
(* CServer::SetTimedOut with ResumeOldConnection: slot s, whose connection *)
(* has failed, goes on with the connection of slot o; the client of o is   *)
(* deleted. The timeout situation of s lasts until the next Update.        *)
SetTimedOut_keeps_old(s, o) ==
  /\ conn' = [conn EXCEPT ![s] = [@ EXCEPT !.state = "ONLINE", !.addr = conn[o].addr,
                                           !.token = conn[o].token]]
  /\ client' = [client EXCEPT ![o] = EmptyClient]
  /\ player' = [player EXCEPT ![s].owner = conn[o].addr, ![o] = DroppedPlayer(o)]
  /\ identity' = [identity EXCEPT ![o] = DroppedIdentity(o)]
  /\ UNCHANGED reloads

SetTimedOut(s, o) ==
  /\ conn' = [conn EXCEPT ![s] = [@ EXCEPT !.state = "ONLINE", !.addr = conn[o].addr,
                                           !.token = conn[o].token],
                          ![o] = Reset]
  /\ client' = [client EXCEPT ![o] = EmptyClient]
  /\ player' = [player EXCEPT ![s].owner = conn[o].addr, ![o] = DroppedPlayer(o)]
  /\ identity' = [identity EXCEPT ![o] = DroppedIdentity(o)]
  /\ UNCHANGED reloads

(* The slots of players with this code, other than slot o, that have       *)
(* errored                                                                 *)
Resumable_live(o, code) ==
  {s \in Slots \ {o} : player[s] # None /\ player[s].code = code}

Resumable(o, code) ==
  {s \in Slots \ {o} : player[s] # None /\ player[s].code = code /\ conn[s].state = "ERROR"}

(* CGameContext::ConTimeout, the chat command of the client in slot o.     *)
(* Without an argument its own code is searched, and forgotten.            *)
ConTimeout(o, arg) ==
  /\ FromClient(o)
  /\ client[o].state = "INGAME"
  /\ player[o] # None
  /\ LET code == IF arg = NoCode THEN player[o].code ELSE arg
     IN  IF Resumable(o, code) # {}
         THEN SetTimedOut(Min(Resumable(o, code)), o)
         ELSE At(o, [conn[o] EXCEPT !.protected = TRUE], client[o],
                 [player[o] EXCEPT !.code = arg], identity[o])

-----------------------------------------------------------------------------
(* The peer of slot s closes the connection: CNetConnection::Feed          *)
RecvClose(s) ==
  /\ FromClient(s)
  /\ conn' = [conn EXCEPT ![s].state = "ERROR"]
  /\ UNCHANGED <<client, player, identity, reloads>>

(* CServer::Kick, Ban                                                      *)
Kick(s) ==
  /\ client[s].state # "EMPTY"
  /\ Drop(s)

(* CNetConnection::Update of slot s, when it is silent for m_ConnTimeout,  *)
(* or over: when it waited for m_ConnTimeoutProtection                     *)
Updated(c, silent, over) ==
  IF c.state = "ONLINE"
  THEN IF silent THEN [c EXCEPT !.state = "ERROR", !.situation = TRUE]
       ELSE [c EXCEPT !.situation = FALSE]
  ELSE IF c.state = "ERROR" /\ c.situation /\ over THEN [c EXCEPT !.situation = FALSE]
  ELSE c

(* CNetServer::Update                                                      *)
NetUpdate(silent, over) ==
  LET c == [s \in Slots |-> Updated(conn[s], s \in silent, s \in over)]
      drop == {s \in Slots : c[s].state = "ERROR" /\ ~Waiting(c[s])}
  IN  /\ conn' = [s \in Slots |-> IF s \in drop THEN Reset ELSE c[s]]
      /\ client' = [s \in Slots |-> IF s \in drop THEN EmptyClient ELSE client[s]]
      /\ player' = [s \in Slots |-> IF s \in drop THEN DroppedPlayer(s) ELSE player[s]]
      /\ identity' = [s \in Slots |-> IF s \in drop THEN DroppedIdentity(s) ELSE identity[s]]
      /\ UNCHANGED reloads

(* The map reload in CServer::Run: the game is shut down with all its      *)
(* players, every client past AUTH loads the map again, those known to the *)
(* game keep some data of their player.                                    *)
Reloaded_keeps_rejoin(cl, p) ==
  IF cl.state \in {"EMPTY", "PREAUTH", "AUTH"} THEN cl
  ELSE [cl EXCEPT !.state = "CONNECTING",
                  !.persist = IF IsKnownToGame(cl) /\ p # None THEN p.owner ELSE @]

Reloaded(cl, p) ==
  LET persist == IF IsKnownToGame(cl) THEN IF p = None THEN None ELSE p.owner
                 ELSE cl.persist
  IN  IF cl.state \in {"EMPTY", "PREAUTH", "AUTH"} THEN [cl EXCEPT !.persist = persist]
      ELSE [state |-> "CONNECTING", rejoin |-> FALSE, persist |-> persist]

MapReload ==
  /\ reloads < MaxReloads
  /\ reloads' = reloads + 1
  /\ client' = [s \in Slots |-> Reloaded(client[s], player[s])]
  /\ player' = [s \in Slots |-> None]
  /\ identity' = [s \in Slots |-> None]
  /\ UNCHANGED conn

Next ==
  \/ \E a \in Addrs : \/ AcceptToken(a) \/ AcceptVanilla(a)
                      \/ VanillaReconnect(a) \/ AcceptVanillaInput(a)
  \/ \E s \in Slots :
       \/ OnNetMsgClientVer(s) \/ OnNetMsgReady(s) \/ OnStartInfo(s) \/ OnNetMsgEnterGame(s)
       \/ \E good, reservedAuth \in BOOLEAN : OnNetMsgInfo(s, good, reservedAuth)
       \/ \E arg \in Codes \cup {NoCode} : ConTimeout(s, arg)
       \/ RecvClose(s) \/ Kick(s)
  \/ \E silent \in SUBSET {s \in Slots : conn[s].state = "ONLINE"},
        over \in SUBSET {s \in Slots : conn[s].state = "ERROR" /\ conn[s].situation} :
       NetUpdate(silent, over)
  \/ MapReload

Spec == Init /\ [][Next]_vars

-----------------------------------------------------------------------------
TypeOK ==
  /\ conn \in [Slots -> [state : {"OFFLINE", "ONLINE", "ERROR"}, addr : Addrs \cup {None},
                         token : {"unknown", "unsupported", "token"},
                         protected : BOOLEAN, situation : BOOLEAN]]
  /\ client \in [Slots -> [state : {"EMPTY", "PREAUTH", "AUTH", "CONNECTING", "READY", "INGAME"},
                           rejoin : BOOLEAN, persist : Addrs \cup {None}]]
  /\ player \in [Slots -> {None} \cup [owner : Addrs, ready : BOOLEAN,
                                       code : Codes \cup {NoCode}]]
  /\ identity \in [Slots -> Addrs \cup {None}]
  /\ reloads \in 0 .. MaxReloads

(* The network's slot and the server's client never disagree on whether    *)
(* the slot is taken, whoever frees it: a drop, a failed connection, a     *)
(* takeover.                                                               *)
SlotsAgree == \A s \in Slots :
  /\ conn[s].state = "OFFLINE" <=> client[s].state = "EMPTY"
  /\ conn[s].state = "OFFLINE" <=> conn[s].addr = None

(* The game's handlers use m_apPlayers[ClientId] of a READY or INGAME      *)
(* client, and of one that rejoins, without a test: the player is there,   *)
(* and it is the player of the connection in the slot.                     *)
PlayerBehindClient == \A s \in Slots :
  HasPlayer(client[s]) =>
    /\ player[s] # None
    /\ player[s].owner = conn[s].addr

(* A packet finds its slot by its address: no two live connections share   *)
(* one, although a slot can be resumed under a new address.                *)
OneSlotPerAddress == \A s, t \in Slots :
  conn[s].state = "ONLINE" /\ conn[t].state = "ONLINE" /\ conn[s].addr = conn[t].addr => s = t

(* Network and server agree on who is in which slot.                       *)
SlotsConsistent == TypeOK /\ SlotsAgree /\ OneSlotPerAddress

(* sv_max_clients_per_ip holds for all slots that play or wait for their   *)
(* client, not only at the time a client is accepted.                      *)
PerIpLimit == \A ip \in Range(Ip) :
  Cardinality({s \in Slots : /\ conn[s].state = "ONLINE" \/ conn[s].situation
                             /\ Ip[conn[s].addr] = ip}) <= MaxClientsPerIp

(* What the game persisted of a player over a map reload is given to the   *)
(* client it belonged to, whatever happened to the slot in between.        *)
PersistBelongs == \A s \in Slots :
  client[s].persist # None => client[s].persist = conn[s].addr

(* What a slot keeps for the game belongs to the connection in it.         *)
SlotBelongs == PlayerBehindClient /\ PersistBelongs

(* A player changes its owner only by a takeover with its code, which      *)
(* frees the slot of the new owner, or when a client starts over in a slot *)
(* of which the game never heard of the drop.                              *)
HandedOverByCode == [][\A s \in Slots :
  player[s] # None /\ player'[s] # None /\ player'[s].owner # player[s].owner =>
    \/ /\ conn[s].state = "ERROR"
       /\ \E o \in Slots \ {s} : /\ conn[o].addr = player'[s].owner
                                 /\ client[o].state = "INGAME"
                                 /\ client'[o].state = "EMPTY"
    \/ client[s].state = "CONNECTING" /\ ~client[s].rejoin]_vars

(* A client plays with the identity object of its own connection, whatever *)
(* an earlier client left in the slot, unless it took the slot over: a     *)
(* takeover keeps the identity of the connection that had failed.          *)
IdentityNotInherited == [][\A s \in Slots :
  HasPlayer(client'[s]) /\ identity'[s] # conn'[s].addr =>
    \/ conn[s].state = "ERROR" /\ conn'[s].state = "ONLINE"
    \/ HasPlayer(client[s]) /\ identity[s] # conn[s].addr /\ identity'[s] = identity[s]]_vars
=============================================================================
