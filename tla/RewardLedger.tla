---------------------------- MODULE RewardLedger ----------------------------
(***************************************************************************)
(* The backend's reward ledger (backend/src/rewards.ts) together with the  *)
(* wallet bindings it credits (backend/src/wallets.ts): ingestion of       *)
(* signed game events, the two-dimensional caps, epoch sealing, claim      *)
(* intents and their confirmation.                                         *)
(*                                                                         *)
(* The backend is one Node process over synchronous SQLite, so a handler   *)
(* without an await runs atomically and is one action; a batch of events   *)
(* is a sequence of ingestOne actions.  An event is a member of Events:    *)
(* its signed fields, which pass validateEvent, are its identity           *)
(* (idempotency_hash); the signature and the wallet_binding_id travel      *)
(* beside it and may differ from one delivery to the next.                 *)
(* Rejected rows keep their status only: every query filters on accepted.  *)
(***************************************************************************)
EXTENDS Integers, FiniteSetsExt

CONSTANTS
  Players, Bindings,        \* player ids; one binding row per wallet key
  None,                     \* NULL
  Events,                   \* signed events, as identities
  match_id, player_id, amount_micro, \* their signed fields, as functions
  game_accounts,            \* operator-provisioned wallet of a player, or None
  capPerMatchMicro, capDailyMicro, capWeeklyMicro,
  DAY_MS, WEEK_MS, epochMs, \* window lengths, in ticks
  Signatures,               \* kinds of signature a delivery carries
  Reports,                  \* claim statuses a client reports
  MaxTime,                  \* bound on the clock
  MaxIntents                \* bound on claim intents

ASSUME EventAssumption ==
  /\ IsFiniteSet(Events) /\ IsFiniteSet(Bindings)   \* rows of two tables
  /\ None \notin Bindings \cup Players
  /\ player_id \in [Events -> Players]
  /\ DOMAIN match_id = Events
  /\ amount_micro \in [Events -> Nat]
  /\ game_accounts \in [Players -> Bindings \cup {None}]
  /\ \A p, q \in Players :   \* game_accounts.wallet is UNIQUE
       game_accounts[p] = game_accounts[q] /\ game_accounts[p] # None => p = q

ASSUME WindowAssumption ==
  /\ {DAY_MS, WEEK_MS, epochMs} \subseteq Nat \ {0}
  /\ Signatures \subseteq {"good", "forged", "missing"}
  /\ Reports \subseteq {"submitted", "confirmed", "failed"}
  /\ {capPerMatchMicro, capDailyMicro, capWeeklyMicro, MaxTime, MaxIntents} \subseteq Nat

Epochs == 0..(MaxTime \div epochMs)

VARIABLES
  playerLinkRequiresRegistration, \* the setting the process was started with
  binding,      \* binding[b]: "active", or "inactive": no row, or a revoked one
  linked,       \* wallet_bindings.player_id
  status,       \* reward_events.status, "none" while there is no row
  wallet,       \* reward_events.wallet_binding_id of accepted rows
  reward_epoch, \* reward_events.reward_epoch of accepted rows
  ingested_at,  \* reward_events.ingested_at of accepted rows
  epoch_state,  \* reward_epochs.state, "absent" while there is no row
  leaves,       \* reward_leaves: leaves[epoch] maps bindings to amounts
  intents,      \* claim_intents.status, "none" while there is no row
  intent_amount,
  now

bindings == <<playerLinkRequiresRegistration, binding, linked>>
events == <<status, wallet, reward_epoch, ingested_at>>
epochs == <<epoch_state, leaves>>
claims == <<intents, intent_amount>>
vars == <<bindings, events, epochs, claims, now>>

-----------------------------------------------------------------------------
(* Queries. *)

SumMicro(S) == MapThenSumSet(LAMBDA e : amount_micro[e], S)
Accepted == {e \in Events : status[e] = "accepted"}

\* The UTC window a time falls into.
windowStart(t, span) == (t \div span) * span

findActiveByPlayerId(p) == {b \in Bindings : binding[b] = "active" /\ linked[b] = p}

\* wallet_bindings_active_player_unique: one active wallet per player.
LinkIsFree_unindexed(b, p) == TRUE
LinkIsFree(b, p) == findActiveByPlayerId(p) \subseteq {b}

\* The wallet a delivery names may receive the player's events: it is active,
\* linked to this player and the player's active wallet.
MayReceive_unlinked_ok(e, w) ==
  /\ binding[w] = "active"
  /\ linked[w] \in {None, player_id[e]}
  /\ findActiveByPlayerId(player_id[e]) \subseteq {w}
MayReceive(e, w) ==
  /\ binding[w] = "active"
  /\ linked[w] = player_id[e]
  /\ findActiveByPlayerId(player_id[e]) \subseteq {w}

\* The binding an event is credited to: the one it names, else the player's
\* active one, else NULL.
ResolvedBinding(e, w) ==
  LET Active == findActiveByPlayerId(player_id[e]) IN
  IF w # None THEN w ELSE IF Active = {} THEN None ELSE CHOOSE b \in Active : TRUE

\* One cap in one dimension: Counted is the set of accepted rows it sums.
Fits(e, Counted, cap) == SumMicro(Counted) + amount_micro[e] <= cap

CapsInDimension_no_week(e, Mine) ==
  /\ Fits(e, {x \in Mine : match_id[x] = match_id[e]}, capPerMatchMicro)
  /\ Fits(e, {x \in Mine : ingested_at[x] >= windowStart(now, DAY_MS)}, capDailyMicro)
CapsInDimension(e, Mine) ==
  /\ Fits(e, {x \in Mine : match_id[x] = match_id[e]}, capPerMatchMicro)
  /\ Fits(e, {x \in Mine : ingested_at[x] >= windowStart(now, DAY_MS)}, capDailyMicro)
  /\ Fits(e, {x \in Mine : ingested_at[x] >= windowStart(now, WEEK_MS)}, capWeeklyMicro)

\* Caps bind the player and, once resolved, the wallet.
WithinCaps_player_only(e, w) ==
  CapsInDimension(e, {x \in Accepted : player_id[x] = player_id[e]})
WithinCaps(e, w) ==
  /\ CapsInDimension(e, {x \in Accepted : player_id[x] = player_id[e]})
  /\ w # None => CapsInDimension(e, {x \in Accepted : wallet[x] = w})

\* The current epoch's row as currentEpoch returns it: created open if absent.
currentEpoch == now \div epochMs
currentState == IF epoch_state[currentEpoch] = "absent" THEN "open"
                ELSE epoch_state[currentEpoch]

\* A row that makes a delivery a duplicate; the other rejections are retried.
IsDuplicate_accepted_only(e) == status[e] = "accepted"
IsDuplicate(e) == status[e] \notin {"none", "rejected_signature", "rejected_validation"}

\* Events are only accepted into an open epoch.
EpochRefuses_never == FALSE
EpochRefuses == currentState # "open"

\* The verdict on a delivery of e naming wallet w, in the order of the checks.
Verdict(e, w, signature) ==
  CASE signature = "missing"                    -> "rejected_validation"
    [] signature = "forged"                     -> "rejected_signature"
    [] signature = "good" /\ EpochRefuses       -> "rejected_epoch_sealed"
    [] signature = "good" /\ ~EpochRefuses /\ w # None /\ ~MayReceive(e, w)
                                                -> "rejected_validation"
    [] OTHER -> IF WithinCaps(e, ResolvedBinding(e, w)) THEN "accepted"
                                                        ELSE "rejected_caps"

-----------------------------------------------------------------------------
Init ==
  /\ playerLinkRequiresRegistration \in BOOLEAN
  /\ binding = [b \in Bindings |-> "inactive"]
  /\ linked = [b \in Bindings |-> None]
  /\ status = [e \in Events |-> "none"]
  /\ wallet = [e \in Events |-> None]
  /\ reward_epoch = [e \in Events |-> 0]
  /\ ingested_at = [e \in Events |-> 0]
  /\ epoch_state = [ep \in Epochs |-> "absent"]
  /\ leaves = [ep \in Epochs |-> [b \in {} |-> 0]]
  /\ intents = [ep \in Epochs |-> [b \in Bindings |-> "none"]]
  /\ intent_amount = [ep \in Epochs |-> [b \in Bindings |-> 0]]
  /\ now = 0

\* A wallet authenticates: its binding is created, or revived if revoked.
upsertBinding(b) ==
  /\ binding[b] # "active"
  /\ binding' = [binding EXCEPT ![b] = "active"]
  /\ UNCHANGED <<playerLinkRequiresRegistration, linked, events, epochs, claims, now>>

\* POST /v1/wallet/link; an existing link is overwritten.
setPlayerLink(b, p) ==
  /\ binding[b] = "active"
  /\ playerLinkRequiresRegistration => game_accounts[p] = b
  /\ LinkIsFree(b, p)
  /\ linked' = [linked EXCEPT ![b] = p]
  /\ UNCHANGED <<playerLinkRequiresRegistration, binding, events, epochs, claims, now>>

\* POST /v1/wallet/unlink: link and binding go in one statement.
unlinkAndRevoke(b) ==
  /\ binding[b] = "active"
  /\ binding' = [binding EXCEPT ![b] = "inactive"]
  /\ linked' = [linked EXCEPT ![b] = None]
  /\ UNCHANGED <<playerLinkRequiresRegistration, events, epochs, claims, now>>

\* One event of a batch.  A retryable rejection is deleted and judged again;
\* a duplicate changes nothing but may still have created the epoch row.
ingestOne(e, w, signature) ==
  LET verdict == Verdict(e, w, signature) IN
  /\ epoch_state' = [epoch_state EXCEPT ![currentEpoch] = currentState]
  /\ IF IsDuplicate(e)
       THEN UNCHANGED events
       ELSE /\ status' = [status EXCEPT ![e] = verdict]
            /\ IF verdict = "accepted"
                 THEN /\ wallet' = [wallet EXCEPT ![e] = ResolvedBinding(e, w)]
                      /\ reward_epoch' = [reward_epoch EXCEPT ![e] = currentEpoch]
                      /\ ingested_at' = [ingested_at EXCEPT ![e] = now]
                 ELSE UNCHANGED <<wallet, reward_epoch, ingested_at>>
  /\ UNCHANGED <<bindings, leaves, claims, now>>

\* The rows of the LEFT JOIN: an event once per active binding of its player,
\* or once with None, and the binding COALESCE credits the row to.
EventsOf(ep) == {e \in Accepted : reward_epoch[e] = ep}
JoinRows(ep) ==
  UNION { LET Active == findActiveByPlayerId(player_id[e])
          IN  {e} \X (IF Active = {} THEN {None} ELSE Active) : e \in EventsOf(ep) }
Credited(row) == IF wallet[row[1]] # None THEN wallet[row[1]] ELSE row[2]

\* One leaf per credited binding, the sum of its rows.
SealedLeaves(ep) ==
  [b \in {Credited(row) : row \in JoinRows(ep)} \ {None} |->
     MapThenSumSet(LAMBDA row : amount_micro[row[1]],
                   {row \in JoinRows(ep) : Credited(row) = b})]

\* INSERT of new rows into a table, as a function on the keys.
Inserted(rows, table) ==
  [b \in DOMAIN rows \cup DOMAIN table |-> IF b \in DOMAIN rows THEN rows[b] ELSE table[b]]

Sealable(ep) == epoch_state[ep] = "open"

\* The current epoch may be sealed too.
sealEpoch(ep) ==
  /\ Sealable(ep)
  /\ DOMAIN leaves[ep] \cap DOMAIN SealedLeaves(ep) = {}  \* reward_leaves' key
  /\ leaves' = [leaves EXCEPT ![ep] = Inserted(SealedLeaves(ep), @)]
  /\ epoch_state' = [epoch_state EXCEPT ![ep] = "sealed"]
  /\ UNCHANGED <<bindings, events, claims, now>>

\* Idempotent: an existing intent is returned as it is.
claimIntent(b, ep) ==
  /\ binding[b] = "active"
  /\ epoch_state[ep] = "sealed"
  /\ b \in DOMAIN leaves[ep]
  /\ intents[ep][b] = "none"
  /\ Cardinality({x \in Epochs \X Bindings : intents[x[1]][x[2]] # "none"}) < MaxIntents
  /\ intents' = [intents EXCEPT ![ep][b] = "created"]
  /\ intent_amount' = [intent_amount EXCEPT ![ep][b] = leaves[ep][b]]
  /\ UNCHANGED <<bindings, events, epochs, now>>

\* confirmed is terminal; any other status may be replaced by any report.
ConfirmationOpen(st) == st \notin {"none", "confirmed"}

claimConfirmation(b, ep, report) ==
  /\ binding[b] = "active"
  /\ ConfirmationOpen(intents[ep][b])
  /\ intents' = [intents EXCEPT ![ep][b] = report]
  /\ UNCHANGED <<bindings, events, epochs, intent_amount, now>>

Tick ==
  /\ now < MaxTime
  /\ now' = now + 1
  /\ UNCHANGED <<bindings, events, epochs, claims>>

Next ==
  \/ \E b \in Bindings :
       \/ upsertBinding(b)
       \/ unlinkAndRevoke(b)
       \/ \E p \in Players : setPlayerLink(b, p)
       \/ \E ep \in Epochs :
            \/ claimIntent(b, ep)
            \/ \E r \in Reports :
                 claimConfirmation(b, ep, r)
  \/ \E e \in Events, w \in Bindings \cup {None}, s \in Signatures :
       ingestOne(e, w, s)
  \/ \E ep \in Epochs : sealEpoch(ep)
  \/ Tick

Spec == Init /\ [][Next]_vars

-----------------------------------------------------------------------------
(* Properties. *)

SumLeaves(ep) == MapThenSumSet(LAMBDA b : leaves[ep][b], DOMAIN leaves[ep])
SealedEpochs == {ep \in Epochs : epoch_state[ep] = "sealed"}

TypeOK ==
  /\ playerLinkRequiresRegistration \in BOOLEAN
  /\ binding \in [Bindings -> {"inactive", "active"}]
  /\ linked \in [Bindings -> Players \cup {None}]
  /\ status \in [Events -> {"none", "accepted", "rejected_signature", "rejected_caps",
                            "rejected_validation", "rejected_epoch_sealed"}]
  /\ wallet \in [Events -> Bindings \cup {None}]
  /\ reward_epoch \in [Events -> Epochs]
  /\ ingested_at \in [Events -> 0..MaxTime]
  /\ epoch_state \in [Epochs -> {"absent", "open", "sealed"}]
  /\ DOMAIN leaves = Epochs
  /\ \A ep \in Epochs : DOMAIN leaves[ep] \subseteq Bindings
                        /\ leaves[ep] \in [DOMAIN leaves[ep] -> Nat]
  /\ intents \in [Epochs -> [Bindings ->
                    {"none", "created", "submitted", "confirmed", "failed"}]]
  /\ intent_amount \in [Epochs -> [Bindings -> Nat]]
  /\ now \in 0..MaxTime

\* Whatever the order of deliveries, links, unlinks and retries, the accepted
\* rows of a player, and those of a wallet, stay within the match, day and week
\* caps in every window.
WithinEveryWindow(Mine) ==
  /\ \A e \in Mine :
       SumMicro({x \in Mine : match_id[x] = match_id[e]}) <= capPerMatchMicro
  /\ \A t \in 0..MaxTime :
       /\ SumMicro({x \in Mine : ingested_at[x] \div DAY_MS = t \div DAY_MS}) <= capDailyMicro
       /\ SumMicro({x \in Mine : ingested_at[x] \div WEEK_MS = t \div WEEK_MS}) <= capWeeklyMicro
CapsHold ==
  /\ \A p \in Players : WithinEveryWindow({e \in Accepted : player_id[e] = p})
  /\ \A b \in Bindings : WithinEveryWindow({e \in Accepted : wallet[e] = b})

\* No accepted event is left out of its sealed epoch's tree: an event that is
\* bound to a wallet is part of that wallet's leaf, and no leaf is inflated.
LeavesCoverEvents ==
  \A ep \in SealedEpochs :
    /\ SumLeaves(ep) <= SumMicro(EventsOf(ep))
    /\ \A b \in Bindings :
         LET Bound == {e \in EventsOf(ep) : wallet[e] = b} IN
         Bound # {} => b \in DOMAIN leaves[ep] /\ leaves[ep][b] >= SumMicro(Bound)

\* The tables are consistent: rows are well formed and sealed leaves agree with
\* the accepted events of their epoch.
LedgerConsistent == TypeOK /\ LeavesCoverEvents

\* At the moment of sealing every event somebody can be paid for is paid, and
\* it is paid once, although wallets are linked, moved and revoked until then.
EventPaidOnce ==
  [][\A ep \in Epochs : epoch_state[ep] # "sealed" /\ epoch_state'[ep] = "sealed" =>
       SumLeaves(ep)' = SumMicro({e \in EventsOf(ep) :
                           wallet[e] # None \/ findActiveByPlayerId(player_id[e]) # {}})]_vars

\* What is decided is final, whatever is delivered, linked, revoked or reported
\* later: the leaves of a sealed epoch; a verdict other than a retryable
\* rejection, so that an event refused by a cap or by a sealed epoch cannot be
\* replayed into a later window or epoch; and a confirmed claim.
DecidedIsFinal ==
  [][/\ \A ep \in SealedEpochs : epoch_state'[ep] = "sealed" /\ leaves'[ep] = leaves[ep]
     /\ \A e \in Events :
          status[e] \in {"accepted", "rejected_caps", "rejected_epoch_sealed"} =>
            /\ status'[e] = status[e] /\ wallet'[e] = wallet[e]
            /\ reward_epoch'[e] = reward_epoch[e]
     /\ \A ep \in Epochs, b \in Bindings :
          intents[ep][b] = "confirmed" => intents'[ep][b] = "confirmed"]_vars

\* The unsigned wallet_binding_id carries no authority (CRIT-02): an event is
\* bound only to an active wallet linked to the player who earned it.
CreditedToItsPlayer ==
  [][\A e \in Events : wallet[e] = None /\ wallet'[e] # None =>
       binding[wallet'[e]] = "active" /\ linked[wallet'[e]] = player_id[e]]_vars

\* Where epochs are weeks (the defaults) and only registered wallets may be
\* linked, a wallet's leaf is within the weekly cap, although events earned
\* before the link are credited when the epoch is sealed: "if wallet linked,
\* wallet cap is the stable identity" (rewards.ts:273).
LeafWithinWeeklyCap ==
  playerLinkRequiresRegistration =>
    \A ep \in SealedEpochs : \A b \in DOMAIN leaves[ep] : leaves[ep][b] <= capWeeklyMicro
=============================================================================
