--------------------------- MODULE RewardsProgram ---------------------------
(***************************************************************************)
(* The on-chain rewards program                                            *)
(* (onchain/programs/neonrelay-rewards/src/lib.rs): published epochs, the  *)
(* aggregate reservation, claims and the time-locked authority handover.   *)
(* Every instruction is one atomic action; a failing require! is an action *)
(* that is not enabled.  Nothing leaves the vault but claims.              *)
(***************************************************************************)
EXTENDS PrizeTree

CONSTANTS
  Wallets, NoKey, NoAccount,
  Deployer,                  \* the program's upgrade authority
  MaxEpoch,                  \* epoch ids are 0..MaxEpoch
  Roots, LeafCounts, Totals, \* what an operator may publish
  Supply, Deposits,          \* tokens outside the vault; amounts sent to it
  Candidates,                \* keys an authority may nominate
  Delegators,                \* wallets that may approve a delegate
  MIN_AUTHORITY_DELAY_SLOTS, MaxSlot

Epochs == 0..MaxEpoch

EpochState == [root : Roots, leaf_count : LeafCounts, total_micro : Nat]

ASSUME RewardsAssumption ==
  /\ IsFiniteSet(Wallets)     \* a key has 32 bytes
  /\ NoKey \notin Wallets /\ Deployer \in Wallets
  /\ Candidates \subseteq Wallets /\ Delegators \subseteq Wallets
  /\ NoAccount \notin EpochState
  /\ MaxEpoch \in Nat /\ Supply \in Nat /\ MaxSlot \in Nat
  /\ MIN_AUTHORITY_DELAY_SLOTS \in Nat
  /\ Totals \subseteq Nat /\ Deposits \subseteq Nat /\ LeafCounts \subseteq 0..2^MaxDepth

\* A root commits to leaves of a wallet and an amount.
ASSUME RootAssumption ==
  \A root \in Roots :
    Len(root) \in Nat /\ root \in [1..Len(root) -> Wallets \X Nat]

VARIABLES
  authority, paused, reserved,  \* Config
  pending_authority, authority_change_slot,
  epochs,                       \* EpochState PDAs, without the field
  remaining_micro,              \* 0 while the PDA does not exist
  claims,                       \* ClaimRecord.amount_micro, 0 while absent
  vault, outside,               \* tokens in the vault and elsewhere
  unsafe,                       \* wallets whose token account is refused
  slot,
  nominated_at                  \* history: when a key was last nominated

handover == <<authority, pending_authority, authority_change_slot, nominated_at>>
money == <<reserved, epochs, remaining_micro, claims, vault, outside>>
vars == <<handover, paused, money, unsafe, slot>>

Initialized == authority # NoKey
Signs(s) == Initialized /\ s = authority

Init ==
  /\ authority = NoKey /\ paused = TRUE /\ reserved = 0
  /\ pending_authority = NoKey /\ authority_change_slot = 0
  /\ epochs = [e \in Epochs |-> NoAccount]
  /\ remaining_micro = [e \in Epochs |-> 0]
  /\ claims = [e \in Epochs |-> [p \in Wallets |-> 0]]
  /\ vault = 0 /\ outside = Supply
  /\ unsafe = {} /\ slot = 0
  /\ nominated_at = [k \in Wallets |-> 0]

initialize(s) ==
  /\ ~Initialized
  /\ s = Deployer                     \* verify_bootstrap_authority
  /\ authority' = s /\ paused' = TRUE
  /\ UNCHANGED <<pending_authority, authority_change_slot, nominated_at, money,
                 unsafe, slot>>

\* The vault must hold every earlier promise and the new one.
VaultHolds_new_only(total) == vault >= total
VaultHolds(total) == vault >= reserved + total

\* Works while paused, so that sealed epochs do not pile up.
publish_epoch(s, e, root, leaf_count, total) ==
  /\ Signs(s)
  /\ epochs[e] = NoAccount
  /\ leaf_count > 0 /\ total > 0
  /\ VaultHolds(total)
  /\ epochs' = [epochs EXCEPT ![e] =
                  [root |-> root, leaf_count |-> leaf_count, total_micro |-> total]]
  /\ remaining_micro' = [remaining_micro EXCEPT ![e] = total]
  /\ reserved' = reserved + total
  /\ UNCHANGED <<handover, paused, claims, vault, outside, unsafe, slot>>

set_paused(s, p) ==
  /\ Signs(s)
  /\ paused' = p
  /\ UNCHANGED <<handover, money, unsafe, slot>>

\* A pending nomination is overwritten, and the delay starts again.
NominationSlot_kept == IF pending_authority = NoKey THEN slot ELSE authority_change_slot
NominationSlot == slot

propose_authority_change(s, new) ==
  /\ Signs(s)
  /\ pending_authority' = new
  /\ authority_change_slot' = NominationSlot
  /\ nominated_at' = [nominated_at EXCEPT ![new] = slot]
  /\ UNCHANGED <<authority, paused, money, unsafe, slot>>

accept_authority_change(new) ==
  /\ pending_authority = new
  /\ slot >= authority_change_slot + MIN_AUTHORITY_DELAY_SLOTS
  /\ authority' = new
  /\ pending_authority' = NoKey /\ authority_change_slot' = 0
  /\ UNCHANGED <<nominated_at, paused, money, unsafe, slot>>

\* The claim PDA must not exist.
ClaimOnce_missing(e, p) == TRUE
ClaimOnce(e, p) == claims[e][p] = 0

\* The epoch's ceiling, the aggregate reservation and the vault.
ClaimCovered(e, amount) ==
  amount <= remaining_micro[e] /\ amount <= reserved /\ amount <= vault

claim(p, e, amount) ==
  /\ Initialized /\ ~paused
  /\ amount > 0
  /\ p \notin unsafe
  /\ epochs[e] # NoAccount
  /\ Provable(epochs[e].root, epochs[e].leaf_count, p, amount)
  /\ ClaimOnce(e, p)
  /\ ClaimCovered(e, amount)
  /\ remaining_micro' = [remaining_micro EXCEPT ![e] = @ - amount]
  /\ reserved' = reserved - amount
  /\ claims' = [claims EXCEPT ![e][p] = amount]
  /\ vault' = vault - amount /\ outside' = outside + amount
  /\ UNCHANGED <<handover, paused, epochs, unsafe, slot>>

-----------------------------------------------------------------------------
(* The environment: the SPL token program, and time. *)

Deposit(amount) ==
  /\ Initialized
  /\ amount <= outside
  /\ vault' = vault + amount /\ outside' = outside - amount
  /\ UNCHANGED <<handover, paused, reserved, epochs, remaining_micro, claims, unsafe, slot>>

ToggleDelegate(w) ==
  /\ unsafe' = IF w \in unsafe THEN unsafe \ {w} ELSE unsafe \cup {w}
  /\ UNCHANGED <<handover, paused, money, slot>>

SlotPasses ==
  /\ slot < MaxSlot
  /\ slot' = slot + 1
  /\ UNCHANGED <<handover, paused, money, unsafe>>

Next ==
  \/ \E s \in Wallets :
       \/ initialize(s)
       \/ \E e \in Epochs, root \in Roots, n \in LeafCounts, total \in Totals :
            publish_epoch(s, e, root, n, total)
       \/ \E p \in BOOLEAN : set_paused(s, p)
       \/ \E new \in Candidates : propose_authority_change(s, new)
       \/ accept_authority_change(s)
       \/ \E e \in Epochs, amount \in Totals : claim(s, e, amount)
  \/ \E w \in Delegators : ToggleDelegate(w)
  \/ \E amount \in Deposits : Deposit(amount)
  \/ SlotPasses

Spec == Init /\ [][Next]_vars

-----------------------------------------------------------------------------
(* Properties. *)

TypeOK ==
  /\ authority \in Wallets \cup {NoKey}
  /\ paused \in BOOLEAN
  /\ reserved \in Nat
  /\ pending_authority \in Wallets \cup {NoKey}
  /\ authority_change_slot \in Nat
  /\ epochs \in [Epochs -> EpochState \cup {NoAccount}]
  /\ remaining_micro \in [Epochs -> Nat]
  /\ claims \in [Epochs -> [Wallets -> Nat]]
  /\ vault \in Nat /\ outside \in Nat
  /\ unsafe \subseteq Wallets
  /\ slot \in Nat
  /\ nominated_at \in [Wallets -> Nat]

\* The vault always holds what the published epochs still promise.
VaultCoversReserved == vault >= reserved

\* A correctly computed leaf stays payable until its wallet claims it: no other
\* claim, publication, pause or handover uses up its share, and there is no
\* sweep.
LeafStaysClaimable ==
  \A e \in Epochs :
    /\ epochs[e] # NoAccount
    /\ HonestTree(epochs[e].root, epochs[e].leaf_count, epochs[e].total_micro)
    => \A i \in 1..Len(epochs[e].root) :
         LET p == epochs[e].root[i][1] IN
         claims[e][p] = 0 => ClaimCovered(e, epochs[e].root[i][2])

\* Honest wallets can be paid, for ever: the vault covers the reservation and
\* every unclaimed leaf stays payable.
PrizesPayable == TypeOK /\ VaultCoversReserved /\ LeafStaysClaimable

\* No key becomes the authority before it has been the nominee for the whole
\* delay, however often the operator replaces the nomination.
HandoverWaits ==
  [][authority' # authority /\ Initialized =>
       slot >= nominated_at[authority'] + MIN_AUTHORITY_DELAY_SLOTS]_vars

Ledger == INSTANCE PayoutLedger WITH
  Ids <- Epochs, Payees <- Wallets, Amounts <- Totals,
  promised <- [e \in Epochs |-> IF epochs[e] = NoAccount THEN 0 ELSE epochs[e].total_micro],
  left <- remaining_micro,
  paid <- claims

\* The program is a payout ledger: totals are promised once, every wallet is
\* paid at most once per epoch and out of what the epoch has left.
ImplementsLedger == Ledger!Spec
=============================================================================
