------------------------------ MODULE EconomyV1 ------------------------------
(***************************************************************************)
(* The v1 economy program (onchain/programs/neonrelay-economy/src/lib.rs): *)
(* one market whose fees the operator may change, entries that are never   *)
(* refunded, prize epochs, claims, the seven-day sweep and a handover kept *)
(* in the config account.                                                  *)
(*                                                                         *)
(* Conventions as in EconomyV2: an instruction is one atomic action, a     *)
(* failing require! an action that is not enabled, a wallet owns one token *)
(* account of the mint, and an absent PDA is NoAccount or amount 0.        *)
(* Unlike v2, a nomination may be replaced and not cancelled, and the      *)
(* epoch's `total` is itself used up by claims and by the sweep.           *)
(***************************************************************************)
EXTENDS PrizeTree

CONSTANTS
  Wallets, Vault, NoKey, NoAccount,
  Deployer,                  \* the program's upgrade authority
  References,                \* entry references
  MaxEpoch,                  \* epoch ids are 0..MaxEpoch
  Roots, Totals, LeafCounts, \* what an operator may publish
  Rakes, FeeTables,          \* parameters an operator may ask for
  MAX_RAKE_BPS, MAX_RAKE_STEP_BPS, RAKE_DENOM, MAX_ENTRY_FEE,
  MIN_AUTHORITY_DELAY_SLOTS, PRIZE_SWEEP_DELAY_SECONDS,
  InitialBalance,            \* tokens each wallet starts with
  Deposits,                  \* amounts wallets send to the vault
  Delegators,                \* wallets that may approve a delegate
  Candidates,                \* keys an authority may nominate
  MaxSlot, MaxTime           \* bounds on the two clocks

Epochs == 0..MaxEpoch
Accounts == Wallets \cup {Vault}
Kinds == {"match", "tournament"}  \* ENTRY_KIND_MATCH, ENTRY_KIND_TOURNAMENT

PrizeEpoch == [root : Roots, leaf_count : 1..MAX_LEAVES, published_at : Nat]

ASSUME MarketAssumption ==
  /\ IsFiniteSet(Wallets)     \* a key has 32 bytes
  /\ Vault \notin Wallets /\ NoKey \notin Wallets /\ Deployer \in Wallets
  /\ Delegators \subseteq Wallets /\ Candidates \subseteq Wallets
  /\ NoAccount \notin PrizeEpoch
  /\ FeeTables \subseteq [Kinds -> Nat]
  /\ Totals \subseteq Nat /\ LeafCounts \subseteq Nat /\ Rakes \subseteq Nat
  /\ Deposits \subseteq Nat /\ InitialBalance \in [Wallets -> Nat]
  /\ MaxEpoch \in Nat /\ MaxSlot \in Nat /\ MaxTime \in Nat
  /\ MIN_AUTHORITY_DELAY_SLOTS \in Nat /\ PRIZE_SWEEP_DELAY_SECONDS \in Nat
  /\ RAKE_DENOM \in Nat \ {0} /\ MAX_RAKE_BPS \in 0..RAKE_DENOM
  /\ MAX_RAKE_STEP_BPS \in Nat /\ MAX_ENTRY_FEE \in Nat

\* A root commits to leaves of a wallet and an amount.
ASSUME RootAssumption ==
  \A root \in Roots :
    Len(root) \in Nat /\ root \in [1..Len(root) -> Wallets \X Nat]

VARIABLES
  authority, treasury,  \* EconomyConfig.authority, .treasury_ata
  rake_bps, fees,       \* .rake_bps, and .fee_match and .fee_tournament
  paused, reserved,     \* .paused, .reserved
  pending_authority, authority_change_slot,
  tickets,              \* tickets[reference][player]: EntryTicket.amount
  prizes,               \* prizes[epoch]: PrizeEpoch PDAs, without the field
  total,                \* total[epoch], which counts down
  claims,               \* claims[epoch][player]: PrizeClaim.amount
  balance,              \* SPL token balances
  unsafe,               \* wallets require_safe_token_account rejects
  slot, now,            \* the Clock sysvar
  nominated_at,         \* history: slot of a key's last nomination
  declared              \* history: total[epoch] at publication

params == <<rake_bps, fees>>
handover == <<authority, treasury, pending_authority, authority_change_slot, nominated_at>>
epochs == <<reserved, prizes, total, claims, declared>>
clock == <<slot, now>>
vars == <<params, paused, handover, epochs, tickets, balance, unsafe, clock>>

Initialized == authority # NoKey
Signs(s) == Initialized /\ s = authority

\* token::transfer between two different accounts.
Transfer(bal, from, to, amount) ==
  [bal EXCEPT ![from] = @ - amount, ![to] = @ + amount]

\* Fees are positive and below the ceiling, at bootstrap and afterwards.
FeesAllowed(f) == \A k \in Kinds : f[k] > 0 /\ f[k] <= MAX_ENTRY_FEE

\* saturating_sub: every decrease passes, a raise is bounded by the step.
RakeStepAllowed(bps) == bps <= rake_bps + MAX_RAKE_STEP_BPS

-----------------------------------------------------------------------------
Init ==
  /\ authority = NoKey /\ treasury = NoKey
  /\ rake_bps = 0 /\ fees = [k \in Kinds |-> 0]
  /\ paused = TRUE /\ reserved = 0
  /\ pending_authority = NoKey /\ authority_change_slot = 0
  /\ tickets = [r \in References |-> [p \in Wallets |-> 0]]
  /\ prizes = [e \in Epochs |-> NoAccount]
  /\ total = [e \in Epochs |-> 0]
  /\ claims = [e \in Epochs |-> [p \in Wallets |-> 0]]
  /\ balance = [a \in Accounts |-> IF a = Vault THEN 0 ELSE InitialBalance[a]]
  /\ unsafe = {} /\ slot = 0 /\ now = 0
  /\ nominated_at = [k \in Wallets |-> 0]
  /\ declared = [e \in Epochs |-> 0]

\* The bootstrap signer is the upgrade authority; the market opens paused.
initialize(s, bps, f) ==
  /\ ~Initialized
  /\ s = Deployer                     \* verify_bootstrap_authority
  /\ bps <= MAX_RAKE_BPS /\ FeesAllowed(f)
  /\ authority' = s /\ treasury' = s
  /\ rake_bps' = bps /\ fees' = f
  /\ paused' = TRUE
  /\ UNCHANGED <<pending_authority, authority_change_slot, nominated_at, epochs,
                 tickets, balance, unsafe, clock>>

set_params(s, bps, f) ==
  /\ Signs(s)
  /\ bps <= MAX_RAKE_BPS /\ FeesAllowed(f) /\ RakeStepAllowed(bps)
  /\ rake_bps' = bps /\ fees' = f
  /\ UNCHANGED <<paused, handover, epochs, tickets, balance, unsafe, clock>>

set_paused(s, p) ==
  /\ Signs(s)
  /\ paused' = p
  /\ UNCHANGED <<params, handover, epochs, tickets, balance, unsafe, clock>>

\* A pending nomination is overwritten, and its delay starts again.
NominationSlot_kept == IF pending_authority = NoKey THEN slot ELSE authority_change_slot
NominationSlot == slot

propose_authority_change(s, new) ==
  /\ Signs(s)
  /\ pending_authority' = new
  /\ authority_change_slot' = NominationSlot
  /\ nominated_at' = [nominated_at EXCEPT ![new] = slot]
  /\ UNCHANGED <<authority, treasury, params, paused, epochs, tickets, balance, unsafe, clock>>

\* The nominee's own token account becomes the treasury.
accept_authority_change(new) ==
  /\ pending_authority = new
  /\ slot >= authority_change_slot + MIN_AUTHORITY_DELAY_SLOTS
  /\ authority' = new /\ treasury' = new
  /\ pending_authority' = NoKey /\ authority_change_slot' = 0
  /\ UNCHANGED <<nominated_at, params, paused, epochs, tickets, balance, unsafe, clock>>

\* The accounts of PayEntry: the ticket PDA is created, so a second payment of
\* (reference, player) fails; the treasury still belongs to the authority.
PayEntry(p, r) == tickets[r][p] = 0 /\ treasury = authority

\* The fee in force is split between treasury and vault.
pay_entry(p, r, kind) ==
  LET rake == (fees[kind] * rake_bps) \div RAKE_DENOM IN
  /\ Initialized /\ ~paused
  /\ PayEntry(p, r)
  /\ p # treasury
  /\ p \notin unsafe /\ treasury \notin unsafe
  /\ balance[p] >= fees[kind]
  /\ tickets' = [tickets EXCEPT ![r][p] = fees[kind]]
  /\ balance' = Transfer(Transfer(balance, p, treasury, rake), p, Vault, fees[kind] - rake)
  /\ UNCHANGED <<params, paused, handover, epochs, unsafe, clock>>

\* The new epoch must fit in what is not reserved for the earlier ones.
FreeCovers(amount) ==
  balance[Vault] >= amount /\ balance[Vault] >= reserved /\ amount <= balance[Vault] - reserved

\* The accounts of PublishPrizes: the epoch PDA is created, one-way.
PublishPrizes(s, e) == Signs(s) /\ prizes[e] = NoAccount

publish_prizes(s, e, root, amount, leaf_count) ==
  /\ PublishPrizes(s, e) /\ ~paused
  /\ amount > 0 /\ leaf_count \in 1..MAX_LEAVES
  /\ FreeCovers(amount)
  /\ reserved' = reserved + amount
  /\ prizes' = [prizes EXCEPT ![e] =
                  [root |-> root, leaf_count |-> leaf_count, published_at |-> now]]
  /\ total' = [total EXCEPT ![e] = amount]
  /\ declared' = [declared EXCEPT ![e] = amount]
  /\ UNCHANGED <<params, paused, handover, claims, tickets, balance, unsafe, clock>>

\* The epoch's remaining budget, the aggregate reservation and the vault.
ClaimCovered_no_ceiling(e, amount) == amount <= reserved /\ amount <= balance[Vault]
ClaimCovered(e, amount) ==
  amount <= total[e] /\ amount <= reserved /\ amount <= balance[Vault]

\* The accounts of ClaimPrize: the epoch exists, the claim PDA is created.
ClaimPrize(p, e) == prizes[e] # NoAccount /\ claims[e][p] = 0

claim_prize(p, e, amount) ==
  /\ Initialized /\ ~paused
  /\ amount > 0 /\ p \notin unsafe
  /\ ClaimPrize(p, e)
  /\ Provable(prizes[e].root, prizes[e].leaf_count, p, amount)
  /\ ClaimCovered(e, amount)
  /\ total' = [total EXCEPT ![e] = @ - amount]
  /\ reserved' = reserved - amount
  /\ claims' = [claims EXCEPT ![e][p] = amount]
  /\ balance' = Transfer(balance, Vault, p, amount)
  /\ UNCHANGED <<params, paused, handover, prizes, declared, tickets, unsafe, clock>>

\* Seven days have passed since publication.
Expired_early(e) == now >= prizes[e].published_at
Expired(e) == now >= prizes[e].published_at + PRIZE_SWEEP_DELAY_SECONDS

\* The accounts of SweepPrizes.
SweepPrizes(s, e) == Signs(s) /\ prizes[e] # NoAccount /\ treasury = authority

sweep_expired_prizes(s, e) ==
  /\ SweepPrizes(s, e) /\ ~paused
  /\ Expired(e)
  /\ total[e] > 0 /\ total[e] <= reserved /\ total[e] <= balance[Vault]
  /\ reserved' = reserved - total[e]
  /\ balance' = Transfer(balance, Vault, treasury, total[e])
  /\ total' = [total EXCEPT ![e] = 0]
  /\ UNCHANGED <<params, paused, handover, prizes, claims, declared, tickets, unsafe, clock>>

-----------------------------------------------------------------------------
(* The environment: the SPL token program, and time. *)

\* Anyone may send tokens to the vault.  Transfers between wallets are left
\* out: v1 pays nothing out of a wallet that its owner does not sign for.
Deposit(from, amount) ==
  /\ Initialized
  /\ balance[from] >= amount
  /\ balance' = Transfer(balance, from, Vault, amount)
  /\ UNCHANGED <<params, paused, handover, epochs, tickets, unsafe, clock>>

\* A wallet approves or revokes a delegate on its own token account.
ToggleDelegate(w) ==
  /\ unsafe' = IF w \in unsafe THEN unsafe \ {w} ELSE unsafe \cup {w}
  /\ UNCHANGED <<params, paused, handover, epochs, tickets, balance, clock>>

SlotPasses ==
  /\ slot < MaxSlot
  /\ slot' = slot + 1
  /\ UNCHANGED <<params, paused, handover, epochs, tickets, balance, unsafe, now>>

TimePasses ==
  /\ now < MaxTime
  /\ now' = now + 1
  /\ UNCHANGED <<params, paused, handover, epochs, tickets, balance, unsafe, slot>>

Next ==
  \/ \E s \in Wallets :
       \/ \E bps \in Rakes, f \in FeeTables : initialize(s, bps, f) \/ set_params(s, bps, f)
       \/ \E p \in BOOLEAN : set_paused(s, p)
       \/ \E new \in Candidates : propose_authority_change(s, new)
       \/ accept_authority_change(s)
       \/ \E e \in Epochs, root \in Roots, amount \in Totals, n \in LeafCounts :
            publish_prizes(s, e, root, amount, n)
       \/ \E e \in Epochs : sweep_expired_prizes(s, e)
       \/ \E r \in References, kind \in Kinds : pay_entry(s, r, kind)
       \/ \E e \in Epochs, amount \in Totals : claim_prize(s, e, amount)
       \/ \E amount \in Deposits : Deposit(s, amount)
  \/ \E w \in Delegators : ToggleDelegate(w)
  \/ SlotPasses
  \/ TimePasses

Spec == Init /\ [][Next]_vars

-----------------------------------------------------------------------------
(* Properties. *)

TypeOK ==
  /\ authority \in Wallets \cup {NoKey} /\ treasury \in Wallets \cup {NoKey}
  /\ rake_bps \in 0..MAX_RAKE_BPS /\ fees \in [Kinds -> Nat]
  /\ paused \in BOOLEAN /\ reserved \in Nat
  /\ pending_authority \in Wallets \cup {NoKey} /\ authority_change_slot \in Nat
  /\ tickets \in [References -> [Wallets -> Nat]]
  /\ prizes \in [Epochs -> PrizeEpoch \cup {NoAccount}]
  /\ total \in [Epochs -> Nat] /\ declared \in [Epochs -> Nat]
  /\ claims \in [Epochs -> [Wallets -> Nat]]
  /\ balance \in [Accounts -> Nat]
  /\ unsafe \subseteq Wallets
  /\ slot \in Nat /\ now \in Nat
  /\ nominated_at \in [Wallets -> Nat]

\* The vault always holds what the published epochs still promise: publications
\* out of the same vault never promise a token twice (the note CRITICAL-01).
VaultCoversReserved == balance[Vault] >= reserved

\* For seven days after publication every leaf of a correctly computed table
\* that has not been claimed still fits its epoch, the reservation and the
\* vault, although `total` counts down with every other claim.
SevenDayGuarantee ==
  \A e \in Epochs :
    /\ prizes[e] # NoAccount
    /\ HonestTree(prizes[e].root, prizes[e].leaf_count, declared[e])
    /\ now < prizes[e].published_at + PRIZE_SWEEP_DELAY_SECONDS
    => \A i \in 1..Len(prizes[e].root) :
         claims[e][prizes[e].root[i][1]] = 0 => ClaimCovered(e, prizes[e].root[i][2])

\* Honest winners can be paid: the vault covers the reservation and the leaves
\* of every epoch stay payable until the sweep.
PrizesPayable == TypeOK /\ VaultCoversReserved /\ SevenDayGuarantee

\* No key takes over before it has been the nominee for the whole delay, and
\* the treasury changes hands with the authority, so that entries and sweeps,
\* which insist on a treasury of the authority, still go through.
HandoverWaits ==
  [][authority' # authority /\ Initialized =>
       /\ slot >= nominated_at[authority'] + MIN_AUTHORITY_DELAY_SLOTS
       /\ treasury' = authority']_vars

Ledger == INSTANCE PayoutLedger WITH
  Ids <- Epochs, Payees <- Wallets, Amounts <- Totals,
  promised <- declared, left <- total, paid <- claims

\* The market is a payout ledger: an epoch's total is promised once, a player
\* is paid at most once per epoch and out of what that epoch has left.
ImplementsLedger == Ledger!Spec
=============================================================================
