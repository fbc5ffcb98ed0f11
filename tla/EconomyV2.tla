------------------------------ MODULE EconomyV2 ------------------------------
(***************************************************************************)
(* One mint's market of the v2 economy program                             *)
(* (onchain/programs/neonrelay-economy/src/lib.rs): entry tickets, refunds,*)
(* prize epochs, claims, the seven-day sweep, parameters and the           *)
(* time-locked authority handover.                                         *)
(*                                                                         *)
(* Every instruction is one atomic action: Solana runs a transaction       *)
(* completely or not at all, so a failing require! or token transfer is an *)
(* action that is not enabled.  A wallet owns one token account of the     *)
(* mint, named after the wallet.  PDA accounts are function values, absent *)
(* ones are NoAccount; `init` needs NoAccount, `close` restores it.        *)
(* The mint authority is revoked, so tokens only move.                     *)
(***************************************************************************)
EXTENDS PrizeTree

CONSTANTS
  Wallets,                   \* keys, each with its token account
  Vault,                     \* the program-owned vault account
  NoKey, NoAccount,          \* Pubkey::default() and an absent PDA
  LegacyAuthority,           \* config.authority of the v1 program
  References,                \* entry references
  Tiers, Fees,               \* config.fees: tier -> fee
  MaxEpoch,                  \* epoch ids are 0..MaxEpoch
  Roots, Totals, LeafCounts, \* what an operator may publish
  Rakes,                     \* rake values an operator may ask for
  MAX_RAKE_BPS, MAX_RAKE_STEP_BPS, RAKE_DENOM,
  MIN_AUTHORITY_DELAY_SLOTS, PRIZE_SWEEP_DELAY_SECONDS,
  InitialBalance,            \* tokens each wallet starts with
  Gifts,                     \* amounts wallets send on their own
  Delegators,                \* wallets that may approve a delegate
  Candidates,                \* keys an authority may nominate
  MaxSlot, MaxTime           \* bounds on the two clocks

Epochs == 0..MaxEpoch
Accounts == Wallets \cup {Vault}

ASSUME KeyAssumption ==
  /\ IsFiniteSet(Wallets)     \* a key has 32 bytes
  /\ Vault \notin Wallets
  /\ NoKey \notin Wallets
  /\ LegacyAuthority \in Wallets
  /\ Delegators \subseteq Wallets
  /\ Candidates \subseteq Wallets

ASSUME AmountAssumption ==
  /\ MaxEpoch \in Nat
  /\ Fees \in [Tiers -> Nat \ {0}]
  /\ Totals \subseteq Nat
  /\ LeafCounts \subseteq Nat
  /\ Rakes \subseteq Nat
  /\ Gifts \subseteq Nat
  /\ InitialBalance \in [Wallets -> Nat]
  /\ RAKE_DENOM \in Nat \ {0}
  /\ MAX_RAKE_BPS \in 0..RAKE_DENOM
  /\ MAX_RAKE_STEP_BPS \in Nat

\* A root commits to leaves of a wallet and an amount.
ASSUME RootAssumption ==
  \A root \in Roots :
    Len(root) \in Nat /\ root \in [1..Len(root) -> Wallets \X Nat]

ASSUME ClockAssumption ==
  /\ MIN_AUTHORITY_DELAY_SLOTS \in Nat
  /\ PRIZE_SWEEP_DELAY_SECONDS \in Nat
  /\ MaxSlot \in Nat
  /\ MaxTime \in Nat

EntryTicketV2 == [amount : Nat, rake : Nat, prize : Nat]
PrizeEpochV2 == [root : Roots, total : Nat,
                 leaf_count : 1..MAX_LEAVES, published_at : Nat]
PendingAuthorityV2 == [new_authority : Wallets, change_slot : Nat]

ASSUME AbsentAssumption ==
  /\ NoAccount \notin EntryTicketV2
  /\ NoAccount \notin PrizeEpochV2
  /\ NoAccount \notin PendingAuthorityV2

VARIABLES
  authority, treasury,  \* EconomyConfigV2.authority, .treasury_ata
  rake_bps, reserved,   \* EconomyConfigV2.rake_bps, .reserved
  paused,               \* EconomyConfigV2.paused
  tickets,              \* tickets[reference][player]: EntryTicketV2 PDAs
  prizes,               \* prizes[epoch]: PrizeEpochV2 PDAs, without the field
  remaining,            \* remaining[epoch], 0 while the PDA does not exist
  claims,               \* claims[epoch][player]: the PrizeClaimV2 PDA's
                        \* amount, 0 while the PDA does not exist
  pending,              \* the PendingAuthorityV2 PDA
  balance,              \* SPL token balances
  unsafe,               \* accounts require_safe_token_account rejects
  slot, now             \* the Clock sysvar: slot and unix_timestamp

config == <<authority, treasury, rake_bps, paused>>
pdas == <<tickets, prizes, remaining, claims, pending>>
clock == <<slot, now>>
vars == <<config, reserved, pdas, balance, unsafe, clock>>

-----------------------------------------------------------------------------
(* Helpers of the program. *)

\* The config PDA exists.
Initialized == authority # NoKey

\* has_one = authority on a signed instruction.
Signs(s) == Initialized /\ s = authority

\* token::transfer between two different accounts.
Transfer(bal, from, to, amount) ==
  [bal EXCEPT ![from] = @ - amount, ![to] = @ + amount]

\* The operator's cut, rounded down; the player's prize share is the rest.
split_fee_v2(fee, bps) ==
  LET rake == (fee * bps) \div RAKE_DENOM
  IN  [amount |-> fee, rake |-> rake, prize |-> fee - rake]

\* The reservation ceiling: a new epoch must fit in the unreserved balance.
CanReserve(total) ==
  /\ total > 0
  /\ balance[Vault] >= reserved
  /\ total <= balance[Vault] - reserved

\* ... and the reservation it leaves behind.
reserve_prizes_v2_overwrites(total) == total
reserve_prizes_v2(total) == reserved + total

\* The treasury account is still the configured one and owned by the authority.
TreasuryUsable == treasury = authority /\ treasury \notin unsafe

\* F-21: the prize share leaves the vault only if what stays covers reserved.
RefundCovered_vault_only(prize) == balance[Vault] >= prize
RefundCovered(prize) == balance[Vault] >= prize /\ balance[Vault] - prize >= reserved

\* The rake step cap: saturating_sub makes every decrease pass.
RakeAllowed(bps) ==
  /\ bps <= MAX_RAKE_BPS
  /\ bps <= rake_bps + MAX_RAKE_STEP_BPS

-----------------------------------------------------------------------------
Init ==
  /\ authority = NoKey /\ treasury = NoKey
  /\ rake_bps = 0 /\ reserved = 0 /\ paused = TRUE
  /\ tickets = [r \in References |-> [p \in Wallets |-> NoAccount]]
  /\ prizes = [e \in Epochs |-> NoAccount]
  /\ remaining = [e \in Epochs |-> 0]
  /\ claims = [e \in Epochs |-> [p \in Wallets |-> 0]]
  /\ pending = NoAccount
  /\ balance = [a \in Accounts |-> IF a = Vault THEN 0 ELSE InitialBalance[a]]
  /\ unsafe = {}
  /\ slot = 0 /\ now = 0

\* Only the legacy operator may open the market, and it opens paused.
initialize_v2(s, bps) ==
  /\ ~Initialized
  /\ s = LegacyAuthority
  /\ bps <= MAX_RAKE_BPS
  /\ authority' = s /\ treasury' = s
  /\ rake_bps' = bps
  /\ paused' = TRUE
  /\ reserved' = 0
  /\ UNCHANGED <<pdas, balance, unsafe, clock>>

set_paused_v2(s, p) ==
  /\ Signs(s)
  /\ paused' = p
  /\ UNCHANGED <<authority, treasury, rake_bps, reserved, pdas, balance, unsafe, clock>>

set_params_v2(s, bps) ==
  /\ Signs(s)
  /\ RakeAllowed(bps)
  /\ rake_bps' = bps
  /\ UNCHANGED <<authority, treasury, paused, reserved, pdas, balance, unsafe, clock>>

\* The ticket records the split, and both shares leave the player together.
pay_entry_v2(p, r, t) ==
  LET split == split_fee_v2(Fees[t], rake_bps) IN
  /\ Initialized /\ ~paused
  /\ tickets[r][p] = NoAccount
  /\ p # treasury /\ p \notin unsafe /\ TreasuryUsable
  /\ balance[p] >= split.amount
  /\ tickets' = [tickets EXCEPT ![r][p] = split]
  /\ balance' = Transfer(Transfer(balance, p, treasury, split.rake),
                         p, Vault, split.prize)
  /\ UNCHANGED <<config, reserved, prizes, remaining, claims, pending, unsafe, clock>>

\* The split a refund pays back: the one the ticket recorded.
RefundSplit_current_rake(ticket) == split_fee_v2(ticket.amount, rake_bps)
RefundSplit(ticket) == ticket

\* Not gated on paused.
refund_entry_v2(s, p, r) ==
  /\ Signs(s)
  /\ tickets[r][p] # NoAccount
  /\ LET split == RefundSplit(tickets[r][p]) IN
     /\ p # treasury /\ p \notin unsafe /\ TreasuryUsable
     /\ split.rake + split.prize = tickets[r][p].amount
     /\ RefundCovered(split.prize)
     /\ balance[treasury] >= split.rake
     /\ balance' = Transfer(Transfer(balance, treasury, p, split.rake),
                            Vault, p, split.prize)
  /\ tickets' = [tickets EXCEPT ![r][p] = NoAccount]
  /\ UNCHANGED <<config, reserved, prizes, remaining, claims, pending, unsafe, clock>>

\* One-way: the epoch PDA must not exist.
publish_prizes_v2(s, e, root, total, leaf_count) ==
  /\ Signs(s) /\ ~paused
  /\ prizes[e] = NoAccount
  /\ leaf_count \in 1..MAX_LEAVES
  /\ CanReserve(total)
  /\ reserved' = reserve_prizes_v2(total)
  /\ prizes' = [prizes EXCEPT ![e] =
                  [root |-> root, total |-> total,
                   leaf_count |-> leaf_count, published_at |-> now]]
  /\ remaining' = [remaining EXCEPT ![e] = total]
  /\ UNCHANGED <<config, tickets, claims, pending, balance, unsafe, clock>>

\* What the epoch and the market must still hold for a claim of this size
\* (the two checked_sub and the token transfer).
ClaimCovered(e, amount) ==
  /\ amount <= remaining[e]
  /\ amount <= reserved
  /\ amount <= balance[Vault]

\* The claim PDA is created, so a second claim of (epoch, player) fails.
ClaimOnce_missing(e, p) == TRUE
ClaimOnce(e, p) == claims[e][p] = 0

claim_prize_v2(p, e, amount) ==
  /\ Initialized /\ ~paused
  /\ amount > 0
  /\ p # treasury /\ p \notin unsafe
  /\ prizes[e] # NoAccount
  /\ Provable(prizes[e].root, prizes[e].leaf_count, p, amount)
  /\ ClaimOnce(e, p)
  /\ ClaimCovered(e, amount)
  /\ remaining' = [remaining EXCEPT ![e] = @ - amount]
  /\ reserved' = reserved - amount
  /\ claims' = [claims EXCEPT ![e][p] = amount]
  /\ balance' = Transfer(balance, Vault, p, amount)
  /\ UNCHANGED <<config, tickets, prizes, pending, unsafe, clock>>

\* Seven days have passed since publication.
Expired_early(e) == now >= prizes[e].published_at
Expired(e) == now >= prizes[e].published_at + PRIZE_SWEEP_DELAY_SECONDS

sweep_expired_prizes_v2(s, e) ==
  /\ Signs(s) /\ ~paused
  /\ prizes[e] # NoAccount
  /\ Expired(e)
  /\ treasury = authority
  /\ LET amount == remaining[e] IN
     /\ amount > 0
     /\ amount <= reserved /\ amount <= balance[Vault]
     /\ reserved' = reserved - amount
     /\ balance' = Transfer(balance, Vault, treasury, amount)
  /\ remaining' = [remaining EXCEPT ![e] = 0]
  /\ UNCHANGED <<config, tickets, prizes, claims, pending, unsafe, clock>>

\* `init` on the pending PDA: an open proposal cannot be overwritten.
propose_authority_change_v2(s, new) ==
  /\ Signs(s)
  /\ pending = NoAccount
  /\ pending' = [new_authority |-> new, change_slot |-> slot]
  /\ UNCHANGED <<config, reserved, tickets, prizes, remaining, claims, balance, unsafe, clock>>

\* The account of the accepting key becomes the treasury.
RotatedTreasury_kept(new) == treasury
RotatedTreasury(new) == new

\* The treasury rotates with the authority; the pending PDA is closed.
accept_authority_change_v2(new) ==
  /\ pending # NoAccount
  /\ pending.new_authority = new
  /\ slot >= pending.change_slot + MIN_AUTHORITY_DELAY_SLOTS
  /\ authority' = new /\ treasury' = RotatedTreasury(new)
  /\ pending' = NoAccount
  /\ UNCHANGED <<rake_bps, paused, reserved, tickets, prizes, remaining, claims,
                 balance, unsafe, clock>>

cancel_authority_change_v2(s) ==
  /\ Signs(s)
  /\ pending # NoAccount
  /\ pending' = NoAccount
  /\ UNCHANGED <<config, reserved, tickets, prizes, remaining, claims, balance, unsafe, clock>>

-----------------------------------------------------------------------------
(* The environment: the SPL token program, and time. *)

\* Anyone may send tokens of their own to any account, the vault included.
ExternalTransfer(from, to, amount) ==
  /\ Initialized
  /\ from # to
  /\ balance[from] >= amount
  /\ balance' = Transfer(balance, from, to, amount)
  /\ UNCHANGED <<config, reserved, pdas, unsafe, clock>>

\* A wallet approves or revokes a delegate on its own token account.
ToggleDelegate(w) ==
  /\ unsafe' = IF w \in unsafe THEN unsafe \ {w} ELSE unsafe \cup {w}
  /\ UNCHANGED <<config, reserved, pdas, balance, clock>>

SlotPasses ==
  /\ slot < MaxSlot
  /\ slot' = slot + 1
  /\ UNCHANGED <<config, reserved, pdas, balance, unsafe, now>>

TimePasses ==
  /\ now < MaxTime
  /\ now' = now + 1
  /\ UNCHANGED <<config, reserved, pdas, balance, unsafe, slot>>

Next ==
  \/ \E s \in Wallets :
       \/ \E bps \in Rakes : initialize_v2(s, bps) \/ set_params_v2(s, bps)
       \/ \E p \in BOOLEAN : set_paused_v2(s, p)
       \/ \E p \in Wallets, r \in References : refund_entry_v2(s, p, r)
       \/ \E e \in Epochs, root \in Roots, total \in Totals, n \in LeafCounts :
            publish_prizes_v2(s, e, root, total, n)
       \/ \E e \in Epochs : sweep_expired_prizes_v2(s, e)
       \/ \E new \in Candidates : propose_authority_change_v2(s, new)
       \/ accept_authority_change_v2(s)
       \/ cancel_authority_change_v2(s)
  \/ \E p \in Wallets :
       \/ \E r \in References, t \in Tiers : pay_entry_v2(p, r, t)
       \/ \E e \in Epochs, amount \in Totals : claim_prize_v2(p, e, amount)
       \/ \E to \in Accounts, amount \in Gifts : ExternalTransfer(p, to, amount)
  \/ \E w \in Delegators : ToggleDelegate(w)
  \/ SlotPasses
  \/ TimePasses

Spec == Init /\ [][Next]_vars

-----------------------------------------------------------------------------
(* Properties. *)

TypeOK ==
  /\ authority \in Wallets \cup {NoKey}
  /\ treasury \in Wallets \cup {NoKey}
  /\ rake_bps \in 0..MAX_RAKE_BPS
  /\ reserved \in Nat
  /\ paused \in BOOLEAN
  /\ tickets \in [References -> [Wallets -> EntryTicketV2 \cup {NoAccount}]]
  /\ prizes \in [Epochs -> PrizeEpochV2 \cup {NoAccount}]
  /\ remaining \in [Epochs -> Nat]
  /\ claims \in [Epochs -> [Wallets -> Nat]]
  /\ pending \in PendingAuthorityV2 \cup {NoAccount}
  /\ balance \in [Accounts -> Nat]
  /\ unsafe \subseteq Wallets
  /\ slot \in Nat /\ now \in Nat

\* The vault always holds what the published epochs still promise, whatever
\* order entries, refunds, publications, claims and sweeps run in.
VaultCoversReserved == balance[Vault] >= reserved

\* `reserved` is exactly the sum of the epochs' unpaid remainders: s is the
\* running sum of remaining over the epoch ids and ends at reserved.
ReservedIsUnpaid ==
  \E s \in [Epochs -> 0..reserved] :
    /\ s[0] = remaining[0]
    /\ \A e \in 1..MaxEpoch : s[e] = s[e - 1] + remaining[e]
    /\ s[MaxEpoch] = reserved

\* An epoch's books balance: what its claim records paid and what remains never
\* exceed the declared total, even for a root that promises more, and until the
\* epoch can be swept they are exactly the total - nothing was paid twice.
EpochBooksBalance ==
  \A e \in Epochs : prizes[e] # NoAccount =>
    LET used == MapThenSumSet(LAMBDA p : claims[e][p], Wallets) + remaining[e]
    IN  /\ used <= prizes[e].total
        /\ now < prizes[e].published_at + PRIZE_SWEEP_DELAY_SECONDS
           => used = prizes[e].total

\* For seven days after publication no other player, epoch, refund or pause
\* cycle can use up a correctly computed leaf: every unclaimed leaf still fits
\* the epoch, the aggregate reservation and the vault.
SevenDayGuarantee ==
  \A e \in Epochs :
    /\ prizes[e] # NoAccount
    /\ HonestTree(prizes[e].root, prizes[e].leaf_count, prizes[e].total)
    /\ now < prizes[e].published_at + PRIZE_SWEEP_DELAY_SECONDS
    => \A i \in 1..Len(prizes[e].root) :
         claims[e][prizes[e].root[i][1]] = 0 => ClaimCovered(e, prizes[e].root[i][2])

\* Honest winners can be paid: the books of every epoch balance and its leaves
\* stay payable until the sweep.
PrizesPayable == TypeOK /\ EpochBooksBalance /\ SevenDayGuarantee

Ledger == INSTANCE PayoutLedger WITH
  Ids <- Epochs, Payees <- Wallets, Amounts <- Totals,
  promised <- [e \in Epochs |-> IF prizes[e] = NoAccount THEN 0 ELSE prizes[e].total],
  left <- remaining,
  paid <- claims

\* The market is a payout ledger: an epoch's total is promised once, a player
\* is paid at most once per epoch and out of what that epoch has left, and no
\* refund, sweep or handover revises a promise or a payment.
ImplementsLedger == Ledger!Spec

\* A refund gives the player back exactly what the entry cost, split between
\* treasury and vault as it was charged, however the rake moved in between.
RefundIsExact ==
  [][\A r \in References, p \in Wallets :
       LET ticket == tickets[r][p] IN
       ticket # NoAccount /\ tickets'[r][p] = NoAccount =>
         /\ balance'[p] = balance[p] + ticket.amount
         /\ balance'[Vault] = balance[Vault] - ticket.prize
         /\ balance'[treasury] = balance[treasury] - ticket.rake]_vars

\* No handover leaves the market without a usable treasury: pay, refund and
\* sweep all insist that the treasury account is owned by the authority.
TreasuryFollowsAuthority == treasury = authority
=============================================================================
