-------------------------- MODULE EconomyV2Proofs --------------------------
(***************************************************************************)
(* Proofs about one v2 market, for every set of wallets, every number of   *)
(* epochs, every fee table and every rake.                                 *)
(***************************************************************************)
EXTENDS EconomyV2, FiniteSums, WellFoundedInduction, TLAPS

USE DEF Epochs, MAX_LEAVES

-----------------------------------------------------------------------------
(* Arithmetic of the fee split. *)

\* Multiplying both sides of an inequality by a natural number keeps it.
LEMMA MultMono ==
  ASSUME NEW a \in Nat, NEW b \in Nat, NEW c \in Nat, a <= b
  PROVE  c * a <= c * b
BY SMT

\* split_fee_v2 never charges more rake than the fee: the two shares are
\* natural numbers that add up to the fee again.
LEMMA SplitIsExact ==
  ASSUME NEW fee \in Nat, NEW bps \in 0..MAX_RAKE_BPS
  PROVE  LET split == split_fee_v2(fee, bps)
         IN  /\ split \in EntryTicketV2
             /\ split.amount = fee
             /\ split.rake + split.prize = fee
<1> DEFINE q == (fee * bps) \div RAKE_DENOM
<1>1. RAKE_DENOM \in Nat /\ RAKE_DENOM > 0 /\ bps \in Nat /\ bps <= RAKE_DENOM
  BY AmountAssumption
<1>2. fee * bps \in Nat /\ fee * RAKE_DENOM \in Nat /\ fee * bps <= fee * RAKE_DENOM
  BY <1>1, MultMono
<1>3. q \in Nat /\ RAKE_DENOM * q <= fee * bps
  BY <1>1, <1>2
<1>4. q <= fee
  <2>1. SUFFICES ASSUME fee + 1 <= q PROVE FALSE
    BY <1>3
  <2>2. RAKE_DENOM * (fee + 1) <= RAKE_DENOM * q
    BY <1>1, <1>3, <2>1, MultMono
  <2>3. RAKE_DENOM * (fee + 1) = fee * RAKE_DENOM + RAKE_DENOM
    BY <1>1
  <2>4. QED
    BY <1>1, <1>2, <1>3, <2>2, <2>3
<1>5. QED
  BY <1>3, <1>4 DEF split_fee_v2, EntryTicketV2

-----------------------------------------------------------------------------
(* Token transfers. *)

\* A covered transfer between two accounts moves the amount and nothing else.
LEMMA TransferMoves ==
  ASSUME NEW bal \in [Accounts -> Nat], NEW from \in Accounts, NEW to \in Accounts,
         from # to, NEW amount \in Nat, amount <= bal[from]
  PROVE  LET b == Transfer(bal, from, to, amount)
         IN  /\ b \in [Accounts -> Nat]
             /\ b[from] = bal[from] - amount
             /\ b[to] = bal[to] + amount
             /\ \A a \in Accounts \ {from, to} : b[a] = bal[a]
<1> DEFINE b == [bal EXCEPT ![from] = @ - amount, ![to] = @ + amount]
<1>1. /\ b = [a \in Accounts |-> IF a = to THEN bal[to] + amount
                                 ELSE IF a = from THEN bal[from] - amount ELSE bal[a]]
  OBVIOUS
<1>2. \A a \in Accounts : b[a] \in Nat
  BY <1>1
<1>3. QED
  BY <1>1, <1>2 DEF Transfer

\* The vault is a token account of its own: no wallet is the vault.
LEMMA VaultIsApart == Vault \in Accounts /\ \A w \in Wallets : w \in Accounts /\ w # Vault
BY KeyAssumption DEF Accounts

\* Paying an entry: both shares leave the player.
LEMMA PayMoves ==
  ASSUME TypeOK, NEW p \in Wallets, NEW r \in References, NEW t \in Tiers,
         pay_entry_v2(p, r, t)
  PROVE  LET split == split_fee_v2(Fees[t], rake_bps)
         IN  /\ split \in EntryTicketV2
             /\ balance' \in [Accounts -> Nat]
             /\ balance'[Vault] = balance[Vault] + split.prize
<1> DEFINE split == split_fee_v2(Fees[t], rake_bps)
           half == Transfer(balance, p, treasury, split.rake)
<1>1. /\ split \in EntryTicketV2
      /\ split.rake \in Nat /\ split.prize \in Nat /\ split.amount \in Nat
      /\ split.rake + split.prize = split.amount
  BY SplitIsExact, AmountAssumption DEF TypeOK, EntryTicketV2
<1> HIDE DEF split
<1>2. /\ balance[p] >= split.amount
      /\ treasury \in Wallets /\ p # treasury
      /\ balance' = Transfer(half, p, Vault, split.prize)
  BY DEF pay_entry_v2, TreasuryUsable, Initialized, TypeOK, split
<1>3. /\ balance \in [Accounts -> Nat]
      /\ treasury \in Accounts /\ p \in Accounts /\ Vault \in Accounts
      /\ p # Vault /\ treasury # Vault
  BY <1>2, VaultIsApart DEF TypeOK
<1>4. balance[p] \in Nat /\ split.rake <= balance[p]
  BY <1>1, <1>2, <1>3
<1>5. /\ half \in [Accounts -> Nat]
      /\ half[p] = balance[p] - split.rake
      /\ half[Vault] = balance[Vault]
  BY <1>1, <1>2, <1>3, <1>4, TransferMoves
<1> HIDE DEF half
<1>6. half[p] >= split.prize
  BY <1>1, <1>2, <1>4, <1>5
<1>7. /\ balance' \in [Accounts -> Nat]
      /\ balance'[Vault] = balance[Vault] + split.prize
  BY <1>1, <1>2, <1>3, <1>5, <1>6, TransferMoves
<1>8. QED
  BY <1>1, <1>7 DEF split

\* Refunding an entry: the recorded shares return to the player.
LEMMA RefundMoves ==
  ASSUME TypeOK, NEW s \in Wallets, NEW p \in Wallets, NEW r \in References,
         refund_entry_v2(s, p, r)
  PROVE  /\ balance' \in [Accounts -> Nat]
         /\ balance'[Vault] = balance[Vault] - tickets[r][p].prize
         /\ balance[Vault] - tickets[r][p].prize >= reserved
<1> DEFINE split == tickets[r][p]
           half == Transfer(balance, treasury, p, split.rake)
<1>1. split \in EntryTicketV2 /\ split.rake \in Nat /\ split.prize \in Nat
  BY DEF refund_entry_v2, TypeOK, EntryTicketV2
<1>2. /\ treasury \in Wallets /\ p # treasury
      /\ balance[Vault] >= split.prize /\ balance[Vault] - split.prize >= reserved
      /\ balance[treasury] >= split.rake
      /\ balance' = Transfer(half, Vault, p, split.prize)
  BY DEF refund_entry_v2, RefundSplit, RefundCovered, TreasuryUsable, Signs, Initialized, TypeOK
<1> HIDE DEF split
<1>3. /\ balance \in [Accounts -> Nat]
      /\ treasury \in Accounts /\ p \in Accounts /\ Vault \in Accounts
      /\ p # Vault /\ treasury # Vault
  BY <1>2, VaultIsApart DEF TypeOK
<1>4. half \in [Accounts -> Nat] /\ half[Vault] = balance[Vault]
  BY <1>1, <1>2, <1>3, TransferMoves
<1> HIDE DEF half
<1>5. /\ balance' \in [Accounts -> Nat]
      /\ balance'[Vault] = balance[Vault] - split.prize
  BY <1>1, <1>2, <1>3, <1>4, TransferMoves
<1>6. QED
  BY <1>2, <1>5 DEF split

\* A claim takes its amount from the vault, the reservation and the epoch.
LEMMA ClaimMoves ==
  ASSUME TypeOK, NEW p \in Wallets, NEW e \in Epochs, NEW amount \in Totals,
         claim_prize_v2(p, e, amount)
  PROVE  /\ balance' \in [Accounts -> Nat]
         /\ balance'[Vault] = balance[Vault] - amount
         /\ reserved' \in Nat /\ reserved' = reserved - amount
         /\ remaining' \in [Epochs -> Nat]
         /\ remaining' = [remaining EXCEPT ![e] = remaining[e] - amount]
         /\ amount <= remaining[e]
<1>1. amount \in Nat
  BY AmountAssumption
<1>2. remaining[e] \in Nat /\ reserved \in Nat /\ remaining \in [Epochs -> Nat]
  BY DEF TypeOK
<1>3. /\ amount <= balance[Vault] /\ amount <= reserved /\ amount <= remaining[e]
      /\ balance' = Transfer(balance, Vault, p, amount)
      /\ reserved' = reserved - amount
      /\ remaining' = [remaining EXCEPT ![e] = remaining[e] - amount]
  BY DEF claim_prize_v2, ClaimCovered
<1>4. remaining[e] - amount \in Nat /\ reserved - amount \in Nat
  BY <1>1, <1>2, <1>3
<1>5. /\ balance' \in [Accounts -> Nat]
      /\ balance'[Vault] = balance[Vault] - amount
  <2>1. balance \in [Accounts -> Nat] /\ amount <= balance[Vault]
    BY <1>3 DEF TypeOK
  <2>2. Vault \in Accounts /\ p \in Accounts /\ Vault # p
    BY VaultIsApart
  <2>3. balance' = Transfer(balance, Vault, p, amount)
    BY <1>3
  <2>4. QED
    BY <1>1, <2>1, <2>2, <2>3, TransferMoves
<1>6. remaining' \in [Epochs -> Nat]
  BY <1>2, <1>3, <1>4
<1>7. QED
  BY <1>3, <1>4, <1>5, <1>6

\* A sweep takes the whole remainder from the vault and the reservation.
LEMMA SweepMoves ==
  ASSUME TypeOK, NEW s \in Wallets, NEW e \in Epochs, sweep_expired_prizes_v2(s, e)
  PROVE  /\ balance' \in [Accounts -> Nat]
         /\ balance'[Vault] = balance[Vault] - remaining[e]
         /\ reserved' \in Nat /\ remaining' \in [Epochs -> Nat]
<1>1. /\ remaining[e] \in Nat /\ remaining[e] <= balance[Vault]
      /\ treasury \in Wallets
      /\ balance' = Transfer(balance, Vault, treasury, remaining[e])
  BY DEF sweep_expired_prizes_v2, Signs, Initialized, TypeOK
<1>2. /\ balance' \in [Accounts -> Nat]
      /\ balance'[Vault] = balance[Vault] - remaining[e]
  <2>1. balance \in [Accounts -> Nat]
    BY DEF TypeOK
  <2>2. treasury \in Accounts /\ Vault \in Accounts /\ treasury # Vault
    BY <1>1, VaultIsApart
  <2>3. QED
    BY <1>1, <2>1, <2>2, TransferMoves
<1>3. /\ reserved' = reserved - remaining[e] /\ remaining[e] <= reserved
      /\ remaining' = [remaining EXCEPT ![e] = 0]
  BY DEF sweep_expired_prizes_v2
<1>4. reserved \in Nat /\ remaining \in [Epochs -> Nat]
  BY DEF TypeOK
<1>5. reserved' \in Nat
  BY <1>1, <1>3, <1>4
<1>6. remaining' \in [Epochs -> Nat]
  BY <1>3, <1>4
<1>7. QED
  BY <1>2, <1>5, <1>6

\* Publishing an epoch reserves its total and no token moves.
LEMMA PublishMoves ==
  ASSUME TypeOK, NEW s \in Wallets, NEW e \in Epochs, NEW root \in Roots,
         NEW total \in Totals, NEW n \in LeafCounts,
         publish_prizes_v2(s, e, root, total, n)
  PROVE  reserved' \in Nat /\ remaining' \in [Epochs -> Nat]
<1>1. total \in Nat
  BY AmountAssumption
<1>2. /\ reserved' = reserved + total
      /\ remaining' = [remaining EXCEPT ![e] = total]
  BY DEF publish_prizes_v2, reserve_prizes_v2
<1>3. reserved \in Nat /\ remaining \in [Epochs -> Nat]
  BY DEF TypeOK
<1>4. reserved' \in Nat
  BY <1>1, <1>2, <1>3
<1>5. remaining' \in [Epochs -> Nat]
  BY <1>1, <1>2, <1>3
<1>6. QED
  BY <1>4, <1>5

\* Tokens a wallet sends on its own never leave the vault.
LEMMA GiftMoves ==
  ASSUME TypeOK, NEW p \in Wallets, NEW to \in Accounts, NEW amount \in Gifts,
         ExternalTransfer(p, to, amount)
  PROVE  balance' \in [Accounts -> Nat] /\ balance'[Vault] >= balance[Vault]
<1>1. /\ amount \in Nat /\ amount <= balance[p] /\ p # to
      /\ balance' = Transfer(balance, p, to, amount)
  BY AmountAssumption DEF ExternalTransfer
<1>2. /\ balance \in [Accounts -> Nat]
      /\ p \in Accounts /\ Vault \in Accounts /\ p # Vault
  BY VaultIsApart DEF TypeOK
<1>3. /\ balance' \in [Accounts -> Nat]
      /\ balance'[to] = balance[to] + amount
      /\ \A a \in Accounts \ {p, to} : balance'[a] = balance[a]
  BY <1>1, <1>2, TransferMoves
<1>4. balance[Vault] \in Nat
  BY <1>2
<1>5. CASE to = Vault
  BY <1>1, <1>3, <1>4, <1>5
<1>6. CASE to # Vault
  <2>1. balance'[Vault] = balance[Vault]
    BY <1>2, <1>3, <1>6
  <2>2. QED
    BY <1>3, <1>4, <2>1
<1>7. QED
  BY <1>5, <1>6

-----------------------------------------------------------------------------
(* Type correctness. *)

\* Before initialize_v2 every account has its type.
LEMMA InitTypeOK == Init => TypeOK
BY KeyAssumption, AmountAssumption DEF Init, TypeOK, Accounts

\* Each instruction keeps the types.  The delicate ones subtract: their guards
\* are what keeps balances, reservations and remainders natural numbers.
LEMMA NextTypeOK == TypeOK /\ [Next]_vars => TypeOK'
<1> SUFFICES ASSUME TypeOK, [Next]_vars PROVE TypeOK'
  OBVIOUS
<1> USE KeyAssumption, AmountAssumption, ClockAssumption DEF TypeOK, Signs, Initialized
<1>1. ASSUME NEW s \in Wallets, NEW bps \in Rakes, initialize_v2(s, bps)
      PROVE  TypeOK'
  BY <1>1 DEF initialize_v2, pdas, clock
<1>2. ASSUME NEW s \in Wallets, NEW bps \in Rakes, set_params_v2(s, bps)
      PROVE  TypeOK'
  BY <1>2 DEF set_params_v2, RakeAllowed, pdas, clock
<1>3. ASSUME NEW s \in Wallets, NEW p \in BOOLEAN, set_paused_v2(s, p)
      PROVE  TypeOK'
  BY <1>3 DEF set_paused_v2, pdas, clock
<1>4. ASSUME NEW s \in Wallets, NEW p \in Wallets, NEW r \in References,
             refund_entry_v2(s, p, r)
      PROVE  TypeOK'
  <2>1. tickets' \in [References -> [Wallets -> EntryTicketV2 \cup {NoAccount}]]
    BY <1>4 DEF refund_entry_v2
  <2>2. balance' \in [Accounts -> Nat]
    BY <1>4, RefundMoves
  <2>3. QED
    BY <1>4, <2>1, <2>2 DEF refund_entry_v2, config, clock
<1>5. ASSUME NEW s \in Wallets, NEW e \in Epochs, NEW root \in Roots,
             NEW total \in Totals, NEW n \in LeafCounts,
             publish_prizes_v2(s, e, root, total, n)
      PROVE  TypeOK'
  <2>1. prizes' \in [Epochs -> PrizeEpochV2 \cup {NoAccount}]
    BY <1>5 DEF publish_prizes_v2, PrizeEpochV2
  <2>2. reserved' \in Nat /\ remaining' \in [Epochs -> Nat]
    BY <1>5, PublishMoves
  <2>3. QED
    BY <1>5, <2>1, <2>2 DEF publish_prizes_v2, config, clock
<1>6. ASSUME NEW s \in Wallets, NEW e \in Epochs, sweep_expired_prizes_v2(s, e)
      PROVE  TypeOK'
  <2>1. reserved' \in Nat /\ remaining' \in [Epochs -> Nat]
    BY <1>6, SweepMoves
  <2>2. balance' \in [Accounts -> Nat]
    BY <1>6, SweepMoves
  <2>3. QED
    BY <1>6, <2>1, <2>2 DEF sweep_expired_prizes_v2, config, clock
<1>7. ASSUME NEW s \in Wallets, NEW new \in Candidates, propose_authority_change_v2(s, new)
      PROVE  TypeOK'
  BY <1>7 DEF propose_authority_change_v2, PendingAuthorityV2, config, clock
<1>8. ASSUME NEW s \in Wallets, accept_authority_change_v2(s)
      PROVE  TypeOK'
  BY <1>8 DEF accept_authority_change_v2, RotatedTreasury, clock
<1>9. ASSUME NEW s \in Wallets, cancel_authority_change_v2(s)
      PROVE  TypeOK'
  BY <1>9 DEF cancel_authority_change_v2, config, clock
<1>10. ASSUME NEW p \in Wallets, NEW r \in References, NEW t \in Tiers, pay_entry_v2(p, r, t)
       PROVE  TypeOK'
  <2>1. tickets' \in [References -> [Wallets -> EntryTicketV2 \cup {NoAccount}]]
    BY <1>10, PayMoves DEF pay_entry_v2
  <2>2. balance' \in [Accounts -> Nat]
    BY <1>10, PayMoves
  <2>3. QED
    BY <1>10, <2>1, <2>2 DEF pay_entry_v2, config, clock
<1>11. ASSUME NEW p \in Wallets, NEW e \in Epochs, NEW amount \in Totals,
              claim_prize_v2(p, e, amount)
       PROVE  TypeOK'
  <2>1. reserved' \in Nat /\ remaining' \in [Epochs -> Nat]
    BY <1>11, ClaimMoves
  <2>2. claims' \in [Epochs -> [Wallets -> Nat]]
    <3>1. claims' = [claims EXCEPT ![e] = [claims[e] EXCEPT ![p] = amount]]
      BY <1>11 DEF claim_prize_v2
    <3>2. [claims[e] EXCEPT ![p] = amount] \in [Wallets -> Nat]
      OBVIOUS
    <3>3. QED
      BY <3>1, <3>2
  <2>3. balance' \in [Accounts -> Nat]
    BY <1>11, ClaimMoves
  <2>4. QED
    BY <1>11, <2>1, <2>2, <2>3 DEF claim_prize_v2, config, clock
<1>12. ASSUME NEW p \in Wallets, NEW to \in Accounts, NEW amount \in Gifts,
              ExternalTransfer(p, to, amount)
       PROVE  TypeOK'
  BY <1>12, GiftMoves DEF ExternalTransfer, config, pdas, clock
<1>13. ASSUME NEW w \in Delegators, ToggleDelegate(w)
       PROVE  TypeOK'
  BY <1>13 DEF ToggleDelegate, config, pdas, clock
<1>14. CASE SlotPasses
  BY <1>14 DEF SlotPasses, config, pdas
<1>15. CASE TimePasses
  BY <1>15 DEF TimePasses, config, pdas
<1>16. CASE UNCHANGED vars
  BY <1>16 DEF vars, config, pdas, clock
<1>17. QED
  BY <1>1, <1>2, <1>3, <1>4, <1>5, <1>6, <1>7, <1>8, <1>9, <1>10, <1>11, <1>12,
     <1>13, <1>14, <1>15, <1>16 DEF Next

\* Every reachable state of a market is well typed: in particular no balance,
\* reservation, remainder or recorded share is ever negative.
THEOREM TypeCorrect == Spec => []TypeOK
BY InitTypeOK, NextTypeOK, PTL DEF Spec

-----------------------------------------------------------------------------
(* The vault covers what the epochs promise. *)

\* Before initialize_v2 nothing is reserved, so the vault covers it.
LEMMA InitVaultCovers == Init => VaultCoversReserved
BY DEF Init, VaultCoversReserved, Accounts

\* Publication is the only step that raises reserved, within the free balance;
\* every step that takes tokens out of the vault either lowers reserved by as
\* much (claim, sweep) or is refused below reserved (refund).
LEMMA NextVaultCovers ==
  TypeOK /\ VaultCoversReserved /\ [Next]_vars => VaultCoversReserved'
<1> SUFFICES ASSUME TypeOK, VaultCoversReserved, [Next]_vars
             PROVE  VaultCoversReserved'
  OBVIOUS
<1> USE DEF VaultCoversReserved
<1>0. balance[Vault] \in Nat /\ reserved \in Nat
  BY VaultIsApart DEF TypeOK
<1>1. ASSUME NEW s \in Wallets, NEW bps \in Rakes, initialize_v2(s, bps)
      PROVE  VaultCoversReserved'
  BY <1>0, <1>1 DEF initialize_v2
<1>2. ASSUME NEW s \in Wallets, NEW bps \in Rakes, set_params_v2(s, bps)
      PROVE  VaultCoversReserved'
  BY <1>2 DEF set_params_v2
<1>3. ASSUME NEW s \in Wallets, NEW p \in BOOLEAN, set_paused_v2(s, p)
      PROVE  VaultCoversReserved'
  BY <1>3 DEF set_paused_v2
<1>4. ASSUME NEW s \in Wallets, NEW p \in Wallets, NEW r \in References,
             refund_entry_v2(s, p, r)
      PROVE  VaultCoversReserved'
  <2>1. reserved' = reserved
    BY <1>4 DEF refund_entry_v2
  <2>2. QED
    BY <1>4, <2>1, RefundMoves
<1>5. ASSUME NEW s \in Wallets, NEW e \in Epochs, NEW root \in Roots,
             NEW total \in Totals, NEW n \in LeafCounts,
             publish_prizes_v2(s, e, root, total, n)
      PROVE  VaultCoversReserved'
  <2>1. total \in Nat
    BY AmountAssumption
  <2>2. /\ reserved' = reserved + total
        /\ total <= balance[Vault] - reserved
        /\ balance' = balance
    BY <1>5 DEF publish_prizes_v2, CanReserve, reserve_prizes_v2
  <2>3. QED
    BY <1>0, <2>1, <2>2
<1>6. ASSUME NEW s \in Wallets, NEW e \in Epochs, sweep_expired_prizes_v2(s, e)
      PROVE  VaultCoversReserved'
  <2>1. remaining[e] \in Nat /\ reserved' = reserved - remaining[e]
    BY <1>6 DEF sweep_expired_prizes_v2, TypeOK
  <2>2. QED
    BY <1>0, <1>6, <2>1, SweepMoves
<1>7. ASSUME NEW s \in Wallets, NEW new \in Candidates, propose_authority_change_v2(s, new)
      PROVE  VaultCoversReserved'
  BY <1>7 DEF propose_authority_change_v2
<1>8. ASSUME NEW s \in Wallets, accept_authority_change_v2(s)
      PROVE  VaultCoversReserved'
  BY <1>8 DEF accept_authority_change_v2
<1>9. ASSUME NEW s \in Wallets, cancel_authority_change_v2(s)
      PROVE  VaultCoversReserved'
  BY <1>9 DEF cancel_authority_change_v2
<1>10. ASSUME NEW p \in Wallets, NEW r \in References, NEW t \in Tiers, pay_entry_v2(p, r, t)
       PROVE  VaultCoversReserved'
  <2>1. reserved' = reserved
    BY <1>10 DEF pay_entry_v2
  <2>2. QED
    BY <1>0, <1>10, <2>1, PayMoves DEF EntryTicketV2
<1>11. ASSUME NEW p \in Wallets, NEW e \in Epochs, NEW amount \in Totals,
              claim_prize_v2(p, e, amount)
       PROVE  VaultCoversReserved'
  <2>1. amount \in Nat
    BY AmountAssumption
  <2>2. QED
    BY <1>0, <1>11, <2>1, ClaimMoves
<1>12. ASSUME NEW p \in Wallets, NEW to \in Accounts, NEW amount \in Gifts,
              ExternalTransfer(p, to, amount)
       PROVE  VaultCoversReserved'
  <2>1. reserved' = reserved /\ balance'[Vault] \in Nat
    BY <1>12, GiftMoves, VaultIsApart DEF ExternalTransfer
  <2>2. QED
    BY <1>0, <1>12, <2>1, GiftMoves
<1>13. ASSUME NEW w \in Delegators, ToggleDelegate(w)
       PROVE  VaultCoversReserved'
  BY <1>13 DEF ToggleDelegate
<1>14. CASE SlotPasses
  BY <1>14 DEF SlotPasses
<1>15. CASE TimePasses
  BY <1>15 DEF TimePasses
<1>16. CASE UNCHANGED vars
  BY <1>16 DEF vars
<1>17. QED
  BY <1>1, <1>2, <1>3, <1>4, <1>5, <1>6, <1>7, <1>8, <1>9, <1>10, <1>11, <1>12,
     <1>13, <1>14, <1>15, <1>16 DEF Next

\* In every reachable state the vault holds at least the sum of the published
\* epochs' reservations (config.reserved), so no claim is stranded by an entry
\* refund, another epoch's publication, a claim or a sweep.
THEOREM VaultAlwaysCovers == Spec => []VaultCoversReserved
<1>1. Spec => [](TypeOK /\ VaultCoversReserved)
  BY InitTypeOK, NextTypeOK, InitVaultCovers, NextVaultCovers, PTL DEF Spec
<1>2. QED
  BY <1>1, PTL

-----------------------------------------------------------------------------
(* The reservation is exactly what the epochs still owe. *)

\* The least-number principle, as a fact about sets of naturals.
LEMMA LeastElement ==
  ASSUME NEW T, T \subseteq Nat, T # {}
  PROVE  \E n \in T : \A m \in T : n <= m
<1> DEFINE R == OpToRel(<, Nat)
<1>1. IsWellFoundedOn(R, Nat)
  BY NatLessThanWellFounded
<1>2. \A m, n \in Nat : m < n => <<m, n>> \in R
  BY DEF OpToRel
<1> HIDE DEF R
<1>3. PICK n \in T : \A m \in T : ~(<<m, n>> \in R)
  <2>1. \E n \in T : \A m \in T : ~(<<m, n>> \in R)
    BY <1>1, WFMin, Zenon
  <2>2. QED
    BY <2>1
<1>4. ASSUME NEW m \in T PROVE n <= m
  <2>1. m \in Nat /\ n \in Nat
    OBVIOUS
  <2>2. ~(m < n)
    BY <1>2, <1>3, <2>1, Zenon
  <2>3. QED
    BY <2>1, <2>2
<1>5. QED
  BY <1>4

\* A running sum of naturals stays natural and grows to its last value.
LEMMA RunningSumBounds ==
  ASSUME NEW N \in Nat, NEW f \in [0..N -> Nat], NEW s \in [0..N -> Int],
         s[0] = f[0], \A i \in 1..N : s[i] = s[i - 1] + f[i]
  PROVE  \A i \in 0..N : s[i] \in Nat /\ s[i] <= s[N] /\ f[i] <= s[i]
<1>1. \A i \in 0..N : s[i] >= 0
  <2> DEFINE T == {i \in 0..N : ~(s[i] >= 0)}
  <2>1. SUFFICES ASSUME T # {} PROVE FALSE
    OBVIOUS
  <2>2. PICK n \in T : \A m \in T : n <= m
    <3>1. T \subseteq Nat
      OBVIOUS
    <3> HIDE DEF T
    <3>2. QED
      BY <2>1, <3>1, LeastElement
  <2>3. n # 0
    BY <2>2
  <2>4. n - 1 \in 0..N /\ n \in 1..N /\ ~(n <= n - 1)
    BY <2>2, <2>3
  <2>5. s[n - 1] >= 0
    BY <2>2, <2>4
  <2>6. QED
    BY <2>2, <2>4, <2>5
<1>2. \A i \in 0..N : s[i] <= s[N]
  <2> DEFINE T == {k \in 0..N : ~(s[N - k] <= s[N])}
  <2>1. T = {}
    <3>1. SUFFICES ASSUME T # {} PROVE FALSE
      OBVIOUS
    <3>2. PICK n \in T : \A m \in T : n <= m
      <4>1. T \subseteq Nat
        OBVIOUS
      <4> HIDE DEF T
      <4>2. QED
        BY <3>1, <4>1, LeastElement
    <3>3. n # 0
      BY <3>2
    <3>4. n - 1 \in 0..N /\ N - n \in 0..N /\ N - (n - 1) \in 1..N /\ ~(n <= n - 1)
      BY <3>2, <3>3
    <3>5. s[N - (n - 1)] <= s[N]
      BY <3>2, <3>4
    <3>6. s[N - (n - 1)] = s[N - n] + f[N - (n - 1)]
      <4>1. (N - (n - 1)) - 1 = N - n
        BY <3>4
      <4>2. QED
        BY <3>4, <4>1
    <3>7. QED
      BY <3>2, <3>4, <3>5, <3>6
  <2>2. SUFFICES ASSUME NEW i \in 0..N PROVE s[i] <= s[N]
    OBVIOUS
  <2>3. N - i \in 0..N /\ N - (N - i) = i
    OBVIOUS
  <2>4. QED
    BY <2>1, <2>3
<1>3. \A i \in 0..N : f[i] <= s[i]
  <2> SUFFICES ASSUME NEW i \in 0..N PROVE f[i] <= s[i]
    OBVIOUS
  <2>1. CASE i = 0
    BY <2>1
  <2>2. CASE i # 0
    <3>1. i \in 1..N /\ i - 1 \in 0..N
      BY <2>2
    <3>2. QED
      BY <1>1, <3>1
  <2>3. QED
    BY <2>1, <2>2
<1>4. QED
  BY <1>1, <1>2, <1>3

\* Adding the same amount to one epoch's remainder and to reserved keeps them
\* in step: the running sum moves from that epoch on.
LEMMA ShiftSum ==
  ASSUME TypeOK, ReservedIsUnpaid, NEW e \in Epochs, NEW d \in Int,
         remaining[e] + d \in Nat,
         remaining' = [remaining EXCEPT ![e] = remaining[e] + d],
         reserved' = reserved + d
  PROVE  ReservedIsUnpaid'
<1> DEFINE N == MaxEpoch
           f == remaining'
<1>1. N \in Nat /\ Epochs = 0..N /\ e \in 0..N
  BY AmountAssumption
<1>2. /\ remaining \in [0..N -> Nat] /\ f \in [0..N -> Nat]
      /\ f[e] = remaining[e] + d
      /\ \A i \in 0..N : i # e => f[i] = remaining[i]
  BY <1>1 DEF TypeOK
<1>3. PICK s \in [0..N -> 0..reserved] :
         /\ s[0] = remaining[0]
         /\ \A i \in 1..N : s[i] = s[i - 1] + remaining[i]
         /\ s[N] = reserved
  BY <1>1 DEF ReservedIsUnpaid
<1> DEFINE t == [i \in 0..N |-> IF i < e THEN s[i] ELSE s[i] + d]
<1>4. \A i \in 0..N : s[i] \in Nat
  BY <1>3 DEF TypeOK
<1>5. t \in [0..N -> Int]
  BY <1>1, <1>4
<1> HIDE DEF f
<1>6. t[0] = f[0]
  BY <1>1, <1>2, <1>3, <1>4
<1>7. \A i \in 1..N : t[i] = t[i - 1] + f[i]
  <2> SUFFICES ASSUME NEW i \in 1..N PROVE t[i] = t[i - 1] + f[i]
    OBVIOUS
  <2>1. i \in 0..N /\ i - 1 \in 0..N /\ s[i] = s[i - 1] + remaining[i]
    BY <1>1, <1>3
  <2>2. s[i] \in Nat /\ s[i - 1] \in Nat /\ remaining[i] \in Nat
    BY <1>2, <1>4, <2>1
  <2>3. CASE i < e
    BY <1>1, <1>2, <2>1, <2>2, <2>3
  <2>4. CASE i = e
    BY <1>1, <1>2, <2>1, <2>2, <2>4
  <2>5. CASE i > e
    BY <1>1, <1>2, <2>1, <2>2, <2>5
  <2>6. QED
    BY <1>1, <2>3, <2>4, <2>5
<1>8. t[N] = reserved'
  BY <1>1, <1>3
<1> HIDE DEF t, N
<1>9. \A i \in 0..N : t[i] \in Nat /\ t[i] <= t[N]
  BY <1>1, <1>2, <1>5, <1>6, <1>7, RunningSumBounds
<1>10. t \in [0..N -> 0..reserved']
  BY <1>1, <1>5, <1>8, <1>9
<1>11. QED
  BY <1>1, <1>6, <1>7, <1>8, <1>10 DEF ReservedIsUnpaid, f, N

\* What makes ReservedIsUnpaid inductive: an epoch that does not exist owes
\* nothing (publish starts from zero) and nothing is reserved before the
\* market is opened (initialize_v2 writes reserved = 0).
ReservationInv ==
  /\ \A e \in Epochs : prizes[e] = NoAccount => remaining[e] = 0
  /\ ~Initialized => reserved = 0
  /\ ReservedIsUnpaid

\* Before initialize_v2 the reservation is the empty sum of remainders.
LEMMA InitReservation == Init => ReservationInv
<1> SUFFICES ASSUME Init PROVE ReservationInv
  OBVIOUS
<1>1. reserved = 0 /\ remaining = [e \in 0..MaxEpoch |-> 0] /\ MaxEpoch \in Nat
  BY AmountAssumption DEF Init
<1> DEFINE s == [e \in 0..MaxEpoch |-> 0]
<1>2. /\ s \in [Epochs -> 0..reserved]
      /\ s[0] = remaining[0]
      /\ \A e \in 1..MaxEpoch : s[e] = s[e - 1] + remaining[e]
      /\ s[MaxEpoch] = reserved
  BY <1>1
<1>3. ReservedIsUnpaid
  BY <1>2 DEF ReservedIsUnpaid
<1>4. QED
  BY <1>1, <1>3 DEF ReservationInv, Init

\* A step that leaves prizes, remainders and reservation alone.
LEMMA SameReservation ==
  ASSUME ReservationInv, UNCHANGED <<prizes, remaining, reserved>>,
         authority' = authority \/ authority' # NoKey
  PROVE  ReservationInv'
BY DEF ReservationInv, ReservedIsUnpaid, Initialized

\* Every instruction keeps `reserved` the sum of the remainders: only a
\* publication, a claim and a sweep move it, each with its own epoch's remainder.
LEMMA NextReservation == TypeOK /\ ReservationInv /\ [Next]_vars => ReservationInv'
<1> SUFFICES ASSUME TypeOK, ReservationInv, [Next]_vars PROVE ReservationInv'
  OBVIOUS
<1>1. ASSUME NEW s \in Wallets, NEW bps \in Rakes, initialize_v2(s, bps)
      PROVE  ReservationInv'
  BY <1>1, SameReservation, KeyAssumption DEF initialize_v2, ReservationInv, pdas
<1>2. ASSUME NEW s \in Wallets, NEW bps \in Rakes, set_params_v2(s, bps)
      PROVE  ReservationInv'
  BY <1>2, SameReservation DEF set_params_v2, pdas
<1>3. ASSUME NEW s \in Wallets, NEW p \in BOOLEAN, set_paused_v2(s, p)
      PROVE  ReservationInv'
  BY <1>3, SameReservation DEF set_paused_v2, pdas
<1>4. ASSUME NEW s \in Wallets, NEW p \in Wallets, NEW r \in References,
             refund_entry_v2(s, p, r)
      PROVE  ReservationInv'
  BY <1>4, SameReservation DEF refund_entry_v2, config
<1>5. ASSUME NEW s \in Wallets, NEW e \in Epochs, NEW root \in Roots,
             NEW total \in Totals, NEW n \in LeafCounts,
             publish_prizes_v2(s, e, root, total, n)
      PROVE  ReservationInv'
  <2>1. total \in Nat /\ remaining[e] = 0
    BY <1>5, AmountAssumption DEF publish_prizes_v2, ReservationInv
  <2>2. /\ remaining' = [remaining EXCEPT ![e] = total]
        /\ reserved' = reserved + total
        /\ authority' = authority /\ authority # NoKey
    BY <1>5 DEF publish_prizes_v2, reserve_prizes_v2, config, Signs, Initialized
  <2>3. ReservedIsUnpaid'
    <3>1. total \in Int /\ remaining[e] + total = total
      BY <2>1
    <3>2. QED
      BY <2>1, <2>2, <3>1, ShiftSum DEF ReservationInv
  <2>4. \A x \in Epochs : prizes'[x] = NoAccount => remaining'[x] = 0
    <3>1. prizes'[e] \in PrizeEpochV2
      BY <1>5, <2>1 DEF publish_prizes_v2, PrizeEpochV2, TypeOK
    <3>2. QED
      BY <1>5, <2>2, <3>1, AbsentAssumption DEF publish_prizes_v2, ReservationInv, TypeOK
  <2>5. QED
    BY <2>2, <2>3, <2>4 DEF ReservationInv, Initialized
<1>6. ASSUME NEW s \in Wallets, NEW e \in Epochs, sweep_expired_prizes_v2(s, e)
      PROVE  ReservationInv'
  <2>1. /\ remaining' = [remaining EXCEPT ![e] = 0]
        /\ reserved' = reserved - remaining[e]
        /\ authority' = authority /\ authority # NoKey /\ prizes' = prizes
    BY <1>6 DEF sweep_expired_prizes_v2, config, Signs, Initialized
  <2>2. remaining[e] \in Nat /\ reserved \in Nat /\ remaining \in [Epochs -> Nat]
    BY DEF TypeOK
  <2>3. ReservedIsUnpaid'
    <3> DEFINE d == 0 - remaining[e]
    <3>1. d \in Int /\ remaining[e] + d = 0 /\ reserved' = reserved + d
      BY <2>1, <2>2
    <3> HIDE DEF d
    <3>2. remaining[e] + d \in Nat
      BY <3>1
    <3>3. remaining' = [remaining EXCEPT ![e] = remaining[e] + d]
      BY <2>1, <3>1, Zenon
    <3>4. QED
      BY <3>1, <3>2, <3>3, ShiftSum DEF ReservationInv
  <2>4. QED
    BY <2>1, <2>2, <2>3 DEF ReservationInv, Initialized
<1>7. ASSUME NEW s \in Wallets, NEW new \in Candidates, propose_authority_change_v2(s, new)
      PROVE  ReservationInv'
  BY <1>7, SameReservation DEF propose_authority_change_v2, config
<1>8. ASSUME NEW s \in Wallets, accept_authority_change_v2(s)
      PROVE  ReservationInv'
  BY <1>8, SameReservation, KeyAssumption DEF accept_authority_change_v2
<1>9. ASSUME NEW s \in Wallets, cancel_authority_change_v2(s)
      PROVE  ReservationInv'
  BY <1>9, SameReservation DEF cancel_authority_change_v2, config
<1>10. ASSUME NEW p \in Wallets, NEW r \in References, NEW t \in Tiers, pay_entry_v2(p, r, t)
       PROVE  ReservationInv'
  BY <1>10, SameReservation DEF pay_entry_v2, config
<1>11. ASSUME NEW p \in Wallets, NEW e \in Epochs, NEW amount \in Totals,
              claim_prize_v2(p, e, amount)
       PROVE  ReservationInv'
  <2>1. /\ remaining' = [remaining EXCEPT ![e] = remaining[e] - amount]
        /\ reserved' = reserved - amount
        /\ amount <= remaining[e]
    BY <1>11, ClaimMoves
  <2>2. /\ authority' = authority /\ authority # NoKey
        /\ prizes' = prizes /\ prizes[e] # NoAccount
    BY <1>11 DEF claim_prize_v2, config, Initialized
  <2>3. amount \in Nat /\ remaining[e] \in Nat /\ reserved \in Nat /\ remaining \in [Epochs -> Nat]
    BY AmountAssumption DEF TypeOK
  <2>4. ReservedIsUnpaid'
    <3> DEFINE d == 0 - amount
    <3>1. /\ d \in Int /\ remaining[e] + d \in Nat
          /\ remaining[e] + d = remaining[e] - amount
          /\ reserved' = reserved + d
      BY <2>1, <2>3
    <3> HIDE DEF d
    <3>2. QED
      BY <2>1, <3>1, ShiftSum DEF ReservationInv
  <2>5. QED
    BY <2>1, <2>2, <2>3, <2>4 DEF ReservationInv, Initialized
<1>12. ASSUME NEW p \in Wallets, NEW to \in Accounts, NEW amount \in Gifts,
              ExternalTransfer(p, to, amount)
       PROVE  ReservationInv'
  BY <1>12, SameReservation DEF ExternalTransfer, config, pdas
<1>13. ASSUME NEW w \in Delegators, ToggleDelegate(w)
       PROVE  ReservationInv'
  BY <1>13, SameReservation DEF ToggleDelegate, config, pdas
<1>14. CASE SlotPasses
  BY <1>14, SameReservation DEF SlotPasses, config, pdas
<1>15. CASE TimePasses
  BY <1>15, SameReservation DEF TimePasses, config, pdas
<1>16. CASE UNCHANGED vars
  BY <1>16, SameReservation DEF vars, config, pdas
<1>17. QED
  BY <1>1, <1>2, <1>3, <1>4, <1>5, <1>6, <1>7, <1>8, <1>9, <1>10, <1>11, <1>12,
     <1>13, <1>14, <1>15, <1>16 DEF Next

\* config.reserved is at every moment the exact sum of the epochs' unpaid
\* remainders: it is "reduced only by that sweep or by a successful claim",
\* and by the same amount (docs/ECONOMY_V2_PROGRAM.md).
THEOREM ReservationExact == Spec => []ReservedIsUnpaid
<1>1. Spec => [](TypeOK /\ ReservationInv)
  BY InitTypeOK, NextTypeOK, InitReservation, NextReservation, PTL DEF Spec
<1>2. ReservationInv => ReservedIsUnpaid
  BY DEF ReservationInv
<1>3. QED
  BY <1>1, <1>2, PTL

-----------------------------------------------------------------------------
(* The books of an epoch, and the prizes of an honest one. *)

\* What is true of one epoch: before publication nobody was paid; afterwards
\* payments and remainder are within the total, and exactly the total until the
\* sweep opens, and whoever was paid had proved that very amount.
EpochBooks(e) ==
  /\ prizes[e] = NoAccount => \A p \in Wallets : claims[e][p] = 0
  /\ prizes[e] # NoAccount =>
       /\ SumOver(claims[e], Wallets) + remaining[e] <= prizes[e].total
       /\ now < prizes[e].published_at + PRIZE_SWEEP_DELAY_SECONDS
          => SumOver(claims[e], Wallets) + remaining[e] = prizes[e].total
       /\ \A p \in Wallets : claims[e][p] # 0 =>
            Provable(prizes[e].root, prizes[e].leaf_count, p, claims[e][p])

BooksInv == \A e \in Epochs : EpochBooks(e)

\* Before initialize_v2 no epoch is published and nobody was paid.
LEMMA InitBooks == Init => BooksInv
BY DEF Init, BooksInv, EpochBooks

\* The payments of an epoch add up to a natural number.
LEMMA PaidIsNat ==
  ASSUME TypeOK, NEW e \in Epochs
  PROVE  /\ claims[e] \in [Wallets -> Nat]
         /\ SumOver(claims[e], Wallets) \in Nat
         /\ remaining[e] \in Nat
BY SumNat, KeyAssumption DEF TypeOK

\* A published epoch's record has its type.
LEMMA PublishedShape ==
  ASSUME TypeOK, NEW e \in Epochs, prizes[e] # NoAccount
  PROVE  /\ prizes[e].root \in Roots /\ prizes[e].total \in Nat
         /\ prizes[e].leaf_count \in 1..MAX_LEAVES /\ prizes[e].published_at \in Nat
BY DEF TypeOK, PrizeEpochV2

\* A step that leaves an epoch alone keeps its books: time only runs forward.
LEMMA SameEpoch ==
  ASSUME TypeOK, NEW e \in Epochs, EpochBooks(e), prizes'[e] = prizes[e],
         remaining'[e] = remaining[e], claims'[e] = claims[e],
         now' \in Nat, now' >= now
  PROVE  EpochBooks(e)'
<1>1. CASE prizes[e] = NoAccount
  BY <1>1 DEF EpochBooks
<1>2. CASE prizes[e] # NoAccount
  <2>1. prizes[e].published_at \in Nat /\ now \in Nat /\ PRIZE_SWEEP_DELAY_SECONDS \in Nat
    BY <1>2, PublishedShape, ClockAssumption DEF TypeOK
  <2>2. now' < prizes[e].published_at + PRIZE_SWEEP_DELAY_SECONDS
        => now < prizes[e].published_at + PRIZE_SWEEP_DELAY_SECONDS
    BY <2>1
  <2> QED BY <1>2, <2>2 DEF EpochBooks
<1> QED BY <1>1, <1>2

LEMMA SameBooks ==
  ASSUME TypeOK, BooksInv, UNCHANGED <<prizes, remaining, claims>>, now' = now
  PROVE  BooksInv'
<1>1. now' \in Nat /\ now' >= now
  BY DEF TypeOK
<1>2. ASSUME NEW e \in Epochs PROVE EpochBooks(e)'
  BY <1>1, SameEpoch DEF BooksInv
<1> QED BY <1>2 DEF BooksInv

\* Only a publication, a claim and a sweep touch an epoch's books.
LEMMA NextBooks == TypeOK /\ ReservationInv /\ BooksInv /\ [Next]_vars => BooksInv'
<1> SUFFICES ASSUME TypeOK, ReservationInv, BooksInv, [Next]_vars PROVE BooksInv'
  OBVIOUS
<1>0. now \in Nat /\ (now' = now => now' \in Nat /\ now' >= now)
  BY DEF TypeOK
<1>1. ASSUME NEW s \in Wallets, NEW bps \in Rakes, initialize_v2(s, bps)
      PROVE  BooksInv'
  BY <1>1, SameBooks DEF initialize_v2, pdas, clock
<1>2. ASSUME NEW s \in Wallets, NEW bps \in Rakes, set_params_v2(s, bps)
      PROVE  BooksInv'
  BY <1>2, SameBooks DEF set_params_v2, pdas, clock
<1>3. ASSUME NEW s \in Wallets, NEW p \in BOOLEAN, set_paused_v2(s, p)
      PROVE  BooksInv'
  BY <1>3, SameBooks DEF set_paused_v2, pdas, clock
<1>4. ASSUME NEW s \in Wallets, NEW p \in Wallets, NEW r \in References,
             refund_entry_v2(s, p, r)
      PROVE  BooksInv'
  BY <1>4, SameBooks DEF refund_entry_v2, clock
<1>5. ASSUME NEW s \in Wallets, NEW e \in Epochs, NEW root \in Roots,
             NEW total \in Totals, NEW n \in LeafCounts,
             publish_prizes_v2(s, e, root, total, n)
      PROVE  BooksInv'
  <2>1. /\ prizes[e] = NoAccount /\ n \in 1..MAX_LEAVES
        /\ prizes' = [prizes EXCEPT ![e] = [root |-> root, total |-> total,
                                            leaf_count |-> n, published_at |-> now]]
        /\ remaining' = [remaining EXCEPT ![e] = total]
        /\ claims' = claims /\ now' = now
    BY <1>5 DEF publish_prizes_v2, clock
  <2>2. /\ prizes'[e] = [root |-> root, total |-> total, leaf_count |-> n, published_at |-> now]
        /\ remaining'[e] = total /\ claims'[e] = claims[e]
        /\ \A x \in Epochs \ {e} : /\ prizes'[x] = prizes[x]
                                   /\ remaining'[x] = remaining[x] /\ claims'[x] = claims[x]
    BY <2>1 DEF TypeOK
  <2>3. total \in Nat
    BY AmountAssumption
  <2>4. \A p \in Wallets : claims[e][p] = 0
    BY <2>1 DEF BooksInv, EpochBooks
  <2>5. SumOver(claims[e], Wallets) = 0
    BY <2>4, SumZero, KeyAssumption
  <2>6. EpochBooks(e)'
    <3>1. prizes'[e] # NoAccount /\ prizes'[e].total = total
      BY <2>1, <2>2, <2>3, <1>0, AbsentAssumption DEF PrizeEpochV2
    <3> QED BY <2>2, <2>3, <2>4, <2>5, <3>1 DEF EpochBooks
  <2>7. ASSUME NEW x \in Epochs, x # e PROVE EpochBooks(x)'
    <3>1. EpochBooks(x)
      BY DEF BooksInv
    <3> QED BY <1>0, <2>1, <2>2, <2>7, <3>1, SameEpoch
  <2> QED BY <2>6, <2>7 DEF BooksInv
<1>6. ASSUME NEW s \in Wallets, NEW e \in Epochs, sweep_expired_prizes_v2(s, e)
      PROVE  BooksInv'
  <2>1. /\ prizes[e] # NoAccount /\ now >= prizes[e].published_at + PRIZE_SWEEP_DELAY_SECONDS
        /\ prizes' = prizes /\ claims' = claims /\ now' = now
        /\ remaining' = [remaining EXCEPT ![e] = 0]
    BY <1>6 DEF sweep_expired_prizes_v2, Expired, clock
  <2>2. remaining'[e] = 0 /\ \A x \in Epochs \ {e} : remaining'[x] = remaining[x]
    BY <2>1 DEF TypeOK
  <2>3. /\ SumOver(claims[e], Wallets) \in Nat /\ remaining[e] \in Nat
        /\ prizes[e].total \in Nat /\ prizes[e].published_at \in Nat
    BY <2>1, PaidIsNat, PublishedShape
  <2>4. EpochBooks(e)
    BY DEF BooksInv
  <2>5. /\ SumOver(claims[e], Wallets) + remaining'[e] <= prizes[e].total
        /\ ~ (now < prizes[e].published_at + PRIZE_SWEEP_DELAY_SECONDS)
    BY <1>0, <2>1, <2>2, <2>3, <2>4, ClockAssumption DEF EpochBooks
  <2>6. EpochBooks(e)'
    BY <2>1, <2>4, <2>5 DEF EpochBooks
  <2>7. ASSUME NEW x \in Epochs, x # e PROVE EpochBooks(x)'
    <3>1. EpochBooks(x)
      BY DEF BooksInv
    <3> QED BY <1>0, <2>1, <2>2, <2>7, <3>1, SameEpoch
  <2> QED BY <2>6, <2>7 DEF BooksInv
<1>7. ASSUME NEW s \in Wallets, NEW new \in Candidates, propose_authority_change_v2(s, new)
      PROVE  BooksInv'
  BY <1>7, SameBooks DEF propose_authority_change_v2, clock
<1>8. ASSUME NEW s \in Wallets, accept_authority_change_v2(s)
      PROVE  BooksInv'
  BY <1>8, SameBooks DEF accept_authority_change_v2, clock
<1>9. ASSUME NEW s \in Wallets, cancel_authority_change_v2(s)
      PROVE  BooksInv'
  BY <1>9, SameBooks DEF cancel_authority_change_v2, clock
<1>10. ASSUME NEW p \in Wallets, NEW r \in References, NEW t \in Tiers, pay_entry_v2(p, r, t)
       PROVE  BooksInv'
  BY <1>10, SameBooks DEF pay_entry_v2, clock
<1>11. ASSUME NEW p \in Wallets, NEW e \in Epochs, NEW amount \in Totals,
              claim_prize_v2(p, e, amount)
       PROVE  BooksInv'
  <2>1. /\ prizes[e] # NoAccount /\ claims[e][p] = 0 /\ amount > 0
        /\ Provable(prizes[e].root, prizes[e].leaf_count, p, amount)
        /\ prizes' = prizes /\ now' = now
        /\ remaining' = [remaining EXCEPT ![e] = remaining[e] - amount]
        /\ claims' = [claims EXCEPT ![e] = [claims[e] EXCEPT ![p] = amount]]
    BY <1>11 DEF claim_prize_v2, ClaimOnce, clock
  <2>2. /\ remaining'[e] = remaining[e] - amount
        /\ claims'[e] = [claims[e] EXCEPT ![p] = amount]
        /\ \A x \in Epochs \ {e} : remaining'[x] = remaining[x] /\ claims'[x] = claims[x]
    BY <2>1 DEF TypeOK
  <2>3. /\ claims[e] \in [Wallets -> Nat] /\ SumOver(claims[e], Wallets) \in Nat
        /\ remaining[e] \in Nat /\ prizes[e].total \in Nat /\ amount \in Nat
    BY <2>1, PaidIsNat, PublishedShape, AmountAssumption
  <2>4. SumOver(claims'[e], Wallets) = SumOver(claims[e], Wallets) + amount
    <3> DEFINE f == claims[e]
               g == claims'[e]
    <3>1. /\ \A y \in Wallets : f[y] \in Int /\ g[y] \in Int
          /\ \A y \in Wallets \ {p} : g[y] = f[y]
          /\ g[p] = amount /\ f[p] = 0
      BY <2>1, <2>2, <2>3
    <3> HIDE DEF f, g
    <3>2. SumOver(g, Wallets) = SumOver(f, Wallets) + (g[p] - f[p])
      BY <3>1, SumChange, KeyAssumption
    <3> QED BY <2>3, <3>1, <3>2 DEF f, g
  <2>5. EpochBooks(e)
    BY DEF BooksInv
  <2>6. SumOver(claims'[e], Wallets) + remaining'[e] = SumOver(claims[e], Wallets) + remaining[e]
    BY <2>2, <2>3, <2>4
  <2>7. \A q \in Wallets : claims'[e][q] # 0 =>
          Provable(prizes[e].root, prizes[e].leaf_count, q, claims'[e][q])
    <3>1. ASSUME NEW q \in Wallets, claims'[e][q] # 0
          PROVE  Provable(prizes[e].root, prizes[e].leaf_count, q, claims'[e][q])
      <4>1. CASE q = p
        BY <2>1, <2>2, <2>3, <4>1
      <4>2. CASE q # p
        <5>1. claims'[e][q] = claims[e][q]
          BY <2>2, <2>3, <4>2
        <5> QED BY <2>1, <2>5, <3>1, <5>1 DEF EpochBooks
      <4> QED BY <4>1, <4>2
    <3> QED BY <3>1
  <2>8. EpochBooks(e)'
    BY <2>1, <2>5, <2>6, <2>7 DEF EpochBooks
  <2>9. ASSUME NEW x \in Epochs, x # e PROVE EpochBooks(x)'
    <3>1. EpochBooks(x)
      BY DEF BooksInv
    <3> QED BY <1>0, <2>1, <2>2, <2>9, <3>1, SameEpoch
  <2> QED BY <2>8, <2>9 DEF BooksInv
<1>12. ASSUME NEW p \in Wallets, NEW to \in Accounts, NEW amount \in Gifts,
              ExternalTransfer(p, to, amount)
       PROVE  BooksInv'
  BY <1>12, SameBooks DEF ExternalTransfer, pdas, clock
<1>13. ASSUME NEW w \in Delegators, ToggleDelegate(w)
       PROVE  BooksInv'
  BY <1>13, SameBooks DEF ToggleDelegate, pdas, clock
<1>14. CASE SlotPasses
  BY <1>14, SameBooks DEF SlotPasses, pdas
<1>15. CASE TimePasses
  <2>1. now' \in Nat /\ now' >= now /\ UNCHANGED <<prizes, remaining, claims>>
    BY <1>0, <1>15 DEF TimePasses, pdas
  <2>2. ASSUME NEW e \in Epochs PROVE EpochBooks(e)'
    BY <2>1, SameEpoch DEF BooksInv
  <2> QED BY <2>2 DEF BooksInv
<1>16. CASE UNCHANGED vars
  BY <1>16, SameBooks DEF vars, pdas, clock
<1>17. QED
  BY <1>1, <1>2, <1>3, <1>4, <1>5, <1>6, <1>7, <1>8, <1>9, <1>10, <1>11, <1>12,
     <1>13, <1>14, <1>15, <1>16 DEF Next

\* An epoch's remainder is part of the reservation.
LEMMA RemainderReserved ==
  ASSUME TypeOK, ReservedIsUnpaid, NEW e \in Epochs
  PROVE  remaining[e] <= reserved
<1>1. PICK s \in [Epochs -> 0..reserved] :
        /\ s[0] = remaining[0]
        /\ \A i \in 1..MaxEpoch : s[i] = s[i - 1] + remaining[i]
  BY DEF ReservedIsUnpaid
<1>2. /\ MaxEpoch \in Nat /\ reserved \in Nat
      /\ remaining \in [0..MaxEpoch -> Nat] /\ s \in [0..MaxEpoch -> Int]
  BY AmountAssumption DEF TypeOK
<1>3. remaining[e] <= s[e]
  BY <1>1, <1>2, RunningSumBounds
<1> QED BY <1>1, <1>2, <1>3 DEF TypeOK

\* A proof against an honest tree is a proof of one of its leaves.
LEMMA HonestProof ==
  ASSUME NEW root, Len(root) \in Nat, NEW w, NEW amount, Provable(root, Len(root), w, amount)
  PROVE  \E i \in 1..Len(root) : root[i] = <<w, amount>>
<1>1. PICK index \in 0..(Len(root) - 1) : PaddedLeaf(root, index) = <<w, amount>>
  BY DEF Provable
<1>2. index + 1 \in 1..Len(root) /\ index < Len(root)
  OBVIOUS
<1>3. root[index + 1] = <<w, amount>>
  BY <1>1, <1>2 DEF PaddedLeaf
<1> QED BY <1>2, <1>3

\* The books, the reservation and the vault together make an honest epoch's
\* unclaimed leaves payable.
LEMMA PayableFromBooks ==
  TypeOK /\ VaultCoversReserved /\ ReservationInv /\ BooksInv => PrizesPayable
<1> SUFFICES ASSUME TypeOK, VaultCoversReserved, ReservationInv, BooksInv
             PROVE  PrizesPayable
  OBVIOUS
<1>1. EpochBooksBalance
  BY DEF EpochBooksBalance, BooksInv, EpochBooks, SumOver
<1>2. SevenDayGuarantee
  <2> SUFFICES ASSUME NEW e \in Epochs, prizes[e] # NoAccount,
                      HonestTree(prizes[e].root, prizes[e].leaf_count, prizes[e].total),
                      now < prizes[e].published_at + PRIZE_SWEEP_DELAY_SECONDS,
                      NEW k \in 1..Len(prizes[e].root),
                      claims[e][prizes[e].root[k][1]] = 0
               PROVE  ClaimCovered(e, prizes[e].root[k][2])
    BY DEF SevenDayGuarantee
  <2> DEFINE root == prizes[e].root
             I == 1..Len(root)
             f == claims[e]
             promised == TableTotal(root, I)
  <2>1. /\ Len(root) \in Nat /\ root \in [I -> Wallets \X Nat] /\ prizes[e].total \in Nat
    BY PublishedShape, RootAssumption
  <2>2. f \in [Wallets -> Nat] /\ SumOver(f, Wallets) \in Nat /\ remaining[e] \in Nat
    BY PaidIsNat
  <2>3. prizes[e].leaf_count = Len(root) /\ promised <= prizes[e].total
    BY DEF HonestTree, TableTotal
  <2>4. SumOver(f, Wallets) + remaining[e] = prizes[e].total
    BY DEF BooksInv, EpochBooks
  <2>5. \A p \in Wallets : f[p] = 0 \/ (\E i \in I : root[i] = <<p, f[p]>>)
    <3> SUFFICES ASSUME NEW p \in Wallets, f[p] # 0
                 PROVE  \E i \in I : root[i] = <<p, f[p]>>
      OBVIOUS
    <3>1. Provable(root, Len(root), p, f[p])
      BY <2>3 DEF BooksInv, EpochBooks
    <3> HIDE DEF root, f
    <3> QED BY <2>1, <3>1, HonestProof
  <2>6. IsFiniteSet(I) /\ IsFiniteSet(Wallets)
    BY <2>1, FS_Interval, KeyAssumption
  <2>7. root[k][2] \in Nat /\ k \in I /\ f[root[k][1]] = 0
    BY <2>1
  <2>8. promised \in Nat /\ SumOver(f, Wallets) + root[k][2] <= promised
    <3> HIDE DEF root, I, f
    <3> QED BY <2>1, <2>2, <2>5, <2>6, <2>7, TableCovers
  <2> HIDE DEF promised, root, f
  <2>9. root[k][2] <= remaining[e]
    BY <2>1, <2>2, <2>3, <2>4, <2>7, <2>8
  <2>10. remaining[e] <= reserved /\ reserved <= balance[Vault]
         /\ reserved \in Nat /\ balance[Vault] \in Nat
    BY RemainderReserved, VaultIsApart DEF ReservationInv, VaultCoversReserved, TypeOK
  <2> QED BY <2>2, <2>7, <2>9, <2>10 DEF ClaimCovered, root
<1> QED BY <1>1, <1>2 DEF PrizesPayable

\* For every reachable state: what an epoch's claim records paid and what it has
\* left are its declared total until the sweep, and until then every unclaimed
\* leaf of a correctly computed tree fits the epoch, the reservation and the vault.
THEOREM PrizesAlwaysPayable == Spec => []PrizesPayable
<1>1. Spec => [](TypeOK /\ VaultCoversReserved /\ ReservationInv /\ BooksInv)
  BY InitTypeOK, NextTypeOK, InitVaultCovers, NextVaultCovers, InitReservation,
     NextReservation, InitBooks, NextBooks, PTL DEF Spec
<1>2. QED
  BY <1>1, PayableFromBooks, PTL

-----------------------------------------------------------------------------
(* The treasury, and the refund. *)

\* The treasury account is the authority's in every reachable state: the only
\* instructions that write either, initialize_v2 and accept_authority_change_v2,
\* write both.
THEOREM TreasuryAlwaysFollows == Spec => []TreasuryFollowsAuthority
<1>1. Init => TreasuryFollowsAuthority
  BY DEF Init, TreasuryFollowsAuthority
<1>2. TreasuryFollowsAuthority /\ [Next]_vars => TreasuryFollowsAuthority'
  BY DEF TreasuryFollowsAuthority, Next, vars, config, initialize_v2, set_params_v2,
         set_paused_v2, refund_entry_v2, publish_prizes_v2, sweep_expired_prizes_v2,
         propose_authority_change_v2, accept_authority_change_v2, RotatedTreasury,
         cancel_authority_change_v2, pay_entry_v2, claim_prize_v2, ExternalTransfer,
         ToggleDelegate, SlotPasses, TimePasses
<1>3. QED
  BY <1>1, <1>2, PTL DEF Spec

\* A refund returns the recorded rake from the treasury and the recorded prize
\* share from the vault, together what the entry cost.
LEMMA RefundReturns ==
  ASSUME TypeOK, NEW s \in Wallets, NEW p \in Wallets, NEW r \in References,
         refund_entry_v2(s, p, r)
  PROVE  /\ balance'[p] = balance[p] + tickets[r][p].amount
         /\ balance'[Vault] = balance[Vault] - tickets[r][p].prize
         /\ balance'[treasury] = balance[treasury] - tickets[r][p].rake
<1> DEFINE split == tickets[r][p]
           half == Transfer(balance, treasury, p, split.rake)
<1>1. split \in EntryTicketV2 /\ split.rake \in Nat /\ split.prize \in Nat /\ split.amount \in Nat
  BY DEF refund_entry_v2, TypeOK, EntryTicketV2
<1>2. /\ treasury \in Wallets /\ p # treasury
      /\ balance[Vault] >= split.prize
      /\ balance[treasury] >= split.rake
      /\ split.rake + split.prize = split.amount
      /\ balance' = Transfer(half, Vault, p, split.prize)
  BY DEF refund_entry_v2, RefundSplit, RefundCovered, TreasuryUsable, Signs, Initialized, TypeOK
<1> HIDE DEF split
<1>3. /\ balance \in [Accounts -> Nat]
      /\ treasury \in Accounts /\ p \in Accounts /\ Vault \in Accounts
      /\ p # Vault /\ treasury # Vault
  BY <1>2, VaultIsApart DEF TypeOK
<1>4. /\ half \in [Accounts -> Nat]
      /\ half[treasury] = balance[treasury] - split.rake
      /\ half[p] = balance[p] + split.rake
      /\ half[Vault] = balance[Vault]
  BY <1>1, <1>2, <1>3, TransferMoves
<1> HIDE DEF half
<1>5. /\ balance'[Vault] = half[Vault] - split.prize
      /\ balance'[p] = half[p] + split.prize
      /\ balance'[treasury] = half[treasury]
  BY <1>1, <1>2, <1>3, <1>4, TransferMoves
<1>6. balance[p] \in Nat /\ balance'[p] = balance[p] + split.amount
  BY <1>1, <1>2, <1>3, <1>4, <1>5
<1> QED BY <1>4, <1>5, <1>6 DEF split

\* What a refund must give back, step by step.
RefundStep ==
  \A r \in References, p \in Wallets :
    LET ticket == tickets[r][p] IN
    ticket # NoAccount /\ tickets'[r][p] = NoAccount =>
      /\ balance'[p] = balance[p] + ticket.amount
      /\ balance'[Vault] = balance[Vault] - ticket.prize
      /\ balance'[treasury] = balance[treasury] - ticket.rake

\* Only a refund closes a ticket, and it closes the one it pays back.
LEMMA RefundStepHolds == TypeOK /\ [Next]_vars => RefundStep
<1> SUFFICES ASSUME TypeOK, [Next]_vars, NEW r \in References, NEW p \in Wallets,
                    tickets[r][p] # NoAccount, tickets'[r][p] = NoAccount
             PROVE  /\ balance'[p] = balance[p] + tickets[r][p].amount
                    /\ balance'[Vault] = balance[Vault] - tickets[r][p].prize
                    /\ balance'[treasury] = balance[treasury] - tickets[r][p].rake
  BY DEF RefundStep
<1>1. tickets' # tickets
  OBVIOUS
<1>2. \/ \E s \in Wallets, q \in Wallets, x \in References : refund_entry_v2(s, q, x)
      \/ \E q \in Wallets, x \in References, t \in Tiers : pay_entry_v2(q, x, t)
  BY <1>1 DEF Next, vars, pdas, initialize_v2, set_params_v2,
         set_paused_v2, publish_prizes_v2, sweep_expired_prizes_v2,
         propose_authority_change_v2, accept_authority_change_v2,
         cancel_authority_change_v2, claim_prize_v2, ExternalTransfer,
         ToggleDelegate, SlotPasses, TimePasses
<1>3. ASSUME NEW q \in Wallets, NEW x \in References, NEW t \in Tiers, pay_entry_v2(q, x, t)
      PROVE  FALSE
  <2> DEFINE split == split_fee_v2(Fees[t], rake_bps)
  <2>1. split \in EntryTicketV2
    BY <1>3, PayMoves
  <2> HIDE DEF split
  <2>2. split # NoAccount
    BY <2>1, AbsentAssumption
  <2>3. tickets' = [tickets EXCEPT ![x] = [tickets[x] EXCEPT ![q] = split]]
    BY <1>3 DEF pay_entry_v2, split
  <2>4. tickets \in [References -> [Wallets -> EntryTicketV2 \cup {NoAccount}]]
    BY DEF TypeOK
  <2>5. tickets'[r][p] = IF r = x /\ p = q THEN split ELSE tickets[r][p]
    BY <2>3, <2>4
  <2> QED BY <2>2, <2>5
<1>4. ASSUME NEW s \in Wallets, NEW q \in Wallets, NEW x \in References, refund_entry_v2(s, q, x)
      PROVE  r = x /\ p = q
  <2>1. tickets' = [tickets EXCEPT ![x] = [tickets[x] EXCEPT ![q] = NoAccount]]
    BY <1>4 DEF refund_entry_v2
  <2>2. tickets \in [References -> [Wallets -> EntryTicketV2 \cup {NoAccount}]]
    BY DEF TypeOK
  <2>3. tickets'[r][p] = IF r = x /\ p = q THEN NoAccount ELSE tickets[r][p]
    BY <2>1, <2>2
  <2> QED BY <2>3
<1>5. PICK s \in Wallets : refund_entry_v2(s, p, r)
  BY <1>2, <1>3, <1>4
<1> QED BY <1>5, RefundReturns

\* Every refund returns exactly what the entry cost, split as it was charged,
\* whatever the rake is by then.
THEOREM RefundsAreExact == Spec => RefundIsExact
<1>1. TypeOK /\ [Next]_vars => [RefundStep]_vars
  BY RefundStepHolds
<1>2. Spec => [][RefundStep]_vars
  BY <1>1, InitTypeOK, NextTypeOK, PTL DEF Spec
<1>3. QED
  BY <1>2 DEF RefundIsExact, RefundStep

-----------------------------------------------------------------------------
(* The market implements the payout ledger. *)

\* What the ledger calls promised.
Promised == [e \in Epochs |-> IF prizes[e] = NoAccount THEN 0 ELSE prizes[e].total]

LEMMA LedgerInit == Init => Ledger!Init
BY DEF Init, Ledger!Init

\* Publish is Promise, claim is Pay, sweep is Release; everything else leaves
\* the ledger alone.
LEMMA LedgerStep == TypeOK /\ BooksInv /\ [Next]_vars => [Ledger!Next]_(Ledger!vars)
<1> SUFFICES ASSUME TypeOK, BooksInv, [Next]_vars PROVE [Ledger!Next]_(Ledger!vars)
  OBVIOUS
<1>1. ASSUME NEW s \in Wallets, NEW e \in Epochs, NEW root \in Roots,
             NEW total \in Totals, NEW n \in LeafCounts,
             publish_prizes_v2(s, e, root, total, n)
      PROVE  Ledger!Promise(e, total) /\ total \in Totals \ {0}
  <2>1. /\ prizes[e] = NoAccount /\ n \in 1..MAX_LEAVES /\ total > 0
        /\ prizes' = [prizes EXCEPT ![e] = [root |-> root, total |-> total,
                                            leaf_count |-> n, published_at |-> now]]
        /\ remaining' = [remaining EXCEPT ![e] = total]
        /\ claims' = claims
    BY <1>1 DEF publish_prizes_v2, CanReserve
  <2>2. total \in Nat /\ total # 0
    BY <2>1, AmountAssumption
  <2>3. /\ prizes'[e] # NoAccount /\ prizes'[e].total = total
        /\ \A x \in Epochs \ {e} : prizes'[x] = prizes[x]
    BY <2>1, <2>2, AbsentAssumption DEF TypeOK, PrizeEpochV2
  <2>4. Promised' = [Promised EXCEPT ![e] = total]
    BY <2>3 DEF Promised
  <2>5. Promised[e] = 0
    BY <2>1 DEF Promised
  <2> QED BY <2>1, <2>2, <2>4, <2>5 DEF Ledger!Promise, Promised
<1>2. ASSUME NEW p \in Wallets, NEW e \in Epochs, NEW amount \in Totals,
              claim_prize_v2(p, e, amount)
      PROVE  Ledger!Pay(e, p, amount) /\ amount \in Totals \ {0}
  <2>1. /\ prizes[e] # NoAccount /\ claims[e][p] = 0 /\ amount > 0
        /\ amount <= remaining[e] /\ prizes' = prizes
        /\ remaining' = [remaining EXCEPT ![e] = remaining[e] - amount]
        /\ claims' = [claims EXCEPT ![e][p] = amount]
    BY <1>2 DEF claim_prize_v2, ClaimOnce, ClaimCovered
  <2>2. Promised[e] = prizes[e].total /\ Promised' = Promised
    BY <2>1 DEF Promised
  <2>3. /\ SumOver(claims[e], Wallets) \in Nat /\ remaining[e] \in Nat /\ amount \in Nat
        /\ prizes[e].total \in Nat
        /\ SumOver(claims[e], Wallets) + remaining[e] <= prizes[e].total
    BY <2>1, PaidIsNat, PublishedShape, AmountAssumption DEF BooksInv, EpochBooks
  <2>4. Promised[e] # 0 /\ amount # 0
    BY <2>1, <2>2, <2>3
  <2> QED BY <2>1, <2>2, <2>4 DEF Ledger!Pay, Promised
<1>3. ASSUME NEW s \in Wallets, NEW e \in Epochs, sweep_expired_prizes_v2(s, e)
      PROVE  Ledger!Release(e)
  <2>1. /\ prizes[e] # NoAccount /\ remaining[e] > 0
        /\ prizes' = prizes /\ claims' = claims
        /\ remaining' = [remaining EXCEPT ![e] = 0]
    BY <1>3 DEF sweep_expired_prizes_v2
  <2>2. Promised[e] = prizes[e].total /\ Promised' = Promised
    BY <2>1 DEF Promised
  <2>3. /\ SumOver(claims[e], Wallets) \in Nat /\ remaining[e] \in Nat
        /\ prizes[e].total \in Nat
        /\ SumOver(claims[e], Wallets) + remaining[e] <= prizes[e].total
    BY <2>1, PaidIsNat, PublishedShape DEF BooksInv, EpochBooks
  <2>4. Promised[e] # 0
    BY <2>1, <2>2, <2>3
  <2> QED BY <2>1, <2>2, <2>4 DEF Ledger!Release, Promised
<1>4. \/ UNCHANGED <<prizes, remaining, claims>>
      \/ \E s \in Wallets, e \in Epochs, root \in Roots, total \in Totals, n \in LeafCounts :
           publish_prizes_v2(s, e, root, total, n)
      \/ \E p \in Wallets, e \in Epochs, amount \in Totals : claim_prize_v2(p, e, amount)
      \/ \E s \in Wallets, e \in Epochs : sweep_expired_prizes_v2(s, e)
  BY DEF Next, vars, pdas, initialize_v2, set_params_v2, set_paused_v2, refund_entry_v2,
         propose_authority_change_v2, accept_authority_change_v2,
         cancel_authority_change_v2, pay_entry_v2, ExternalTransfer,
         ToggleDelegate, SlotPasses, TimePasses
<1>5. CASE UNCHANGED <<prizes, remaining, claims>>
  BY <1>5 DEF Ledger!vars
<1> QED BY <1>1, <1>2, <1>3, <1>4, <1>5 DEF Ledger!Next

\* Every behaviour of a market is a behaviour of the payout ledger: totals are
\* promised once, players are paid once, and nothing is revised.
THEOREM MarketImplementsLedger == Spec => ImplementsLedger
<1>1. Spec => [](TypeOK /\ BooksInv)
  BY InitTypeOK, NextTypeOK, InitReservation, NextReservation, InitBooks, NextBooks, PTL DEF Spec
<1>2. QED
  BY <1>1, LedgerInit, LedgerStep, PTL DEF Spec, ImplementsLedger, Ledger!Spec
=============================================================================
