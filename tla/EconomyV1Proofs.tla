-------------------------- MODULE EconomyV1Proofs --------------------------
(***************************************************************************)
(* Proofs about the v1 market, for every set of wallets, every number of   *)
(* epochs, every fee table and every rake; and about the Merkle tree that  *)
(* its claims, like those of the other programs, fold: what the fold       *)
(* accepts is what the programs' models call provable, for every table of  *)
(* up to 2^MaxDepth leaves.                                                *)
(***************************************************************************)
EXTENDS EconomyV1, MerkleCheck, FiniteSums, TLAPS

USE DEF Epochs, MAX_LEAVES

-----------------------------------------------------------------------------
(* The inductive invariant. *)

\* The nominee's delay is counted from its own nomination.
NominationInv ==
  pending_authority # NoKey => authority_change_slot = nominated_at[pending_authority]

\* What is true of one epoch: before publication nothing is declared, left or
\* paid; afterwards payments and what `total` still holds are within the
\* declared total, and exactly that until the sweep opens, and whoever was paid
\* had proved that very amount.
EpochBooks(e) ==
  /\ prizes[e] = NoAccount =>
       total[e] = 0 /\ declared[e] = 0 /\ \A p \in Wallets : claims[e][p] = 0
  /\ prizes[e] # NoAccount =>
       /\ declared[e] # 0
       /\ SumOver(claims[e], Wallets) + total[e] <= declared[e]
       /\ now < prizes[e].published_at + PRIZE_SWEEP_DELAY_SECONDS
          => SumOver(claims[e], Wallets) + total[e] = declared[e]
       /\ \A p \in Wallets : claims[e][p] # 0 =>
            Provable(prizes[e].root, prizes[e].leaf_count, p, claims[e][p])

\* The aggregate reservation is what the epochs still owe.
ReservationInv == reserved = SumOver(total, Epochs)

BooksInv == \A e \in Epochs : EpochBooks(e)

IInv == TypeOK /\ VaultCoversReserved /\ NominationInv /\ ReservationInv /\ BooksInv

-----------------------------------------------------------------------------
(* Facts about the constants and the records. *)

LEMMA SetsFinite == IsFiniteSet(Epochs) /\ IsFiniteSet(Wallets)
BY FS_Interval, MarketAssumption

\* The vault is a token account of its own: no wallet is the vault.
LEMMA VaultIsApart == Vault \in Accounts /\ \A w \in Wallets : w \in Accounts /\ w # Vault
BY MarketAssumption DEF Accounts

\* The payments of an epoch add up to a natural number.
LEMMA PaidIsNat ==
  ASSUME TypeOK, NEW e \in Epochs
  PROVE  /\ claims[e] \in [Wallets -> Nat]
         /\ SumOver(claims[e], Wallets) \in Nat
         /\ total[e] \in Nat /\ declared[e] \in Nat
BY SumNat, SetsFinite DEF TypeOK

\* A published epoch's record has its type.
LEMMA PublishedShape ==
  ASSUME TypeOK, NEW e \in Epochs, prizes[e] # NoAccount
  PROVE  prizes[e].root \in Roots /\ prizes[e].published_at \in Nat
BY DEF TypeOK, PrizeEpoch

\* What an epoch has left is part of the reservation.
LEMMA RemainderReserved ==
  ASSUME TypeOK, ReservationInv, NEW e \in Epochs
  PROVE  total[e] <= reserved
<1>1. \A x \in Epochs : total[x] \in Nat
  BY DEF TypeOK
<1>2. total[e] <= SumOver(total, Epochs)
  BY <1>1, SumTerm, SetsFinite
<1> QED BY <1>2 DEF ReservationInv

\* Moving one epoch's total moves the sum of the totals as much.
LEMMA TotalsMove ==
  ASSUME TypeOK, NEW e \in Epochs, NEW m \in Nat, total' = [total EXCEPT ![e] = m]
  PROVE  /\ total' \in [Epochs -> Nat] /\ total'[e] = m
         /\ \A y \in Epochs \ {e} : total'[y] = total[y]
         /\ SumOver(total', Epochs) = SumOver(total, Epochs) + (m - total[e])
<1> DEFINE f == total
           g == total'
<1>1. /\ \A y \in Epochs : f[y] \in Int /\ g[y] \in Int
      /\ \A y \in Epochs \ {e} : g[y] = f[y]
      /\ g[e] = m
      /\ g \in [Epochs -> Nat]
  <2>1. f \in [Epochs -> Nat] /\ g = [f EXCEPT ![e] = m]
    BY DEF TypeOK
  <2> HIDE DEF f, g
  <2>2. g \in [Epochs -> Nat] /\ g[e] = m /\ \A y \in Epochs \ {e} : g[y] = f[y]
    BY <2>1
  <2> QED BY <2>1, <2>2
<1> HIDE DEF f, g
<1>2. SumOver(g, Epochs) = SumOver(f, Epochs) + (g[e] - f[e])
  BY <1>1, SumChange, SetsFinite
<1> QED BY <1>1, <1>2 DEF f, g

-----------------------------------------------------------------------------
(* Token transfers. *)

\* A covered transfer between two accounts moves the amount and nothing else.
LEMMA TransferMoves ==
  ASSUME NEW bal \in [Accounts -> Nat], NEW from \in Accounts, NEW to \in Accounts,
         from # to, NEW amount \in Nat, amount <= bal[from]
  PROVE  LET b == Transfer(bal, from, to, amount)
         IN  /\ b \in [Accounts -> Nat]
             /\ b[from] = bal[from] - amount
             /\ b[to] = bal[to] + amount
             /\ \A a \in Accounts \ {from, to} : b[a] = bal[a]
<1> DEFINE b == [bal EXCEPT ![from] = @ - amount, ![to] = @ + amount]
<1>1. /\ b = [a \in Accounts |-> IF a = to THEN bal[to] + amount
                                 ELSE IF a = from THEN bal[from] - amount ELSE bal[a]]
  OBVIOUS
<1>2. \A a \in Accounts : b[a] \in Nat
  BY <1>1
<1> QED BY <1>1, <1>2 DEF Transfer

\* Multiplying both sides of an inequality by a natural number keeps it.
LEMMA MultMono ==
  ASSUME NEW a \in Nat, NEW b \in Nat, NEW c \in Nat, a <= b
  PROVE  c * a <= c * b
BY SMT

\* The rake of a fee is a natural number within the fee.
LEMMA RakeWithinFee ==
  ASSUME NEW fee \in Nat, NEW bps \in 0..MAX_RAKE_BPS
  PROVE  /\ (fee * bps) \div RAKE_DENOM \in Nat
         /\ (fee * bps) \div RAKE_DENOM <= fee
<1> DEFINE q == (fee * bps) \div RAKE_DENOM
<1>1. RAKE_DENOM \in Nat /\ RAKE_DENOM > 0 /\ bps \in Nat /\ bps <= RAKE_DENOM
  BY MarketAssumption
<1>2. fee * bps \in Nat /\ fee * RAKE_DENOM \in Nat /\ fee * bps <= fee * RAKE_DENOM
  BY <1>1, MultMono
<1>3. q \in Nat /\ RAKE_DENOM * q <= fee * bps
  BY <1>1, <1>2
<1>4. q <= fee
  <2>1. SUFFICES ASSUME fee + 1 <= q PROVE FALSE
    BY <1>3
  <2>2. RAKE_DENOM * (fee + 1) <= RAKE_DENOM * q
    BY <1>1, <1>3, <2>1, MultMono
  <2>3. RAKE_DENOM * (fee + 1) = fee * RAKE_DENOM + RAKE_DENOM
    BY <1>1
  <2> QED BY <1>1, <1>2, <1>3, <2>2, <2>3
<1> QED BY <1>3, <1>4

\* pay_entry: both shares leave the player, the prize share reaches the vault.
LEMMA PayMoves ==
  ASSUME TypeOK, NEW p \in Wallets, NEW r \in References, NEW kind \in Kinds,
         pay_entry(p, r, kind)
  PROVE  /\ balance' \in [Accounts -> Nat] /\ balance'[Vault] >= balance[Vault]
         /\ fees[kind] \in Nat
<1> DEFINE fee == fees[kind]
           rake == (fee * rake_bps) \div RAKE_DENOM
           half == Transfer(balance, p, treasury, rake)
<1>1. fee \in Nat /\ rake_bps \in 0..MAX_RAKE_BPS
  BY DEF TypeOK
<1>2. /\ balance[p] >= fee /\ treasury \in Wallets /\ p # treasury
      /\ balance' = Transfer(half, p, Vault, fee - rake)
  BY DEF pay_entry, PayEntry, Initialized, TypeOK
<1>3. rake \in Nat /\ rake <= fee
  BY <1>1, RakeWithinFee
<1> HIDE DEF fee, rake
<1>4. /\ balance \in [Accounts -> Nat]
      /\ treasury \in Accounts /\ p \in Accounts /\ Vault \in Accounts
      /\ p # Vault /\ treasury # Vault
  BY <1>2, VaultIsApart DEF TypeOK
<1>5. balance[p] \in Nat /\ balance[Vault] \in Nat /\ rake <= balance[p] /\ fee - rake \in Nat
  BY <1>1, <1>2, <1>3, <1>4
<1>6. /\ half \in [Accounts -> Nat]
      /\ half[p] = balance[p] - rake
      /\ half[Vault] = balance[Vault]
  BY <1>2, <1>3, <1>4, <1>5, TransferMoves
<1> HIDE DEF half
<1>7. fee - rake <= half[p]
  BY <1>1, <1>2, <1>3, <1>5, <1>6
<1> DEFINE prize == fee - rake
<1>8. prize \in Nat /\ prize <= half[p] /\ balance' = Transfer(half, p, Vault, prize)
  BY <1>2, <1>5, <1>7
<1> HIDE DEF prize
<1>9. balance' \in [Accounts -> Nat] /\ balance'[Vault] = half[Vault] + prize
  BY <1>4, <1>6, <1>8, TransferMoves
<1>10. balance'[Vault] >= balance[Vault]
  BY <1>5, <1>6, <1>8, <1>9
<1> QED BY <1>1, <1>9, <1>10 DEF fee

\* A transfer out of the vault to a wallet.
LEMMA VaultPays ==
  ASSUME TypeOK, NEW w \in Wallets, NEW amount \in Nat, amount <= balance[Vault],
         balance' = Transfer(balance, Vault, w, amount)
  PROVE  balance' \in [Accounts -> Nat] /\ balance'[Vault] = balance[Vault] - amount
<1>1. /\ balance \in [Accounts -> Nat] /\ Vault \in Accounts /\ w \in Accounts /\ Vault # w
  BY VaultIsApart DEF TypeOK
<1> QED BY <1>1, TransferMoves

-----------------------------------------------------------------------------
(* Frames. *)

\* A step that leaves an epoch alone keeps its books: time only runs forward.
LEMMA SameEpoch ==
  ASSUME TypeOK, NEW e \in Epochs, EpochBooks(e), prizes'[e] = prizes[e],
         total'[e] = total[e], claims'[e] = claims[e], declared'[e] = declared[e],
         now' \in Nat, now' >= now
  PROVE  EpochBooks(e)'
<1>1. CASE prizes[e] = NoAccount
  BY <1>1 DEF EpochBooks
<1>2. CASE prizes[e] # NoAccount
  <2>1. prizes[e].published_at \in Nat /\ now \in Nat /\ PRIZE_SWEEP_DELAY_SECONDS \in Nat
    BY <1>2, PublishedShape, MarketAssumption DEF TypeOK
  <2>2. now' < prizes[e].published_at + PRIZE_SWEEP_DELAY_SECONDS
        => now < prizes[e].published_at + PRIZE_SWEEP_DELAY_SECONDS
    BY <2>1
  <2> QED BY <1>2, <2>2 DEF EpochBooks
<1> QED BY <1>1, <1>2

\* A step that touches no epoch, and takes nothing from the vault.
LEMMA SameEpochs ==
  ASSUME IInv, UNCHANGED epochs, now' \in Nat, now' >= now,
         balance'[Vault] \in Nat, balance'[Vault] >= balance[Vault]
  PROVE  BooksInv' /\ ReservationInv' /\ VaultCoversReserved'
<1>0. TypeOK /\ BooksInv /\ ReservationInv /\ VaultCoversReserved
  BY DEF IInv
<1>1. /\ prizes' = prizes /\ total' = total /\ claims' = claims /\ declared' = declared
      /\ reserved' = reserved
  BY DEF epochs
<1>2. ASSUME NEW e \in Epochs PROVE EpochBooks(e)'
  <2>1. EpochBooks(e)
    BY <1>0 DEF BooksInv
  <2> QED BY <1>0, <1>1, <2>1, SameEpoch
<1>3. reserved \in Nat /\ balance[Vault] \in Nat
  BY <1>0, VaultIsApart DEF TypeOK
<1>4. ReservationInv'
  BY <1>0, <1>1 DEF ReservationInv
<1>5. VaultCoversReserved'
  BY <1>0, <1>1, <1>3 DEF VaultCoversReserved
<1> QED BY <1>2, <1>4, <1>5 DEF BooksInv

\* The same when no token moves and no time passes.
LEMMA SameMoney ==
  ASSUME IInv, UNCHANGED <<epochs, balance, now>>
  PROVE  BooksInv' /\ ReservationInv' /\ VaultCoversReserved'
<1>1. now' \in Nat /\ now' >= now /\ balance'[Vault] \in Nat /\ balance'[Vault] >= balance[Vault]
  BY VaultIsApart DEF IInv, TypeOK
<1> QED BY <1>1, SameEpochs

LEMMA SameHandover ==
  ASSUME NominationInv, UNCHANGED handover
  PROVE  NominationInv'
BY DEF NominationInv, handover

-----------------------------------------------------------------------------
(* The invariant holds initially and is kept by every instruction. *)

LEMMA InitInv == Init => IInv
<1> SUFFICES ASSUME Init PROVE IInv
  OBVIOUS
<1>1. TypeOK
  BY MarketAssumption DEF Init, TypeOK, Accounts
<1>2. SumOver(total, Epochs) = 0
  BY SumZero, SetsFinite DEF Init
<1>3. VaultCoversReserved
  BY VaultIsApart DEF Init, VaultCoversReserved
<1>4. NominationInv /\ ReservationInv /\ BooksInv
  BY <1>2 DEF Init, NominationInv, ReservationInv, BooksInv, EpochBooks
<1> QED BY <1>1, <1>3, <1>4 DEF IInv

\* publish_prizes reserves its total out of what the vault has free.
LEMMA PublishKeeps ==
  ASSUME IInv, NEW s \in Wallets, NEW e \in Epochs, NEW root \in Roots, NEW amount \in Totals,
         NEW n \in LeafCounts, publish_prizes(s, e, root, amount, n)
  PROVE  IInv'
<1> DEFINE rec == [root |-> root, leaf_count |-> n, published_at |-> now]
<1>1. /\ prizes[e] = NoAccount /\ n \in 1..MAX_LEAVES /\ amount > 0
      /\ balance[Vault] >= reserved /\ amount <= balance[Vault] - reserved
      /\ reserved' = reserved + amount
      /\ prizes' = [prizes EXCEPT ![e] = rec]
      /\ total' = [total EXCEPT ![e] = amount]
      /\ declared' = [declared EXCEPT ![e] = amount]
      /\ claims' = claims /\ balance' = balance /\ now' = now
      /\ UNCHANGED <<params, paused, handover, tickets, unsafe, clock>>
  BY DEF publish_prizes, PublishPrizes, FreeCovers, clock
<1>2. TypeOK /\ EpochBooks(e) /\ ReservationInv /\ NominationInv
  BY DEF IInv, BooksInv
<1>3. /\ amount \in Nat /\ amount # 0 /\ total[e] = 0 /\ \A p \in Wallets : claims[e][p] = 0
      /\ reserved \in Nat /\ balance[Vault] \in Nat /\ now \in Nat
  BY <1>1, <1>2, MarketAssumption, VaultIsApart DEF EpochBooks, TypeOK
<1>4. /\ total' \in [Epochs -> Nat] /\ total'[e] = amount
      /\ \A y \in Epochs \ {e} : total'[y] = total[y]
      /\ SumOver(total', Epochs) = SumOver(total, Epochs) + (amount - total[e])
  BY <1>1, <1>2, <1>3, TotalsMove
<1>5. rec \in PrizeEpoch /\ rec # NoAccount
  BY <1>1, <1>3, MarketAssumption DEF PrizeEpoch
<1> HIDE DEF rec
<1>6. /\ prizes' \in [Epochs -> PrizeEpoch \cup {NoAccount}] /\ prizes'[e] = rec
      /\ declared' \in [Epochs -> Nat] /\ declared'[e] = amount
      /\ \A y \in Epochs \ {e} : prizes'[y] = prizes[y] /\ declared'[y] = declared[y]
  BY <1>1, <1>2, <1>3, <1>5 DEF TypeOK
<1>7. TypeOK'
  <2>1. reserved' \in Nat
    BY <1>1, <1>3
  <2> QED BY <1>1, <1>2, <1>4, <1>6, <2>1 DEF TypeOK, handover, params, clock
<1>8. VaultCoversReserved'
  BY <1>1, <1>3 DEF VaultCoversReserved
<1>9. NominationInv'
  BY <1>1, <1>2, SameHandover
<1>10. ReservationInv'
  BY <1>1, <1>2, <1>3, <1>4 DEF ReservationInv
<1>11. EpochBooks(e)'
  <2>1. SumOver(claims[e], Wallets) = 0
    BY <1>3, SumZero, SetsFinite
  <2> QED BY <1>1, <1>3, <1>4, <1>5, <1>6, <2>1 DEF EpochBooks
<1>12. ASSUME NEW x \in Epochs, x # e PROVE EpochBooks(x)'
  <2>1. EpochBooks(x) /\ now' \in Nat /\ now' >= now
    BY <1>1, <1>3 DEF IInv, BooksInv
  <2> QED BY <1>1, <1>2, <1>4, <1>6, <1>12, <2>1, SameEpoch
<1> QED BY <1>7, <1>8, <1>9, <1>10, <1>11, <1>12 DEF IInv, BooksInv

\* claim_prize moves one proved leaf out of the epoch, the reservation and the
\* vault.
LEMMA ClaimKeeps ==
  ASSUME IInv, NEW p \in Wallets, NEW e \in Epochs, NEW amount \in Totals,
         claim_prize(p, e, amount)
  PROVE  IInv'
<1>1. /\ prizes[e] # NoAccount /\ amount > 0 /\ claims[e][p] = 0
      /\ Provable(prizes[e].root, prizes[e].leaf_count, p, amount)
      /\ amount <= total[e] /\ amount <= reserved /\ amount <= balance[Vault]
      /\ total' = [total EXCEPT ![e] = total[e] - amount]
      /\ reserved' = reserved - amount
      /\ claims' = [claims EXCEPT ![e] = [claims[e] EXCEPT ![p] = amount]]
      /\ balance' = Transfer(balance, Vault, p, amount)
      /\ prizes' = prizes /\ declared' = declared /\ now' = now
      /\ UNCHANGED <<params, paused, handover, tickets, unsafe, clock>>
  BY DEF claim_prize, ClaimPrize, ClaimCovered, clock
<1>2. TypeOK /\ EpochBooks(e) /\ ReservationInv /\ NominationInv /\ VaultCoversReserved
  BY DEF IInv, BooksInv
<1>3. /\ amount \in Nat /\ claims[e] \in [Wallets -> Nat]
      /\ SumOver(claims[e], Wallets) \in Nat /\ total[e] \in Nat
      /\ reserved \in Nat /\ balance[Vault] \in Nat /\ now \in Nat
  BY <1>2, PaidIsNat, MarketAssumption, VaultIsApart DEF TypeOK
<1> DEFINE m == total[e] - amount
<1>4. m \in Nat
  BY <1>1, <1>3
<1>5. /\ total' \in [Epochs -> Nat] /\ total'[e] = m
      /\ \A y \in Epochs \ {e} : total'[y] = total[y]
      /\ SumOver(total', Epochs) = SumOver(total, Epochs) + (m - total[e])
  <2> HIDE DEF m
  <2>1. total' = [total EXCEPT ![e] = m]
    BY <1>1 DEF m
  <2> QED BY <1>2, <1>4, <2>1, TotalsMove
<1>6. /\ claims' \in [Epochs -> [Wallets -> Nat]]
      /\ claims'[e] = [claims[e] EXCEPT ![p] = amount]
      /\ \A x \in Epochs \ {e} : claims'[x] = claims[x]
  <2>1. claims \in [Epochs -> [Wallets -> Nat]]
    BY <1>2 DEF TypeOK
  <2>2. [claims[e] EXCEPT ![p] = amount] \in [Wallets -> Nat]
    BY <1>3
  <2> QED BY <1>1, <2>1, <2>2
<1>7. balance' \in [Accounts -> Nat] /\ balance'[Vault] = balance[Vault] - amount
  BY <1>1, <1>2, <1>3, VaultPays
<1>8. reserved' \in Nat /\ VaultCoversReserved'
  BY <1>1, <1>2, <1>3, <1>7 DEF VaultCoversReserved
<1>9. TypeOK'
  BY <1>1, <1>2, <1>5, <1>6, <1>7, <1>8 DEF TypeOK, handover, params, clock
<1>10. ReservationInv' /\ NominationInv'
  BY <1>1, <1>2, <1>3, <1>4, <1>5, SameHandover DEF ReservationInv
<1>11. SumOver(claims'[e], Wallets) = SumOver(claims[e], Wallets) + amount
  <2> DEFINE f == claims[e]
             g == claims'[e]
  <2>1. /\ \A y \in Wallets : f[y] \in Int /\ g[y] \in Int
        /\ \A y \in Wallets \ {p} : g[y] = f[y]
        /\ g[p] = amount /\ f[p] = 0
    BY <1>1, <1>3, <1>6
  <2> HIDE DEF f, g
  <2>2. SumOver(g, Wallets) = SumOver(f, Wallets) + (g[p] - f[p])
    BY <2>1, SumChange, SetsFinite
  <2> QED BY <1>3, <2>1, <2>2 DEF f, g
<1>12. ASSUME NEW q \in Wallets, claims'[e][q] # 0
       PROVE  Provable(prizes[e].root, prizes[e].leaf_count, q, claims'[e][q])
  <2>1. CASE q = p
    BY <1>1, <1>3, <1>6, <2>1
  <2>2. CASE q # p
    <3>1. claims'[e][q] = claims[e][q]
      BY <1>3, <1>6, <2>2
    <3> QED BY <1>1, <1>2, <1>12, <3>1 DEF EpochBooks
  <2> QED BY <2>1, <2>2
<1>13. EpochBooks(e)'
  <2>1. SumOver(claims'[e], Wallets) + total'[e] = SumOver(claims[e], Wallets) + total[e]
    BY <1>3, <1>5, <1>11
  <2> QED BY <1>1, <1>2, <1>12, <2>1 DEF EpochBooks
<1>14. ASSUME NEW x \in Epochs, x # e PROVE EpochBooks(x)'
  <2>1. EpochBooks(x) /\ now' \in Nat /\ now' >= now
    BY <1>1, <1>3 DEF IInv, BooksInv
  <2> QED BY <1>1, <1>2, <1>5, <1>6, <1>14, <2>1, SameEpoch
<1> QED BY <1>8, <1>9, <1>10, <1>13, <1>14 DEF IInv, BooksInv

\* sweep_expired_prizes empties an epoch whose seven days are over.
LEMMA SweepKeeps ==
  ASSUME IInv, NEW s \in Wallets, NEW e \in Epochs, sweep_expired_prizes(s, e)
  PROVE  IInv'
<1>1. /\ prizes[e] # NoAccount /\ treasury \in Wallets
      /\ now >= prizes[e].published_at + PRIZE_SWEEP_DELAY_SECONDS
      /\ total[e] <= reserved /\ total[e] <= balance[Vault]
      /\ reserved' = reserved - total[e]
      /\ balance' = Transfer(balance, Vault, treasury, total[e])
      /\ total' = [total EXCEPT ![e] = 0]
      /\ prizes' = prizes /\ claims' = claims /\ declared' = declared /\ now' = now
      /\ UNCHANGED <<params, paused, handover, tickets, unsafe, clock>>
  BY DEF sweep_expired_prizes, SweepPrizes, Signs, Expired, clock
<1>2. TypeOK /\ EpochBooks(e) /\ ReservationInv /\ NominationInv /\ VaultCoversReserved
  BY DEF IInv, BooksInv
<1>3. /\ SumOver(claims[e], Wallets) \in Nat /\ total[e] \in Nat /\ declared[e] \in Nat
      /\ reserved \in Nat /\ balance[Vault] \in Nat /\ now \in Nat
      /\ prizes[e].published_at \in Nat
  BY <1>1, <1>2, PaidIsNat, PublishedShape, VaultIsApart DEF TypeOK
<1>4. /\ total' \in [Epochs -> Nat] /\ total'[e] = 0
      /\ \A y \in Epochs \ {e} : total'[y] = total[y]
      /\ SumOver(total', Epochs) = SumOver(total, Epochs) + (0 - total[e])
  BY <1>1, <1>2, TotalsMove
<1>5. balance' \in [Accounts -> Nat] /\ balance'[Vault] = balance[Vault] - total[e]
  BY <1>1, <1>2, <1>3, VaultPays
<1>6. reserved' \in Nat /\ VaultCoversReserved'
  BY <1>1, <1>2, <1>3, <1>5 DEF VaultCoversReserved
<1>7. TypeOK'
  BY <1>1, <1>2, <1>4, <1>5, <1>6 DEF TypeOK, handover, params, clock
<1>8. ReservationInv' /\ NominationInv'
  BY <1>1, <1>2, <1>3, <1>4, SameHandover DEF ReservationInv
<1>9. EpochBooks(e)'
  <2>1. SumOver(claims[e], Wallets) + total[e] <= declared[e]
    BY <1>1, <1>2 DEF EpochBooks
  <2>2. SumOver(claims[e], Wallets) + total'[e] <= declared[e]
    BY <1>3, <1>4, <2>1
  <2>3. ~ (now < prizes[e].published_at + PRIZE_SWEEP_DELAY_SECONDS)
    BY <1>1, <1>3, MarketAssumption
  <2> QED BY <1>1, <1>2, <2>2, <2>3 DEF EpochBooks
<1>10. ASSUME NEW x \in Epochs, x # e PROVE EpochBooks(x)'
  <2>1. EpochBooks(x) /\ now' \in Nat /\ now' >= now
    BY <1>1, <1>3 DEF IInv, BooksInv
  <2> QED BY <1>1, <1>2, <1>4, <1>10, <2>1, SameEpoch
<1> QED BY <1>6, <1>7, <1>8, <1>9, <1>10 DEF IInv, BooksInv

LEMMA NextInv == IInv /\ [Next]_vars => IInv'
<1> SUFFICES ASSUME IInv, [Next]_vars PROVE IInv'
  OBVIOUS
<1>0. TypeOK /\ NominationInv
  BY DEF IInv
<1>1. ASSUME NEW s \in Wallets, NEW bps \in Rakes, NEW f \in FeeTables, initialize(s, bps, f)
      PROVE  IInv'
  <2>1. bps \in 0..MAX_RAKE_BPS /\ f \in [Kinds -> Nat]
    BY <1>1, MarketAssumption DEF initialize
  <2>2. TypeOK' /\ UNCHANGED <<epochs, balance, now>>
    BY <1>0, <1>1, <2>1 DEF initialize, TypeOK, epochs, clock
  <2>3. NominationInv'
    BY <1>0, <1>1 DEF initialize, NominationInv
  <2> QED BY <2>2, <2>3, SameMoney DEF IInv
<1>2. ASSUME NEW s \in Wallets, NEW bps \in Rakes, NEW f \in FeeTables, set_params(s, bps, f)
      PROVE  IInv'
  <2>1. bps \in 0..MAX_RAKE_BPS /\ f \in [Kinds -> Nat]
    BY <1>2, MarketAssumption DEF set_params
  <2>2. TypeOK' /\ UNCHANGED <<epochs, balance, now>> /\ UNCHANGED handover
    BY <1>0, <1>2, <2>1 DEF set_params, TypeOK, epochs, clock, handover
  <2> QED BY <1>0, <2>2, SameMoney, SameHandover DEF IInv
<1>3. ASSUME NEW s \in Wallets, NEW p \in BOOLEAN, set_paused(s, p) PROVE IInv'
  <2>1. TypeOK' /\ UNCHANGED <<epochs, balance, now>> /\ UNCHANGED handover
    BY <1>0, <1>3 DEF set_paused, TypeOK, epochs, clock, handover, params
  <2> QED BY <1>0, <2>1, SameMoney, SameHandover DEF IInv
<1>4. ASSUME NEW s \in Wallets, NEW new \in Candidates, propose_authority_change(s, new)
      PROVE  IInv'
  <2>1. new \in Wallets
    BY MarketAssumption
  <2>2. TypeOK' /\ UNCHANGED <<epochs, balance, now>>
    BY <1>0, <1>4, <2>1 DEF propose_authority_change, NominationSlot, TypeOK, epochs, clock, params
  <2>3. NominationInv'
    BY <1>0, <1>4, <2>1 DEF propose_authority_change, NominationSlot, NominationInv, TypeOK
  <2> QED BY <2>2, <2>3, SameMoney DEF IInv
<1>5. ASSUME NEW s \in Wallets, accept_authority_change(s) PROVE IInv'
  <2>1. TypeOK' /\ UNCHANGED <<epochs, balance, now>>
    BY <1>0, <1>5 DEF accept_authority_change, TypeOK, epochs, clock, params
  <2>2. NominationInv'
    BY <1>5 DEF accept_authority_change, NominationInv
  <2> QED BY <2>1, <2>2, SameMoney DEF IInv
<1>6. ASSUME NEW s \in Wallets, NEW e \in Epochs, NEW root \in Roots, NEW amount \in Totals,
             NEW n \in LeafCounts, publish_prizes(s, e, root, amount, n)
      PROVE  IInv'
  BY <1>6, PublishKeeps
<1>7. ASSUME NEW s \in Wallets, NEW e \in Epochs, sweep_expired_prizes(s, e) PROVE IInv'
  BY <1>7, SweepKeeps
<1>8. ASSUME NEW p \in Wallets, NEW r \in References, NEW kind \in Kinds, pay_entry(p, r, kind)
      PROVE  IInv'
  <2>1. /\ balance' \in [Accounts -> Nat] /\ balance'[Vault] >= balance[Vault]
        /\ fees[kind] \in Nat
    BY <1>0, <1>8, PayMoves
  <2>2. /\ tickets' = [tickets EXCEPT ![r] = [tickets[r] EXCEPT ![p] = fees[kind]]]
        /\ UNCHANGED <<params, paused, handover, epochs, unsafe, clock>>
    BY <1>8 DEF pay_entry
  <2>3. tickets' \in [References -> [Wallets -> Nat]]
    <3>1. tickets \in [References -> [Wallets -> Nat]]
      BY <1>0 DEF TypeOK
    <3>2. [tickets[r] EXCEPT ![p] = fees[kind]] \in [Wallets -> Nat]
      BY <2>1, <3>1
    <3> QED BY <2>2, <3>1, <3>2
  <2>4. TypeOK'
    BY <1>0, <2>1, <2>2, <2>3 DEF TypeOK, params, handover, epochs, clock
  <2>5. now' \in Nat /\ now' >= now /\ balance'[Vault] \in Nat
    BY <1>0, <2>1, <2>2, VaultIsApart DEF TypeOK, clock
  <2> QED BY <1>0, <2>1, <2>2, <2>4, <2>5, SameEpochs, SameHandover DEF IInv
<1>9. ASSUME NEW p \in Wallets, NEW e \in Epochs, NEW amount \in Totals, claim_prize(p, e, amount)
      PROVE  IInv'
  BY <1>9, ClaimKeeps
<1>10. ASSUME NEW w \in Wallets, NEW amount \in Deposits, Deposit(w, amount) PROVE IInv'
  <2>1. /\ balance \in [Accounts -> Nat] /\ amount \in Nat /\ amount <= balance[w]
        /\ w \in Accounts /\ Vault \in Accounts /\ w # Vault
        /\ balance' = Transfer(balance, w, Vault, amount)
        /\ UNCHANGED <<params, paused, handover, epochs, tickets, unsafe, clock>>
    BY <1>0, <1>10, MarketAssumption, VaultIsApart DEF Deposit, TypeOK
  <2>2. balance' \in [Accounts -> Nat] /\ balance'[Vault] = balance[Vault] + amount
    BY <2>1, TransferMoves
  <2>3. /\ now' \in Nat /\ now' >= now
        /\ balance'[Vault] \in Nat /\ balance'[Vault] >= balance[Vault]
    BY <1>0, <2>1, <2>2 DEF TypeOK, clock
  <2>4. TypeOK'
    BY <1>0, <2>1, <2>2 DEF TypeOK, params, handover, epochs, clock
  <2> QED BY <1>0, <2>1, <2>3, <2>4, SameEpochs, SameHandover DEF IInv
<1>11. ASSUME NEW w \in Delegators, ToggleDelegate(w) PROVE IInv'
  <2>1. TypeOK' /\ UNCHANGED <<epochs, balance, now>> /\ UNCHANGED handover
    BY <1>0, <1>11, MarketAssumption DEF ToggleDelegate, TypeOK, epochs, clock, handover, params
  <2> QED BY <1>0, <2>1, SameMoney, SameHandover DEF IInv
<1>12. CASE SlotPasses
  <2>1. TypeOK' /\ UNCHANGED <<epochs, balance, now>> /\ UNCHANGED handover
    BY <1>0, <1>12 DEF SlotPasses, TypeOK, epochs, handover, params
  <2> QED BY <1>0, <2>1, SameMoney, SameHandover DEF IInv
<1>13. CASE TimePasses
  <2>1. TypeOK' /\ UNCHANGED epochs /\ UNCHANGED handover /\ balance' = balance /\ now' = now + 1
    BY <1>0, <1>13 DEF TimePasses, TypeOK, epochs, handover, params
  <2>2. /\ now' \in Nat /\ now' >= now
        /\ balance'[Vault] \in Nat /\ balance'[Vault] >= balance[Vault]
    BY <1>0, <2>1, VaultIsApart DEF TypeOK
  <2> QED BY <1>0, <2>1, <2>2, SameEpochs, SameHandover DEF IInv
<1>14. CASE UNCHANGED vars
  <2>1. TypeOK' /\ UNCHANGED <<epochs, balance, now>> /\ UNCHANGED handover
    BY <1>0, <1>14 DEF vars, TypeOK, epochs, handover, params, clock
  <2> QED BY <1>0, <2>1, SameMoney, SameHandover DEF IInv
<1> QED
  BY <1>1, <1>2, <1>3, <1>4, <1>5, <1>6, <1>7, <1>8, <1>9, <1>10, <1>11, <1>12, <1>13,
     <1>14 DEF Next

LEMMA Invariance == Spec => []IInv
BY InitInv, NextInv, PTL DEF Spec

-----------------------------------------------------------------------------
(* Honest winners can be paid until the sweep. *)

\* A proof against an honest tree is a proof of one of its leaves.
LEMMA HonestProof ==
  ASSUME NEW root, Len(root) \in Nat, NEW w, NEW amount, Provable(root, Len(root), w, amount)
  PROVE  \E i \in 1..Len(root) : root[i] = <<w, amount>>
<1>1. PICK index \in 0..(Len(root) - 1) : PaddedLeaf(root, index) = <<w, amount>>
  BY DEF Provable
<1>2. index + 1 \in 1..Len(root) /\ index < Len(root)
  OBVIOUS
<1>3. root[index + 1] = <<w, amount>>
  BY <1>1, <1>2 DEF PaddedLeaf
<1> QED BY <1>2, <1>3

\* The books, the reservation and the vault together make an honest epoch's
\* unclaimed leaves payable, although every claim lowers `total`.
LEMMA PayableFromBooks == IInv => PrizesPayable
<1> SUFFICES ASSUME IInv PROVE PrizesPayable
  OBVIOUS
<1>0. TypeOK /\ BooksInv /\ ReservationInv /\ VaultCoversReserved
  BY DEF IInv
<1>1. SevenDayGuarantee
  <2> SUFFICES ASSUME NEW e \in Epochs, prizes[e] # NoAccount,
                      HonestTree(prizes[e].root, prizes[e].leaf_count, declared[e]),
                      now < prizes[e].published_at + PRIZE_SWEEP_DELAY_SECONDS,
                      NEW k \in 1..Len(prizes[e].root),
                      claims[e][prizes[e].root[k][1]] = 0
               PROVE  ClaimCovered(e, prizes[e].root[k][2])
    BY DEF SevenDayGuarantee
  <2> DEFINE root == prizes[e].root
             I == 1..Len(root)
             f == claims[e]
             promised == TableTotal(root, I)
  <2>1. Len(root) \in Nat /\ root \in [I -> Wallets \X Nat]
    BY <1>0, PublishedShape, RootAssumption
  <2>2. /\ f \in [Wallets -> Nat] /\ SumOver(f, Wallets) \in Nat
        /\ total[e] \in Nat /\ declared[e] \in Nat
    BY <1>0, PaidIsNat
  <2>3. prizes[e].leaf_count = Len(root) /\ promised <= declared[e]
    BY DEF HonestTree, TableTotal
  <2>4. SumOver(f, Wallets) + total[e] = declared[e]
    BY <1>0 DEF BooksInv, EpochBooks
  <2>5. \A p \in Wallets : f[p] = 0 \/ (\E i \in I : root[i] = <<p, f[p]>>)
    <3> SUFFICES ASSUME NEW p \in Wallets, f[p] # 0
                 PROVE  \E i \in I : root[i] = <<p, f[p]>>
      OBVIOUS
    <3>1. Provable(root, Len(root), p, f[p])
      BY <1>0, <2>3 DEF BooksInv, EpochBooks
    <3> HIDE DEF root, f
    <3> QED BY <2>1, <3>1, HonestProof
  <2>6. IsFiniteSet(I) /\ IsFiniteSet(Wallets)
    <3>1. Len(root) \in Int
      BY <2>1
    <3> HIDE DEF root
    <3> QED BY <3>1, FS_Interval, SetsFinite
  <2>7. root[k][2] \in Nat /\ k \in I /\ f[root[k][1]] = 0
    BY <2>1
  <2>8. promised \in Nat /\ SumOver(f, Wallets) + root[k][2] <= promised
    <3> HIDE DEF root, I, f
    <3> QED BY <2>1, <2>2, <2>5, <2>6, <2>7, TableCovers
  <2> HIDE DEF promised, root, f
  <2>9. root[k][2] <= total[e]
    BY <2>2, <2>3, <2>4, <2>7, <2>8
  <2>10. /\ total[e] <= reserved /\ reserved <= balance[Vault]
         /\ reserved \in Nat /\ balance[Vault] \in Nat
    BY <1>0, RemainderReserved, VaultIsApart DEF VaultCoversReserved, TypeOK
  <2> QED BY <2>2, <2>7, <2>9, <2>10 DEF ClaimCovered, root
<1> QED BY <1>0, <1>1 DEF PrizesPayable

\* In every reachable state the vault holds what the published epochs still
\* promise, and for seven days every unclaimed leaf of a correctly computed
\* table fits its epoch, the reservation and the vault.
THEOREM PrizesAlwaysPayable == Spec => []PrizesPayable
BY Invariance, PayableFromBooks, PTL

-----------------------------------------------------------------------------
(* The handover. *)

\* What a change of authority must have waited for, and what moves with it.
HandoverStep ==
  authority' # authority /\ Initialized =>
    /\ slot >= nominated_at[authority'] + MIN_AUTHORITY_DELAY_SLOTS
    /\ treasury' = authority'

LEMMA HandoverStepHolds == IInv /\ [Next]_vars => HandoverStep
<1> SUFFICES ASSUME IInv, [Next]_vars, authority' # authority, authority # NoKey
             PROVE  /\ slot >= nominated_at[authority'] + MIN_AUTHORITY_DELAY_SLOTS
                    /\ treasury' = authority'
  BY DEF HandoverStep, Initialized
<1>1. PICK new \in Wallets : accept_authority_change(new)
  BY DEF Next, vars, handover, initialize, Initialized, set_params, set_paused,
         propose_authority_change, publish_prizes, sweep_expired_prizes, pay_entry, claim_prize,
         Deposit, ToggleDelegate, SlotPasses, TimePasses
<1>2. new # NoKey
  BY MarketAssumption
<1> QED BY <1>1, <1>2 DEF accept_authority_change, IInv, NominationInv

\* No key becomes the authority before its own nomination has waited out the
\* delay: a replaced nomination starts it again; and the treasury moves along.
THEOREM HandoverAlwaysWaits == Spec => HandoverWaits
<1>1. IInv /\ [Next]_vars => [HandoverStep]_vars
  BY HandoverStepHolds
<1>2. Spec => [][HandoverStep]_vars
  BY <1>1, InitInv, NextInv, PTL DEF Spec
<1> QED BY <1>2 DEF HandoverWaits, HandoverStep

-----------------------------------------------------------------------------
(* The market implements the payout ledger. *)

LEMMA LedgerInit == Init => Ledger!Init
BY DEF Init, Ledger!Init

\* publish_prizes is Promise, claim_prize is Pay, the sweep is Release; nothing
\* else touches the ledger.
LEMMA LedgerStep == IInv /\ [Next]_vars => [Ledger!Next]_(Ledger!vars)
<1> SUFFICES ASSUME IInv, [Next]_vars PROVE [Ledger!Next]_(Ledger!vars)
  OBVIOUS
<1>0. TypeOK /\ BooksInv
  BY DEF IInv
<1>1. ASSUME NEW s \in Wallets, NEW e \in Epochs, NEW root \in Roots, NEW amount \in Totals,
             NEW n \in LeafCounts, publish_prizes(s, e, root, amount, n)
      PROVE  Ledger!Promise(e, amount) /\ amount \in Totals \ {0}
  <2>1. /\ prizes[e] = NoAccount /\ amount > 0
        /\ declared' = [declared EXCEPT ![e] = amount]
        /\ total' = [total EXCEPT ![e] = amount]
        /\ claims' = claims
    BY <1>1 DEF publish_prizes, PublishPrizes
  <2>2. declared[e] = 0 /\ amount # 0
    BY <1>0, <2>1, MarketAssumption DEF BooksInv, EpochBooks
  <2> QED BY <2>1, <2>2 DEF Ledger!Promise
<1>2. ASSUME NEW p \in Wallets, NEW e \in Epochs, NEW amount \in Totals,
             claim_prize(p, e, amount)
      PROVE  Ledger!Pay(e, p, amount) /\ amount \in Totals \ {0}
  <2>1. /\ prizes[e] # NoAccount /\ claims[e][p] = 0 /\ amount > 0
        /\ amount <= total[e] /\ declared' = declared
        /\ total' = [total EXCEPT ![e] = total[e] - amount]
        /\ claims' = [claims EXCEPT ![e][p] = amount]
    BY <1>2 DEF claim_prize, ClaimPrize, ClaimCovered
  <2>2. declared[e] # 0 /\ amount # 0
    BY <1>0, <2>1, MarketAssumption DEF BooksInv, EpochBooks
  <2> QED BY <2>1, <2>2 DEF Ledger!Pay
<1>3. ASSUME NEW s \in Wallets, NEW e \in Epochs, sweep_expired_prizes(s, e)
      PROVE  Ledger!Release(e)
  <2>1. /\ prizes[e] # NoAccount /\ total' = [total EXCEPT ![e] = 0]
        /\ declared' = declared /\ claims' = claims
    BY <1>3 DEF sweep_expired_prizes, SweepPrizes
  <2>2. declared[e] # 0
    BY <1>0, <2>1 DEF BooksInv, EpochBooks
  <2> QED BY <2>1, <2>2 DEF Ledger!Release
<1>4. \/ UNCHANGED <<declared, total, claims>>
      \/ \E s \in Wallets, e \in Epochs, root \in Roots, amount \in Totals, n \in LeafCounts :
           publish_prizes(s, e, root, amount, n)
      \/ \E p \in Wallets, e \in Epochs, amount \in Totals : claim_prize(p, e, amount)
      \/ \E s \in Wallets, e \in Epochs : sweep_expired_prizes(s, e)
  BY DEF Next, vars, epochs, initialize, set_params, set_paused, propose_authority_change,
         accept_authority_change, pay_entry, Deposit, ToggleDelegate, SlotPasses, TimePasses
<1>5. CASE UNCHANGED <<declared, total, claims>>
  BY <1>5 DEF Ledger!vars
<1> QED BY <1>1, <1>2, <1>3, <1>4, <1>5 DEF Ledger!Next

\* Every behaviour of the market is a behaviour of the payout ledger: totals are
\* promised once, players are paid once, and what is left is only released.
THEOREM MarketImplementsLedger == Spec => ImplementsLedger
BY Invariance, LedgerInit, LedgerStep, PTL DEF Spec, ImplementsLedger, Ledger!Spec

-----------------------------------------------------------------------------
(* The Merkle tree. *)

\* Any non-empty set of numbers has a first.
LEMMA FirstOf ==
  ASSUME NEW B \in SUBSET Nat, B # {}
  PROVE  \E m \in B : \A k \in B : m <= k
<1> DEFINE R == {p \in Nat \X Nat : p[1] < p[2]}
<1>1. IsWellFoundedOn(R, Nat)
  BY NatLessThanWellFounded DEF OpToRel
<1>2. PICK m \in B : \A k \in B : ~ (<<k, m>> \in R)
  BY <1>1, WFMin
<1>3. ASSUME NEW k \in B PROVE m <= k
  <2>1. m \in Nat /\ k \in Nat
    OBVIOUS
  <2>2. CASE k < m
    <3>1. <<k, m>> \in R
      BY <2>1, <2>2
    <3> QED BY <1>2, <3>1
  <2> QED BY <2>1, <2>2
<1> QED BY <1>3

\* Powers of two, up to the deepest tree.
LEMMA Powers ==
  /\ 2^0 = 1
  /\ \A k \in 0..MaxDepth : 2^k \in Nat \ {0}
  /\ \A k \in 1..MaxDepth : 2^k = 2 * 2^(k - 1)
<1>1. 2^0 = 1 /\ 2^1 = 2 /\ 2^2 = 4 /\ 2^3 = 8 /\ 2^4 = 16
  <2>1. 2^0 = 1
    OBVIOUS
  <2>2. 2^1 = 2
    OBVIOUS
  <2>3. 2^2 = 4
    OBVIOUS
  <2>4. 2^3 = 8
    OBVIOUS
  <2>5. 2^4 = 16
    OBVIOUS
  <2> QED BY <2>1, <2>2, <2>3, <2>4, <2>5
<1>2. ASSUME NEW k \in 0..MaxDepth PROVE 2^k \in Nat \ {0}
  <2>1. k \in {0, 1, 2, 3, 4}
    BY DEF MaxDepth
  <2>2. 2^k \in {1, 2, 4, 8, 16}
    BY <1>1, <2>1, Zenon
  <2> QED BY <2>2
<1>3. ASSUME NEW k \in 1..MaxDepth PROVE 2^k = 2 * 2^(k - 1)
  <2>1. k \in {1, 2, 3, 4}
    BY DEF MaxDepth
  <2>2. CASE k = 1
    BY <1>1, <2>2
  <2>3. CASE k = 2
    BY <1>1, <2>3
  <2>4. CASE k = 3
    BY <1>1, <2>4
  <2>5. CASE k = 4
    BY <1>1, <2>5
  <2> QED BY <2>1, <2>2, <2>3, <2>4, <2>5
<1> QED BY <1>1, <1>2, <1>3

\* Halving an index moves it one level up.
LEMMA Halving ==
  ASSUME NEW i \in Nat
  PROVE  /\ i \div 2 \in Nat /\ i \div 1 = i
         /\ i % 2 = 0 => i = 2 * (i \div 2)
         /\ i % 2 # 0 => i = 2 * (i \div 2) + 1
OBVIOUS

LEMMA HalfOf ==
  ASSUME NEW i \in Nat, NEW k \in 1..MaxDepth
  PROVE  /\ i \div 2^k = (i \div 2^(k - 1)) \div 2
         /\ i \div 2^(k - 1) \in Nat
<1>1. PICK m \in Nat \ {0} : m = 2^(k - 1)
  <2>1. k - 1 \in 0..MaxDepth
    BY DEF MaxDepth
  <2> QED BY <2>1, Powers
<1>2. 2^k = 2 * m
  BY <1>1, Powers
<1>3. i \div (2 * m) = (i \div m) \div 2 /\ i \div m \in Nat
  OBVIOUS
<1> QED BY <1>1, <1>2, <1>3

\* A tree as deep as proof_depth says has room for the leaves.
LEMMA DepthOf ==
  ASSUME NEW n \in 1..2^MaxDepth
  PROVE  proof_depth(n) \in 0..MaxDepth /\ n <= 2^proof_depth(n)
<1> DEFINE S == {d \in 0..MaxDepth : 2^d >= n}
<1>1. MaxDepth \in S
  BY Powers DEF MaxDepth
<1>2. \E m \in S : \A k \in S : m <= k
  <2>1. S \in SUBSET Nat
    BY DEF MaxDepth
  <2> HIDE DEF S
  <2> QED BY <1>1, <2>1, FirstOf
<1>3. proof_depth(n) \in S
  BY <1>2 DEF proof_depth, Min
<1>4. PICK d \in 0..MaxDepth : d = proof_depth(n) /\ 2^d >= n
  BY <1>3
<1>5. 2^d \in Nat /\ n \in Nat
  BY Powers, <1>4 DEF MaxDepth
<1> QED BY <1>4, <1>5

\* f is the tree of the leaves t with depth D, up to level m.
Row(t, D, k, f) ==
  [i \in 0..(2^(D - k) - 1) |->
     IF k = 0 THEN PaddedLeaf(t, i) ELSE parentHash(f[k - 1][2 * i], f[k - 1][2 * i + 1])]
Levels(t, D, m, f) == f = [k \in 0..m |-> Row(t, D, k, f)]

\* The recursion of buildTree has a solution.
LEMMA LevelsExist ==
  ASSUME NEW t, NEW D \in Nat
  PROVE  \E f : Levels(t, D, D, f)
<1> DEFINE Bad == {m \in 0..D : ~ \E f : Levels(t, D, m, f)}
<1> SUFFICES ASSUME Bad # {} PROVE FALSE
  OBVIOUS
<1>1. PICK m \in Bad : \A k \in Bad : m <= k
  <2>1. Bad \in SUBSET Nat
    OBVIOUS
  <2> HIDE DEF Bad
  <2> QED BY <2>1, FirstOf
<1>2. m \in 0..D
  OBVIOUS
<1>3. CASE m = 0
  <2> DEFINE g == [k \in 0..m |-> Row(t, D, k, << >>)]
  <2>1. Row(t, D, 0, g) = Row(t, D, 0, << >>)
    BY DEF Row
  <2>2. Levels(t, D, m, g)
    BY <1>3, <2>1 DEF Levels
  <2> QED BY <2>2
<1>4. CASE m # 0
  <2>1. m - 1 \in 0..D /\ ~(m <= m - 1)
    BY <1>2, <1>4
  <2>2. m - 1 \notin Bad
    <3> HIDE DEF Bad
    <3> QED BY <1>1, <2>1
  <2>3. PICK f : Levels(t, D, m - 1, f)
    BY <2>1, <2>2
  <2> DEFINE g == [k \in 0..m |-> IF k = m THEN Row(t, D, m, f) ELSE f[k]]
  <2>4. ASSUME NEW k \in 0..m PROVE g[k] = Row(t, D, k, g)
    <3>1. CASE k = m
      <4>1. g[m - 1] = f[m - 1]
        BY <1>2, <1>4
      <4>2. Row(t, D, m, f) = Row(t, D, m, g)
        <5> HIDE DEF g
        <5> QED BY <4>1, <1>4 DEF Row
      <4> QED BY <3>1, <4>2
    <3>2. CASE k # m
      <4>1. k \in 0..m - 1
        BY <1>2, <3>2
      <4>2. g[k] = f[k] /\ f[k] = Row(t, D, k, f)
        BY <2>3, <3>2, <4>1 DEF Levels
      <4>3. k # 0 => g[k - 1] = f[k - 1]
        BY <1>2, <4>1
      <4>4. Row(t, D, k, f) = Row(t, D, k, g)
        <5> HIDE DEF g
        <5> QED BY <4>3 DEF Row
      <4> QED BY <4>2, <4>4
    <3> QED BY <3>1, <3>2
  <2>5. g = [k \in 0..m |-> g[k]]
    OBVIOUS
  <2>6. Levels(t, D, m, g)
    <3> HIDE DEF g
    <3> QED BY <2>4, <2>5 DEF Levels
  <2> QED BY <2>6
<1> QED BY <1>3, <1>4

\* The tree of a table: its leaves below, hashes of pairs above.
IsTree(t, D, L) ==
  /\ DOMAIN L = 0..D
  /\ \A k \in 0..D : DOMAIN L[k] = 0..(2^(D - k) - 1)
  /\ \A i \in 0..(2^D - 1) : L[0][i] = PaddedLeaf(t, i)
  /\ \A k \in 1..D : \A i \in 0..(2^(D - k) - 1) :
       L[k][i] = <<L[k - 1][2 * i], L[k - 1][2 * i + 1], "node">>

LEMMA TreeIs ==
  ASSUME NEW t, NEW D \in Nat, D = proof_depth(Len(t)), NEW L, L = buildTree(t)
  PROVE  IsTree(t, D, L)
<1>1. L = CHOOSE f : Levels(t, D, D, f)
  BY DEF buildTree, Levels, Row
<1>2. Levels(t, D, D, L)
  BY <1>1, LevelsExist
<1>3. DOMAIN L = 0..D /\ \A k \in 0..D : L[k] = Row(t, D, k, L)
  BY <1>2 DEF Levels
<1>4. \A k \in 0..D : DOMAIN L[k] = 0..(2^(D - k) - 1)
  BY <1>3 DEF Row
<1>5. ASSUME NEW i \in 0..(2^D - 1) PROVE L[0][i] = PaddedLeaf(t, i)
  <2>1. L[0] = Row(t, D, 0, L) /\ D - 0 = D
    BY <1>3
  <2>2. i \in 0..(2^(D - 0) - 1)
    BY <2>1
  <2> QED BY <2>1, <2>2 DEF Row
<1>6. ASSUME NEW k \in 1..D, NEW i \in 0..(2^(D - k) - 1)
      PROVE  L[k][i] = <<L[k - 1][2 * i], L[k - 1][2 * i + 1], "node">>
  <2>1. L[k] = Row(t, D, k, L) /\ k # 0
    BY <1>3
  <2> QED BY <2>1 DEF Row, parentHash
<1> QED BY <1>3, <1>4, <1>5, <1>6 DEF IsTree

\* f is the fold of a proof from a leaf, up to its m-th element.
FoldStep(leaf, index, proof, k, f) ==
  IF k = 0 THEN leaf
  ELSE IF (index \div 2^(k - 1)) % 2 = 0 THEN parentHash(f[k - 1], proof[k])
       ELSE parentHash(proof[k], f[k - 1])
Folds(leaf, index, proof, m, f) == f = [k \in 0..m |-> FoldStep(leaf, index, proof, k, f)]

\* The recursion of foldProof has a solution.
LEMMA FoldExists ==
  ASSUME NEW leaf, NEW index, NEW proof, NEW n \in Nat
  PROVE  \E f : Folds(leaf, index, proof, n, f)
<1> DEFINE Bad == {m \in 0..n : ~ \E f : Folds(leaf, index, proof, m, f)}
<1> SUFFICES ASSUME Bad # {} PROVE FALSE
  OBVIOUS
<1>1. PICK m \in Bad : \A k \in Bad : m <= k
  <2>1. Bad \in SUBSET Nat
    OBVIOUS
  <2> HIDE DEF Bad
  <2> QED BY <2>1, FirstOf
<1>2. m \in 0..n
  OBVIOUS
<1>3. CASE m = 0
  <2> DEFINE g == [k \in 0..m |-> leaf]
  <2>1. Folds(leaf, index, proof, m, g)
    BY <1>3 DEF Folds, FoldStep
  <2> QED BY <2>1
<1>4. CASE m # 0
  <2>1. m - 1 \in 0..n /\ ~(m <= m - 1)
    BY <1>2, <1>4
  <2>2. m - 1 \notin Bad
    <3> HIDE DEF Bad
    <3> QED BY <1>1, <2>1
  <2>3. PICK f : Folds(leaf, index, proof, m - 1, f)
    BY <2>1, <2>2
  <2> DEFINE g == [k \in 0..m |-> IF k = m THEN FoldStep(leaf, index, proof, m, f) ELSE f[k]]
  <2>4. ASSUME NEW k \in 0..m PROVE g[k] = FoldStep(leaf, index, proof, k, g)
    <3>1. CASE k = m
      <4>1. g[m - 1] = f[m - 1] /\ g[m] = FoldStep(leaf, index, proof, m, f)
        BY <1>2, <1>4
      <4> HIDE DEF g
      <4> QED BY <3>1, <4>1 DEF FoldStep
    <3>2. CASE k # m
      <4>1. k \in 0..m - 1
        BY <1>2, <3>2
      <4>2. g[k] = f[k] /\ f[k] = FoldStep(leaf, index, proof, k, f)
        BY <2>3, <3>2, <4>1 DEF Folds
      <4>3. k # 0 => g[k - 1] = f[k - 1]
        BY <1>2, <4>1
      <4> HIDE DEF g
      <4> QED BY <4>2, <4>3 DEF FoldStep
    <3> QED BY <3>1, <3>2
  <2>5. g = [k \in 0..m |-> g[k]]
    OBVIOUS
  <2>6. Folds(leaf, index, proof, m, g)
    <3> HIDE DEF g
    <3> QED BY <2>4, <2>5 DEF Folds
  <2> QED BY <2>6
<1> QED BY <1>3, <1>4

\* A fold hashes the proof's elements in, one level at a time.
IsFold(f, leaf, index, proof, n) ==
  /\ f[0] = leaf
  /\ \A k \in 1..n :
       f[k] = IF (index \div 2^(k - 1)) % 2 = 0
              THEN <<f[k - 1], proof[k], "node">> ELSE <<proof[k], f[k - 1], "node">>

LEMMA FoldIs ==
  ASSUME NEW leaf, NEW index, NEW proof, NEW n \in Nat, n = Len(proof)
  PROVE  \E f : foldProof(leaf, index, proof) = f[n] /\ IsFold(f, leaf, index, proof, n)
<1> DEFINE f == CHOOSE g : Folds(leaf, index, proof, n, g)
<1>1. foldProof(leaf, index, proof) = f[n]
  BY DEF foldProof, Folds, FoldStep
<1>2. Folds(leaf, index, proof, n, f)
  BY FoldExists
<1> HIDE DEF f
<1>3. \A k \in 0..n : f[k] = FoldStep(leaf, index, proof, k, f)
  BY <1>2 DEF Folds
<1>4. f[0] = leaf
  BY <1>3 DEF FoldStep
<1>5. ASSUME NEW k \in 1..n
      PROVE  f[k] = IF (index \div 2^(k - 1)) % 2 = 0
                    THEN <<f[k - 1], proof[k], "node">> ELSE <<proof[k], f[k - 1], "node">>
  <2>1. f[k] = FoldStep(leaf, index, proof, k, f) /\ k # 0
    BY <1>3
  <2> QED BY <2>1 DEF FoldStep, parentHash
<1> QED BY <1>1, <1>4, <1>5 DEF IsFold

\* A fold that reaches the root runs down the tree: m steps before its end it is
\* the hash above the index, m levels below the root.
RunsDown(f, n, index, L, D) ==
  \A m \in Nat : m <= n /\ m <= D => /\ f[n - m] = L[D - m][index \div 2^(n - m)]
                                     /\ index \div 2^(n - m) \in 0..(2^m - 1)

LEMMA FoldDown ==
  ASSUME NEW t, NEW D \in 0..MaxDepth, D = proof_depth(Len(t)), NEW L, L = buildTree(t),
         NEW n \in 0..MaxDepth, NEW index \in 0..(2^n - 1), NEW leaf, NEW proof,
         NEW f, IsFold(f, leaf, index, proof, n), f[n] = L[D][0]
  PROVE  RunsDown(f, n, index, L, D)
<1> DEFINE Good(m) == /\ f[n - m] = L[D - m][index \div 2^(n - m)]
                      /\ index \div 2^(n - m) \in 0..(2^m - 1)
           Bad == {m \in Nat : m <= n /\ m <= D /\ ~Good(m)}
<1> SUFFICES ASSUME Bad # {} PROVE FALSE
  BY DEF RunsDown
<1>0. n \in Nat /\ D \in Nat /\ index \in Nat
  <2>1. n \in Nat /\ D \in Nat
    BY DEF MaxDepth
  <2>2. 2^n \in Nat
    BY Powers
  <2> QED BY <2>1, <2>2
<1>1. PICK m \in Bad : \A k \in Bad : m <= k
  <2>1. Bad \in SUBSET Nat
    OBVIOUS
  <2> HIDE DEF Bad
  <2> QED BY <2>1, FirstOf
<1>2. m \in Nat /\ m <= n /\ m <= D /\ ~Good(m)
  OBVIOUS
<1>3. m # 0
  <2> SUFFICES ASSUME m = 0 PROVE FALSE
    OBVIOUS
  <2>1. index \div 2^n = 0
    <3>1. PICK p \in Nat \ {0} : p = 2^n
      BY Powers
    <3>2. index < p
      BY <3>1
    <3>3. index \div p = 0
      BY <1>0, <3>1, <3>2
    <3> QED BY <3>1, <3>3
  <2>2. n - m = n /\ D - m = D
    BY <1>0
  <2>3. 2^m - 1 = 0
    BY Powers
  <2> QED BY <1>2, <2>1, <2>2, <2>3
<1>4. PICK j \in Nat : j = m - 1 /\ j <= n /\ j <= D
  BY <1>0, <1>2, <1>3
<1>5. Good(j)
  <2>1. ~(m <= j)
    BY <1>2, <1>4
  <2>2. j \notin Bad
    <3> HIDE DEF Bad
    <3> QED BY <1>1, <2>1
  <2> HIDE DEF Good
  <2> QED BY <1>4, <2>2
<1>6. PICK k \in 1..n : k = n - j /\ k - 1 = n - m
  <2>1. n - j \in 1..n /\ n - j - 1 = n - m
    BY <1>0, <1>2, <1>3, <1>4
  <2> QED BY <2>1
<1>7. PICK l \in 1..D : l = D - j /\ l - 1 = D - m /\ D - l = j
  <2>1. D - j \in 1..D /\ D - j - 1 = D - m /\ D - (D - j) = j
    BY <1>0, <1>2, <1>3, <1>4
  <2> QED BY <2>1
<1>8. PICK i \in Nat : i = index \div 2^(k - 1)
  <2>1. k \in 1..MaxDepth
    BY DEF MaxDepth
  <2> QED BY <1>0, <2>1, HalfOf
<1>9. index \div 2^k = i \div 2
  <2>1. k \in 1..MaxDepth
    BY DEF MaxDepth
  <2> QED BY <1>0, <1>8, <2>1, HalfOf
<1>10. PICK h \in Nat : h = i \div 2
  BY Halving
<1>11. h \in 0..(2^j - 1) /\ f[k] = L[l][h]
  BY <1>5, <1>6, <1>7, <1>9, <1>10
<1>12. L[l][h] = <<L[l - 1][2 * h], L[l - 1][2 * h + 1], "node">>
  <2>1. h \in 0..(2^(D - l) - 1)
    BY <1>7, <1>11
  <2>2. IsTree(t, D, L)
    BY <1>0, TreeIs
  <2> QED BY <2>1, <2>2 DEF IsTree
<1>13. f[k] = IF i % 2 = 0 THEN <<f[k - 1], proof[k], "node">> ELSE <<proof[k], f[k - 1], "node">>
  BY <1>8 DEF IsFold
<1>14. f[k - 1] = L[l - 1][i]
  <2>1. CASE i % 2 = 0
    <3>1. i = 2 * h
      BY <1>10, <2>1, Halving
    <3>2. <<f[k - 1], proof[k], "node">> = <<L[l - 1][2 * h], L[l - 1][2 * h + 1], "node">>
      BY <1>11, <1>12, <1>13, <2>1
    <3> QED BY <3>1, <3>2
  <2>2. CASE i % 2 # 0
    <3>1. i = 2 * h + 1
      BY <1>10, <2>2, Halving
    <3>2. <<proof[k], f[k - 1], "node">> = <<L[l - 1][2 * h], L[l - 1][2 * h + 1], "node">>
      BY <1>11, <1>12, <1>13, <2>2
    <3> QED BY <3>1, <3>2
  <2> QED BY <2>1, <2>2
<1>15. i \in 0..(2^m - 1)
  <2>1. m \in 1..MaxDepth /\ m - 1 = j
    <3>1. m \in Nat /\ m <= n /\ m # 0
      BY <1>2, <1>3
    <3> HIDE DEF Good, Bad
    <3> QED BY <1>4, <3>1 DEF MaxDepth
  <2>2. PICK p \in Nat : p = 2^j
    <3>1. j \in 0..MaxDepth
      BY <2>1 DEF MaxDepth
    <3> QED BY <3>1, Powers
  <2>3. 2^m = 2 * p
    BY <2>1, <2>2, Powers
  <2>4. h <= p - 1
    BY <1>11, <2>2
  <2>5. i = 2 * h \/ i = 2 * h + 1
    BY <1>10, Halving
  <2>6. i <= 2 * p - 1
    BY <2>2, <2>4, <2>5
  <2> QED BY <2>3, <2>6
<1>16. Good(m)
  BY <1>6, <1>7, <1>8, <1>14, <1>15
<1> QED BY <1>2, <1>16

\* The proof the backend hands out leads from a leaf up to the root.
LeadsUp(t, index, L, D) ==
  /\ proofFor(t, index) \in Seq(UNION {{L[k][i] : i \in DOMAIN L[k]} : k \in DOMAIN L})
  /\ Len(proofFor(t, index)) = D
  /\ foldProof(PaddedLeaf(t, index), index, proofFor(t, index)) = L[D][0]

LEMMA FoldUp ==
  ASSUME NEW t, NEW D \in 0..MaxDepth, D = proof_depth(Len(t)), NEW L, L = buildTree(t),
         NEW index \in 0..(2^D - 1)
  PROVE  LeadsUp(t, index, L, D)
<1> DEFINE H == UNION {{L[k][i] : i \in DOMAIN L[k]} : k \in DOMAIN L}
           at(k) == index \div 2^k
<1>0. D \in Nat /\ index \in Nat /\ index <= 2^D - 1
  <2>1. D \in Nat
    BY DEF MaxDepth
  <2>2. 2^D \in Nat
    BY Powers
  <2> QED BY <2>1, <2>2
<1>tree. /\ DOMAIN L = 0..D
         /\ \A k \in 0..D : DOMAIN L[k] = 0..(2^(D - k) - 1)
         /\ \A i \in 0..(2^D - 1) : L[0][i] = PaddedLeaf(t, i)
         /\ \A k \in 1..D : \A i \in 0..(2^(D - k) - 1) :
              L[k][i] = <<L[k - 1][2 * i], L[k - 1][2 * i + 1], "node">>
  <2>1. IsTree(t, D, L)
    BY <1>0, TreeIs
  <2> QED BY <2>1 DEF IsTree
<1>1. ASSUME NEW k \in 1..D
      PROVE  /\ at(k - 1) \in Nat /\ at(k) = at(k - 1) \div 2
             /\ 2^(D - (k - 1)) = 2 * 2^(D - k) /\ 2^(D - k) \in Nat
  <2>1. k \in 1..MaxDepth /\ D - k \in 0..MaxDepth /\ D - (k - 1) \in 1..MaxDepth
        /\ D - (k - 1) - 1 = D - k
    BY DEF MaxDepth
  <2>2. at(k - 1) \in Nat /\ at(k) = at(k - 1) \div 2
    BY <1>0, <2>1, HalfOf
  <2>3. 2^(D - (k - 1)) = 2 * 2^(D - (k - 1) - 1)
    BY <2>1, Powers
  <2>4. 2^(D - k) \in Nat
    BY <2>1, Powers
  <2> QED BY <2>1, <2>2, <2>3, <2>4
<1>2. \A k \in 0..D : at(k) \in 0..(2^(D - k) - 1)
  <2> DEFINE Bad == {k \in 0..D : ~(at(k) \in 0..(2^(D - k) - 1))}
  <2> SUFFICES ASSUME Bad # {} PROVE FALSE
    OBVIOUS
  <2>1. PICK k \in Bad : \A j \in Bad : k <= j
    <3>1. Bad \in SUBSET Nat
      BY <1>0
    <3> HIDE DEF Bad
    <3> QED BY <3>1, FirstOf
  <2>2. k \in 0..D /\ ~(at(k) \in 0..(2^(D - k) - 1))
    OBVIOUS
  <2>3. k # 0
    <3> SUFFICES ASSUME k = 0 PROVE FALSE
      OBVIOUS
    <3>1. at(0) = index
      BY <1>0, Powers, Halving
    <3>2. D - 0 = D
      BY <1>0
    <3> QED BY <1>0, <2>2, <3>1, <3>2
  <2>4. k - 1 \in 0..D /\ ~(k <= k - 1) /\ k \in 1..D
    BY <1>0, <2>2, <2>3
  <2>5. k - 1 \notin Bad
    <3> HIDE DEF Bad
    <3> QED BY <2>1, <2>4
  <2>6. at(k - 1) \in 0..(2^(D - (k - 1)) - 1)
    <3> HIDE DEF at
    <3> QED BY <2>4, <2>5
  <2>7. PICK i \in Nat, p \in Nat : i = at(k - 1) /\ p = 2^(D - k)
    <3> HIDE DEF at
    <3> QED BY <1>1, <2>4
  <2>8. i <= 2 * p - 1 /\ at(k) = i \div 2
    <3> HIDE DEF at
    <3> QED BY <1>1, <2>4, <2>6, <2>7
  <2>9. i \div 2 \in 0..(p - 1)
    <3>1. PICK h \in Nat : h = i \div 2 /\ (i = 2 * h \/ i = 2 * h + 1)
      BY <2>7, Halving
    <3>2. i <= 2 * p - 1
      BY <2>8
    <3>3. h <= p - 1
      BY <3>1, <3>2
    <3> QED BY <3>1, <3>3
  <2> HIDE DEF at
  <2> QED BY <2>2, <2>7, <2>8, <2>9
<1>3. ASSUME NEW k \in 1..D
      PROVE  /\ SiblingIndex(at(k - 1)) \in 0..(2^(D - (k - 1)) - 1)
             /\ at(k - 1) \in 0..(2^(D - (k - 1)) - 1)
             /\ IF at(k - 1) % 2 = 0
                THEN at(k - 1) = 2 * at(k) /\ SiblingIndex(at(k - 1)) = 2 * at(k) + 1
                ELSE at(k - 1) = 2 * at(k) + 1 /\ SiblingIndex(at(k - 1)) = 2 * at(k)
  <2>1. k \in 0..D /\ k - 1 \in 0..D
    BY <1>0
  <2> HIDE DEF at
  <2>2. PICK i \in Nat, h \in Nat, p \in Nat :
          i = at(k - 1) /\ h = at(k) /\ p = 2^(D - k) /\ h = i \div 2 /\ 2^(D - (k - 1)) = 2 * p
    BY <1>1, Halving
  <2>3. 2 * h \in 0..(2 * p - 1) /\ 2 * h + 1 \in 0..(2 * p - 1)
    <3>1. at(k) \in 0..(2^(D - k) - 1)
      BY <1>2, <2>1
    <3>2. h <= p - 1
      BY <2>2, <3>1
    <3> QED BY <3>2
  <2>4. CASE i % 2 = 0
    <3>1. i = 2 * h /\ SiblingIndex(i) = i + 1
      BY <2>2, <2>4, Halving DEF SiblingIndex
    <3> QED BY <2>2, <2>3, <2>4, <3>1
  <2>5. CASE i % 2 # 0
    <3>1. i = 2 * h + 1 /\ SiblingIndex(i) = i - 1
      BY <2>2, <2>5, Halving DEF SiblingIndex
    <3>2. i - 1 = 2 * h
      BY <3>1
    <3> QED BY <2>2, <2>3, <2>5, <3>1, <3>2
  <2> QED BY <2>4, <2>5
<1>4. ASSUME NEW k \in 1..D
      PROVE  /\ proofFor(t, index)[k] = L[k - 1][SiblingIndex(at(k - 1))]
             /\ L[k - 1][SiblingIndex(at(k - 1))] \in H
  <2>1. k - 1 \in 0..D
    BY <1>0
  <2>2. DOMAIN L = 0..D /\ DOMAIN L[k - 1] = 0..(2^(D - (k - 1)) - 1)
    BY <1>tree, <2>1
  <2>3. SiblingIndex(at(k - 1)) \in DOMAIN L[k - 1]
    BY <1>3, <2>2
  <2>4. proofFor(t, index)[k] = L[k - 1][SiblingIndex(at(k - 1))]
    BY <2>3 DEF proofFor
  <2>5. PICK j \in DOMAIN L[k - 1] : j = SiblingIndex(at(k - 1))
    BY <2>3
  <2>6. L[k - 1][j] \in {L[k - 1][i] : i \in DOMAIN L[k - 1]} /\ k - 1 \in DOMAIN L
    BY <2>1, <2>2
  <2>7. L[k - 1][j] \in H
    BY <2>6
  <2> HIDE DEF H, at
  <2> QED BY <2>4, <2>5, <2>7
<1>5. proofFor(t, index) \in Seq(H) /\ Len(proofFor(t, index)) = D
  <2>1. proofFor(t, index) = [k \in 1..D |-> proofFor(t, index)[k]]
    BY DEF proofFor
  <2>2. \A k \in 1..D : proofFor(t, index)[k] \in H
    BY <1>4
  <2> HIDE DEF H
  <2>3. PICK q : q = proofFor(t, index)
    OBVIOUS
  <2>4. q \in [1..D -> H]
    BY <2>1, <2>2, <2>3
  <2>5. q \in Seq(H) /\ Len(q) = D
    BY <1>0, <2>4
  <2> QED BY <2>3, <2>5
<1>6. PICK f : /\ foldProof(PaddedLeaf(t, index), index, proofFor(t, index)) = f[D]
               /\ f[0] = PaddedLeaf(t, index)
               /\ \A k \in 1..D : f[k] = IF at(k - 1) % 2 = 0
                    THEN <<f[k - 1], proofFor(t, index)[k], "node">>
                    ELSE <<proofFor(t, index)[k], f[k - 1], "node">>
  <2>1. PICK leaf, q : leaf = PaddedLeaf(t, index) /\ q = proofFor(t, index)
    OBVIOUS
  <2>2. PICK f : foldProof(leaf, index, q) = f[D] /\ IsFold(f, leaf, index, q, D)
    <3>1. D = Len(q)
      BY <1>5, <2>1
    <3> QED BY <1>0, <3>1, FoldIs
  <2> QED BY <2>1, <2>2 DEF IsFold
<1>7. \A k \in 0..D : f[k] = L[k][at(k)]
  <2> DEFINE Bad == {k \in 0..D : f[k] # L[k][at(k)]}
  <2> SUFFICES ASSUME Bad # {} PROVE FALSE
    OBVIOUS
  <2>1. PICK k \in Bad : \A j \in Bad : k <= j
    <3>1. Bad \in SUBSET Nat
      BY <1>0
    <3> HIDE DEF Bad
    <3> QED BY <3>1, FirstOf
  <2>2. k \in 0..D /\ f[k] # L[k][at(k)]
    OBVIOUS
  <2>3. k # 0
    <3>1. at(0) = index
      BY <1>0, Powers, Halving
    <3>2. f[0] = L[0][at(0)]
      BY <1>6, <1>tree, <3>1
    <3> QED BY <2>2, <3>2
  <2>4. k - 1 \in 0..D /\ ~(k <= k - 1) /\ k \in 1..D
    BY <1>0, <2>2, <2>3
  <2>5. k - 1 \notin Bad
    <3> HIDE DEF Bad
    <3> QED BY <2>1, <2>4
  <2> HIDE DEF at
  <2>6. f[k - 1] = L[k - 1][at(k - 1)]
    BY <2>4, <2>5
  <2>7. L[k][at(k)] = <<L[k - 1][2 * at(k)], L[k - 1][2 * at(k) + 1], "node">>
    BY <1>2, <1>tree, <2>2, <2>4
  <2>8. f[k] = IF at(k - 1) % 2 = 0
               THEN <<f[k - 1], L[k - 1][SiblingIndex(at(k - 1))], "node">>
               ELSE <<L[k - 1][SiblingIndex(at(k - 1))], f[k - 1], "node">>
    BY <1>4, <1>6, <2>4
  <2>9. CASE at(k - 1) % 2 = 0
    <3>1. at(k - 1) = 2 * at(k) /\ SiblingIndex(at(k - 1)) = 2 * at(k) + 1
      BY <1>3, <2>4, <2>9
    <3>2. f[k] = L[k][at(k)]
      BY <2>6, <2>7, <2>8, <2>9, <3>1
    <3> QED BY <2>2, <3>2
  <2>10. CASE at(k - 1) % 2 # 0
    <3>1. at(k - 1) = 2 * at(k) + 1 /\ SiblingIndex(at(k - 1)) = 2 * at(k)
      BY <1>3, <2>4, <2>10
    <3>2. f[k] = L[k][at(k)]
      BY <2>6, <2>7, <2>8, <2>10, <3>1
    <3> QED BY <2>2, <3>2
  <2> QED BY <2>9, <2>10
<1>8. at(D) = 0
  <2>1. at(D) \in 0..(2^(D - D) - 1) /\ D - D = 0
    BY <1>0, <1>2
  <2> HIDE DEF at
  <2>2. 2^(D - D) = 1
    BY <2>1, Powers, Zenon
  <2> QED BY <2>1, <2>2
<1> HIDE DEF at
<1>9. f[D] = L[D][0]
  BY <1>0, <1>7, <1>8
<1> QED BY <1>5, <1>6, <1>9 DEF LeadsUp

-----------------------------------------------------------------------------
\* What the runs quantify over: a table, a declared count and a claim that can be.
MerkleTypes == table \in Tables /\ leaf_count \in 1..2^MaxDepth /\ claim \in Leaves

LEMMA MerkleInvariant == MerkleSpec => []MerkleTypes
<1>1. MerkleInit => MerkleTypes
  BY MerkleAssumption DEF MerkleInit, MerkleTypes
<1>2. MerkleTypes /\ [MerkleNext]_merkleVars => MerkleTypes'
  BY MerkleAssumption DEF MerkleTypes, MerkleNext, merkleVars, Publish, Ask
<1> QED BY <1>1, <1>2, PTL DEF MerkleSpec

\* A leaf is a pair, an inner hash a triple.
LEMMA PairIsNoNode ==
  ASSUME NEW leaf \in Leaves, NEW x, NEW y
  PROVE  leaf # <<x, y, "node">>
<1>1. PICK a, b : leaf = <<a, b>>
  BY MerkleAssumption
<1>2. <<a, b>> # <<x, y, "node">>
  OBVIOUS
<1> QED BY <1>1, <1>2

\* A padded leaf is a leaf, a pair; an inner hash never is.
LEMMA PaddedIsPair ==
  ASSUME NEW t \in Tables, NEW index \in Nat
  PROVE  /\ PaddedLeaf(t, index) \in Leaves
         /\ \A x, y : PaddedLeaf(t, index) # <<x, y, "node">>
<1>1. PICK n \in Nat : n = Len(t) /\ n >= 1 /\ t \in Seq(Leaves)
  <2>1. 2^MaxDepth \in Nat
    BY Powers DEF MaxDepth
  <2> QED BY <2>1, MerkleAssumption
<1>2. IF index < n THEN index + 1 \in 1..n ELSE n \in 1..n
  BY <1>1
<1>3. PaddedLeaf(t, index) \in Leaves
  BY <1>1, <1>2 DEF PaddedLeaf
<1> QED BY <1>3, PairIsNoNode

\* An accepted proof is one of a leaf of the padded tree, at a depth that is
\* both the declared and the real one.
LEMMA AcceptedIsProvable ==
  ASSUME MerkleTypes, NEW index \in Nat, NEW proof, Len(proof) \in Nat,
         verify_proof_indexed(claim, index, proof)
  PROVE  Provable(table, leaf_count, claim[1], claim[2])
<1>1. PICK D \in 0..MaxDepth : D = proof_depth(Len(table))
  BY DepthOf, MerkleAssumption DEF MerkleTypes
<1>2. PICK n \in 0..MaxDepth : n = proof_depth(leaf_count) /\ leaf_count <= 2^n
  BY DepthOf DEF MerkleTypes
<1>3. n = Len(proof) /\ index < leaf_count /\ foldProof(claim, index, proof) = rootOf(table)
  BY <1>2 DEF verify_proof_indexed, ProofGates
<1>4. leaf_count \in Nat /\ 2^n \in Nat
  BY Powers, <1>2 DEF MerkleTypes
<1>5. index \in 0..(2^n - 1)
  BY <1>2, <1>3, <1>4
<1>6. D \in Nat /\ n \in Nat
  BY DEF MaxDepth
<1>7. PICK L : L = buildTree(table)
  OBVIOUS
<1>8. IsTree(table, D, L)
  BY <1>1, <1>6, <1>7, TreeIs
<1>9. PICK leaf : leaf = claim
  OBVIOUS
<1>10. PICK f : foldProof(leaf, index, proof) = f[n] /\ IsFold(f, leaf, index, proof, n)
  BY <1>3, <1>6, FoldIs
<1>11. f[n] = L[D][0]
  BY <1>1, <1>3, <1>7, <1>9, <1>10 DEF rootOf
<1> DEFINE at(m) == index \div 2^(n - m)
<1>12. \A m \in Nat : m <= n /\ m <= D =>
         f[n - m] = L[D - m][at(m)] /\ at(m) \in 0..(2^m - 1)
  <2>1. PICK t : t = table
    OBVIOUS
  <2>2. D = proof_depth(Len(t)) /\ L = buildTree(t)
    BY <1>1, <1>7, <2>1
  <2>3. RunsDown(f, n, index, L, D)
    BY <1>5, <1>10, <1>11, <2>2, FoldDown
  <2> QED BY <2>3 DEF RunsDown
<1> HIDE DEF at
<1>13. n = D
  <2>1. CASE n < D
    <3>1. f[0] = L[D - n][at(n)] /\ at(n) \in 0..(2^n - 1)
      <4>1. n - n = 0 /\ n <= D
        BY <1>6, <2>1
      <4> QED BY <1>6, <1>12, <4>1
    <3>2. D - n \in 1..D /\ D - (D - n) = n
      BY <1>6, <2>1
    <3>3. PICK k \in 1..D : k = D - n
      BY <3>2
    <3>4. L[k][at(n)] = <<L[k - 1][2 * at(n)], L[k - 1][2 * at(n) + 1], "node">>
      <4>1. at(n) \in 0..(2^(D - k) - 1)
        BY <3>1, <3>2, <3>3
      <4> QED BY <1>8, <4>1 DEF IsTree
    <3>5. f[0] = leaf
      BY <1>10 DEF IsFold
    <3>6. claim = <<L[k - 1][2 * at(n)], L[k - 1][2 * at(n) + 1], "node">>
      BY <1>9, <3>1, <3>3, <3>4, <3>5
    <3> QED BY <3>6, PairIsNoNode DEF MerkleTypes
  <2>2. CASE D < n
    <3>1. f[n - D] = L[0][at(D)] /\ at(D) \in 0..(2^D - 1)
      <4>1. D - D = 0 /\ D <= n
        BY <1>6, <2>2
      <4> QED BY <1>6, <1>12, <4>1
    <3>2. PICK k \in 1..n : k = n - D
      <4>1. n - D \in 1..n
        BY <1>6, <2>2
      <4> QED BY <4>1
    <3>3. f[k] = IF (index \div 2^(k - 1)) % 2 = 0
                 THEN <<f[k - 1], proof[k], "node">> ELSE <<proof[k], f[k - 1], "node">>
      BY <1>10 DEF IsFold
    <3>4. \E x, y : f[k] = <<x, y, "node">>
      BY <3>3
    <3>5. L[0][at(D)] = PaddedLeaf(table, at(D))
      BY <1>8, <3>1 DEF IsTree
    <3>6. at(D) \in Nat
      <4>1. 2^D \in Nat
        BY Powers
      <4> QED BY <3>1, <4>1
    <3> QED BY <3>1, <3>2, <3>4, <3>5, <3>6, PaddedIsPair DEF MerkleTypes
  <2> QED BY <1>6, <2>1, <2>2
<1>14. claim = PaddedLeaf(table, index)
  <2>1. f[0] = L[0][at(D)]
    <3>1. n - D = 0 /\ D - D = 0 /\ D <= n /\ D <= D
      BY <1>6, <1>13
    <3> QED BY <1>6, <1>12, <3>1
  <2>2. at(D) = index
    <3>1. n - D = 0
      BY <1>6, <1>13
    <3>2. index \div 2^(n - D) = index \div 1
      BY <3>1, Powers, Zenon
    <3>3. index \div 1 = index
      BY Halving
    <3> QED BY <3>2, <3>3 DEF at
  <2>3. L[0][index] = PaddedLeaf(table, index)
    BY <1>5, <1>8, <1>13 DEF IsTree
  <2>4. f[0] = leaf
    BY <1>10 DEF IsFold
  <2> QED BY <1>9, <2>1, <2>2, <2>3, <2>4
<1>15. claim = <<claim[1], claim[2]>>
  BY MerkleAssumption DEF MerkleTypes
<1>16. index \in 0..(leaf_count - 1)
  BY <1>3, <1>4
<1> QED BY <1>1, <1>2, <1>13, <1>14, <1>15, <1>16 DEF Provable

\* The proof of a leaf that can be proved is accepted.
LEMMA BackendAccepted ==
  ASSUME MerkleTypes, proof_depth(leaf_count) = proof_depth(Len(table)),
         NEW index \in 0..(leaf_count - 1)
  PROVE  /\ proofFor(table, index) \in [1..proof_depth(leaf_count) -> Hashes]
         /\ verify_proof_indexed(PaddedLeaf(table, index), index, proofFor(table, index))
<1>1. PICK D \in 0..MaxDepth : D = proof_depth(leaf_count) /\ leaf_count <= 2^D
  BY DepthOf DEF MerkleTypes
<1>2. leaf_count \in Nat /\ 2^D \in Nat /\ D \in Nat
  <2>1. 2^MaxDepth \in Nat
    BY Powers DEF MaxDepth
  <2>2. 2^D \in Nat
    BY Powers
  <2>3. D \in Nat
    BY DEF MaxDepth
  <2> QED BY <2>1, <2>2, <2>3 DEF MerkleTypes
<1>3. index \in 0..(2^D - 1) /\ index < leaf_count
  BY <1>1, <1>2
<1>4. PICK L : L = buildTree(table)
  OBVIOUS
<1>5. PICK t : t = table
  OBVIOUS
<1>6. /\ proofFor(t, index) \in Seq(UNION {{L[k][i] : i \in DOMAIN L[k]} : k \in DOMAIN L})
      /\ Len(proofFor(t, index)) = D
      /\ foldProof(PaddedLeaf(t, index), index, proofFor(t, index)) = L[D][0]
  <2>1. D = proof_depth(Len(t)) /\ L = buildTree(t)
    BY <1>1, <1>4, <1>5
  <2>2. LeadsUp(t, index, L, D)
    BY <1>3, <2>1, FoldUp
  <2> QED BY <2>2 DEF LeadsUp
<1>7. Hashes = UNION {{L[k][i] : i \in DOMAIN L[k]} : k \in DOMAIN L}
  BY <1>4 DEF Hashes
<1>8. PICK q : q = proofFor(table, index)
  OBVIOUS
<1>9. q \in Seq(Hashes) /\ Len(q) = D
  BY <1>5, <1>6, <1>7, <1>8
<1>10. q \in [1..D -> Hashes]
  BY <1>9
<1>11. L[D][0] = rootOf(table)
  BY <1>1, <1>4 DEF rootOf
<1>12. verify_proof_indexed(PaddedLeaf(table, index), index, q)
  <2>1. ProofGates(index, q)
    BY <1>1, <1>3, <1>9 DEF ProofGates
  <2>2. foldProof(PaddedLeaf(table, index), index, q) = rootOf(table)
    BY <1>5, <1>6, <1>8, <1>11
  <2> QED BY <2>1, <2>2 DEF verify_proof_indexed
<1> QED BY <1>1, <1>8, <1>10, <1>12

\* What `Provable` says of a root is what the fold in the handlers accepts, for
\* every table of up to 2^MaxDepth leaves and every declared count: no other
\* leaf, depth or index gets through, and a provable leaf always does.
THEOREM FoldAlwaysMeansMembership == MerkleSpec => []FoldMeansMembership
<1>1. MerkleTypes => FoldMeansMembership
  <2> SUFFICES ASSUME MerkleTypes PROVE FoldMeansMembership
    OBVIOUS
  <2>1. proof_depth(leaf_count) \in Nat /\ leaf_count \in Nat /\ leaf_count >= 1
    <3>1. proof_depth(leaf_count) \in Nat
      BY DepthOf DEF MerkleTypes, MaxDepth
    <3>2. 2^MaxDepth \in Nat
      BY Powers DEF MaxDepth
    <3> QED BY <3>1, <3>2 DEF MerkleTypes
  <2>2. ASSUME NEW index \in 0..leaf_count, NEW d \in 0..proof_depth(leaf_count),
               NEW proof \in [1..d -> Hashes], verify_proof_indexed(claim, index, proof)
        PROVE  Provable(table, leaf_count, claim[1], claim[2])
    <3>1. Len(proof) \in Nat /\ index \in Nat
      BY <2>1
    <3> QED BY <2>2, <3>1, AcceptedIsProvable
  <2>3. ASSUME Provable(table, leaf_count, claim[1], claim[2])
        PROVE  \E index \in 0..leaf_count, d \in 0..proof_depth(leaf_count) :
                 \E proof \in [1..d -> Hashes] : verify_proof_indexed(claim, index, proof)
    <3>1. PICK index \in 0..(leaf_count - 1) : PaddedLeaf(table, index) = <<claim[1], claim[2]>>
      BY <2>3 DEF Provable
    <3>2. claim = PaddedLeaf(table, index)
      BY <3>1, MerkleAssumption DEF MerkleTypes
    <3>3. PICK q : q = proofFor(table, index)
      OBVIOUS
    <3>4. q \in [1..proof_depth(leaf_count) -> Hashes] /\ verify_proof_indexed(claim, index, q)
      BY <2>3, <3>2, <3>3, BackendAccepted DEF Provable
    <3>5. PICK d \in 0..proof_depth(leaf_count) : d = proof_depth(leaf_count)
      BY <2>1
    <3>6. index \in 0..leaf_count
      BY <2>1
    <3> QED BY <3>4, <3>5, <3>6
  <2> QED BY <2>2, <2>3 DEF FoldMeansMembership
<1> QED BY <1>1, MerkleInvariant, PTL

\* The proof the backend hands out for a leaf is the one the programs accept,
\* at every index of every correctly declared table.
THEOREM BackendProofsAlwaysVerify == MerkleSpec => []BackendProofsVerify
<1>1. MerkleTypes => BackendProofsVerify
  <2> SUFFICES ASSUME MerkleTypes, leaf_count = Len(table), NEW index \in 0..(Len(table) - 1)
               PROVE  verify_proof_indexed(table[index + 1], index, proofFor(table, index))
    BY DEF BackendProofsVerify
  <2>1. Len(table) \in Nat
    BY MerkleAssumption DEF MerkleTypes
  <2>2. PaddedLeaf(table, index) = table[index + 1]
    BY <2>1 DEF PaddedLeaf
  <2>3. verify_proof_indexed(PaddedLeaf(table, index), index, proofFor(table, index))
    BY BackendAccepted
  <2> QED BY <2>2, <2>3
<1> QED BY <1>1, MerkleInvariant, PTL
=============================================================================
