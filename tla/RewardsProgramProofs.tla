------------------------ MODULE RewardsProgramProofs ------------------------
(***************************************************************************)
(* Proofs about the on-chain rewards program, for every set of wallets,    *)
(* every number of epochs, every tree and every delay; and about the admin *)
(* decisions by which the backend seals what is published there, for every *)
(* set of proposals, requests and tokens, and for restarts at any point.   *)
(***************************************************************************)
EXTENDS RewardsProgram, AdminDecisions, FiniteSums, TLAPS

USE DEF Epochs

-----------------------------------------------------------------------------
(* The inductive invariant. *)

\* The nominee's delay is counted from its own nomination.
NominationInv ==
  pending_authority # NoKey => authority_change_slot = nominated_at[pending_authority]

\* What is true of one epoch: before publication nothing is left and nobody was
\* paid; afterwards payments and remainder add up to the total, and whoever was
\* paid had proved that very amount.
EpochBooks(e) ==
  /\ epochs[e] = NoAccount =>
       remaining_micro[e] = 0 /\ \A p \in Wallets : claims[e][p] = 0
  /\ epochs[e] # NoAccount =>
       /\ epochs[e].total_micro # 0
       /\ SumOver(claims[e], Wallets) + remaining_micro[e] = epochs[e].total_micro
       /\ \A p \in Wallets : claims[e][p] # 0 =>
            Provable(epochs[e].root, epochs[e].leaf_count, p, claims[e][p])

\* The aggregate reservation is what the epochs still owe.
ReservationInv == reserved = SumOver(remaining_micro, Epochs)

BooksInv == \A e \in Epochs : EpochBooks(e)

IInv == TypeOK /\ VaultCoversReserved /\ NominationInv /\ ReservationInv /\ BooksInv

-----------------------------------------------------------------------------
(* Facts about the constants and the records. *)

LEMMA EpochsFinite == IsFiniteSet(Epochs) /\ IsFiniteSet(Wallets)
BY FS_Interval, RewardsAssumption

\* The payments of an epoch add up to a natural number.
LEMMA PaidIsNat ==
  ASSUME TypeOK, NEW e \in Epochs
  PROVE  /\ claims[e] \in [Wallets -> Nat]
         /\ SumOver(claims[e], Wallets) \in Nat
         /\ remaining_micro[e] \in Nat
BY SumNat, EpochsFinite DEF TypeOK

\* A published epoch's record has its type.
LEMMA PublishedShape ==
  ASSUME TypeOK, NEW e \in Epochs, epochs[e] # NoAccount
  PROVE  epochs[e].root \in Roots /\ epochs[e].total_micro \in Nat
BY DEF TypeOK, EpochState

\* An epoch's remainder is part of the reservation.
LEMMA RemainderReserved ==
  ASSUME TypeOK, ReservationInv, NEW e \in Epochs
  PROVE  remaining_micro[e] <= reserved
<1>1. \A x \in Epochs : remaining_micro[x] \in Nat
  BY DEF TypeOK
<1>2. remaining_micro[e] <= SumOver(remaining_micro, Epochs)
  BY <1>1, SumTerm, EpochsFinite
<1> QED BY <1>2 DEF ReservationInv

\* Moving one epoch's remainder moves the sum of the remainders as much.
LEMMA RemaindersMove ==
  ASSUME TypeOK, NEW e \in Epochs, NEW m \in Nat,
         remaining_micro' = [remaining_micro EXCEPT ![e] = m]
  PROVE  /\ remaining_micro' \in [Epochs -> Nat]
         /\ SumOver(remaining_micro', Epochs)
            = SumOver(remaining_micro, Epochs) + (m - remaining_micro[e])
<1> DEFINE f == remaining_micro
           g == remaining_micro'
<1>1. /\ \A y \in Epochs : f[y] \in Int /\ g[y] \in Int
      /\ \A y \in Epochs \ {e} : g[y] = f[y]
      /\ g[e] = m
      /\ g \in [Epochs -> Nat]
  <2>1. f \in [Epochs -> Nat] /\ g = [f EXCEPT ![e] = m]
    BY DEF TypeOK
  <2> HIDE DEF f, g
  <2>2. g \in [Epochs -> Nat] /\ g[e] = m /\ \A y \in Epochs \ {e} : g[y] = f[y]
    BY <2>1
  <2> QED BY <2>1, <2>2
<1> HIDE DEF f, g
<1>2. SumOver(g, Epochs) = SumOver(f, Epochs) + (g[e] - f[e])
  BY <1>1, SumChange, EpochsFinite
<1> QED BY <1>1, <1>2 DEF f, g

\* A step that leaves an epoch alone keeps its books.
LEMMA SameEpoch ==
  ASSUME NEW e \in Epochs, EpochBooks(e), epochs'[e] = epochs[e],
         remaining_micro'[e] = remaining_micro[e], claims'[e] = claims[e]
  PROVE  EpochBooks(e)'
BY DEF EpochBooks

\* A step that leaves the money alone.
LEMMA SameMoney ==
  ASSUME BooksInv, ReservationInv, VaultCoversReserved, UNCHANGED money
  PROVE  BooksInv' /\ ReservationInv' /\ VaultCoversReserved'
BY DEF BooksInv, EpochBooks, ReservationInv, VaultCoversReserved, money

LEMMA SameHandover ==
  ASSUME NominationInv, UNCHANGED handover
  PROVE  NominationInv'
BY DEF NominationInv, handover

-----------------------------------------------------------------------------
(* The invariant holds initially and is kept by every instruction. *)

LEMMA InitInv == Init => IInv
<1> SUFFICES ASSUME Init PROVE IInv
  OBVIOUS
<1>1. TypeOK
  BY RewardsAssumption DEF Init, TypeOK
<1>2. SumOver(remaining_micro, Epochs) = 0
  BY SumZero, EpochsFinite DEF Init
<1>3. VaultCoversReserved /\ NominationInv /\ ReservationInv /\ BooksInv
  BY <1>2 DEF Init, VaultCoversReserved, NominationInv, ReservationInv, BooksInv, EpochBooks
<1> QED BY <1>1, <1>3 DEF IInv

\* publish_epoch reserves its total against the vault.
LEMMA PublishKeeps ==
  ASSUME IInv, NEW s \in Wallets, NEW e \in Epochs, NEW root \in Roots, NEW n \in LeafCounts,
         NEW total \in Totals, publish_epoch(s, e, root, n, total)
  PROVE  IInv'
<1>1. /\ epochs[e] = NoAccount /\ n > 0 /\ total > 0 /\ vault >= reserved + total
      /\ epochs' = [epochs EXCEPT ![e] =
                      [root |-> root, leaf_count |-> n, total_micro |-> total]]
      /\ remaining_micro' = [remaining_micro EXCEPT ![e] = total]
      /\ reserved' = reserved + total
      /\ claims' = claims /\ vault' = vault /\ outside' = outside
      /\ UNCHANGED <<handover, paused, unsafe, slot>>
  BY DEF publish_epoch, VaultHolds
<1>2. TypeOK /\ EpochBooks(e) /\ ReservationInv /\ NominationInv
  BY DEF IInv, BooksInv
<1>3. total \in Nat /\ remaining_micro[e] = 0 /\ \A p \in Wallets : claims[e][p] = 0
  BY <1>1, <1>2, RewardsAssumption DEF EpochBooks
<1>4. remaining_micro' \in [Epochs -> Nat]
      /\ SumOver(remaining_micro', Epochs) = SumOver(remaining_micro, Epochs) + (total - 0)
  BY <1>1, <1>2, <1>3, RemaindersMove
<1>5. [root |-> root, leaf_count |-> n, total_micro |-> total] \in EpochState
  BY <1>3 DEF EpochState
<1>6. TypeOK'
  BY <1>1, <1>2, <1>3, <1>4, <1>5 DEF TypeOK, handover
<1>7. VaultCoversReserved'
  BY <1>1 DEF VaultCoversReserved
<1>8. NominationInv'
  BY <1>1, <1>2, SameHandover
<1>9. ReservationInv'
  BY <1>1, <1>2, <1>3, <1>4 DEF ReservationInv, TypeOK
<1>10. EpochBooks(e)'
  <2>1. SumOver(claims[e], Wallets) = 0
    BY <1>3, SumZero, EpochsFinite
  <2>2. /\ epochs'[e] # NoAccount /\ epochs'[e].total_micro = total
        /\ remaining_micro'[e] = total /\ claims'[e] = claims[e]
    BY <1>1, <1>2, <1>5, RewardsAssumption DEF TypeOK
  <2> QED BY <1>1, <1>3, <2>1, <2>2 DEF EpochBooks
<1>11. ASSUME NEW x \in Epochs, x # e PROVE EpochBooks(x)'
  <2>1. /\ EpochBooks(x) /\ epochs'[x] = epochs[x]
        /\ remaining_micro'[x] = remaining_micro[x] /\ claims'[x] = claims[x]
    BY <1>1, <1>2, <1>11 DEF IInv, BooksInv, TypeOK
  <2> QED BY <2>1, SameEpoch
<1> QED BY <1>6, <1>7, <1>8, <1>9, <1>10, <1>11 DEF IInv, BooksInv

\* claim moves one proved leaf out of the epoch, the reservation and the vault.
LEMMA ClaimKeeps ==
  ASSUME IInv, NEW p \in Wallets, NEW e \in Epochs, NEW amount \in Totals, claim(p, e, amount)
  PROVE  IInv'
<1>1. /\ epochs[e] # NoAccount /\ amount > 0 /\ claims[e][p] = 0
      /\ Provable(epochs[e].root, epochs[e].leaf_count, p, amount)
      /\ amount <= remaining_micro[e] /\ amount <= reserved /\ amount <= vault
      /\ remaining_micro' = [remaining_micro EXCEPT ![e] = remaining_micro[e] - amount]
      /\ reserved' = reserved - amount
      /\ claims' = [claims EXCEPT ![e] = [claims[e] EXCEPT ![p] = amount]]
      /\ vault' = vault - amount /\ outside' = outside + amount
      /\ epochs' = epochs
      /\ UNCHANGED <<handover, paused, unsafe, slot>>
  BY DEF claim, ClaimOnce, ClaimCovered
<1>2. TypeOK /\ EpochBooks(e) /\ ReservationInv /\ NominationInv /\ VaultCoversReserved
  BY DEF IInv, BooksInv
<1>3. /\ amount \in Nat /\ claims[e] \in [Wallets -> Nat]
      /\ SumOver(claims[e], Wallets) \in Nat /\ remaining_micro[e] \in Nat
      /\ vault \in Nat /\ outside \in Nat /\ reserved \in Nat
  BY <1>2, PaidIsNat, RewardsAssumption DEF TypeOK
<1> DEFINE m == remaining_micro[e] - amount
<1>4. m \in Nat
  BY <1>1, <1>3
<1>5. /\ remaining_micro' \in [Epochs -> Nat]
      /\ SumOver(remaining_micro', Epochs)
         = SumOver(remaining_micro, Epochs) + (m - remaining_micro[e])
  <2> HIDE DEF m
  <2>1. remaining_micro' = [remaining_micro EXCEPT ![e] = m]
    BY <1>1 DEF m
  <2> QED BY <1>2, <1>4, <2>1, RemaindersMove
<1>6. /\ claims' \in [Epochs -> [Wallets -> Nat]]
      /\ claims'[e] = [claims[e] EXCEPT ![p] = amount]
      /\ \A x \in Epochs \ {e} : claims'[x] = claims[x]
  <2>1. claims \in [Epochs -> [Wallets -> Nat]]
    BY <1>2 DEF TypeOK
  <2>2. [claims[e] EXCEPT ![p] = amount] \in [Wallets -> Nat]
    BY <1>3
  <2> QED BY <1>1, <2>1, <2>2
<1>7. reserved' \in Nat /\ vault' \in Nat /\ outside' \in Nat /\ vault' >= reserved'
  BY <1>1, <1>2, <1>3 DEF VaultCoversReserved
<1>8. TypeOK'
  BY <1>1, <1>2, <1>5, <1>6, <1>7 DEF TypeOK, handover
<1>9. ReservationInv'
  BY <1>1, <1>2, <1>3, <1>4, <1>5 DEF ReservationInv
<1>10. NominationInv'
  BY <1>1, <1>2, SameHandover
<1>11. SumOver(claims'[e], Wallets) = SumOver(claims[e], Wallets) + amount
  <2> DEFINE f == claims[e]
             g == claims'[e]
  <2>1. /\ \A y \in Wallets : f[y] \in Int /\ g[y] \in Int
        /\ \A y \in Wallets \ {p} : g[y] = f[y]
        /\ g[p] = amount /\ f[p] = 0
    BY <1>1, <1>3, <1>6
  <2> HIDE DEF f, g
  <2>2. SumOver(g, Wallets) = SumOver(f, Wallets) + (g[p] - f[p])
    BY <2>1, SumChange, EpochsFinite
  <2> QED BY <1>3, <2>1, <2>2 DEF f, g
<1>12. \A q \in Wallets : claims'[e][q] # 0 =>
         Provable(epochs[e].root, epochs[e].leaf_count, q, claims'[e][q])
  <2>1. ASSUME NEW q \in Wallets, claims'[e][q] # 0
        PROVE  Provable(epochs[e].root, epochs[e].leaf_count, q, claims'[e][q])
    <3>1. CASE q = p
      BY <1>1, <1>3, <1>6, <3>1
    <3>2. CASE q # p
      <4>1. claims'[e][q] = claims[e][q]
        BY <1>3, <1>6, <3>2
      <4> QED BY <1>1, <1>2, <2>1, <4>1 DEF EpochBooks
    <3> QED BY <3>1, <3>2
  <2> QED BY <2>1
<1>13. EpochBooks(e)'
  <2>1. remaining_micro'[e] = remaining_micro[e] - amount
    BY <1>1, <1>2 DEF TypeOK
  <2>2. SumOver(claims'[e], Wallets) + remaining_micro'[e]
        = SumOver(claims[e], Wallets) + remaining_micro[e]
    BY <1>3, <1>11, <2>1
  <2> QED BY <1>1, <1>2, <1>12, <2>2 DEF EpochBooks
<1>14. ASSUME NEW x \in Epochs, x # e PROVE EpochBooks(x)'
  <2>1. /\ EpochBooks(x) /\ epochs'[x] = epochs[x]
        /\ remaining_micro'[x] = remaining_micro[x] /\ claims'[x] = claims[x]
    BY <1>1, <1>2, <1>6, <1>14 DEF IInv, BooksInv, TypeOK
  <2> QED BY <2>1, SameEpoch
<1> QED BY <1>7, <1>8, <1>9, <1>10, <1>13, <1>14 DEF IInv, BooksInv, VaultCoversReserved

LEMMA NextInv == IInv /\ [Next]_vars => IInv'
<1> SUFFICES ASSUME IInv, [Next]_vars PROVE IInv'
  OBVIOUS
<1>0. TypeOK /\ BooksInv /\ ReservationInv /\ VaultCoversReserved /\ NominationInv
  BY DEF IInv
<1>1. ASSUME NEW s \in Wallets, initialize(s) PROVE IInv'
  <2>1. TypeOK' /\ UNCHANGED money
    BY <1>0, <1>1 DEF initialize, TypeOK, money
  <2>2. NominationInv'
    BY <1>0, <1>1 DEF initialize, NominationInv
  <2> QED BY <1>0, <2>1, <2>2, SameMoney DEF IInv
<1>2. ASSUME NEW s \in Wallets, NEW e \in Epochs, NEW root \in Roots, NEW n \in LeafCounts,
             NEW total \in Totals, publish_epoch(s, e, root, n, total)
      PROVE  IInv'
  BY <1>2, PublishKeeps
<1>3. ASSUME NEW s \in Wallets, NEW p \in BOOLEAN, set_paused(s, p) PROVE IInv'
  <2>1. TypeOK' /\ UNCHANGED money /\ UNCHANGED handover
    BY <1>0, <1>3 DEF set_paused, TypeOK, money, handover
  <2> QED BY <1>0, <2>1, SameMoney, SameHandover DEF IInv
<1>4. ASSUME NEW s \in Wallets, NEW new \in Candidates, propose_authority_change(s, new)
      PROVE  IInv'
  <2>1. new \in Wallets
    BY RewardsAssumption
  <2>2. TypeOK' /\ UNCHANGED money
    BY <1>0, <1>4, <2>1 DEF propose_authority_change, NominationSlot, TypeOK, money
  <2>3. NominationInv'
    BY <1>0, <1>4, <2>1 DEF propose_authority_change, NominationSlot, NominationInv, TypeOK
  <2> QED BY <1>0, <2>2, <2>3, SameMoney DEF IInv
<1>5. ASSUME NEW s \in Wallets, accept_authority_change(s) PROVE IInv'
  <2>1. TypeOK' /\ UNCHANGED money
    BY <1>0, <1>5 DEF accept_authority_change, TypeOK, money
  <2>2. NominationInv'
    BY <1>5 DEF accept_authority_change, NominationInv
  <2> QED BY <1>0, <2>1, <2>2, SameMoney DEF IInv
<1>6. ASSUME NEW p \in Wallets, NEW e \in Epochs, NEW amount \in Totals, claim(p, e, amount)
      PROVE  IInv'
  BY <1>6, ClaimKeeps
<1>7. ASSUME NEW w \in Delegators, ToggleDelegate(w) PROVE IInv'
  <2>1. TypeOK' /\ UNCHANGED money /\ UNCHANGED handover
    BY <1>0, <1>7, RewardsAssumption DEF ToggleDelegate, TypeOK, money, handover
  <2> QED BY <1>0, <2>1, SameMoney, SameHandover DEF IInv
<1>8. ASSUME NEW amount \in Deposits, Deposit(amount) PROVE IInv'
  <2>1. amount \in Nat /\ vault \in Nat /\ outside \in Nat /\ reserved \in Nat
    BY <1>0, RewardsAssumption DEF TypeOK
  <2>2. /\ amount <= outside /\ vault' = vault + amount /\ outside' = outside - amount
        /\ UNCHANGED <<handover, paused, reserved, epochs, remaining_micro, claims, unsafe, slot>>
    BY <1>8 DEF Deposit
  <2>3. vault' \in Nat /\ outside' \in Nat /\ vault' >= reserved'
    BY <1>0, <2>1, <2>2 DEF VaultCoversReserved
  <2>4. TypeOK' /\ NominationInv'
    BY <1>0, <2>2, <2>3, SameHandover DEF TypeOK, handover
  <2>5. BooksInv' /\ ReservationInv'
    BY <1>0, <2>2 DEF BooksInv, EpochBooks, ReservationInv
  <2> QED BY <2>3, <2>4, <2>5 DEF IInv, VaultCoversReserved
<1>9. CASE SlotPasses
  <2>1. TypeOK' /\ UNCHANGED money /\ UNCHANGED handover
    BY <1>0, <1>9 DEF SlotPasses, TypeOK, money, handover
  <2> QED BY <1>0, <2>1, SameMoney, SameHandover DEF IInv
<1>10. CASE UNCHANGED vars
  <2>1. TypeOK' /\ UNCHANGED money /\ UNCHANGED handover
    BY <1>0, <1>10 DEF vars, TypeOK, money, handover
  <2> QED BY <1>0, <2>1, SameMoney, SameHandover DEF IInv
<1> QED
  BY <1>1, <1>2, <1>3, <1>4, <1>5, <1>6, <1>7, <1>8, <1>9, <1>10 DEF Next

LEMMA Invariance == Spec => []IInv
BY InitInv, NextInv, PTL DEF Spec

-----------------------------------------------------------------------------
(* Honest wallets can be paid, for ever. *)

\* A proof against an honest tree is a proof of one of its leaves.
LEMMA HonestProof ==
  ASSUME NEW root, Len(root) \in Nat, NEW w, NEW amount, Provable(root, Len(root), w, amount)
  PROVE  \E i \in 1..Len(root) : root[i] = <<w, amount>>
<1>1. PICK index \in 0..(Len(root) - 1) : PaddedLeaf(root, index) = <<w, amount>>
  BY DEF Provable
<1>2. index + 1 \in 1..Len(root) /\ index < Len(root)
  OBVIOUS
<1>3. root[index + 1] = <<w, amount>>
  BY <1>1, <1>2 DEF PaddedLeaf
<1> QED BY <1>2, <1>3

\* The books, the reservation and the vault make every unclaimed leaf payable.
LEMMA PayableFromBooks == IInv => PrizesPayable
<1> SUFFICES ASSUME IInv PROVE PrizesPayable
  OBVIOUS
<1>0. TypeOK /\ BooksInv /\ ReservationInv /\ VaultCoversReserved
  BY DEF IInv
<1>1. LeafStaysClaimable
  <2> SUFFICES ASSUME NEW e \in Epochs, epochs[e] # NoAccount,
                      HonestTree(epochs[e].root, epochs[e].leaf_count, epochs[e].total_micro),
                      NEW k \in 1..Len(epochs[e].root),
                      claims[e][epochs[e].root[k][1]] = 0
               PROVE  ClaimCovered(e, epochs[e].root[k][2])
    BY DEF LeafStaysClaimable
  <2> DEFINE root == epochs[e].root
             I == 1..Len(root)
             f == claims[e]
             promised == TableTotal(root, I)
  <2>1. Len(root) \in Nat /\ root \in [I -> Wallets \X Nat] /\ epochs[e].total_micro \in Nat
    BY <1>0, PublishedShape, RootAssumption
  <2>2. f \in [Wallets -> Nat] /\ SumOver(f, Wallets) \in Nat /\ remaining_micro[e] \in Nat
    BY <1>0, PaidIsNat
  <2>3. epochs[e].leaf_count = Len(root) /\ promised <= epochs[e].total_micro
    BY DEF HonestTree, TableTotal
  <2>4. SumOver(f, Wallets) + remaining_micro[e] = epochs[e].total_micro
    BY <1>0 DEF BooksInv, EpochBooks
  <2>5. \A p \in Wallets : f[p] = 0 \/ (\E i \in I : root[i] = <<p, f[p]>>)
    <3> SUFFICES ASSUME NEW p \in Wallets, f[p] # 0
                 PROVE  \E i \in I : root[i] = <<p, f[p]>>
      OBVIOUS
    <3>1. Provable(root, Len(root), p, f[p])
      BY <1>0, <2>3 DEF BooksInv, EpochBooks
    <3> HIDE DEF root, f
    <3> QED BY <2>1, <3>1, HonestProof
  <2>6. IsFiniteSet(I) /\ IsFiniteSet(Wallets)
    BY <2>1, FS_Interval, RewardsAssumption
  <2>7. root[k][2] \in Nat /\ k \in I /\ f[root[k][1]] = 0
    BY <2>1
  <2>8. promised \in Nat /\ SumOver(f, Wallets) + root[k][2] <= promised
    <3> HIDE DEF root, I, f
    <3> QED BY <2>1, <2>2, <2>5, <2>6, <2>7, TableCovers
  <2> HIDE DEF promised, root, f
  <2>9. root[k][2] <= remaining_micro[e]
    BY <2>1, <2>2, <2>3, <2>4, <2>7, <2>8
  <2>10. remaining_micro[e] <= reserved /\ reserved <= vault /\ reserved \in Nat /\ vault \in Nat
    BY <1>0, RemainderReserved DEF VaultCoversReserved, TypeOK
  <2> QED BY <2>2, <2>7, <2>9, <2>10 DEF ClaimCovered, root
<1> QED BY <1>0, <1>1 DEF PrizesPayable

\* In every reachable state the vault covers the reservation and every unclaimed
\* leaf of a correctly computed tree fits its epoch, the reservation and the vault.
THEOREM PrizesAlwaysPayable == Spec => []PrizesPayable
BY Invariance, PayableFromBooks, PTL

-----------------------------------------------------------------------------
(* The handover. *)

\* What a change of authority must have waited for.
HandoverStep ==
  authority' # authority /\ Initialized =>
    slot >= nominated_at[authority'] + MIN_AUTHORITY_DELAY_SLOTS

LEMMA HandoverStepHolds == IInv /\ [Next]_vars => HandoverStep
<1> SUFFICES ASSUME IInv, [Next]_vars, authority' # authority, authority # NoKey
             PROVE  slot >= nominated_at[authority'] + MIN_AUTHORITY_DELAY_SLOTS
  BY DEF HandoverStep, Initialized
<1>1. PICK new \in Wallets : accept_authority_change(new)
  BY DEF Next, vars, handover, initialize, Initialized, publish_epoch, set_paused,
         propose_authority_change, claim, ToggleDelegate, Deposit, SlotPasses
<1>2. new # NoKey
  BY RewardsAssumption
<1> QED BY <1>1, <1>2 DEF accept_authority_change, IInv, NominationInv

\* No key becomes the authority before its own nomination has waited out the
\* delay: a replaced nomination starts it again.
THEOREM HandoverAlwaysWaits == Spec => HandoverWaits
<1>1. IInv /\ [Next]_vars => [HandoverStep]_vars
  BY HandoverStepHolds
<1>2. Spec => [][HandoverStep]_vars
  BY <1>1, InitInv, NextInv, PTL DEF Spec
<1> QED BY <1>2 DEF HandoverWaits, HandoverStep

-----------------------------------------------------------------------------
(* The program implements the payout ledger. *)

\* What the ledger calls promised.
Promised == [e \in Epochs |-> IF epochs[e] = NoAccount THEN 0 ELSE epochs[e].total_micro]

LEMMA LedgerInit == Init => Ledger!Init
BY DEF Init, Ledger!Init

\* publish_epoch is Promise, claim is Pay; nothing else touches the ledger.
LEMMA LedgerStep == IInv /\ [Next]_vars => [Ledger!Next]_(Ledger!vars)
<1> SUFFICES ASSUME IInv, [Next]_vars PROVE [Ledger!Next]_(Ledger!vars)
  OBVIOUS
<1>0. TypeOK /\ BooksInv
  BY DEF IInv
<1>1. ASSUME NEW s \in Wallets, NEW e \in Epochs, NEW root \in Roots, NEW n \in LeafCounts,
             NEW total \in Totals, publish_epoch(s, e, root, n, total)
      PROVE  Ledger!Promise(e, total) /\ total \in Totals \ {0}
  <2>1. /\ epochs[e] = NoAccount /\ total > 0
        /\ epochs' = [epochs EXCEPT ![e] =
                        [root |-> root, leaf_count |-> n, total_micro |-> total]]
        /\ remaining_micro' = [remaining_micro EXCEPT ![e] = total]
        /\ claims' = claims
    BY <1>1 DEF publish_epoch
  <2>2. total \in Nat /\ total # 0
    BY <2>1, RewardsAssumption
  <2>3. [root |-> root, leaf_count |-> n, total_micro |-> total] \in EpochState
    BY <2>2 DEF EpochState
  <2>4. /\ epochs'[e] # NoAccount /\ epochs'[e].total_micro = total
        /\ \A x \in Epochs \ {e} : epochs'[x] = epochs[x]
    BY <1>0, <2>1, <2>3, RewardsAssumption DEF TypeOK
  <2>5. Promised' = [Promised EXCEPT ![e] = total]
    BY <2>4 DEF Promised
  <2>6. Promised[e] = 0
    BY <2>1 DEF Promised
  <2> QED BY <2>1, <2>2, <2>5, <2>6 DEF Ledger!Promise, Promised
<1>2. ASSUME NEW p \in Wallets, NEW e \in Epochs, NEW amount \in Totals, claim(p, e, amount)
      PROVE  Ledger!Pay(e, p, amount) /\ amount \in Totals \ {0}
  <2>1. /\ epochs[e] # NoAccount /\ claims[e][p] = 0 /\ amount > 0
        /\ amount <= remaining_micro[e] /\ epochs' = epochs
        /\ remaining_micro' = [remaining_micro EXCEPT ![e] = remaining_micro[e] - amount]
        /\ claims' = [claims EXCEPT ![e][p] = amount]
    BY <1>2 DEF claim, ClaimOnce, ClaimCovered
  <2>2. Promised[e] = epochs[e].total_micro /\ Promised' = Promised /\ Promised[e] # 0
    BY <1>0, <2>1 DEF Promised, BooksInv, EpochBooks
  <2>3. amount # 0
    BY <2>1, RewardsAssumption
  <2> QED BY <2>1, <2>2, <2>3 DEF Ledger!Pay, Promised
<1>3. \/ UNCHANGED <<epochs, remaining_micro, claims>>
      \/ \E s \in Wallets, e \in Epochs, root \in Roots, n \in LeafCounts, total \in Totals :
           publish_epoch(s, e, root, n, total)
      \/ \E p \in Wallets, e \in Epochs, amount \in Totals : claim(p, e, amount)
  BY DEF Next, vars, money, initialize, set_paused, propose_authority_change,
         accept_authority_change, ToggleDelegate, Deposit, SlotPasses
<1>4. CASE UNCHANGED <<epochs, remaining_micro, claims>>
  BY <1>4 DEF Ledger!vars
<1> QED BY <1>1, <1>2, <1>3, <1>4 DEF Ledger!Next

\* Every behaviour of the program is a behaviour of the payout ledger: totals
\* are promised once, wallets are paid once, and nothing is revised.
THEOREM ProgramImplementsLedger == Spec => ImplementsLedger
BY Invariance, LedgerInit, LedgerStep, PTL DEF Spec, ImplementsLedger, Ledger!Spec

-----------------------------------------------------------------------------
(* The admin workflow: the inductive invariant is DecisionInv.              *)

(* A request that went through withDecisionLock names a proposal and a     *)
(* superadmin, and is never asked again.                                   *)
Asked(r) ==
  /\ ask[r] \in {"approve", "reject"} \X Proposals \X Superadmins
  /\ answer[r] # "idle"

Ready == {r \in Requests : Asked(r)}

(* What the decision lock keeps true of the approval that awaits its       *)
(* execution: nobody else decides its proposal in the meantime.            *)
Approves(r) ==
  LET p == ask[r][2] IN
  /\ r \in Ready
  /\ status[p] = "open"
  /\ ApproverAllowed(p, ask[r][3])
  /\ <<r, "produced">> \in running => produced[target[p]] = p

LockHolds ==
  /\ chain \in Seq(Ready)
  /\ \A x, y \in running : x = y
  /\ \A x \in running : Approves(x[1])

(* A proposal that exists has a target; what it produced is that target.   *)
ProducedByTarget ==
  /\ \A p \in Proposals : status[p] # "none" => target[p] \in Targets
  /\ \A t \in Targets : produced[t] # None =>
       status[produced[t]] # "none" /\ target[produced[t]] = t

(* Until the first restart, a produced epoch has its proposal executed, or *)
(* about to be by the request that holds the lock.                         *)
WillBeExecuted ==
  crashes = 0 => \A t \in Targets : produced[t] # None =>
    \/ status[produced[t]] = "executed"
    \/ \E r \in Requests : <<r, "produced">> \in running /\ ask[r][2] = produced[t]

DecisionInv ==
  AdminTypeOK /\ ExecutedByProposal /\ LockHolds /\ ProducedByTarget /\ WillBeExecuted

-----------------------------------------------------------------------------
LEMMA SeqGrows ==
  ASSUME NEW S, NEW T, S \subseteq T, NEW s \in Seq(S)
  PROVE  s \in Seq(T)
OBVIOUS

LEMMA HeadIsReady ==
  ASSUME LockHolds, NEW r, NEW op, Starts(r, op)
  PROVE  /\ r \in Ready /\ ask[r][1] = op
         /\ ask[r][2] \in Proposals /\ ask[r][3] \in Superadmins
         /\ running = {}
         /\ chain' \in Seq(Ready)
<1>1. chain \in Seq(Ready) /\ chain # <<>> /\ running = {} /\ r = Head(chain)
      /\ ask[r][1] = op /\ chain' = Tail(chain)
  BY DEF LockHolds, Starts, ChainReady
<1>2. r \in Ready /\ chain' \in Seq(Ready)
  BY <1>1
<1> QED BY <1>1, <1>2 DEF Ready, Asked

\* Settling a request keeps every other and itself asked.
LEMMA SettleKeeps ==
  ASSUME AdminTypeOK, NEW r, NEW a \in {"ok", "error"}, Settle(r, a), UNCHANGED ask
  PROVE  /\ Ready \subseteq Ready'
         /\ answer' \in [Requests -> {"idle", "waiting", "ok", "error", "lost"}]
BY DEF AdminTypeOK, Settle, Ready, Asked

LEMMA DecisionInit == AdminInit => DecisionInv
<1> SUFFICES ASSUME AdminInit PROVE DecisionInv
  OBVIOUS
<1>1. AdminTypeOK
  <2>1. ask \in [Requests -> {"none", "approve", "reject"}
                          \X (Proposals \cup {None}) \X (Superadmins \cup {None})]
    BY DEF AdminInit, NoAsk
  <2> QED BY <2>1, AdminAssumption DEF AdminInit, AdminTypeOK
<1>2. ExecutedByProposal /\ ProducedByTarget /\ WillBeExecuted
  BY DEF AdminInit, ExecutedByProposal, ProducedByTarget, WillBeExecuted
<1>3. LockHolds
  BY DEF AdminInit, LockHolds
<1> QED BY <1>1, <1>2, <1>3 DEF DecisionInv

\* createProposal writes a new row only: no running approval and no produced
\* epoch refers to it.
LEMMA CreateKeeps ==
  ASSUME DecisionInv, NEW p \in Proposals, NEW by \in Tokens, NEW t \in Targets,
         createProposal(p, by, t)
  PROVE  DecisionInv'
<1> USE DEF DecisionInv, createProposal
<1>1. AdminTypeOK'
  BY AdminAssumption DEF AdminTypeOK, requests
<1>2. ExecutedByProposal'
  BY DEF AdminTypeOK, ExecutedByProposal
<1>3. Ready' = Ready
  BY DEF Ready, Asked, requests
<1>4. LockHolds'
  <2>1. ASSUME NEW x \in running PROVE Approves(x[1])'
    <3>1. Approves(x[1]) /\ ask[x[1]][2] \in Proposals
      BY DEF LockHolds, Approves, Ready, Asked
    <3> QED BY <3>1, <1>3 DEF Approves, ApproverAllowed, AdminTypeOK, requests
  <2> QED BY <2>1, <1>3 DEF LockHolds
<1>5. ProducedByTarget'
  BY AdminAssumption DEF AdminTypeOK, ProducedByTarget
<1>6. WillBeExecuted'
  <2>1. ASSUME NEW u \in Targets, produced[u] # None
        PROVE  status'[produced[u]] = status[produced[u]]
    BY <2>1 DEF AdminTypeOK, ProducedByTarget
  <2> QED BY <2>1 DEF WillBeExecuted, requests
<1> QED BY <1>1, <1>2, <1>4, <1>5, <1>6

LEMMA LockKeeps ==
  ASSUME DecisionInv, NEW r \in Requests, NEW op \in {"approve", "reject"},
         NEW p \in Proposals, NEW by \in Tokens, withDecisionLock(r, op, p, by)
  PROVE  DecisionInv'
<1> USE DEF DecisionInv, withDecisionLock, MayDecide, proposals
<1>1. AdminTypeOK'
  BY DEF AdminTypeOK
<1>2. ExecutedByProposal' /\ ProducedByTarget'
  BY DEF ExecutedByProposal, ProducedByTarget
<1>3. r \notin Ready /\ Ready \subseteq Ready' /\ r \in Ready'
  BY DEF AdminTypeOK, Ready, Asked
<1>4. LockHolds'
  <2>1. chain \in Seq(Ready')
    BY <1>3, SeqGrows DEF LockHolds
  <2>2. chain' \in Seq(Ready')
    BY <2>1, <1>3
  <2>3. ASSUME NEW x \in running PROVE Approves(x[1])'
    <3>1. Approves(x[1]) /\ x[1] \in Requests /\ x[1] # r
      BY <1>3 DEF LockHolds, Approves, Ready
    <3>2. ask'[x[1]] = ask[x[1]]
      BY <3>1 DEF AdminTypeOK
    <3> QED BY <3>1, <3>2, <1>3 DEF Approves, ApproverAllowed
  <2> QED BY <2>2, <2>3 DEF LockHolds
<1>5. WillBeExecuted'
  <2> SUFFICES ASSUME crashes = 0, NEW t \in Targets, produced[t] # None,
                      status[produced[t]] # "executed"
               PROVE  \E q \in Requests : <<q, "produced">> \in running /\ ask'[q][2] = produced[t]
    BY DEF WillBeExecuted
  <2>1. PICK q \in Requests : <<q, "produced">> \in running /\ ask[q][2] = produced[t]
    BY DEF WillBeExecuted
  <2>2. q # r
    BY <2>1, <1>3 DEF LockHolds, Approves
  <2> QED BY <2>1, <2>2 DEF AdminTypeOK
<1> QED BY <1>1, <1>2, <1>4, <1>5

\* A decision that ends in its checks runs alone: whatever it does to its open
\* proposal disturbs no approval, and until a restart an open proposal has
\* produced nothing.
LEMMA DecideAlone ==
  ASSUME DecisionInv, NEW r \in Requests, NEW p \in Proposals, NEW by \in Superadmins,
         NEW st \in {"rejected", "expired"}, NEW a \in {"ok", "error"},
         running = {}, chain' \in Seq(Ready), Settle(r, a),
         Decide(p, st, by) \/ UNCHANGED proposals,
         UNCHANGED <<produced, ask, running, now, crashes>>
  PROVE  DecisionInv'
<1> USE DEF DecisionInv
<1>1. Ready \subseteq Ready' /\ answer' \in [Requests -> {"idle", "waiting", "ok", "error", "lost"}]
  BY SettleKeeps
<1>2. chain' \in Seq(Ready') /\ chain' \in Seq(Requests)
  BY <1>1, SeqGrows DEF Ready
<1>3. LockHolds'
  BY <1>2 DEF LockHolds
<1>4. CASE Decide(p, st, by)
  <2> USE <1>4 DEF Decide
  <2>1. AdminTypeOK'
    BY <1>1, <1>2 DEF AdminTypeOK
  <2>2. ExecutedByProposal'
    BY DEF AdminTypeOK, ExecutedByProposal
  <2>3. ProducedByTarget'
    BY AdminAssumption DEF AdminTypeOK, ProducedByTarget
  <2>4. WillBeExecuted'
    BY AdminAssumption DEF AdminTypeOK, WillBeExecuted
  <2> QED BY <2>1, <2>2, <2>3, <2>4, <1>3
<1>5. CASE UNCHANGED proposals
  <2> USE <1>5 DEF proposals
  <2>1. AdminTypeOK'
    BY <1>1, <1>2 DEF AdminTypeOK
  <2> QED BY <2>1, <1>3 DEF ExecutedByProposal, ProducedByTarget, WillBeExecuted
<1> QED BY <1>4, <1>5

LEMMA RejectKeeps ==
  ASSUME DecisionInv, NEW r \in Requests, rejectProposal(r)
  PROVE  DecisionInv'
<1>1. r \in Ready /\ ask[r][2] \in Proposals /\ ask[r][3] \in Superadmins
      /\ running = {} /\ chain' \in Seq(Ready)
  BY HeadIsReady DEF rejectProposal, DecisionInv
<1>2. \E a \in {"ok", "error"} :
        Settle(r, a) /\ (Decide(ask[r][2], "rejected", ask[r][3]) \/ UNCHANGED proposals)
  BY DEF rejectProposal
<1> QED BY <1>1, <1>2, DecideAlone DEF rejectProposal

LEMMA RefuseKeeps ==
  ASSUME DecisionInv, NEW r \in Requests, ApproveRefused(r)
  PROVE  DecisionInv'
<1>1. r \in Ready /\ ask[r][2] \in Proposals /\ ask[r][3] \in Superadmins
      /\ running = {} /\ chain' \in Seq(Ready)
  BY HeadIsReady DEF ApproveRefused, DecisionInv
<1>2. Settle(r, "error") /\ (Decide(ask[r][2], "expired", ask[r][3]) \/ UNCHANGED proposals)
  BY DEF ApproveRefused
<1> QED BY <1>1, <1>2, DecideAlone DEF ApproveRefused

LEMMA StartKeeps ==
  ASSUME DecisionInv, NEW r \in Requests, ApproveStarts(r)
  PROVE  DecisionInv'
<1> USE DEF DecisionInv, proposals, requests
<1>1. r \in Ready /\ ask[r][2] \in Proposals /\ ask[r][3] \in Superadmins
      /\ running = {} /\ chain' \in Seq(Ready)
  BY HeadIsReady DEF ApproveStarts
<1>2. running' = {<<r, "executing">>} /\ status[ask[r][2]] = "open"
      /\ ApproverAllowed(ask[r][2], ask[r][3])
      /\ UNCHANGED <<proposals, produced, requests, now, crashes>>
  BY <1>1 DEF ApproveStarts, effectiveStatus
<1>3. Ready' = Ready
  BY <1>2 DEF Ready, Asked
<1>4. AdminTypeOK'
  BY <1>1, <1>2, SeqGrows DEF AdminTypeOK, Ready, Phases
<1>5. LockHolds'
  <2>1. Approves(r)'
    BY <1>1, <1>2, <1>3 DEF Approves, ApproverAllowed
  <2> QED BY <1>1, <1>2, <1>3, <2>1 DEF LockHolds
<1>6. ExecutedByProposal' /\ ProducedByTarget'
  BY <1>2 DEF ExecutedByProposal, ProducedByTarget
<1>7. WillBeExecuted'
  BY <1>1, <1>2 DEF WillBeExecuted
<1> QED BY <1>4, <1>5, <1>6, <1>7

\* The request in running, when there is one, is the only one.
LEMMA RunningAlone ==
  ASSUME LockHolds, NEW r \in Requests, NEW ph \in Phases, <<r, ph>> \in running
  PROVE  /\ running = {<<r, ph>>}
         /\ Approves(r) /\ r \in Ready
         /\ ask[r][2] \in Proposals /\ ask[r][3] \in Superadmins
<1>1. running = {<<r, ph>>}
  BY DEF LockHolds
<1>2. Approves(r)
  <2>1. Approves(<<r, ph>>[1])
    BY DEF LockHolds
  <2> QED BY <2>1
<1> QED BY <1>1, <1>2 DEF Approves, Ready, Asked

\* The execution writes an epoch nobody has produced: no executed proposal
\* loses its own.
LEMMA ExecuteKeeps ==
  ASSUME DecisionInv, NEW r \in Requests, ExecuteSucceeds(r)
  PROVE  DecisionInv'
<1> USE DEF DecisionInv, proposals, requests
<1> DEFINE p == ask[r][2]
           t == target[p]
<1>1. running = {<<r, "executing">>} /\ Approves(r) /\ r \in Ready
      /\ p \in Proposals /\ ask[r][3] \in Superadmins
  BY RunningAlone DEF ExecuteSucceeds, Phases
<1>2. t \in Targets /\ produced[t] = None /\ status[p] = "open"
      /\ produced' = [produced EXCEPT ![t] = p] /\ running' = {<<r, "produced">>}
      /\ UNCHANGED <<proposals, requests, chain, now, crashes>>
  BY <1>1 DEF ExecuteSucceeds, MayProduce, Approves, ProducedByTarget
<1>3. AdminTypeOK'
  BY <1>1, <1>2 DEF AdminTypeOK, Phases
<1>4. ExecutedByProposal'
  BY <1>1, <1>2, AdminAssumption DEF AdminTypeOK, ExecutedByProposal, ProducedByTarget
<1>5. Ready' = Ready
  BY <1>2 DEF Ready, Asked
<1>6. LockHolds'
  <2>1. Approves(r)'
    BY <1>1, <1>2, <1>5 DEF Approves, ApproverAllowed, AdminTypeOK
  <2> QED BY <1>2, <1>5, <2>1 DEF LockHolds
<1>7. ProducedByTarget'
  BY <1>1, <1>2 DEF AdminTypeOK, ProducedByTarget
<1>8. WillBeExecuted'
  <2> SUFFICES ASSUME crashes = 0, NEW u \in Targets, produced'[u] # None
               PROVE  \/ status[produced'[u]] = "executed"
                      \/ <<r, "produced">> \in running' /\ ask[r][2] = produced'[u]
    BY <1>2 DEF WillBeExecuted
  <2>1. CASE u = t
    BY <2>1, <1>2 DEF AdminTypeOK
  <2>2. CASE u # t
    <3>1. produced'[u] = produced[u]
      BY <2>2, <1>2 DEF AdminTypeOK
    <3> QED BY <3>1, <1>1 DEF WillBeExecuted
  <2> QED BY <2>1, <2>2
<1> QED BY <1>3, <1>4, <1>6, <1>7, <1>8

LEMMA FailKeeps ==
  ASSUME DecisionInv, NEW r \in Requests, ExecuteFails(r)
  PROVE  DecisionInv'
<1> USE DEF DecisionInv, proposals
<1>1. running = {<<r, "executing">>} /\ running' = {} /\ Settle(r, "error")
      /\ UNCHANGED <<proposals, produced, ask, chain, now, crashes>>
  BY RunningAlone DEF ExecuteFails, Phases
<1>2. Ready \subseteq Ready' /\ answer' \in [Requests -> {"idle", "waiting", "ok", "error", "lost"}]
  BY <1>1, SettleKeeps
<1>3. AdminTypeOK'
  BY <1>1, <1>2 DEF AdminTypeOK
<1>4. LockHolds'
  BY <1>1, <1>2, SeqGrows DEF LockHolds
<1>5. WillBeExecuted'
  BY <1>1 DEF WillBeExecuted
<1> QED BY <1>1, <1>3, <1>4, <1>5 DEF ExecutedByProposal, ProducedByTarget

\* The lock kept the proposal open, so the status update after the execution
\* takes effect and names an approver who was allowed to decide.
LEMMA FinishKeeps ==
  ASSUME DecisionInv, NEW r \in Requests, ApproveFinishes(r)
  PROVE  DecisionInv'
<1> USE DEF DecisionInv
<1> DEFINE p == ask[r][2]
           by == ask[r][3]
<1>1. running = {<<r, "produced">>} /\ Approves(r) /\ p \in Proposals /\ by \in Superadmins
  BY RunningAlone DEF ApproveFinishes, Phases
<1>2. status[p] = "open" /\ ApproverAllowed(p, by) /\ produced[target[p]] = p
      /\ target[p] \in Targets
  BY <1>1 DEF Approves, ProducedByTarget
<1>3. Decide(p, "executed", by) /\ Settle(r, "ok") /\ running' = {}
      /\ UNCHANGED <<produced, ask, chain, now, crashes>>
  BY <1>1, <1>2 DEF ApproveFinishes
<1>4. Ready \subseteq Ready' /\ answer' \in [Requests -> {"idle", "waiting", "ok", "error", "lost"}]
  BY <1>3, SettleKeeps
<1>5. AdminTypeOK'
  BY <1>1, <1>3, <1>4 DEF AdminTypeOK, Decide
<1>6. ExecutedByProposal'
  BY <1>1, <1>2, <1>3 DEF AdminTypeOK, ExecutedByProposal, Decide, ApproverAllowed
<1>7. LockHolds'
  BY <1>3, <1>4, SeqGrows DEF LockHolds
<1>8. ProducedByTarget'
  BY <1>1, <1>3, AdminAssumption DEF AdminTypeOK, ProducedByTarget, Decide
<1>9. WillBeExecuted'
  <2> SUFFICES ASSUME crashes = 0, NEW u \in Targets, produced[u] # None
               PROVE  status'[produced[u]] = "executed"
    BY <1>3 DEF WillBeExecuted
  <2>1. status[produced[u]] = "executed" \/ produced[u] = p
    BY <1>1 DEF WillBeExecuted
  <2> QED BY <2>1, <1>1, <1>3 DEF AdminTypeOK, Decide
<1> QED BY <1>5, <1>6, <1>7, <1>8, <1>9

\* A restart forgets the chain and the running approval, not the rows.
LEMMA CrashKeeps ==
  ASSUME DecisionInv, Crash
  PROVE  DecisionInv'
<1> USE DEF DecisionInv, Crash, proposals
<1>1. AdminTypeOK'
  BY AdminAssumption DEF AdminTypeOK
<1>2. LockHolds'
  BY DEF LockHolds
<1>3. WillBeExecuted'
  BY DEF AdminTypeOK, WillBeExecuted
<1> QED BY <1>1, <1>2, <1>3 DEF ExecutedByProposal, ProducedByTarget

\* What a step leaves alone, DecisionInv does not notice; the clock matters to
\* effectiveStatus only.
LEMMA TickKeeps ==
  ASSUME DecisionInv, AdminTypeOK', UNCHANGED <<proposals, produced, requests, chain, running, crashes>>
  PROVE  DecisionInv'
<1> USE DEF DecisionInv, proposals, requests
<1>1. Ready' = Ready
  BY DEF Ready, Asked
<1>2. \A r : Approves(r) => Approves(r)'
  BY <1>1 DEF Approves, ApproverAllowed
<1>3. LockHolds'
  BY <1>1, <1>2 DEF LockHolds
<1> QED BY <1>3 DEF ExecutedByProposal, ProducedByTarget, WillBeExecuted

LEMMA DecisionNext == DecisionInv /\ [AdminNext]_adminVars => DecisionInv'
<1> SUFFICES ASSUME DecisionInv, [AdminNext]_adminVars PROVE DecisionInv'
  OBVIOUS
<1>1. CASE \E p \in Proposals, by \in Tokens, t \in Targets : createProposal(p, by, t)
  BY <1>1, CreateKeeps
<1>2. CASE \E r \in Requests, op \in {"approve", "reject"}, p \in Proposals, by \in Tokens :
             withDecisionLock(r, op, p, by)
  BY <1>2, LockKeeps
<1>3. CASE \E r \in Requests : Decision(r)
  BY <1>3, RejectKeeps, RefuseKeeps, StartKeeps, ExecuteKeeps, FailKeeps, FinishKeeps
     DEF Decision
<1>4. CASE Crash
  BY <1>4, CrashKeeps
<1>5. CASE Tick
  <2>1. AdminTypeOK'
    BY <1>5, AdminAssumption DEF DecisionInv, AdminTypeOK, Tick, proposals, requests
  <2> QED BY <1>5, <2>1, TickKeeps DEF Tick
<1>6. CASE UNCHANGED adminVars
  <2>1. AdminTypeOK'
    BY <1>6 DEF DecisionInv, AdminTypeOK, adminVars, proposals, requests
  <2> QED BY <1>6, <2>1, TickKeeps DEF adminVars
<1> QED BY <1>1, <1>2, <1>3, <1>4, <1>5, <1>6 DEF AdminNext

-----------------------------------------------------------------------------
(* The status of a proposal tells what happened to its epoch: an executed  *)
(* proposal produced it and was approved by an allowed superadmin, and     *)
(* until a restart no rejected or expired one produced anything, whatever  *)
(* handlers run during the awaits of routes.ts' executeProposal.           *)
THEOREM StatusAlwaysTrue == AdminSpec => []StatusIsTrue
<1>1. DecisionInv => StatusIsTrue
  <2> SUFFICES ASSUME DecisionInv PROVE RejectedNotExecuted
    BY DEF DecisionInv, StatusIsTrue
  <2>1. ASSUME NEW r \in Requests, <<r, "produced">> \in running
        PROVE  status[ask[r][2]] = "open"
    BY <2>1, RunningAlone DEF DecisionInv, Approves, Phases
  <2> QED BY <2>1 DEF DecisionInv, WillBeExecuted, RejectedNotExecuted
<1> QED BY <1>1, DecisionInit, DecisionNext, PTL DEF AdminSpec

(* An epoch is sealed or closed by one execution and never again: a second *)
(* approval, a retry after a restart or a second proposal for the same     *)
(* epoch finds sealEpoch's state check or the primary key of               *)
(* economy_epochs in its way.                                              *)
THEOREM EpochProducedOnce == AdminSpec => ProducedOnce
<1>1. ASSUME DecisionInv, [AdminNext]_adminVars, NEW t \in Targets, produced[t] # None
      PROVE  produced'[t] = produced[t]
  <2>1. ASSUME NEW r \in Requests, ExecuteSucceeds(r) PROVE produced'[t] = produced[t]
    BY <1>1, <2>1 DEF DecisionInv, AdminTypeOK, ExecuteSucceeds, MayProduce
  <2>2. CASE UNCHANGED produced
    BY <2>2
  <2> QED BY <1>1, <2>1, <2>2 DEF AdminNext, Decision, createProposal, withDecisionLock,
       rejectProposal, ApproveRefused, ApproveStarts, ExecuteFails, ApproveFinishes,
       Crash, Tick, adminVars
<1>2. DecisionInv /\ [AdminNext]_adminVars =>
        [\A t \in Targets : produced[t] # None => produced'[t] = produced[t]]_adminVars
  BY <1>1
<1> QED BY <1>2, DecisionInit, DecisionNext, PTL DEF AdminSpec, ProducedOnce
=============================================================================
