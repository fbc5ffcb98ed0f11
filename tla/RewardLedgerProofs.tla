------------------------- MODULE RewardLedgerProofs -------------------------
(***************************************************************************)
(* Proofs about the reward ledger, for every set of players, wallets and   *)
(* signed events, every cap and every window length.                       *)
(***************************************************************************)
EXTENDS RewardLedger, FiniteSums, TLAPS

-----------------------------------------------------------------------------
(* Windows. *)

LEMMA MultMono ==
  ASSUME NEW a \in Nat, NEW b \in Nat, NEW c \in Nat, a <= b
  PROVE  c * a <= c * b
BY SMT

\* A time is not before the start of its window, and windows keep the order.
LEMMA WindowFacts ==
  ASSUME NEW d \in Nat \ {0}, NEW a \in Nat
  PROVE  a \div d \in Nat /\ (a \div d) * d <= a /\ a < ((a \div d) + 1) * d
<1> DEFINE q == a \div d
<1>1. q \in Nat /\ d * q <= a /\ a < d * (q + 1)
  OBVIOUS
<1>2. d * q = q * d /\ d * (q + 1) = (q + 1) * d
  BY <1>1
<1> QED BY <1>1, <1>2

LEMMA DivMono ==
  ASSUME NEW d \in Nat \ {0}, NEW a \in Nat, NEW b \in Nat, a <= b
  PROVE  a \div d <= b \div d
<1> DEFINE q == a \div d
           r == b \div d
<1>1. q \in Nat /\ r \in Nat /\ q * d <= a /\ b < (r + 1) * d
  BY WindowFacts
<1> HIDE DEF q, r
<1>2. SUFFICES ASSUME r + 1 <= q PROVE FALSE
  BY <1>1 DEF q, r
<1>3. d * (r + 1) <= d * q
  BY <1>1, <1>2, MultMono
<1>4. d * (r + 1) = (r + 1) * d /\ d * q = q * d /\ (r + 1) * d \in Nat /\ q * d \in Nat
  BY <1>1
<1> QED BY <1>1, <1>3, <1>4

LEMMA CurrentEpochIn == TypeOK => currentEpoch \in Epochs /\ now \in Nat /\ now \in 0..MaxTime
<1> SUFFICES ASSUME TypeOK PROVE currentEpoch \in Epochs /\ now \in Nat /\ now \in 0..MaxTime
  OBVIOUS
<1>1. now \in Nat /\ now \in 0..MaxTime /\ MaxTime \in Nat /\ now <= MaxTime /\ epochMs \in Nat \ {0}
  BY WindowAssumption DEF TypeOK
<1>2. now \div epochMs \in Nat /\ MaxTime \div epochMs \in Nat
      /\ now \div epochMs <= MaxTime \div epochMs
  BY <1>1, WindowFacts, DivMono
<1> QED BY <1>1, <1>2 DEF currentEpoch, Epochs

-----------------------------------------------------------------------------
(* What one delivery does. *)

Rejections == {"rejected_signature", "rejected_caps", "rejected_validation",
               "rejected_epoch_sealed"}

\* The delivery of e is refused: only its status is written.
Rejecting(e) ==
  /\ ~ IsDuplicate(e)
  /\ \E v \in Rejections : status' = [status EXCEPT ![e] = v]
  /\ UNCHANGED <<wallet, reward_epoch, ingested_at>>

\* The delivery of e, naming w, is accepted into the current epoch.
Accepting(e, w) ==
  /\ ~ IsDuplicate(e)
  /\ currentState = "open"
  /\ w # None => MayReceive(e, w)
  /\ WithinCaps(e, ResolvedBinding(e, w))
  /\ status' = [status EXCEPT ![e] = "accepted"]
  /\ wallet' = [wallet EXCEPT ![e] = ResolvedBinding(e, w)]
  /\ reward_epoch' = [reward_epoch EXCEPT ![e] = currentEpoch]
  /\ ingested_at' = [ingested_at EXCEPT ![e] = now]

\* The order of the checks, read backwards from the verdict.
LEMMA VerdictFacts ==
  ASSUME NEW e \in Events, NEW w \in Bindings \cup {None}, NEW s \in Signatures
  PROVE  /\ Verdict(e, w, s) \in Rejections \cup {"accepted"}
         /\ Verdict(e, w, s) = "accepted" =>
              /\ currentState = "open"
              /\ w # None => MayReceive(e, w)
              /\ WithinCaps(e, ResolvedBinding(e, w))
<1>1. s \in {"good", "forged", "missing"}
  BY WindowAssumption
<1>2. CASE s = "missing"
  BY <1>2 DEF Verdict, Rejections
<1>3. CASE s = "forged"
  BY <1>3 DEF Verdict, Rejections
<1>4. CASE s = "good"
  <2>1. CASE EpochRefuses
    BY <1>4, <2>1 DEF Verdict, Rejections
  <2>2. CASE ~ EpochRefuses /\ w # None /\ ~ MayReceive(e, w)
    BY <1>4, <2>2 DEF Verdict, Rejections
  <2>3. CASE ~ EpochRefuses /\ ~ (w # None /\ ~ MayReceive(e, w))
    <3>1. Verdict(e, w, s) = IF WithinCaps(e, ResolvedBinding(e, w)) THEN "accepted"
                             ELSE "rejected_caps"
      BY <1>4, <2>3 DEF Verdict
    <3> QED BY <2>3, <3>1 DEF Rejections, EpochRefuses
  <2> QED BY <2>1, <2>2, <2>3
<1> QED BY <1>1, <1>2, <1>3, <1>4

LEMMA IngestCases ==
  ASSUME NEW e \in Events, NEW w \in Bindings \cup {None}, NEW s \in Signatures,
         ingestOne(e, w, s)
  PROVE  /\ epoch_state' = [epoch_state EXCEPT ![currentEpoch] = currentState]
         /\ UNCHANGED <<bindings, leaves, claims, now>>
         /\ (UNCHANGED events) \/ Rejecting(e) \/ Accepting(e, w)
<1> DEFINE v == Verdict(e, w, s)
<1>1. v \in Rejections \cup {"accepted"}
  BY VerdictFacts
<1>2. CASE IsDuplicate(e)
  BY <1>2 DEF ingestOne
<1>3. CASE ~ IsDuplicate(e) /\ v = "accepted"
  <2>1. Accepting(e, w)
    BY <1>3, VerdictFacts DEF ingestOne, Accepting
  <2> QED BY <2>1 DEF ingestOne
<1>4. CASE ~ IsDuplicate(e) /\ v # "accepted"
  <2>1. Rejecting(e)
    BY <1>1, <1>4 DEF ingestOne, Rejecting
  <2> QED BY <2>1 DEF ingestOne
<1> QED BY <1>2, <1>3, <1>4

\* The binding a delivery is credited to is a binding or none.
LEMMA ResolvedType ==
  ASSUME NEW e \in Events, NEW w \in Bindings \cup {None}
  PROVE  /\ ResolvedBinding(e, w) \in Bindings \cup {None}
         /\ (w # None => MayReceive(e, w)) /\ ResolvedBinding(e, w) # None =>
              ResolvedBinding(e, w) \in findActiveByPlayerId(player_id[e])
BY DEF ResolvedBinding, findActiveByPlayerId, MayReceive

-----------------------------------------------------------------------------
(* What is decided is final; events go to their own player's wallet. *)

DecidedStep ==
  /\ \A ep \in SealedEpochs : epoch_state'[ep] = "sealed" /\ leaves'[ep] = leaves[ep]
  /\ \A e \in Events :
       status[e] \in {"accepted", "rejected_caps", "rejected_epoch_sealed"} =>
         /\ status'[e] = status[e] /\ wallet'[e] = wallet[e]
         /\ reward_epoch'[e] = reward_epoch[e]
  /\ \A ep \in Epochs, b \in Bindings :
       intents[ep][b] = "confirmed" => intents'[ep][b] = "confirmed"

CreditStep ==
  \A e \in Events : wallet[e] = None /\ wallet'[e] # None =>
    binding[wallet'[e]] = "active" /\ linked[wallet'[e]] = player_id[e]

LEMMA StepFacts == TypeOK /\ [Next]_vars => DecidedStep /\ CreditStep
<1> SUFFICES ASSUME TypeOK, [Next]_vars PROVE DecidedStep /\ CreditStep
  OBVIOUS
<1>1. ASSUME NEW e \in Events, NEW w \in Bindings \cup {None}, NEW s \in Signatures,
             ingestOne(e, w, s)
      PROVE  DecidedStep /\ CreditStep
  <2>1. /\ epoch_state' = [epoch_state EXCEPT ![currentEpoch] = currentState]
        /\ leaves' = leaves /\ intents' = intents
        /\ (UNCHANGED events) \/ Rejecting(e) \/ Accepting(e, w)
    BY <1>1, IngestCases DEF claims
  <2>2. \A ep \in SealedEpochs : epoch_state'[ep] = "sealed" /\ leaves'[ep] = leaves[ep]
    BY <2>1 DEF SealedEpochs, currentState, TypeOK
  <2>3. ASSUME NEW x \in Events, status[x] \in {"accepted", "rejected_caps", "rejected_epoch_sealed"}
        PROVE  /\ status'[x] = status[x] /\ wallet'[x] = wallet[x]
               /\ reward_epoch'[x] = reward_epoch[x]
    <3>1. x # e \/ UNCHANGED events
      BY <2>1, <2>3 DEF Rejecting, Accepting, IsDuplicate
    <3> QED BY <2>1, <3>1 DEF Rejecting, Accepting, events, TypeOK
  <2>4. CreditStep
    <3> SUFFICES ASSUME NEW x \in Events, wallet[x] = None, wallet'[x] # None
                 PROVE  binding[wallet'[x]] = "active" /\ linked[wallet'[x]] = player_id[x]
      BY DEF CreditStep
    <3>1. Accepting(e, w) /\ x = e
      BY <2>1 DEF Rejecting, Accepting, events, TypeOK
    <3>2. wallet'[x] = ResolvedBinding(e, w)
      BY <3>1 DEF Accepting, TypeOK
    <3>3. wallet'[x] \in findActiveByPlayerId(player_id[x])
      BY <3>1, <3>2, ResolvedType DEF Accepting
    <3> QED BY <3>3 DEF findActiveByPlayerId
  <2> QED BY <2>1, <2>2, <2>3, <2>4 DEF DecidedStep
<1>2. ASSUME NEW ep \in Epochs, sealEpoch(ep) PROVE DecidedStep /\ CreditStep
  <2>1. /\ epoch_state[ep] = "open"
        /\ epoch_state' = [epoch_state EXCEPT ![ep] = "sealed"]
        /\ \A x \in Epochs : x # ep => leaves'[x] = leaves[x]
        /\ UNCHANGED <<bindings, events, claims, now>>
    BY <1>2 DEF sealEpoch, Sealable, TypeOK
  <2> QED BY <2>1 DEF DecidedStep, CreditStep, SealedEpochs, events, claims, TypeOK
<1>3. ASSUME NEW b \in Bindings, NEW ep \in Epochs, claimIntent(b, ep)
      PROVE  DecidedStep /\ CreditStep
  <2>1. /\ intents[ep][b] = "none"
        /\ intents' = [intents EXCEPT ![ep] = [intents[ep] EXCEPT ![b] = "created"]]
        /\ UNCHANGED <<events, epochs>>
    BY <1>3 DEF claimIntent
  <2>2. \A x \in Epochs, y \in Bindings :
          intents'[x][y] = IF x = ep /\ y = b THEN "created" ELSE intents[x][y]
    BY <2>1 DEF TypeOK
  <2>3. DecidedStep
    BY <2>1, <2>2 DEF DecidedStep, SealedEpochs, events, epochs
  <2> QED BY <2>1, <2>3 DEF CreditStep, events
<1>4. ASSUME NEW b \in Bindings, NEW ep \in Epochs, NEW r \in Reports, claimConfirmation(b, ep, r)
      PROVE  DecidedStep /\ CreditStep
  <2>1. /\ intents[ep][b] # "confirmed"
        /\ intents' = [intents EXCEPT ![ep] = [intents[ep] EXCEPT ![b] = r]]
        /\ UNCHANGED <<events, epochs>>
    BY <1>4 DEF claimConfirmation, ConfirmationOpen
  <2>2. \A x \in Epochs, y \in Bindings :
          intents'[x][y] = IF x = ep /\ y = b THEN r ELSE intents[x][y]
    BY <2>1 DEF TypeOK
  <2>3. DecidedStep
    BY <2>1, <2>2 DEF DecidedStep, SealedEpochs, events, epochs
  <2> QED BY <2>1, <2>3 DEF CreditStep, events
<1>5. CASE UNCHANGED <<events, epochs, claims>>
  BY <1>5 DEF DecidedStep, CreditStep, SealedEpochs, events, epochs, claims
<1>6. \/ \E e \in Events, w \in Bindings \cup {None}, s \in Signatures : ingestOne(e, w, s)
      \/ \E ep \in Epochs : sealEpoch(ep)
      \/ \E b \in Bindings, ep \in Epochs : claimIntent(b, ep)
      \/ \E b \in Bindings, ep \in Epochs, r \in Reports : claimConfirmation(b, ep, r)
      \/ UNCHANGED <<events, epochs, claims>>
  BY DEF Next, vars, upsertBinding, unlinkAndRevoke, setPlayerLink, Tick
<1> QED BY <1>1, <1>2, <1>3, <1>4, <1>5, <1>6

-----------------------------------------------------------------------------
(* The rows of the join, and the leaves made of them. *)

\* The rows of the LEFT JOIN are finitely many pairs of an accepted event of
\* the epoch and a binding or NULL.
LEMMA JoinShape ==
  ASSUME TypeOK, NEW ep \in Epochs
  PROVE  /\ JoinRows(ep) \subseteq EventsOf(ep) \X (Bindings \cup {None})
         /\ EventsOf(ep) \subseteq Events /\ IsFiniteSet(EventsOf(ep))
         /\ IsFiniteSet(JoinRows(ep))
         /\ \A row \in JoinRows(ep) : Credited(row) \in Bindings \cup {None}
<1>1. JoinRows(ep) \subseteq EventsOf(ep) \X (Bindings \cup {None})
  BY DEF JoinRows, findActiveByPlayerId
<1>2. EventsOf(ep) \subseteq Events /\ IsFiniteSet(EventsOf(ep))
  BY FS_Subset, EventAssumption DEF EventsOf, Accepted
<1>3. IsFiniteSet(Bindings \cup {None})
  BY FS_AddElement, EventAssumption
<1>4. IsFiniteSet(EventsOf(ep) \X (Bindings \cup {None}))
  BY <1>2, <1>3, FS_Product
<1>5. IsFiniteSet(JoinRows(ep))
  BY <1>1, <1>4, FS_Subset
<1>6. ASSUME NEW row \in JoinRows(ep) PROVE Credited(row) \in Bindings \cup {None}
  BY <1>1, <1>2 DEF Credited, TypeOK
<1> QED BY <1>1, <1>2, <1>5, <1>6

\* The rows credited to one binding.
RowsOf(ep, b) == {row \in JoinRows(ep) : Credited(row) = b}

\* A new leaf is the sum over the rows credited to its binding.
LEMMA SealedLeafIs ==
  ASSUME TypeOK, NEW ep \in Epochs
  PROVE  /\ DOMAIN SealedLeaves(ep) = {Credited(row) : row \in JoinRows(ep)} \ {None}
         /\ DOMAIN SealedLeaves(ep) \subseteq Bindings
         /\ \A b \in DOMAIN SealedLeaves(ep) :
              /\ SealedLeaves(ep)[b] = SumOver([row \in RowsOf(ep, b) |-> amount_micro[row[1]]],
                                               RowsOf(ep, b))
              /\ SealedLeaves(ep)[b] \in Nat
<1>1. DOMAIN SealedLeaves(ep) = {Credited(row) : row \in JoinRows(ep)} \ {None}
  BY DEF SealedLeaves
<1>2. DOMAIN SealedLeaves(ep) \subseteq Bindings
  BY <1>1, JoinShape
<1>3. ASSUME NEW b \in DOMAIN SealedLeaves(ep)
      PROVE  /\ SealedLeaves(ep)[b] = SumOver([row \in RowsOf(ep, b) |-> amount_micro[row[1]]],
                                               RowsOf(ep, b))
             /\ SealedLeaves(ep)[b] \in Nat
  <2> DEFINE R == RowsOf(ep, b)
             f == [row \in R |-> amount_micro[row[1]]]
  <2>1. SealedLeaves(ep)[b] = RowTotal(amount_micro, R)
    BY <1>1, <1>3 DEF SealedLeaves, RowTotal, RowsOf
  <2>2. IsFiniteSet(R) /\ \A row \in R : f[row] \in Nat
    <3>1. R \subseteq JoinRows(ep)
      BY DEF RowsOf
    <3>2. IsFiniteSet(R)
      BY <3>1, JoinShape, FS_Subset
    <3>3. \A row \in R : row[1] \in Events
      BY <3>1, JoinShape
    <3> QED BY <3>2, <3>3, EventAssumption
  <2>3. RowTotal(amount_micro, R) = SumOver(f, R)
    <3> HIDE DEF R
    <3> QED BY <2>2, RowSum
  <2>4. SumOver(f, R) \in Nat
    <3> HIDE DEF R, f
    <3> QED BY <2>2, SumNat
  <2> QED BY <2>1, <2>3, <2>4
<1> QED BY <1>1, <1>2, <1>3

\* sealEpoch writes the leaves of its own epoch.
LEMMA SealWrites ==
  ASSUME TypeOK, NEW ep \in Epochs, sealEpoch(ep)
  PROVE  /\ DOMAIN leaves' = Epochs
         /\ \A x \in Epochs : x # ep => leaves'[x] = leaves[x]
         /\ leaves'[ep] = [b \in DOMAIN SealedLeaves(ep) \cup DOMAIN leaves[ep] |->
                             IF b \in DOMAIN SealedLeaves(ep) THEN SealedLeaves(ep)[b]
                             ELSE leaves[ep][b]]
<1>1. leaves' = [leaves EXCEPT ![ep] = Inserted(SealedLeaves(ep), leaves[ep])] /\ DOMAIN leaves = Epochs
  BY DEF sealEpoch, TypeOK
<1>2. /\ DOMAIN leaves' = Epochs
      /\ \A x \in Epochs : x # ep => leaves'[x] = leaves[x]
      /\ leaves'[ep] = Inserted(SealedLeaves(ep), leaves[ep])
  BY <1>1
<1> QED BY <1>2 DEF Inserted

-----------------------------------------------------------------------------
(* Type correctness. *)

LEMMA InitTypeOK == Init => TypeOK
<1> SUFFICES ASSUME Init PROVE TypeOK
  OBVIOUS
<1>1. /\ MaxTime \in Nat /\ epochMs \in Nat \ {0} /\ 0 \in 0..MaxTime
      /\ MaxTime \div epochMs \in Nat
  BY WindowAssumption, WindowFacts
<1>2. 0 \in Epochs
  BY <1>1 DEF Epochs
<1>3. /\ DOMAIN leaves = Epochs
      /\ \A ep \in Epochs : leaves[ep] = [b \in {} |-> 0]
  BY DEF Init
<1>4. \A ep \in Epochs : DOMAIN leaves[ep] \subseteq Bindings
                         /\ leaves[ep] \in [DOMAIN leaves[ep] -> Nat]
  BY <1>3
<1> QED BY <1>1, <1>2, <1>3, <1>4 DEF Init, TypeOK

LEMMA NextTypeOK == TypeOK /\ [Next]_vars => TypeOK'
<1> SUFFICES ASSUME TypeOK, [Next]_vars PROVE TypeOK'
  OBVIOUS
<1>1. ASSUME NEW b \in Bindings, upsertBinding(b) PROVE TypeOK'
  BY <1>1 DEF upsertBinding, TypeOK, events, epochs, claims
<1>2. ASSUME NEW b \in Bindings, unlinkAndRevoke(b) PROVE TypeOK'
  BY <1>2 DEF unlinkAndRevoke, TypeOK, events, epochs, claims
<1>3. ASSUME NEW b \in Bindings, NEW p \in Players, setPlayerLink(b, p) PROVE TypeOK'
  BY <1>3 DEF setPlayerLink, TypeOK, events, epochs, claims
<1>4. ASSUME NEW b \in Bindings, NEW ep \in Epochs, claimIntent(b, ep) PROVE TypeOK'
  <2>1. /\ b \in DOMAIN leaves[ep]
        /\ intents' = [intents EXCEPT ![ep] = [intents[ep] EXCEPT ![b] = "created"]]
        /\ intent_amount' = [intent_amount EXCEPT
                               ![ep] = [intent_amount[ep] EXCEPT ![b] = leaves[ep][b]]]
        /\ UNCHANGED <<bindings, events, epochs, now>>
    BY <1>4 DEF claimIntent
  <2>2. leaves[ep][b] \in Nat
    BY <2>1 DEF TypeOK
  <2>3. intents' \in [Epochs -> [Bindings -> {"none", "created", "submitted", "confirmed", "failed"}]]
    <3>1. intents[ep] \in [Bindings -> {"none", "created", "submitted", "confirmed", "failed"}]
      BY DEF TypeOK
    <3>2. [intents[ep] EXCEPT ![b] = "created"]
            \in [Bindings -> {"none", "created", "submitted", "confirmed", "failed"}]
      BY <3>1
    <3> QED BY <2>1, <3>2 DEF TypeOK
  <2>4. intent_amount' \in [Epochs -> [Bindings -> Nat]]
    <3>1. intent_amount[ep] \in [Bindings -> Nat]
      BY DEF TypeOK
    <3>2. [intent_amount[ep] EXCEPT ![b] = leaves[ep][b]] \in [Bindings -> Nat]
      BY <2>2, <3>1
    <3> QED BY <2>1, <3>2 DEF TypeOK
  <2> QED BY <2>1, <2>3, <2>4 DEF TypeOK, bindings, events, epochs
<1>5. ASSUME NEW b \in Bindings, NEW ep \in Epochs, NEW r \in Reports, claimConfirmation(b, ep, r)
      PROVE  TypeOK'
  <2>1. /\ intents' = [intents EXCEPT ![ep] = [intents[ep] EXCEPT ![b] = r]]
        /\ UNCHANGED <<bindings, events, epochs, intent_amount, now>>
    BY <1>5 DEF claimConfirmation
  <2>2. r \in {"none", "created", "submitted", "confirmed", "failed"}
    BY WindowAssumption
  <2>3. intents' \in [Epochs -> [Bindings -> {"none", "created", "submitted", "confirmed", "failed"}]]
    <3>1. intents[ep] \in [Bindings -> {"none", "created", "submitted", "confirmed", "failed"}]
      BY DEF TypeOK
    <3>2. [intents[ep] EXCEPT ![b] = r]
            \in [Bindings -> {"none", "created", "submitted", "confirmed", "failed"}]
      BY <2>2, <3>1
    <3> QED BY <2>1, <3>2 DEF TypeOK
  <2> QED BY <2>1, <2>3 DEF TypeOK, bindings, events, epochs
<1>6. ASSUME NEW e \in Events, NEW w \in Bindings \cup {None}, NEW s \in Signatures,
             ingestOne(e, w, s)
      PROVE  TypeOK'
  <2>1. /\ epoch_state' = [epoch_state EXCEPT ![currentEpoch] = currentState]
        /\ UNCHANGED <<bindings, leaves, claims, now>>
        /\ (UNCHANGED events) \/ Rejecting(e) \/ Accepting(e, w)
    BY <1>6, IngestCases
  <2>2. currentEpoch \in Epochs /\ now \in 0..MaxTime
    BY CurrentEpochIn
  <2>3. epoch_state' \in [Epochs -> {"absent", "open", "sealed"}]
    BY <2>1, <2>2 DEF TypeOK, currentState
  <2> DEFINE EventsTyped ==
        /\ status \in [Events -> {"none", "accepted", "rejected_signature", "rejected_caps",
                                  "rejected_validation", "rejected_epoch_sealed"}]
        /\ wallet \in [Events -> Bindings \cup {None}]
        /\ reward_epoch \in [Events -> Epochs]
        /\ ingested_at \in [Events -> 0..MaxTime]
  <2>4. EventsTyped
    BY DEF TypeOK
  <2>5. EventsTyped'
    <3>1. CASE UNCHANGED events
      BY <2>4, <3>1 DEF events
    <3>2. CASE Rejecting(e)
      BY <2>4, <3>2 DEF Rejecting, Rejections
    <3>3. CASE Accepting(e, w)
      BY <2>2, <2>4, <3>3, ResolvedType DEF Accepting
    <3> QED BY <2>1, <3>1, <3>2, <3>3
  <2> QED BY <2>1, <2>3, <2>5 DEF TypeOK, bindings, claims
<1>7. ASSUME NEW ep \in Epochs, sealEpoch(ep) PROVE TypeOK'
  <2>1. /\ epoch_state' = [epoch_state EXCEPT ![ep] = "sealed"]
        /\ UNCHANGED <<bindings, events, claims, now>>
    BY <1>7 DEF sealEpoch
  <2>2. DOMAIN leaves' = Epochs /\ \A x \in Epochs : x # ep => leaves'[x] = leaves[x]
    BY <1>7, SealWrites
  <2>3. DOMAIN leaves'[ep] \subseteq Bindings /\ leaves'[ep] \in [DOMAIN leaves'[ep] -> Nat]
    <3> DEFINE L == SealedLeaves(ep)
               K == leaves[ep]
    <3>1. /\ DOMAIN L \subseteq Bindings /\ \A b \in DOMAIN L : L[b] \in Nat
      BY SealedLeafIs
    <3>2. /\ DOMAIN K \subseteq Bindings /\ \A b \in DOMAIN K : K[b] \in Nat
      BY DEF TypeOK
    <3>3. leaves'[ep] = [b \in DOMAIN L \cup DOMAIN K |-> IF b \in DOMAIN L THEN L[b] ELSE K[b]]
      BY <1>7, SealWrites
    <3> HIDE DEF L, K
    <3> QED BY <3>1, <3>2, <3>3
  <2>4. \A x \in Epochs : DOMAIN leaves'[x] \subseteq Bindings
                          /\ leaves'[x] \in [DOMAIN leaves'[x] -> Nat]
    <3> SUFFICES ASSUME NEW x \in Epochs
                 PROVE  DOMAIN leaves'[x] \subseteq Bindings
                        /\ leaves'[x] \in [DOMAIN leaves'[x] -> Nat]
      OBVIOUS
    <3>1. CASE x = ep
      BY <2>3, <3>1
    <3>2. CASE x # ep
      <4>1. leaves'[x] = leaves[x]
        BY <2>2, <3>2
      <4> QED BY <4>1 DEF TypeOK
    <3> QED BY <3>1, <3>2
  <2>5. epoch_state' \in [Epochs -> {"absent", "open", "sealed"}]
    BY <2>1 DEF TypeOK
  <2> QED BY <2>1, <2>2, <2>4, <2>5 DEF TypeOK, bindings, events, claims
<1>8. CASE Tick
  BY <1>8, WindowAssumption DEF Tick, TypeOK, bindings, events, epochs, claims
<1>9. CASE UNCHANGED vars
  BY <1>9 DEF vars, TypeOK, bindings, events, epochs, claims
<1> QED
  BY <1>1, <1>2, <1>3, <1>4, <1>5, <1>6, <1>7, <1>8, <1>9 DEF Next

\* What is decided is final, whatever is delivered, linked, revoked or reported
\* later: the leaves of a sealed epoch, a verdict that is not retryable, and a
\* confirmed claim.
THEOREM DecisionsAreFinal == Spec => DecidedIsFinal
<1>1. TypeOK /\ [Next]_vars => [DecidedStep]_vars
  BY StepFacts
<1>2. Spec => [][DecidedStep]_vars
  BY <1>1, InitTypeOK, NextTypeOK, PTL DEF Spec
<1> QED BY <1>2 DEF DecidedIsFinal, DecidedStep

\* An event is bound only to an active wallet linked to the player who earned
\* it, whatever binding the unsigned part of the delivery names.
THEOREM CreditGoesHome == Spec => CreditedToItsPlayer
<1>1. TypeOK /\ [Next]_vars => [CreditStep]_vars
  BY StepFacts
<1>2. Spec => [][CreditStep]_vars
  BY <1>1, InitTypeOK, NextTypeOK, PTL DEF Spec
<1> QED BY <1>2 DEF CreditedToItsPlayer, CreditStep

-----------------------------------------------------------------------------
(* The caps. *)

\* Sums of accepted events.
LEMMA SumMicroFacts ==
  ASSUME NEW S \in SUBSET Events
  PROVE  /\ IsFiniteSet(S) /\ SumMicro(S) = SumOver(amount_micro, S) /\ SumMicro(S) \in Nat
         /\ \A T \in SUBSET S : SumMicro(T) <= SumMicro(S)
         /\ \A e \in Events \ S : SumMicro(S \cup {e}) = SumMicro(S) + amount_micro[e]
<1>1. IsFiniteSet(S) /\ \A x \in Events : amount_micro[x] \in Nat
  BY EventAssumption, FS_Subset
<1>2. ASSUME NEW T PROVE SumMicro(T) = SumOver(amount_micro, T)
  BY DEF SumMicro, SumOver
<1>3. SumOver(amount_micro, S) \in Nat
  BY <1>1, SumNat
<1>4. ASSUME NEW T \in SUBSET S PROVE SumOver(amount_micro, T) <= SumOver(amount_micro, S)
  BY <1>1, SumSubset
<1>5. ASSUME NEW e \in Events \ S
      PROVE  SumOver(amount_micro, S \cup {e}) = SumOver(amount_micro, S) + amount_micro[e]
  <2>1. \A y \in S \cup {e} : amount_micro[y] \in Int
    BY <1>1
  <2>2. SumOver(amount_micro, S \cup {e}) = amount_micro[e] + SumOver(amount_micro, S)
    BY <1>1, <2>1, SumInsert
  <2> QED BY <1>1, <1>3, <2>2
<1> QED BY <1>1, <1>2, <1>3, <1>4, <1>5

\* WithinEveryWindow, for given times of ingestion.
WindowsHold(Mine, at) ==
  /\ \A e \in Mine :
       SumMicro({x \in Mine : match_id[x] = match_id[e]}) <= capPerMatchMicro
  /\ \A t \in 0..MaxTime :
       /\ SumMicro({x \in Mine : at[x] \div DAY_MS = t \div DAY_MS}) <= capDailyMicro
       /\ SumMicro({x \in Mine : at[x] \div WEEK_MS = t \div WEEK_MS}) <= capWeeklyMicro

SameWindow(Mine, at, d, t) == {x \in Mine : at[x] \div d = t \div d}
Since(Mine, at, start) == {x \in Mine : at[x] >= start}

\* Rows ingested in the same window as t are not before the window's start, so
\* the sum the handler checks is at least the sum the property is about.
LEMMA OneWindowGrows ==
  ASSUME NEW d \in Nat \ {0}, NEW Mine \in SUBSET Events, NEW at \in [Events -> 0..MaxTime],
         NEW e \in Events \ Mine, NEW u \in 0..MaxTime, NEW cap \in Nat,
         SumMicro(Since(Mine, at, windowStart(u, d))) + amount_micro[e] <= cap,
         NEW t \in 0..MaxTime, SumMicro(SameWindow(Mine, at, d, t)) <= cap
  PROVE  SumMicro(SameWindow(Mine \cup {e}, [at EXCEPT ![e] = u], d, t)) <= cap
<1> USE DEF SameWindow, Since
<1> DEFINE S == {x \in Mine : at[x] \div d = t \div d}
           C == {x \in Mine : at[x] >= windowStart(u, d)}
           new == [at EXCEPT ![e] = u]
           S2 == {x \in Mine \cup {e} : new[x] \div d = t \div d}
<1>0. /\ MaxTime \in Nat /\ u \in Nat /\ t \in Nat /\ new[e] = u
      /\ \A x \in Mine : new[x] = at[x] /\ at[x] \in Nat
  BY WindowAssumption
<1>1. CASE t \div d # u \div d
  <2>1. S2 = S
    BY <1>0, <1>1
  <2> QED BY <2>1
<1>2. CASE t \div d = u \div d
  <2>1. S2 = S \cup {e}
    BY <1>0, <1>2
  <2>2. S \subseteq C
    <3> SUFFICES ASSUME NEW x \in S PROVE at[x] >= windowStart(u, d)
      OBVIOUS
    <3>1. (at[x] \div d) * d <= at[x] /\ at[x] \div d = u \div d
      BY <1>0, <1>2, WindowFacts
    <3>2. (u \div d) \in Nat /\ (u \div d) * d \in Nat /\ at[x] \in Nat
      BY <1>0, WindowFacts
    <3> QED BY <3>1, <3>2 DEF windowStart
  <2>3. S \in SUBSET Events /\ C \in SUBSET Events /\ e \in Events \ S
    OBVIOUS
  <2>4. SumMicro(C) + amount_micro[e] <= cap
    OBVIOUS
  <2> HIDE DEF S, C, S2, new
  <2>5. /\ SumMicro(S) <= SumMicro(C) /\ SumMicro(S) \in Nat /\ SumMicro(C) \in Nat
        /\ SumMicro(S \cup {e}) = SumMicro(S) + amount_micro[e]
    BY <2>2, <2>3, SumMicroFacts
  <2>6. amount_micro[e] \in Nat
    BY EventAssumption
  <2>7. SumMicro(S2) <= cap
    BY <2>1, <2>4, <2>5, <2>6
  <2> QED BY <2>7 DEF S2, new
<1> QED BY <1>1, <1>2

\* An accepted event stays within the caps of each dimension it was checked in.
LEMMA WindowsGrow ==
  ASSUME TypeOK, NEW Mine \in SUBSET Events, NEW e \in Events \ Mine,
         WindowsHold(Mine, ingested_at), CapsInDimension(e, Mine)
  PROVE  WindowsHold(Mine \cup {e}, [ingested_at EXCEPT ![e] = now])
<1>0. /\ {DAY_MS, WEEK_MS} \subseteq Nat \ {0} /\ ingested_at \in [Events -> 0..MaxTime]
      /\ now \in 0..MaxTime /\ {capPerMatchMicro, capDailyMicro, capWeeklyMicro} \subseteq Nat
  BY WindowAssumption DEF TypeOK
<1>1. ASSUME NEW y \in Mine \cup {e}
      PROVE  SumMicro({x \in Mine \cup {e} : match_id[x] = match_id[y]}) <= capPerMatchMicro
  <2> DEFINE S == {x \in Mine : match_id[x] = match_id[y]}
             S2 == {x \in Mine \cup {e} : match_id[x] = match_id[y]}
  <2>1. CASE match_id[y] # match_id[e]
    <3>1. y \in Mine /\ S2 = S
      BY <2>1
    <3> QED BY <3>1 DEF WindowsHold
  <2>2. CASE match_id[y] = match_id[e]
    <3>1. S2 = S \cup {e} /\ S \in SUBSET Events /\ e \in Events \ S
      BY <2>2
    <3>2. S = {x \in Mine : match_id[x] = match_id[e]}
      BY <2>2
    <3>3. SumMicro(S) + amount_micro[e] <= capPerMatchMicro
      BY <3>2 DEF CapsInDimension, Fits
    <3> HIDE DEF S, S2
    <3>4. SumMicro(S \cup {e}) = SumMicro(S) + amount_micro[e]
      BY <3>1, SumMicroFacts
    <3>5. SumMicro(S2) <= capPerMatchMicro
      BY <3>1, <3>3, <3>4
    <3> QED BY <3>5 DEF S2
  <2> QED BY <2>1, <2>2
<1>2. ASSUME NEW t \in 0..MaxTime
      PROVE  /\ SumMicro({x \in Mine \cup {e} :
                   [ingested_at EXCEPT ![e] = now][x] \div DAY_MS = t \div DAY_MS}) <= capDailyMicro
             /\ SumMicro({x \in Mine \cup {e} :
                   [ingested_at EXCEPT ![e] = now][x] \div WEEK_MS = t \div WEEK_MS}) <= capWeeklyMicro
  <2>1. /\ SumMicro(Since(Mine, ingested_at, windowStart(now, DAY_MS)))
             + amount_micro[e] <= capDailyMicro
        /\ SumMicro(Since(Mine, ingested_at, windowStart(now, WEEK_MS)))
             + amount_micro[e] <= capWeeklyMicro
    BY DEF CapsInDimension, Fits, Since
  <2>2. /\ SumMicro(SameWindow(Mine, ingested_at, DAY_MS, t)) <= capDailyMicro
        /\ SumMicro(SameWindow(Mine, ingested_at, WEEK_MS, t)) <= capWeeklyMicro
    BY DEF WindowsHold, SameWindow
  <2> DEFINE at == [ingested_at EXCEPT ![e] = now]
  <2>3. SumMicro(SameWindow(Mine \cup {e}, at, DAY_MS, t)) <= capDailyMicro
    BY <1>0, <2>1, <2>2, OneWindowGrows
  <2>4. SumMicro(SameWindow(Mine \cup {e}, at, WEEK_MS, t)) <= capWeeklyMicro
    BY <1>0, <2>1, <2>2, OneWindowGrows
  <2> QED BY <2>3, <2>4 DEF SameWindow
<1> QED BY <1>1, <1>2 DEF WindowsHold

\* Rows of other players and wallets are not touched.
LEMMA WindowsSame ==
  ASSUME NEW Mine, NEW at, NEW new, \A x \in Mine : new[x] = at[x], WindowsHold(Mine, at)
  PROVE  WindowsHold(Mine, new)
<1>1. ASSUME NEW d, NEW t
      PROVE  {x \in Mine : new[x] \div d = t \div d} = {x \in Mine : at[x] \div d = t \div d}
  OBVIOUS
<1> QED BY <1>1 DEF WindowsHold

\* The rows the two dimensions of the caps are about.
OfPlayer(p) == {e \in Accepted : player_id[e] = p}
OfWallet(b) == {e \in Accepted : wallet[e] = b}

LEMMA CapsAre ==
  CapsHold <=> /\ \A p \in Players : WindowsHold(OfPlayer(p), ingested_at)
               /\ \A b \in Bindings : WindowsHold(OfWallet(b), ingested_at)
BY DEF CapsHold, WithinEveryWindow, WindowsHold, OfPlayer, OfWallet

\* How a delivery changes the accepted rows.
LEMMA AcceptedRows ==
  ASSUME TypeOK, NEW e \in Events, NEW w \in Bindings \cup {None}
  PROVE  /\ Rejecting(e) => Accepted' = Accepted /\ e \notin Accepted
         /\ Accepting(e, w) => Accepted' = Accepted \cup {e} /\ e \notin Accepted
<1>1. ASSUME ~ IsDuplicate(e) PROVE e \notin Accepted
  BY <1>1 DEF IsDuplicate, Accepted
<1>2. ASSUME Rejecting(e) PROVE Accepted' = Accepted /\ e \notin Accepted
  BY <1>1, <1>2 DEF Rejecting, Rejections, Accepted, TypeOK
<1>3. ASSUME Accepting(e, w) PROVE Accepted' = Accepted \cup {e} /\ e \notin Accepted
  BY <1>1, <1>3 DEF Accepting, Accepted, TypeOK
<1> QED BY <1>2, <1>3

LEMMA InitCaps == Init => CapsHold
<1> SUFFICES ASSUME Init PROVE CapsHold
  OBVIOUS
<1>1. \A p : OfPlayer(p) = {} /\ OfWallet(p) = {}
  BY DEF Init, OfPlayer, OfWallet, Accepted
<1>2. SumMicro({}) = 0
  BY SumMicroFacts, SumEmpty
<1>3. WindowsHold({}, ingested_at)
  <2>1. \A d, t : {x \in {} : ingested_at[x] \div d = t \div d} = {}
    OBVIOUS
  <2> QED BY <1>2, <2>1, WindowAssumption DEF WindowsHold
<1> QED BY <1>1, <1>3, CapsAre

\* Only an accepted delivery can use up a cap, and it was checked against the
\* player's rows and, once resolved, the wallet's.
LEMMA NextCaps == TypeOK /\ CapsHold /\ [Next]_vars => CapsHold'
<1> SUFFICES ASSUME TypeOK, CapsHold, [Next]_vars PROVE CapsHold'
  OBVIOUS
<1>1. CASE UNCHANGED events
  BY <1>1 DEF CapsHold, WithinEveryWindow, Accepted, events
<1>2. ASSUME NEW e \in Events, NEW w \in Bindings \cup {None}, NEW s \in Signatures,
             ingestOne(e, w, s)
      PROVE  CapsHold'
  <2>1. (UNCHANGED events) \/ Rejecting(e) \/ Accepting(e, w)
    BY <1>2, IngestCases
  <2>2. CASE Rejecting(e)
    <3>1. Accepted' = Accepted /\ UNCHANGED <<wallet, ingested_at>>
      BY <2>2, AcceptedRows DEF Rejecting
    <3>2. /\ \A p \in Players : OfPlayer(p)' = OfPlayer(p)
          /\ \A b \in Bindings : OfWallet(b)' = OfWallet(b)
      BY <3>1 DEF OfPlayer, OfWallet
    <3>3. /\ \A p \in Players : WindowsHold(OfPlayer(p)', ingested_at')
          /\ \A b \in Bindings : WindowsHold(OfWallet(b)', ingested_at')
      BY <3>1, <3>2, CapsAre
    <3> QED BY <3>3 DEF CapsHold, WithinEveryWindow, WindowsHold, OfPlayer, OfWallet
  <2>3. CASE Accepting(e, w)
    <3> DEFINE c == ResolvedBinding(e, w)
               at == [ingested_at EXCEPT ![e] = now]
    <3>1. /\ Accepted' = Accepted \cup {e} /\ e \notin Accepted /\ Accepted \subseteq Events
          /\ ingested_at' = at /\ wallet' = [wallet EXCEPT ![e] = c]
          /\ \A x \in Accepted : at[x] = ingested_at[x]
      BY <2>3, AcceptedRows DEF Accepting, Accepted, TypeOK
    <3>2. wallet'[e] = c /\ \A x \in Accepted : wallet'[x] = wallet[x]
      BY <3>1 DEF TypeOK
    <3>3. WithinCaps(e, c)
      BY <2>3 DEF Accepting
    <3> HIDE DEF c, at
    <3>4. ASSUME NEW p \in Players PROVE WindowsHold(OfPlayer(p)', at)
      <4>1. WindowsHold(OfPlayer(p), ingested_at) /\ OfPlayer(p) \in SUBSET Events
            /\ e \notin OfPlayer(p)
        BY <3>1, CapsAre DEF OfPlayer
      <4>2. CASE p = player_id[e]
        <5>1. OfPlayer(p)' = OfPlayer(p) \cup {e}
          BY <3>1, <4>2 DEF OfPlayer
        <5>2. CapsInDimension(e, OfPlayer(p))
          BY <3>3, <4>2 DEF WithinCaps, OfPlayer
        <5> QED BY <4>1, <5>1, <5>2, WindowsGrow DEF at
      <4>3. CASE p # player_id[e]
        <5>1. OfPlayer(p)' = OfPlayer(p)
          BY <3>1, <4>3 DEF OfPlayer
        <5>2. \A x \in OfPlayer(p) : at[x] = ingested_at[x]
          BY <3>1 DEF OfPlayer
        <5> QED BY <4>1, <5>1, <5>2, WindowsSame
      <4> QED BY <4>2, <4>3
    <3>5. ASSUME NEW b \in Bindings PROVE WindowsHold(OfWallet(b)', at)
      <4>1. WindowsHold(OfWallet(b), ingested_at) /\ OfWallet(b) \in SUBSET Events
            /\ e \notin OfWallet(b) /\ b # None
        BY <3>1, CapsAre, EventAssumption DEF OfWallet
      <4>2. CASE b = c
        <5>1. OfWallet(b)' = OfWallet(b) \cup {e}
          BY <3>1, <3>2, <4>2 DEF OfWallet
        <5>2. CapsInDimension(e, OfWallet(b))
          BY <3>3, <4>1, <4>2 DEF WithinCaps, OfWallet
        <5> QED BY <4>1, <5>1, <5>2, WindowsGrow DEF at
      <4>3. CASE b # c
        <5>1. OfWallet(b)' = OfWallet(b)
          BY <3>1, <3>2, <4>3 DEF OfWallet
        <5>2. \A x \in OfWallet(b) : at[x] = ingested_at[x]
          BY <3>1 DEF OfWallet
        <5> QED BY <4>1, <5>1, <5>2, WindowsSame
      <4> QED BY <4>2, <4>3
    <3>6. /\ \A p \in Players : WindowsHold(OfPlayer(p)', ingested_at')
          /\ \A b \in Bindings : WindowsHold(OfWallet(b)', ingested_at')
      BY <3>1, <3>4, <3>5
    <3> QED BY <3>6 DEF CapsHold, WithinEveryWindow, WindowsHold, OfPlayer, OfWallet
  <2> QED BY <1>1, <2>1, <2>2, <2>3
<1>3. \/ UNCHANGED events
      \/ \E e \in Events, w \in Bindings \cup {None}, s \in Signatures : ingestOne(e, w, s)
  BY DEF Next, vars, upsertBinding, unlinkAndRevoke, setPlayerLink, claimIntent,
         claimConfirmation, sealEpoch, Tick
<1> QED BY <1>1, <1>2, <1>3

\* In every reachable state the accepted rows of each player and of each wallet
\* are within the match, day and week caps, in every window.
THEOREM CapsAlwaysHold == Spec => []CapsHold
<1>1. Spec => [](TypeOK /\ CapsHold)
  BY InitTypeOK, NextTypeOK, InitCaps, NextCaps, PTL DEF Spec
<1> QED BY <1>1, PTL

-----------------------------------------------------------------------------
(* Links, rows and leaves. *)

\* A link belongs to an active wallet, a player has one link, and with the
\* setting on only the wallet registered for the player is linked to them.
LinkInv ==
  /\ \A b \in Bindings : binding[b] # "active" => linked[b] = None
  /\ \A a, b \in Bindings : linked[a] = linked[b] /\ linked[a] # None => a = b
  /\ playerLinkRequiresRegistration =>
       \A b \in Bindings : linked[b] # None => game_accounts[linked[b]] = b

\* An accepted row is in the epoch of its ingestion and, with the setting on,
\* bound only to its player's registered wallet.
RowInv ==
  \A e \in Accepted :
    /\ reward_epoch[e] = ingested_at[e] \div epochMs
    /\ playerLinkRequiresRegistration /\ wallet[e] # None =>
         game_accounts[player_id[e]] = wallet[e]

\* Leaves are written by sealing only.
LeafInv == \A ep \in Epochs : epoch_state[ep] # "sealed" => DOMAIN leaves[ep] = {}

LEMMA InitLinks == Init => LinkInv /\ RowInv /\ LeafInv
<1> SUFFICES ASSUME Init PROVE LinkInv /\ RowInv /\ LeafInv
  OBVIOUS
<1>1. LinkInv
  BY DEF Init, LinkInv
<1>2. RowInv
  BY DEF Init, RowInv, Accepted
<1>3. LeafInv
  BY DEF Init, LeafInv
<1> QED BY <1>1, <1>2, <1>3

\* Linking, unlinking and reviving keep the links apart.
LEMMA NextLinks == TypeOK /\ LinkInv /\ [Next]_vars => LinkInv'
<1> SUFFICES ASSUME TypeOK, LinkInv, [Next]_vars PROVE LinkInv'
  OBVIOUS
<1>1. ASSUME NEW b \in Bindings, upsertBinding(b) PROVE LinkInv'
  BY <1>1 DEF upsertBinding, LinkInv, TypeOK
<1>2. ASSUME NEW b \in Bindings, unlinkAndRevoke(b) PROVE LinkInv'
  BY <1>2 DEF unlinkAndRevoke, LinkInv, TypeOK
<1>3. ASSUME NEW b \in Bindings, NEW p \in Players, setPlayerLink(b, p) PROVE LinkInv'
  <2>1. /\ binding[b] = "active" /\ findActiveByPlayerId(p) \subseteq {b}
        /\ playerLinkRequiresRegistration => game_accounts[p] = b
        /\ linked' = [linked EXCEPT ![b] = p]
        /\ UNCHANGED <<playerLinkRequiresRegistration, binding>>
    BY <1>3 DEF setPlayerLink, LinkIsFree
  <2>2. linked'[b] = p /\ \A a \in Bindings \ {b} : linked'[a] = linked[a]
    BY <2>1 DEF TypeOK
  <2>3. \A a \in Bindings \ {b} : linked[a] # p
    <3> SUFFICES ASSUME NEW a \in Bindings, a # b, linked[a] = p PROVE FALSE
      OBVIOUS
    <3>1. p # None
      BY EventAssumption
    <3>2. a \in findActiveByPlayerId(p)
      BY <3>1 DEF findActiveByPlayerId, LinkInv
    <3> QED BY <2>1, <3>2
  <2>4. \A a \in Bindings : binding'[a] # "active" => linked'[a] = None
    BY <2>1, <2>2 DEF LinkInv
  <2>5. \A a, c \in Bindings : linked'[a] = linked'[c] /\ linked'[a] # None => a = c
    BY <2>2, <2>3 DEF LinkInv
  <2>6. playerLinkRequiresRegistration' =>
          \A a \in Bindings : linked'[a] # None => game_accounts[linked'[a]] = a
    BY <2>1, <2>2 DEF LinkInv
  <2> QED BY <2>4, <2>5, <2>6 DEF LinkInv
<1>4. CASE UNCHANGED bindings
  BY <1>4 DEF LinkInv, bindings
<1>5. \/ UNCHANGED bindings
      \/ \E b \in Bindings : \/ upsertBinding(b)
                             \/ unlinkAndRevoke(b)
                             \/ \E p \in Players : setPlayerLink(b, p)
  BY DEF Next, vars, claimIntent, claimConfirmation, ingestOne, sealEpoch, Tick
<1> QED BY <1>1, <1>2, <1>3, <1>4, <1>5

LEMMA NextRows == TypeOK /\ LinkInv /\ RowInv /\ [Next]_vars => RowInv'
<1> SUFFICES ASSUME TypeOK, LinkInv, RowInv, [Next]_vars PROVE RowInv'
  OBVIOUS
<1>0. playerLinkRequiresRegistration' = playerLinkRequiresRegistration
  BY DEF Next, vars, bindings, upsertBinding, unlinkAndRevoke, setPlayerLink, claimIntent,
         claimConfirmation, ingestOne, sealEpoch, Tick
<1>1. CASE UNCHANGED events
  BY <1>0, <1>1 DEF RowInv, Accepted, events
<1>2. ASSUME NEW e \in Events, NEW w \in Bindings \cup {None}, NEW s \in Signatures,
             ingestOne(e, w, s)
      PROVE  RowInv'
  <2>1. (UNCHANGED events) \/ Rejecting(e) \/ Accepting(e, w)
    BY <1>2, IngestCases
  <2>2. CASE Rejecting(e)
    <3>1. Accepted' = Accepted /\ UNCHANGED <<wallet, reward_epoch, ingested_at>>
      BY <2>2, AcceptedRows DEF Rejecting
    <3> QED BY <1>0, <3>1 DEF RowInv
  <2>3. CASE Accepting(e, w)
    <3>1. Accepted' = Accepted \cup {e} /\ e \notin Accepted /\ Accepted \subseteq Events
      BY <2>3, AcceptedRows DEF Accepted
    <3>2. /\ wallet'[e] = ResolvedBinding(e, w)
          /\ reward_epoch'[e] = now \div epochMs /\ ingested_at'[e] = now
          /\ \A x \in Accepted : /\ wallet'[x] = wallet[x] /\ reward_epoch'[x] = reward_epoch[x]
                                 /\ ingested_at'[x] = ingested_at[x]
      BY <2>3, <3>1 DEF Accepting, TypeOK, currentEpoch
    <3>3. ASSUME playerLinkRequiresRegistration, wallet'[e] # None
          PROVE  game_accounts[player_id[e]] = wallet'[e]
      <4>1. wallet'[e] \in findActiveByPlayerId(player_id[e])
        BY <2>3, <3>2, <3>3, ResolvedType DEF Accepting
      <4>2. player_id[e] # None
        BY EventAssumption
      <4> QED BY <3>3, <4>1, <4>2 DEF findActiveByPlayerId, LinkInv
    <3> QED BY <1>0, <3>1, <3>2, <3>3 DEF RowInv
  <2> QED BY <1>1, <2>1, <2>2, <2>3
<1>3. \/ UNCHANGED events
      \/ \E e \in Events, w \in Bindings \cup {None}, s \in Signatures : ingestOne(e, w, s)
  BY DEF Next, vars, upsertBinding, unlinkAndRevoke, setPlayerLink, claimIntent,
         claimConfirmation, sealEpoch, Tick
<1> QED BY <1>1, <1>2, <1>3

\* Epochs are opened by ingestion and sealed by sealing.
LEMMA IngestEpochs ==
  ASSUME TypeOK, NEW e \in Events, NEW w \in Bindings \cup {None}, NEW s \in Signatures,
         ingestOne(e, w, s), NEW x \in Epochs
  PROVE  /\ epoch_state'[x] = "sealed" <=> epoch_state[x] = "sealed"
         /\ leaves' = leaves
<1>1. /\ epoch_state' = [epoch_state EXCEPT ![currentEpoch] = currentState]
      /\ leaves' = leaves
  BY IngestCases
<1> QED BY <1>1 DEF TypeOK, currentState

LEMMA NextLeaves == TypeOK /\ LeafInv /\ [Next]_vars => LeafInv'
<1> SUFFICES ASSUME TypeOK, LeafInv, [Next]_vars PROVE LeafInv'
  OBVIOUS
<1>1. CASE UNCHANGED epochs
  BY <1>1 DEF LeafInv, epochs
<1>2. ASSUME NEW e \in Events, NEW w \in Bindings \cup {None}, NEW s \in Signatures,
             ingestOne(e, w, s)
      PROVE  LeafInv'
  BY <1>2, IngestEpochs DEF LeafInv
<1>3. ASSUME NEW ep \in Epochs, sealEpoch(ep) PROVE LeafInv'
  <2>1. epoch_state' = [epoch_state EXCEPT ![ep] = "sealed"]
    BY <1>3 DEF sealEpoch
  <2>2. \A x \in Epochs : x # ep => leaves'[x] = leaves[x] /\ epoch_state'[x] = epoch_state[x]
    BY <1>3, <2>1, SealWrites DEF TypeOK
  <2>3. epoch_state'[ep] = "sealed"
    BY <2>1 DEF TypeOK
  <2> QED BY <2>2, <2>3 DEF LeafInv
<1>4. \/ UNCHANGED epochs
      \/ \E e \in Events, w \in Bindings \cup {None}, s \in Signatures : ingestOne(e, w, s)
      \/ \E ep \in Epochs : sealEpoch(ep)
  BY DEF Next, vars, upsertBinding, unlinkAndRevoke, setPlayerLink, claimIntent,
         claimConfirmation, Tick
<1> QED BY <1>1, <1>2, <1>3, <1>4

-----------------------------------------------------------------------------
(* Who is paid when an epoch is sealed. *)

\* The binding an accepted event is paid to if its epoch is sealed now.
Payee(e) ==
  IF wallet[e] # None THEN wallet[e]
  ELSE IF findActiveByPlayerId(player_id[e]) = {} THEN None
  ELSE CHOOSE b \in findActiveByPlayerId(player_id[e]) : TRUE

Payees == [e \in Events |-> Payee(e)]
PaidTo(ep, b) == Group(Payees, EventsOf(ep), b)
Payable(ep) == {e \in EventsOf(ep) : wallet[e] # None \/ findActiveByPlayerId(player_id[e]) # {}}

\* The join yields one row per event, credited to its payee.
LEMMA RowIs ==
  ASSUME TypeOK, LinkInv, NEW ep \in Epochs
  PROVE  /\ \A row \in JoinRows(ep) :
              row[1] \in EventsOf(ep) /\ row[1] \in Events /\ Credited(row) = Payee(row[1])
         /\ \A row, other \in JoinRows(ep) : row[1] = other[1] => row = other
         /\ \A e \in EventsOf(ep) : \E row \in JoinRows(ep) : row[1] = e
<1> DEFINE A(e) == findActiveByPlayerId(player_id[e])
           Second(e) == IF A(e) = {} THEN {None} ELSE A(e)
<1>0. EventsOf(ep) \subseteq Events
  BY JoinShape
<1>1. ASSUME NEW e \in EventsOf(ep), NEW a \in A(e), NEW b \in A(e) PROVE a = b
  <2>1. player_id[e] # None
    BY <1>0, EventAssumption
  <2> QED BY <1>1, <2>1 DEF findActiveByPlayerId, LinkInv
<1>2. JoinRows(ep) = UNION {{e} \X Second(e) : e \in EventsOf(ep)}
  BY DEF JoinRows
<1>3. ASSUME NEW row \in JoinRows(ep)
      PROVE  row[1] \in EventsOf(ep) /\ row[2] \in Second(row[1]) /\ row = <<row[1], row[2]>>
  BY <1>2
<1>4. ASSUME NEW e \in EventsOf(ep), NEW x \in Second(e) PROVE <<e, x>> \in JoinRows(ep)
  <2> HIDE DEF Second
  <2> QED BY <1>2
<1>5. ASSUME NEW e \in EventsOf(ep), NEW x \in Second(e), NEW y \in Second(e) PROVE x = y
  BY <1>1
<1>6. ASSUME NEW row \in JoinRows(ep) PROVE Credited(row) = Payee(row[1])
  <2> DEFINE e == row[1]
  <2>1. e \in EventsOf(ep) /\ row[2] \in Second(e)
    BY <1>3
  <2> HIDE DEF e
  <2>2. CASE A(e) = {}
    <3>1. row[2] = None
      BY <2>1, <2>2
    <3> QED BY <2>2, <3>1 DEF Credited, Payee, e
  <2>3. CASE A(e) # {}
    <3>1. row[2] \in A(e) /\ (CHOOSE b \in A(e) : TRUE) \in A(e)
      BY <2>1, <2>3
    <3>2. row[2] = CHOOSE b \in A(e) : TRUE
      BY <1>1, <2>1, <3>1
    <3> QED BY <2>3, <3>2 DEF Credited, Payee, e
  <2> QED BY <2>2, <2>3
<1>7. ASSUME NEW row \in JoinRows(ep), NEW other \in JoinRows(ep), row[1] = other[1]
      PROVE  row = other
  <2> HIDE DEF Second
  <2>1. row[2] = other[2]
    BY <1>3, <1>5, <1>7
  <2> QED BY <1>3, <1>7, <2>1
<1>8. ASSUME NEW e \in EventsOf(ep) PROVE \E row \in JoinRows(ep) : row[1] = e
  <2>1. PICK x : x \in Second(e)
    OBVIOUS
  <2> HIDE DEF Second
  <2>2. <<e, x>> \in JoinRows(ep) /\ <<e, x>>[1] = e
    BY <1>4, <2>1
  <2> QED BY <2>2
<1> QED BY <1>0, <1>3, <1>6, <1>7, <1>8

\* A payee is a binding or none, and none exactly for what nobody can be paid.
LEMMA PayeeType ==
  ASSUME TypeOK, NEW ep \in Epochs, NEW e \in EventsOf(ep)
  PROVE  /\ e \in Events /\ Payees[e] = Payee(e)
         /\ Payee(e) \in Bindings \cup {None}
         /\ Payee(e) # None <=> e \in Payable(ep)
<1>1. e \in Events /\ None \notin Bindings
  BY JoinShape, EventAssumption
<1>2. Payees[e] = Payee(e)
  BY <1>1 DEF Payees
<1>3. findActiveByPlayerId(player_id[e]) \subseteq Bindings
  BY DEF findActiveByPlayerId
<1> QED BY <1>1, <1>2, <1>3 DEF Payee, Payable, TypeOK

\* A new leaf is what its binding is paid: the rows are renamed to their events.
LEMMA LeafIsPaid ==
  ASSUME TypeOK, LinkInv, NEW ep \in Epochs
  PROVE  /\ \A b \in Bindings : b \in DOMAIN SealedLeaves(ep) <=> PaidTo(ep, b) # {}
         /\ \A b \in DOMAIN SealedLeaves(ep) :
              /\ b \in Bindings
              /\ SealedLeaves(ep)[b] = SumOver(amount_micro, PaidTo(ep, b))
<1>1. DOMAIN SealedLeaves(ep) = {Credited(row) : row \in JoinRows(ep)} \ {None}
      /\ DOMAIN SealedLeaves(ep) \subseteq Bindings
  BY SealedLeafIs
<1>2. ASSUME NEW b \in Bindings PROVE b \in DOMAIN SealedLeaves(ep) <=> PaidTo(ep, b) # {}
  <2>1. b # None
    BY EventAssumption
  <2>2. b \in DOMAIN SealedLeaves(ep) <=> \E e \in EventsOf(ep) : Payee(e) = b
    BY <1>1, <2>1, RowIs
  <2>3. PaidTo(ep, b) = {e \in EventsOf(ep) : Payee(e) = b}
    BY PayeeType DEF PaidTo, Group, EntriesOf
  <2> QED BY <2>2, <2>3
<1>3. ASSUME NEW b \in DOMAIN SealedLeaves(ep)
      PROVE  SealedLeaves(ep)[b] = SumOver(amount_micro, PaidTo(ep, b))
  <2> DEFINE R == RowsOf(ep, b)
             c == [row \in R |-> row[1]]
             g == [row \in R |-> amount_micro[row[1]]]
  <2>1. R \subseteq JoinRows(ep)
    BY DEF RowsOf
  <2>2. IsFiniteSet(R)
    BY <2>1, JoinShape, FS_Subset
  <2>3. \A row, other \in R : c[row] = c[other] => row = other
    BY <2>1, RowIs
  <2>4. \A row \in R : g[row] \in Int /\ g[row] = amount_micro[c[row]]
    BY <2>1, RowIs, EventAssumption
  <2>5. ImageOf(c, R) = PaidTo(ep, b)
    <3>1. ImageOf(c, R) = {row[1] : row \in R}
      BY DEF ImageOf
    <3>2. PaidTo(ep, b) = {e \in EventsOf(ep) : Payee(e) = b}
      BY PayeeType DEF PaidTo, Group, EntriesOf
    <3>3. ASSUME NEW e \in EventsOf(ep), Payee(e) = b PROVE \E row \in R : row[1] = e
      <4>1. PICK row \in JoinRows(ep) : row[1] = e
        BY RowIs
      <4>2. Credited(row) = b
        BY <3>3, <4>1, RowIs
      <4> QED BY <4>1, <4>2 DEF RowsOf
    <3>4. ASSUME NEW row \in R PROVE row[1] \in EventsOf(ep) /\ Payee(row[1]) = b
      BY <2>1, RowIs DEF RowsOf
    <3> HIDE DEF R
    <3> QED BY <3>1, <3>2, <3>3, <3>4
  <2>6. SealedLeaves(ep)[b] = SumOver(g, R)
    BY SealedLeafIs
  <2> HIDE DEF R, c, g
  <2>7. SumOver(g, R) = SumOver(amount_micro, ImageOf(c, R))
    BY <2>2, <2>3, <2>4, SumRename
  <2> QED BY <2>5, <2>6, <2>7
<1> QED BY <1>1, <1>2, <1>3

\* Sealing an epoch writes, for every payee, what the payee's events are worth,
\* and together what the payable events are worth.
LEMMA SealPays ==
  ASSUME TypeOK, LinkInv, LeafInv, NEW ep \in Epochs, sealEpoch(ep)
  PROVE  /\ DOMAIN leaves'[ep] \subseteq Bindings
         /\ \A b \in Bindings : b \in DOMAIN leaves'[ep] <=> PaidTo(ep, b) # {}
         /\ \A b \in DOMAIN leaves'[ep] : leaves'[ep][b] = SumMicro(PaidTo(ep, b))
         /\ SumOver(leaves'[ep], DOMAIN leaves'[ep]) = SumMicro(Payable(ep))
<1> DEFINE L == SealedLeaves(ep)
           D == DOMAIN L
           h == leaves'[ep]
<1>1. DOMAIN leaves[ep] = {}
  BY DEF sealEpoch, Sealable, LeafInv
<1>2. h = [b \in D |-> L[b]]
  <2>1. h = [b \in DOMAIN L \cup {} |-> IF b \in DOMAIN L THEN L[b] ELSE leaves[ep][b]]
    BY <1>1, SealWrites
  <2> HIDE DEF L, h
  <2> QED BY <2>1
<1>3. /\ D \subseteq Bindings
      /\ \A b \in Bindings : b \in D <=> PaidTo(ep, b) # {}
      /\ \A b \in D : L[b] = SumOver(amount_micro, PaidTo(ep, b))
  BY LeafIsPaid
<1>4. \A b \in Bindings : SumMicro(PaidTo(ep, b)) = SumOver(amount_micro, PaidTo(ep, b))
  <2>1. \A b : PaidTo(ep, b) \subseteq Events
    BY JoinShape DEF PaidTo, Group, EntriesOf
  <2> QED BY <2>1, SumMicroFacts
<1> HIDE DEF L, h, D
<1>5. DOMAIN h = D /\ \A b \in D : h[b] = SumOver(amount_micro, PaidTo(ep, b))
  BY <1>2, <1>3
<1>6. SumOver(h, D) = SumOver(amount_micro, EntriesOf(Payees, EventsOf(ep), D))
  <2> DEFINE R == EventsOf(ep)
             c == Payees
             f == amount_micro
  <2>1. IsFiniteSet(R)
    BY JoinShape
  <2>2. \A r \in R : f[r] \in Int
    BY JoinShape, EventAssumption
  <2>3. IsFiniteSet(D)
    BY <1>3, EventAssumption, FS_Subset
  <2>4. \A b \in D : h[b] = SumOver(f, Group(c, R, b))
    BY <1>5 DEF PaidTo
  <2> HIDE DEF R, c, f
  <2>5. SumOver(h, D) = SumOver(f, EntriesOf(c, R, D))
    BY <2>1, <2>2, <2>3, <2>4, SumGroups
  <2> QED BY <2>5 DEF R, c, f
<1>7. EntriesOf(Payees, EventsOf(ep), D) = Payable(ep)
  <2>1. EntriesOf(Payees, EventsOf(ep), D) = {e \in EventsOf(ep) : Payee(e) \in D}
    BY PayeeType DEF EntriesOf
  <2>2. ASSUME NEW e \in EventsOf(ep) PROVE Payee(e) \in D <=> e \in Payable(ep)
    <3>1. ASSUME Payee(e) # None PROVE Payee(e) \in D
      <4>1. Payee(e) \in Bindings /\ e \in PaidTo(ep, Payee(e))
        BY <3>1, PayeeType DEF PaidTo, Group, EntriesOf
      <4> QED BY <1>3, <4>1
    <3>2. None \notin D
      BY <1>3, EventAssumption
    <3> QED BY <3>1, <3>2, PayeeType
  <2>3. Payable(ep) \subseteq EventsOf(ep)
    BY DEF Payable
  <2> QED BY <2>1, <2>2, <2>3
<1>8. SumMicro(Payable(ep)) = SumOver(amount_micro, Payable(ep))
  <2>1. Payable(ep) \subseteq Events
    BY JoinShape DEF Payable
  <2> QED BY <2>1, SumMicroFacts
<1>9. SumOver(h, DOMAIN h) = SumMicro(Payable(ep))
  BY <1>5, <1>6, <1>7, <1>8
<1> QED BY <1>3, <1>4, <1>5, <1>9 DEF h

-----------------------------------------------------------------------------
(* What a step does to a sealed epoch. *)

LEMMA SumLeavesIs ==
  ASSUME NEW ep
  PROVE  /\ SumLeaves(ep) = SumOver(leaves[ep], DOMAIN leaves[ep])
         /\ SumLeaves(ep)' = SumOver(leaves'[ep], DOMAIN leaves'[ep])
<1>1. SumLeaves(ep) = SumOver(leaves[ep], DOMAIN leaves[ep])
  BY DEF SumLeaves, SumOver
<1>2. (SumLeaves(ep) = SumOver(leaves[ep], DOMAIN leaves[ep]))'
  BY <1>1, PTL
<1> QED BY <1>1, <1>2

\* An epoch sealed after a step was sealed by the step, or before it and then
\* neither its leaves nor its accepted rows changed.
LEMMA SealedStep ==
  ASSUME TypeOK, [Next]_vars, NEW ep \in Epochs, epoch_state'[ep] = "sealed"
  PROVE  \/ sealEpoch(ep)
         \/ /\ epoch_state[ep] = "sealed" /\ leaves'[ep] = leaves[ep]
            /\ EventsOf(ep)' = EventsOf(ep)
            /\ \A e \in EventsOf(ep) : wallet'[e] = wallet[e]
<1> DEFINE Kept == /\ epoch_state[ep] = "sealed" /\ leaves'[ep] = leaves[ep]
                   /\ EventsOf(ep)' = EventsOf(ep)
                   /\ \A e \in EventsOf(ep) : wallet'[e] = wallet[e]
<1>1. ASSUME UNCHANGED events, UNCHANGED epochs PROVE Kept
  BY <1>1 DEF events, epochs, EventsOf, Accepted
<1>2. ASSUME NEW b \in Bindings, upsertBinding(b) \/ unlinkAndRevoke(b) PROVE Kept
  BY <1>1, <1>2 DEF upsertBinding, unlinkAndRevoke
<1>3. ASSUME NEW b \in Bindings, NEW p \in Players, setPlayerLink(b, p) PROVE Kept
  BY <1>1, <1>3 DEF setPlayerLink
<1>4. ASSUME NEW b \in Bindings, NEW x \in Epochs, claimIntent(b, x) PROVE Kept
  BY <1>1, <1>4 DEF claimIntent
<1>5. ASSUME NEW b \in Bindings, NEW x \in Epochs, NEW r \in Reports, claimConfirmation(b, x, r)
      PROVE  Kept
  BY <1>1, <1>5 DEF claimConfirmation
<1>6. ASSUME NEW e \in Events, NEW w \in Bindings \cup {None}, NEW s \in Signatures,
             ingestOne(e, w, s)
      PROVE  Kept
  <2>1. epoch_state[ep] = "sealed" /\ leaves'[ep] = leaves[ep]
    BY <1>6, IngestEpochs
  <2>2. CASE UNCHANGED events
    BY <2>1, <2>2 DEF events, EventsOf, Accepted
  <2>3. CASE Rejecting(e)
    <3>1. Accepted' = Accepted /\ UNCHANGED <<wallet, reward_epoch>>
      BY <2>3, AcceptedRows DEF Rejecting
    <3> QED BY <2>1, <3>1 DEF EventsOf
  <2>4. CASE Accepting(e, w)
    <3>1. Accepted' = Accepted \cup {e} /\ e \notin Accepted /\ Accepted \subseteq Events
      BY <2>4, AcceptedRows DEF Accepted
    <3>2. currentEpoch # ep
      BY <2>1, <2>4 DEF Accepting, currentState
    <3>3. reward_epoch'[e] = currentEpoch
      BY <2>4 DEF Accepting, TypeOK
    <3>4. \A x \in Accepted : reward_epoch'[x] = reward_epoch[x] /\ wallet'[x] = wallet[x]
      BY <2>4, <3>1 DEF Accepting, TypeOK
    <3>5. EventsOf(ep)' = EventsOf(ep)
      BY <3>1, <3>2, <3>3, <3>4 DEF EventsOf
    <3>6. \A x \in EventsOf(ep) : wallet'[x] = wallet[x]
      BY <3>4 DEF EventsOf
    <3> QED BY <2>1, <3>5, <3>6
  <2> QED BY <1>6, <2>2, <2>3, <2>4, IngestCases
<1>7. ASSUME NEW x \in Epochs, sealEpoch(x), x # ep PROVE Kept
  <2>1. leaves'[ep] = leaves[ep]
    BY <1>7, SealWrites
  <2>2. epoch_state[ep] = "sealed"
    BY <1>7 DEF sealEpoch, TypeOK
  <2>3. UNCHANGED events
    BY <1>7 DEF sealEpoch
  <2> QED BY <2>1, <2>2, <2>3 DEF events, EventsOf, Accepted
<1>8. ASSUME Tick \/ UNCHANGED vars PROVE Kept
  BY <1>1, <1>8 DEF Tick, vars
<1> QED
  <2> HIDE DEF Kept
  <2>1. sealEpoch(ep) \/ Kept
    BY <1>2, <1>3, <1>4, <1>5, <1>6, <1>7, <1>8 DEF Next
  <2> QED BY <2>1 DEF Kept

-----------------------------------------------------------------------------
(* A sealed tree agrees with the accepted events. *)

Bound(ep, b) == {e \in EventsOf(ep) : wallet[e] = b}

Covered(ep) ==
  /\ SumLeaves(ep) <= SumMicro(EventsOf(ep))
  /\ \A b \in Bindings :
       Bound(ep, b) # {} => b \in DOMAIN leaves[ep] /\ leaves[ep][b] >= SumMicro(Bound(ep, b))

LEMMA CoverIs == LeavesCoverEvents <=> \A ep \in SealedEpochs : Covered(ep)
BY DEF LeavesCoverEvents, Covered, Bound

LEMMA InitCover == Init => LeavesCoverEvents
BY DEF Init, LeavesCoverEvents, SealedEpochs

LEMMA NextCover ==
  TypeOK /\ LinkInv /\ LeafInv /\ LeavesCoverEvents /\ [Next]_vars => LeavesCoverEvents'
<1> SUFFICES ASSUME TypeOK, LinkInv, LeafInv, LeavesCoverEvents, [Next]_vars,
                    NEW ep \in Epochs, epoch_state'[ep] = "sealed"
             PROVE  Covered(ep)'
  BY DEF LeavesCoverEvents, Covered, Bound, SealedEpochs
<1>1. CASE sealEpoch(ep)
  <2>1. UNCHANGED events
    BY <1>1 DEF sealEpoch
  <2>2. EventsOf(ep)' = EventsOf(ep) /\ \A b : Bound(ep, b)' = Bound(ep, b)
    BY <2>1 DEF events, EventsOf, Accepted, Bound
  <2>3. SumLeaves(ep)' = SumMicro(Payable(ep))
    BY <1>1, SealPays, SumLeavesIs
  <2>4. SumMicro(Payable(ep)) <= SumMicro(EventsOf(ep))
    BY JoinShape, SumMicroFacts DEF Payable
  <2>5. ASSUME NEW b \in Bindings, Bound(ep, b) # {}
        PROVE  b \in DOMAIN leaves'[ep] /\ leaves'[ep][b] >= SumMicro(Bound(ep, b))
    <3>1. Bound(ep, b) \subseteq PaidTo(ep, b)
      <4>1. b # None
        BY EventAssumption
      <4>2. \A e \in Bound(ep, b) : e \in EventsOf(ep) /\ Payee(e) = b
        BY <4>1 DEF Bound, Payee
      <4> QED BY <4>2, PayeeType DEF PaidTo, Group, EntriesOf
    <3>2. b \in DOMAIN leaves'[ep] /\ leaves'[ep][b] = SumMicro(PaidTo(ep, b))
      BY <1>1, <2>5, <3>1, SealPays
    <3>3. PaidTo(ep, b) \in SUBSET Events
      BY JoinShape DEF PaidTo, Group, EntriesOf
    <3>4. SumMicro(Bound(ep, b)) <= SumMicro(PaidTo(ep, b))
      BY <3>1, <3>3, SumMicroFacts
    <3>5. SumMicro(Bound(ep, b)) \in Nat /\ SumMicro(PaidTo(ep, b)) \in Nat
      BY <3>1, <3>3, SumMicroFacts
    <3> QED BY <3>2, <3>4, <3>5
  <2>6. SumLeaves(ep)' <= SumMicro(EventsOf(ep)')
    BY <2>2, <2>3, <2>4
  <2>7. \A b \in Bindings : Bound(ep, b)' # {} =>
          b \in DOMAIN leaves'[ep] /\ leaves'[ep][b] >= SumMicro(Bound(ep, b)')
    BY <2>2, <2>5
  <2> QED BY <2>6, <2>7 DEF Covered
<1>2. CASE /\ epoch_state[ep] = "sealed" /\ leaves'[ep] = leaves[ep]
           /\ EventsOf(ep)' = EventsOf(ep)
           /\ \A e \in EventsOf(ep) : wallet'[e] = wallet[e]
  <2>1. Covered(ep)
    BY <1>2, CoverIs DEF SealedEpochs
  <2>2. SumLeaves(ep)' = SumLeaves(ep)
    BY <1>2, SumLeavesIs
  <2>3. \A b : Bound(ep, b)' = Bound(ep, b)
    BY <1>2 DEF Bound
  <2>4. SumLeaves(ep)' <= SumMicro(EventsOf(ep)')
    BY <1>2, <2>1, <2>2 DEF Covered
  <2>5. \A b \in Bindings : Bound(ep, b)' # {} =>
          b \in DOMAIN leaves'[ep] /\ leaves'[ep][b] >= SumMicro(Bound(ep, b)')
    BY <1>2, <2>1, <2>3 DEF Covered
  <2> QED BY <2>4, <2>5 DEF Covered
<1> QED BY <1>1, <1>2, SealedStep

\* The rows are well formed and no accepted event is left out of, and no leaf
\* inflated in, the tree of a sealed epoch (sealEpoch, ingestOne), whatever is
\* linked, revoked or delivered before and after.  The sum of a leaf is the sum
\* of the events of its payee: the join cannot duplicate an event because at
\* most one active binding is linked to a player.
THEOREM LedgerAlwaysConsistent == Spec => []LedgerConsistent
<1> DEFINE IInv == TypeOK /\ LinkInv /\ LeafInv /\ LeavesCoverEvents
<1>1. Init => IInv
  BY InitTypeOK, InitLinks, InitCover
<1>2. IInv /\ [Next]_vars => IInv'
  BY NextTypeOK, NextLinks, NextLeaves, NextCover
<1>3. IInv => LedgerConsistent
  BY DEF LedgerConsistent
<1> QED BY <1>1, <1>2, <1>3, PTL DEF Spec

\* Sealing pays every event somebody can be paid for, and pays it once.
THEOREM EventsArePaidOnce == Spec => EventPaidOnce
<1> DEFINE IInv == TypeOK /\ LinkInv /\ LeafInv
           PaidStep == \A ep \in Epochs :
             epoch_state[ep] # "sealed" /\ epoch_state'[ep] = "sealed" =>
               SumLeaves(ep)' = SumMicro({e \in EventsOf(ep) :
                                  wallet[e] # None \/ findActiveByPlayerId(player_id[e]) # {}})
<1>1. Init => IInv
  BY InitTypeOK, InitLinks
<1>2. IInv /\ [Next]_vars => IInv'
  BY NextTypeOK, NextLinks, NextLeaves
<1>3. IInv /\ [Next]_vars => PaidStep
  <2> SUFFICES ASSUME IInv, [Next]_vars, NEW ep \in Epochs,
                      epoch_state[ep] # "sealed", epoch_state'[ep] = "sealed"
               PROVE  SumLeaves(ep)' = SumMicro(Payable(ep))
    BY DEF Payable
  <2>1. sealEpoch(ep)
    BY SealedStep
  <2> QED BY <2>1, SealPays, SumLeavesIs
<1> QED BY <1>1, <1>2, <1>3, PTL DEF Spec, EventPaidOnce

-----------------------------------------------------------------------------
(* The weekly cap of a leaf. *)

\* No epoch reaches over the end of a week, as with the default of one week.
EpochsWithinWeeks ==
  \A t, u \in 0..MaxTime : t \div epochMs = u \div epochMs => t \div WEEK_MS = u \div WEEK_MS

LEMMA WeeklyEpochs == epochMs = WEEK_MS => EpochsWithinWeeks
BY DEF EpochsWithinWeeks

\* With the setting on, the events paid to one wallet have one player.
LEMMA PayeeRegistered ==
  ASSUME TypeOK, LinkInv, RowInv, playerLinkRequiresRegistration,
         NEW ep \in Epochs, NEW b \in Bindings, NEW e \in PaidTo(ep, b)
  PROVE  /\ e \in Accepted /\ e \in Events /\ reward_epoch[e] = ep
         /\ player_id[e] \in Players /\ game_accounts[player_id[e]] = b
<1>1. e \in EventsOf(ep) /\ Payees[e] = b
  BY DEF PaidTo, Group, EntriesOf
<1>2. Payee(e) = b /\ b # None
  BY <1>1, PayeeType, EventAssumption
<1>3. e \in Accepted /\ e \in Events /\ reward_epoch[e] = ep /\ player_id[e] \in Players
  BY <1>1, EventAssumption DEF EventsOf, Accepted
<1>4. CASE wallet[e] # None
  <2>1. wallet[e] = b
    BY <1>2, <1>4 DEF Payee
  <2> QED BY <1>3, <1>4, <2>1 DEF RowInv
<1>5. CASE wallet[e] = None
  <2>1. b \in findActiveByPlayerId(player_id[e])
    BY <1>2, <1>5 DEF Payee
  <2>2. linked[b] = player_id[e] /\ player_id[e] # None
    BY <1>3, <2>1, EventAssumption DEF findActiveByPlayerId
  <2> QED BY <1>3, <2>2 DEF LinkInv
<1> QED BY <1>3, <1>4, <1>5

LEMMA PaidWithinWeek ==
  ASSUME EpochsWithinWeeks, TypeOK, LinkInv, RowInv, CapsHold, playerLinkRequiresRegistration,
         NEW ep \in Epochs, NEW b \in Bindings, PaidTo(ep, b) # {}
  PROVE  SumMicro(PaidTo(ep, b)) <= capWeeklyMicro
<1>1. PICK first \in PaidTo(ep, b) : TRUE
  OBVIOUS
<1> DEFINE p == player_id[first]
           t == ingested_at[first]
           W == SameWindow(OfPlayer(p), ingested_at, WEEK_MS, t)
<1>2. /\ p \in Players /\ game_accounts[p] = b /\ t \in 0..MaxTime
      /\ t \div epochMs = ep
  BY <1>1, PayeeRegistered DEF TypeOK, RowInv
<1>3. ASSUME NEW e \in PaidTo(ep, b) PROVE e \in W
  <2>1. e \in Accepted /\ e \in Events /\ player_id[e] = p
    BY <1>2, <1>3, PayeeRegistered, EventAssumption
  <2>2. ingested_at[e] \in 0..MaxTime /\ ingested_at[e] \div epochMs = ep
    BY <1>3, PayeeRegistered DEF TypeOK, RowInv
  <2>3. ingested_at[e] \div WEEK_MS = t \div WEEK_MS
    BY <1>2, <2>2 DEF EpochsWithinWeeks
  <2> QED BY <2>1, <2>3 DEF SameWindow, OfPlayer
<1>4. W \in SUBSET Events
  BY DEF SameWindow, OfPlayer, Accepted
<1>5. SumMicro(W) <= capWeeklyMicro
  BY <1>2, CapsAre DEF WindowsHold, SameWindow
<1> HIDE DEF W
<1>6. PaidTo(ep, b) \in SUBSET W
  BY <1>3
<1>7. SumMicro(PaidTo(ep, b)) <= SumMicro(W)
  BY <1>4, <1>6, SumMicroFacts
<1>8. SumMicro(W) \in Nat /\ SumMicro(PaidTo(ep, b)) \in Nat /\ capWeeklyMicro \in Nat
  BY <1>4, <1>6, SumMicroFacts, WindowAssumption
<1> QED BY <1>5, <1>7, <1>8

LEMMA SettingKept == [Next]_vars => playerLinkRequiresRegistration' = playerLinkRequiresRegistration
BY DEF Next, vars, bindings, upsertBinding, setPlayerLink, unlinkAndRevoke, ingestOne, sealEpoch,
       claimIntent, claimConfirmation, Tick

LEMMA NextLeafCap ==
  ASSUME EpochsWithinWeeks
  PROVE  /\ TypeOK /\ LinkInv /\ RowInv /\ LeafInv /\ CapsHold /\ LeafWithinWeeklyCap
         /\ [Next]_vars
         => LeafWithinWeeklyCap'
<1> SUFFICES ASSUME TypeOK, LinkInv, RowInv, LeafInv, CapsHold, LeafWithinWeeklyCap, [Next]_vars,
                    playerLinkRequiresRegistration', NEW ep \in Epochs,
                    epoch_state'[ep] = "sealed", NEW b \in DOMAIN leaves'[ep]
             PROVE  leaves'[ep][b] <= capWeeklyMicro
  BY DEF LeafWithinWeeklyCap, SealedEpochs
<1>1. playerLinkRequiresRegistration
  BY SettingKept
<1>2. CASE sealEpoch(ep)
  <2>1. b \in Bindings /\ PaidTo(ep, b) # {} /\ leaves'[ep][b] = SumMicro(PaidTo(ep, b))
    BY <1>2, SealPays
  <2> QED BY <1>1, <2>1, PaidWithinWeek
<1>3. CASE epoch_state[ep] = "sealed" /\ leaves'[ep] = leaves[ep]
  BY <1>1, <1>3 DEF LeafWithinWeeklyCap, SealedEpochs
<1> QED BY <1>2, <1>3, SealedStep

\* Where no epoch reaches over the end of a week and only registered wallets
\* may be linked (playerLinkRequiresRegistration, config.ts:244), no leaf of a
\* sealed tree is above the weekly cap (rewards.ts:273), although the wallet cap
\* is not checked for events accepted before the wallet was linked: all events
\* of a leaf have one player and one week.
THEOREM LeafNeverAboveCap ==
  ASSUME EpochsWithinWeeks
  PROVE  Spec => []LeafWithinWeeklyCap
<1> DEFINE IInv == TypeOK /\ LinkInv /\ RowInv /\ LeafInv /\ CapsHold /\ LeafWithinWeeklyCap
<1>1. Init => IInv
  <2>1. Init => LeafWithinWeeklyCap
    BY DEF Init, LeafWithinWeeklyCap, SealedEpochs
  <2> QED BY <2>1, InitTypeOK, InitLinks, InitCaps
<1>2. IInv /\ [Next]_vars => IInv'
  BY NextTypeOK, NextLinks, NextRows, NextLeaves, NextCaps, NextLeafCap
<1> QED BY <1>1, <1>2, PTL DEF Spec
=============================================================================
