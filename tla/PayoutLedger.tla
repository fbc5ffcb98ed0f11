---------------------------- MODULE PayoutLedger ----------------------------
(***************************************************************************)
(* What a payout program promises, without vaults, proofs or operators: an *)
(* epoch's total is promised once, a payee is paid at most once per epoch  *)
(* and out of what is left of that epoch, and neither a promise nor a      *)
(* payment is ever revised.  What is left may be released.                 *)
(***************************************************************************)
EXTENDS Integers

CONSTANTS Ids, Payees,  \* epoch ids and the wallets that may be paid
          Amounts       \* totals and payments

VARIABLES promised,     \* promised[e]: the declared total, 0 if none
          left,         \* left[e]: what may still be paid
          paid          \* paid[e][p]: what p received, 0 if nothing

vars == <<promised, left, paid>>

Init ==
  /\ promised = [e \in Ids |-> 0]
  /\ left = [e \in Ids |-> 0]
  /\ paid = [e \in Ids |-> [p \in Payees |-> 0]]

Promise(e, total) ==
  /\ promised[e] = 0
  /\ promised' = [promised EXCEPT ![e] = total]
  /\ left' = [left EXCEPT ![e] = total]
  /\ UNCHANGED paid

Pay(e, p, amount) ==
  /\ promised[e] # 0
  /\ paid[e][p] = 0
  /\ amount <= left[e]
  /\ left' = [left EXCEPT ![e] = @ - amount]
  /\ paid' = [paid EXCEPT ![e][p] = amount]
  /\ UNCHANGED promised

Release(e) ==
  /\ promised[e] # 0
  /\ left' = [left EXCEPT ![e] = 0]
  /\ UNCHANGED <<promised, paid>>

Next ==
  \E e \in Ids :
    \/ \E total \in Amounts \ {0} : Promise(e, total)
    \/ \E p \in Payees, amount \in Amounts \ {0} : Pay(e, p, amount)
    \/ Release(e)

Spec == Init /\ [][Next]_vars
=============================================================================
