--------------------------- MODULE AdminDecisions ---------------------------
(***************************************************************************)
(* The two-person admin workflow: proposals, the decision lock and the     *)
(* execution of an approved proposal (backend/src/admin.ts and             *)
(* withDecisionLock, executeSeal, executeEconomyClose, executeProposal in  *)
(* backend/src/routes.ts), with crashes of the backend process.            *)
(*                                                                         *)
(* A decision request waits in the promise chain, runs its synchronous     *)
(* checks when the chain reaches it, and for an approval then awaits the   *)
(* execution: other handlers run during that await.  The epoch row and the *)
(* proposal row are written by separate statements, so a crash may fall    *)
(* between them.  What is in SQLite survives a crash, the chain does not.  *)
(***************************************************************************)
EXTENDS Integers, Sequences, FiniteSets

CONSTANTS
  Proposals, Requests,     \* proposal ids and decision requests
  Tokens, Superadmins,     \* admin tokens; those that may decide
  singleTokenMode,         \* no distinct operator and superadmin token
  Targets,                 \* <<type, epoch>>: what a proposal asks for
  RewardEpochs,            \* epochs with a reward_epochs row
  None,                    \* NULL
  adminProposalTtlMs, MaxTime,
  MaxCrashes               \* bound on restarts of the backend

ASSUME AdminAssumption ==
  /\ Superadmins \subseteq Tokens
  /\ None \notin Proposals \cup Tokens
  /\ adminProposalTtlMs \in Nat /\ MaxTime \in Nat /\ MaxCrashes \in Nat
  /\ \A t \in Targets : t[1] \in {"seal-reward-epoch", "close-economy-epoch"}

VARIABLES
  status,       \* admin_proposals.status, "none" while there is no row
  target,       \* admin_proposals.type and .params
  proposed_by, decided_by, expires_at,
  produced,     \* produced[t]: None, or the proposal whose execution wrote the
                \* sealed state or the economy_epochs row of t
  ask,          \* what a request asks: <<"approve"|"reject", proposal, token>>
  answer,       \* "idle", "waiting", "ok", "error" or "lost"
  chain,        \* decisionChain: the requests that wait, in order
  running,      \* requests past the lock and in which phase: <<request, phase>>
  now, crashes

proposals == <<status, target, proposed_by, decided_by, expires_at>>
requests == <<ask, answer>>
adminVars == <<proposals, produced, requests, chain, running, now, crashes>>

Phases == {"executing", "produced"}
NoAsk == <<"none", None, None>>

-----------------------------------------------------------------------------
(* Proposal state. *)

effectiveStatus(p) ==
  IF status[p] = "open" /\ now > expires_at[p] THEN "expired" ELSE status[p]

\* The approver differs from the proposer when the role tokens are split.
ApproverAllowed(p, by) == by # proposed_by[p] \/ singleTokenMode

\* open -> terminal only: the admin_proposal_one_way trigger aborts the rest.
Decide(p, st, by) ==
  /\ status[p] = "open"
  /\ status' = [status EXCEPT ![p] = st]
  /\ decided_by' = [decided_by EXCEPT ![p] = by]
  /\ UNCHANGED <<target, proposed_by, expires_at>>

AdminInit ==
  /\ status = [p \in Proposals |-> "none"]
  /\ target = [p \in Proposals |-> None]
  /\ proposed_by = [p \in Proposals |-> None]
  /\ decided_by = [p \in Proposals |-> None]
  /\ expires_at = [p \in Proposals |-> 0]
  /\ produced = [t \in Targets |-> None]
  /\ ask = [r \in Requests |-> NoAsk]
  /\ answer = [r \in Requests |-> "idle"]
  /\ chain = <<>>
  /\ running = {}
  /\ now = 0 /\ crashes = 0

createProposal(p, by, t) ==
  /\ status[p] = "none"
  /\ status' = [status EXCEPT ![p] = "open"]
  /\ target' = [target EXCEPT ![p] = t]
  /\ proposed_by' = [proposed_by EXCEPT ![p] = by]
  /\ expires_at' = [expires_at EXCEPT ![p] = now + adminProposalTtlMs]
  /\ UNCHANGED <<decided_by, produced, requests, chain, running, now, crashes>>

-----------------------------------------------------------------------------
(* The lock and the decisions behind it. *)

\* requireAdmin(ctx, "superadmin").
MayDecide(by) == by \in Superadmins

\* POST .../approve and .../reject append to the chain.
withDecisionLock(r, op, p, by) ==
  /\ answer[r] = "idle"
  /\ MayDecide(by)
  /\ ask' = [ask EXCEPT ![r] = <<op, p, by>>]
  /\ answer' = [answer EXCEPT ![r] = "waiting"]
  /\ chain' = Append(chain, r)
  /\ UNCHANGED <<proposals, produced, running, now, crashes>>

\* The head starts when the one before it has settled, well or badly.
ChainReady_unlocked == chain # <<>>
ChainReady_stuck_on_error ==
  chain # <<>> /\ running = {} /\ \A r \in Requests : answer[r] # "error"
ChainReady == chain # <<>> /\ running = {}

Starts(r, op) == ChainReady /\ r = Head(chain) /\ ask[r][1] = op /\ chain' = Tail(chain)

Settle(r, a) == answer' = [answer EXCEPT ![r] = a]

rejectProposal(r) ==
  LET p == ask[r][2]  by == ask[r][3] IN
  /\ Starts(r, "reject")
  /\ \/ effectiveStatus(p) = "open" /\ Decide(p, "rejected", by) /\ Settle(r, "ok")
     \/ effectiveStatus(p) # "open" /\ Settle(r, "error") /\ UNCHANGED proposals
  /\ UNCHANGED <<produced, ask, running, now, crashes>>

\* An approval that ends in its checks: 404, 410, 409 or 403.
ApproveRefused(r) ==
  LET p == ask[r][2]  by == ask[r][3] IN
  /\ Starts(r, "approve")
  /\ \/ status[p] = "open" /\ effectiveStatus(p) = "expired" /\ Decide(p, "expired", by)
     \/ status[p] # "open" /\ UNCHANGED proposals
     \/ effectiveStatus(p) = "open" /\ ~ApproverAllowed(p, by) /\ UNCHANGED proposals
  /\ Settle(r, "error")
  /\ UNCHANGED <<produced, ask, running, now, crashes>>

ApproveStarts(r) ==
  LET p == ask[r][2] IN
  /\ Starts(r, "approve")
  /\ effectiveStatus(p) = "open" /\ ApproverAllowed(p, ask[r][3])
  /\ running' = running \cup {<<r, "executing">>}
  /\ UNCHANGED <<proposals, produced, requests, now, crashes>>

\* executeProposal's effect: the epoch is sealed or closed if it was not yet
\* (sealEpoch's state check, the primary key of economy_epochs).
MayProduce_repeatable(t) ==
  t[1] = "seal-reward-epoch" => t[2] \in RewardEpochs
MayProduce(t) ==
  /\ produced[t] = None
  /\ t[1] = "seal-reward-epoch" => t[2] \in RewardEpochs

ExecuteSucceeds(r) ==
  LET p == ask[r][2] IN
  /\ <<r, "executing">> \in running
  /\ MayProduce(target[p])
  /\ produced' = [produced EXCEPT ![target[p]] = p]
  /\ running' = (running \ {<<r, "executing">>}) \cup {<<r, "produced">>}
  /\ UNCHANGED <<proposals, requests, chain, now, crashes>>

\* Already sealed or closed; a close may also fail on the RPC reads or for
\* want of ticketed winners.  The proposal stays open.
ExecuteFails(r) ==
  LET t == target[ask[r][2]] IN
  /\ <<r, "executing">> \in running
  /\ ~MayProduce(t) \/ t[1] = "close-economy-epoch"
  /\ running' = running \ {<<r, "executing">>}
  /\ Settle(r, "error")
  /\ UNCHANGED <<proposals, produced, ask, chain, now, crashes>>

\* The status update after the execution; the trigger may abort it.
ApproveFinishes(r) ==
  LET p == ask[r][2]  by == ask[r][3] IN
  /\ <<r, "produced">> \in running
  /\ running' = running \ {<<r, "produced">>}
  /\ \/ Decide(p, "executed", by) /\ Settle(r, "ok")
     \/ status[p] # "open" /\ Settle(r, "error") /\ UNCHANGED proposals
  /\ UNCHANGED <<produced, ask, chain, now, crashes>>

\* The process restarts: waiting and running requests are never answered.
Crash ==
  /\ crashes < MaxCrashes
  /\ crashes' = crashes + 1
  /\ answer' = [r \in Requests |-> IF answer[r] = "waiting" THEN "lost" ELSE answer[r]]
  /\ chain' = <<>> /\ running' = {}
  /\ UNCHANGED <<proposals, produced, ask, now>>

Tick ==
  /\ now < MaxTime
  /\ now' = now + 1
  /\ UNCHANGED <<proposals, produced, requests, chain, running, crashes>>

Decision(r) ==
  \/ rejectProposal(r) \/ ApproveRefused(r) \/ ApproveStarts(r)
  \/ ExecuteSucceeds(r) \/ ExecuteFails(r) \/ ApproveFinishes(r)

AdminNext ==
  \/ \E p \in Proposals, by \in Tokens, t \in Targets : createProposal(p, by, t)
  \/ \E r \in Requests, op \in {"approve", "reject"}, p \in Proposals, by \in Tokens :
       withDecisionLock(r, op, p, by)
  \/ \E r \in Requests : Decision(r)
  \/ Crash
  \/ Tick

\* Node runs a ready continuation, and an RPC call returns or times out.
Fairness == \A r \in Requests : WF_adminVars(Decision(r))

AdminSpec == AdminInit /\ [][AdminNext]_adminVars /\ Fairness

-----------------------------------------------------------------------------
(* Properties. *)

AdminTypeOK ==
  /\ status \in [Proposals -> {"none", "open", "executed", "rejected", "expired"}]
  /\ target \in [Proposals -> Targets \cup {None}]
  /\ proposed_by \in [Proposals -> Tokens \cup {None}]
  /\ decided_by \in [Proposals -> Superadmins \cup {None}]
  /\ expires_at \in [Proposals -> Nat]
  /\ produced \in [Targets -> Proposals \cup {None}]
  /\ ask \in [Requests -> {"none", "approve", "reject"}
                          \X (Proposals \cup {None}) \X (Superadmins \cup {None})]
  /\ answer \in [Requests -> {"idle", "waiting", "ok", "error", "lost"}]
  /\ chain \in Seq(Requests)
  /\ running \subseteq Requests \X Phases
  /\ now \in 0..MaxTime /\ crashes \in 0..MaxCrashes

\* A proposal that reads executed wrote its epoch itself, and was approved by
\* somebody other than its proposer when the tokens are split.
ExecutedByProposal ==
  \A p \in Proposals : status[p] = "executed" =>
    /\ produced[target[p]] = p
    /\ decided_by[p] # proposed_by[p] \/ singleTokenMode

\* An epoch is sealed or closed by one execution and never again.
ProducedOnce ==
  [][\A t \in Targets : produced[t] # None => produced'[t] = produced[t]]_adminVars

\* Approve and reject exclude each other across the awaits of an execution: a
\* rejected or expired proposal did not seal or close anything: "Marks the
\* proposal rejected without executing" (docs/API.md:203). A restart between
\* the execution and the status update is the exception.
RejectedNotExecuted ==
  crashes = 0 => \A t \in Targets :
    produced[t] # None => status[produced[t]] \notin {"rejected", "expired"}

\* The status of a proposal tells what happened to its epoch.
StatusIsTrue == AdminTypeOK /\ ExecutedByProposal /\ RejectedNotExecuted

\* A failed decision does not block the next one: every queued decision is
\* answered, or lost in a restart.
EveryDecisionAnswered ==
  \A r \in Requests : answer[r] = "waiting" ~> answer[r] # "waiting"
=============================================================================
