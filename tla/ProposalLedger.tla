---------------------------- MODULE ProposalLedger ----------------------------
(***************************************************************************)
(* The review of proposals in the local store: creation by the MCP server, *)
(* freshness proofs, human quorum, policy approval under daily limits and  *)
(* rejection (packages/proposal-store/src/sqlite-proposal-methods.ts, with *)
(* its callers in packages/mcp-server and apps/runner), and the moves that *)
(* execution makes with the same proposals.state column.  Governance is    *)
(* local: a cloud-linked runner refuses these operations.                  *)
(*                                                                         *)
(* Several processes share the store file.  A transaction is one action; a *)
(* method that checks the proposal before its transaction is two, and the  *)
(* client keeps what it read in its session.  GuardedWriteback details the *)
(* execution that is a few steps here, and WorkerQueue the queue rows that *)
(* further restrict when a worker or an operator moves a proposal.         *)
(*                                                                         *)
(* Left to nondeterminism: what a freshness check finds, and every refusal *)
(* that writes nothing (roles, signatures, a proof whose validity ended, a *)
(* tripped limit): the client's session just ends.                         *)
(***************************************************************************)
EXTENDS Integers, FiniteSets, Sequences

CONSTANTS
  Proposals,   \* proposals of one tenant and capability, in review mode
  ObjectOf,    \* the business object each proposal is about
  Clients,     \* processes: MCP server calls, CLI commands, workers
  Reviewers,   \* operator identities
  Policy,      \* the approver `policy:<name>'
  NoProposal,  \* no proposal: an idle client
  Required,    \* approval.required_approvals
  Qualifies,   \* proposals whose patch meets the rules of the policy
  Amount,      \* the patched field that the policy's total limit sums up
  CountLimit,  \* LIMIT n PER DAY
  TotalLimit,  \* LIMIT TOTAL n PER DAY
  Freshness,   \* TRUE: proposals carry a freshness authority
  Reviewed,    \* bound: proposals that operators and workers act on
  MaxProofs,   \* bound: freshness proofs per proposal
  MaxDay       \* bound: UTC days

ASSUME LedgerAssumption ==
  /\ IsFiniteSet(Reviewers)
  /\ IsFiniteSet(Proposals)
  /\ Policy \notin Reviewers
  /\ NoProposal \notin Proposals
  /\ Required \in [Proposals -> Nat \ {0}]
  /\ Qualifies \cup Reviewed \subseteq Proposals
  /\ Amount \in [Proposals -> Nat]
  /\ {CountLimit, TotalLimit, MaxProofs, MaxDay} \subseteq Nat
  /\ Freshness \in BOOLEAN

VARIABLES
  state,      \* proposals.state, "absent" before the row exists
  decisions,  \* the approvals rows of each proposal
  proofs,     \* results of the recorded freshness proofs, oldest first
  jobs,       \* proposals for which an execution was prepared
  session,    \* what each client has read and is about to do
  day         \* the current UTC day

vars == <<state, decisions, proofs, jobs, session, day>>

-----------------------------------------------------------------------------

States ==
  {"absent", "pending_review", "approved", "pending_worker", "rejected",
   "canceled", "applied", "conflict", "failed", "reconciliation_required"}

\* state IN (...) of findActiveProposal.
ActiveStates == {"pending_review", "approved", "pending_worker"}

ProofResults == {"fresh", "stale", "unavailable"}

Approvers == Reviewers \cup {Policy}

Decision == [by : Approvers, status : {"approved", "rejected"}, proof : Nat, day : Nat]

Ops == {"none", "create", "check", "approve", "reject", "job", "verify",
        "execute", "cancel", "requeue"}

\* by: who decides; seen: the state read before the transaction; proof: the
\* freshness proof presented; day: the clock when the call began.
Session == [op : Ops, p : Proposals \cup {NoProposal}, by : Approvers,
            seen : States, proof : Nat, day : Nat]

NoSession == [op |-> "none", p |-> NoProposal, by |-> Policy, seen |-> "absent",
              proof |-> 0, day |-> 0]

Init ==
  /\ state = [p \in Proposals |-> "absent"]
  /\ decisions = [p \in Proposals |-> {}]
  /\ proofs = [p \in Proposals |-> << >>]
  /\ jobs = {}
  /\ session = [c \in Clients |-> NoSession]
  /\ day = 0

Doing(c, op) == session[c].op = op
Ends(c) == session' = [session EXCEPT ![c] = NoSession]

\* A client starts an operation with what it reads now.
Begins(c, op, p, by) ==
  /\ Doing(c, "none")
  /\ session' = [session EXCEPT ![c] = [op |-> op, p |-> p, by |-> by, seen |-> state[p],
                                         proof |-> 0, day |-> 0]]
  /\ UNCHANGED <<state, decisions, proofs, jobs, day>>

\* The client crashes, gives up, or its operation is refused.
Abandon(c) ==
  /\ ~Doing(c, "none")
  /\ Ends(c)
  /\ UNCHANGED <<state, decisions, proofs, jobs, day>>

-----------------------------------------------------------------------------
(***************************************************************************)
(* Creation.                                                               *)
(***************************************************************************)

\* createProposal looks for an active proposal on the object before its
\* transaction.
BeginCreate(c, p) ==
  /\ state[p] = "absent"
  /\ \A q \in Proposals : ObjectOf[q] = ObjectOf[p] => state[q] \notin ActiveStates
  /\ Begins(c, "create", p, Policy)

\* The insert, after which the tool call goes on with maybeAutoApproveProposal.
CommitCreate(c) ==
  LET p == session[c].p IN
  /\ Doing(c, "create")
  /\ state[p] = "absent"
  /\ state' = [state EXCEPT ![p] = "pending_review"]
  /\ IF p \in Qualifies THEN session' = [session EXCEPT ![c].op = "check"]
                        ELSE Ends(c)
  /\ UNCHANGED <<decisions, proofs, jobs, day>>

-----------------------------------------------------------------------------
(***************************************************************************)
(* Freshness.                                                              *)
(***************************************************************************)

\* Mutants of StateAfterProof: a stale proof only blocks the approval at
\* hand, its result is stored as the state, or it moves any proposal.
StateAfterProofUnmoved(p, result) == state[p]
StateIsProofResult(p, result) == IF result = "stale" THEN result ELSE state[p]
StateConflictWhenStale(p, result) == IF result = "stale" THEN "conflict" ELSE state[p]

\* recordFreshnessProof: a stale proof moves an active proposal to conflict.
StateAfterProof(p, result) ==
  IF result = "stale" /\ state[p] \in ActiveStates THEN "conflict" ELSE state[p]

\* A proof authorizes an approval: the digest is in an approvals row.
ProofUsed(p, n) == \E d \in decisions[p] : d.status = "approved" /\ d.proof = n

LatestProofIsFresh(p) == proofs[p] # << >> /\ proofs[p][Len(proofs[p])] = "fresh"

BeginReview(c, p, r) == state[p] # "absent" /\ Begins(c, "check", p, r)

\* A live check of the source, recorded; anything but fresh ends the review
\* (the CLI asks an unavailable source once more, here a review begun again).
CheckFreshness(c, result) ==
  LET p == session[c].p IN
  /\ Freshness
  /\ Doing(c, "check")
  /\ Len(proofs[p]) < MaxProofs
  /\ proofs' = [proofs EXCEPT ![p] = Append(@, result)]
  /\ state' = [state EXCEPT ![p] = StateAfterProof(p, result)]
  /\ IF result = "fresh"
       THEN session' = [session EXCEPT ![c].op = "approve", ![c].day = day,
                                       ![c].proof = Len(proofs[p]) + 1]
       ELSE Ends(c)
  /\ UNCHANGED <<decisions, jobs, day>>

\* The reviewer presents the latest proof (reusableRecordedFreshness), or the
\* proposal needs none.
PresentProof(c) ==
  LET p == session[c].p
      n == IF Freshness THEN Len(proofs[p]) ELSE 0 IN
  /\ Doing(c, "check")
  /\ Freshness => /\ session[c].by \in Reviewers
                  /\ LatestProofIsFresh(p)
                  /\ ~ProofUsed(p, n)
  /\ session' = [session EXCEPT ![c].op = "approve", ![c].day = day, ![c].proof = n]
  /\ UNCHANGED <<state, decisions, proofs, jobs, day>>

\* Mutant of AssertApprovalFreshness: a used proof is accepted.
AssertFreshnessReusable(p, n) ==
  Freshness => /\ n = Len(proofs[p])
               /\ LatestProofIsFresh(p)

\* assertApprovalFreshness, inside the transaction of the approval: the
\* latest proof, fresh, not used before.
AssertApprovalFreshness(p, n) ==
  Freshness => /\ n = Len(proofs[p])
               /\ LatestProofIsFresh(p)
               /\ ~ProofUsed(p, n)

-----------------------------------------------------------------------------
(***************************************************************************)
(* Decisions.                                                              *)
(***************************************************************************)

\* COUNT(DISTINCT approver) of the approved rows.
ApprovedBy(p) == {d.by : d \in {e \in decisions[p] : e.status = "approved"}}

Record(p, by, status, n, d) ==
  decisions' = [decisions EXCEPT ![p] =
                  @ \cup {[by |-> by, status |-> status, proof |-> n, day |-> d]}]

\* approveProposal checks the state again inside its transaction.
ApproveProposal(c) ==
  LET s == session[c]
      p == s.p IN
  /\ Doing(c, "approve")
  /\ s.by \in Reviewers
  /\ state[p] = "pending_review"
  /\ \A d \in decisions[p] : d.by # s.by
  /\ AssertApprovalFreshness(p, s.proof)
  /\ Record(p, s.by, "approved", s.proof, s.day)
  /\ state' = [state EXCEPT ![p] =
                 IF Cardinality(ApprovedBy(p) \cup {s.by}) >= Required[p]
                   THEN "approved" ELSE @]
  /\ Ends(c)
  /\ UNCHANGED <<proofs, jobs, day>>

\* Proposals that the policy approved on day d.
AutoApproved(d) ==
  {q \in Proposals :
     \E e \in decisions[q] : e.by = Policy /\ e.status = "approved" /\ e.day = d}

\* The sum of the amounts in S, counted one by one.
Total(S) == Cardinality(UNION {{q} \X (1 .. Amount[q]) : q \in S})

\* Mutant of WithinLimits: the proposal at hand is not counted.
WithinLimitsBefore(p, d) ==
  Cardinality(AutoApproved(d)) <= CountLimit /\ Total(AutoApproved(d)) <= TotalLimit

\* The aggregate limits of the policy with p added to the day of the call.
WithinLimits(p, d) ==
  /\ Cardinality(AutoApproved(d)) + 1 <= CountLimit
  /\ Total(AutoApproved(d)) + Amount[p] <= TotalLimit

\* Mutant of QuorumDeferred: the policy stands in for any quorum.
QuorumNeverDeferred(p) == FALSE

\* A quorum of several reviewers is left to humans.
QuorumDeferred(p) == Required[p] > 1

\* approveProposalByPolicy: checks and insert in one transaction, the clock
\* read at some time between the call and the transaction.
ApproveProposalByPolicy(c) ==
  LET s == session[c]
      p == s.p IN
  /\ Doing(c, "approve")
  /\ s.by = Policy
  /\ state[p] = "pending_review"
  /\ ~QuorumDeferred(p)
  /\ AssertApprovalFreshness(p, s.proof)
  /\ \E d \in s.day .. day : /\ WithinLimits(p, d)
                             /\ Record(p, Policy, "approved", s.proof, d)
  /\ state' = [state EXCEPT ![p] = "approved"]
  /\ Ends(c)
  /\ UNCHANGED <<proofs, jobs, day>>

\* rejectProposal checks the state before its transaction ...
BeginReject(c, p, r) ==
  state[p] \in {"pending_review", "approved"} /\ Begins(c, "reject", p, r)

\* ... and writes without looking again.
RejectProposal(c) ==
  LET p == session[c].p IN
  /\ Doing(c, "reject")
  /\ Record(p, session[c].by, "rejected", 0, session[c].day)
  /\ state' = [state EXCEPT ![p] = "rejected"]
  /\ Ends(c)
  /\ UNCHANGED <<proofs, jobs, day>>

-----------------------------------------------------------------------------
(***************************************************************************)
(* What execution does with the proposal's state.                          *)
(***************************************************************************)

\* createWritebackJobFromProposal, or markPendingWorker for a handler.
BeginJob(c, p) ==
  state[p] \in {"approved", "pending_worker"} /\ Begins(c, "job", p, Policy)

\* The state is written as decided before; a handler is called at once, the
\* SQL path verifies the proposal again.
CreateJob(c) ==
  LET p == session[c].p IN
  /\ Doing(c, "job")
  /\ state' = [state EXCEPT ![p] =
                 IF session[c].seen = "approved" THEN "pending_worker" ELSE @]
  /\ jobs' = jobs \cup {p}
  /\ \E op \in {"verify", "execute"} : session' = [session EXCEPT ![c].op = op]
  /\ UNCHANGED <<decisions, proofs, day>>

\* verifyStoredFreshnessApprovalAuthority.
FreshApprovals(p) ==
  /\ Cardinality(ApprovedBy(p)) >= Required[p]
  /\ \A d \in decisions[p] :
       d.status = "approved" => d.proof \in DOMAIN proofs[p] /\ proofs[p][d.proof] = "fresh"

\* verifyLocalWritebackAuthority; refusal is Abandon.
Verify(c) ==
  /\ Doing(c, "verify")
  /\ state[session[c].p] \in {"approved", "pending_worker", "applied"}
  /\ Freshness => FreshApprovals(session[c].p)
  /\ session' = [session EXCEPT ![c].op = "execute"]
  /\ UNCHANGED <<state, decisions, proofs, jobs, day>>

\* recordExecutionReceipt, with any outcome.
RecordReceipt(c, out) ==
  /\ Doing(c, "execute")
  /\ state' = [state EXCEPT ![session[c].p] = out]
  /\ Ends(c)
  /\ UNCHANGED <<decisions, proofs, jobs, day>>

\* reconcileWritebackIntent records the receipt of an execution that was
\* prepared, whoever's it was (GuardedWriteback has the intent's own status).
Reconcile(p, out) ==
  /\ p \in jobs
  /\ state' = [state EXCEPT ![p] = out]
  /\ UNCHANGED <<decisions, proofs, jobs, session, day>>

\* claimWorkerItem takes up a failed proposal again, in one transaction.
ClaimFailed(p) ==
  /\ state[p] = "failed"
  /\ state' = [state EXCEPT ![p] = "pending_worker"]
  /\ UNCHANGED <<decisions, proofs, jobs, session, day>>

\* cancelWorkerItem and requeueDeadLetter move the proposal if the state read
\* before their transaction allows it.
BeginQueueMove(c, p) ==
  \/ state[p] \in {"approved", "pending_worker"} /\ Begins(c, "cancel", p, Policy)
  \/ state[p] = "failed" /\ Begins(c, "requeue", p, Policy)

CommitQueueMove(c) ==
  /\ session[c].op \in {"cancel", "requeue"}
  /\ state' = [state EXCEPT ![session[c].p] =
                 IF Doing(c, "cancel") THEN "canceled" ELSE "approved"]
  /\ Ends(c)
  /\ UNCHANGED <<decisions, proofs, jobs, day>>

NextDay ==
  /\ day < MaxDay
  /\ day' = day + 1
  /\ UNCHANGED <<state, decisions, proofs, jobs, session>>

-----------------------------------------------------------------------------

Receipts == {"applied", "conflict", "failed", "reconciliation_required"}

Commit(c) ==
  \/ CommitCreate(c)
  \/ \E result \in ProofResults : CheckFreshness(c, result)
  \/ PresentProof(c)
  \/ ApproveProposal(c)
  \/ ApproveProposalByPolicy(c)
  \/ RejectProposal(c)
  \/ CreateJob(c)
  \/ Verify(c)
  \/ \E out \in Receipts : RecordReceipt(c, out)
  \/ CommitQueueMove(c)
  \/ Abandon(c)

Begin(c, p) ==
  \/ \E r \in Reviewers : BeginReview(c, p, r) \/ BeginReject(c, p, r)
  \/ BeginJob(c, p)
  \/ BeginQueueMove(c, p)

Next ==
  \/ \E c \in Clients :
       \/ \E p \in Proposals : BeginCreate(c, p)
       \/ \E p \in Reviewed : Begin(c, p)
       \/ Commit(c)
  \/ \E p \in Proposals : ClaimFailed(p)
  \/ \E p \in Proposals, out \in Receipts \ {"reconciliation_required"} : Reconcile(p, out)
  \/ NextDay

Spec == Init /\ [][Next]_vars

-----------------------------------------------------------------------------
(***************************************************************************)
(* Properties.                                                             *)
(***************************************************************************)

\* Every variable keeps to its columns.
TypeOK ==
  /\ state \in [Proposals -> States]
  /\ decisions \in [Proposals -> SUBSET Decision]
  /\ proofs \in [Proposals -> Seq(ProofResults)]
  /\ jobs \subseteq Proposals
  /\ session \in [Clients -> Session]
  /\ day \in Nat

\* States in which a proposal may be executed or has been.
ReleasedStates ==
  {"approved", "pending_worker", "applied", "failed", "reconciliation_required"}

\* Enough distinct reviewers approved, or the policy did where one approval
\* is all that is required.
Authorized(p) ==
  \/ Cardinality(ApprovedBy(p) \cap Reviewers) >= Required[p]
  \/ Required[p] = 1 /\ Policy \in ApprovedBy(p)

\* Whatever decisions, stale reads, requeues and late jobs interleave, no
\* proposal is released for execution, or executed, without its quorum.
QuorumBeforeExecution ==
  \A p \in Proposals : state[p] \in ReleasedStates \/ p \in jobs => Authorized(p)

\* Every approval rests on a freshness proof of its own that said fresh.
ProofAuthorizesOnce ==
  Freshness =>
    \A p \in Proposals :
      \A d, e \in {f \in decisions[p] : f.status = "approved"} :
        /\ d.proof \in DOMAIN proofs[p] /\ proofs[p][d.proof] = "fresh"
        /\ d.proof = e.proof => d = e

\* A reviewer rejected the proposal, or its source was found changed.
Stopped(p) ==
  \/ \E d \in decisions[p] : d.status = "rejected"
  \/ \E i \in DOMAIN proofs[p] : proofs[p][i] = "stale"

\* After a rejection or a stale proof no further approval is recorded, from
\* whatever earlier check a client comes.
NoApprovalAfterStop ==
  [][\A p \in Proposals : Stopped(p) => ApprovedBy(p)' = ApprovedBy(p)]_vars

\* On no day does the policy approve more proposals, or a higher total, than
\* its reviewed limits, also across midnight and with concurrent servers.
PolicyDailyLimit ==
  \A d \in 0 .. day :
    Cardinality(AutoApproved(d)) <= CountLimit /\ Total(AutoApproved(d)) <= TotalLimit

\* Rejected, with no job and with no process left that found the proposal in
\* another state and is going to write one.
RejectedForGood(p) ==
  /\ state[p] = "rejected" /\ p \notin jobs
  /\ \A c \in Clients : session[c].p = p => session[c].op \notin {"job", "cancel", "requeue"}

\* A rejection is terminal once the processes that overlapped it are done,
\* whatever reviews, proofs and approvals are still under way.  (During the
\* overlap it is not: CreateJob overwrites it.)
RejectionSettles ==
  [][\A p \in Proposals : RejectedForGood(p) => RejectedForGood(p)']_vars
=============================================================================
