------------------------------ MODULE WorkerQueue ------------------------------
(***************************************************************************)
(* The worker queue of the proposal store: one row per proposal, claimed   *)
(* under a lease by worker processes and closed, retried or parked by      *)
(* them (packages/proposal-store/src/sqlite-worker-methods.ts).            *)
(*                                                                         *)
(* Every method body runs in one BEGIN IMMEDIATE transaction and is one    *)
(* action here.  The store file is shared by several processes, so a read  *)
(* that a method makes BEFORE its transaction can be stale inside it: such *)
(* a method is two actions, Begin (the read, kept in `call') and Commit.   *)
(* So is a renewal, which compares the expiry with a clock read before its *)
(* transaction: HoldsActiveLease is evaluated by the modules that use it   *)
(* at that reading, RenewWorkerLease when the lock is obtained.  A claim   *)
(* reads its clock early as well, and then only counts more leases and     *)
(* completions and finds fewer candidates than at the commit.              *)
(*                                                                         *)
(* Clocks are abstracted to what the code decides with them: whether a     *)
(* lease has expired (`live'), whether a proposal is older than its TTL    *)
(* (`aged') and whether a completion lies in the rate window (`recent').   *)
(* A due time (next_attempt_at) is taken to arrive at once.                *)
(***************************************************************************)
EXTENDS Integers, FiniteSets

CONSTANTS
  Proposals,      \* proposals of one capability, tenant and contract digest
  Workers,        \* worker processes, by worker id
  NoWorker,       \* the NULL of lease_owner
  NoProposal,     \* no proposal: an idle caller
  Supervised,     \* execution_mode: TRUE supervised_worker, FALSE legacy
  MaxAttempts,    \* max_attempts of a new row
  RetryBudget,    \* the retry budget an operator gives a requeued row
  QueueLimit,     \* queue_limit of the supervised policy
  MaxConcurrent,  \* concurrency of the supervised policy
  RateLimit,      \* rate_limit.executions of the supervised policy
  MaxLeases,      \* bound: leases ever issued for one proposal
  Calls           \* bound: the CallOps that store clients make

ASSUME QueueAssumption ==
  /\ IsFiniteSet(Proposals)
  /\ NoWorker \notin Workers
  /\ NoProposal \notin Proposals
  /\ Supervised \in BOOLEAN
  /\ {MaxAttempts, RetryBudget, QueueLimit, MaxConcurrent, RateLimit, MaxLeases}
       \subseteq Nat \ {0}
  /\ Calls \subseteq {"enqueue", "cancel", "requeue"}

VARIABLES
  pstate,   \* proposals.state
  queue,    \* the worker_queue row of each proposal
  issued,   \* number of leases issued per proposal; lease ids are 1..issued
  aged,     \* proposals older than the reviewed TTL
  recent,   \* proposals completed inside the current rate window
  call      \* a store client between the read and the transaction of a method

queueVars == <<pstate, queue, issued, aged, recent, call>>

-----------------------------------------------------------------------------

States ==
  {"approved", "pending_worker", "applied", "conflict", "failed", "canceled",
   "reconciliation_required"}

Statuses ==
  {"absent", "queued", "leased", "retry_wait", "completed", "dead_letter",
   "blocked", "reconciliation_required", "cancelled", "discarded"}

\* safe_error_code, by the class that finishWorkerFailure tells apart.
Codes == {"none", "retryable", "unknown", "exec", "fatal", "held"}

Outcomes ==
  {"none", "applied", "already_applied", "conflict", "dead_letter", "blocked",
   "reconciliation_required", "cancelled", "discarded"}

Row == [status : Statuses, owner : Workers \cup {NoWorker}, lease : Nat,
        live : BOOLEAN, attempts : Nat, budget : Nat, error : Codes,
        outcome : Outcomes]

CallOps == {"enqueue", "cancel", "requeue"}

NoRow == [status |-> "absent", owner |-> NoWorker, lease |-> 0, live |-> FALSE,
          attempts |-> 0, budget |-> 0, error |-> "none", outcome |-> "none"]

NoCall == [op |-> "none", p |-> NoProposal, moves |-> FALSE]

\* proposal.state accepted by enqueueWorkerProposal and by job creation.
EligibleStates == {"approved", "pending_worker"}

\* p.state IN (...) of the claim query.
ClaimableStates == {"approved", "pending_worker", "failed"}

\* The statuses that count against queue_limit.
ActiveStatuses ==
  {"queued", "leased", "retry_wait", "blocked", "reconciliation_required"}

\* The row after its lease is given up.
Released(row, status, error, outcome) ==
  [row EXCEPT !.status = status, !.owner = NoWorker, !.lease = 0,
              !.live = FALSE, !.error = error, !.outcome = outcome]

\* The row after lease n is granted to w for one more attempt.
Leased(row, w, n) ==
  [row EXCEPT !.status = "leased", !.owner = w, !.lease = n, !.live = TRUE,
              !.attempts = row.attempts + 1, !.error = "none", !.outcome = "none"]

\* Mutant of HoldsLease: the row is leased, to anybody.
LeasedToAnybody(w, p, n) == queue[p].status = "leased"

\* assertWorkerLease: status, owner and lease id, but not the expiry.
HoldsLease(w, p, n) ==
  /\ queue[p].status = "leased"
  /\ queue[p].owner = w
  /\ queue[p].lease = n

\* Mutant of HoldsActiveLease: the expiry is not compared.
HoldsLeaseAtAnyAge(w, p, n) == HoldsLease(w, p, n)

\* assertActiveWorkerLease: the same, and not expired.
HoldsActiveLease(w, p, n) == HoldsLease(w, p, n) /\ queue[p].live

QueueInit ==
  /\ pstate = [p \in Proposals |-> "approved"]
  /\ queue = [p \in Proposals |-> NoRow]
  /\ issued = [p \in Proposals |-> 0]
  /\ aged = {}
  /\ recent = {}
  /\ call = NoCall

-----------------------------------------------------------------------------
(***************************************************************************)
(* Methods that read the proposal before their transaction.                *)
(***************************************************************************)

\* Whether the transaction will also move the proposal, decided from the
\* state read before it.
MovesProposal(op, p) ==
  \/ op = "cancel" /\ pstate[p] \in EligibleStates
  \/ op = "requeue" /\ pstate[p] = "failed"

\* requireProposal(...) at the head of the method; enqueueing checks the
\* state it read.
BeginCall(op, p) ==
  /\ call = NoCall
  /\ op \in Calls
  /\ op = "enqueue" => pstate[p] \in EligibleStates
  /\ call' = [op |-> op, p |-> p, moves |-> MovesProposal(op, p)]
  /\ UNCHANGED <<pstate, queue, issued, aged, recent>>

\* A client that gives up between the read and the transaction, or whose
\* transaction throws: nothing is written.
AbandonCall ==
  /\ call # NoCall
  /\ call' = NoCall
  /\ UNCHANGED <<pstate, queue, issued, aged, recent>>

\* Mutant of CommitEnqueue: INSERT OR REPLACE, so a row that exists is reset.
CommitEnqueueReplacing ==
  /\ call.op = "enqueue"
  /\ queue' = [queue EXCEPT ![call.p] =
                 [NoRow EXCEPT !.status = "queued", !.budget = MaxAttempts]]
  /\ call' = NoCall
  /\ UNCHANGED <<pstate, issued, aged, recent>>

\* enqueueWorkerProposal with its queue limit; enqueueApprovedForWorker, the
\* legacy path, inserts with INSERT OR IGNORE and no limit.
CommitEnqueue ==
  /\ call.op = "enqueue"
  /\ queue[call.p].status = "absent"
  /\ Supervised =>
       Cardinality({q \in Proposals : queue[q].status \in ActiveStatuses}) < QueueLimit
  /\ queue' = [queue EXCEPT ![call.p] =
                 [NoRow EXCEPT !.status = "queued", !.budget = MaxAttempts]]
  /\ call' = NoCall
  /\ UNCHANGED <<pstate, issued, aged, recent>>

\* cancelWorkerItem: the row's status is checked in the transaction, the
\* proposal's state is the one read before it.
CommitCancel ==
  /\ call.op = "cancel"
  /\ queue[call.p].status \in {"queued", "retry_wait"}
  /\ queue' = [queue EXCEPT ![call.p] =
                 Released(@, "cancelled", @.error, "cancelled")]
  /\ pstate' = [pstate EXCEPT ![call.p] =
                  IF call.moves THEN "canceled" ELSE @]
  /\ call' = NoCall
  /\ UNCHANGED <<issued, aged, recent>>

\* requeueDeadLetter; provenEffect says that a stored receipt proves the
\* database effect.
CommitRequeue(provenEffect) ==
  /\ call.op = "requeue"
  /\ queue[call.p].status = "dead_letter"
  /\ ~provenEffect
  /\ queue' = [queue EXCEPT ![call.p] =
                 [NoRow EXCEPT !.status = "queued", !.budget = RetryBudget]]
  /\ pstate' = [pstate EXCEPT ![call.p] =
                  IF call.moves THEN "approved" ELSE @]
  /\ call' = NoCall
  /\ UNCHANGED <<issued, aged, recent>>

\* discardDeadLetter writes nothing that depends on its earlier read.
DiscardDeadLetter(p) ==
  /\ "requeue" \in Calls
  /\ queue[p].status = "dead_letter"
  /\ queue' = [queue EXCEPT ![p] = Released(@, "discarded", @.error, "discarded")]
  /\ UNCHANGED <<pstate, issued, aged, recent, call>>

-----------------------------------------------------------------------------
(***************************************************************************)
(* Claiming.                                                               *)
(***************************************************************************)

LiveLeases == {p \in Proposals : queue[p].status = "leased" /\ queue[p].live}

\* Mutant of Candidate: an expired lease is not reclaimed.
CandidateNeverLeased(p) ==
  queue[p].status \in {"queued", "retry_wait"} /\ pstate[p] \in ClaimableStates

\* The WHERE clause of the claim query.
Candidate(p) ==
  /\ \/ queue[p].status \in {"queued", "retry_wait"}
     \/ queue[p].status = "leased" /\ ~queue[p].live
  /\ pstate[p] \in ClaimableStates

\* Mutants of ClaimAdmitted: the leases, or the rate window, are not counted.
ClaimAdmittedBeyondConcurrency == Supervised => Cardinality(recent) < RateLimit
ClaimAdmittedAtAnyRate == Supervised => Cardinality(LiveLeases) < MaxConcurrent

\* The concurrency and rate checks made before a candidate is chosen.
ClaimAdmitted ==
  Supervised => /\ Cardinality(LiveLeases) < MaxConcurrent
                /\ Cardinality(recent) < RateLimit

\* claimWorkerItem granting a lease.  An expired lease is reclaimed by the
\* same statement, whatever the row's max_attempts.
ClaimWorkerItem(w, p) ==
  /\ ClaimAdmitted
  /\ Candidate(p)
  /\ Supervised => p \notin aged
  /\ issued[p] < MaxLeases
  /\ issued' = [issued EXCEPT ![p] = @ + 1]
  /\ queue' = [queue EXCEPT ![p] = Leased(@, w, issued[p] + 1)]
  /\ pstate' = [pstate EXCEPT ![p] = IF @ = "failed" THEN "pending_worker" ELSE @]
  /\ UNCHANGED <<aged, recent, call>>

\* claimWorkerItem blocking a candidate whose TTL has passed.
BlockQueuedWorkerItem(p) ==
  /\ Supervised
  /\ ClaimAdmitted
  /\ Candidate(p)
  /\ p \in aged
  /\ queue' = [queue EXCEPT ![p] = Released(@, "blocked", "fatal", "none")]
  /\ UNCHANGED <<pstate, issued, aged, recent, call>>

-----------------------------------------------------------------------------
(***************************************************************************)
(* Operations of the worker that presents lease n.                         *)
(***************************************************************************)

\* The transaction of renewWorkerLease.  Its expiry check has passed at the
\* clock read before BEGIN IMMEDIATE and is not repeated, so that the lease
\* may have expired while the renewal waited for the lock (at most the busy
\* timeout, which is shorter than a lease: the new expiry lies ahead).
RenewWorkerLease(w, p, n) ==
  /\ HoldsLease(w, p, n)
  /\ queue' = [queue EXCEPT ![p].live = TRUE]
  /\ UNCHANGED <<pstate, issued, aged, recent, call>>

CompleteWorkerItem(w, p, n, outcome) ==
  /\ HoldsLease(w, p, n)
  /\ queue' = [queue EXCEPT ![p] = Released(@, "completed", "none", outcome)]
  /\ recent' = recent \cup {p}
  /\ UNCHANGED <<pstate, issued, aged, call>>

\* Mutant of RetryStatus: one attempt too many.
RetryStatusOffByOne(row) ==
  IF row.attempts > row.budget THEN "dead_letter" ELSE "retry_wait"

\* Whether retryWorkerItem schedules another attempt.
RetryStatus(row) ==
  IF row.attempts >= row.budget THEN "dead_letter" ELSE "retry_wait"

RetryWorkerItem(w, p, n, code) ==
  /\ HoldsLease(w, p, n)
  /\ queue' = [queue EXCEPT ![p] = Released(@, RetryStatus(@), code, "none")]
  /\ UNCHANGED <<pstate, issued, aged, recent, call>>

\* deadLetterWorkerItem, blockWorkerItem and requireWorkerReconciliation
\* park the row under the status that is also its terminal outcome.
ParkWorkerItem(w, p, n, status, code) ==
  /\ HoldsLease(w, p, n)
  /\ queue' = [queue EXCEPT ![p] = Released(@, status, code, status)]
  /\ UNCHANGED <<pstate, issued, aged, recent, call>>

-----------------------------------------------------------------------------
(***************************************************************************)
(* The passage of time.                                                    *)
(***************************************************************************)

LeaseExpires(p) ==
  /\ queue[p].status = "leased"
  /\ queue[p].live
  /\ queue' = [queue EXCEPT ![p].live = FALSE]
  /\ UNCHANGED <<pstate, issued, aged, recent, call>>

\* Only a supervised policy sets a TTL.
ProposalAges(p) ==
  /\ Supervised
  /\ p \notin aged
  /\ aged' = aged \cup {p}
  /\ UNCHANGED <<pstate, queue, issued, recent, call>>

RateWindowPasses(p) ==
  /\ p \in recent
  /\ recent' = recent \ {p}
  /\ UNCHANGED <<pstate, queue, issued, aged, call>>

QueueTypeOK ==
  /\ pstate \in [Proposals -> States]
  /\ queue \in [Proposals -> Row]
  /\ issued \in [Proposals -> Nat]
  /\ aged \subseteq Proposals
  /\ recent \subseteq Proposals
  /\ call \in [op : CallOps, p : Proposals, moves : BOOLEAN] \cup {NoCall}
=============================================================================
