----------------------------- MODULE CloudOutbox -----------------------------
(***************************************************************************)
(* Cloud-linked governance: what Runner reports to Synapsor Cloud goes     *)
(* through the table cloud_outbox, in order for each proposal, and what    *)
(* Cloud decides comes back as governance events that move the local       *)
(* proposal.  Any number of synchronizers (one in each MCP server and each *)
(* worker process) share one local store; every store call is a step, and  *)
(* so is every request to Cloud.                                           *)
(*                                                                         *)
(* Proposals are numbered in the order of their creation.  Event <<p, 0>>  *)
(* is the proposal, the following ones are its activities, and a member    *)
(* of Results is the result of its execution.                              *)
(***************************************************************************)
EXTENDS Naturals

CONSTANTS
    Proposals,    \* by number
    Last,         \* the number of the last event of each proposal
    Results,      \* the events of kind "result"
    Syncs,        \* CloudLinkedSynchronizer instances
    MaxAttempts,  \* max_attempts
    MaxFaults,    \* bound: synchronizers that die, leases they outlast, requests that fail
    MaxRepairs,   \* bound: retry commands of operators
    NoOwner       \* lease_owner IS NULL

Events == UNION {{p} \X (0 .. Last[p]) : p \in Proposals}
Earlier(e, f) == e[1] = f[1] /\ e[2] < f[2]

ASSUME OutboxAssumption ==
    /\ Proposals \subseteq Nat /\ Last \in [Proposals -> Nat]
    /\ Results \subseteq Events
    /\ \A r \in Results, e \in Events : r[2] # 0 /\ (Earlier(r, e) => e \in Results)
    /\ MaxAttempts \in Nat \ {0} /\ MaxFaults \in Nat /\ MaxRepairs \in Nat
    /\ NoOwner \notin Syncs

Statuses == {"none", "pending", "leased", "acknowledged", "dead_letter",
             "reconciliation_required", "compacted"}

\* A row of cloud_outbox.  Attempts beyond max_attempts make no difference.
Row == [status   : Statuses,
        owner    : Syncs \cup {NoOwner},
        live     : BOOLEAN,              \* the lease has not expired
        due      : BOOLEAN,              \* next_attempt_at has come
        attempts : 0 .. MaxAttempts]

NoRow == [status |-> "none", owner |-> NoOwner, live |-> FALSE, due |-> FALSE,
          attempts |-> 0]

\* What Cloud says of a proposal.  The terminal states are projected on the
\* local proposal (localStateFromCloudGovernance).
CloudStates == {"none", "pending_review", "approved", "applied", "rejected"}
Terminal == {"applied", "rejected"}

\* The governance events of a proposal: the identities recorded, and the state
\* that the latest one reports ("none" for pending_cloud_sync).
Governance == [known : SUBSET (CloudStates \cup {"queued", "receipt"}),
               latest : CloudStates]

Outcomes == {"unsent", "ok", "retryable", "conflict", "fatal"}

\* A synchronizer in a drain: the events it has claimed and not yet sent, the
\* one it is sending (if any) with its outcome, whether failCloudOutbox found
\* its attempts exhausted, the proposals it has yet to ask for, and what Cloud
\* answered.
Sync == [at        : {"idle", "deliver", "govern", "acknowledge", "fail", "failing",
                      "list", "reconcile", "record"},
         claimed   : SUBSET Events,
         current   : SUBSET Events,
         outcome   : Outcomes,
         exhausted : BOOLEAN,
         todo      : SUBSET Proposals,
         answer    : CloudStates]

Idle == [at |-> "idle", claimed |-> {}, current |-> {}, outcome |-> "unsent",
         exhausted |-> FALSE, todo |-> {}, answer |-> "none"]

VARIABLES
    outbox,      \* cloud_outbox
    governance,  \* cloud_governance_events of each proposal
    local,       \* proposals.state, as far as Cloud decides it
    cloud,       \* what Cloud has decided
    received,    \* the events that Cloud has taken
    sync,        \* the synchronizers
    retries,     \* the retry commands under way for each event
    faults,      \* number of faults
    repairs      \* number of retry commands

vars == <<outbox, governance, local, cloud, received, sync, retries, faults, repairs>>

Init ==
    /\ outbox = [e \in Events |-> NoRow]
    /\ governance = [p \in Proposals |-> [known |-> {}, latest |-> "none"]]
    /\ local = [p \in Proposals |-> "pending_review"]
    /\ cloud = [p \in Proposals |-> "none"]
    /\ received = {}
    /\ sync = [s \in Syncs |-> Idle]
    /\ retries = [e \in Events |-> 0]
    /\ faults = 0 /\ repairs = 0

Goes(s, next) == sync' = [sync EXCEPT ![s] = next]

----------------------------------------------------------------------------
(* Enqueueing *)

\* enqueueCloudOutbox: INSERT OR IGNORE
Enqueued(e) ==
    [outbox EXCEPT ![e] = IF @.status = "none"
                          THEN [status |-> "pending", owner |-> NoOwner,
                                live |-> FALSE, due |-> TRUE, attempts |-> 0]
                          ELSE @]

\* recordCloudGovernanceEvent: INSERT OR IGNORE, then the projection.  The
\* integrity hash covers created_at, so that the second recording of an event
\* throws CLOUD_GOVERNANCE_EVENT_MISMATCH (after the projection).
Known(p, id) == id \in governance[p].known

Recorded(p, id, state) ==
    IF Known(p, id) THEN governance
    ELSE [governance EXCEPT ![p] = [known |-> @.known \cup {id}, latest |-> state]]

Projected(p, state) ==
    IF state \in Terminal /\ local[p] = "pending_review"
    THEN [local EXCEPT ![p] = state] ELSE local

\* enqueueCloudLinkedProposal: the proposal, then its activities, one call
\* after the other, while synchronizers may already send the first ones; the
\* server may die between two calls.  With the last one it records the event
\* "proposal.pending_cloud_sync".
Enqueue(e) ==
    LET p == e[1] IN
    /\ e \notin Results
    /\ outbox[e].status = "none"
    /\ \A f \in Events \ Results :
         Earlier(f, e) \/ (f[2] = 0 /\ f[1] < p) => outbox[f].status # "none"
    /\ outbox' = Enqueued(e)
    /\ governance' = IF \A f \in Events \ Results : ~Earlier(e, f)
                     THEN Recorded(p, "queued", "none") ELSE governance
    /\ UNCHANGED <<local, cloud, received, sync, retries, faults, repairs>>

\* enqueueCloudLinkedResult: a worker has executed the job that Cloud made of
\* the proposal it received.
EnqueueResult(e) ==
    /\ e \in Results
    /\ outbox[e].status = "none"
    /\ cloud[e[1]] = "approved"
    /\ outbox' = Enqueued(e)
    /\ UNCHANGED <<governance, local, cloud, received, sync, retries, faults, repairs>>

----------------------------------------------------------------------------
(* The drain of a synchronizer *)

\* Mutant: an expired lease is not given up.
ReclaimedNever(e) == outbox[e]

\* The row after an expired lease is given up.
Reclaimed(e) ==
    IF outbox[e].status = "leased" /\ ~outbox[e].live
    THEN [outbox[e] EXCEPT !.status = "pending", !.owner = NoOwner] ELSE outbox[e]

\* Mutant: an earlier event that is being sent, or was given up, does not
\* hold the later ones back.
CandidateBehindPending(e) ==
    /\ Reclaimed(e).status = "pending" /\ Reclaimed(e).due
    /\ \A f \in Events : Earlier(f, e) => Reclaimed(f).status # "pending"

Candidate(e) ==
    /\ Reclaimed(e).status = "pending" /\ Reclaimed(e).due
    /\ \A f \in Events :
         Earlier(f, e) => Reclaimed(f).status \in {"none", "acknowledged", "compacted"}

\* claimCloudOutbox, one transaction.
Claim(s) ==
    LET batch == {e \in Events : Candidate(e)}
    IN  /\ sync[s].at = "idle"
        /\ outbox' = [e \in Events |->
             IF e \in batch
             THEN [status |-> "leased", owner |-> s, live |-> TRUE, due |-> TRUE,
                   attempts |-> IF outbox[e].attempts < MaxAttempts
                                THEN outbox[e].attempts + 1 ELSE MaxAttempts]
             ELSE Reclaimed(e)]
        /\ Goes(s, [Idle EXCEPT !.at = IF batch = {} THEN "list" ELSE "deliver",
                                !.claimed = batch])
        /\ UNCHANGED <<governance, local, cloud, received, retries, faults, repairs>>

\* The next event of the batch, or the reconciliation.
Onward(s) ==
    IF sync[s].claimed # {}
    THEN [Idle EXCEPT !.at = "deliver", !.claimed = sync[s].claimed]
    ELSE [Idle EXCEPT !.at = "list"]

\* Cloud takes the event and says so, or the request fails: for now, for good,
\* or because states conflict, and Cloud may have taken the event all the
\* same.  It knows a proposal as soon as it has taken its event.
Deliver(s, e, outcome, taken) ==
    /\ sync[s].at = "deliver" /\ e \in sync[s].claimed
    /\ IF outcome = "ok" THEN taken /\ faults' = faults
                         ELSE faults < MaxFaults /\ faults' = faults + 1
    /\ received' = IF taken THEN received \cup {e} ELSE received
    /\ cloud' = IF taken /\ e[2] = 0 /\ cloud[e[1]] = "none"
                THEN [cloud EXCEPT ![e[1]] = "pending_review"] ELSE cloud
    /\ Goes(s, [sync[s] EXCEPT
                  !.at = IF outcome # "ok" THEN "fail"
                         ELSE IF e[2] = 0 THEN "govern" ELSE "acknowledge",
                  !.claimed = @ \ {e}, !.current = {e}, !.outcome = outcome,
                  !.answer = IF outcome = "ok" THEN cloud'[e[1]] ELSE "none"])
    /\ UNCHANGED <<outbox, governance, local, retries, repairs>>

\* The receipt of a proposal is recorded once; a second time is an error of
\* the store, and classifyCloudSyncFailure takes that for fatal.
Govern(s) ==
    /\ sync[s].at = "govern"
    /\ \E e \in sync[s].current :
         /\ governance' = Recorded(e[1], "receipt", sync[s].answer)
         /\ local' = Projected(e[1], sync[s].answer)
         /\ Goes(s, IF Known(e[1], "receipt")
                    THEN [sync[s] EXCEPT !.at = "fail", !.outcome = "fatal"]
                    ELSE [sync[s] EXCEPT !.at = "acknowledge"])
    /\ UNCHANGED <<outbox, cloud, received, retries, faults, repairs>>

Owns(s, e) == outbox[e].status = "leased" /\ outbox[e].owner = s

\* acknowledgeCloudOutbox: compare and set
Acknowledge(s) ==
    /\ sync[s].at = "acknowledge"
    /\ \E e \in sync[s].current :
         IF Owns(s, e)
         THEN /\ outbox' = [outbox EXCEPT ![e] =
                              [@ EXCEPT !.status = "acknowledged", !.owner = NoOwner,
                                        !.live = FALSE]]
              /\ Goes(s, Onward(s))
         ELSE /\ outbox' = outbox
              /\ Goes(s, [sync[s] EXCEPT !.at = "fail", !.outcome = "fatal"])
    /\ UNCHANGED <<governance, local, cloud, received, retries, faults, repairs>>

\* failCloudOutbox reads the row.  When the lease is lost it throws, and the
\* drain ends there ...
Fail(s) ==
    /\ sync[s].at = "fail"
    /\ \E e \in sync[s].current :
         Goes(s, IF Owns(s, e)
                 THEN [sync[s] EXCEPT !.at = "failing",
                                      !.exhausted = (outbox[e].attempts >= MaxAttempts)]
                 ELSE Idle)
    /\ UNCHANGED <<outbox, governance, local, cloud, received, retries, faults, repairs>>

\* Mutant: the outcome is stored as the status.
FailedStatusRaw(s) == sync[s].outcome

\* Mutant: a failure that cannot be retried counts as sent.
FailedStatusSkips(s) ==
    IF sync[s].outcome = "retryable" /\ ~sync[s].exhausted THEN "pending"
    ELSE "acknowledged"

FailedStatus(s) ==
    IF sync[s].outcome = "conflict" THEN "reconciliation_required"
    ELSE IF sync[s].outcome = "retryable" /\ ~sync[s].exhausted THEN "pending"
    ELSE "dead_letter"

\* ... and then writes it, whatever it holds by now: there is no transaction
\* around the two on a local store.  A row that was deleted stays so, and the
\* drain ends there.
FailWrite(s) ==
    /\ sync[s].at = "failing"
    /\ \E e \in sync[s].current :
         IF outbox[e].status = "compacted"
         THEN outbox' = outbox /\ Goes(s, Idle)
         ELSE /\ outbox' = [outbox EXCEPT ![e] =
                              [@ EXCEPT !.status = FailedStatus(s), !.owner = NoOwner,
                                        !.live = FALSE, !.due = FALSE]]
              /\ Goes(s, Onward(s))
    /\ UNCHANGED <<governance, local, cloud, received, retries, faults, repairs>>

----------------------------------------------------------------------------
(* Reconciliation *)

Decided(p) == governance[p].latest \in Terminal

\* The proposals that remain to be asked for, if any.
Remaining(todo) ==
    IF todo = {} THEN Idle
                 ELSE [Idle EXCEPT !.at = "reconcile", !.todo = todo]


\* The loop goes on behind a proposal.
Skipped(s, p) == Remaining(sync[s].todo \ {p})

\* reconcileOnce lists the acknowledged proposals ...
List(s) ==
    /\ sync[s].at = "list"
    /\ Goes(s, Remaining({p \in Proposals : outbox[<<p, 0>>].status = "acknowledged"}))
    /\ UNCHANGED <<outbox, governance, local, cloud, received, retries, faults, repairs>>

\* ... goes through them, oldest first, skips those whose latest event is
\* terminal and asks Cloud for the others.
Inspect(s, p) ==
    /\ sync[s].at = "reconcile" /\ p \in sync[s].todo
    /\ \A q \in sync[s].todo : p <= q
    /\ Goes(s, IF Decided(p) THEN Skipped(s, p)
               ELSE [sync[s] EXCEPT !.at = "record", !.answer = cloud[p]])
    /\ UNCHANGED <<outbox, governance, local, cloud, received, retries, faults, repairs>>

\* The state is recorded under an identity made of its content.  A state that
\* is already known throws, and the loop ends there.
RecordState(s, p) ==
    /\ sync[s].at = "record" /\ p \in sync[s].todo
    /\ \A q \in sync[s].todo : p <= q
    /\ governance' = Recorded(p, sync[s].answer, sync[s].answer)
    /\ local' = Projected(p, sync[s].answer)
    /\ Goes(s, IF Known(p, sync[s].answer) THEN Remaining({}) ELSE Skipped(s, p))
    /\ UNCHANGED <<outbox, cloud, received, retries, faults, repairs>>

\* The status request fails: the loop ends there too.
StatusFails(s) ==
    /\ sync[s].at = "reconcile" /\ faults < MaxFaults
    /\ faults' = faults + 1
    /\ Goes(s, Remaining({}))
    /\ UNCHANGED <<outbox, governance, local, cloud, received, retries, repairs>>

\* compactCloudOutbox, which ends a drain once an hour, deletes what was
\* acknowledged 30 days ago; the events of a proposal in their order.
Compact(s, e) ==
    /\ sync[s].at = "idle"
    /\ outbox[e].status = "acknowledged"
    /\ \A f \in Events : Earlier(f, e) => outbox[f].status # "acknowledged"
    /\ outbox' = [outbox EXCEPT ![e] = [@ EXCEPT !.status = "compacted"]]
    /\ UNCHANGED <<governance, local, cloud, received, sync, retries, faults, repairs>>

----------------------------------------------------------------------------
(* Operators, Cloud, failures and time *)

\* requeueCloudOutbox by `cloud outbox retry' reads the row ...
ReadRetry(e) ==
    /\ outbox[e].status \in {"dead_letter", "reconciliation_required"}
    /\ repairs < MaxRepairs
    /\ retries' = [retries EXCEPT ![e] = @ + 1]
    /\ repairs' = repairs + 1
    /\ UNCHANGED <<outbox, governance, local, cloud, received, sync, faults>>

\* ... and then writes it, whatever it holds by now, without a transaction:
\* another command may have written it, and a synchronizer may be sending the
\* event or have it acknowledged.  A row that was deleted stays so, and a
\* command that dies never writes.
Requeue(e) ==
    /\ retries[e] > 0
    /\ retries' = [retries EXCEPT ![e] = @ - 1]
    /\ outbox' = [outbox EXCEPT ![e] =
                    IF @.status = "compacted" THEN @
                    ELSE [status |-> "pending", owner |-> NoOwner, live |-> FALSE,
                          due |-> TRUE, attempts |-> 0]]
    /\ UNCHANGED <<governance, local, cloud, received, sync, faults, repairs>>

\* Cloud decides on what it received; an approved proposal is applied when its
\* result has arrived.
CloudDecides(p, decision) ==
    /\ \/ cloud[p] = "pending_review" /\ decision \in {"approved", "rejected"}
       \/ /\ cloud[p] = "approved" /\ decision = "applied"
          /\ \E e \in Results : e[1] = p /\ e \in received
    /\ cloud' = [cloud EXCEPT ![p] = decision]
    /\ UNCHANGED <<outbox, governance, local, received, sync, retries, faults, repairs>>

\* The process of a synchronizer dies and is started again.
Crash(s) ==
    /\ sync[s].at # "idle" /\ faults < MaxFaults
    /\ faults' = faults + 1
    /\ Goes(s, Idle)
    /\ UNCHANGED <<outbox, governance, local, cloud, received, retries, repairs>>

\* A synchronizer is still at work on the event that it leased.
AtWork(e) ==
    \E s \in Syncs : outbox[e].owner = s /\ e \in sync[s].claimed \cup sync[s].current

LeaseExpires(e) ==
    /\ outbox[e].status = "leased" /\ outbox[e].live
    /\ IF AtWork(e) THEN faults < MaxFaults /\ faults' = faults + 1 ELSE faults' = faults
    /\ outbox' = [outbox EXCEPT ![e] = [@ EXCEPT !.live = FALSE]]
    /\ UNCHANGED <<governance, local, cloud, received, sync, retries, repairs>>

\* next_attempt_at comes.
BecomesDue(e) ==
    /\ outbox[e].status = "pending" /\ ~outbox[e].due
    /\ outbox' = [outbox EXCEPT ![e] = [@ EXCEPT !.due = TRUE]]
    /\ UNCHANGED <<governance, local, cloud, received, sync, retries, faults, repairs>>

----------------------------------------------------------------------------

\* The next step of a synchronizer: its timer starts one drain after another.
Step(s) ==
    \/ Claim(s)
    \/ \E e \in Events, outcome \in Outcomes \ {"unsent"}, taken \in BOOLEAN :
         Deliver(s, e, outcome, taken)
    \/ Govern(s)
    \/ Acknowledge(s)
    \/ Fail(s)
    \/ FailWrite(s)
    \/ List(s)
    \/ \E p \in Proposals : Inspect(s, p) \/ RecordState(s, p)

Next ==
    \/ \E e \in Events : \/ Enqueue(e) \/ EnqueueResult(e)
                         \/ ReadRetry(e) \/ Requeue(e)
                         \/ LeaseExpires(e) \/ BecomesDue(e)
    \/ \E p \in Proposals, decision \in CloudStates : CloudDecides(p, decision)
    \/ \E s \in Syncs : \/ Step(s) \/ StatusFails(s) \/ Crash(s)
                        \/ \E e \in Events : Compact(s, e)

Spec == Init /\ [][Next]_vars

\* Synchronizers go on (after a crash they are started again), and time
\* passes.  Nobody has to enqueue, repair or decide anything.
Fairness ==
    /\ \A s \in Syncs : WF_vars(Step(s))
    /\ \A e \in Events : WF_vars(LeaseExpires(e)) /\ WF_vars(BecomesDue(e))

FairSpec == Spec /\ Fairness

----------------------------------------------------------------------------
(* Properties *)

\* The types of the variables.
TypeOK ==
    /\ outbox \in [Events -> Row]
    /\ governance \in [Proposals -> Governance]
    /\ local \in [Proposals -> CloudStates]
    /\ cloud \in [Proposals -> CloudStates]
    /\ received \subseteq Events
    /\ sync \in [Syncs -> Sync]
    /\ retries \in [Events -> Nat]
    /\ faults \in 0 .. MaxFaults /\ repairs \in 0 .. MaxRepairs

Sent == {"acknowledged", "compacted"}
Parked == {"dead_letter", "reconciliation_required"}

\* What the outbox calls acknowledged, or has deleted, Cloud has taken,
\* whichever of several lease holders acknowledged it.
AcknowledgedWasTaken == \A e \in Events : outbox[e].status \in Sent => e \in received

\* Cloud takes the events of a proposal in their order, and a result after its
\* proposal, although two synchronizers may be sending them, leases expire
\* and events are parked and retried.
InOrder ==
    \A e \in received : \A f \in Events :
        Earlier(f, e) /\ (e \in Results => f[2] = 0) => f \in received

\* Since faults are finite, an event that is queued is sent in the end, unless
\* it or an earlier one of its proposal needs an operator.
EventsSettle ==
    \A e \in Events :
        outbox[e].status \in {"pending", "leased"} ~>
            \/ outbox[e].status \in Sent
            \/ \E f \in Events : (f = e \/ Earlier(f, e)) /\ outbox[f].status \in Parked

=============================================================================
