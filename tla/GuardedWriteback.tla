---------------------------- MODULE GuardedWriteback ----------------------------
(***************************************************************************)
(* Execution of approved proposals against the source database: worker     *)
(* processes that claim queue rows (apps/runner/src/worker-runtime.ts) and *)
(* operators that run `apply' by hand, both through applyProposal          *)
(* (apps/runner/src/guarded-apply.ts), the SQL adapter                     *)
(* (packages/postgres/src/index.ts, the same steps in packages/mysql) and  *)
(* the receipt and intent ledger of the local SQLite store                 *)
(* (packages/proposal-store/src/sqlite-writeback-methods.ts).              *)
(*                                                                         *)
(* A process can crash between any two steps.  The source transaction is   *)
(* atomic; its COMMIT acknowledgement can be lost.  Other applications     *)
(* write the same rows and advance their version column.                   *)
(***************************************************************************)
EXTENDS WorkerQueue, Sequences

CONSTANTS
  Operators,        \* CLI processes that run `apply'
  Rows,             \* rows of the source database
  Target,           \* the row each proposal updates
  Authority,        \* receipt authority: "source_db" or "runner_ledger"
  VersionAdvances,  \* the guarded update advances its own version column
  MaxVersion        \* bound: row versions written by other applications

Processes == Workers \cup Operators

\* validateReceiptTopology and the capability checks refuse a runner_ledger
\* update without a version_advance.
ASSUME WritebackAssumption ==
  /\ Workers \cap Operators = {}
  /\ Target \in [Proposals -> Rows]
  /\ Authority \in {"source_db", "runner_ledger"}
  /\ VersionAdvances \in BOOLEAN
  /\ Authority = "runner_ledger" => VersionAdvances
  /\ MaxVersion \in Nat

VARIABLES
  proc,        \* what each process is doing
  gate,        \* TRUE: control active, policy enabled, required sinks healthy
  version,     \* version column of each source row
  writer,      \* proposal whose values the row holds, NoProposal for others
  effects,     \* committed source mutations per proposal
  srcReceipt,  \* status in the source-side receipt table, "none" without a row
  intent,      \* the writeback_intents row of the proposal's idempotency key
  receipts,    \* writeback_receipts rows of the proposal, in receipt_id order
  mutated,     \* proposals.source_database_mutated
  recon        \* an operator between observing the source and resolving

sourceVars == <<version, writer, effects, srcReceipt>>
ledgerVars == <<intent, receipts, mutated>>
vars == <<queueVars, proc, gate, sourceVars, ledgerVars, recon>>

-----------------------------------------------------------------------------

Results == {"none", "applied", "already_applied", "conflict", "failed",
            "reconciliation_required"}

Pcs == {"idle", "poll", "claimed", "renew", "renewing", "read", "job", "verify", "apply",
        "mark", "mutate", "complete", "receipt", "record", "outcome", "finish"}

Process == [pc : Pcs, p : Proposals \cup {NoProposal}, lease : Nat,
            attempt : Nat, seen : States, sawMutated : BOOLEAN,
            res : Results, code : Codes]

Idle == [pc |-> "idle", p |-> NoProposal, lease |-> 0, attempt |-> 0,
         seen |-> "approved", sawMutated |-> FALSE, res |-> "none", code |-> "none"]

IntentStatuses == {"intent_recorded", "applying"} \cup (Results \ {"none"})

\* The SQLite table has UNIQUE (idempotency_key), and every attempt of one
\* proposal uses the same key: at most one row, of the attempt that wrote it.
NoIntent == [status |-> "absent", attempt |-> 0, code |-> "none"]

Receipt == [attempt : Nat, status : Results, code : Codes]

NoRecon == [p |-> NoProposal, outcome |-> "none"]

\* conflict_guard.expected_value: every proposal was reviewed at version 0.
ReviewedVersion == 0

\* Mutant of StateFromReceipt: the receipt's status is stored as it is.
StateAsReceived(status) == status

\* stateFromReceipt.
StateFromReceipt(status) ==
  CASE status \in {"applied", "already_applied"} -> "applied"
    [] status \in {"conflict", "reconciliation_required"} -> status
    [] OTHER -> "failed"

Init ==
  /\ QueueInit
  /\ proc = [x \in Processes |-> Idle]
  /\ gate = TRUE
  /\ version = [r \in Rows |-> ReviewedVersion]
  /\ writer = [r \in Rows |-> NoProposal]
  /\ effects = [p \in Proposals |-> 0]
  /\ srcReceipt = [p \in Proposals |-> "none"]
  /\ intent = [p \in Proposals |-> NoIntent]
  /\ receipts = [p \in Proposals |-> << >>]
  /\ mutated = [p \in Proposals |-> FALSE]
  /\ recon = NoRecon

At(x, pc) == proc[x].pc = pc
Goto(x, pc) == proc' = [proc EXCEPT ![x].pc = pc]
WithResult(x, pc, res, code) ==
  proc' = [proc EXCEPT ![x].pc = pc, ![x].res = res, ![x].code = code]

\* An exception that leaves applyProposal: the worker closes its row with
\* finishWorkerFailure, the CLI prints the error and exits.
Throw(x, code) ==
  IF x \in Workers THEN WithResult(x, "finish", "failed", code)
                   ELSE proc' = [proc EXCEPT ![x] = Idle]

-----------------------------------------------------------------------------
(***************************************************************************)
(* workerRun: one turn of the loop, up to applyProposal.                   *)
(***************************************************************************)

\* claimSupervisedWorkerItem reads the control row and the sink health
\* before the claim transaction; the legacy loop has no such gate.
Poll(w) ==
  /\ At(w, "idle")
  /\ Supervised => gate
  /\ Goto(w, "poll")
  /\ UNCHANGED <<queueVars, gate, sourceVars, ledgerVars, recon>>

Claim(w, p) ==
  /\ At(w, "poll")
  /\ ClaimWorkerItem(w, p)
  /\ proc' = [proc EXCEPT ![w] = [Idle EXCEPT !.pc = "claimed", !.p = p,
                                   !.lease = issued[p] + 1,
                                   !.attempt = queue[p].attempts + 1]]
  /\ UNCHANGED <<gate, sourceVars, ledgerVars, recon>>

\* The claim transaction blocked an aged candidate, or found none (a row that
\* has used up MaxLeases counts as none: that bound is the model's).
ClaimNothing(w) ==
  /\ At(w, "poll")
  /\ \/ \E p \in Proposals : BlockQueuedWorkerItem(p)
     \/ /\ ClaimAdmitted => \A p \in Proposals : Candidate(p) => issued[p] = MaxLeases
        /\ UNCHANGED queueVars
  /\ Goto(w, "idle")
  /\ UNCHANGED <<gate, sourceVars, ledgerVars, recon>>

\* `apply' run by hand takes no lease and is attempt 1.
ManualApply(o, p) ==
  /\ At(o, "idle")
  /\ proc' = [proc EXCEPT ![o] = [Idle EXCEPT !.pc = "read", !.p = p, !.attempt = 1]]
  /\ UNCHANGED <<queueVars, gate, sourceVars, ledgerVars, recon>>

-----------------------------------------------------------------------------
(***************************************************************************)
(* applyProposal, up to the adapter.                                       *)
(***************************************************************************)

\* The supervised checks: active lease, control and sinks, TTL.  The legacy
\* worker presents no lease and has none of them.
Preflight(w) ==
  LET p == proc[w].p IN
  /\ At(w, "claimed")
  /\ CASE ~Supervised -> Goto(w, "read")
       [] Supervised /\ ~HoldsActiveLease(w, p, proc[w].lease) -> Throw(w, "fatal")
       [] Supervised /\ HoldsActiveLease(w, p, proc[w].lease) /\ ~gate -> Throw(w, "held")
       [] Supervised /\ HoldsActiveLease(w, p, proc[w].lease) /\ gate ->
            IF p \in aged THEN Throw(w, "fatal") ELSE Goto(w, "renew")
  /\ UNCHANGED <<queueVars, gate, sourceVars, ledgerVars, recon>>

\* renewWorkerLease reads the clock that it will compare the expiry with ...
ReadClock(w) ==
  /\ At(w, "renew")
  /\ IF HoldsActiveLease(w, proc[w].p, proc[w].lease) THEN Goto(w, "renewing")
                                                     ELSE Throw(w, "fatal")
  /\ UNCHANGED <<queueVars, gate, sourceVars, ledgerVars, recon>>

\* ... and renews once it has the lock: the lease may have expired, or have
\* been granted to another worker, in between.
Renew(w) ==
  /\ At(w, "renewing")
  /\ \/ RenewWorkerLease(w, proc[w].p, proc[w].lease) /\ Goto(w, "read")
     \/ /\ ~HoldsLease(w, proc[w].p, proc[w].lease)
        /\ Throw(w, "fatal")
        /\ UNCHANGED queueVars
  /\ UNCHANGED <<gate, sourceVars, ledgerVars, recon>>

\* createWritebackJobFromProposal reads the proposal before its transaction.
ReadProposal(x) ==
  LET seen == pstate[proc[x].p] IN
  /\ At(x, "read")
  /\ IF seen \in EligibleStates
       THEN proc' = [proc EXCEPT ![x].pc = "job", ![x].seen = seen]
       ELSE Throw(x, "fatal")
  /\ UNCHANGED <<queueVars, gate, sourceVars, ledgerVars, recon>>

CreateJob(x) ==
  /\ At(x, "job")
  /\ pstate' = [pstate EXCEPT ![proc[x].p] =
                  IF proc[x].seen = "approved" THEN "pending_worker" ELSE @]
  /\ proc' = [proc EXCEPT ![x].pc = "verify", ![x].seen = Idle.seen]
  /\ UNCHANGED <<queue, issued, aged, recent, call>>
  /\ UNCHANGED <<gate, sourceVars, ledgerVars, recon>>

\* verifyLocalWritebackAuthority reads the proposal once more.
Verify(x) ==
  /\ At(x, "verify")
  /\ IF pstate[proc[x].p] \in EligibleStates \cup {"applied"}
       THEN Goto(x, "apply")
       ELSE Throw(x, "exec")
  /\ UNCHANGED <<queueVars, gate, sourceVars, ledgerVars, recon>>

-----------------------------------------------------------------------------
(***************************************************************************)
(* The source transaction.                                                 *)
(***************************************************************************)

\* Mutant of MutationOutcomes: the version guard is dropped.
MutationOutcomesUnguarded(p) == {"applied", "failed"}

\* mutatePostgres under the row lock: the version guard, then the statement.
\* "failed" is an outcome that commits without an effect (a refused delete).
MutationOutcomes(p) ==
  IF version[Target[p]] = ReviewedVersion THEN {"applied", "failed"} ELSE {"conflict"}

\* The rows after mutatePostgres returned `out'.
Mutates(p, out) ==
  IF out = "applied"
    THEN /\ effects' = [effects EXCEPT ![p] = @ + 1]
         /\ writer' = [writer EXCEPT ![Target[p]] = p]
         /\ version' = [version EXCEPT ![Target[p]] =
                          IF VersionAdvances THEN @ + 1 ELSE @]
    ELSE UNCHANGED <<effects, writer, version>>

\* Mutant of ClaimSourceReceipt: the claim overwrites an existing row.
ClaimSourceReceiptAnew(p) == "none"

\* claimSourceReceipt: INSERT ... ON CONFLICT DO NOTHING, then the row found.
ClaimSourceReceipt(p) == srcReceipt[p]

\* Mutants of ResultFromExistingReceipt: every existing receipt is taken for
\* a completed effect, or for a conflict.
ExistingReceiptIsSuccess(status) == "already_applied"
ExistingReceiptIsConflict(status) == "conflict"

\* resultFromExistingReceipt.
ResultFromExistingReceipt(status) ==
  IF status = "applied" THEN "already_applied" ELSE status

CodeOf(res) == IF res = "failed" THEN "fatal" ELSE "none"

\* The COMMIT is acknowledged with this result, or the acknowledgement is
\* lost (SourceOutcomeUnknownError).
Acknowledged(x, pc, res) ==
  \/ WithResult(x, pc, res, CodeOf(res))
  \/ WithResult(x, pc, "reconciliation_required", "unknown")

\* Nothing is committed: a statement or the connection failed and was rolled
\* back (TRANSACTION_FAILED is retried, other codes are not), or the ROLLBACK
\* itself failed and the outcome is unknown to the runner.
NotCommitted(x, pc) ==
  /\ \/ \E code \in {"retryable", "fatal"} : WithResult(x, pc, "failed", code)
     \/ WithResult(x, pc, "reconciliation_required", "unknown")
  /\ UNCHANGED sourceVars

\* applyPostgresJob cannot connect (retried as TRANSACTION_FAILED): no receipt,
\* intent or source row was touched.
ConnectionFails(x) ==
  /\ At(x, "apply")
  /\ WithResult(x, "receipt", "failed", "retryable")
  /\ UNCHANGED <<queueVars, gate, sourceVars, ledgerVars, recon>>

\* applyPostgresJobWithClient with source_db receipts: the receipt row is
\* claimed, the mutation made and the receipt completed in one transaction.
ApplyWithSourceReceipt(x) ==
  LET p == proc[x].p IN
  /\ Authority = "source_db"
  /\ At(x, "apply")
  /\ \/ /\ ClaimSourceReceipt(p) # "none"
        /\ Acknowledged(x, "receipt", ResultFromExistingReceipt(ClaimSourceReceipt(p)))
        /\ UNCHANGED sourceVars
     \/ /\ ClaimSourceReceipt(p) = "none"
        /\ \E out \in MutationOutcomes(p) :
             /\ Mutates(p, out)
             /\ srcReceipt' = [srcReceipt EXCEPT ![p] = out]
             /\ Acknowledged(x, "receipt", out)
     \/ NotCommitted(x, "receipt")
  /\ UNCHANGED <<queueVars, gate, ledgerVars, recon>>

-----------------------------------------------------------------------------
(***************************************************************************)
(* applyWithRunnerLedger: the intent brackets the source transaction.      *)
(***************************************************************************)

\* claimWritebackIntent.  A row written by another attempt has another
\* intent id: the insert then violates UNIQUE (idempotency_key), which
\* applyPostgresJob reports as TRANSACTION_FAILED.
ClaimWritebackIntent(x) ==
  LET p == proc[x].p
      i == intent[p] IN
  /\ Authority = "runner_ledger"
  /\ At(x, "apply")
  /\ \/ /\ i = NoIntent
        /\ intent' = [intent EXCEPT ![p] = [status |-> "intent_recorded",
                                            attempt |-> proc[x].attempt, code |-> "none"]]
        /\ Goto(x, "mark")
     \/ /\ i # NoIntent
        /\ CASE i.attempt # proc[x].attempt -> WithResult(x, "receipt", "failed", "retryable")
             [] i.attempt = proc[x].attempt /\ i.status = "intent_recorded" -> Goto(x, "mark")
             [] i.attempt = proc[x].attempt /\ i.status \in {"applying", "reconciliation_required"} ->
                  WithResult(x, "receipt", "reconciliation_required", "unknown")
             [] i.attempt = proc[x].attempt /\ i.status \in {"applied", "already_applied"} ->
                  WithResult(x, "receipt", "already_applied", "none")
             [] i.attempt = proc[x].attempt /\ i.status \in {"conflict", "failed"} ->
                  WithResult(x, "receipt", i.status, i.code)
        /\ UNCHANGED intent
  /\ UNCHANGED <<queueVars, gate, sourceVars, receipts, mutated, recon>>

\* UPDATE writeback_intents SET status, error code.
UpdateIntent(p, status, code) ==
  intent' = [intent EXCEPT ![p] =
               [status |-> status, attempt |-> intent[p].attempt, code |-> code]]

\* requireWritebackReconciliation: a completed intent is left alone, any
\* other status is overwritten.
RequireWritebackReconciliation(p) ==
  IF intent[p].status \in {"applied", "already_applied"}
    THEN UNCHANGED intent
    ELSE UpdateIntent(p, "reconciliation_required", intent[p].code)

\* markWritebackIntentApplying, compare-and-set; when it fails the intent
\* goes to reconciliation.
MarkWritebackIntentApplying(x) ==
  LET p == proc[x].p IN
  /\ At(x, "mark")
  /\ IF intent[p].status = "intent_recorded"
       THEN /\ UpdateIntent(p, "applying", intent[p].code)
            /\ Goto(x, "mutate")
       ELSE /\ RequireWritebackReconciliation(p)
            /\ WithResult(x, "receipt", "reconciliation_required", "unknown")
  /\ UNCHANGED <<queueVars, gate, sourceVars, receipts, mutated, recon>>

ApplyWithIntent(x) ==
  LET p == proc[x].p IN
  /\ At(x, "mutate")
  /\ \/ /\ \E out \in MutationOutcomes(p) : Mutates(p, out) /\ Acknowledged(x, "complete", out)
        /\ UNCHANGED srcReceipt
     \/ NotCommitted(x, "complete")
  /\ UNCHANGED <<queueVars, gate, ledgerVars, recon>>

\* completeWritebackIntent, or requireWritebackReconciliation after an
\* unknown outcome.  Completing an intent that somebody resolved meanwhile
\* throws, and applyPostgresJob reports TRANSACTION_FAILED.
CompleteWritebackIntent(x) ==
  LET p == proc[x].p IN
  /\ At(x, "complete")
  /\ CASE proc[x].res = "reconciliation_required" ->
            RequireWritebackReconciliation(p) /\ Goto(x, "receipt")
       [] proc[x].res # "reconciliation_required"
          /\ intent[p].status \in {"applying", "reconciliation_required"} ->
            /\ UpdateIntent(p, proc[x].res, proc[x].code)
            /\ Goto(x, "receipt")
       [] proc[x].res # "reconciliation_required"
          /\ intent[p].status \notin {"applying", "reconciliation_required"} ->
            WithResult(x, "receipt", "failed", "retryable") /\ UNCHANGED intent
  /\ UNCHANGED <<queueVars, gate, sourceVars, receipts, mutated, recon>>

-----------------------------------------------------------------------------
(***************************************************************************)
(* The execution receipt, and what the worker makes of it.                 *)
(***************************************************************************)

\* recordExecutionReceiptRows: INSERT OR IGNORE under UNIQUE (job id, key),
\* then an unconditional update of the proposal.
RecordRows(p, attempt, status, code, sawMutated) ==
  /\ receipts' = [receipts EXCEPT ![p] =
                    IF \E i \in DOMAIN @ : @[i].attempt = attempt THEN @
                    ELSE Append(@, [attempt |-> attempt, status |-> status, code |-> code])]
  /\ pstate' = [pstate EXCEPT ![p] = StateFromReceipt(status)]
  /\ mutated' = [mutated EXCEPT ![p] = status = "applied" \/ sawMutated]

\* recordExecutionReceipt reads the proposal before its transaction.
ReadForReceipt(x) ==
  /\ At(x, "receipt")
  /\ proc' = [proc EXCEPT ![x].pc = "record", ![x].sawMutated = mutated[proc[x].p]]
  /\ UNCHANGED <<queueVars, gate, sourceVars, ledgerVars, recon>>

RecordExecutionReceipt(x) ==
  /\ At(x, "record")
  /\ RecordRows(proc[x].p, proc[x].attempt, proc[x].res, proc[x].code, proc[x].sawMutated)
  /\ proc' = [proc EXCEPT ![x] =
                IF x \in Workers
                  THEN [Idle EXCEPT !.pc = "outcome", !.p = proc[x].p, !.lease = proc[x].lease]
                  ELSE Idle]
  /\ UNCHANGED <<queue, issued, aged, recent, call, gate, sourceVars, intent, recon>>

\* The last stored receipt decides the error code and the outcome.
LastReceipt(p) ==
  IF receipts[p] = << >> THEN [attempt |-> 0, status |-> "none", code |-> "none"]
                         ELSE receipts[p][Len(receipts[p])]

ReadOutcome(w) ==
  LET p == proc[w].p
      s == pstate[p] IN
  /\ At(w, "outcome")
  /\ CASE s = "applied" ->
            WithResult(w, "finish",
                       IF LastReceipt(p).status = "already_applied" THEN "already_applied"
                                                                    ELSE "applied", "none")
       [] s \in {"conflict", "reconciliation_required"} ->
            WithResult(w, "finish", s, LastReceipt(p).code)
       [] s = "failed" ->
            WithResult(w, "finish", "failed",
                       IF LastReceipt(p).code = "none" THEN "fatal" ELSE LastReceipt(p).code)
       [] s \notin {"applied", "conflict", "reconciliation_required", "failed"} ->
            WithResult(w, "finish", "failed", "fatal")
  /\ UNCHANGED <<queueVars, gate, sourceVars, ledgerVars, recon>>

\* Mutant of Retryable: whatever is not a refusal is retried.
RetryableUnlessRefused(code) == code # "fatal"

\* isRetryableWritebackCode.
Retryable(code) == code = "retryable" \/ (code = "exec" /\ ~Supervised)

\* finishWorkerFailure.
FinishWorkerFailure(w, p, n, code) ==
  IF Supervised /\ code = "unknown" THEN ParkWorkerItem(w, p, n, "reconciliation_required", code)
  ELSE IF Retryable(code) THEN RetryWorkerItem(w, p, n, code)
  ELSE ParkWorkerItem(w, p, n, IF Supervised THEN "blocked" ELSE "dead_letter", code)

\* The queue operation that closes the turn.  Without the lease it throws
\* WORKER_LEASE_MISMATCH and the process ends.
Finish(w) ==
  LET p == proc[w].p
      n == proc[w].lease
      res == proc[w].res IN
  /\ At(w, "finish")
  /\ IF HoldsLease(w, p, n)
       THEN CASE res \in {"applied", "already_applied", "conflict"} ->
                   CompleteWorkerItem(w, p, n, res)
              [] res = "reconciliation_required" ->
                   ParkWorkerItem(w, p, n, res, IF proc[w].code = "none" THEN "unknown" ELSE proc[w].code)
              [] OTHER -> FinishWorkerFailure(w, p, n, proc[w].code)
       ELSE UNCHANGED queueVars
  /\ proc' = [proc EXCEPT ![w] = Idle]
  /\ UNCHANGED <<gate, sourceVars, ledgerVars, recon>>

-----------------------------------------------------------------------------
(***************************************************************************)
(* Operators, other applications and failures.                             *)
(***************************************************************************)

\* Mutant of SupportedOutcome: an advanced version alone counts as applied.
SupportedOutcomeByVersion(p) ==
  IF version[Target[p]] = ReviewedVersion THEN "failed" ELSE "applied"

\* reconciliationObservation and reconciliationSupportedOutcome: the values
\* and the version of the row as the operator sees them.
SupportedOutcome(p) ==
  IF writer[Target[p]] = p /\ version[Target[p]] = ReviewedVersion + 1 THEN "applied"
  ELSE IF version[Target[p]] = ReviewedVersion THEN "failed"
  ELSE "conflict"

\* inspectWritebackSourceContext.
ObserveSource(p) ==
  /\ Authority = "runner_ledger"
  /\ recon = NoRecon
  /\ intent[p].status \in {"applying", "reconciliation_required"}
  /\ recon' = [p |-> p, outcome |-> SupportedOutcome(p)]
  /\ UNCHANGED <<queueVars, proc, gate, sourceVars, ledgerVars>>

\* reconcileWritebackIntent: the intent by compare-and-set, the receipt, and
\* the queue row if it waits for reconciliation.
ReconcileWritebackIntent ==
  LET p == recon.p
      out == recon.outcome
      code == IF out = "applied" THEN "none" ELSE "fatal" IN
  /\ recon # NoRecon
  /\ intent[p].status \in {"applying", "reconciliation_required"}
  /\ UpdateIntent(p, out, code)
  /\ RecordRows(p, intent[p].attempt, out, code, mutated[p])
  /\ queue' = [queue EXCEPT ![p] =
                 IF @.status # "reconciliation_required" THEN @
                 ELSE IF out = "failed" THEN Released(@, "dead_letter", "fatal", "dead_letter")
                 ELSE Released(@, "completed", "none", out)]
  /\ recent' = IF queue[p].status = "reconciliation_required" /\ out # "failed"
                 THEN recent \cup {p} ELSE recent
  /\ recon' = NoRecon
  /\ UNCHANGED <<issued, aged, call, proc, gate, sourceVars>>

\* The intent changed meanwhile (WRITEBACK_INTENT_RECONCILIATION_CONFLICT),
\* or the operator gave up.
AbandonReconciliation ==
  /\ recon # NoRecon
  /\ recon' = NoRecon
  /\ UNCHANGED <<queueVars, proc, gate, sourceVars, ledgerVars>>

\* A receipt that proves the effect stops requeueDeadLetter.
ProvenEffect(p) ==
  \E i \in DOMAIN receipts[p] : receipts[p][i].status \in {"applied", "already_applied"}

\* Enqueueing, and the operator's cancel, requeue and discard.
QueueCall ==
  /\ \/ \E op \in CallOps, p \in Proposals : BeginCall(op, p)
     \/ AbandonCall
     \/ CommitEnqueue
     \/ CommitCancel
     \/ call # NoCall /\ CommitRequeue(ProvenEffect(call.p))
     \/ \E p \in Proposals : DiscardDeadLetter(p)
  /\ UNCHANGED <<proc, gate, sourceVars, ledgerVars, recon>>

\* Pause, drain, disable or an unhealthy sink closes the gate; resuming or a
\* healthy delivery opens it.
ToggleGate ==
  /\ Supervised
  /\ gate' = ~gate
  /\ UNCHANGED <<queueVars, proc, sourceVars, ledgerVars, recon>>

Time ==
  /\ \E p \in Proposals : LeaseExpires(p) \/ ProposalAges(p) \/ RateWindowPasses(p)
  /\ UNCHANGED <<proc, gate, sourceVars, ledgerVars, recon>>

ExternalWrite(r) ==
  /\ version[r] < MaxVersion
  /\ version' = [version EXCEPT ![r] = @ + 1]
  /\ writer' = [writer EXCEPT ![r] = NoProposal]
  /\ UNCHANGED <<queueVars, proc, gate, effects, srcReceipt, ledgerVars, recon>>

\* A crash loses the process's memory; the store and the source stay.
Crash(x) ==
  /\ ~At(x, "idle")
  /\ proc' = [proc EXCEPT ![x] = Idle]
  /\ UNCHANGED <<queueVars, gate, sourceVars, ledgerVars, recon>>

-----------------------------------------------------------------------------

\* The claim transaction of one turn, whatever it finds.
ClaimTurn(w) == (\E p \in Proposals : Claim(w, p)) \/ ClaimNothing(w)

WorkerStep(w) ==
  \/ Poll(w)
  \/ ClaimTurn(w)
  \/ Preflight(w)
  \/ ReadClock(w)
  \/ Renew(w)
  \/ ReadOutcome(w)
  \/ Finish(w)

ApplyStep(x) ==
  \/ ReadProposal(x)
  \/ CreateJob(x)
  \/ Verify(x)
  \/ ApplyWithSourceReceipt(x)
  \/ ClaimWritebackIntent(x)
  \/ MarkWritebackIntentApplying(x)
  \/ ApplyWithIntent(x)
  \/ CompleteWritebackIntent(x)
  \/ ReadForReceipt(x)
  \/ RecordExecutionReceipt(x)
  \/ ConnectionFails(x)

Next ==
  \/ \E w \in Workers : WorkerStep(w)
  \/ \E x \in Processes : ApplyStep(x) \/ Crash(x)
  \/ \E o \in Operators, p \in Proposals : ManualApply(o, p)
  \/ \E p \in Proposals : ObserveSource(p)
  \/ ReconcileWritebackIntent
  \/ AbandonReconciliation
  \/ QueueCall
  \/ ToggleGate
  \/ Time
  \/ \E r \in Rows : ExternalWrite(r)

Spec == Init /\ [][Next]_vars

\* A worker process that runs keeps taking its next step, and one that is
\* restarted again and again sooner or later gets through a turn's poll and
\* claim (hence strong fairness of these two); leases expire.  No fairness
\* for crashes, operators, other applications or the gate.
Fairness ==
  /\ \A w \in Workers : /\ WF_vars(WorkerStep(w) \/ ApplyStep(w))
                        /\ SF_vars(Poll(w))
                        /\ SF_vars(ClaimTurn(w))
  /\ \A p \in Proposals :
       WF_vars(LeaseExpires(p) /\ UNCHANGED <<proc, gate, sourceVars, ledgerVars, recon>>)

FairSpec == Spec /\ Fairness

-----------------------------------------------------------------------------
(***************************************************************************)
(* Properties.                                                             *)
(***************************************************************************)

\* Every variable keeps to its columns: the queue, the processes, the source
\* rows and the ledger.
TypeOK ==
  /\ QueueTypeOK
  /\ proc \in [Processes -> Process]
  /\ gate \in BOOLEAN
  /\ version \in [Rows -> Nat]
  /\ writer \in [Rows -> Proposals \cup {NoProposal}]
  /\ effects \in [Proposals -> Nat]
  /\ srcReceipt \in [Proposals -> Results]
  /\ intent \in [Proposals -> [status : IntentStatuses \cup {"absent"}, attempt : Nat, code : Codes]]
  /\ receipts \in [Proposals -> Seq(Receipt)]
  /\ mutated \in [Proposals -> BOOLEAN]
  /\ recon \in [p : Proposals, outcome : {"applied", "failed", "conflict"}] \cup {NoRecon}

\* Whatever crashes, lost acknowledgements, expired leases, retries, requeues
\* and concurrent manual applies happen, the source row is mutated at most
\* once for a proposal.  ("Delivery may repeat; mutation must not.")
AtMostOnce == \A p \in Proposals : effects[p] <= 1

\* The ledger never claims an effect that was not committed: neither the
\* proposal's state and mutated flag, nor a stored receipt, nor the outcome
\* of a completed queue row.
LedgerClaimsAreReal ==
  \A p \in Proposals :
    \/ pstate[p] = "applied"
    \/ mutated[p]
    \/ ProvenEffect(p)
    \/ queue[p].outcome \in {"applied", "already_applied"}
    => effects[p] = 1

\* With source receipts a proposal reported as a conflict never touched the
\* source, in whatever order late and repeated attempts report.
ConflictMeansUntouched ==
  Authority = "source_db" =>
    \A p \in Proposals :
      pstate[p] = "conflict" \/ queue[p].outcome = "conflict" => effects[p] = 0

\* Two proposals reviewed at the same version of one row never both take
\* effect, when the update advances the version it is guarded by.
OneWinnerPerVersion ==
  VersionAdvances =>
    \A p, q \in Proposals :
      p # q /\ Target[p] = Target[q] => effects[p] + effects[q] <= 1

\* A row that waits for a retry still has budget for it, also after expired
\* leases were reclaimed past the budget and after a requeue reset it.
RetryWithinBudget ==
  \A p \in Proposals :
    queue[p].status = "retry_wait" => queue[p].attempts < queue[p].budget

\* A leased row is closed only by a worker that presents the lease the row
\* carries at that moment (a stale worker never closes its successor's row),
\* or by a claim that finds it expired and past its TTL.
LeaseFencing ==
  [][\A p \in Proposals :
       queue[p].status = "leased" /\ queue'[p].status # "leased" =>
         \/ \E w \in Workers :
              /\ proc[w].p = p /\ proc[w].pc = "finish" /\ proc'[w].pc = "idle"
              /\ proc[w].lease = queue[p].lease
         \/ ~queue[p].live /\ p \in aged]_vars

\* The lease token a worker remembers during its turn, and whether it is
\* between the clock and the transaction of a renewal.
Held ==
  [w \in Workers |-> IF proc[w].pc \in {"idle", "poll"}
                       THEN [p |-> NoProposal, lease |-> 0, renews |-> FALSE]
                       ELSE [p |-> proc[w].p, lease |-> proc[w].lease,
                             renews |-> proc[w].pc = "renewing"]]

Fleet == INSTANCE WorkerFleet WITH
           held <- Held,
           ResultStates <- States \ {"approved", "canceled"},
           FailureCodes <- Codes,
           Reconciles <- Authority = "runner_ledger"

\* Every step of an execution is, for the queue, a step of WorkerFleet: so
\* what is shown there of concurrency, rate and closed rows holds here.
ImplementsFleet == Fleet!FleetSpec

\* Work that was leased is decided even if its worker dies: the row is closed,
\* or an expired lease is reclaimed until the proposal has an outcome.  The
\* supervision gate must open again and again, and the instance's MaxLeases
\* must not run out first.
LeasedWorkIsDecided ==
  []<>gate =>
    \A p \in Proposals :
      queue[p].status = "leased" ~>
        \/ queue[p].status # "leased"
        \/ pstate[p] \notin ClaimableStates
        \/ issued[p] = MaxLeases

=============================================================================
