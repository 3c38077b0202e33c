------------------------------ MODULE WorkerFleet ------------------------------
(***************************************************************************)
(* What the worker queue promises a fleet of workers, whatever an          *)
(* execution does: each worker holds at most one lease token and closes    *)
(* its row with any outcome, while other processes record any result.      *)
(* GuardedWriteback, where the execution is spelled out, implements this   *)
(* specification.  Being small, it is checked with several proposals that  *)
(* compete for the concurrency and rate limits of one supervised policy.   *)
(***************************************************************************)
EXTENDS WorkerQueue

CONSTANTS
  ResultStates,  \* bound: the states that executions write
  FailureCodes,  \* bound: the codes of failures that are not retried
  Reconciles     \* receipt authority runner_ledger: operators resolve parked rows

ASSUME FleetAssumption ==
  /\ IsFiniteSet(Workers)
  /\ ResultStates \subseteq States \ {"approved", "canceled"}
  /\ FailureCodes \subseteq Codes
  /\ Reconciles \in BOOLEAN

VARIABLE
  held   \* the proposal and the lease id each worker process remembers, and
         \* whether it has read the clock for a renewal not yet committed

fleetVars == <<queueVars, held>>

NoToken == [p |-> NoProposal, lease |-> 0, renews |-> FALSE]

FleetInit == QueueInit /\ held = [w \in Workers |-> NoToken]

\* workerRun keeps the claimed item in a local variable for one turn.
FleetClaim(w, p) ==
  /\ held[w] = NoToken
  /\ ClaimWorkerItem(w, p)
  /\ held' = [held EXCEPT ![w] = [p |-> p, lease |-> issued[p] + 1, renews |-> FALSE]]

\* renewWorkerLease up to its transaction: it will compare the lease's expiry
\* with the clock read here.
FleetReadClock(w) ==
  /\ held[w] # NoToken
  /\ ~held[w].renews
  /\ HoldsActiveLease(w, held[w].p, held[w].lease)
  /\ held' = [held EXCEPT ![w].renews = TRUE]
  /\ UNCHANGED queueVars

\* Its transaction, unless another worker has claimed the row meanwhile.
FleetRenew(w) ==
  /\ held[w].renews
  /\ \/ RenewWorkerLease(w, held[w].p, held[w].lease)
     \/ ~HoldsLease(w, held[w].p, held[w].lease) /\ UNCHANGED queueVars
  /\ held' = [held EXCEPT ![w].renews = FALSE]

\* applyProposal, by a worker or by hand, writes the proposal's state.
Execute(p) ==
  /\ \E s \in ResultStates : pstate' = [pstate EXCEPT ![p] = s]
  /\ UNCHANGED <<queue, issued, aged, recent, call, held>>

\* The end of a turn.  Only a transient failure is retried; a presented token
\* that is no longer the row's closes nothing.
FleetFinish(w) ==
  LET p == held[w].p
      n == held[w].lease IN
  /\ held[w] # NoToken
  /\ ~held[w].renews
  /\ \/ \E out \in {"applied", "already_applied", "conflict"} : CompleteWorkerItem(w, p, n, out)
     \/ \E code \in {"retryable", "exec"} : RetryWorkerItem(w, p, n, code)
     \/ \E status \in {"dead_letter", "blocked", "reconciliation_required"}, code \in FailureCodes :
          ParkWorkerItem(w, p, n, status, code)
     \/ ~HoldsLease(w, p, n) /\ UNCHANGED queueVars
  /\ held' = [held EXCEPT ![w] = NoToken]

\* A crash, or a turn that ends without the store.
FleetForget(w) ==
  /\ held[w] # NoToken
  /\ held' = [held EXCEPT ![w] = NoToken]
  /\ UNCHANGED queueVars

\* reconcileWritebackIntent as far as the queue sees it.
FleetReconcile(p) ==
  /\ Reconciles
  /\ \E s \in {"applied", "conflict", "failed"} :
       /\ pstate' = [pstate EXCEPT ![p] = s]
       /\ IF queue[p].status = "reconciliation_required"
            THEN /\ queue' = [queue EXCEPT ![p] =
                                IF s = "failed" THEN Released(@, "dead_letter", "fatal", "dead_letter")
                                                ELSE Released(@, "completed", "none", s)]
                 /\ recent' = IF s = "failed" THEN recent ELSE recent \cup {p}
            ELSE UNCHANGED <<queue, recent>>
  /\ UNCHANGED <<issued, aged, call, held>>

\* Enqueueing and the operators' commands; a requeue may find proof or not.
FleetCall ==
  /\ \/ \E op \in CallOps, p \in Proposals : BeginCall(op, p)
     \/ AbandonCall
     \/ CommitEnqueue
     \/ CommitCancel
     \/ CommitRequeue(FALSE)
     \/ \E p \in Proposals : DiscardDeadLetter(p)
  /\ UNCHANGED held

FleetTime ==
  /\ \E p \in Proposals : LeaseExpires(p) \/ ProposalAges(p) \/ RateWindowPasses(p)
  /\ UNCHANGED held

FleetNext ==
  \/ \E w \in Workers, p \in Proposals : FleetClaim(w, p)
  \/ \E p \in Proposals : BlockQueuedWorkerItem(p) /\ UNCHANGED held
  \/ \E w \in Workers : FleetReadClock(w) \/ FleetRenew(w) \/ FleetFinish(w) \/ FleetForget(w)
  \/ \E p \in Proposals : Execute(p) \/ FleetReconcile(p)
  \/ FleetCall
  \/ FleetTime

FleetSpec == FleetInit /\ [][FleetNext]_fleetVars

-----------------------------------------------------------------------------
(***************************************************************************)
(* Properties.                                                             *)
(***************************************************************************)

\* The rows whose worker has passed the expiry check of a renewal and waits
\* for the lock: they can come back to life after their lease has expired.
Renewable ==
  {p \in Proposals : \E w \in Workers :
     held[w].renews /\ held[w].p = p /\ HoldsLease(w, p, held[w].lease)}

\* claimWorkerItem counts the unexpired leases, and a renewal that waited for
\* the lock can revive one that expired meanwhile.  So more rows can be under
\* an unexpired lease than the policy's concurrency allows, but never by more
\* than the workers other than the one claiming.
ConcurrencyOvershootBound ==
  Supervised => Cardinality(LiveLeases) <= MaxConcurrent - 1 + Cardinality(Workers)

\* A renewal that waited is the only exception: a lease that expired before
\* its worker read the clock never comes back to life, and a row is put under
\* a new lease only while fewer than the policy's concurrency are unexpired.
LeasesStartUnderCap ==
  [][Supervised =>
       \A p \in Proposals :
         p \notin LiveLeases \cup Renewable /\ p \in (LiveLeases \cup Renewable)' =>
           Cardinality(LiveLeases) < MaxConcurrent]_fleetVars

\* claimWorkerItem counts completed rows only, so the window can hold more
\* completions than rate_limit.executions, but never by more than the workers
\* that held a lease when it filled up (operators who resolve reconciliations
\* are not counted by the policy).
RateOvershootBound ==
  Supervised /\ ~Reconciles =>
    Cardinality(recent) <= RateLimit - 1 + Cardinality(Workers)

\* A row that was completed, cancelled or discarded never changes again:
\* neither a late worker, a second enqueue nor an operator's stale command
\* reopens it.
ClosedRowsStay ==
  [][\A p \in Proposals :
       queue[p].status \in {"completed", "cancelled", "discarded"} =>
         queue'[p] = queue[p]]_fleetVars
=============================================================================
