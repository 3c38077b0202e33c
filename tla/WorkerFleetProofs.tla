--------------------------- MODULE WorkerFleetProofs ---------------------------
(***************************************************************************)
(* The promises of the worker queue, for any number of workers, proposals  *)
(* and any limits.                                                         *)
(*                                                                         *)
(* Neither bound is inductive as it stands.  ConcurrencyRoom counts the    *)
(* renewals that wait for the lock as leases: only a claim adds to these,  *)
(* and it counts the unexpired ones first.  RateRoom counts the workers    *)
(* that hold a token as completions still to come.                         *)
(***************************************************************************)
EXTENDS WorkerFleet, WorkerQueueProofs, FiniteSetTheorems

\* The workers between a claim and the end of their turn.
TokenHolders == {w \in Workers : held[w] # NoToken}

FleetTypeOK ==
  /\ QueueTypeOK
  /\ held \in [Workers -> [p : Proposals, lease : Nat, renews : BOOLEAN] \cup {NoToken}]

\* The leases that are unexpired or may be revived.
Potential == LiveLeases \cup Renewable

\* Room for the renewals of every worker but the one that claims.
ConcurrencyRoom ==
  Supervised => Cardinality(Potential) <= MaxConcurrent - 1 + Cardinality(Workers)

\* A step that starts no renewal.
StartsNoRenewal == \A w \in Workers : held'[w] = held[w] \/ ~held'[w].renews

\* Room left in the rate window for the completions still to come.
RateRoom ==
  Supervised /\ ~Reconciles =>
    Cardinality(recent) + Cardinality(TokenHolders) <= RateLimit - 1 + Cardinality(Workers)

-----------------------------------------------------------------------------

\* A token that is not NoToken names a proposal and a lease id.
LEMMA TokenFields ==
  ASSUME FleetTypeOK, NEW w \in Workers, held[w] # NoToken
  PROVE  held[w].p \in Proposals /\ held[w].lease \in Nat /\ held[w].renews \in BOOLEAN
BY DEF FleetTypeOK

\* Both steps of a renewal are those of a worker with a token, and it keeps it.
LEMMA RenewalKeepsToken ==
  ASSUME FleetTypeOK, NEW w \in Workers, FleetReadClock(w) \/ FleetRenew(w)
  PROVE  /\ held[w] # NoToken
         /\ held' \in [Workers -> [p : Proposals, lease : Nat, renews : BOOLEAN] \cup {NoToken}]
         /\ \A v \in Workers : held'[v] # NoToken <=> held[v] # NoToken
<1>1. held[w] # NoToken
  BY DEF FleetReadClock, FleetRenew, NoToken
<1>2. PICK b \in BOOLEAN : held' = [held EXCEPT ![w] = [held[w] EXCEPT !.renews = b]]
  BY DEF FleetReadClock, FleetRenew, FleetTypeOK
<1> DEFINE t == [held[w] EXCEPT !.renews = b]
<1>3. t \in [p : Proposals, lease : Nat, renews : BOOLEAN]
  BY <1>1 DEF FleetTypeOK
<1>4. t # NoToken
  BY <1>3, QueueAssumption DEF NoToken
<1> HIDE DEF t
<1>5. \A v \in Workers : held'[v] = IF v = w THEN t ELSE held[v]
  BY <1>2 DEF FleetTypeOK, t
<1> QED BY <1>1, <1>2, <1>3, <1>4, <1>5 DEF FleetTypeOK, t

\* The type invariant holds of a new store with idle workers.
LEMMA FleetTypeInit == FleetInit => FleetTypeOK
BY QueueInitType DEF FleetInit, FleetTypeOK

\* Every step of the fleet preserves the type invariant.
LEMMA FleetTypeStep == FleetTypeOK /\ [FleetNext]_fleetVars => FleetTypeOK'
<1> SUFFICES ASSUME FleetTypeOK, [FleetNext]_fleetVars
             PROVE  FleetTypeOK'
  OBVIOUS
<1> USE DEF FleetTypeOK
<1>1. ASSUME NEW w \in Workers, NEW p \in Proposals, FleetClaim(w, p)
      PROVE  FleetTypeOK'
  <2>1. QueueTypeOK'
    BY <1>1, ClaimType DEF FleetClaim
  <2>2. [p |-> p, lease |-> issued[p] + 1, renews |-> FALSE]
          \in [p : Proposals, lease : Nat, renews : BOOLEAN]
    BY DEF QueueTypeOK
  <2> QED BY <1>1, <2>1, <2>2 DEF FleetClaim
<1>2. ASSUME NEW p \in Proposals, BlockQueuedWorkerItem(p), UNCHANGED held
      PROVE  FleetTypeOK'
  <2>1. Released(queue[p], "blocked", "fatal", "none") \in Row
    BY ReleasedType DEF QueueTypeOK, Statuses, Codes, Outcomes
  <2> QED BY <1>2, <2>1 DEF BlockQueuedWorkerItem, QueueTypeOK
<1>3. ASSUME NEW w \in Workers, FleetReadClock(w) \/ FleetRenew(w)
      PROVE  FleetTypeOK'
  <2>1. held[w].p \in Proposals
    BY <1>3, RenewalKeepsToken, TokenFields
  <2>2. CASE UNCHANGED queueVars
    BY <1>3, <2>2, RenewalKeepsToken DEF queueVars, QueueTypeOK
  <2>3. CASE RenewWorkerLease(w, held[w].p, held[w].lease)
    BY <1>3, <2>1, <2>3, RenewalKeepsToken, LeaseHolderType
  <2> QED BY <1>3, <2>2, <2>3 DEF FleetReadClock, FleetRenew
<1>4. ASSUME NEW w \in Workers, FleetFinish(w)
      PROVE  FleetTypeOK'
  <2> DEFINE p == held[w].p
             n == held[w].lease
  <2>1. p \in Proposals
    BY <1>4, TokenFields DEF FleetFinish
  <2>2. QueueTypeOK'
    <3>1. CASE \E out \in {"applied", "already_applied", "conflict"} : CompleteWorkerItem(w, p, n, out)
      BY <2>1, <3>1, LeaseHolderType DEF Outcomes
    <3>2. CASE \E code \in {"retryable", "exec"} : RetryWorkerItem(w, p, n, code)
      BY <2>1, <3>2, LeaseHolderType DEF Codes
    <3>3. CASE \E status \in {"dead_letter", "blocked", "reconciliation_required"},
                  code \in FailureCodes : ParkWorkerItem(w, p, n, status, code)
      BY <2>1, <3>3, LeaseHolderType, FleetAssumption DEF Statuses, Outcomes
    <3>4. CASE UNCHANGED queueVars
      BY <3>4 DEF queueVars, QueueTypeOK
    <3> QED BY <1>4, <3>1, <3>2, <3>3, <3>4 DEF FleetFinish
  <2> QED BY <1>4, <2>2 DEF FleetFinish
<1>5. ASSUME NEW w \in Workers, FleetForget(w)
      PROVE  FleetTypeOK'
  BY <1>5 DEF FleetForget, queueVars, QueueTypeOK
<1>6. ASSUME NEW p \in Proposals, Execute(p)
      PROVE  FleetTypeOK'
  BY <1>6, FleetAssumption DEF Execute, QueueTypeOK
<1>7. ASSUME NEW p \in Proposals, FleetReconcile(p)
      PROVE  FleetTypeOK'
  <2>1. /\ Released(queue[p], "dead_letter", "fatal", "dead_letter") \in Row
        /\ \A s \in {"applied", "conflict", "failed"} :
             Released(queue[p], "completed", "none", s) \in Row \/ s = "failed"
    BY ReleasedType DEF QueueTypeOK, Statuses, Codes, Outcomes
  <2> QED BY <1>7, <2>1 DEF FleetReconcile, QueueTypeOK, States
<1>8. CASE FleetCall
  <2>1. QueueTypeOK'
    BY <1>8, CallsType DEF FleetCall
  <2> QED BY <1>8, <2>1 DEF FleetCall
<1>9. CASE FleetTime
  <2>1. QueueTypeOK'
    BY <1>9, TimeType DEF FleetTime
  <2> QED BY <1>9, <2>1 DEF FleetTime
<1>10. CASE UNCHANGED fleetVars
  BY <1>10 DEF fleetVars, queueVars, QueueTypeOK
<1> QED BY <1>1, <1>2, <1>3, <1>4, <1>5, <1>6, <1>7, <1>8, <1>9, <1>10 DEF FleetNext

-----------------------------------------------------------------------------

\* The sets that the claim transaction counts are finite.
LEMMA FiniteParts ==
  ASSUME FleetTypeOK
  PROVE  /\ IsFiniteSet(LiveLeases) /\ IsFiniteSet(recent) /\ IsFiniteSet(TokenHolders)
         /\ Cardinality(LiveLeases) \in Nat /\ Cardinality(recent) \in Nat
         /\ Cardinality(TokenHolders) \in Nat /\ Cardinality(Workers) \in Nat
         /\ Cardinality(TokenHolders) <= Cardinality(Workers)
<1>1. LiveLeases \in SUBSET Proposals /\ recent \in SUBSET Proposals
  BY DEF LiveLeases, FleetTypeOK, QueueTypeOK
<1>2. TokenHolders \in SUBSET Workers
  BY DEF TokenHolders
<1>3. IsFiniteSet(Proposals) /\ IsFiniteSet(Workers)
  BY QueueAssumption, FleetAssumption
<1> QED BY <1>1, <1>2, <1>3, FS_Subset, FS_CardinalityType

\* The policy's limits are positive numbers.
LEMMA LimitsAreNat == MaxConcurrent \in Nat \ {0} /\ RateLimit \in Nat \ {0}
BY QueueAssumption

\* A step that grants no lease and starts no renewal leaves no row renewable
\* that was not.
LEMMA RenewableShrinks ==
  ASSUME StartsNoRenewal,
         \A p \in Proposals : queue'[p].status = "leased" =>
           /\ queue[p].status = "leased"
           /\ queue'[p].owner = queue[p].owner /\ queue'[p].lease = queue[p].lease
  PROVE  Renewable' \subseteq Renewable
BY DEF StartsNoRenewal, Renewable, HoldsLease

\* Rewriting one row that is then not leased adds no lease.
LEMMA RewriteAddsNoLease ==
  ASSUME FleetTypeOK, StartsNoRenewal, NEW p \in Proposals, NEW r, r.status # "leased",
         queue' = [queue EXCEPT ![p] = r]
  PROVE  Potential' \subseteq Potential
<1>1. \A q \in Proposals : queue'[q] = IF q = p THEN r ELSE queue[q]
  BY DEF FleetTypeOK, QueueTypeOK
<1>2. LiveLeases' \subseteq LiveLeases
  BY <1>1 DEF LiveLeases
<1>3. Renewable' \subseteq Renewable
  BY <1>1, RenewableShrinks
<1> QED BY <1>2, <1>3 DEF Potential

\* Giving up a lease adds none.
LEMMA ReleaseAddsNoLease ==
  ASSUME FleetTypeOK, StartsNoRenewal, NEW p \in Proposals,
         NEW status, NEW error, NEW outcome, status # "leased",
         queue' = [queue EXCEPT ![p] = Released(@, status, error, outcome)]
  PROVE  Potential' \subseteq Potential
<1> DEFINE r == Released(queue[p], status, error, outcome)
<1>1. queue[p] \in Row
  BY DEF FleetTypeOK, QueueTypeOK
<1>2. r.status = status
  BY <1>1 DEF Released, Row
<1>3. queue' = [queue EXCEPT ![p] = r]
  BY DEF FleetTypeOK, QueueTypeOK
<1> HIDE DEF r
<1> QED BY <1>2, <1>3, RewriteAddsNoLease

\* A step that leaves the queue alone adds no lease.
LEMMA SameRowsAddNoLease ==
  ASSUME StartsNoRenewal, UNCHANGED queue
  PROVE  Potential' \subseteq Potential
<1>1. LiveLeases' = LiveLeases
  BY DEF LiveLeases
<1> QED BY <1>1, RenewableShrinks DEF Potential

\* A renewal only revives a lease that was unexpired at its clock.
LEMMA RenewalAddsNoLease ==
  ASSUME FleetTypeOK, NEW w \in Workers, FleetReadClock(w) \/ FleetRenew(w)
  PROVE  Potential' \subseteq Potential
<1> DEFINE p == held[w].p
           n == held[w].lease
<1>1. p \in Proposals
  BY RenewalKeepsToken, TokenFields
<1>2. CASE FleetReadClock(w)
  <2>1. p \in LiveLeases
    BY <1>1, <1>2 DEF FleetReadClock, HoldsActiveLease, HoldsLease, LiveLeases
  <2>2. queue' = queue /\ LiveLeases' = LiveLeases
    BY <1>2 DEF FleetReadClock, queueVars, LiveLeases
  <2>3. \A v \in Workers : v # w => held'[v] = held[v]
    BY <1>2 DEF FleetReadClock, FleetTypeOK
  <2>4. held'[w].p = p
    <3>1. held[w] \in [p : Proposals, lease : Nat, renews : BOOLEAN]
      BY <1>2 DEF FleetReadClock, FleetTypeOK
    <3>2. held'[w] = [held[w] EXCEPT !.renews = TRUE]
      BY <1>2 DEF FleetReadClock, FleetTypeOK
    <3> QED BY <3>1, <3>2
  <2>5. Renewable' \subseteq Renewable \cup {p}
    BY <2>2, <2>3, <2>4 DEF Renewable, HoldsLease
  <2> QED BY <2>1, <2>2, <2>5 DEF Potential
<1>3. CASE FleetRenew(w)
  <2>1. StartsNoRenewal
    <3>1. held'[w].renews = FALSE
      <4>1. held[w] \in [p : Proposals, lease : Nat, renews : BOOLEAN]
        BY <1>3, RenewalKeepsToken DEF FleetTypeOK
      <4>2. held'[w] = [held[w] EXCEPT !.renews = FALSE]
        BY <1>3 DEF FleetRenew, FleetTypeOK
      <4> QED BY <4>1, <4>2
    <3>2. \A v \in Workers : v # w => held'[v] = held[v]
      BY <1>3 DEF FleetRenew, FleetTypeOK
    <3> QED BY <3>1, <3>2 DEF StartsNoRenewal
  <2>2. CASE RenewWorkerLease(w, p, n)
    <3>1. p \in Renewable
      BY <1>1, <1>3, <2>2 DEF FleetRenew, RenewWorkerLease, Renewable
    <3>2. \A q \in Proposals : queue'[q] = IF q = p THEN [queue[q] EXCEPT !.live = TRUE] ELSE queue[q]
      BY <1>1, <2>2 DEF RenewWorkerLease, FleetTypeOK, QueueTypeOK
    <3>3. LiveLeases' \subseteq LiveLeases \cup {p}
      BY <3>2 DEF LiveLeases
    <3>4. \A q \in Proposals : /\ queue'[q].status = queue[q].status
                               /\ queue'[q].owner = queue[q].owner
                               /\ queue'[q].lease = queue[q].lease
      BY <3>2 DEF FleetTypeOK, QueueTypeOK, Row
    <3>5. Renewable' \subseteq Renewable
      BY <2>1, <3>4, RenewableShrinks
    <3> QED BY <3>1, <3>3, <3>5 DEF Potential
  <2>3. CASE UNCHANGED queueVars
    BY <2>1, <2>3, SameRowsAddNoLease DEF queueVars
  <2> QED BY <1>3, <2>2, <2>3 DEF FleetRenew
<1> QED BY <1>2, <1>3

\* Only a claim adds a lease that is unexpired or may be revived.
LEMMA OnlyClaimsAddLeases ==
  ASSUME FleetTypeOK, [FleetNext]_fleetVars,
         \A w \in Workers, p \in Proposals : ~FleetClaim(w, p)
  PROVE  Potential' \subseteq Potential
<1>1. ASSUME UNCHANGED held PROVE StartsNoRenewal
  BY <1>1 DEF StartsNoRenewal
<1>2. ASSUME NEW w \in Workers, held' = [held EXCEPT ![w] = NoToken] PROVE StartsNoRenewal
  BY <1>2 DEF StartsNoRenewal, FleetTypeOK, NoToken
<1>3. ASSUME NEW p \in Proposals, BlockQueuedWorkerItem(p), UNCHANGED held
      PROVE  Potential' \subseteq Potential
  BY <1>1, <1>3, ReleaseAddsNoLease DEF BlockQueuedWorkerItem
<1>4. ASSUME NEW w \in Workers, FleetFinish(w)
      PROVE  Potential' \subseteq Potential
  <2> DEFINE p == held[w].p
             n == held[w].lease
  <2>1. p \in Proposals /\ StartsNoRenewal
    BY <1>2, <1>4, TokenFields DEF FleetFinish
  <2>2. ASSUME NEW out, CompleteWorkerItem(w, p, n, out)
        PROVE  Potential' \subseteq Potential
    BY <2>1, <2>2, ReleaseAddsNoLease DEF CompleteWorkerItem
  <2>3. ASSUME NEW code, RetryWorkerItem(w, p, n, code)
        PROVE  Potential' \subseteq Potential
    <3>1. RetryStatus(queue[p]) # "leased"
      BY DEF RetryStatus
    <3> QED BY <2>1, <2>3, <3>1, ReleaseAddsNoLease DEF RetryWorkerItem
  <2>4. ASSUME NEW status \in {"dead_letter", "blocked", "reconciliation_required"}, NEW code,
               ParkWorkerItem(w, p, n, status, code)
        PROVE  Potential' \subseteq Potential
    BY <2>1, <2>4, ReleaseAddsNoLease DEF ParkWorkerItem
  <2> QED BY <1>4, <2>1, <2>2, <2>3, <2>4, SameRowsAddNoLease DEF FleetFinish, queueVars
<1>5. ASSUME NEW w \in Workers, FleetForget(w)
      PROVE  Potential' \subseteq Potential
  BY <1>2, <1>5, SameRowsAddNoLease DEF FleetForget, queueVars
<1>6. ASSUME NEW p \in Proposals, Execute(p)
      PROVE  Potential' \subseteq Potential
  BY <1>1, <1>6, SameRowsAddNoLease DEF Execute
<1>7. ASSUME NEW p \in Proposals, FleetReconcile(p)
      PROVE  Potential' \subseteq Potential
  <2>1. PICK s \in {"applied", "conflict", "failed"} :
        \/ UNCHANGED queue
        \/ queue' = [queue EXCEPT ![p] = Released(@, "dead_letter", "fatal", "dead_letter")]
        \/ queue' = [queue EXCEPT ![p] = Released(@, "completed", "none", s)]
    BY <1>7 DEF FleetReconcile
  <2>2. StartsNoRenewal
    BY <1>1, <1>7 DEF FleetReconcile
  <2> QED BY <2>1, <2>2, SameRowsAddNoLease, ReleaseAddsNoLease
<1>8. CASE FleetCall
  <2>0. StartsNoRenewal
    BY <1>1, <1>8 DEF FleetCall
  <2>1. CASE UNCHANGED queue
    BY <2>0, <2>1, SameRowsAddNoLease
  <2>2. call.op # "none" => call.p \in Proposals
    BY DEF FleetTypeOK, QueueTypeOK, NoCall
  <2>3. CASE CommitEnqueue
    <3>1. [NoRow EXCEPT !.status = "queued", !.budget = MaxAttempts].status # "leased"
      BY DEF NoRow
    <3> QED BY <2>0, <2>2, <2>3, <3>1, RewriteAddsNoLease DEF CommitEnqueue
  <2>4. CASE CommitCancel
    BY <2>0, <2>2, <2>4, ReleaseAddsNoLease DEF CommitCancel
  <2>5. CASE CommitRequeue(FALSE)
    <3>1. [NoRow EXCEPT !.status = "queued", !.budget = RetryBudget].status # "leased"
      BY DEF NoRow
    <3> QED BY <2>0, <2>2, <2>5, <3>1, RewriteAddsNoLease DEF CommitRequeue
  <2>6. ASSUME NEW p \in Proposals, DiscardDeadLetter(p)
        PROVE  Potential' \subseteq Potential
    BY <2>0, <2>6, ReleaseAddsNoLease DEF DiscardDeadLetter
  <2> QED BY <1>8, <2>1, <2>3, <2>4, <2>5, <2>6 DEF FleetCall, BeginCall, AbandonCall
<1>9. CASE FleetTime
  <2>0. StartsNoRenewal
    BY <1>1, <1>9 DEF FleetTime
  <2>1. ASSUME NEW p \in Proposals, LeaseExpires(p) PROVE Potential' \subseteq Potential
    <3>1. \A q \in Proposals : queue'[q] = IF q = p THEN [queue[q] EXCEPT !.live = FALSE] ELSE queue[q]
      BY <2>1 DEF LeaseExpires, FleetTypeOK, QueueTypeOK
    <3>2. \A q \in Proposals : /\ queue'[q].status = queue[q].status
                               /\ queue'[q].owner = queue[q].owner
                               /\ queue'[q].lease = queue[q].lease
                               /\ queue'[q].live => queue[q].live
      BY <3>1 DEF FleetTypeOK, QueueTypeOK, Row
    <3>3. LiveLeases' \subseteq LiveLeases
      BY <3>2 DEF LiveLeases
    <3> QED BY <2>0, <3>2, <3>3, RenewableShrinks DEF Potential
  <2> QED BY <1>9, <2>0, <2>1, SameRowsAddNoLease DEF FleetTime, ProposalAges, RateWindowPasses
<1>10. CASE UNCHANGED fleetVars
  BY <1>1, <1>10, SameRowsAddNoLease DEF fleetVars, queueVars
<1> QED BY <1>3, <1>4, <1>5, <1>6, <1>7, <1>8, <1>9, <1>10, RenewalAddsNoLease DEF FleetNext

\* While some worker waits for no renewal, fewer rows than workers are
\* renewable.
LEMMA RenewableBound ==
  ASSUME NEW w \in Workers, ~held'[w].renews
  PROVE  /\ IsFiniteSet(Renewable') /\ Cardinality(Renewable') \in Nat
         /\ Cardinality(Renewable') <= Cardinality(Workers) - 1
<1> DEFINE T == Renewable'
           S == {v \in Workers : held'[v].renews /\ held'[v].p \in T}
           f == [v \in S |-> held'[v].p]
<1>1. f \in Surjection(S, T)
  <2>1. f \in [S -> T]
    OBVIOUS
  <2>2. \A p \in T : \E v \in S : f[v] = p
    BY DEF Renewable
  <2> QED BY <2>1, <2>2 DEF Surjection
<1>2. IsFiniteSet(Workers) /\ Cardinality(Workers) \in Nat
  BY FleetAssumption, FS_CardinalityType
<1>3. /\ IsFiniteSet(Workers \ {w})
      /\ Cardinality(Workers \ {w}) = Cardinality(Workers) - 1
  BY <1>2, FS_RemoveElement
<1>4. S \in SUBSET (Workers \ {w})
  OBVIOUS
<1> HIDE DEF S, f, T
<1>5. IsFiniteSet(S) /\ Cardinality(S) <= Cardinality(Workers \ {w})
  BY <1>3, <1>4, FS_Subset
<1>6. IsFiniteSet(T) /\ Cardinality(T) <= Cardinality(S)
  BY <1>1, <1>5, FS_Surjection
<1>7. Cardinality(T) \in Nat /\ Cardinality(S) \in Nat
  BY <1>5, <1>6, FS_CardinalityType
<1> QED BY <1>2, <1>3, <1>5, <1>6, <1>7 DEF T

\* A claim counts the unexpired leases, and then leaves the renewals of the
\* other workers to add to them.
LEMMA ClaimHasConcurrencyRoom ==
  ASSUME FleetTypeOK, NEW w \in Workers, NEW p \in Proposals, FleetClaim(w, p), Supervised
  PROVE  Cardinality(Potential') <= MaxConcurrent - 1 + Cardinality(Workers)
<1>1. /\ IsFiniteSet(LiveLeases) /\ Cardinality(LiveLeases) \in Nat
      /\ Cardinality(Workers) \in Nat
  BY FiniteParts
<1>2. Cardinality(LiveLeases) < MaxConcurrent
  BY DEF FleetClaim, ClaimWorkerItem, ClaimAdmitted
<1>3. LiveLeases' \subseteq LiveLeases \cup {p}
  <2>1. \A q \in Proposals : q # p => queue'[q] = queue[q]
    BY DEF FleetClaim, ClaimWorkerItem, FleetTypeOK, QueueTypeOK
  <2> QED BY <2>1 DEF LiveLeases
<1>4. ~held'[w].renews
  BY DEF FleetClaim, FleetTypeOK
<1>5. /\ IsFiniteSet(Renewable') /\ Cardinality(Renewable') \in Nat
      /\ Cardinality(Renewable') <= Cardinality(Workers) - 1
  BY <1>4, RenewableBound
<1>6. /\ IsFiniteSet(LiveLeases \cup {p}) /\ Cardinality(LiveLeases \cup {p}) \in Nat
      /\ Cardinality(LiveLeases \cup {p}) <= Cardinality(LiveLeases) + 1
  <2>1. /\ IsFiniteSet(LiveLeases \cup {p})
        /\ \/ Cardinality(LiveLeases \cup {p}) = Cardinality(LiveLeases)
           \/ Cardinality(LiveLeases \cup {p}) = Cardinality(LiveLeases) + 1
    BY <1>1, FS_AddElement
  <2> QED BY <1>1, <2>1, FS_CardinalityType
<1> DEFINE U == (LiveLeases \cup {p}) \cup Renewable'
<1>7. /\ IsFiniteSet(U)
      /\ Cardinality(U) <= Cardinality(LiveLeases \cup {p}) + Cardinality(Renewable')
  <2>1. /\ IsFiniteSet(U)
        /\ Cardinality(U) = Cardinality(LiveLeases \cup {p}) + Cardinality(Renewable')
                             - Cardinality((LiveLeases \cup {p}) \cap Renewable')
    BY <1>5, <1>6, FS_Union
  <2>2. Cardinality((LiveLeases \cup {p}) \cap Renewable') \in Nat
    BY <1>5, <1>6, FS_Intersection, FS_CardinalityType
  <2> QED BY <1>5, <1>6, <2>1, <2>2
<1>8. Potential' \in SUBSET U
  BY <1>3 DEF Potential
<1> HIDE DEF U
<1>9. /\ Cardinality(Potential') \in Nat /\ Cardinality(U) \in Nat
      /\ Cardinality(Potential') <= Cardinality(U)
  BY <1>7, <1>8, FS_Subset, FS_CardinalityType
<1> QED BY <1>1, <1>2, <1>5, <1>6, <1>7, <1>9, LimitsAreNat

\* The leases that are unexpired or may be revived are finitely many.
LEMMA FinitePotential ==
  /\ IsFiniteSet(Potential) /\ Cardinality(Potential) \in Nat
  /\ Cardinality(LiveLeases) \in Nat /\ Cardinality(LiveLeases) <= Cardinality(Potential)
<1>1. Potential \in SUBSET Proposals /\ LiveLeases \in SUBSET Potential
  BY DEF Potential, LiveLeases, Renewable
<1> QED BY <1>1, QueueAssumption, FS_Subset, FS_CardinalityType

\* Every step keeps the room for renewals.
LEMMA ConcurrencyStep ==
  ASSUME FleetTypeOK, ConcurrencyRoom, [FleetNext]_fleetVars
  PROVE  ConcurrencyRoom'
<1>1. CASE \E w \in Workers, p \in Proposals : FleetClaim(w, p)
  BY <1>1, ClaimHasConcurrencyRoom DEF ConcurrencyRoom
<1>2. CASE \A w \in Workers, p \in Proposals : ~FleetClaim(w, p)
  <2>1. Potential' \in SUBSET Potential
    BY <1>2, OnlyClaimsAddLeases
  <2>2. /\ Cardinality(Potential') \in Nat /\ Cardinality(Potential) \in Nat
        /\ Cardinality(Potential') <= Cardinality(Potential)
    BY <2>1, FinitePotential, FS_Subset, FS_CardinalityType
  <2>3. Cardinality(Workers) \in Nat
    BY FiniteParts
  <2> QED BY <2>2, <2>3, LimitsAreNat DEF ConcurrencyRoom
<1> QED BY <1>1, <1>2

\* The concurrency of the supervised policy is exceeded by fewer leases than
\* there are workers, for any limit and any fleet (claimWorkerItem counts the
\* unexpired leases, renewWorkerLease checks its expiry before it waits).
THEOREM FleetConcurrency == FleetSpec => []ConcurrencyOvershootBound
<1> DEFINE Inv == FleetTypeOK /\ ConcurrencyRoom
<1>1. FleetInit => Inv
  <2> SUFFICES ASSUME FleetInit PROVE ConcurrencyRoom
    BY FleetTypeInit
  <2>1. Potential = {}
    BY DEF FleetInit, QueueInit, NoRow, NoToken, LiveLeases, Renewable, Potential
  <2>2. Cardinality(Workers) \in Nat
    BY FleetAssumption, FS_CardinalityType
  <2> QED BY <2>1, <2>2, FS_EmptySet, LimitsAreNat DEF ConcurrencyRoom
<1>2. Inv /\ [FleetNext]_fleetVars => Inv'
  BY FleetTypeStep, ConcurrencyStep
<1>3. Inv => ConcurrencyOvershootBound
  BY FiniteParts, FinitePotential, LimitsAreNat DEF ConcurrencyRoom, ConcurrencyOvershootBound
<1> QED BY <1>1, <1>2, <1>3, PTL DEF FleetSpec

\* A lease is new, or comes back to life without a renewal that was already
\* waiting, only by a claim that found fewer unexpired ones than the policy
\* allows.
THEOREM FleetLeaseStart == FleetSpec => LeasesStartUnderCap
<1> DEFINE A == Supervised =>
                  \A p \in Proposals :
                    p \notin LiveLeases \cup Renewable /\ p \in (LiveLeases \cup Renewable)' =>
                      Cardinality(LiveLeases) < MaxConcurrent
<1>1. FleetTypeOK /\ [FleetNext]_fleetVars => [A]_fleetVars
  <2> SUFFICES ASSUME FleetTypeOK, [FleetNext]_fleetVars PROVE A
    OBVIOUS
  <2>1. CASE \E w \in Workers, p \in Proposals : FleetClaim(w, p)
    BY <2>1 DEF FleetClaim, ClaimWorkerItem, ClaimAdmitted
  <2>2. CASE \A w \in Workers, p \in Proposals : ~FleetClaim(w, p)
    BY <2>2, OnlyClaimsAddLeases DEF Potential
  <2> QED BY <2>1, <2>2
<1> QED BY <1>1, FleetTypeInit, FleetTypeStep, PTL DEF FleetSpec, LeasesStartUnderCap

-----------------------------------------------------------------------------

\* A turn that ends spends the worker's token and completes at most one row.
LEMMA TurnSpendsToken ==
  ASSUME FleetTypeOK, RateRoom, NEW w \in Workers, FleetFinish(w) \/ FleetForget(w)
  PROVE  RateRoom'
<1>1. held[w] # NoToken /\ held' = [held EXCEPT ![w] = NoToken]
  BY DEF FleetFinish, FleetForget
<1>2. TokenHolders' = TokenHolders \ {w} /\ w \in TokenHolders
  BY <1>1 DEF TokenHolders, FleetTypeOK
<1>3. Cardinality(TokenHolders') = Cardinality(TokenHolders) - 1
  BY <1>2, FiniteParts, FS_RemoveElement
<1>4. \/ recent' = recent
      \/ recent' = recent \cup {held[w].p}
  BY DEF FleetFinish, FleetForget, CompleteWorkerItem, RetryWorkerItem, ParkWorkerItem, queueVars
<1>5. Cardinality(recent') \in Nat /\ Cardinality(recent') <= Cardinality(recent) + 1
  <2> IsFiniteSet(recent) /\ Cardinality(recent) \in Nat
    BY FiniteParts
  <2>1. CASE recent' = recent
    BY <2>1
  <2>2. ASSUME NEW q, recent' = recent \cup {q}
        PROVE  Cardinality(recent') \in Nat /\ Cardinality(recent') <= Cardinality(recent) + 1
    <3>1. Cardinality(recent \cup {q}) = Cardinality(recent)
            \/ Cardinality(recent \cup {q}) = Cardinality(recent) + 1
      BY FS_AddElement
    <3> QED BY <2>2, <3>1
  <2> QED BY <1>4, <2>1, <2>2
<1> QED BY <1>3, <1>5, FiniteParts, LimitsAreNat DEF RateRoom

\* A claim is admitted only while the window has room, and then every worker
\* may hold a token.
LEMMA ClaimHasRoom ==
  ASSUME FleetTypeOK, FleetTypeOK', NEW w \in Workers, NEW p \in Proposals, FleetClaim(w, p)
  PROVE  RateRoom'
<1>1. recent' = recent /\ (Supervised => Cardinality(recent) < RateLimit)
  BY DEF FleetClaim, ClaimWorkerItem, ClaimAdmitted
<1>2. TokenHolders' \in SUBSET Workers
  BY DEF TokenHolders
<1>3. Cardinality(TokenHolders') \in Nat /\ Cardinality(TokenHolders') <= Cardinality(Workers)
  BY <1>2, FleetAssumption, FS_Subset, FS_CardinalityType
<1> QED BY <1>1, <1>3, FiniteParts, LimitsAreNat DEF RateRoom

\* Every other step keeps the tokens, and adds nothing to the window unless
\* it resolves a reconciliation.
LEMMA OthersKeepRoom ==
  ASSUME FleetTypeOK, RateRoom, recent' \subseteq recent,
         \A w \in Workers : held'[w] # NoToken <=> held[w] # NoToken
  PROVE  RateRoom'
<1>1. TokenHolders' = TokenHolders
  BY DEF TokenHolders
<1>2. Cardinality(recent') \in Nat /\ Cardinality(recent') <= Cardinality(recent)
  BY FiniteParts, FS_Subset, FS_CardinalityType
<1> QED BY <1>1, <1>2, FiniteParts, LimitsAreNat DEF RateRoom

\* Each action keeps the sum of completions and outstanding tokens in bounds
\* once the window is full: only a claim, which is then refused, adds a token.
LEMMA RateStep ==
  ASSUME FleetTypeOK, RateRoom, [FleetNext]_fleetVars
  PROVE  RateRoom'
<1>1. FleetTypeOK'
  BY FleetTypeStep
<1>2. ASSUME NEW w \in Workers, NEW p \in Proposals, FleetClaim(w, p)
      PROVE  RateRoom'
  BY <1>1, <1>2, ClaimHasRoom
<1>3. ASSUME NEW w \in Workers, FleetFinish(w) \/ FleetForget(w)
      PROVE  RateRoom'
  BY <1>3, TurnSpendsToken
<1>4. ASSUME NEW p \in Proposals, BlockQueuedWorkerItem(p), UNCHANGED held
      PROVE  RateRoom'
  BY <1>4, OthersKeepRoom DEF BlockQueuedWorkerItem
<1>5. ASSUME NEW w \in Workers, FleetReadClock(w) \/ FleetRenew(w)
      PROVE  RateRoom'
  <2>1. recent' = recent
    BY <1>5 DEF FleetReadClock, FleetRenew, RenewWorkerLease, queueVars
  <2> QED BY <1>5, <2>1, OthersKeepRoom, RenewalKeepsToken
<1>6. ASSUME NEW p \in Proposals, Execute(p)
      PROVE  RateRoom'
  BY <1>6, OthersKeepRoom DEF Execute
<1>7. ASSUME NEW p \in Proposals, FleetReconcile(p)
      PROVE  RateRoom'
  BY <1>7 DEF FleetReconcile, RateRoom
<1>8. CASE FleetCall
  BY <1>8, OthersKeepRoom DEF FleetCall, BeginCall, AbandonCall, CommitEnqueue, CommitCancel,
                              CommitRequeue, DiscardDeadLetter
<1>9. CASE FleetTime
  BY <1>9, OthersKeepRoom DEF FleetTime, LeaseExpires, ProposalAges, RateWindowPasses
<1>10. CASE UNCHANGED fleetVars
  BY <1>10, OthersKeepRoom DEF fleetVars, queueVars
<1> QED BY <1>2, <1>3, <1>4, <1>5, <1>6, <1>7, <1>8, <1>9, <1>10 DEF FleetNext

\* The rate window of the supervised policy is exceeded by fewer completions
\* than there are workers, for any limit and any fleet (claimWorkerItem counts
\* completed rows, completeWorkerItem does not look at the window).
THEOREM FleetRate == FleetSpec => []RateOvershootBound
<1> DEFINE Inv == FleetTypeOK /\ RateRoom
<1>1. FleetInit => Inv
  <2> SUFFICES ASSUME FleetInit PROVE RateRoom
    BY FleetTypeInit
  <2>1. recent = {} /\ TokenHolders = {}
    BY DEF FleetInit, QueueInit, TokenHolders
  <2>2. Cardinality(Workers) \in Nat
    BY FleetAssumption, FS_CardinalityType
  <2> QED BY <2>1, <2>2, FS_EmptySet, LimitsAreNat DEF RateRoom
<1>2. Inv /\ [FleetNext]_fleetVars => Inv'
  BY FleetTypeStep, RateStep
<1>3. Inv => RateOvershootBound
  BY FiniteParts, LimitsAreNat DEF RateRoom, RateOvershootBound
<1> QED BY <1>1, <1>2, <1>3, PTL DEF FleetSpec

-----------------------------------------------------------------------------

Closed(p) == queue[p].status \in {"completed", "cancelled", "discarded"}

\* A step that rewrites one row, and that row is not closed.
LEMMA RewritesOpenRow ==
  ASSUME FleetTypeOK, NEW p \in Proposals, ~Closed(p), NEW r,
         queue' = [queue EXCEPT ![p] = r]
  PROVE  \A q \in Proposals : Closed(q) => queue'[q] = queue[q]
BY DEF FleetTypeOK, QueueTypeOK

\* Every step leaves closed rows alone: the row a step rewrites was absent,
\* claimable, leased, parked for reconciliation or a dead letter.
LEMMA ClosedRowsStep ==
  ASSUME FleetTypeOK, [FleetNext]_fleetVars
  PROVE  \A q \in Proposals : Closed(q) => queue'[q] = queue[q]
<1> DEFINE Goal == \A q \in Proposals : Closed(q) => queue'[q] = queue[q]
<1> SUFFICES Goal
  OBVIOUS
<1>1. ASSUME UNCHANGED queue PROVE Goal
  BY <1>1
<1>2. ASSUME NEW p \in Proposals, Candidate(p) PROVE ~Closed(p)
  BY <1>2 DEF Candidate, Closed
<1>3. ASSUME NEW w \in Workers, NEW p \in Proposals, FleetClaim(w, p)
      PROVE  Goal
  <2>1. Candidate(p) /\ queue' = [queue EXCEPT ![p] = Leased(queue[p], w, issued[p] + 1)]
    BY <1>3 DEF FleetClaim, ClaimWorkerItem
  <2> QED BY <1>2, <2>1, RewritesOpenRow
<1>4. ASSUME NEW p \in Proposals, BlockQueuedWorkerItem(p)
      PROVE  Goal
  <2>1. Candidate(p) /\ queue' = [queue EXCEPT ![p] = Released(queue[p], "blocked", "fatal", "none")]
    BY <1>4 DEF BlockQueuedWorkerItem
  <2> QED BY <1>2, <2>1, RewritesOpenRow
<1>5. ASSUME NEW w, NEW p \in Proposals, NEW n, HoldsLease(w, p, n) PROVE ~Closed(p)
  BY <1>5 DEF HoldsLease, Closed
<1>6. ASSUME NEW w \in Workers, FleetReadClock(w) \/ FleetRenew(w)
      PROVE  Goal
  <2>1. held[w].p \in Proposals
    BY <1>6, RenewalKeepsToken, TokenFields
  <2>2. CASE RenewWorkerLease(w, held[w].p, held[w].lease)
    <3>1. /\ HoldsLease(w, held[w].p, held[w].lease)
          /\ queue' = [queue EXCEPT ![held[w].p] = [queue[held[w].p] EXCEPT !.live = TRUE]]
      BY <2>1, <2>2 DEF RenewWorkerLease, FleetTypeOK, QueueTypeOK
    <3> QED BY <1>5, <2>1, <3>1, RewritesOpenRow
  <2>3. CASE UNCHANGED queueVars
    BY <1>1, <2>3 DEF queueVars
  <2> QED BY <1>6, <2>2, <2>3 DEF FleetReadClock, FleetRenew
<1>7. ASSUME NEW w \in Workers, FleetFinish(w)
      PROVE  Goal
  <2> DEFINE p == held[w].p
             n == held[w].lease
  <2>1. p \in Proposals
    BY <1>7, TokenFields DEF FleetFinish
  <2>2. ASSUME NEW r, HoldsLease(w, p, n), queue' = [queue EXCEPT ![p] = r]
        PROVE  Goal
    BY <1>5, <2>1, <2>2, RewritesOpenRow
  <2>3. ASSUME NEW out, CompleteWorkerItem(w, p, n, out) PROVE Goal
    BY <2>2, <2>3 DEF CompleteWorkerItem
  <2>4. ASSUME NEW code, RetryWorkerItem(w, p, n, code) PROVE Goal
    BY <2>2, <2>4 DEF RetryWorkerItem
  <2>5. ASSUME NEW status, NEW code, ParkWorkerItem(w, p, n, status, code) PROVE Goal
    BY <2>2, <2>5 DEF ParkWorkerItem
  <2> QED BY <1>1, <1>7, <2>3, <2>4, <2>5 DEF FleetFinish, queueVars
<1>8. ASSUME NEW w \in Workers, FleetForget(w) PROVE Goal
  BY <1>1, <1>8 DEF FleetForget, queueVars
<1>9. ASSUME NEW p \in Proposals, Execute(p) PROVE Goal
  BY <1>1, <1>9 DEF Execute
<1>10. ASSUME NEW p \in Proposals, FleetReconcile(p) PROVE Goal
  <2>1. CASE queue[p].status = "reconciliation_required"
    <3>1. ~Closed(p)
      BY <2>1 DEF Closed
    <3>2. \E r : queue' = [queue EXCEPT ![p] = r]
      BY <1>10, <2>1 DEF FleetReconcile
    <3> QED BY <3>1, <3>2, RewritesOpenRow
  <2>2. CASE queue[p].status # "reconciliation_required"
    BY <1>1, <1>10, <2>2 DEF FleetReconcile
  <2> QED BY <2>1, <2>2
<1>11. CASE FleetCall
  <2>1. call.op # "none" => call.p \in Proposals
    BY DEF FleetTypeOK, QueueTypeOK, NoCall
  <2>2. ASSUME NEW p \in Proposals, NEW r, queue' = [queue EXCEPT ![p] = r],
               queue[p].status \in {"absent", "queued", "retry_wait", "dead_letter"}
        PROVE  Goal
    BY <2>2, RewritesOpenRow DEF Closed
  <2>3. CASE CommitEnqueue
    BY <2>1, <2>2, <2>3 DEF CommitEnqueue
  <2>4. CASE CommitCancel
    BY <2>1, <2>2, <2>4 DEF CommitCancel
  <2>5. CASE CommitRequeue(FALSE)
    BY <2>1, <2>2, <2>5 DEF CommitRequeue
  <2>6. ASSUME NEW p \in Proposals, DiscardDeadLetter(p) PROVE Goal
    BY <2>2, <2>6 DEF DiscardDeadLetter
  <2> QED BY <1>1, <1>11, <2>3, <2>4, <2>5, <2>6 DEF FleetCall, BeginCall, AbandonCall
<1>12. CASE FleetTime
  <2>1. ASSUME NEW p \in Proposals, LeaseExpires(p) PROVE Goal
    <3>1. ~Closed(p) /\ queue' = [queue EXCEPT ![p] = [queue[p] EXCEPT !.live = FALSE]]
      BY <2>1 DEF LeaseExpires, Closed
    <3> QED BY <3>1, RewritesOpenRow
  <2> QED BY <1>1, <1>12, <2>1 DEF FleetTime, ProposalAges, RateWindowPasses
<1>13. CASE UNCHANGED fleetVars
  BY <1>1, <1>13 DEF fleetVars, queueVars
<1> QED BY <1>3, <1>4, <1>6, <1>7, <1>8, <1>9, <1>10, <1>11, <1>12, <1>13 DEF FleetNext

\* No late worker, second enqueue or stale command reopens a completed,
\* cancelled or discarded row (the status checks of sqlite-worker-methods.ts).
THEOREM FleetClosedRows == FleetSpec => ClosedRowsStay
<1>1. FleetTypeOK /\ [FleetNext]_fleetVars =>
        [\A p \in Proposals :
           queue[p].status \in {"completed", "cancelled", "discarded"} =>
             queue'[p] = queue[p]]_fleetVars
  BY ClosedRowsStep DEF Closed
<1> QED BY <1>1, FleetTypeInit, FleetTypeStep, PTL DEF FleetSpec, ClosedRowsStay
=============================================================================
