---------------------------- MODULE ExploreBudget ----------------------------
(***************************************************************************)
(* The privacy accounting of production Explore: the rolling query, rate,  *)
(* cell and differencing budgets of a principal and of its tenant, the     *)
(* complementary-release ledger, and the run of one query around them.     *)
(*                                                                         *)
(* A request reads the clock, waits for the advisory locks of its two      *)
(* scopes, counts, and inserts its reservation with the time it read       *)
(* first; it then queries the source, claims the privacy release of what   *)
(* it found, finalizes the reservation and only then answers.  It may die  *)
(* anywhere.  The two rows of a reservation (principal and tenant) are     *)
(* written and finalized together and are one record here.  All requests   *)
(* are about one resource.                                                 *)
(***************************************************************************)
EXTENDS Integers, FiniteSets

CONSTANTS
    Requests,      \* runs of the query tool, one reservation_id each
    Principals,    \* principal scopes
    Tenant,        \* the tenant scope
    Plans,         \* the plans callers submit
    Results,       \* what a query finds: cells, and releases to claim
    Window,        \* the rolling 24 hours
    Minute,        \* the rolling minute
    Retention,     \* PRODUCTION_EXPLORE_BUDGET_RETENTION_MS, seven days
    QueryLimit,    \* max_queries_per_session, by scope
    RateLimit,     \* rate_limit_per_minute, by scope
    CellLimit,     \* max_extracted_cells_per_session, by scope
    VariantLimit,  \* max_differencing_queries, by scope
    MaxResponse,   \* max_response_cells
    MaxLag,        \* how long a transaction may wait after it read the clock
    MaxTime,       \* bound: the end of time
    NoRequest      \* a free lock

Scopes == Principals \cup {Tenant}
Times == 0 .. MaxTime
Kinds == {"scalar_total", "suppressed_grouping"}
Opposite(kind) == IF kind = "scalar_total" THEN "suppressed_grouping"
                                           ELSE "scalar_total"

ASSUME BudgetAssumption ==
    /\ IsFiniteSet(Requests) /\ NoRequest \notin Requests
    /\ {Window, Minute, Retention, MaxLag, MaxTime, MaxResponse} \subseteq Nat
    /\ {QueryLimit, RateLimit, CellLimit, VariantLimit}
         \subseteq [Scopes -> Nat \ {0}]
    /\ Minute <= Window /\ Window + MaxLag <= Retention
    /\ \A plan \in Plans : /\ plan.principal \in Principals
                           /\ plan.aggregate \in BOOLEAN
                           /\ plan.cells \in Nat
    /\ \A result \in Results : /\ result.cells \in Nat
                               /\ \A claim \in result.claims :
                                    claim.kind \in Kinds

Statuses == {"none", "pending", "released", "not_released", "pruned"}

VARIABLES
    clock,     \* the time, of the runners and of Postgres
    phase,     \* where each request is
    plan,      \* its plan
    started,   \* the clock as it read it for the budget, then for the release
    lock,      \* the budget lock of each scope
    row,       \* production_explore_budget_reservations
    found,     \* the answer of the source: its cells and its release claims
    releases,  \* production_explore_privacy_releases
    granted,   \* history: the releases that were allowed
    answered   \* the cells each request returned, or NoAnswer

vars == <<clock, phase, plan, started, lock, row, found, releases, granted,
          answered>>

NoRow == [status |-> "none", at |-> 0, cells |-> 0, counted |-> FALSE]
Nothing == [cells |-> 0, claims |-> {}]
NoAnswer == -1

Init ==
    /\ clock = 0
    /\ phase = [q \in Requests |-> "idle"]
    /\ plan \in [Requests -> Plans]
    /\ started = [q \in Requests |-> 0]
    /\ lock = [s \in Scopes |-> NoRequest]
    /\ row = [q \in Requests |-> NoRow]
    /\ found = [q \in Requests |-> Nothing]
    /\ releases = {} /\ granted = {}
    /\ answered = [q \in Requests |-> NoAnswer]

ScopesOf(q) == {plan[q].principal, Tenant}
Goes(q, to) == phase' = [phase EXCEPT ![q] = to]
Ends(q) == /\ Goes(q, "ended")
           /\ started' = [started EXCEPT ![q] = 0]
           /\ found' = [found EXCEPT ![q] = Nothing]
Free(q) == \A s \in ScopesOf(q) : lock[s] = NoRequest
Unlock(q) == lock' = [s \in Scopes |-> IF lock[s] = q THEN NoRequest
                                                      ELSE lock[s]]

----------------------------------------------------------------------------
(* The budgets *)

\* Mutant: reservations dated after "now" are not counted.
CountedUpTo(s, now, length) ==
    {r \in Requests : /\ row[r].status \notin {"none", "pruned"}
                      /\ s \in ScopesOf(r)
                      /\ row[r].at >= now - length /\ row[r].at <= now}

\* The reservations of a scope that a claim at time "now" counts.  There is
\* no upper bound: a reservation that a faster request dated later counts.
Counted(s, now, length) ==
    {r \in Requests : /\ row[r].status \notin {"none", "pruned"}
                      /\ s \in ScopesOf(r)
                      /\ row[r].at >= now - length}

\* SUM: the cells that f gives the requests in S, counted one by one.
SumOf(f, S) == Cardinality(UNION {{r} \X (1 .. f[r]) : r \in S})

Cells == [r \in Requests |-> row[r].cells]

\* Mutant: a pending reservation is not charged.
ExtractedReleased(s, now) ==
    SumOf(Cells, {r \in Counted(s, now, Window) : row[r].status = "released"})

Extracted(s, now) == SumOf(Cells, Counted(s, now, Window))

\* DISTINCT variant_fingerprint of the reservations that count as differencing
Differencing(s, now) ==
    {plan[r].variant : r \in {x \in Counted(s, now, Window) : row[x].counted}}

\* productionExploreBudgetDenial
Denied(q, s) ==
    LET now == started[q]
        variants == Differencing(s, now)
    IN \/ Cardinality(Counted(s, now, Window)) >= QueryLimit[s]
       \/ Cardinality(Counted(s, now, Minute)) >= RateLimit[s]
       \/ plan[q].cells > MaxResponse
       \/ Extracted(s, now) + plan[q].cells > CellLimit[s]
       \/ /\ plan[q].aggregate
          /\ plan[q].variant \notin variants
          /\ Cardinality(variants) >= VariantLimit[s]

----------------------------------------------------------------------------
(* The run of one request *)

Start(q) ==
    /\ phase[q] = "idle"
    /\ started' = [started EXCEPT ![q] = clock]
    /\ Goes(q, "started")
    /\ UNCHANGED <<clock, plan, lock, row, found, releases, granted, answered>>

\* lockProductionExploreScopes takes the two locks, everyone in one order, so
\* that a request that has the first one is only waiting; under them the
\* counts of both scopes leave room ...
Count(q) ==
    /\ phase[q] = "started"
    /\ Free(q)
    /\ \A s \in ScopesOf(q) : ~Denied(q, s)
    /\ lock' = [s \in Scopes |-> IF s \in ScopesOf(q) THEN q ELSE lock[s]]
    /\ Goes(q, "counted")
    /\ UNCHANGED <<clock, plan, started, row, found, releases, granted,
                   answered>>

\* ... and the rows are inserted and committed.
Reserve(q) ==
    /\ phase[q] = "counted"
    /\ row' = [row EXCEPT ![q] = [status  |-> "pending",
                                  at      |-> started[q],
                                  cells   |-> plan[q].cells,
                                  counted |-> plan[q].aggregate]]
    /\ Unlock(q)
    /\ Goes(q, "querying")
    /\ UNCHANGED <<clock, plan, started, found, releases, granted, answered>>

\* A scope is exhausted, a lock times out, or the transaction fails: no
\* reservation, no query.
Refuse(q) ==
    /\ \/ /\ phase[q] = "started"
          /\ Free(q) => \E s \in ScopesOf(q) : Denied(q, s)
       \/ phase[q] = "counted"
    /\ Unlock(q)
    /\ Ends(q)
    /\ UNCHANGED <<clock, plan, row, releases, granted, answered>>

\* Mutant: a status the table does not know.
FinalizedCompleted(q, status, cells) ==
    [row[q] EXCEPT !.status = "completed", !.cells = cells,
                   !.counted = @ /\ status = "released"]

\* completeProductionExploreBudgetReservation on a pending reservation
Finalized(q, status, cells) ==
    [row[q] EXCEPT !.status = status, !.cells = cells,
                   !.counted = @ /\ status = "released"]

\* executeBatch, shapeExploreResponse and the check of the response's size.
\* An aggregate result may need privacy releases; their transaction reads
\* the clock when it begins.
Query(q, result) ==
    /\ phase[q] = "querying"
    /\ result.cells <= MaxResponse
    /\ result.claims # {} => plan[q].aggregate
    /\ found' = [found EXCEPT ![q] = result]
    /\ started' = [started EXCEPT ![q] = clock]
    /\ Goes(q, "releasing")
    /\ UNCHANGED <<clock, plan, lock, row, releases, granted, answered>>

\* An opposite release of a scope of the request, at most 24 hours old.
Conflict(q) ==
    \E rel \in releases, claim \in found[q].claims :
        /\ rel.scope \in ScopesOf(q)
        /\ rel.kind = Opposite(claim.kind)
        /\ rel.complement = claim.complement
        /\ rel.at >= started[q] - Window

\* Mutant: ON CONFLICT DO NOTHING, the first date stays.
RecordedOnce(q) ==
    LET new == {[scope |-> s, kind |-> claim.kind,
                 complement |-> claim.complement, at |-> started[q]] :
                   s \in ScopesOf(q), claim \in found[q].claims}
        same(a, b) == /\ a.scope = b.scope /\ a.kind = b.kind
                      /\ a.complement = b.complement
    IN  releases \cup {n \in new : \A rel \in releases : ~same(rel, n)}

\* The rows of a claim replace the rows with the same key.
Recorded(q) ==
    LET new == {[scope |-> s, kind |-> claim.kind,
                 complement |-> claim.complement, at |-> started[q]] :
                   s \in ScopesOf(q), claim \in found[q].claims}
        same(a, b) == /\ a.scope = b.scope /\ a.kind = b.kind
                      /\ a.complement = b.complement
    IN  {rel \in releases : \A n \in new : ~same(rel, n)} \cup new

\* claimProductionExplorePrivacyRelease, in one transaction under the privacy
\* locks of both scopes
ClaimRelease(q) ==
    /\ phase[q] = "releasing"
    /\ ~Conflict(q)
    /\ releases' = Recorded(q)
    /\ granted' = granted \cup
         {[by |-> q, scopes |-> ScopesOf(q), kind |-> claim.kind,
           complement |-> claim.complement, at |-> started[q]] :
             claim \in found[q].claims}
    /\ Goes(q, "completing")
    /\ UNCHANGED <<clock, plan, started, lock, row, found, answered>>

\* The result is released with exactly its cells, or is larger than the
\* reservation and withheld.  "heard" is FALSE when the answer of the
\* transaction is lost: then nothing is returned either.
Complete(q, heard) ==
    /\ phase[q] = "completing"
    /\ Free(q)
    /\ row[q].status = "pending"
    /\ LET cells == found[q].cells
           fits == cells <= row[q].cells
       IN /\ row' = [row EXCEPT ![q] = IF fits THEN Finalized(q, "released", cells)
                                            ELSE Finalized(q, "not_released", 0)]
          /\ answered' = [answered EXCEPT ![q] = IF fits /\ heard THEN cells ELSE @]
    /\ Ends(q)
    /\ UNCHANGED <<clock, plan, lock, releases, granted>>

\* The query fails, its result is refused, the privacy release conflicts or
\* cannot be claimed: the reservation is given back.
GiveBack(q) ==
    /\ phase[q] \in {"querying", "releasing"}
    /\ Free(q)
    /\ row[q].status = "pending"
    /\ row' = [row EXCEPT ![q] = Finalized(q, "not_released", 0)]
    /\ Ends(q)
    /\ UNCHANGED <<clock, plan, lock, releases, granted, answered>>

\* The reservation is gone, the completion fails, or the process dies: "A
\* stranded pending reservation remains a conservative budget charge."
Strand(q) ==
    /\ phase[q] \notin {"idle", "ended"}
    /\ Unlock(q)
    /\ Ends(q)
    /\ UNCHANGED <<clock, plan, row, releases, granted, answered>>

----------------------------------------------------------------------------
(* Maintenance and time *)

\* runProductionExploreMaintenance takes no lock.
Maintain ==
    /\ row' = [q \in Requests |->
                 IF row[q].status # "none" /\ row[q].at < clock - Retention
                 THEN [row[q] EXCEPT !.status = "pruned"] ELSE row[q]]
    /\ releases' = {rel \in releases : rel.at >= clock - Window}
    /\ <<row, releases>>' # <<row, releases>>
    /\ UNCHANGED <<clock, phase, plan, started, lock, found, granted, answered>>

\* A transaction that has read the clock ends within MaxLag (lockTimeoutMs
\* for each lock, and the statements).
Tick ==
    /\ clock < MaxTime
    /\ \A q \in Requests :
         phase[q] \in {"started", "counted", "releasing"}
           => clock < started[q] + MaxLag
    /\ clock' = clock + 1
    /\ UNCHANGED <<phase, plan, started, lock, row, found, releases, granted,
                   answered>>

Next ==
    \/ \E q \in Requests :
         \/ Start(q)
         \/ Count(q)
         \/ Reserve(q)
         \/ Refuse(q)
         \/ \E result \in Results : Query(q, result)
         \/ ClaimRelease(q)
         \/ \E heard \in BOOLEAN : Complete(q, heard)
         \/ GiveBack(q)
         \/ Strand(q)
    \/ Maintain
    \/ Tick

Spec == Init /\ [][Next]_vars

----------------------------------------------------------------------------
(* Properties *)

\* The reservations ever made in a scope, dated from a to a + length.
Reserved(s, a, length) ==
    {r \in Requests : /\ row[r].status # "none"
                      /\ s \in ScopesOf(r)
                      /\ a <= row[r].at /\ row[r].at <= a + length}

Answered == {q \in Requests : answered[q] # NoAnswer}

\* The types of the variables.
TypeOK ==
    /\ clock \in Times
    /\ phase \in [Requests -> {"idle", "started", "counted", "querying",
                               "releasing", "completing", "ended"}]
    /\ plan \in [Requests -> Plans]
    /\ started \in [Requests -> Times]
    /\ lock \in [Scopes -> Requests \cup {NoRequest}]
    /\ row \in [Requests -> [status : Statuses, at : Times, cells : Nat,
                             counted : BOOLEAN]]
    /\ found \in [Requests -> Results \cup {Nothing}]
    /\ \A rel \in releases : rel.kind \in Kinds /\ rel.at \in Times
    /\ \A g \in granted : /\ g.by \in Requests /\ g.scopes \subseteq Scopes
                         /\ g.kind \in Kinds /\ g.at \in Times
    /\ answered \in [Requests -> Nat \cup {NoAnswer}]

\* In no 24 hours, and in no minute, does a principal or a tenant get more
\* queries than its limit, wherever the window begins: counting with a clock
\* that was read before the locks were waited for, in whatever order the
\* transactions commit, and although maintenance deletes old reservations
\* without a lock (claimProductionExploreBudgetReservation).
QueryBudget ==
    \A s \in Scopes, a \in Times :
        /\ Cardinality(Reserved(s, a, Window)) <= QueryLimit[s]
        /\ Cardinality(Reserved(s, a, Minute)) <= RateLimit[s]

\* The cells returned to callers for the queries of any 24 hours stay within
\* the limit: a result is only returned when its reservation was finalized
\* with at least its cells, and a reservation whose outcome nobody heard
\* stays charged (completeProductionExploreBudgetReservation).
ExtractionBudget ==
    \A s \in Scopes, a \in Times :
        SumOf(answered, Reserved(s, a, Window) \cap Answered) <= CellLimit[s]

Complementary(g, h) ==
    /\ g.by # h.by
    /\ g.scopes \cap h.scopes # {}
    /\ g.kind = Opposite(h.kind) /\ g.complement = h.complement

\* Of a scalar total and a suppressed grouping that complement each other, no
\* scope gets both within a window, up to the time by which the clock of a
\* waiting transaction lags behind, once for the claim that dates a release
\* and once for the claim that misses it after maintenance
\* (claimProductionExplorePrivacyRelease).
NoComplementaryReleases ==
    \A g, h \in granted :
        Complementary(g, h) /\ g.at <= h.at
          => h.at - g.at > Window - 2 * MaxLag
=============================================================================
