------------------------- MODULE ExploreBudgetProofs -------------------------
(***************************************************************************)
(* For any number of requests, principals and plans and for every choice   *)
(* of limits, windows and lags: the query, rate and cell budgets hold, and *)
(* complementary releases are granted at least a window less two lags      *)
(* apart.                                                                  *)
(***************************************************************************)
EXTENDS ExploreBudget, FiniteSetTheorems, TLAPS

\* A transaction that has read the clock is at most MaxLag old.
Lag ==
    \A q \in Requests :
        phase[q] \in {"started", "counted", "releasing"}
          => started[q] <= clock /\ clock <= started[q] + MaxLag

\* Between counting and inserting a request holds the locks of its scopes.
Locked ==
    \A q \in Requests : phase[q] = "counted" =>
        \A s \in ScopesOf(q) : lock[s] = q

\* What a request counted is still true when it inserts.
Room ==
    \A q \in Requests : phase[q] = "counted" =>
        \A s \in ScopesOf(q) :
            /\ Cardinality(Counted(s, started[q], Window)) < QueryLimit[s]
            /\ Cardinality(Counted(s, started[q], Minute)) < RateLimit[s]

\* Maintenance only deletes what is past the retention.
PrunedIsOld ==
    \A q \in Requests : row[q].status = "pruned" => row[q].at < clock - Retention

\* A granted release is on record for each of its scopes, dated at most one
\* lag before it, or is so old that maintenance may have deleted it.
OnRecord(g, s) ==
    \E rel \in releases : /\ rel.scope = s /\ rel.kind = g.kind
                          /\ rel.complement = g.complement
                          /\ rel.at >= g.at - MaxLag

GrantsRecorded ==
    \A g \in granted :
        /\ g.at <= clock
        /\ \A s \in g.scopes : OnRecord(g, s) \/ g.at < clock - Window + MaxLag

Inv == TypeOK /\ Lag /\ Locked /\ Room /\ PrunedIsOld /\ QueryBudget
Released == TypeOK /\ Lag /\ GrantsRecorded /\ NoComplementaryReleases

----------------------------------------------------------------------------
(* Facts about the constants and the helpers *)

\* The numbers are numbers, and the windows fit into the retention.
LEMMA Numbers ==
    /\ Window \in Nat /\ Minute \in Nat /\ Retention \in Nat
    /\ MaxLag \in Nat /\ MaxTime \in Nat /\ MaxResponse \in Nat
    /\ Minute <= Window /\ Window + MaxLag <= Retention
    /\ QueryLimit \in [Scopes -> Nat \ {0}] /\ RateLimit \in [Scopes -> Nat \ {0}]
    /\ Times \subseteq Nat
BY BudgetAssumption DEF BudgetAssumption, Times

\* The scopes of a request are scopes.
LEMMA ScopesType ==
    ASSUME TypeOK, NEW q \in Requests
    PROVE  ScopesOf(q) \subseteq Scopes /\ Tenant \in ScopesOf(q)
BY BudgetAssumption DEF TypeOK, ScopesOf, Scopes, BudgetAssumption

\* Sets of reservations are finite, and a subset has no more members.
LEMMA CardinalityMono ==
    ASSUME NEW T, NEW S, S \subseteq T, T \subseteq Requests
    PROVE  /\ IsFiniteSet(S) /\ IsFiniteSet(T)
           /\ Cardinality(S) \in Nat /\ Cardinality(T) \in Nat
           /\ Cardinality(S) <= Cardinality(T)
<1>1. IsFiniteSet(Requests) BY BudgetAssumption DEF BudgetAssumption
<1>2. IsFiniteSet(T) BY <1>1, FS_Subset
<1>3. IsFiniteSet(S) /\ Cardinality(S) <= Cardinality(T) BY <1>2, FS_Subset
<1> QED BY <1>2, <1>3, FS_CardinalityType

\* One more reservation raises the number by at most one.
LEMMA CardinalityAdd ==
    ASSUME NEW T \in SUBSET Requests, NEW q \in Requests, NEW S,
           S \subseteq T \cup {q}
    PROVE  /\ Cardinality(S) \in Nat /\ Cardinality(T) \in Nat
           /\ Cardinality(S) <= Cardinality(T) + 1
<1>1. IsFiniteSet(T) /\ Cardinality(T) \in Nat BY CardinalityMono
<1>2. Cardinality(T \cup {q}) = IF q \in T THEN Cardinality(T)
                                           ELSE Cardinality(T) + 1
  BY <1>1, FS_AddElement
<1>3. Cardinality(S) \in Nat /\ Cardinality(S) <= Cardinality(T \cup {q})
  BY CardinalityMono, T \cup {q} \subseteq Requests
<1> QED BY <1>1, <1>2, <1>3

----------------------------------------------------------------------------
(* Types *)

\* The initial states are well typed.
LEMMA TypeInit == ASSUME Init PROVE TypeOK
BY BudgetAssumption DEF Init, TypeOK, BudgetAssumption, Times, NoRow, Statuses,
   Nothing, NoAnswer, Scopes

\* Every step keeps the types.
LEMMA TypeStep == ASSUME TypeOK, [Next]_vars PROVE TypeOK'
<1> USE DEF TypeOK, Goes
<1>f. \A q \in Requests : found[q].cells \in Nat
                          /\ \A claim \in found[q].claims : claim.kind \in Kinds
  BY BudgetAssumption DEF BudgetAssumption, Nothing
<1>l. \A q \in Requests : plan[q].cells \in Nat /\ plan[q].aggregate \in BOOLEAN
  BY BudgetAssumption DEF BudgetAssumption
<1>0. 0 \in Times BY Numbers DEF Times
<1>u. ASSUME NEW q \in Requests, Unlock(q)
      PROVE  lock' \in [Scopes -> Requests \cup {NoRequest}]
  BY <1>u DEF Unlock
<1>e. ASSUME NEW q \in Requests, Ends(q)
      PROVE  /\ phase' \in [Requests -> {"idle", "started", "counted", "querying",
                               "releasing", "completing", "ended"}]
             /\ started' \in [Requests -> Times]
             /\ found' \in [Requests -> Results \cup {Nothing}]
  BY <1>e, <1>0 DEF Ends
<1>r. ASSUME NEW q \in Requests, NEW status \in {"released", "not_released"},
             NEW cells \in Nat
      PROVE  Finalized(q, status, cells)
               \in [status : Statuses, at : Times, cells : Nat, counted : BOOLEAN]
  BY DEF Finalized, Statuses
<1>1. ASSUME NEW q \in Requests, Start(q) PROVE TypeOK'
  BY <1>1 DEF Start
<1>2. ASSUME NEW q \in Requests, Count(q) PROVE TypeOK'
  BY <1>2 DEF Count
<1>3. ASSUME NEW q \in Requests, Reserve(q) PROVE TypeOK'
  <2>1. [status |-> "pending", at |-> started[q], cells |-> plan[q].cells,
         counted |-> plan[q].aggregate]
          \in [status : Statuses, at : Times, cells : Nat, counted : BOOLEAN]
    BY <1>l DEF Statuses
  <2> QED BY <1>3, <1>u, <2>1 DEF Reserve
<1>4. ASSUME NEW q \in Requests, Refuse(q) PROVE TypeOK'
  BY <1>4, <1>e, <1>u DEF Refuse
<1>5. ASSUME NEW q \in Requests, NEW result \in Results, Query(q, result)
      PROVE  TypeOK'
  BY <1>5 DEF Query
<1>6. ASSUME NEW q \in Requests, ClaimRelease(q) PROVE TypeOK'
  <2>1. \A rel \in Recorded(q) : rel.kind \in Kinds /\ rel.at \in Times
    BY <1>f DEF Recorded
  <2>2. \A g \in granted' : /\ g.by \in Requests /\ g.scopes \subseteq Scopes
                            /\ g.kind \in Kinds /\ g.at \in Times
    BY <1>6, <1>f, ScopesType DEF ClaimRelease
  <2> QED BY <1>6, <2>1, <2>2 DEF ClaimRelease
<1>7. ASSUME NEW q \in Requests, NEW heard \in BOOLEAN, Complete(q, heard)
      PROVE  TypeOK'
  <2> DEFINE fits == found[q].cells <= row[q].cells
             new == IF fits THEN Finalized(q, "released", found[q].cells)
                            ELSE Finalized(q, "not_released", 0)
  <2>1. new \in [status : Statuses, at : Times, cells : Nat, counted : BOOLEAN]
    BY <1>r, <1>f
  <2>2. /\ row' = [row EXCEPT ![q] = new]
        /\ answered' = [answered EXCEPT ![q] =
                          IF fits /\ heard THEN found[q].cells ELSE answered[q]]
    BY <1>7 DEF Complete
  <2> HIDE DEF new, fits
  <2>3. /\ row' \in [Requests -> [status : Statuses, at : Times, cells : Nat,
                                  counted : BOOLEAN]]
        /\ answered' \in [Requests -> Nat \cup {NoAnswer}]
    BY <2>1, <2>2, <1>f
  <2> QED BY <1>7, <1>e, <2>3 DEF Complete
<1>8. ASSUME NEW q \in Requests, GiveBack(q) PROVE TypeOK'
  BY <1>8, <1>e, <1>r DEF GiveBack
<1>9. ASSUME NEW q \in Requests, Strand(q) PROVE TypeOK'
  BY <1>9, <1>e, <1>u DEF Strand
<1>10. CASE Maintain
  <2>1. row' \in [Requests -> [status : Statuses, at : Times, cells : Nat,
                               counted : BOOLEAN]]
    BY <1>10 DEF Maintain, Statuses
  <2> QED BY <1>10, <2>1 DEF Maintain
<1>11. CASE Tick
  BY <1>11, Numbers DEF Tick, Times
<1>12. CASE UNCHANGED vars
  BY <1>12 DEF vars
<1> QED
  BY <1>1, <1>2, <1>3, <1>4, <1>5, <1>6, <1>7, <1>8, <1>9, <1>10, <1>11, <1>12
  DEF Next

----------------------------------------------------------------------------
(* Clocks and locks *)

\* Plans never change.
LEMMA PlanFixed == ASSUME [Next]_vars PROVE plan' = plan
BY DEF Next, vars, Start, Count, Reserve, Refuse, Query, ClaimRelease, Complete,
   GiveBack, Strand, Maintain, Tick

\* A request that ends is in no phase that an invariant speaks of.
LEMMA EndsPhase ==
    ASSUME TypeOK, NEW q \in Requests, Ends(q)
    PROVE  /\ phase'[q] = "ended"
           /\ \A r \in Requests \ {q} : /\ phase'[r] = phase[r]
                                        /\ started'[r] = started[r]
BY DEF TypeOK, Ends, Goes

\* Reading the clock, waiting and ticking keep a transaction young.
LEMMA LagStep == ASSUME TypeOK, Lag, [Next]_vars PROVE Lag'
<1> USE DEF TypeOK, Goes
<1>1. ASSUME NEW q \in Requests, Start(q) PROVE Lag'
  BY <1>1, Numbers DEF Start, Lag
<1>2. ASSUME NEW q \in Requests, Count(q) PROVE Lag'
  BY <1>2 DEF Count, Lag
<1>3. ASSUME NEW q \in Requests, Reserve(q) PROVE Lag'
  BY <1>3 DEF Reserve, Lag
<1>4. ASSUME NEW q \in Requests, Refuse(q) PROVE Lag'
  BY <1>4, EndsPhase DEF Refuse, Lag
<1>5. ASSUME NEW q \in Requests, NEW result \in Results, Query(q, result)
      PROVE  Lag'
  BY <1>5, Numbers DEF Query, Lag
<1>6. ASSUME NEW q \in Requests, ClaimRelease(q) PROVE Lag'
  BY <1>6 DEF ClaimRelease, Lag
<1>7. ASSUME NEW q \in Requests, NEW heard \in BOOLEAN, Complete(q, heard)
      PROVE  Lag'
  BY <1>7, EndsPhase DEF Complete, Lag
<1>8. ASSUME NEW q \in Requests, GiveBack(q) PROVE Lag'
  BY <1>8, EndsPhase DEF GiveBack, Lag
<1>9. ASSUME NEW q \in Requests, Strand(q) PROVE Lag'
  BY <1>9, EndsPhase DEF Strand, Lag
<1>10. CASE Maintain
  <2>1. clock' = clock /\ phase' = phase /\ started' = started
    BY <1>10 DEF Maintain
  <2> QED BY <2>1 DEF Lag
<1>11. CASE Tick
  <2>1. MaxLag \in Nat /\ clock \in Nat /\ \A q \in Requests : started[q] \in Nat
    BY Numbers
  <2>2. clock' = clock + 1 /\ phase' = phase /\ started' = started
    BY <1>11 DEF Tick
  <2>3. \A q \in Requests : phase[q] \in {"started", "counted", "releasing"}
                             => clock < started[q] + MaxLag
    BY <1>11 DEF Tick
  <2> HIDE DEF TypeOK
  <2> QED BY <2>1, <2>2, <2>3 DEF Lag
<1>12. CASE UNCHANGED vars BY <1>12 DEF vars, Lag
<1> QED
  BY <1>1, <1>2, <1>3, <1>4, <1>5, <1>6, <1>7, <1>8, <1>9, <1>10, <1>11, <1>12
  DEF Next

\* Nobody takes or gives up the locks of a request that has counted.
LEMMA LockedStep == ASSUME TypeOK, Locked, [Next]_vars PROVE Locked'
<1> USE DEF TypeOK, Goes
<1>p. \A r \in Requests : ScopesOf(r)' = ScopesOf(r)
  BY PlanFixed DEF ScopesOf
<1>s. \A r \in Requests : ScopesOf(r) \subseteq Scopes
  BY ScopesType
<1>n. NoRequest \notin Requests BY BudgetAssumption DEF BudgetAssumption
<1>u. ASSUME NEW q \in Requests, Unlock(q),
             \A r \in Requests : phase'[r] = "counted" => phase[r] = "counted" /\ r # q
      PROVE  Locked'
  BY <1>u, <1>p, <1>s DEF Locked, Unlock
<1>k. ASSUME lock' = lock,
             \A r \in Requests : phase'[r] = "counted" => phase[r] = "counted"
      PROVE  Locked'
  BY <1>k, <1>p DEF Locked
<1>1. ASSUME NEW q \in Requests, Start(q) PROVE Locked'
  BY <1>1, <1>k DEF Start
<1>2. ASSUME NEW q \in Requests, Count(q) PROVE Locked'
  BY <1>2, <1>p, <1>s, <1>n DEF Count, Locked, Free
<1>3. ASSUME NEW q \in Requests, Reserve(q) PROVE Locked'
  BY <1>3, <1>u DEF Reserve
<1>4. ASSUME NEW q \in Requests, Refuse(q) PROVE Locked'
  BY <1>4, <1>u, EndsPhase DEF Refuse
<1>5. ASSUME NEW q \in Requests, NEW result \in Results, Query(q, result)
      PROVE  Locked'
  BY <1>5, <1>k DEF Query
<1>6. ASSUME NEW q \in Requests, ClaimRelease(q) PROVE Locked'
  BY <1>6, <1>k DEF ClaimRelease
<1>7. ASSUME NEW q \in Requests, NEW heard \in BOOLEAN, Complete(q, heard)
      PROVE  Locked'
  BY <1>7, <1>k, EndsPhase DEF Complete
<1>8. ASSUME NEW q \in Requests, GiveBack(q) PROVE Locked'
  BY <1>8, <1>k, EndsPhase DEF GiveBack
<1>9. ASSUME NEW q \in Requests, Strand(q) PROVE Locked'
  BY <1>9, <1>u, EndsPhase DEF Strand
<1>10. CASE Maintain BY <1>10, <1>k DEF Maintain
<1>11. CASE Tick BY <1>11, <1>k DEF Tick
<1>12. CASE UNCHANGED vars BY <1>12, <1>k DEF vars
<1> QED
  BY <1>1, <1>2, <1>3, <1>4, <1>5, <1>6, <1>7, <1>8, <1>9, <1>10, <1>11, <1>12
  DEF Next

----------------------------------------------------------------------------
(* The reservations *)

\* Every step but an insertion leaves dates alone, makes no row and revives
\* no deleted row.
RowsKept ==
    \A r \in Requests :
        /\ row'[r].at = row[r].at
        /\ row'[r].status # "none" => row[r].status # "none"
        /\ row[r].status = "pruned" => row'[r].status = "pruned"
        /\ row'[r].status = "pruned" =>
             row[r].status = "pruned" \/ row[r].at < clock - Retention

\* Only Reserve does more to the rows than RowsKept allows.
LEMMA RowsStep ==
    ASSUME TypeOK, [Next]_vars, \A q \in Requests : ~Reserve(q)
    PROVE  RowsKept
<1> USE DEF TypeOK
<1>f. ASSUME NEW q \in Requests, NEW status \in {"released", "not_released"},
             NEW cells, row[q].status = "pending",
             row' = [row EXCEPT ![q] = Finalized(q, status, cells)]
      PROVE  RowsKept
  BY <1>f DEF RowsKept, Finalized
<1>k. ASSUME row' = row PROVE RowsKept
  BY <1>k DEF RowsKept
<1>1. ASSUME NEW q \in Requests, NEW heard \in BOOLEAN, Complete(q, heard)
      PROVE  RowsKept
  <2>1. CASE found[q].cells <= row[q].cells
    BY <1>1, <1>f, <2>1 DEF Complete
  <2>2. CASE ~(found[q].cells <= row[q].cells)
    BY <1>1, <1>f, <2>2 DEF Complete
  <2> QED BY <2>1, <2>2
<1>2. ASSUME NEW q \in Requests, GiveBack(q) PROVE RowsKept
  BY <1>2, <1>f DEF GiveBack
<1>3. CASE Maintain
  BY <1>3 DEF Maintain, RowsKept
<1>4. ASSUME NEW q \in Requests,
             \/ Start(q) \/ Count(q) \/ Refuse(q) \/ ClaimRelease(q) \/ Strand(q)
             \/ \E result \in Results : Query(q, result)
      PROVE  RowsKept
  BY <1>4, <1>k DEF Start, Count, Refuse, ClaimRelease, Strand, Query
<1>5. CASE Tick \/ UNCHANGED vars
  BY <1>5, <1>k DEF Tick, vars
<1> QED BY <1>1, <1>2, <1>3, <1>4, <1>5 DEF Next

\* The clock never goes back.
LEMMA ClockStep == ASSUME TypeOK, [Next]_vars PROVE clock <= clock'
<1>1. clock \in Nat BY Numbers DEF TypeOK
<1> QED
  BY <1>1 DEF Next, vars, Start, Count, Reserve, Refuse, Query, ClaimRelease, Complete,
     GiveBack, Strand, Maintain, Tick

\* A deleted row stays old.
LEMMA PrunedStep == ASSUME TypeOK, PrunedIsOld, [Next]_vars PROVE PrunedIsOld'
<1>n. /\ clock \in Nat /\ clock' \in Nat /\ Retention \in Nat
      /\ \A q \in Requests : row[q].at \in Nat
  BY TypeStep, Numbers DEF TypeOK
<1>1. ASSUME NEW q \in Requests, Reserve(q) PROVE PrunedIsOld'
  BY <1>1, <1>n DEF Reserve, PrunedIsOld, TypeOK
<1>2. CASE \A q \in Requests : ~Reserve(q)
  BY <1>2, <1>n, RowsStep, ClockStep DEF RowsKept, PrunedIsOld
<1> QED BY <1>1, <1>2

\* What a waiting request counted cannot grow: whoever inserts into one of
\* its scopes would need the lock it holds.
LEMMA RoomStep ==
    ASSUME TypeOK, Locked, Room, [Next]_vars
    PROVE  Room'
<1> SUFFICES ASSUME NEW q \in Requests, phase'[q] = "counted",
                    NEW s \in ScopesOf(q)'
             PROVE  /\ Cardinality(Counted(s, started[q], Window)')
                         < QueryLimit[s]
                    /\ Cardinality(Counted(s, started[q], Minute)')
                         < RateLimit[s]
  BY DEF Room
<1>1. /\ plan' = plan /\ s \in ScopesOf(q) /\ s \in Scopes
      /\ ScopesOf(q)' = ScopesOf(q)
  BY PlanFixed, ScopesType DEF ScopesOf
<1>2. \A T \in SUBSET Requests : Cardinality(T) \in Nat
  BY CardinalityMono
<1>3. /\ QueryLimit[s] \in Nat /\ RateLimit[s] \in Nat
  BY <1>1, Numbers
<1>4. \A len : Counted(s, started[q], len) \subseteq Requests
  BY DEF Counted
<1>5. CASE Count(q)
  <2>1. row' = row /\ started' = started
    BY <1>5 DEF Count
  <2>2. \A len : Counted(s, started[q], len)' = Counted(s, started[q], len)
    BY <2>1, <1>1 DEF Counted, ScopesOf
  <2>3. ~Denied(q, s)
    BY <1>5, <1>1 DEF Count
  <2>4. /\ Cardinality(Counted(s, started[q], Window)) < QueryLimit[s]
        /\ Cardinality(Counted(s, started[q], Minute)) < RateLimit[s]
    BY <2>3, <1>2, <1>3, <1>4 DEF Denied
  <2> QED BY <2>2, <2>4
<1>6. CASE ~Count(q)
  <2>1. phase[q] = "counted" /\ started'[q] = started[q] /\ ~Reserve(q)
    BY <1>6, EndsPhase DEF Next, vars, Start, Count, Reserve, Refuse, Query,
       ClaimRelease, Complete, GiveBack, Strand, Maintain, Tick, TypeOK, Goes
  <2>2. /\ Cardinality(Counted(s, started[q], Window)) < QueryLimit[s]
        /\ Cardinality(Counted(s, started[q], Minute)) < RateLimit[s]
    BY <2>1, <1>1 DEF Room
  <2>3. \A len : Counted(s, started[q], len)' \subseteq Counted(s, started[q], len)
    <3>1. ASSUME NEW r \in Requests, Reserve(r)
          PROVE  \A len : Counted(s, started[q], len)'
                            \subseteq Counted(s, started[q], len)
      <4>1. phase[r] = "counted" /\ r # q
        BY <2>1, <3>1 DEF Reserve
      <4>2. lock[s] = q /\ s \notin ScopesOf(r)
        BY <4>1, <2>1, <1>1 DEF Locked
      <4>3. \A x \in Requests \ {r} : row'[x] = row[x]
        BY <3>1 DEF Reserve, TypeOK
      <4> QED BY <4>2, <4>3, <2>1, <1>1 DEF Counted, ScopesOf
    <3>2. CASE \A r \in Requests : ~Reserve(r)
      BY <3>2, RowsStep, <2>1, <1>1 DEF RowsKept, Counted, ScopesOf
    <3> QED BY <3>1, <3>2
  <2>4. ASSUME NEW len
        PROVE  /\ Cardinality(Counted(s, started[q], len)') \in Nat
               /\ Cardinality(Counted(s, started[q], len)) \in Nat
               /\ Cardinality(Counted(s, started[q], len)')
                    <= Cardinality(Counted(s, started[q], len))
    BY <2>3, <1>4, CardinalityMono
  <2>5. /\ Cardinality(Counted(s, started[q], Window)')
             <= Cardinality(Counted(s, started[q], Window))
        /\ Cardinality(Counted(s, started[q], Minute)')
             <= Cardinality(Counted(s, started[q], Minute))
        /\ Cardinality(Counted(s, started[q], Window)') \in Nat
        /\ Cardinality(Counted(s, started[q], Minute)') \in Nat
        /\ Cardinality(Counted(s, started[q], Window)) \in Nat
        /\ Cardinality(Counted(s, started[q], Minute)) \in Nat
    BY <2>4
  <2> QED BY <2>2, <2>5, <1>3
<1> QED BY <1>5, <1>6

----------------------------------------------------------------------------
(* The query and rate budgets *)

\* A window of either length that a limit belongs to.
Budgeted(length, limit) ==
    \/ length = Window /\ limit = QueryLimit
    \/ length = Minute /\ limit = RateLimit

\* All that an insertion finds in any window around its date was counted: no
\* row was deleted too early, and rows dated later count too.
LEMMA ReservedWereCounted ==
    ASSUME Inv, NEW q \in Requests, Reserve(q), NEW s \in ScopesOf(q),
           NEW a \in Times, NEW length \in Nat, length <= Window,
           a <= started[q], started[q] <= a + length
    PROVE  Reserved(s, a, length)' \subseteq Counted(s, started[q], length) \cup {q}
<1> USE DEF Inv
<1>1. SUFFICES ASSUME NEW r \in Requests, r # q, r \in Reserved(s, a, length)'
               PROVE  r \in Counted(s, started[q], length)
  BY DEF Reserved
<1>2. row'[r] = row[r] /\ plan' = plan
  BY <1>1 DEF Reserve, TypeOK
<1>3. /\ row[r].status # "none" /\ s \in ScopesOf(r)
      /\ a <= row[r].at /\ row[r].at <= a + length
  BY <1>1, <1>2 DEF Reserved, ScopesOf
<1>n. /\ row[r].at \in Nat /\ started[q] \in Nat /\ clock \in Nat /\ a \in Nat
      /\ Window \in Nat /\ Retention \in Nat /\ MaxLag \in Nat
      /\ Window + MaxLag <= Retention
  BY Numbers DEF TypeOK
<1>4. row[r].at >= started[q] - length
  BY <1>3, <1>n
<1>5. clock <= started[q] + MaxLag
  BY DEF Lag, Reserve
<1>6. row[r].status # "pruned"
  BY <1>4, <1>5, <1>n DEF PrunedIsOld
<1> QED BY <1>3, <1>4, <1>6 DEF Counted

\* The budgets hold after every step.
LEMMA BudgetStep == ASSUME Inv, [Next]_vars PROVE QueryBudget'
<1> USE DEF Inv
<1> SUFFICES ASSUME NEW s \in Scopes, NEW a \in Times,
                    NEW length, NEW limit, Budgeted(length, limit)
             PROVE  Cardinality(Reserved(s, a, length)') <= limit[s]
  BY DEF QueryBudget, Budgeted
<1>n. length \in Nat /\ length <= Window /\ limit[s] \in Nat
  BY Numbers DEF Budgeted
<1>1. Cardinality(Reserved(s, a, length)) <= limit[s]
  BY DEF QueryBudget, Budgeted
<1>2. Reserved(s, a, length) \subseteq Requests
  BY DEF Reserved
<1>3. CASE Reserved(s, a, length)' \subseteq Reserved(s, a, length)
  BY <1>1, <1>2, <1>3, <1>n, CardinalityMono
<1>4. ASSUME NEW q \in Requests, Reserve(q)
      PROVE  Cardinality(Reserved(s, a, length)') <= limit[s]
  <2>1. /\ plan' = plan
        /\ row'[q].at = started[q]
        /\ \A r \in Requests \ {q} : row'[r] = row[r]
    BY <1>4 DEF Reserve, TypeOK
  <2>2. CASE s \in ScopesOf(q) /\ a <= started[q] /\ started[q] <= a + length
    <3>1. Reserved(s, a, length)' \subseteq Counted(s, started[q], length) \cup {q}
      BY <1>4, <2>2, <1>n, ReservedWereCounted
    <3>2. Counted(s, started[q], length) \in SUBSET Requests
      BY DEF Counted
    <3>3. Cardinality(Counted(s, started[q], length)) < limit[s]
      BY <1>4, <2>2 DEF Room, Reserve, Budgeted
    <3>4. /\ Cardinality(Reserved(s, a, length)') \in Nat
          /\ Cardinality(Counted(s, started[q], length)) \in Nat
          /\ Cardinality(Reserved(s, a, length)')
               <= Cardinality(Counted(s, started[q], length)) + 1
      BY <3>1, <3>2, CardinalityAdd
    <3> QED BY <3>3, <3>4, <1>n
  <2>3. CASE ~(s \in ScopesOf(q) /\ a <= started[q] /\ started[q] <= a + length)
    <3>1. Reserved(s, a, length)' \subseteq Reserved(s, a, length)
      BY <2>1, <2>3 DEF Reserved, ScopesOf
    <3> QED BY <3>1, <1>3
  <2> QED BY <2>2, <2>3
<1>5. CASE \A q \in Requests : ~Reserve(q)
  <2>1. Reserved(s, a, length)' \subseteq Reserved(s, a, length)
    BY <1>5, RowsStep, PlanFixed DEF RowsKept, Reserved, ScopesOf
  <2> QED BY <2>1, <1>3
<1> QED BY <1>4, <1>5

\* The initial states.
LEMMA InvInit == ASSUME Init PROVE Inv
<1>1. TypeOK BY TypeInit
<1>2. \A s \in Scopes, a \in Times, length \in Nat : Reserved(s, a, length) = {}
  BY DEF Init, Reserved, NoRow
<1>3. QueryBudget
  BY <1>2, Numbers, FS_EmptySet DEF QueryBudget
<1>4. Lag /\ Locked /\ Room /\ PrunedIsOld
  BY DEF Init, Lag, Locked, Room, PrunedIsOld, NoRow
<1> QED BY <1>1, <1>3, <1>4 DEF Inv

\* Whatever the interleaving of requests, locks, failures, maintenance and
\* time, no principal and no tenant gets more queries than its limits in any
\* 24 hours or in any minute.
THEOREM ExploreQueryBudget == Spec => []QueryBudget
<1>1. Init => Inv BY InvInit
<1>2. Inv /\ [Next]_vars => Inv'
  BY TypeStep, LagStep, LockedStep, RoomStep, PrunedStep, BudgetStep DEF Inv
<1>3. Inv => QueryBudget BY DEF Inv
<1> QED BY <1>1, <1>2, <1>3, PTL DEF Spec

\* Every reachable state is well typed.
THEOREM ExploreTypes == Spec => []TypeOK
<1>1. Init => Inv BY InvInit
<1>2. Inv /\ [Next]_vars => Inv'
  BY TypeStep, LagStep, LockedStep, RoomStep, PrunedStep, BudgetStep DEF Inv
<1>3. Inv => TypeOK BY DEF Inv
<1> QED BY <1>1, <1>2, <1>3, PTL DEF Spec

----------------------------------------------------------------------------
(* Complementary releases *)

\* What a claim adds to the history.
NewGrants(q) ==
    {[by |-> q, scopes |-> ScopesOf(q), kind |-> claim.kind,
      complement |-> claim.complement, at |-> started[q]] :
        claim \in found[q].claims}

\* A step other than a claim grants nothing, and deletes nothing but releases
\* that are older than the window.
LEMMA ReleasesKept ==
    ASSUME [Next]_vars, \A q \in Requests : ~ClaimRelease(q)
    PROVE  /\ granted' = granted
           /\ \A rel \in releases : rel \in releases' \/ ~(rel.at >= clock - Window)
BY DEF Next, vars, Start, Count, Reserve, Refuse, Query, Complete, GiveBack,
   Strand, Maintain, Tick

\* A claim puts a row of its own date in the place of every row it replaces.
LEMMA RecordedKeeps ==
    ASSUME NEW q \in Requests, NEW rel \in releases
    PROVE  \E new \in Recorded(q) :
              /\ new.scope = rel.scope /\ new.kind = rel.kind
              /\ new.complement = rel.complement
              /\ new = rel \/ new.at = started[q]
<1> DEFINE fresh == {[scope |-> s, kind |-> claim.kind,
                      complement |-> claim.complement, at |-> started[q]] :
                        s \in ScopesOf(q), claim \in found[q].claims}
<1>1. \A n \in fresh : n \in Recorded(q) /\ n.at = started[q]
  BY DEF Recorded
<1>2. CASE \E n \in fresh : /\ rel.scope = n.scope /\ rel.kind = n.kind
                            /\ rel.complement = n.complement
  BY <1>1, <1>2
<1>3. CASE ~\E n \in fresh : /\ rel.scope = n.scope /\ rel.kind = n.kind
                             /\ rel.complement = n.complement
  BY <1>3 DEF Recorded
<1> QED BY <1>2, <1>3

\* Grants stay on record, up to a lag.
LEMMA GrantsStep ==
    ASSUME TypeOK, Lag, GrantsRecorded, [Next]_vars
    PROVE  GrantsRecorded'
<1>n. /\ clock \in Nat /\ clock' \in Nat /\ Window \in Nat /\ MaxLag \in Nat
      /\ clock <= clock'
      /\ \A rel \in releases : rel.at \in Nat
      /\ \A g \in granted : g.at \in Nat
      /\ \A q \in Requests : started[q] \in Nat
  BY TypeStep, ClockStep, Numbers DEF TypeOK
<1>1. ASSUME NEW q \in Requests, ClaimRelease(q) PROVE GrantsRecorded'
  <2>1. /\ releases' = Recorded(q) /\ clock' = clock
        /\ granted' = granted \cup NewGrants(q)
    BY <1>1 DEF ClaimRelease, NewGrants
  <2>2. started[q] <= clock /\ clock <= started[q] + MaxLag
    BY <1>1 DEF ClaimRelease, Lag
  <2>3. ASSUME NEW g \in granted, NEW s \in g.scopes
        PROVE  OnRecord(g, s)' \/ g.at < clock' - Window + MaxLag
    <3>1. CASE g.at < clock - Window + MaxLag
      BY <3>1, <2>1
    <3>2. CASE OnRecord(g, s)
      <4>1. PICK rel \in releases : /\ rel.scope = s /\ rel.kind = g.kind
                                    /\ rel.complement = g.complement
                                    /\ rel.at >= g.at - MaxLag
        BY <3>2 DEF OnRecord
      <4>2. PICK new \in Recorded(q) : /\ new.scope = rel.scope
                                       /\ new.kind = rel.kind
                                       /\ new.complement = rel.complement
                                       /\ new = rel \/ new.at = started[q]
        BY RecordedKeeps
      <4>3. g.at <= clock BY DEF GrantsRecorded
      <4>4. new.at >= g.at - MaxLag
        BY <4>1, <4>2, <4>3, <2>2, <1>n
      <4> QED BY <4>1, <4>2, <4>4, <2>1 DEF OnRecord
    <3> QED BY <3>1, <3>2 DEF GrantsRecorded
  <2>4. ASSUME NEW g \in NewGrants(q), NEW s \in g.scopes
        PROVE  OnRecord(g, s)'
    <3>1. PICK claim \in found[q].claims :
            g = [by |-> q, scopes |-> ScopesOf(q), kind |-> claim.kind,
                 complement |-> claim.complement, at |-> started[q]]
      BY DEF NewGrants
    <3> DEFINE new == [scope |-> s, kind |-> claim.kind,
                       complement |-> claim.complement, at |-> started[q]]
    <3>2. new \in Recorded(q)
      BY <3>1 DEF Recorded
    <3>3. new.at >= g.at - MaxLag
      BY <3>1, <1>n
    <3> QED BY <3>1, <3>2, <3>3, <2>1 DEF OnRecord
  <2>5. \A g \in NewGrants(q) : g.at = started[q]
    BY DEF NewGrants
  <2> QED BY <2>1, <2>2, <2>3, <2>4, <2>5 DEF GrantsRecorded
<1>2. CASE \A q \in Requests : ~ClaimRelease(q)
  <2>1. ASSUME NEW g \in granted, NEW s \in g.scopes
        PROVE  OnRecord(g, s)' \/ g.at < clock' - Window + MaxLag
    <3>1. CASE g.at < clock - Window + MaxLag
      BY <3>1, <1>n
    <3>2. CASE OnRecord(g, s)
      <4>1. PICK rel \in releases : /\ rel.scope = s /\ rel.kind = g.kind
                                    /\ rel.complement = g.complement
                                    /\ rel.at >= g.at - MaxLag
        BY <3>2 DEF OnRecord
      <4>2. CASE rel \in releases'
        BY <4>1, <4>2 DEF OnRecord
      <4>3. CASE ~(rel.at >= clock - Window)
        BY <4>1, <4>3, <1>n
      <4> QED BY <4>2, <4>3, <1>2, ReleasesKept
    <3> QED BY <3>1, <3>2 DEF GrantsRecorded
  <2>2. \A g \in granted : g.at <= clock'
    BY <1>n DEF GrantsRecorded
  <2> QED BY <2>1, <2>2, <1>2, ReleasesKept DEF GrantsRecorded
<1> QED BY <1>1, <1>2

\* A claim is refused while a complementary release of one of its scopes is
\* on record.
LEMMA ClaimedApart ==
    ASSUME TypeOK, Lag, GrantsRecorded, NEW q \in Requests, ClaimRelease(q),
           NEW g \in granted, NEW h \in NewGrants(q),
           g.scopes \cap h.scopes # {}, g.kind = Opposite(h.kind),
           g.complement = h.complement
    PROVE  h.at - g.at > Window - 2 * MaxLag
<1>n. /\ clock \in Nat /\ Window \in Nat /\ MaxLag \in Nat
      /\ \A rel \in releases : rel.at \in Nat
      /\ g.at \in Nat /\ started[q] \in Nat
  BY Numbers DEF TypeOK
<1>1. PICK claim \in found[q].claims :
        h = [by |-> q, scopes |-> ScopesOf(q), kind |-> claim.kind,
             complement |-> claim.complement, at |-> started[q]]
  BY DEF NewGrants
<1>2. clock <= started[q] + MaxLag
  BY DEF ClaimRelease, Lag
<1>3. PICK s : s \in g.scopes /\ s \in ScopesOf(q)
  BY <1>1
<1>4. CASE OnRecord(g, s)
  <2>1. PICK rel \in releases : /\ rel.scope = s /\ rel.kind = g.kind
                                /\ rel.complement = g.complement
                                /\ rel.at >= g.at - MaxLag
    BY <1>4 DEF OnRecord
  <2>2. ~(rel.at >= started[q] - Window)
    BY <1>1, <1>3, <2>1 DEF ClaimRelease, Conflict
  <2> QED BY <2>1, <2>2, <1>1, <1>n
<1>5. CASE g.at < clock - Window + MaxLag
  BY <1>5, <1>1, <1>2, <1>n
<1> QED BY <1>3, <1>4, <1>5 DEF GrantsRecorded

\* No step grants complementary releases too close to each other.
LEMMA ApartStep ==
    ASSUME Released, [Next]_vars
    PROVE  NoComplementaryReleases'
<1> USE DEF Released
<1>n. Window \in Nat /\ MaxLag \in Nat /\ \A g \in granted' : g.at \in Nat
  BY TypeStep, Numbers DEF TypeOK
<1>1. ASSUME NEW q \in Requests, ClaimRelease(q) PROVE NoComplementaryReleases'
  <2>1. granted' = granted \cup NewGrants(q)
    BY <1>1 DEF ClaimRelease, NewGrants
  <2>2. \A g \in NewGrants(q) : g.by = q
    BY DEF NewGrants
  <2>3. \A g \in granted' : g.kind \in Kinds
    BY TypeStep DEF TypeOK
  <2> SUFFICES ASSUME NEW g \in granted', NEW h \in granted',
                      Complementary(g, h), g.at <= h.at
               PROVE  h.at - g.at > Window - 2 * MaxLag
    BY DEF NoComplementaryReleases, Complementary
  <2>4. CASE g \in granted /\ h \in granted
    BY <2>4 DEF NoComplementaryReleases
  <2>5. CASE g \in granted /\ h \in NewGrants(q)
    BY <1>1, <2>5, ClaimedApart DEF Complementary
  <2>6. CASE g \in NewGrants(q) /\ h \in granted
    <3>1. h.kind = Opposite(g.kind)
      BY <2>3 DEF Complementary, Opposite, Kinds
    <3>2. g.at - h.at > Window - 2 * MaxLag
      BY <1>1, <2>6, <3>1, ClaimedApart DEF Complementary
    <3> QED BY <3>2, <1>n
  <2>7. CASE g \in NewGrants(q) /\ h \in NewGrants(q)
    BY <2>2, <2>7 DEF Complementary
  <2> QED BY <2>1, <2>4, <2>5, <2>6, <2>7
<1>2. CASE \A q \in Requests : ~ClaimRelease(q)
  BY <1>2, ReleasesKept DEF NoComplementaryReleases, Complementary
<1> QED BY <1>1, <1>2

\* Whatever requests, lags and maintenance do, no scope is granted two
\* complementary releases within a window less two lags.
THEOREM ComplementaryApart == Spec => []NoComplementaryReleases
<1>1. Init => Released
  BY TypeInit DEF Init, Released, Lag, GrantsRecorded, NoComplementaryReleases
<1>2. Released /\ [Next]_vars => Released'
  BY TypeStep, LagStep, GrantsStep, ApartStep DEF Released
<1>3. Released => NoComplementaryReleases BY DEF Released
<1> QED BY <1>1, <1>2, <1>3, PTL DEF Spec

----------------------------------------------------------------------------
(* Sums of cells *)

\* The cells that f gives the requests in S, one by one.
Units(f, S) == UNION {{r} \X (1 .. f[r]) : r \in S}

\* They are finitely many.
LEMMA UnitsFinite ==
    ASSUME NEW f \in [Requests -> Int], NEW S \in SUBSET Requests
    PROVE  IsFiniteSet(Units(f, S))
<1> DEFINE T == {{r} \X (1 .. f[r]) : r \in S}
           unit == [r \in S |-> {r} \X (1 .. f[r])]
<1>1. IsFiniteSet(S)
  BY CardinalityMono
<1>2. unit \in Surjection(S, T)
  BY DEF Surjection
<1>3. IsFiniteSet(T)
  BY <1>1, <1>2, FS_Surjection
<1>4. ASSUME NEW r \in S PROVE IsFiniteSet({r} \X (1 .. f[r]))
  <2>1. f[r] \in Int
    OBVIOUS
  <2>2. IsFiniteSet(1 .. f[r])
    BY <2>1, FS_Interval
  <2>3. IsFiniteSet({r})
    BY FS_Singleton
  <2> QED BY <2>2, <2>3, FS_Product
<1>5. \A x \in T : IsFiniteSet(x)
  BY <1>4
<1> HIDE DEF T
<1>6. IsFiniteSet(UNION T)
  BY <1>3, <1>5, FS_UNION
<1> QED BY <1>6 DEF Units, T

\* Fewer requests with fewer cells each have fewer cells together.
LEMMA SumMono ==
    ASSUME NEW f \in [Requests -> Int], NEW g \in [Requests -> Int],
           NEW T \in SUBSET Requests, NEW S \in SUBSET T,
           \A r \in S : f[r] <= g[r]
    PROVE  /\ SumOf(f, S) \in Nat /\ SumOf(g, T) \in Nat
           /\ SumOf(f, S) <= SumOf(g, T)
<1>1. IsFiniteSet(Units(f, S)) /\ IsFiniteSet(Units(g, T))
  BY UnitsFinite
<1>2. \A r \in S : 1 .. f[r] \subseteq 1 .. g[r]
  OBVIOUS
<1>3. Units(f, S) \subseteq Units(g, T)
  BY <1>2 DEF Units
<1>4. Cardinality(Units(f, S)) <= Cardinality(Units(g, T))
  BY <1>1, <1>3, FS_Subset
<1> QED BY <1>1, <1>4, FS_CardinalityType DEF SumOf, Units

\* One more request adds at most its own cells.
LEMMA SumAdd ==
    ASSUME NEW f \in [Requests -> Int], NEW g \in [Requests -> Int],
           NEW T \in SUBSET Requests, NEW q \in Requests, NEW n \in Nat,
           NEW S \in SUBSET (T \cup {q}),
           \A r \in S \ {q} : f[r] <= g[r],
           f[q] <= n
    PROVE  /\ SumOf(f, S) \in Nat /\ SumOf(g, T) \in Nat
           /\ SumOf(f, S) <= SumOf(g, T) + n
<1> DEFINE own == {q} \X (1 .. n)
<1>1. IsFiniteSet(Units(f, S)) /\ IsFiniteSet(Units(g, T))
  BY UnitsFinite
<1>2. IsFiniteSet(own) /\ Cardinality(own) = n
  <2>1. IsFiniteSet(1 .. n) /\ Cardinality(1 .. n) = n
    BY FS_Interval
  <2>2. IsFiniteSet({q}) /\ Cardinality({q}) = 1
    BY FS_Singleton
  <2> QED BY <2>1, <2>2, FS_Product
<1>3. Units(f, S) \subseteq Units(g, T) \cup own
  <2> SUFFICES ASSUME NEW r \in S, NEW k \in 1 .. f[r]
               PROVE  <<r, k>> \in Units(g, T) \cup own
    BY DEF Units
  <2>1. CASE r = q
    BY <2>1
  <2>2. CASE r # q
    <3>1. r \in T /\ k \in 1 .. g[r]
      BY <2>2
    <3> QED BY <3>1 DEF Units
  <2> QED BY <2>1, <2>2
<1> HIDE DEF own
<1>4. /\ IsFiniteSet(Units(g, T) \cup own)
      /\ Cardinality(Units(g, T) \cup own)
           = Cardinality(Units(g, T)) + n - Cardinality(Units(g, T) \cap own)
  BY <1>1, <1>2, FS_Union
<1>5. IsFiniteSet(Units(g, T) \cap own)
  BY <1>1, FS_Intersection
<1>6. Cardinality(Units(f, S)) <= Cardinality(Units(g, T) \cup own)
  BY <1>3, <1>4, FS_Subset
<1>7. /\ Cardinality(Units(f, S)) \in Nat /\ Cardinality(Units(g, T)) \in Nat
      /\ Cardinality(Units(g, T) \cup own) \in Nat
      /\ Cardinality(Units(g, T) \cap own) \in Nat
  BY <1>1, <1>4, <1>5, FS_CardinalityType
<1>8. Cardinality(Units(f, S)) <= Cardinality(Units(g, T)) + n
  BY <1>4, <1>6, <1>7
<1> QED BY <1>7, <1>8 DEF SumOf, Units

----------------------------------------------------------------------------
(* The cell budget *)

\* What a request counted still leaves room for its cells when it inserts.
CellRoom ==
    \A q \in Requests : phase[q] = "counted" =>
        \A s \in ScopesOf(q) :
            Extracted(s, started[q]) + plan[q].cells <= CellLimit[s]

\* No window holds more reserved cells than the limit.
CellBudget ==
    \A s \in Scopes, a \in Times :
        SumOf(Cells, Reserved(s, a, Window)) <= CellLimit[s]

\* An answer is that of a request that is over, and its reservation holds at
\* least its cells.
AnswerIsReserved ==
    \A q \in Answered : /\ phase[q] = "ended"
                        /\ row[q].status \in {"released", "pruned"}
                        /\ answered[q] <= row[q].cells

CellInv == Inv /\ CellRoom /\ CellBudget /\ AnswerIsReserved

\* The numbers of the cell budget are numbers.
LEMMA CellNumbers ==
    ASSUME TypeOK
    PROVE  /\ Cells \in [Requests -> Int]
           /\ answered \in [Requests -> Int]
           /\ \A q \in Requests : /\ Cells[q] = row[q].cells
                                  /\ row[q].cells \in Nat /\ plan[q].cells \in Nat
                                  /\ started[q] \in Nat
           /\ \A s \in Scopes : CellLimit[s] \in Nat
<1>1. \A q \in Requests : row[q].cells \in Nat
  BY DEF TypeOK
<1>2. \A q \in Requests : plan[q].cells \in Nat
  BY BudgetAssumption DEF TypeOK, BudgetAssumption
<1>3. \A q \in Requests : started[q] \in Nat
  BY Numbers DEF TypeOK
<1>4. Cells \in [Requests -> Int] /\ \A q \in Requests : Cells[q] = row[q].cells
  BY <1>1 DEF Cells
<1>5. answered \in [Requests -> Int]
  BY DEF TypeOK, NoAnswer
<1>6. \A s \in Scopes : CellLimit[s] \in Nat
  BY BudgetAssumption DEF BudgetAssumption
<1> QED BY <1>1, <1>2, <1>3, <1>4, <1>5, <1>6

\* Only an insertion gives a reservation more cells.
LEMMA CellsStep ==
    ASSUME TypeOK, [Next]_vars, \A q \in Requests : ~Reserve(q)
    PROVE  \A r \in Requests : row'[r].cells <= row[r].cells
<1>n. \A r \in Requests : row[r].cells \in Nat
  BY CellNumbers
<1>f. ASSUME NEW q \in Requests, NEW status, NEW cells \in Nat,
             cells <= row[q].cells, row' = [row EXCEPT ![q] = Finalized(q, status, cells)]
      PROVE  \A r \in Requests : row'[r].cells <= row[r].cells
  BY <1>f, <1>n DEF Finalized, TypeOK
<1>z. ASSUME NEW q \in Requests,
             row' = [row EXCEPT ![q] = Finalized(q, "not_released", 0)]
      PROVE  \A r \in Requests : row'[r].cells <= row[r].cells
  <2>1. 0 <= row[q].cells
    BY <1>n
  <2> QED BY <1>f, <1>z, <2>1
<1>k. ASSUME row' = row PROVE \A r \in Requests : row'[r].cells <= row[r].cells
  BY <1>k, <1>n
<1>1. ASSUME NEW q \in Requests, NEW heard \in BOOLEAN, Complete(q, heard)
      PROVE  \A r \in Requests : row'[r].cells <= row[r].cells
  <2>1. CASE found[q].cells <= row[q].cells
    <3>1. found[q].cells \in Nat
      BY BudgetAssumption DEF BudgetAssumption, Nothing, TypeOK
    <3>2. row' = [row EXCEPT ![q] = Finalized(q, "released", found[q].cells)]
      BY <1>1, <2>1 DEF Complete
    <3> QED BY <1>f, <2>1, <3>1, <3>2
  <2>2. CASE ~(found[q].cells <= row[q].cells)
    <3>1. row' = [row EXCEPT ![q] = Finalized(q, "not_released", 0)]
      BY <1>1, <2>2 DEF Complete
    <3> QED BY <1>z, <3>1
  <2> QED BY <2>1, <2>2
<1>2. ASSUME NEW q \in Requests, GiveBack(q)
      PROVE  \A r \in Requests : row'[r].cells <= row[r].cells
  BY <1>2, <1>z DEF GiveBack
<1>3. CASE Maintain
  BY <1>3, <1>n DEF Maintain, TypeOK
<1>4. ASSUME NEW q \in Requests,
             \/ Start(q) \/ Count(q) \/ Refuse(q) \/ ClaimRelease(q) \/ Strand(q)
             \/ \E result \in Results : Query(q, result)
      PROVE  row' = row
  BY <1>4 DEF Start, Count, Refuse, ClaimRelease, Strand, Query
<1>5. CASE Tick \/ UNCHANGED vars
  BY <1>5, <1>k DEF Tick, vars
<1> QED BY <1>1, <1>2, <1>3, <1>4, <1>5, <1>k DEF Next

\* The room that a waiting request found stays: nobody inserts into its
\* scopes while it holds their locks, and cells only become fewer.
LEMMA CellRoomStep ==
    ASSUME TypeOK, Locked, CellRoom, [Next]_vars
    PROVE  CellRoom'
<1> SUFFICES ASSUME NEW q \in Requests, phase'[q] = "counted",
                    NEW s \in ScopesOf(q)'
             PROVE  SumOf(Cells', Counted(s, started[q], Window)') + plan[q].cells
                      <= CellLimit[s]
  BY PlanFixed DEF CellRoom, Extracted
<1>1. /\ plan' = plan /\ s \in ScopesOf(q) /\ s \in Scopes
      /\ ScopesOf(q)' = ScopesOf(q)
  BY PlanFixed, ScopesType DEF ScopesOf
<1>2. CASE Count(q)
  <2>1. row' = row /\ started' = started
    BY <1>2 DEF Count
  <2>2. Cells' = Cells /\ Counted(s, started[q], Window)' = Counted(s, started[q], Window)
    BY <2>1, <1>1 DEF Counted, ScopesOf, Cells
  <2>3. ~(Extracted(s, started[q]) + plan[q].cells > CellLimit[s])
    BY <1>2, <1>1 DEF Count, Denied
  <2>4. Counted(s, started[q], Window) \in SUBSET Requests
    BY DEF Counted
  <2>5. SumOf(Cells, Counted(s, started[q], Window)) \in Nat
    <3>1. Cells \in [Requests -> Int] BY CellNumbers
    <3>2. \A r \in Requests : Cells[r] <= Cells[r] BY <3>1
    <3> QED BY <2>4, <3>1, <3>2, SumMono
  <2>6. plan[q].cells \in Nat /\ CellLimit[s] \in Nat
    BY CellNumbers, <1>1
  <2> QED BY <2>2, <2>3, <2>5, <2>6 DEF Extracted
<1>3. CASE ~Count(q)
  <2>1. phase[q] = "counted" /\ started'[q] = started[q] /\ ~Reserve(q)
    BY <1>3, EndsPhase DEF Next, vars, Start, Count, Reserve, Refuse, Query,
       ClaimRelease, Complete, GiveBack, Strand, Maintain, Tick, TypeOK, Goes
  <2> DEFINE T == Counted(s, started[q], Window)
             S == Counted(s, started[q], Window)'
  <2>2. SumOf(Cells, T) + plan[q].cells <= CellLimit[s]
    BY <2>1, <1>1 DEF CellRoom, Extracted
  <2>3. /\ S \subseteq T
        /\ \A r \in S : row'[r].cells <= row[r].cells
    <3>1. ASSUME NEW r \in Requests, Reserve(r)
          PROVE  /\ S \subseteq T
                 /\ \A x \in S : row'[x].cells <= row[x].cells
      <4>1. phase[r] = "counted" /\ r # q
        BY <2>1, <3>1 DEF Reserve
      <4>2. lock[s] = q /\ s \notin ScopesOf(r)
        BY <4>1, <2>1, <1>1 DEF Locked
      <4>3. \A x \in Requests \ {r} : row'[x] = row[x]
        BY <3>1 DEF Reserve, TypeOK
      <4>4. r \notin S
        BY <4>2, <1>1 DEF Counted, ScopesOf
      <4>5. S \subseteq Requests
        BY DEF Counted
      <4>6. S \subseteq T
        BY <4>3, <4>4, <2>1, <1>1 DEF Counted, ScopesOf
      <4> QED BY <4>3, <4>4, <4>5, <4>6, CellNumbers
    <3>2. CASE \A r \in Requests : ~Reserve(r)
      <4>1. S \subseteq T
        BY <3>2, RowsStep, <2>1, <1>1 DEF RowsKept, Counted, ScopesOf
      <4> QED BY <3>2, <4>1, CellsStep DEF Counted
    <3> QED BY <3>1, <3>2
  <2>4. T \in SUBSET Requests
    BY DEF Counted
  <2>5. Cells \in [Requests -> Int] /\ Cells' \in [Requests -> Int]
    <3>1. \A r \in Requests : row'[r].cells \in Nat
      BY TypeStep DEF TypeOK
    <3>2. Cells' \in [Requests -> Int]
      BY <3>1 DEF Cells
    <3> QED BY <3>2, CellNumbers
  <2>6. \A r \in S : Cells'[r] <= Cells[r]
    BY <2>3, <2>4 DEF Cells
  <2> HIDE DEF S, T
  <2>7. /\ SumOf(Cells', S) \in Nat /\ SumOf(Cells, T) \in Nat
        /\ SumOf(Cells', S) <= SumOf(Cells, T)
    BY <2>3, <2>4, <2>5, <2>6, SumMono
  <2>8. plan[q].cells \in Nat /\ CellLimit[s] \in Nat
    BY CellNumbers, <1>1
  <2>9. SumOf(Cells', S) + plan[q].cells <= CellLimit[s]
    BY <2>2, <2>7, <2>8
  <2> QED BY <2>9, <1>1 DEF S
<1> QED BY <1>2, <1>3

\* No step reserves more cells in a window than the limit.
LEMMA CellBudgetStep ==
    ASSUME CellInv, [Next]_vars
    PROVE  CellBudget'
<1> SUFFICES ASSUME NEW s \in Scopes, NEW a \in Times
             PROVE  SumOf(Cells', Reserved(s, a, Window)') <= CellLimit[s]
  BY DEF CellBudget
<1> DEFINE T == Reserved(s, a, Window)
           S == Reserved(s, a, Window)'
<1>i. TypeOK /\ Inv /\ TypeOK'
  BY TypeStep DEF CellInv, Inv
<1>1. SumOf(Cells, T) <= CellLimit[s]
  BY DEF CellInv, CellBudget
<1>2. T \in SUBSET Requests /\ S \in SUBSET Requests
  BY DEF Reserved
<1>3. Cells \in [Requests -> Int]
  BY <1>i, CellNumbers
<1>4. Cells' \in [Requests -> Int]
  <2>1. \A r \in Requests : row'[r].cells \in Nat
    BY <1>i DEF TypeOK
  <2> QED BY <2>1 DEF Cells
<1>5. CellLimit[s] \in Nat
  BY <1>i, CellNumbers
<1>6. ASSUME S \subseteq T, \A r \in S : row'[r].cells <= row[r].cells
      PROVE  SumOf(Cells', S) <= CellLimit[s]
  <2>1. \A r \in S : Cells'[r] <= Cells[r]
    BY <1>2, <1>6 DEF Cells
  <2> HIDE DEF S, T
  <2>2. /\ SumOf(Cells', S) \in Nat /\ SumOf(Cells, T) \in Nat
        /\ SumOf(Cells', S) <= SumOf(Cells, T)
    BY <1>2, <1>3, <1>4, <1>6, <2>1, SumMono
  <2> QED BY <1>1, <1>5, <2>2
<1>7. ASSUME NEW q \in Requests, Reserve(q)
      PROVE  SumOf(Cells', S) <= CellLimit[s]
  <2>1. /\ plan' = plan /\ phase[q] = "counted"
        /\ row'[q].at = started[q] /\ row'[q].cells = plan[q].cells
        /\ \A r \in Requests \ {q} : row'[r] = row[r]
    BY <1>7, <1>i DEF Reserve, TypeOK
  <2>2. \A r \in Requests \ {q} : row'[r].cells <= row[r].cells
    BY <2>1, <1>i, CellNumbers
  <2>3. CASE s \in ScopesOf(q) /\ a <= started[q] /\ started[q] <= a + Window
    <3> DEFINE C == Counted(s, started[q], Window)
    <3>1. S \subseteq C \cup {q}
      <4>1. Window \in Nat /\ Window <= Window
        BY Numbers
      <4> QED BY <1>7, <1>i, <2>3, <4>1, ReservedWereCounted
    <3>2. C \in SUBSET Requests
      BY DEF Counted
    <3>3. \A r \in S \ {q} : Cells'[r] <= Cells[r]
      BY <1>2, <2>2 DEF Cells
    <3>4. Cells'[q] <= plan[q].cells /\ plan[q].cells \in Nat
      BY <1>i, <2>1, CellNumbers DEF Cells
    <3>5. SumOf(Cells, C) + plan[q].cells <= CellLimit[s]
      BY <2>1, <2>3 DEF CellInv, CellRoom, Extracted
    <3> HIDE DEF S, C
    <3>6. /\ SumOf(Cells', S) \in Nat /\ SumOf(Cells, C) \in Nat
          /\ SumOf(Cells', S) <= SumOf(Cells, C) + plan[q].cells
      BY <1>3, <1>4, <3>1, <3>2, <3>3, <3>4, SumAdd
    <3> QED BY <3>4, <3>5, <3>6, <1>5
  <2>4. CASE ~(s \in ScopesOf(q) /\ a <= started[q] /\ started[q] <= a + Window)
    <3>1. q \notin S
      BY <2>1, <2>4 DEF Reserved, ScopesOf
    <3>2. S \subseteq T
      BY <2>1, <3>1 DEF Reserved, ScopesOf
    <3> QED BY <1>2, <1>6, <2>2, <3>1, <3>2
  <2> QED BY <2>3, <2>4
<1>8. CASE \A q \in Requests : ~Reserve(q)
  <2>1. S \subseteq T
    BY <1>8, <1>i, RowsStep, PlanFixed DEF RowsKept, Reserved, ScopesOf
  <2> QED BY <1>2, <1>6, <1>8, <1>i, <2>1, CellsStep
<1> QED BY <1>7, <1>8

\* A request that is over does nothing more.
LEMMA EndedStays ==
    ASSUME TypeOK, [Next]_vars, NEW r \in Requests, phase[r] = "ended"
    PROVE  /\ phase'[r] = "ended"
           /\ answered'[r] = answered[r]
           /\ row'[r] = row[r] \/ row'[r] = [row[r] EXCEPT !.status = "pruned"]
<1> USE DEF TypeOK, Goes
<1>1. ASSUME NEW q \in Requests,
             \/ Start(q) \/ Count(q) \/ ClaimRelease(q)
             \/ \E result \in Results : Query(q, result)
      PROVE  phase'[r] = "ended" /\ answered' = answered /\ row' = row
  BY <1>1 DEF Start, Count, ClaimRelease, Query
<1>2. ASSUME NEW q \in Requests, Refuse(q) \/ Strand(q)
      PROVE  phase'[r] = "ended" /\ answered' = answered /\ row' = row
  BY <1>2, EndsPhase DEF Refuse, Strand
<1>3. ASSUME NEW q \in Requests, Reserve(q)
      PROVE  phase'[r] = "ended" /\ answered' = answered /\ row'[r] = row[r]
  BY <1>3 DEF Reserve
<1>4. ASSUME NEW q \in Requests, GiveBack(q)
      PROVE  phase'[r] = "ended" /\ answered' = answered /\ row'[r] = row[r]
  BY <1>4, EndsPhase DEF GiveBack
<1>5. ASSUME NEW q \in Requests, NEW heard \in BOOLEAN, Complete(q, heard)
      PROVE  phase'[r] = "ended" /\ answered'[r] = answered[r] /\ row'[r] = row[r]
  BY <1>5, EndsPhase DEF Complete
<1>6. CASE Maintain
  BY <1>6 DEF Maintain
<1>7. CASE Tick \/ UNCHANGED vars
  BY <1>7 DEF Tick, vars
<1> QED BY <1>1, <1>2, <1>3, <1>4, <1>5, <1>6, <1>7 DEF Next

\* Only Complete answers, and only what it has just charged.
LEMMA AnswerStep ==
    ASSUME TypeOK, AnswerIsReserved, [Next]_vars
    PROVE  AnswerIsReserved'
<1> SUFFICES ASSUME NEW r \in Requests, answered'[r] # NoAnswer
             PROVE  /\ phase'[r] = "ended"
                    /\ row'[r].status \in {"released", "pruned"}
                    /\ answered'[r] <= row'[r].cells
  BY DEF AnswerIsReserved, Answered
<1>1. CASE answered[r] # NoAnswer
  <2>1. /\ phase[r] = "ended" /\ row[r].status \in {"released", "pruned"}
        /\ answered[r] <= row[r].cells
    BY <1>1 DEF AnswerIsReserved, Answered
  <2>2. /\ phase'[r] = "ended" /\ answered'[r] = answered[r]
        /\ row'[r] = row[r] \/ row'[r] = [row[r] EXCEPT !.status = "pruned"]
    BY <2>1, EndedStays
  <2>3. row[r] \in [status : Statuses, at : Times, cells : Nat, counted : BOOLEAN]
    BY DEF TypeOK
  <2>4. /\ row'[r].status \in {"released", "pruned"}
        /\ row'[r].cells = row[r].cells
    BY <2>1, <2>2, <2>3
  <2> QED BY <2>1, <2>2, <2>4
<1>2. CASE answered[r] = NoAnswer
  <2>1. PICK heard \in BOOLEAN : Complete(r, heard)
    <3>1. ASSUME NEW q \in Requests, NEW heard \in BOOLEAN, Complete(q, heard)
          PROVE  q = r
      BY <1>2, <3>1 DEF Complete, TypeOK
    <3> QED
      BY <1>2, <3>1 DEF Next, vars, Start, Count, Reserve, Refuse, Query, ClaimRelease,
         GiveBack, Strand, Maintain, Tick
  <2>2. found[r].cells <= row[r].cells
    BY <1>2, <2>1 DEF Complete, TypeOK
  <2>3. /\ row' = [row EXCEPT ![r] = Finalized(r, "released", found[r].cells)]
        /\ answered' = [answered EXCEPT ![r] = IF heard THEN found[r].cells ELSE @]
    BY <2>1, <2>2 DEF Complete
  <2>4. answered'[r] = found[r].cells
    BY <1>2, <2>3 DEF TypeOK
  <2>5. row'[r].status = "released" /\ row'[r].cells = found[r].cells
    BY <2>3 DEF TypeOK, Finalized
  <2>6. found[r].cells \in Nat
    BY BudgetAssumption DEF BudgetAssumption, Nothing, TypeOK
  <2>7. phase'[r] = "ended"
    BY <2>1, EndsPhase DEF Complete
  <2> QED BY <2>4, <2>5, <2>6, <2>7
<1> QED BY <1>1, <1>2

\* What was answered was reserved, so the cells of the answers are within
\* the cells of the reservations.
LEMMA ExtractionBounded ==
    ASSUME CellInv
    PROVE  ExtractionBudget
<1> SUFFICES ASSUME NEW s \in Scopes, NEW a \in Times
             PROVE  SumOf(answered, Reserved(s, a, Window) \cap Answered)
                      <= CellLimit[s]
  BY DEF ExtractionBudget
<1> DEFINE T == Reserved(s, a, Window)
           S == T \cap Answered
<1>1. TypeOK
  BY DEF CellInv, Inv
<1>2. T \in SUBSET Requests /\ S \in SUBSET T
  BY DEF Reserved
<1>3. /\ Cells \in [Requests -> Int] /\ answered \in [Requests -> Int]
      /\ \A q \in Requests : Cells[q] = row[q].cells
      /\ CellLimit[s] \in Nat
  BY <1>1, CellNumbers
<1>4. \A r \in S : answered[r] <= Cells[r]
  BY <1>2, <1>3 DEF CellInv, AnswerIsReserved
<1>5. SumOf(Cells, T) <= CellLimit[s]
  BY DEF CellInv, CellBudget
<1> HIDE DEF S, T
<1>6. /\ SumOf(answered, S) \in Nat /\ SumOf(Cells, T) \in Nat
      /\ SumOf(answered, S) <= SumOf(Cells, T)
  BY <1>2, <1>3, <1>4, SumMono
<1>7. SumOf(answered, S) <= CellLimit[s]
  BY <1>3, <1>5, <1>6
<1> QED BY <1>7 DEF S, T

\* At first nothing is reserved or answered.
LEMMA CellInit == ASSUME Init PROVE CellInv
<1>1. Inv BY InvInit
<1>2. CellRoom /\ AnswerIsReserved
  BY DEF Init, CellRoom, AnswerIsReserved, Answered
<1>3. CellBudget
  <2> SUFFICES ASSUME NEW s \in Scopes, NEW a \in Times
               PROVE  SumOf(Cells, Reserved(s, a, Window)) <= CellLimit[s]
    BY DEF CellBudget
  <2>1. Reserved(s, a, Window) = {}
    BY DEF Init, Reserved, NoRow
  <2>2. UNION {{r} \X (1 .. Cells[r]) : r \in {}} = {}
    OBVIOUS
  <2>3. SumOf(Cells, {}) = 0
    BY <2>2, FS_EmptySet DEF SumOf
  <2>4. CellLimit[s] \in Nat
    BY <1>1, CellNumbers DEF Inv
  <2> QED BY <2>1, <2>3, <2>4
<1> QED BY <1>1, <1>2, <1>3 DEF CellInv

\* Whatever the interleaving of requests, lost answers, failures, maintenance
\* and time, the cells that a principal or a tenant was shown for the queries
\* of any 24 hours stay within its limit.
THEOREM ExploreCellBudget == Spec => []ExtractionBudget
<1>1. Init => CellInv BY CellInit
<1>2. CellInv /\ [Next]_vars => CellInv'
  BY TypeStep, LagStep, LockedStep, RoomStep, PrunedStep, BudgetStep, CellRoomStep,
     CellBudgetStep, AnswerStep DEF CellInv, Inv
<1>3. CellInv => ExtractionBudget BY ExtractionBounded
<1> QED BY <1>1, <1>2, <1>3, PTL DEF Spec
=============================================================================
