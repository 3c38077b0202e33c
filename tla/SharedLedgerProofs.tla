------------------------- MODULE SharedLedgerProofs -------------------------
(***************************************************************************)
(* AcknowledgedSurvives for any number of servers, bridges, mirrors, rows  *)
(* and operations.                                                         *)
(*                                                                         *)
(* The property is not inductive: it says nothing about the copies that    *)
(* will be written back.  CopyIsCurrent does: while a session holds its    *)
(* lock, its copy has every operation of its own kind that it could take   *)
(* away from the ledger.  This needs mutual exclusion (LockHeld) and that  *)
(* the operations a session made are in its copy (MadeIsCopied).           *)
(***************************************************************************)
EXTENDS SharedLedger, TLAPS

Excused(o) == o \in archived \/ LostToAnother(o)

InProgress(c) == phase[c] \in {"running", "failed"}

LockHeld == \A c \in Sessions : phase[c] # "idle" => lock[Kind(c)] = c

MadeIsCopied ==
  \A c \in Sessions : \A o \in made[c] :
    /\ InProgress(c)
    /\ \/ o.by = Kind(c) /\ o \in copy[c][o.key]
       \/ o.by = "intent" /\ o \in acked

CopyIsCurrent ==
  \A c \in Sessions : \A o \in acked :
    InProgress(c) /\ o.by = Kind(c) /\ o \in ledger[o.key] /\ ~Excused(o)
      => o \in copy[c][o.key]

Survives == \A o \in acked : o \in ledger[o.key] \/ Excused(o)

Inv == TypeOK /\ LockHeld /\ MadeIsCopied /\ CopyIsCurrent /\ Survives

-----------------------------------------------------------------------------

\* Kinds of sessions are locks, and never the direct writers.
LEMMA KindType ==
  ASSUME NEW c \in Sessions
  PROVE  Kind(c) \in Locks /\ Kind(c) \in Writers /\ Kind(c) # "intent"
BY DEF Kind, Locks, Writers

\* Copying a ledger in or out keeps the type.
LEMMA CopyType ==
  ASSUME TypeOK, NEW c \in Sessions
  PROVE  Restored(c) \in Rows /\ Upserted(c) \in Rows /\ NoRows \in Rows
BY DEF TypeOK, Rows, Restored, Upserted, NoRows

\* What a new ledger no longer holds are operations.
LEMMA RemovedType ==
  ASSUME TypeOK, NEW new
  PROVE  Removed(new) \subseteq Op
BY DEF TypeOK, Rows, Removed

\* The type invariant holds initially.
LEMMA TypeInit == Init => TypeOK
BY SessionAssumption DEF Init, TypeOK, Rows, NoRows, Locks, Phases

\* The end of a session keeps the types of what it changes.
LEMMA EndType ==
  ASSUME TypeOK, NEW c \in Sessions, End(c)
  PROVE  /\ phase' \in [Sessions -> Phases]
         /\ lock' \in [Locks -> Sessions \cup {NoHolder}]
         /\ made' \in [Sessions -> SUBSET Op]
         /\ copy' \in [Sessions -> Rows]
<1>1. NoRows \in Rows
  BY CopyType
<1> QED BY <1>1 DEF TypeOK, End, Phases

\* Every step preserves the type invariant.
LEMMA TypeStep == TypeOK /\ [Next]_vars => TypeOK'
<1> SUFFICES ASSUME TypeOK, [Next]_vars
             PROVE  TypeOK'
  OBVIOUS
<1>1. ASSUME NEW c \in Sessions, SessionStep(c)
      PROVE  TypeOK'
  <2>k. Kind(c) \in Locks /\ Kind(c) \in Writers
    BY KindType
  <2>1. CASE Acquire(c)
    BY <2>1, <2>k DEF Acquire, TypeOK, Phases
  <2>2. CASE Fetch(c)
    BY <2>2, CopyType DEF Fetch, TypeOK, Phases
  <2>3. CASE FetchRefused(c) \/ CommitFails(c) \/ Crash(c)
    BY <2>3, EndType DEF FetchRefused, CommitFails, Crash, TypeOK
  <2>4. CASE \E k \in Keys : Operate(c, k)
    <3>1. PICK k \in Keys : Operate(c, k)
      BY <2>4
    <3> DEFINE o == [by |-> Kind(c), key |-> k, n |-> ops + 1]
    <3>2. ops + 1 \in 1 .. MaxOps /\ ops + 1 \in 0 .. MaxOps
      BY <3>1, SessionAssumption DEF Operate, TypeOK
    <3>3. o \in Op
      BY <2>k, <3>2 DEF Op
    <3> HIDE DEF o
    <3>4. [copy[c] EXCEPT ![k] = @ \cup {o}] \in Rows
      BY <3>3 DEF TypeOK, Rows
    <3>5. made[c] \cup {o} \in SUBSET Op
      BY <3>3 DEF TypeOK
    <3>6. /\ copy' = [copy EXCEPT ![c][k] = @ \cup {o}]
          /\ made' = [made EXCEPT ![c] = @ \cup {o}]
      BY <3>1 DEF Operate, o
    <3> QED BY <3>1, <3>2, <3>4, <3>5, <3>6 DEF Operate, TypeOK
  <2>5. CASE Throw(c)
    BY <2>5, EndType DEF Throw, TypeOK, Phases
  <2>6. CASE \E answered \in BOOLEAN : Commit(c, answered)
    <3>1. PICK answered \in BOOLEAN : Commit(c, answered)
      BY <2>6
    <3>2. overwritten' \subseteq Op \X Writers
      BY <3>1, <2>k, RemovedType DEF Commit, TypeOK
    <3>3. acked' \subseteq Op
      BY <3>1 DEF Commit, TypeOK
    <3> QED BY <3>1, <3>2, <3>3, CopyType, EndType DEF Commit, TypeOK
  <2>7. CASE \E k \in Keys : WriteIntent(c, k)
    <3>1. PICK k \in Keys : WriteIntent(c, k)
      BY <2>7
    <3> DEFINE o == [by |-> "intent", key |-> k, n |-> ops + 1]
    <3>2. ops + 1 \in 1 .. MaxOps /\ ops + 1 \in 0 .. MaxOps
      BY <3>1, SessionAssumption DEF WriteIntent, TypeOK
    <3>3. o \in Op
      BY <3>2 DEF Op
    <3> HIDE DEF o
    <3>4. /\ ledger' = [ledger EXCEPT ![k] = @ \cup {o}]
          /\ made' = [made EXCEPT ![c] = @ \cup {o}]
          /\ acked' = acked \cup {o}
      BY <3>1 DEF WriteIntent, o
    <3>5. ledger' \in Rows
      BY <3>3, <3>4 DEF TypeOK, Rows
    <3> QED BY <3>1, <3>2, <3>3, <3>4, <3>5 DEF WriteIntent, TypeOK
  <2> QED BY <1>1, <2>1, <2>2, <2>3, <2>4, <2>5, <2>6, <2>7 DEF SessionStep
<1>2. CASE RetentionStep
  <2>1. NoRows \in Rows
    BY DEF Rows, NoRows
  <2>2. CASE \E old \in SUBSET Entries(ledger) : RetentionArchive(old)
    <3>1. PICK old \in SUBSET Entries(ledger) : RetentionArchive(old)
      BY <2>2
    <3>2. [k \in Keys |-> IF k \in old THEN ledger[k] ELSE {}] \in Rows
      BY DEF TypeOK, Rows
    <3> QED BY <3>1, <3>2 DEF RetentionArchive, TypeOK
  <2>3. CASE RetentionDelete
    <3> DEFINE left == [k \in Keys |-> IF retention.archive[k] # {} THEN {} ELSE ledger[k]]
               kept == UNION {retention.archive[k] : k \in Keys}
    <3>1. left \in Rows /\ kept \subseteq Op /\ Removed(left) \subseteq Op
      BY RemovedType DEF TypeOK, Rows
    <3>2. /\ ledger' = left /\ archived' = archived \cup kept
          /\ overwritten' = overwritten \cup ((Removed(left) \ kept) \X {"retention"})
      BY <2>3 DEF RetentionDelete
    <3> HIDE DEF left, kept
    <3>3. overwritten' \subseteq Op \X Writers
      BY <3>1, <3>2 DEF TypeOK, Writers
    <3> QED BY <2>1, <2>3, <3>1, <3>2, <3>3 DEF RetentionDelete, TypeOK
  <2>4. CASE RetentionFails
    BY <2>1, <2>4 DEF RetentionFails, TypeOK
  <2> QED BY <1>2, <2>2, <2>3, <2>4 DEF RetentionStep
<1>3. CASE UNCHANGED vars
  BY <1>3 DEF vars, TypeOK
<1> QED BY <1>1, <1>2, <1>3 DEF Next

\* Initially nothing is acknowledged and no lock is held.
LEMMA InvInit == Init => Inv
<1> SUFFICES ASSUME Init PROVE Inv
  OBVIOUS
<1>1. TypeOK
  BY TypeInit
<1> QED BY <1>1 DEF Init, Inv, LockHeld, MadeIsCopied, CopyIsCurrent, Survives

\* Two sessions of one kind are never under way together.
LEMMA OnePerLock ==
  ASSUME LockHeld, NEW c \in Sessions, NEW d \in Sessions,
         phase[c] # "idle", phase[d] # "idle", Kind(c) = Kind(d)
  PROVE  c = d
BY DEF LockHeld

\* Ending a session takes no lock from another one.
LEMMA EndKeepsLocks ==
  ASSUME TypeOK, LockHeld, NEW c \in Sessions, End(c)
  PROVE  LockHeld'
BY KindType DEF TypeOK, LockHeld, End

\* A session that ends without writing keeps the invariant: the copies of
\* the others and what is acknowledged stay as they are.
LEMMA QuietEnd ==
  ASSUME Inv, NEW c \in Sessions, End(c),
         UNCHANGED <<ledger, acked, archived, overwritten>>
  PROVE  LockHeld' /\ MadeIsCopied' /\ CopyIsCurrent' /\ Survives'
<1>1. LockHeld'
  BY EndKeepsLocks DEF Inv
<1>2. MadeIsCopied'
  BY DEF Inv, TypeOK, MadeIsCopied, InProgress, End, Kind
<1>3. CopyIsCurrent'
  BY DEF Inv, TypeOK, CopyIsCurrent, InProgress, Excused, LostToAnother, End, Kind
<1>4. Survives'
  BY DEF Inv, Survives, Excused, LostToAnother
<1> QED BY <1>1, <1>2, <1>3, <1>4

\* The upsert takes away only operations of other kinds, which it records,
\* or operations that were excused already.
LEMMA CommitSurvives ==
  ASSUME Inv, NEW c \in Sessions, NEW answered \in BOOLEAN, Commit(c, answered)
  PROVE  Survives'
<1> SUFFICES ASSUME NEW o \in acked'
             PROVE  o \in ledger'[o.key] \/ Excused(o)'
  BY DEF Survives
<1>1. o \in Op /\ o.key \in Keys
  BY DEF Commit, Inv, TypeOK, Op
<1>2. InProgress(c) /\ ledger' = Upserted(c)
  BY DEF Commit, InProgress
<1>3. Excused(o) => Excused(o)'
  BY DEF Commit, Excused, LostToAnother
<1>4. CASE o \in made[c] /\ o.by = Kind(c) /\ o \in copy[c][o.key]
  BY <1>1, <1>2, <1>4 DEF Upserted
<1>5. CASE o \in acked
  <2>1. CASE Excused(o)
    BY <1>3, <2>1
  <2>2. CASE ~Excused(o)
    <3>1. o \in ledger[o.key]
      BY <1>5, <2>2 DEF Inv, Survives
    <3>2. CASE o \in Upserted(c)[o.key]
      BY <1>2, <3>2
    <3>3. CASE o \notin Upserted(c)[o.key]
      <4>1. o \notin copy[c][o.key]
        BY <1>1, <3>1, <3>3 DEF Upserted
      <4>2. o.by # Kind(c)
        BY <1>2, <1>5, <2>2, <3>1, <4>1 DEF Inv, CopyIsCurrent
      <4>3. o \in Removed(Upserted(c))
        BY <1>1, <3>1, <3>3 DEF Removed
      <4>4. <<o, Kind(c)>> \in overwritten'
        BY <4>3 DEF Commit
      <4> QED BY <4>2, <4>4, KindType DEF Excused, LostToAnother
    <3> QED BY <3>2, <3>3
  <2> QED BY <2>1, <2>2
<1> QED BY <1>4, <1>5 DEF Commit, Inv, MadeIsCopied

\* A commit leaves the copies of the sessions of the other kind current: it
\* brings back no operation of theirs that is not excused.
LEMMA CommitCurrent ==
  ASSUME Inv, NEW c \in Sessions, NEW answered \in BOOLEAN, Commit(c, answered)
  PROVE  CopyIsCurrent'
<1> SUFFICES ASSUME NEW d \in Sessions, NEW o \in acked', InProgress(d)',
                    o.by = Kind(d), ~Excused(o)'
             PROVE  o \in copy'[d][o.key]
  BY DEF CopyIsCurrent, Kind
<1>1. d # c /\ phase[d] = phase'[d] /\ copy'[d] = copy[d]
  BY DEF Commit, End, InProgress, Inv, TypeOK
<1>2. InProgress(c) /\ InProgress(d)
  BY <1>1 DEF Commit, InProgress
<1>3. Kind(c) # Kind(d)
  BY <1>1, <1>2, OnePerLock DEF Inv, InProgress
<1>4. o \in acked
  BY <1>3, KindType DEF Commit, Inv, MadeIsCopied
<1>5. ~Excused(o)
  BY DEF Commit, Excused, LostToAnother
<1> QED BY <1>1, <1>2, <1>4, <1>5 DEF Inv, Survives, CopyIsCurrent

\* A direct intent write adds an operation of no session's kind.
LEMMA IntentStep ==
  ASSUME Inv, NEW c \in Sessions, NEW k \in Keys, WriteIntent(c, k)
  PROVE  LockHeld' /\ MadeIsCopied' /\ CopyIsCurrent' /\ Survives'
<1> DEFINE o == [by |-> "intent", key |-> k, n |-> ops + 1]
<1>1. /\ ledger' = [ledger EXCEPT ![k] = @ \cup {o}]
      /\ made' = [made EXCEPT ![c] = @ \cup {o}]
      /\ acked' = acked \cup {o}
      /\ UNCHANGED <<lock, phase, copy, archived, overwritten>>
  BY DEF WriteIntent
<1>2. o.by = "intent" /\ o.key = k
  OBVIOUS
<1> HIDE DEF o
<1>3. \A x \in acked : x \in Op /\ x.key \in Keys
  BY DEF Inv, TypeOK, Op
<1>4. \A x \in acked : x \in ledger[x.key] => x \in ledger'[x.key]
  BY <1>1, <1>3 DEF Inv, TypeOK, Rows
<1>5. o \in ledger'[o.key]
  BY <1>1, <1>2 DEF Inv, TypeOK, Rows
<1>6. LockHeld'
  BY <1>1 DEF Inv, LockHeld, Kind
<1>7. MadeIsCopied'
  BY <1>1, <1>2 DEF WriteIntent, Inv, TypeOK, MadeIsCopied, InProgress, Kind
<1>8. Survives'
  BY <1>1, <1>4, <1>5 DEF Inv, Survives, Excused, LostToAnother
<1>9. CopyIsCurrent'
  <2> SUFFICES ASSUME NEW d \in Sessions, NEW x \in acked', InProgress(d)',
                      x.by = Kind(d), ~Excused(x)'
               PROVE  x \in copy'[d][x.key]
    BY DEF CopyIsCurrent, Kind
  <2>1. x \in acked
    BY <1>1, <1>2, KindType
  <2>2. InProgress(d) /\ ~Excused(x)
    BY <1>1 DEF InProgress, Excused, LostToAnother
  <2> QED BY <1>1, <2>1, <2>2 DEF Inv, Survives, CopyIsCurrent
<1> QED BY <1>6, <1>7, <1>8, <1>9

\* An operation on the copy changes neither the ledger nor what others hold.
LEMMA OperateStep ==
  ASSUME Inv, NEW c \in Sessions, NEW k \in Keys, Operate(c, k)
  PROVE  LockHeld' /\ MadeIsCopied' /\ CopyIsCurrent' /\ Survives'
<1> DEFINE o == [by |-> Kind(c), key |-> k, n |-> ops + 1]
<1>1. /\ copy' = [copy EXCEPT ![c][k] = @ \cup {o}]
      /\ made' = [made EXCEPT ![c] = @ \cup {o}]
      /\ UNCHANGED <<ledger, lock, phase, acked, archived, overwritten>>
  BY DEF Operate
<1>2. o.by = Kind(c) /\ o.key = k
  OBVIOUS
<1> HIDE DEF o
<1>3. \A d \in Sessions, j \in Keys : copy[d][j] \subseteq copy'[d][j]
  BY <1>1 DEF Inv, TypeOK, Rows
<1>4. o \in copy'[c][k]
  BY <1>1 DEF Inv, TypeOK, Rows
<1>5. /\ \A x \in acked : x.key \in Keys
      /\ \A d \in Sessions : \A x \in made[d] : x.key \in Keys
  BY DEF Inv, TypeOK, Op
<1>6. LockHeld' /\ Survives'
  BY <1>1 DEF Inv, LockHeld, Survives, Excused, LostToAnother, Kind
<1>7. MadeIsCopied'
  BY <1>1, <1>2, <1>3, <1>4, <1>5 DEF Operate, Inv, TypeOK, MadeIsCopied, InProgress, Kind
<1>8. CopyIsCurrent'
  BY <1>1, <1>3, <1>5 DEF Inv, CopyIsCurrent, InProgress, Excused, LostToAnother, Kind
<1> QED BY <1>6, <1>7, <1>8

\* The fetched copy holds whatever the ledger holds.
LEMMA FetchStep ==
  ASSUME Inv, NEW c \in Sessions, Fetch(c)
  PROVE  LockHeld' /\ MadeIsCopied' /\ CopyIsCurrent' /\ Survives'
<1>1. /\ copy' = [copy EXCEPT ![c] = Restored(c)]
      /\ phase' = [phase EXCEPT ![c] = "running"]
      /\ UNCHANGED <<ledger, lock, made, acked, archived, overwritten>>
  BY DEF Fetch
<1>2. \A x \in acked : x.key \in Keys
  BY DEF Inv, TypeOK, Op
<1>3. LockHeld' /\ Survives'
  BY <1>1 DEF Fetch, Inv, TypeOK, LockHeld, Survives, Excused, LostToAnother, Kind
<1>4. CopyIsCurrent'
  BY <1>1, <1>2 DEF Inv, TypeOK, CopyIsCurrent, InProgress, Excused, LostToAnother, Kind, Restored
<1>5. MadeIsCopied'
  BY <1>1 DEF Fetch, Inv, TypeOK, MadeIsCopied, InProgress, Kind
<1> QED BY <1>3, <1>4, <1>5

\* The steps of the retention command: what a delete takes away is archived
\* or recorded as lost to retention, which is no session's kind.
LEMMA RetentionInv ==
  ASSUME Inv, RetentionStep
  PROVE  LockHeld' /\ MadeIsCopied' /\ CopyIsCurrent' /\ Survives'
<1>1. UNCHANGED <<lock, phase, copy, made, acked>>
  BY DEF RetentionStep, RetentionArchive, RetentionDelete, RetentionFails
<1>2. LockHeld'
  BY <1>1 DEF Inv, LockHeld, Kind
<1>3. MadeIsCopied'
  BY <1>1 DEF Inv, MadeIsCopied, InProgress, Kind
<1>4. ASSUME UNCHANGED <<ledger, archived, overwritten>>
      PROVE  CopyIsCurrent' /\ Survives'
  BY <1>1, <1>4 DEF Inv, CopyIsCurrent, Survives, InProgress, Excused, LostToAnother, Kind
<1>5. CASE RetentionDelete
  <2> DEFINE left == [k \in Keys |-> IF retention.archive[k] # {} THEN {} ELSE ledger[k]]
             kept == UNION {retention.archive[k] : k \in Keys}
  <2>1. /\ ledger' = left /\ archived' = archived \cup kept
        /\ overwritten' = overwritten \cup ((Removed(left) \ kept) \X {"retention"})
    BY <1>5 DEF RetentionDelete
  <2>2. \A o \in Op : left[o.key] \subseteq ledger[o.key]
    BY DEF Op
  <2> HIDE DEF left, kept
  <2>3. \A o \in acked : Excused(o) => Excused(o)'
    BY <2>1 DEF Excused, LostToAnother
  <2>4. Survives'
    <3> SUFFICES ASSUME NEW o \in acked, ~Excused(o), o \notin left[o.key]
                 PROVE  Excused(o)'
      BY <1>1, <2>1, <2>3 DEF Survives
    <3>1. o \in Op /\ o.key \in Keys /\ o \in ledger[o.key]
      BY DEF Inv, TypeOK, Op, Survives
    <3>2. o \in Removed(left)
      BY <3>1 DEF Removed
    <3>3. CASE o \in kept
      BY <2>1, <3>3 DEF Excused
    <3>4. CASE o \notin kept
      <4>1. <<o, "retention">> \in overwritten'
        BY <2>1, <3>2, <3>4
      <4>2. o.by # "retention"
        BY <3>1 DEF Op, Locks
      <4> QED BY <4>1, <4>2 DEF Excused, LostToAnother, Writers
    <3> QED BY <3>3, <3>4
  <2>5. CopyIsCurrent'
    <3> SUFFICES ASSUME NEW d \in Sessions, NEW o \in acked', InProgress(d)',
                        o.by = Kind(d), o \in ledger'[o.key], ~Excused(o)'
                 PROVE  o \in copy'[d][o.key]
      BY DEF CopyIsCurrent, Kind
    <3>1. o \in acked /\ o \in Op /\ InProgress(d)
      BY <1>1 DEF Inv, TypeOK, InProgress
    <3>2. o \in ledger[o.key] /\ ~Excused(o)
      BY <2>1, <2>2, <2>3, <3>1
    <3> QED BY <1>1, <3>1, <3>2 DEF Inv, CopyIsCurrent
  <2> QED BY <1>2, <1>3, <2>4, <2>5
<1> QED BY <1>2, <1>3, <1>4, <1>5
      DEF RetentionStep, RetentionArchive, RetentionFails

\* Every step of the fleet preserves the invariant.
LEMMA InvStep == Inv /\ [Next]_vars => Inv'
<1> SUFFICES ASSUME Inv, [Next]_vars
             PROVE  LockHeld' /\ MadeIsCopied' /\ CopyIsCurrent' /\ Survives'
  BY TypeStep DEF Inv
<1>1. ASSUME NEW c \in Sessions, SessionStep(c)
      PROVE  LockHeld' /\ MadeIsCopied' /\ CopyIsCurrent' /\ Survives'
  <2>1. CASE Acquire(c)
    <3>1. /\ lock' = [lock EXCEPT ![Kind(c)] = c]
          /\ phase' = [phase EXCEPT ![c] = "locked"]
          /\ lock[Kind(c)] = NoHolder /\ phase[c] = "idle"
          /\ UNCHANGED <<ledger, copy, made, acked, archived, overwritten>>
      BY <2>1 DEF Acquire
    <3>2. \A d \in Sessions : d # c /\ phase[d] # "idle" => Kind(d) # Kind(c)
      BY <3>1, SessionAssumption DEF Inv, LockHeld
    <3>3. LockHeld'
      BY <3>1, <3>2, KindType DEF Inv, TypeOK, LockHeld, Kind
    <3>4. MadeIsCopied' /\ CopyIsCurrent'
      BY <3>1 DEF Inv, TypeOK, MadeIsCopied, CopyIsCurrent, InProgress, Excused,
                  LostToAnother, Kind
    <3>5. Survives'
      BY <3>1 DEF Inv, Survives, Excused, LostToAnother
    <3> QED BY <3>3, <3>4, <3>5
  <2>2. CASE Fetch(c)
    BY <2>2, FetchStep
  <2>3. CASE FetchRefused(c) \/ CommitFails(c) \/ Crash(c)
    BY <2>3, QuietEnd DEF FetchRefused, CommitFails, Crash
  <2>4. CASE \E k \in Keys : Operate(c, k)
    BY <2>4, OperateStep
  <2>5. CASE Throw(c)
    <3>1. CASE End(c)
      BY <2>5, <3>1, QuietEnd DEF Throw
    <3>2. CASE phase' = [phase EXCEPT ![c] = "failed"] /\ UNCHANGED <<lock, copy, made>>
      <4>1. UNCHANGED <<ledger, acked, archived, overwritten>> /\ phase[c] = "running"
        BY <2>5 DEF Throw
      <4>2. LockHeld' /\ Survives'
        BY <3>2, <4>1 DEF Inv, TypeOK, LockHeld, Survives, Excused, LostToAnother, Kind
      <4>3. MadeIsCopied' /\ CopyIsCurrent'
        BY <3>2, <4>1 DEF Inv, TypeOK, MadeIsCopied, CopyIsCurrent, InProgress, Excused,
                          LostToAnother, Kind
      <4> QED BY <4>2, <4>3
    <3> QED BY <2>5, <3>1, <3>2 DEF Throw
  <2>6. CASE \E answered \in BOOLEAN : Commit(c, answered)
    <3>1. PICK answered \in BOOLEAN : Commit(c, answered)
      BY <2>6
    <3>2. LockHeld'
      BY <3>1, EndKeepsLocks DEF Commit, Inv
    <3>3. MadeIsCopied'
      BY <3>1 DEF Commit, End, Inv, TypeOK, MadeIsCopied, InProgress, Kind
    <3> QED BY <3>1, <3>2, <3>3, CommitSurvives, CommitCurrent
  <2>7. CASE \E k \in Keys : WriteIntent(c, k)
    BY <2>7, IntentStep
  <2> QED BY <1>1, <2>1, <2>2, <2>3, <2>4, <2>5, <2>6, <2>7 DEF SessionStep
<1>2. CASE RetentionStep
  BY <1>2, RetentionInv
<1>3. CASE UNCHANGED vars
  BY <1>3 DEF vars, Inv, LockHeld, MadeIsCopied, CopyIsCurrent, Survives, InProgress,
              Excused, LostToAnother, Kind
<1> QED BY <1>1, <1>2, <1>3 DEF Next

\* Whatever the number of servers, bridges and mirrors: an acknowledged
\* operation of the runtime store is taken out of the ledger only by the
\* retention command or by a writer under another lock.
THEOREM SharedLedgerSafe == Spec => []AcknowledgedSurvives
<1>1. Inv => AcknowledgedSurvives
  BY DEF Inv, Survives, Excused, AcknowledgedSurvives
<1> QED BY <1>1, InvInit, InvStep, PTL DEF Spec

\* The sessions, the ledger and the mirrors keep to their types, whatever the
\* number of servers, bridges and mirrors.
THEOREM SharedLedgerTypes == Spec => []TypeOK
<1>1. Init => TypeOK
  BY TypeInit
<1>2. TypeOK /\ [Next]_vars => TypeOK'
  BY TypeStep
<1> QED BY <1>1, <1>2, PTL DEF Spec
=============================================================================
