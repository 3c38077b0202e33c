---------------------------- MODULE SharedLedger ----------------------------
(***************************************************************************)
(* The authoritative Postgres ledger of a fleet (table ledger_entries).    *)
(* Every writer copies the whole ledger into a SQLite store, works on the  *)
(* copy, and upserts every row of the copy.  Two kinds of session do so,   *)
(* each under an advisory lock of its own:                                 *)
(*   - a server, one withWrite transaction of PostgresProposalRuntimeStore *)
(*     (lock "...:runtime-store");                                         *)
(*   - a bridge, one CLI command or one worker drain                       *)
(*     (lock "...:shared-ledger-mirror"); a mirror is a bridge over a      *)
(*     durable local store instead of a temporary one.                     *)
(* PostgresWritebackIntentStore writes an intent row directly, from within *)
(* a bridge, under neither of these locks, and the retention command       *)
(* deletes rows under no lock at all.                                      *)
(*                                                                         *)
(* The payload of a row is abstracted to the set of operations it          *)
(* reflects; the empty set is an absent row.                               *)
(***************************************************************************)
EXTENDS Naturals, FiniteSets

CONSTANTS
    Servers,     \* concurrent withWrite calls
    Bridges,     \* concurrent commands and worker drains
    Mirrors,     \* the bridges whose local store outlives the command
    Keys,        \* entry_key values
    IntentKeys,  \* the keys of writeback_intents rows
    MaxEntries,  \* max_entries
    MaxOps,      \* bound: operations of one behaviour
    NoHolder     \* a free lock

Sessions == Servers \cup Bridges
Locks == {"server", "bridge"}
Writers == Locks \cup {"intent", "retention"}

ASSUME SessionAssumption ==
    /\ Servers \cap Bridges = {} /\ Mirrors \subseteq Bridges
    /\ IntentKeys \subseteq Keys
    /\ NoHolder \notin Sessions
    /\ MaxOps \in Nat /\ MaxEntries \in Nat

Kind(c) == IF c \in Servers THEN "server" ELSE "bridge"

\* One operation: who wrote it, the row it changed, and its number.
Op == [by : Locks \cup {"intent"}, key : Keys, n : 1 .. MaxOps]
Rows == [Keys -> SUBSET Op]
NoRows == [k \in Keys |-> {}]
Entries(rows) == {k \in Keys : rows[k] # {}}

Phases == {"idle", "locked", "running", "failed"}

VARIABLES
    ledger,      \* ledger_entries
    lock,        \* the holder of each advisory lock
    phase,       \* where each session is
    copy,        \* the SQLite store of each session
    made,        \* what the session's callback has done so far
    retention,   \* the retention command: its chosen rows, as archived
    ops,         \* number of operations so far
    acked,       \* history: operations whose caller was told they succeeded
    archived,    \* history: operations kept in the archive of deleted rows
    overwritten  \* history: <<operation, kind of the writer that removed it>>

vars == <<ledger, lock, phase, copy, made, retention, ops, acked, archived,
          overwritten>>

Init ==
    /\ ledger = NoRows
    /\ lock = [l \in Locks |-> NoHolder]
    /\ phase = [c \in Sessions |-> "idle"]
    /\ copy = [c \in Sessions |-> NoRows]
    /\ made = [c \in Sessions |-> {}]
    /\ retention = [running |-> FALSE, archive |-> NoRows]
    /\ ops = 0
    /\ acked = {} /\ archived = {} /\ overwritten = {}

----------------------------------------------------------------------------
(* Copying in and out *)

\* importSharedLedgerEntries: every fetched row replaces the local one; a
\* row only the local store has stays.
Restored(c) == [k \in Keys |-> IF ledger[k] # {} THEN ledger[k]
                                                 ELSE copy[c][k]]

\* upsertSharedLedgerEntries: every row of the copy replaces the row of the
\* ledger, a row the copy does not have is left alone.
Upserted(c) == [k \in Keys |-> IF copy[c][k] # {} THEN copy[c][k]
                                                  ELSE ledger[k]]

\* What the ledger held and a new value of it no longer holds.
Removed(new) == {o \in UNION {ledger[k] : k \in Keys} : o \notin new[o.key]}

\* The session ends: its transaction or its connection gives up the lock; a
\* temporary store is closed or deleted, a durable one stays.
End(c) ==
    /\ phase' = [phase EXCEPT ![c] = "idle"]
    /\ lock' = [l \in Locks |-> IF lock[l] = c THEN NoHolder ELSE lock[l]]
    /\ made' = [made EXCEPT ![c] = {}]
    /\ copy' = [copy EXCEPT ![c] = IF c \in Mirrors THEN @ ELSE NoRows]

----------------------------------------------------------------------------
(* The steps of a session *)

\* Mutant: the lock is not taken, only looked for.
AcquireAnyway(c) ==
    /\ phase[c] = "idle"
    /\ lock' = [lock EXCEPT ![Kind(c)] = c]
    /\ phase' = [phase EXCEPT ![c] = "locked"]
    /\ UNCHANGED <<ledger, copy, made, retention, ops, acked, archived,
                   overwritten>>

\* pg_try_advisory_xact_lock, or pg_try_advisory_lock for a bridge.  A session
\* that times out on a held lock has done nothing yet: it stays idle.
Acquire(c) ==
    /\ phase[c] = "idle"
    /\ lock[Kind(c)] = NoHolder
    /\ lock' = [lock EXCEPT ![Kind(c)] = c]
    /\ phase' = [phase EXCEPT ![c] = "locked"]
    /\ UNCHANGED <<ledger, copy, made, retention, ops, acked, archived,
                   overwritten>>

Fetch(c) ==
    /\ phase[c] = "locked"
    /\ Cardinality(Entries(ledger)) <= MaxEntries
    /\ copy' = [copy EXCEPT ![c] = Restored(c)]
    /\ phase' = [phase EXCEPT ![c] = "running"]
    /\ UNCHANGED <<ledger, lock, made, retention, ops, acked, archived,
                   overwritten>>

\* The ledger exceeds the safety bound: nothing is copied.
FetchRefused(c) ==
    /\ phase[c] = "locked"
    /\ Cardinality(Entries(ledger)) > MaxEntries
    /\ End(c)
    /\ UNCHANGED <<ledger, retention, ops, acked, archived, overwritten>>

\* The callback creates or changes a row of the copy.  The one command that
\* changes an intent row in the copy of a bridge, writeback reconcile, finds
\* the row there, and applies nothing.
Operate(c, k) ==
    /\ phase[c] = "running"
    /\ k \in IntentKeys /\ c \in Bridges =>
         copy[c][k] # {} /\ \A o \in made[c] : o.by # "intent"
    /\ ops < MaxOps
    /\ ops' = ops + 1
    /\ LET o == [by |-> Kind(c), key |-> k, n |-> ops + 1]
       IN /\ copy' = [copy EXCEPT ![c][k] = @ \cup {o}]
          /\ made' = [made EXCEPT ![c] = @ \cup {o}]
    /\ UNCHANGED <<ledger, lock, phase, retention, acked, archived,
                   overwritten>>

\* Mutant: the transaction of a failed callback is left open.
ThrowLeavesOpen(c) ==
    /\ phase[c] = "running"
    /\ phase' = [phase EXCEPT ![c] = "aborted"]
    /\ UNCHANGED <<ledger, lock, copy, made, retention, ops, acked, archived,
                   overwritten>>

\* The callback throws.  A server rolls back; a bridge syncs what the command
\* did before it failed and reports the command's error.
Throw(c) ==
    /\ phase[c] = "running"
    /\ \/ c \in Servers /\ End(c)
       \/ /\ c \in Bridges
          /\ phase' = [phase EXCEPT ![c] = "failed"]
          /\ UNCHANGED <<lock, copy, made>>
    /\ UNCHANGED <<ledger, retention, ops, acked, archived, overwritten>>

\* The upsert of the whole copy and its COMMIT.  "answered" is FALSE when the
\* answer to COMMIT is lost or the process dies before it returns.
Commit(c, answered) ==
    /\ \/ phase[c] = "running"
       \/ phase[c] = "failed" /\ c \in Bridges
    /\ Cardinality(Entries(copy[c])) <= MaxEntries
    /\ ledger' = Upserted(c)
    /\ overwritten' = overwritten \cup (Removed(Upserted(c)) \X {Kind(c)})
    /\ acked' = IF answered /\ phase[c] = "running" THEN acked \cup made[c]
                                                    ELSE acked
    /\ End(c)
    /\ UNCHANGED <<retention, ops, archived>>

\* The copy exceeds max_entries, or a statement of the transaction fails:
\* ROLLBACK and an error.
CommitFails(c) ==
    /\ phase[c] \in {"running", "failed"}
    /\ End(c)
    /\ UNCHANGED <<ledger, retention, ops, acked, archived, overwritten>>

\* The process dies, Postgres rolls its transaction back and drops its locks.
Crash(c) ==
    /\ phase[c] # "idle"
    /\ End(c)
    /\ UNCHANGED <<ledger, retention, ops, acked, archived, overwritten>>

----------------------------------------------------------------------------
(* The writers that take neither lock *)

\* withIntent: an apply inside a bridge changes the ledger's intent row in a
\* transaction of its own, from the row's current value.
WriteIntent(c, k) ==
    /\ phase[c] = "running"
    /\ c \in Bridges /\ k \in IntentKeys
    /\ \A o \in made[c] : o.key \in IntentKeys => o.by = "intent"
    /\ ops < MaxOps
    /\ ops' = ops + 1
    /\ LET o == [by |-> "intent", key |-> k, n |-> ops + 1]
       IN /\ ledger' = [ledger EXCEPT ![k] = @ \cup {o}]
          /\ made' = [made EXCEPT ![c] = @ \cup {o}]
          /\ acked' = acked \cup {o}
    /\ UNCHANGED <<lock, phase, copy, retention, archived, overwritten>>

\* storeSharedPostgresRetention reads the ledger, prunes a copy and writes
\* the rows the pruning dropped to the archive ...
RetentionArchive(old) ==
    /\ ~retention.running
    /\ old # {}
    /\ retention' = [running |-> TRUE,
                     archive |-> [k \in Keys |-> IF k \in old THEN ledger[k]
                                                              ELSE {}]]
    /\ UNCHANGED <<ledger, lock, phase, copy, made, ops, acked, archived,
                   overwritten>>

\* ... and then deletes the rows with these keys, whatever they hold by now.
RetentionDelete ==
    /\ retention.running
    /\ LET left == [k \in Keys |-> IF retention.archive[k] # {} THEN {}
                                                                ELSE ledger[k]]
           kept == UNION {retention.archive[k] : k \in Keys}
       IN /\ ledger' = left
          /\ archived' = archived \cup kept
          /\ overwritten' = overwritten
                              \cup ((Removed(left) \ kept) \X {"retention"})
    /\ retention' = [running |-> FALSE, archive |-> NoRows]
    /\ UNCHANGED <<lock, phase, copy, made, ops, acked>>

\* The archive cannot be written or read back, the DELETE fails, or the
\* command is interrupted: no row is deleted.
RetentionFails ==
    /\ retention.running
    /\ retention' = [running |-> FALSE, archive |-> NoRows]
    /\ UNCHANGED <<ledger, lock, phase, copy, made, ops, acked, archived,
                   overwritten>>

----------------------------------------------------------------------------

SessionStep(c) ==
    \/ Acquire(c)
    \/ Fetch(c)
    \/ FetchRefused(c)
    \/ \E k \in Keys : Operate(c, k)
    \/ Throw(c)
    \/ \E answered \in BOOLEAN : Commit(c, answered)
    \/ CommitFails(c)
    \/ Crash(c)
    \/ \E k \in Keys : WriteIntent(c, k)

RetentionStep ==
    \/ \E old \in SUBSET Entries(ledger) : RetentionArchive(old)
    \/ RetentionDelete
    \/ RetentionFails

Next == (\E c \in Sessions : SessionStep(c)) \/ RetentionStep

Spec == Init /\ [][Next]_vars

----------------------------------------------------------------------------
(* Properties *)

\* The types of the variables.
TypeOK ==
    /\ ledger \in Rows
    /\ lock \in [Locks -> Sessions \cup {NoHolder}]
    /\ phase \in [Sessions -> Phases]
    /\ copy \in [Sessions -> Rows]
    /\ made \in [Sessions -> SUBSET Op]
    /\ retention \in [running : BOOLEAN, archive : Rows]
    /\ ops \in 0 .. MaxOps
    /\ acked \subseteq Op /\ archived \subseteq Op
    /\ overwritten \subseteq Op \X Writers

\* Removed by a writer that does not hold the lock under which it was made.
LostToAnother(o) == \E b \in Writers \ {o.by} : <<o, b>> \in overwritten

\* An operation whose caller was told it succeeded is in the ledger until
\* retention archives it; only a writer under another lock, or under none,
\* can take it away.  Copying the whole ledger out and back is safe among the
\* writers that share a lock, through timeouts, failed commands that are
\* synced all the same, lost answers to COMMIT, crashes and mirrors that keep
\* a stale local store (withWrite, withSharedPostgresRuntimeStoreBridge).
AcknowledgedSurvives ==
    \A o \in acked : o \in ledger[o.key] \/ o \in archived \/ LostToAnother(o)

\* What docs/running-a-runner-fleet.md says of the runtime store: "each
\* mutation holds one schema-scoped Postgres advisory lock", so that no
\* acknowledged operation is ever overwritten by a stale copy.
NoLostUpdate ==
    \A o \in acked : o \in ledger[o.key] \cup archived
=============================================================================
