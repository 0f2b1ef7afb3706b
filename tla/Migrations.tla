---------------------------- MODULE Migrations ----------------------------
(***************************************************************************)
(* Opening the state database (daemon/src/store.rs: open, migrate,         *)
(* apply_migrations, apply_one_migration): the refusal of a truncated      *)
(* file, the integrity gate, one transaction per pending migration and the *)
(* backends' tables, over every database an earlier release can have left. *)
(*                                                                         *)
(* A schema is the set of the tables and columns it holds that migrations  *)
(* are about.  Earlier releases created the base schema with other columns *)
(* than today's, and before lnrent-y4m.5 ran a migration's statements      *)
(* outside a transaction, so a database may hold a prefix of the next      *)
(* migration under the version before it.                                  *)
(***************************************************************************)
EXTENDS Integers, Sequences

CONSTANTS
    MgCrashes,      \* crashes and I/O errors during the opens
    AtomicSince     \* the schema version at which migrations became transactions

ASSUME MigrationAssumption ==
    /\ MgCrashes \in Nat
    /\ AtomicSince \in 1..12

VARIABLES
    file,       \* the database file: absent, empty, corrupt or a database
    disk,       \* the committed schema: its user_version and its items
    txn,        \* the schema as the open transaction sees it, or NoTxn
    opening,    \* where open() stands
    refusal,    \* why it returned an error
    faults      \* crashes and I/O errors so far

mgVars == <<file, disk, txn, opening, refusal, faults>>

(***************************************************************************)
(* The migrations: ALTER .. ADD COLUMN fails on a column that exists, the  *)
(* others are IF NOT EXISTS or an idempotent UPDATE.                       *)
(***************************************************************************)
CreateItem(item) == [alter |-> FALSE, item |-> item]

AddColumn(item) == [alter |-> TRUE, item |-> item]

ResolverColumns == {"resolved_bolt11", "resolved_expiry", "resolution_gen"}

(* Columns today's base tables are created with, and a table that exists does not get. *)
BaseColumns == ResolverColumns \cup {"received_msat"}

FenceColumns == {"refund_fence", "sweep_fence"}

SCHEMA == <<CreateItem("base"), CreateItem("teardown_failure"), CreateItem("sweep_attempt")>>

M2_SEEN_MESSAGE == <<CreateItem("seen_message")>>

M3_SUSPEND_NOT_BEFORE == <<AddColumn("suspend_not_before")>>

M4_REFUND_RESOLUTION ==
    <<AddColumn("resolved_bolt11"), AddColumn("resolved_expiry"), AddColumn("resolution_gen")>>

M5_IDEMPOTENCY_CACHE_INDEXES == <<CreateItem("cache_indexes")>>

M6_EVENT_LOG_INDEXES == <<CreateItem("event_log_indexes")>>

M7_TEARDOWN_FAILURE == <<CreateItem("teardown_failure")>>

M8_SWEEP_ATTEMPT == <<CreateItem("sweep_attempt")>>

M9_TERMINAL_ROW_REAPER_INDEXES == <<CreateItem("reaper_indexes")>>

M10_CLEAR_STALE_DEADLINE_CURSORS == <<CreateItem("cursors_cleared")>>

M11_INVOICE_RECEIVED_MSAT == <<AddColumn("received_msat")>>

M12_ADR0022_FENCE_AND_MARKER == <<CreateItem("migration_marker")>>

MIGRATIONS ==
    <<SCHEMA, M2_SEEN_MESSAGE, M3_SUSPEND_NOT_BEFORE, M4_REFUND_RESOLUTION,
      M5_IDEMPOTENCY_CACHE_INDEXES, M6_EVENT_LOG_INDEXES, M7_TEARDOWN_FAILURE,
      M8_SWEEP_ATTEMPT, M9_TERMINAL_ROW_REAPER_INDEXES,
      M10_CLEAR_STALE_DEADLINE_CURSORS, M11_INVOICE_RECEIVED_MSAT,
      M12_ADR0022_FENCE_AND_MARKER>>

SCHEMA_VERSION == Len(MIGRATIONS)

BackendTables == {"phoenixd_tables", "lnv2_tables"}

Items(stmts) == {stmts[i].item : i \in DOMAIN stmts}

(* What a schema of version v holds. *)
ItemsAt(v) ==
    (IF v = 0 THEN {} ELSE {"base"})
    \cup (UNION {Items(MIGRATIONS[i]) : i \in 2..v})
    \cup (IF v >= 12 THEN FenceColumns ELSE {})

(* The base schema as the release of schema version e shipped it. *)
BaseOf(e, suspendInBase) ==
    {"base"}
    \cup (IF e >= 3 /\ suspendInBase THEN {"suspend_not_before"} ELSE {})
    \cup (IF e >= 4 THEN ResolverColumns ELSE {})
    \cup (IF e >= 7 THEN {"teardown_failure"} ELSE {})
    \cup (IF e >= 8 THEN {"sweep_attempt"} ELSE {})
    \cup (IF e >= 11 THEN {"received_msat"} ELSE {})

(* Databases earlier releases left: created by release l[1], upgraded to   *)
(* version l[3], with first statements l[4] of the next migration applied  *)
(* when the engine that stopped there was not transactional.  (A release   *)
(* adds a column to its base and to a migration together, so a base that   *)
(* holds the column is complete in it.)                                    *)
Left ==
    {[version |-> l[3], items |-> BaseOf(l[1], l[2]) \cup ItemsAt(l[3]) \cup l[4]] :
        l \in
            {q \in (1..SCHEMA_VERSION) \X BOOLEAN \X (0..SCHEMA_VERSION)
                    \X SUBSET (ResolverColumns \cup {"suspend_not_before", "seen_message", "received_msat"}) :
                \/ q[4] = {}
                \/ /\ q[3] < AtomicSince
                   /\ q[3] < SCHEMA_VERSION
                   /\ \E n \in DOMAIN MIGRATIONS[q[3] + 1] :
                        q[4] = Items(SubSeq(MIGRATIONS[q[3] + 1], 1, n))}}

NoSchema == [version |-> 0, items |-> {}]

NoTxn == [version |-> -1, items |-> {}]

(***************************************************************************)
(* apply_one_migration.                                                    *)
(***************************************************************************)
(* execute_batch: the statements in order, up to the first duplicate column. *)
FirstDuplicate(stmts, have) ==
    {i \in DOMAIN stmts :
        /\ stmts[i].alter /\ stmts[i].item \in have
        /\ \A j \in 1..i - 1 : ~(stmts[j].alter /\ stmts[j].item \in have)}

AfterBatch(stmts, have) ==
    have \cup {stmts[i].item :
                 i \in {k \in DOMAIN stmts : \A f \in FirstDuplicate(stmts, have) : k < f}}

BatchFails(stmts, have) == FirstDuplicate(stmts, have) # {}

(* The mutant: M4's duplicate taken for a fresh database, as M11's is. *)
HealsNothing(current, have) == have

(* The self-heal of a duplicate column, by migration. *)
Heals(current, have) ==
    CASE current = 3 -> have \cup ResolverColumns
      [] OTHER -> have

HealableAt(current) == current \in {3, 10}

(* What the step leaves in the transaction, and whether it fails. *)
Migrated1(current, have) ==
    LET stmts == MIGRATIONS[current + 1]
        start == have \cup (CASE current = 11 -> FenceColumns
                              [] current = 0 /\ "base" \notin have -> BaseColumns
                              [] OTHER -> {}) IN
    IF current = 2 /\ "suspend_not_before" \in have THEN [ok |-> TRUE, items |-> have]
    ELSE IF ~BatchFails(stmts, start) THEN [ok |-> TRUE, items |-> AfterBatch(stmts, start)]
    ELSE [ok |-> HealableAt(current), items |-> Heals(current, AfterBatch(stmts, start))]

(***************************************************************************)
(* open().                                                                 *)
(***************************************************************************)
FailOpen(why) ==
    /\ opening' = "failed"
    /\ refusal' = why
    /\ txn' = NoTxn

(* A zero-length file is refused; a missing one is created, empty at first. *)
OpenFile ==
    /\ opening = "closed"
    /\ IF file = "empty"
       THEN FailOpen("empty") /\ UNCHANGED file
       ELSE /\ file' = IF file = "absent" THEN "empty" ELSE file
            /\ opening' = "pragmas"
            /\ UNCHANGED <<refusal, txn>>
    /\ UNCHANGED <<disk, faults>>

(* journal_mode=WAL writes the header, then quick_check reads the whole file. *)
QuickCheck ==
    /\ opening = "pragmas"
    /\ IF file = "corrupt"
       THEN FailOpen("corrupt") /\ UNCHANGED file
       ELSE /\ file' = "db"
            /\ opening' = "migrating"
            /\ UNCHANGED <<refusal, txn>>
    /\ UNCHANGED <<disk, faults>>

BeginMigration ==
    /\ opening = "migrating" /\ txn = NoTxn
    /\ disk.version < SCHEMA_VERSION
    /\ txn' = disk
    /\ UNCHANGED <<file, disk, opening, refusal, faults>>

ApplyMigration ==
    /\ opening = "migrating" /\ txn # NoTxn /\ txn.version = disk.version
    /\ LET m == Migrated1(disk.version, txn.items) IN
       IF m.ok
       THEN txn' = [version |-> disk.version + 1, items |-> m.items] /\ UNCHANGED <<opening, refusal>>
       ELSE FailOpen("schema")
    /\ UNCHANGED <<file, disk, faults>>

CommitMigration ==
    /\ opening = "migrating" /\ txn # NoTxn /\ txn.version # disk.version
    /\ disk' = txn
    /\ txn' = NoTxn
    /\ UNCHANGED <<file, opening, refusal, faults>>

(* The backends' tables, on every open. *)
ApplyBackendSchemas ==
    /\ opening = "migrating" /\ txn = NoTxn
    /\ disk.version >= SCHEMA_VERSION
    /\ disk' = [disk EXCEPT !.items = @ \cup BackendTables]
    /\ opening' = "open"
    /\ UNCHANGED <<file, txn, refusal, faults>>

(* An I/O error or a full disk: rolled back, and the start fails. *)
StepFails ==
    /\ opening \in {"pragmas", "migrating"} /\ faults < MgCrashes
    /\ faults' = faults + 1
    /\ FailOpen("io")
    /\ UNCHANGED <<file, disk>>

(* A crash drops the transaction; the service manager starts the daemon again. *)
Killed ==
    /\ opening \in {"pragmas", "migrating"} /\ faults < MgCrashes
    /\ faults' = faults + 1
    /\ opening' = "closed"
    /\ txn' = NoTxn
    /\ UNCHANGED <<file, disk, refusal>>

StartAgain ==
    /\ opening \in {"failed", "open"}
    /\ opening' = "closed"
    /\ refusal' = "none"
    /\ UNCHANGED <<file, disk, txn, faults>>

MigrationsInit ==
    /\ \/ file \in {"absent", "empty"} /\ disk = NoSchema
       \/ file \in {"db", "corrupt"} /\ disk \in Left
       \/ file = "db" /\ disk = [version |-> SCHEMA_VERSION + 1,
                                 items |-> ItemsAt(SCHEMA_VERSION) \cup {"later"}]
    /\ txn = NoTxn
    /\ opening = "closed"
    /\ refusal = "none"
    /\ faults = 0

MigrationsNext ==
    \/ OpenFile \/ QuickCheck
    \/ BeginMigration \/ ApplyMigration \/ CommitMigration \/ ApplyBackendSchemas
    \/ StepFails \/ Killed \/ StartAgain

(***************************************************************************)
(* The version never lies: whatever release left the database and wherever *)
(* an upgrade was cut, the committed user_version covers only migrations   *)
(* that are wholly there, an opened store holds everything this binary     *)
(* uses, and no database a release can have left makes the start fail on a *)
(* migration's own statements.                                             *)
(***************************************************************************)
VersionIsWhole ==
    /\ disk.version <= SCHEMA_VERSION => ItemsAt(disk.version) \subseteq disk.items
    /\ opening = "open" =>
         ItemsAt(SCHEMA_VERSION) \cup BackendTables \subseteq disk.items
    /\ refusal # "schema"
=============================================================================
