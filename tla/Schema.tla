-------------------------------- MODULE Schema -------------------------------
(***************************************************************************)
(* The database schema (schema.py and migrations/versions): migrate brings *)
(* any database the program ever made to the head revision, also one from  *)
(* before revisions were recorded, which is recognised by its tables and   *)
(* indexes and stamped; reset goes down to nothing and up again.           *)
(*                                                                         *)
(* The stamp, the way down and the way up are transactions of their own on *)
(* PostgreSQL (Alembic commits what it began), so that a process may end   *)
(* between them.  Indexes are named without their prefixes.                *)
(***************************************************************************)
EXTENDS Naturals

CONSTANTS
    Commands,   \* the commands the operator gives, of "migrate" and "reset"
    MaxCrashes  \* bound: processes that end between two transactions

\* What schema.py expects of a revision.
Baseline ==
    {"entities_kind", "point_id", "point_time", "outbox_done", "rule_id", "version_id"}
V2 ==
    (Baseline \ {"outbox_done"}) \cup
    {"edges_source", "edges_target", "outbox_pending", "version_status",
     "issue_status", "audit_action"}
HeadIndexes == (V2 \ {"point_time"}) \cup {"unique_point_time"}
Required == <<Baseline, V2, HeadIndexes>>
Revisions == DOMAIN Required
Head == 3

\* What the migrations do.
Creates ==
    <<{"entities_kind", "point_id", "point_time", "outbox_done", "rule_id", "version_id"},
      {"edges_source", "edges_target", "outbox_pending", "version_status",
       "issue_status", "audit_action"},
      {"unique_point_time"}>>
Drops == <<{}, {"outbox_done"}, {"point_time"}>>
Indexes == UNION {Creates[n] : n \in Revisions}

VARIABLES
    store, \* [tables, indexes, versioned, revision, repeated]
    pc,    \* "idle", or "run" when the way up is next
    crashes

vars == <<store, pc, crashes>>

\* versioned: is there a table of revisions, empty when revision is 0;
\* repeated: has the history two rows of a point and device time.
Stores ==
    [tables : {"none", "some", "all"}, indexes : SUBSET Indexes,
     versioned : BOOLEAN, revision : 0 .. Head, repeated : BOOLEAN]

TypeOK ==
    /\ store \in Stores
    /\ pc \in {"idle", "run"}
    /\ crashes \in 0 .. MaxCrashes
    /\ store.tables = "none" => store.indexes = {} /\ ~store.repeated
    /\ store.revision > 0 => store.versioned

Empty ==
    [tables |-> "none", indexes |-> {}, versioned |-> FALSE, revision |-> 0,
     repeated |-> FALSE]

\* A database from before revisions were recorded; below the head its history
\* may repeat a device time.
Unversioned(n, repeated) ==
    [Empty EXCEPT !.tables = "all", !.indexes = Required[n],
                  !.repeated = repeated /\ n < Head]

\* One that lacks something.
Damaged(n, index) == [Unversioned(n, FALSE) EXCEPT !.indexes = @ \ {index}]

Init ==
    /\ store \in {Empty, [Empty EXCEPT !.tables = "some"]} \cup
                 {Unversioned(n, b) : n \in Revisions, b \in BOOLEAN} \cup
                 {Damaged(n, index) : n \in Revisions, index \in Indexes}
    /\ pc = "idle" /\ crashes = 0

-------------------------------------------------------------------------------

\* Variant: revision 2 is taken for the baseline.
DetectedByTables(s) ==
    {n \in {1, Head} : /\ s.tables = "all" /\ ~s.versioned
                       /\ n = Head => Required[n] \subseteq s.indexes}

\* The revisions an unversioned database could be at; the highest counts.
Detected(s) ==
    {n \in Revisions : s.tables = "all" /\ ~s.versioned /\ Required[n] \subseteq s.indexes}

Up(s, n) ==
    [s EXCEPT !.tables = "all", !.versioned = TRUE, !.revision = n,
              !.indexes = (@ \ Drops[n]) \cup Creates[n]]

Possible(s, n) ==
    /\ Drops[n] \subseteq s.indexes
    /\ Creates[n] \cap s.indexes = {}
    /\ n = 1 => s.tables = "none"
    /\ "unique_point_time" \in Creates[n] => ~s.repeated

\* The database on the way up, revision by revision.
Way(s) ==
    LET at[n \in 0 .. Head] == IF n <= s.revision THEN s ELSE Up(at[n - 1], n)
    IN  at

CanUpgrade(s) == \A n \in s.revision + 1 .. Head : Possible(Way(s)[n - 1], n)

\* Variant: the revision is written, and the table of revisions is not there.
StampUnrecorded(s) == [s EXCEPT !.revision = CHOOSE n \in Detected(s) :
                                                \A m \in Detected(s) : m <= n]

Stamp(s) == [s EXCEPT !.versioned = TRUE,
                      !.revision = CHOOSE n \in Detected(s) :
                                       \A m \in Detected(s) : m <= n]

\* Without a revision but with tables the schema is recognised and stamped, or
\* refused as it is.
Migrate ==
    /\ pc = "idle" /\ "migrate" \in Commands
    /\ IF store.revision = 0 /\ (store.tables # "none" \/ store.versioned)
       THEN Detected(store) # {} /\ store' = Stamp(store)
       ELSE UNCHANGED store
    /\ pc' = "run"
    /\ UNCHANGED crashes

\* All migrations to the head in one transaction, or none when one fails.
Run ==
    /\ pc = "run"
    /\ store' = IF CanUpgrade(store) THEN Way(store)[Head] ELSE store
    /\ pc' = "idle"
    /\ UNCHANGED crashes

\* Down to nothing; the table of revisions stays, and what no revision made.
Reset ==
    /\ pc = "idle" /\ "reset" \in Commands
    /\ store' = IF store.revision = 0 THEN [store EXCEPT !.versioned = TRUE]
                ELSE [Empty EXCEPT !.versioned = TRUE]
    /\ pc' = "run"
    /\ UNCHANGED crashes

\* The process ends between its transactions.
Crash ==
    /\ pc = "run" /\ crashes < MaxCrashes
    /\ pc' = "idle" /\ crashes' = crashes + 1
    /\ UNCHANGED store

\* The operator removes what is repeated.
Repair ==
    /\ store.repeated
    /\ store' = [store EXCEPT !.repeated = FALSE]
    /\ UNCHANGED <<pc, crashes>>

Next == Migrate \/ Run \/ Reset \/ Crash \/ Repair

Spec == Init /\ [][Next]_vars

\* Commands are given until the schema is at the head, and all of them; the
\* operator repairs.
FairSpec ==
    /\ Spec /\ WF_vars(Run) /\ WF_vars(Repair)
    /\ SF_vars(Migrate) /\ SF_vars(Reset)

-------------------------------------------------------------------------------
(* Properties. *)

\* A recorded revision means the schema of that revision, however the database
\* came to it: by migrations, by a stamp or by a reset (schema.py:14-34 against
\* migrations/versions; docs/architecture.md:66, require_current).
RevisionTruthful ==
    \A n \in {store.revision} \ {0} :
        /\ store.tables = "all"
        /\ store.indexes = Required[n]
        /\ n = Head => ~store.repeated

\* What has been stamped can be migrated, once its history repeats nothing: a
\* damaged schema is refused and not stamped (schema.py:50-111).
StampedIsUpgradable ==
    store.revision > 0 /\ ~store.repeated => CanUpgrade(store)

\* Every database the program made, however old, gets to the head by migrate,
\* although the process may end between stamp and migrations (schema.py:103-113;
\* README.md:30, "Explicit commands are available for review and recovery").
Supported ==
    store \in {Empty} \cup {Unversioned(n, b) : n \in Revisions, b \in BOOLEAN}

EventuallyHead == Supported ~> store.revision = Head

\* The same is said of migrate and reset together, in README.md:30-36.
CommandsRecover == EventuallyHead
===============================================================================
