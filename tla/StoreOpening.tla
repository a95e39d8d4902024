---------------------------- MODULE StoreOpening ----------------------------
(***************************************************************************)
(* MatterStore.__init__: processes open one matter.sqlite, which creates   *)
(* it where it is absent and migrates one of an earlier schema.  SQLite    *)
(* makes a statement, or a transaction, one step; between them other       *)
(* processes run, and a process may be killed or interrupted.  A file is   *)
(* an inode: a process goes on with the one it has connected to after the  *)
(* name is unlinked, but SQLite refuses to write to it.                    *)
(***************************************************************************)
EXTENDS Naturals, Sequences

CONSTANTS
    Openers,        \* processes that open the store
    Inodes, NoInode,
    MaxStops        \* bound on interrupted and killed processes

ASSUME OpeningAssumption == NoInode \notin Inodes /\ MaxStops \in Nat

VARIABLES
    path,     \* the file named matter.sqlite
    store,    \* per file: what the database holds
    opener,   \* per process: where its constructor is
    stops

openingVars == <<path, store, opener, stops>>

SCHEMA_VERSION == 4

\* A plausible bug: the tables of a migration come first, as a group.
MutSchema ==
    <<"user_version", "matter_meta", "schema_version", "formalization_snapshots",
      "formal_run_bindings", "matter_source_dependencies", "matters", "matter_baselines",
      "matter_events", "matter_projections", "matter_evidence_bindings">>

\* schema.sql, statement by statement, outside any transaction.
Schema ==
    <<"user_version", "matter_meta", "schema_version", "matters", "matter_baselines",
      "matter_events", "matter_projections", "matter_source_dependencies",
      "matter_evidence_bindings", "formalization_snapshots", "formal_run_bindings">>

Tables == {Schema[i] : i \in DOMAIN Schema} \ {"user_version", "schema_version"}

\* meta: the value of schema_version, 0 without a row.  revisions: the dependencies
\* have the column source_revision_id.  earlier: an earlier version made the file.
Database == [version : 0 .. SCHEMA_VERSION, meta : 0 .. SCHEMA_VERSION,
             tables : SUBSET Tables, revisions : BOOLEAN, earlier : BOOLEAN]

Empty == [version |-> 0, meta |-> 0, tables |-> {}, revisions |-> FALSE, earlier |-> FALSE]

\* What a database of a version consists of.
TablesOf(v) ==
    Tables \ ((IF v < 2 THEN {"formalization_snapshots"} ELSE {})
              \cup (IF v < 3 THEN {"formal_run_bindings"} ELSE {}))

WholeFor(d, v) ==
    /\ d.version = v /\ d.meta = v /\ TablesOf(v) \subseteq d.tables
    /\ v = SCHEMA_VERSION => d.revisions

Earlier(v) == [version |-> v, meta |-> v, tables |-> TablesOf(v),
               revisions |-> v = SCHEMA_VERSION, earlier |-> TRUE]

PCs == {"closed", "connect", "script", "version", "migrate1", "migrate2", "migrate3",
        "require", "failed", "open"}

\* isNew: whether the path was absent; at: the next statement of the schema.
Closed == [pc |-> "closed", inode |-> NoInode, isNew |-> FALSE, at |-> 1]

OpeningTypeOK ==
    /\ path \in Inodes \cup {NoInode} /\ stops \in 0 .. MaxStops
    /\ store \in [Inodes -> Database]
    /\ opener \in [Openers -> [pc : PCs, inode : Inodes \cup {NoInode}, isNew : BOOLEAN,
                               at : 1 .. Len(Schema) + 1]]

OpeningInit ==
    /\ path \in Inodes \cup {NoInode} /\ stops = 0
    /\ \E v \in 1 .. SCHEMA_VERSION :
          store = [i \in Inodes |-> IF i = path THEN Earlier(v) ELSE Empty]
    /\ opener = [p \in Openers |-> Closed]

----------------------------------------------------------------------------

Goto(p, step) == opener' = [opener EXCEPT ![p].pc = step]

\* An exception leaves the constructor, which then unlinks what it created.
Raise(p) ==
    /\ IF opener[p].isNew THEN Goto(p, "failed") ELSE opener' = [opener EXCEPT ![p] = Closed]
    /\ UNCHANGED <<path, store>>

\* self.path.exists().
LookForStore(p) ==
    /\ opener[p].pc = "closed"
    /\ opener' = [opener EXCEPT ![p] = [Closed EXCEPT !.pc = "connect", !.isNew = path = NoInode]]
    /\ UNCHANGED <<path, store, stops>>

\* sqlite3.connect creates an empty file where there is none.
Used == {path} \cup {opener[p].inode : p \in Openers}
Connect(p) ==
    /\ opener[p].pc = "connect"
    /\ \E i \in IF path = NoInode THEN Inodes \ Used ELSE {path} :
          /\ path' = i
          /\ store' = IF path = NoInode THEN [store EXCEPT ![i] = Empty] ELSE store
          /\ opener' = [opener EXCEPT ![p].inode = i,
                                      ![p].pc = IF opener[p].isNew THEN "script" ELSE "version"]
    /\ UNCHANGED stops

\* A database after a statement of the schema.
Executed(d, statement) ==
    CASE statement = "user_version" -> [d EXCEPT !.version = SCHEMA_VERSION]
      [] statement = "schema_version" -> [d EXCEPT !.meta = SCHEMA_VERSION]
      [] statement = "matter_source_dependencies" ->
            [d EXCEPT !.tables = @ \cup {statement},
                      !.revisions = @ \/ statement \notin d.tables]
      [] OTHER -> [d EXCEPT !.tables = @ \cup {statement}]

\* executescript.  IF NOT EXISTS writes nothing where the table is there.
ExecuteSchema(p) ==
    LET i == opener[p].inode
        statement == Schema[opener[p].at]
    IN  /\ opener[p].pc = "script" /\ UNCHANGED stops
        /\ IF i # path /\ statement \notin store[i].tables THEN Raise(p)
           ELSE /\ store' = [store EXCEPT ![i] = Executed(@, statement)]
                /\ opener' = [opener EXCEPT ![p].at = @ + 1,
                                 ![p].pc = IF opener[p].at = Len(Schema) THEN "require" ELSE @]
                /\ UNCHANGED path

\* _migrate_schema reads the version before any transaction.
ReadVersion(p) ==
    LET version == store[opener[p].inode].version
    IN  /\ opener[p].pc = "version" /\ UNCHANGED stops
        /\ IF version = 0 THEN Raise(p)
           ELSE /\ Goto(p, CASE version = 1 -> "migrate1" [] version = 2 -> "migrate2"
                             [] version = 3 -> "migrate3" [] OTHER -> "require")
                /\ UNCHANGED <<path, store>>

\* One transaction, which compares the version in matter_meta again.
Migrated(d, to) ==
    IF to = 3
    THEN [d EXCEPT !.version = 3, !.meta = 3,
                   !.tables = @ \cup {"formalization_snapshots", "formal_run_bindings"}]
    ELSE [d EXCEPT !.version = 4, !.meta = 4, !.revisions = TRUE]

Migrate(p, from, needs, to, next) ==
    LET i == opener[p].inode
    IN  /\ UNCHANGED stops
        /\ IF i = path /\ store[i].meta = from /\ needs \subseteq store[i].tables
           THEN /\ store' = [store EXCEPT ![i] = Migrated(@, to)]
                /\ Goto(p, next) /\ UNCHANGED path
           ELSE Raise(p)

MigrateFrom1(p) == opener[p].pc = "migrate1" /\ Migrate(p, 1, {}, 3, "migrate3")
MigrateFrom2(p) ==
    opener[p].pc = "migrate2" /\ Migrate(p, 2, {"formalization_snapshots"}, 3, "migrate3")
MigrateFrom3(p) ==
    opener[p].pc = "migrate3" /\ Migrate(p, 3, {"matter_source_dependencies"}, 4, "require")

\* _require_schema, which does not look at every table.  What each of its reads
\* finds stays so: it is one step.
Required == {"formalization_snapshots", "formal_run_bindings", "matter_source_dependencies"}
RequireSchema(p) ==
    LET d == store[opener[p].inode]
    IN  /\ opener[p].pc = "require" /\ UNCHANGED stops
        /\ IF /\ d.version = SCHEMA_VERSION /\ d.meta = SCHEMA_VERSION
              /\ Required \subseteq d.tables /\ d.revisions
           THEN Goto(p, "open") /\ UNCHANGED <<path, store>>
           ELSE Raise(p)

\* Unlinks whatever has the name by now.
Unlink(p) ==
    /\ opener[p].pc = "failed"
    /\ path' = NoInode /\ opener' = [opener EXCEPT ![p] = Closed]
    /\ UNCHANGED <<store, stops>>

Close(p) ==
    /\ opener[p].pc = "open"
    /\ opener' = [opener EXCEPT ![p] = Closed] /\ UNCHANGED <<path, store, stops>>

\* An interrupt is an exception; a killed process unlinks nothing.
Constructing(p) == opener[p].pc \notin {"closed", "connect", "failed", "open"}
Interrupt(p) == Constructing(p) /\ stops < MaxStops /\ stops' = stops + 1 /\ Raise(p)
Kill(p) ==
    /\ opener[p].pc # "closed" /\ stops < MaxStops /\ stops' = stops + 1
    /\ opener' = [opener EXCEPT ![p] = Closed] /\ UNCHANGED <<path, store>>

OpeningStep(p) ==
    \/ LookForStore(p) \/ Connect(p) \/ ExecuteSchema(p) \/ ReadVersion(p)
    \/ MigrateFrom1(p) \/ MigrateFrom2(p) \/ MigrateFrom3(p) \/ RequireSchema(p)
    \/ Unlink(p) \/ Close(p) \/ Interrupt(p) \/ Kill(p)
OpeningNext == \E p \in Openers : OpeningStep(p)
OpeningSpec == OpeningInit /\ [][OpeningNext]_openingVars

----------------------------------------------------------------------------

\* A store that was opened has the whole schema, although _require_schema looks at
\* three of its tables and a creation that was cut short leaves any part of it; and a
\* store of an earlier version is whole for some version at every moment, so whoever
\* opens it next can go on, whatever migrations of it were cut short or ran together.
StoreIsWhole ==
    /\ \A p \in Openers :
          opener[p].pc = "open" => WholeFor(store[opener[p].inode], SCHEMA_VERSION)
    /\ \A i \in Inodes :
          store[i].earlier => \E v \in 1 .. SCHEMA_VERSION : WholeFor(store[i], v)
=============================================================================
