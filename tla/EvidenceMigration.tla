-------------------------- MODULE EvidenceMigration --------------------------
(***************************************************************************)
(* The copy-on-write migrations of an evidence database, from schema 1 to  *)
(* 2, 2 to 3 and 3 to 4.  Each reads a source database, builds the         *)
(* migrated one under a temporary name beside the output, and moves it and *)
(* its report into place.  The names of the temporary files are fixed, so  *)
(* two migrations to one output share them; a crash leaves them behind.    *)
(***************************************************************************)
EXTENDS Integers

CONSTANTS
  Migrators,       \* processes that migrate one source to one output
  DbContents,      \* logical contents of the source database
  NoFile,          \* nothing is at a path
  MaxSourceSwaps   \* bound: replacements of the source by another program

\* A database file, by who wrote it, from what and in which schema; a report.
Files == [by : Migrators, from : DbContents, schema : 0..4]
Reports == [source : DbContents, logical : DbContents, output : Files]

ASSUME MigrationAssumption ==
  /\ MaxSourceSwaps \in Nat
  /\ NoFile \notin Files
  /\ NoFile \notin Reports

VARIABLES
  version,     \* schema version of the source: which migration runs
  source,      \* content of the source database
  sourceSwaps, \* history: how often the source was replaced
  mtmp, mout, mrtmp, mreport,  \* temporary database, output, temporary report, report
  mig,         \* per migrator: where it is and what it read
  overlap      \* history: two migrations ran at the same time

migrationVars == <<version, source, sourceSwaps, mtmp, mout, mrtmp, mreport, mig, overlap>>
disk == <<mtmp, mout, mrtmp, mreport>>
given == <<version, source, sourceSwaps>>

MigrationInit ==
  /\ version \in 1..3
  /\ source \in DbContents
  /\ sourceSwaps = 0
  /\ mtmp = NoFile /\ mout = NoFile /\ mrtmp = NoFile /\ mreport = NoFile
  /\ mig = [m \in Migrators |-> [at |-> "begin", hash |-> NoFile, logical |-> NoFile, report |-> NoFile]]
  /\ overlap = FALSE

Stopped == {"begin", "migrated", "failed", "killed"}
Step(m, from, to) == mig[m].at = from /\ mig' = [mig EXCEPT ![m].at = to] /\ UNCHANGED <<given, overlap>>
Failed(m) == mig' = [mig EXCEPT ![m].at = "failed"] /\ UNCHANGED <<given, overlap>>

\* The output, the report and the temporary database must be absent; only the
\* first migration looks for a temporary report too.  Then the source is hashed.
RequireAbsent(m) ==
  /\ mig[m].at = "begin"
  /\ IF mout = NoFile /\ mreport = NoFile /\ mtmp = NoFile /\ (version = 1 => mrtmp = NoFile)
     THEN /\ mig' = [mig EXCEPT ![m] = [@ EXCEPT !.at = "read", !.hash = source]]
          /\ overlap' = (overlap \/ \E n \in Migrators \ {m} : mig[n].at \notin Stopped)
          /\ UNCHANGED <<given, disk>>
     ELSE Failed(m) /\ UNCHANGED disk

\* The source opened read-only: its schema version, its logical hash and, for
\* schema 1, its rows.
ReadSource(m) ==
  /\ mig[m].at = "read"
  /\ mig' = [mig EXCEPT ![m] = [@ EXCEPT !.at = "fill", !.logical = source]]
  /\ UNCHANGED <<given, disk, overlap>>

\* Schema 1: a new database file, which must not exist; its error handler
\* removes whatever is at the temporary names.
CreateCopy(m) ==
  /\ version = 1 /\ mig[m].at = "fill"
  /\ IF mtmp # NoFile
     THEN Failed(m) /\ mtmp' = NoFile /\ mrtmp' = NoFile /\ UNCHANGED <<mout, mreport>>
     ELSE /\ mtmp' = [by |-> m, from |-> mig[m].logical, schema |-> 0]
          /\ Step(m, "fill", "upgrade")
          /\ UNCHANGED <<mout, mrtmp, mreport>>

\* Schema 2 and 3: a copy of the source file over what is there.
CopySource(m) ==
  /\ version > 1
  /\ Step(m, "fill", "upgrade")
  /\ mtmp' = [by |-> m, from |-> source, schema |-> version]
  /\ UNCHANGED <<mout, mrtmp, mreport>>

\* The file at the temporary name is the one this migration opened.
Opened(m) == mtmp # NoFile /\ mtmp.by = m

\* The rows are ingested and indexed, or the schema altered, and checked, on
\* the open connection: on the file at the temporary name if it is still the
\* one opened, else on a file that has no name any more.  A file another
\* migration copied over it is upgraded in its place or refused.
Upgrade(m) ==
  /\ mig[m].at = "upgrade"
  /\ \/ /\ Opened(m)
        /\ mtmp' = [mtmp EXCEPT !.schema = version + 1]
        /\ Step(m, "upgrade", "rehash") /\ UNCHANGED <<mout, mrtmp, mreport>>
     \/ /\ ~Opened(m)
        /\ Step(m, "upgrade", "rehash") /\ UNCHANGED disk
     \/ /\ version > 1 /\ mtmp # NoFile /\ ~Opened(m) /\ mtmp.schema = version
        /\ mtmp' = [mtmp EXCEPT !.schema = version + 1]
        /\ Step(m, "upgrade", "rehash") /\ UNCHANGED <<mout, mrtmp, mreport>>
     \/ /\ version > 1 /\ mtmp # NoFile /\ ~Opened(m) /\ mtmp.schema # version
        /\ Failed(m) /\ mtmp' = NoFile /\ UNCHANGED <<mout, mrtmp, mreport>>

\* Mutant: the source is not hashed again.
MutRehash(m) == Step(m, "rehash", "hashTemp") /\ UNCHANGED disk

Rehash(m) ==
  /\ mig[m].at = "rehash"
  /\ IF source # mig[m].hash
     THEN Failed(m) /\ mtmp' = NoFile /\ UNCHANGED <<mout, mrtmp, mreport>>
     ELSE Step(m, "rehash", "hashTemp") /\ UNCHANGED disk

\* The report names the source hash, the logical hash and the bytes at the
\* temporary name; without a file there the migration ends as it is.
HashTemporary(m) ==
  /\ mig[m].at = "hashTemp"
  /\ IF mtmp = NoFile THEN Failed(m)
     ELSE /\ mig' = [mig EXCEPT ![m] = [@ EXCEPT !.at = "writeReport",
                       !.report = [source |-> mig[m].hash, logical |-> mig[m].logical, output |-> mtmp]]]
          /\ UNCHANGED <<given, overlap>>
  /\ UNCHANGED disk

\* The handler of the publication.  The first migration removes an output
\* only after it put one there; the others remove all four names.
Rollback(m, published) ==
  /\ Failed(m)
  /\ mtmp' = NoFile /\ mrtmp' = NoFile
  /\ mout' = IF version > 1 \/ published THEN NoFile ELSE mout
  /\ mreport' = IF version > 1 THEN NoFile ELSE mreport

WriteReport(m) ==
  /\ mig[m].at = "writeReport"
  /\ IF mrtmp # NoFile THEN Rollback(m, FALSE)
     ELSE mrtmp' = mig[m].report /\ Step(m, "writeReport", "moveOutput") /\ UNCHANGED <<mtmp, mout, mreport>>
MoveOutput(m) ==
  /\ mig[m].at = "moveOutput"
  /\ IF mtmp = NoFile THEN Rollback(m, FALSE)
     ELSE mout' = mtmp /\ mtmp' = NoFile /\ Step(m, "moveOutput", "moveReport") /\ UNCHANGED <<mrtmp, mreport>>
MoveReport(m) ==
  /\ mig[m].at = "moveReport"
  /\ IF mrtmp = NoFile THEN Rollback(m, TRUE)
     ELSE mreport' = mrtmp /\ mrtmp' = NoFile /\ Step(m, "moveReport", "migrated") /\ UNCHANGED <<mtmp, mout>>

MigrationCrash(m) ==
  /\ mig[m].at \notin Stopped
  /\ mig' = [mig EXCEPT ![m].at = "killed"]
  /\ UNCHANGED <<given, disk, overlap>>

ReplaceSource ==
  /\ sourceSwaps < MaxSourceSwaps
  /\ sourceSwaps' = sourceSwaps + 1
  /\ source' \in DbContents \ {source}
  /\ UNCHANGED <<version, disk, mig, overlap>>

MigrationNext ==
  \/ ReplaceSource
  \/ \E m \in Migrators :
       \/ RequireAbsent(m) \/ ReadSource(m) \/ CreateCopy(m) \/ CopySource(m) \/ Upgrade(m)
       \/ Rehash(m) \/ HashTemporary(m) \/ WriteReport(m) \/ MoveOutput(m) \/ MoveReport(m)
       \/ MigrationCrash(m)

MigrationSpec == MigrationInit /\ [][MigrationNext]_migrationVars

\* A report is trusted for what it says: while no two migrations of one output
\* overlap, the output is there beside it, fully upgraded, and, unless the
\* source was replaced and replaced back, it holds the content whose hashes
\* the report names, through crashes and retries at any step.
ReportMatchesOutput ==
  ~overlap /\ mreport # NoFile =>
     /\ mout = mreport.output
     /\ mout.schema = version + 1
     /\ sourceSwaps < 2 => mreport.source = mreport.logical /\ mout.from = mreport.logical
=============================================================================
