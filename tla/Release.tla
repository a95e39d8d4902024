-------------------------------- MODULE Release --------------------------------
(***************************************************************************)
(* Building a release candidate (evidence_review/release/): preflight,     *)
(* private stage, bundles, the validation of the workspace and of the      *)
(* stage, the attestation of the named reviewer and the publication under  *)
(* a lock.  Nothing locks the workspace: the run, the evidence database    *)
(* and the rules are read again and again while other programs change      *)
(* them, and several builds may run at once.                               *)
(*                                                                         *)
(* A release becomes ready in two builds: the first one is published       *)
(* BLOCKED, a reviewer attests its candidate hash, and a later build of    *)
(* the same bytes finds that attestation.  A candidate is the record of    *)
(* what its artifacts contain, which stands for its hash.                  *)
(***************************************************************************)
EXTENDS Naturals, Sequences

CONSTANTS
    Builders,     \* processes that build releases
    Directories,  \* output directories
    Databases,    \* contents of the evidence database
    FinalizedDatabases,  \* the databases that validate as finalized evidence
    RunDatabase,  \* the database the released run was reviewed on
    RuleSets,     \* contents of rules/approved and rules/manifests
    GoodRules,    \* the rule sets the governed loader does not block
    Damaged,      \* a staged file that is not what was written
    Nothing,      \* no file, no output
    RequiredChecks,  \* what the reviewer of a candidate must have checked
    MaxEdits, MaxBuildCrashes

ASSUME ReleaseAssumption ==
    /\ FinalizedDatabases \subseteq Databases /\ RunDatabase \in FinalizedDatabases
    /\ GoodRules \subseteq RuleSets
    /\ Nothing \notin Databases \cup RuleSets \cup {"RELEASE_READY"}
    /\ Damaged \notin RuleSets \cup Databases
    /\ MaxEdits \in Nat /\ MaxBuildCrashes \in Nat

VARIABLES
    source,       \* the workspace: evidence, rules, documented, verified
    build,        \* what every builder is doing
    locked,       \* the directories whose publish lock exists
    output,       \* what is published in each directory
    attestation,  \* the attestation record
    edits, crashes

releaseVars == <<source, build, locked, output, attestation, edits, crashes>>
workspaceVars == <<source, attestation, edits, crashes>>

IdleBuild == [at |-> "idle", to |-> Nothing, evidence |-> Nothing, codex |-> Nothing,
              rules |-> Nothing, web |-> Nothing, errors |-> {}, checked |-> Nothing,
              probes |-> <<>>, status |-> Nothing, disturbed |-> FALSE]

\* documented: the documentation passes; verified: the run directory and its
\* packet verify as finalized.
ReleaseInit ==
    /\ source \in [evidence : Databases, rules : RuleSets, documented : {TRUE}, verified : {TRUE}]
    /\ build = [b \in Builders |-> IdleBuild]
    /\ locked = {}
    /\ output = [d \in Directories |-> Nothing]
    /\ attestation = Nothing
    /\ edits = 0 /\ crashes = 0

----------------------------------------------------------------------------
(* A build.  A step that finds something wrong removes the stage and ends. *)

At(b, step) == build[b].at = step
Give(b, values) == build' = [build EXCEPT ![b] = values]
Move(b, step) == Give(b, [build[b] EXCEPT !.at = step])
End(b) == Give(b, IdleBuild)
Private == UNCHANGED <<workspaceVars, locked, output>>

StartBuild(b, d) ==
    /\ At(b, "idle")
    /\ output[d] = Nothing
    /\ Give(b, [IdleBuild EXCEPT !.at = "packet", !.to = d])
    /\ Private

SelectPacket(b) ==
    /\ At(b, "packet")
    /\ IF source.verified THEN Move(b, "evidence") ELSE End(b)
    /\ Private

\* verify_release_evidence_database hashes the file before and after it copies
\* and validates it, so that all of it speaks of one content.  A plausible bug:
\* the finalized database is not compared with the one the run was reviewed on.
MutVerifiedEvidence(e) == e \in FinalizedDatabases
VerifiedEvidence(e) == e \in FinalizedDatabases /\ e = RunDatabase

PreflightEvidence(b) ==
    /\ At(b, "evidence")
    /\ IF VerifiedEvidence(source.evidence)
       THEN Give(b, [build[b] EXCEPT !.at = "stage", !.evidence = source.evidence])
       ELSE End(b)
    /\ Private

\* The copy is hashed again: the file may have been replaced since.
StageEvidence(b) ==
    /\ At(b, "stage")
    /\ IF source.evidence = build[b].evidence THEN Move(b, "codex") ELSE End(b)
    /\ Private

\* The three copies of the rules are taken one after the other.
\* A bundle takes the staged database only if it still has its hash.
EvidenceIntact(b) == build[b].evidence \in Databases

\* The manifest of a bundle is made from what was copied into it.
Bundle(b, file, next) ==
    IF EvidenceIntact(b)
    THEN Give(b, [build[b] EXCEPT ![file] = source.rules, !.at = next])
    ELSE End(b)

BuildCodex(b) ==
    /\ At(b, "codex")
    /\ Bundle(b, "codex", "zip")
    /\ Private

ZipRules(b) ==
    /\ At(b, "zip")
    /\ Give(b, [build[b] EXCEPT !.at = "web", !.rules = source.rules])
    /\ Private

BuildWeb(b) ==
    /\ At(b, "web")
    /\ Bundle(b, "web", "validate_packet")
    /\ Private

Found(code, wrong) == IF wrong THEN {code} ELSE {}

\* validate_release_workspace: what is validated is the workspace as it is now,
\* not what has been staged.
ValidatePacket(b) ==
    /\ At(b, "validate_packet")
    /\ Give(b, [build[b] EXCEPT !.at = "validate_evidence",
          !.errors = Found("FINAL_REVIEW_PACKET_VALIDATION_FAILED", ~source.verified)])
    /\ Private

\* Without a verified packet there is no database to expect.
ValidateEvidence(b) ==
    /\ At(b, "validate_evidence")
    /\ Give(b, [build[b] EXCEPT !.at = "validate_rules",
          !.errors = @ \cup Found("SQLITE_VALIDATION_FAILED",
                                  @ # {} \/ ~VerifiedEvidence(source.evidence))])
    /\ Private

\* The manifests, the documentation and the governed rules; the report names
\* the rules it found.
RulesBlocked(r) == r \notin GoodRules

ValidateRules(b) ==
    /\ At(b, "validate_rules")
    /\ Give(b, [build[b] EXCEPT !.at = "probe", !.checked = source.rules,
          !.errors = @ \cup Found("GOVERNED_RULE_VALIDATION_FAILED",
                                  RulesBlocked(source.rules))
                       \cup Found("DOCUMENTATION_INTEGRITY_FAILED", ~source.documented)])
    /\ Private

\* The web bundle is built twice more, unless the evidence failed, and the two
\* must be equal.
ProbeFails(b) ==
    \/ "SQLITE_VALIDATION_FAILED" \in build[b].errors
    \/ source.evidence # RunDatabase

ProbeWeb(b) ==
    /\ At(b, "probe")
    /\ LET probes == Append(build[b].probes, source.rules)
           over == ProbeFails(b) \/ Len(probes) = 2
       IN  Give(b, [build[b] EXCEPT
             !.probes = IF ProbeFails(b) THEN @ ELSE probes,
             !.at = IF over THEN "attest" ELSE "probe",
             !.errors = @ \cup Found("NON_REPRODUCIBLE_WEB_ZIP",
                                     over /\ (ProbeFails(b) \/ probes[1] # probes[2]))])
    /\ Private

\* validate_release_output reopens the stage: the two bundles are what their
\* manifests say (approved-rules.zip has no manifest) and the three copies of
\* the database have the expected hash.
ArchivesIntact(b) == {build[b].codex, build[b].web} \subseteq RuleSets
OutputValid(b) == ArchivesIntact(b) /\ EvidenceIntact(b)

\* The artifacts, the validation report among them.
BuildArtifacts(x) == [evidence |-> x.evidence, codex |-> x.codex, rules |-> x.rules,
                 web |-> x.web, errors |-> x.errors, checked |-> x.checked,
                 probes |-> x.probes]

\* The record is read at all only if every required check passed in it.
Decoded(record) == record # Nothing /\ record.passed = RequiredChecks

Attested(b) == Decoded(attestation) /\ attestation.candidate = BuildArtifacts(build[b])

\* Every automated reason and a missing or foreign attestation block it.
Automated(b) == build[b].errors # {} \/ ~OutputValid(b)

Decide(b) ==
    /\ At(b, "attest")
    /\ Give(b, [build[b] EXCEPT !.at = "lock",
          !.status = IF ~Automated(b) /\ Attested(b) THEN "RELEASE_READY" ELSE "BLOCKED"])
    /\ Private

\* _publish_stage: the lock file is created exclusively, the directory must not
\* be there, the stage takes its name and the lock is removed.
LockOutput(b) ==
    /\ At(b, "lock")
    /\ IF build[b].to \in locked
       THEN End(b) /\ UNCHANGED locked
       ELSE Move(b, "publish") /\ locked' = locked \cup {build[b].to}
    /\ UNCHANGED <<workspaceVars, output>>

Publish(b) ==
    /\ At(b, "publish")
    /\ output' = IF output[build[b].to] = Nothing
                 THEN [output EXCEPT ![build[b].to] =
                          [status |-> build[b].status, artifacts |-> BuildArtifacts(build[b]),
                           disturbed |-> build[b].disturbed]]
                 ELSE output
    /\ Move(b, "unlock")
    /\ UNCHANGED <<workspaceVars, locked>>

UnlockOutput(b) ==
    /\ At(b, "unlock")
    /\ locked' = locked \ {build[b].to}
    /\ End(b)
    /\ UNCHANGED <<workspaceVars, output>>

\* The process is killed: its stage is never published, a lock it holds stays
\* and every later build of that directory is refused.
CrashBuild(b) ==
    /\ crashes < MaxBuildCrashes
    /\ ~At(b, "idle")
    /\ crashes' = crashes + 1
    /\ End(b)
    /\ UNCHANGED <<source, attestation, edits, locked, output>>

----------------------------------------------------------------------------
(* The rest of the world.                                                  *)

\* One file of the workspace is changed.  The builds that have staged rules or
\* are about to, and have not validated them, are disturbed by new rules.
EditWorkspace ==
    /\ edits < MaxEdits
    /\ edits' = edits + 1
    /\ \/ \E e \in Databases : source' = [source EXCEPT !.evidence = e] /\ UNCHANGED build
       \/ \E r \in RuleSets :
             /\ source' = [source EXCEPT !.rules = r]
             /\ build' = [b \in Builders |-> [build[b] EXCEPT !.disturbed = ~At(b, "idle")]]
       \/ source' = [source EXCEPT !.documented = ~@] /\ UNCHANGED build
       \/ source' = [source EXCEPT !.verified = ~@] /\ UNCHANGED build
    /\ source' # source
    /\ UNCHANGED <<locked, output, attestation, crashes>>

\* A staged file is damaged on the disk before the stage is verified.
DamageStage(b) ==
    /\ edits < MaxEdits
    /\ build[b].at \in {"codex", "zip", "web", "validate_packet", "validate_evidence",
                       "validate_rules", "probe"}
    /\ \E file \in {"evidence", "codex", "rules", "web"} :
          /\ build[b][file] # Nothing
          /\ Give(b, [build[b] EXCEPT ![file] = Damaged])
    /\ edits' = edits + 1
    /\ UNCHANGED <<source, locked, output, attestation, crashes>>

\* The reviewer writes a record about a published candidate, which may lack
\* checks.
Attest(d) ==
    /\ output[d] # Nothing
    /\ \E passed \in SUBSET RequiredChecks :
          attestation' = [candidate |-> output[d].artifacts, passed |-> passed]
    /\ UNCHANGED <<source, build, locked, output, edits, crashes>>

BuildStep(b) ==
    \/ SelectPacket(b) \/ PreflightEvidence(b) \/ StageEvidence(b)
    \/ BuildCodex(b) \/ ZipRules(b) \/ BuildWeb(b)
    \/ ValidatePacket(b) \/ ValidateEvidence(b) \/ ValidateRules(b) \/ ProbeWeb(b)
    \/ Decide(b) \/ LockOutput(b) \/ Publish(b) \/ UnlockOutput(b)

ReleaseNext ==
    \/ \E b \in Builders : \/ BuildStep(b) \/ CrashBuild(b) \/ DamageStage(b)
                           \/ \E d \in Directories : StartBuild(b, d)
    \/ EditWorkspace
    \/ \E d \in Directories : Attest(d)

ReleaseSpec == ReleaseInit /\ [][ReleaseNext]_releaseVars

----------------------------------------------------------------------------
(* Properties.                                                             *)

Ready(d) == output[d] # Nothing /\ output[d].status = "RELEASE_READY"

\* What a ready release ships is what was reviewed and validated: its database
\* is the one the run was reviewed on, whatever was done to the file meanwhile;
\* and its three copies of the rules are equal, unblocked and the ones its
\* validation report speaks of, unless the rules were changed while the release
\* was being built (the copies and the validation read the workspace at
\* different times and are not compared with each other) or the archive of the
\* approved rules was damaged on the disk (it is the one without a manifest).
ReadyIsCoherent ==
    \A d \in Directories : Ready(d) =>
        LET a == output[d].artifacts
        IN  /\ a.evidence = RunDatabase
            /\ \/ output[d].disturbed \/ a.rules = Damaged
               \/ {a.codex, a.rules, a.web, a.checked} \cup {a.probes[1], a.probes[2]}
                     = {a.rules} /\ a.rules \in GoodRules

\* No build makes its own candidate ready: the very same artifacts were
\* published before, in another directory, for the reviewer to look at, with no
\* automated reason against them and nothing damaged that the checks reach.
ReadyWasReviewed ==
    \A d \in Directories : Ready(d) =>
        \E o \in Directories \ {d} :
            /\ output[o] # Nothing
            /\ output[o].artifacts = output[d].artifacts
            /\ output[o].artifacts.errors = {}
            /\ Damaged \notin {output[o].artifacts.evidence, output[o].artifacts.codex,
                            output[o].artifacts.web}

\* A ready release was earned: reviewed as it is, and coherent.
ReadyIsEarned == ReadyIsCoherent /\ ReadyWasReviewed
================================================================================
