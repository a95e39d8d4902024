---------------------------- MODULE PipelineProofs ----------------------------
(***************************************************************************)
(* Proofs about the pipeline: the builds of a release (Release), the       *)
(* drawing case (DrawingCase) and the final packet of a question           *)
(* (Assessment).                                                           *)
(***************************************************************************)
EXTENDS Assessment, DrawingCase, Release, FiniteSetTheorems, SequenceTheorems, TLAPS

----------------------------------------------------------------------------
(* Release: what a build has staged.                                       *)

BuildSteps == {"idle", "packet", "evidence", "stage", "codex", "zip", "web",
               "validate_packet", "validate_evidence", "validate_rules", "probe",
               "attest", "lock", "publish", "unlock"}

Decided == {"lock", "publish", "unlock"}
Probed == {"attest", "lock", "publish", "unlock"}
RulesChecked == {"probe", "attest", "lock", "publish", "unlock"}
Zipped == {"web", "validate_packet", "validate_evidence", "validate_rules"} \cup RulesChecked
EvidenceTaken == {"stage", "codex", "zip"} \cup Zipped

ErrorCodes == {"FINAL_REVIEW_PACKET_VALIDATION_FAILED", "SQLITE_VALIDATION_FAILED",
               "GOVERNED_RULE_VALIDATION_FAILED", "DOCUMENTATION_INTEGRITY_FAILED",
               "NON_REPRODUCIBLE_WEB_ZIP"}

RulesCopy == RuleSets \cup {Damaged, Nothing}

BuildStates ==
    [at : BuildSteps, to : Directories \cup {Nothing},
     evidence : Databases \cup {Damaged, Nothing}, codex : RulesCopy, rules : RulesCopy,
     web : RulesCopy, errors : SUBSET ErrorCodes, checked : RuleSets \cup {Nothing},
     probes : Seq(RuleSets), status : {"RELEASE_READY", "BLOCKED", Nothing},
     disturbed : BOOLEAN]

\* The copies of a build during which nobody changed the rules are copies of
\* the workspace's rules.
FollowsWorkspace(x) ==
    /\ x.codex \in {source.rules, Damaged, Nothing}
    /\ x.web \in {source.rules, Damaged, Nothing}
    /\ x.at \in Zipped => x.rules \in {source.rules, Damaged}
    /\ x.at \in RulesChecked => x.checked = source.rules
    /\ \A i \in 1 .. Len(x.probes) : x.probes[i] = source.rules

\* These artifacts are published somewhere.
Shown(artifacts) ==
    \E o \in Directories : output[o] # Nothing /\ output[o].artifacts = artifacts

Whole(x) == x.codex \in RuleSets /\ x.web \in RuleSets /\ x.evidence \in Databases

BuildOK(x) ==
    /\ x \in BuildStates
    /\ IF x.at = "idle" THEN x.codex = Nothing /\ x.web = Nothing ELSE x.to \in Directories
    /\ x.at \in EvidenceTaken => x.evidence \in {RunDatabase, Damaged}
    /\ ~x.disturbed => FollowsWorkspace(x)
    /\ x.at \in RulesChecked =>
          "GOVERNED_RULE_VALIDATION_FAILED" \in x.errors \/ x.checked \in GoodRules
    /\ x.at \notin RulesChecked => x.probes = <<>>
    /\ x.at = "probe" => Len(x.probes) < 2
    /\ x.at \in Probed => x.errors # {} \/ Len(x.probes) = 2
    /\ x.status = "RELEASE_READY" =>
          x.at \in Decided /\ x.errors = {} /\ Whole(x) /\ Shown(BuildArtifacts(x))

Workspaces ==
    [evidence : Databases, rules : RuleSets, documented : BOOLEAN, verified : BOOLEAN]

\* The invariant of the builds: a ready build is whole and its artifacts are
\* already published, and an attestation is about something published.
ReleaseInv ==
    /\ source \in Workspaces
    /\ build = [b \in Builders |-> build[b]]
    /\ \A b \in Builders : BuildOK(build[b])
    /\ output = [d \in Directories |-> output[d]]
    /\ attestation # Nothing => Shown(attestation.candidate)
    /\ ReadyIsEarned

\* An idle build is in order.
LEMMA IdleFacts ==
  /\ IdleBuild \in BuildStates
  /\ IdleBuild.status # "RELEASE_READY"
  /\ IdleBuild.at \notin EvidenceTaken
<1>1. IdleBuild \in BuildStates
  BY DEF IdleBuild, BuildStates, BuildSteps, RulesCopy
<1>2. IdleBuild.status # "RELEASE_READY"
  BY ReleaseAssumption DEF IdleBuild
<1>3. IdleBuild.at \notin EvidenceTaken
  BY DEF IdleBuild, EvidenceTaken, Zipped, RulesChecked
<1> QED  BY <1>1, <1>2, <1>3

LEMMA IdleOK == BuildOK(IdleBuild)
  BY IdleFacts DEF BuildOK, IdleBuild, FollowsWorkspace, EvidenceTaken, Zipped,
     RulesChecked, Probed

\* A step of one build that publishes nothing and leaves the workspace alone.
LEMMA GiveKeeps ==
  ASSUME ReleaseInv, NEW b \in Builders, NEW r, BuildOK(r), Give(b, r), 
         UNCHANGED <<source, attestation, output>>
  PROVE  ReleaseInv'
<1>1. \A x : BuildOK(x)' <=> BuildOK(x)
  BY DEF BuildOK, FollowsWorkspace, Shown
<1>2. build' = [c \in Builders |-> build'[c]] /\ \A c \in Builders : build'[c] \in {r, build[c]}
  BY DEF ReleaseInv, Give
<1>3. \A c \in Builders : BuildOK(build[c])'
  <2> SUFFICES ASSUME NEW c \in Builders PROVE BuildOK(build[c])'
    OBVIOUS
  <2>1. BuildOK(build'[c])  BY <1>2 DEF ReleaseInv
  <2> QED  BY <2>1 DEF BuildOK, FollowsWorkspace, Shown
<1>4. ReadyIsEarned'
  BY DEF ReleaseInv, ReadyIsEarned, ReadyIsCoherent, ReadyWasReviewed, Ready
<1> QED  BY <1>2, <1>3, <1>4 DEF ReleaseInv, Shown

\* The build ends: its stage is removed.
LEMMA EndKeeps ==
  ASSUME ReleaseInv, NEW b \in Builders, End(b), UNCHANGED <<source, attestation, output>>
  PROVE  ReleaseInv'
<1>1. Give(b, IdleBuild)  BY DEF End
<1> QED  BY <1>1, IdleOK, GiveKeeps

\* What the invariant says of one build.
LEMMA TheBuild ==
  ASSUME ReleaseInv, NEW b \in Builders
  PROVE  BuildOK(build[b]) /\ source \in Workspaces
  BY DEF ReleaseInv

LEMMA StartBuildKeeps ==
  ASSUME ReleaseInv, NEW b \in Builders, NEW d \in Directories, StartBuild(b, d)
  PROVE  ReleaseInv'
<1> DEFINE r == [IdleBuild EXCEPT !.at = "packet", !.to = d]
<1>1. BuildOK(r)
  <2>1. IdleBuild \in BuildStates /\ IdleBuild.status # "RELEASE_READY"
    BY IdleOK, ReleaseAssumption DEF BuildOK, IdleBuild
  <2>2. r \in BuildStates /\ r.status # "RELEASE_READY"
    BY <2>1 DEF BuildStates, BuildSteps
  <2> QED
    BY <2>1, <2>2 DEF BuildOK, IdleBuild, FollowsWorkspace, EvidenceTaken, Zipped,
       RulesChecked, Probed
<1>2. Give(b, r) /\ UNCHANGED <<source, attestation, output>>
  BY DEF StartBuild, Private, workspaceVars
<1> QED  BY <1>1, <1>2, GiveKeeps

\* A build moves to a later step of its preparation and changes nothing else.
LEMMA MoveOK ==
  ASSUME NEW x, BuildOK(x), NEW step \in {"evidence", "codex"},
         step = "evidence" => x.at = "packet", step = "codex" => x.at = "stage"
  PROVE  BuildOK([x EXCEPT !.at = step])
<1> DEFINE r == [x EXCEPT !.at = step]
<1>1. x \in BuildStates /\ r \in BuildStates
  BY DEF BuildOK, BuildStates, BuildSteps
<1>2. x.status # "RELEASE_READY"
  BY DEF BuildOK, Decided
<1> QED
  BY <1>1, <1>2 DEF BuildOK, BuildStates, FollowsWorkspace, EvidenceTaken, Zipped, RulesChecked,
     Probed

LEMMA PreflightKeeps ==
  ASSUME ReleaseInv, NEW b \in Builders,
         SelectPacket(b) \/ PreflightEvidence(b) \/ StageEvidence(b)
  PROVE  ReleaseInv'
<1> DEFINE x == build[b]
<1>1. BuildOK(x) /\ source \in Workspaces  BY TheBuild
<1>2. UNCHANGED <<source, attestation, output>>
  BY DEF SelectPacket, PreflightEvidence, StageEvidence, Private, workspaceVars
<1>3. CASE SelectPacket(b) /\ source.verified
  <2>1. Give(b, [x EXCEPT !.at = "evidence"]) /\ x.at = "packet"
    BY <1>3 DEF SelectPacket, At, Move
  <2>2. BuildOK([x EXCEPT !.at = "evidence"])
    BY <1>1, <2>1, MoveOK
  <2> QED  BY <2>1, <2>2, <1>2, GiveKeeps
<1>4. CASE StageEvidence(b) /\ source.evidence = build[b].evidence
  <2>1. Give(b, [x EXCEPT !.at = "codex"]) /\ x.at = "stage"
    BY <1>4 DEF StageEvidence, At, Move
  <2>2. BuildOK([x EXCEPT !.at = "codex"])
    BY <1>1, <2>1, MoveOK
  <2> QED  BY <2>1, <2>2, <1>2, GiveKeeps
<1>5. CASE PreflightEvidence(b) /\ VerifiedEvidence(source.evidence)
  <2> DEFINE r == [x EXCEPT !.at = "stage", !.evidence = source.evidence]
  <2>1. Give(b, r) /\ x.at = "evidence" /\ source.evidence = RunDatabase
    BY <1>5 DEF PreflightEvidence, At, VerifiedEvidence
  <2>2. x \in BuildStates /\ r \in BuildStates
    BY <1>1 DEF BuildOK, BuildStates, BuildSteps, Workspaces
  <2>3. x.status # "RELEASE_READY"
    BY <1>1, <2>1 DEF BuildOK, Decided
  <2>4. BuildOK(r)
    BY <1>1, <2>1, <2>2, <2>3 DEF BuildOK, BuildStates, FollowsWorkspace, EvidenceTaken, Zipped,
       RulesChecked, Probed
  <2> QED  BY <2>1, <2>4, <1>2, GiveKeeps
<1>6. CASE End(b)
  BY <1>2, <1>6, EndKeeps
<1> QED
  BY <1>3, <1>4, <1>5, <1>6 DEF SelectPacket, PreflightEvidence, StageEvidence

LEMMA CopyRulesKeeps ==
  ASSUME ReleaseInv, NEW b \in Builders, BuildCodex(b) \/ ZipRules(b) \/ BuildWeb(b)
  PROVE  ReleaseInv'
<1> DEFINE x == build[b]
           r1 == [x EXCEPT !.codex = source.rules, !.at = "zip"]
           r2 == [x EXCEPT !.at = "web", !.rules = source.rules]
           r3 == [x EXCEPT !.web = source.rules, !.at = "validate_packet"]
<1>1. BuildOK(x) /\ source.rules \in RuleSets /\ x \in BuildStates
  BY TheBuild DEF Workspaces, BuildOK
<1>2. UNCHANGED <<source, attestation, output>>
  BY DEF BuildCodex, ZipRules, BuildWeb, Private, workspaceVars
<1>3. CASE BuildCodex(b) /\ Give(b, r1)
  <2>1. x.at = "codex"  BY <1>3 DEF BuildCodex, At
  <2>2. r1 \in BuildStates  BY <1>1 DEF BuildStates, BuildSteps, RulesCopy
  <2>3. x.status # "RELEASE_READY"  BY <1>1, <2>1 DEF BuildOK, Decided
  <2>4. BuildOK(r1)
    BY <1>1, <2>1, <2>2, <2>3 DEF BuildOK, BuildStates, FollowsWorkspace, EvidenceTaken, Zipped,
       RulesChecked, Probed
  <2> QED  BY <1>3, <2>4, <1>2, GiveKeeps
<1>4. CASE ZipRules(b)
  <2>1. x.at = "zip" /\ Give(b, r2)  BY <1>4 DEF ZipRules, At
  <2>2. r2 \in BuildStates  BY <1>1 DEF BuildStates, BuildSteps, RulesCopy
  <2>3. x.status # "RELEASE_READY"  BY <1>1, <2>1 DEF BuildOK, Decided
  <2>4. BuildOK(r2)
    BY <1>1, <2>1, <2>2, <2>3 DEF BuildOK, BuildStates, FollowsWorkspace, EvidenceTaken, Zipped,
       RulesChecked, Probed
  <2> QED  BY <2>1, <2>4, <1>2, GiveKeeps
<1>5. CASE BuildWeb(b) /\ Give(b, r3)
  <2>1. x.at = "web"  BY <1>5 DEF BuildWeb, At
  <2>2. r3 \in BuildStates  BY <1>1 DEF BuildStates, BuildSteps, RulesCopy
  <2>3. x.status # "RELEASE_READY"  BY <1>1, <2>1 DEF BuildOK, Decided
  <2>4. BuildOK(r3)
    BY <1>1, <2>1, <2>2, <2>3 DEF BuildOK, BuildStates, FollowsWorkspace, EvidenceTaken, Zipped,
       RulesChecked, Probed
  <2> QED  BY <1>5, <2>4, <1>2, GiveKeeps
<1>6. CASE End(b)
  BY <1>2, <1>6, EndKeeps
<1> QED
  BY <1>3, <1>4, <1>5, <1>6 DEF BuildCodex, BuildWeb, Bundle

\* The validation of the workspace: the packet, the evidence, the rules.
LEMMA ValidateKeeps ==
  ASSUME ReleaseInv, NEW b \in Builders,
         ValidatePacket(b) \/ ValidateEvidence(b) \/ ValidateRules(b)
  PROVE  ReleaseInv'
<1> DEFINE x == build[b]
<1>1. BuildOK(x) /\ source.rules \in RuleSets /\ x \in BuildStates
  BY TheBuild DEF Workspaces, BuildOK
<1>2. UNCHANGED <<source, attestation, output>>
  BY DEF ValidatePacket, ValidateEvidence, ValidateRules, Private, workspaceVars
<1>3. ASSUME NEW errors \in SUBSET ErrorCodes, NEW step, x.at # "idle",
             Give(b, [x EXCEPT !.at = step, !.errors = errors]),
             \/ x.at = "validate_packet" /\ step = "validate_evidence"
             \/ x.at = "validate_evidence" /\ step = "validate_rules"
      PROVE  ReleaseInv'
  <2> DEFINE r == [x EXCEPT !.at = step, !.errors = errors]
  <2>1. r \in BuildStates  BY <1>1, <1>3 DEF BuildStates, BuildSteps
  <2>2. x.status # "RELEASE_READY"  BY <1>1, <1>3 DEF BuildOK, Decided
  <2>3. BuildOK(r)
    BY <1>1, <1>3, <2>1, <2>2 DEF BuildOK, BuildStates, FollowsWorkspace, EvidenceTaken, Zipped,
       RulesChecked, Probed
  <2> QED  BY <1>3, <2>3, <1>2, GiveKeeps
<1>4. CASE ValidatePacket(b)
  <2>1. Found("FINAL_REVIEW_PACKET_VALIDATION_FAILED", ~source.verified) \in SUBSET ErrorCodes
    BY DEF Found, ErrorCodes
  <2> QED  BY <1>3, <1>4, <2>1 DEF ValidatePacket, At
<1>5. CASE ValidateEvidence(b)
  <2>1. x.errors \cup Found("SQLITE_VALIDATION_FAILED",
              x.errors # {} \/ ~VerifiedEvidence(source.evidence)) \in SUBSET ErrorCodes
    BY <1>1 DEF Found, ErrorCodes, BuildStates
  <2>2. x.at = "validate_evidence" /\ x.at # "idle"
    BY <1>5 DEF ValidateEvidence, At
  <2>3. Give(b, [x EXCEPT !.at = "validate_rules", !.errors =
              x.errors \cup Found("SQLITE_VALIDATION_FAILED",
              x.errors # {} \/ ~VerifiedEvidence(source.evidence))])
    BY <1>5 DEF ValidateEvidence
  <2> QED  BY <1>3, <2>1, <2>2, <2>3
<1>6. CASE ValidateRules(b)
  <2> DEFINE errors == x.errors \cup Found("GOVERNED_RULE_VALIDATION_FAILED", RulesBlocked(source.rules))
                         \cup Found("DOCUMENTATION_INTEGRITY_FAILED", ~source.documented)
             r == [x EXCEPT !.at = "probe", !.checked = source.rules, !.errors = errors]
  <2>1. x.at = "validate_rules" /\ Give(b, r)
    BY <1>6 DEF ValidateRules, At
  <2>2. errors \in SUBSET ErrorCodes
        /\ ("GOVERNED_RULE_VALIDATION_FAILED" \in errors \/ source.rules \in GoodRules)
    BY <1>1 DEF Found, ErrorCodes, BuildStates, RulesBlocked
  <2> HIDE DEF errors
  <2>3. r \in BuildStates  BY <1>1, <2>2 DEF BuildStates, BuildSteps
  <2>4. x.status # "RELEASE_READY"  BY <1>1, <2>1 DEF BuildOK, Decided
  <2>5. BuildOK(r)
    BY <1>1, <2>1, <2>2, <2>3, <2>4 DEF BuildOK, BuildStates, FollowsWorkspace, EvidenceTaken,
       Zipped, RulesChecked, Probed
  <2> QED  BY <2>1, <2>5, <1>2, GiveKeeps
<1> QED  BY <1>4, <1>5, <1>6

LEMMA ProbeKeeps ==
  ASSUME ReleaseInv, NEW b \in Builders, ProbeWeb(b)
  PROVE  ReleaseInv'
<1> DEFINE x == build[b]
           probes == Append(x.probes, source.rules)
           over == ProbeFails(b) \/ Len(probes) = 2
           failed == over /\ (ProbeFails(b) \/ probes[1] # probes[2])
           errors == x.errors \cup Found("NON_REPRODUCIBLE_WEB_ZIP", failed)
           kept == IF ProbeFails(b) THEN x.probes ELSE probes
           step == IF over THEN "attest" ELSE "probe"
           r == [x EXCEPT !.probes = kept, !.at = step, !.errors = errors]
<1>1. BuildOK(x) /\ source.rules \in RuleSets /\ x \in BuildStates
  BY TheBuild DEF Workspaces, BuildOK
<1>2. UNCHANGED <<source, attestation, output>> /\ Give(b, r) /\ x.at = "probe"
  BY DEF ProbeWeb, Private, workspaceVars, At
<1>3. x.probes \in Seq(RuleSets) /\ Len(x.probes) \in 0 .. 1
  <2>1. x.probes \in Seq(RuleSets)  BY <1>1 DEF BuildStates
  <2>2. Len(x.probes) < 2  BY <1>1, <1>2 DEF BuildOK
  <2>3. Len(x.probes) \in Nat  BY <2>1
  <2>4. \A n \in Nat : n < 2 => n \in 0 .. 1  OBVIOUS
  <2> QED  BY <2>1, <2>2, <2>3, <2>4
<1>4. /\ probes \in Seq(RuleSets) /\ Len(probes) = Len(x.probes) + 1
      /\ probes[Len(probes)] = source.rules
      /\ \A i \in 1 .. Len(x.probes) : probes[i] = x.probes[i]
  BY <1>1, <1>3
<1>5. /\ errors \in SUBSET ErrorCodes /\ x.errors \subseteq errors
      /\ failed => errors # {}
  BY <1>1 DEF Found, ErrorCodes, BuildStates
<1>6. /\ kept \in Seq(RuleSets)
      /\ step = "attest" => errors # {} \/ Len(kept) = 2
      /\ step = "probe" => Len(kept) < 2
      /\ ~x.disturbed => \A i \in 1 .. Len(kept) : kept[i] = source.rules
      /\ step \in {"attest", "probe"}
  <2>1. ~x.disturbed => \A i \in 1 .. Len(x.probes) : x.probes[i] = source.rules
    BY <1>1 DEF BuildOK, FollowsWorkspace
  <2>2. \A i \in 1 .. Len(probes) : i \in 1 .. Len(x.probes) \/ i = Len(probes)
    BY <1>3, <1>4
  <2> HIDE DEF probes, errors
  <2>3. CASE ProbeFails(b)
    <3>1. kept = x.probes /\ step = "attest" /\ failed  BY <2>3
    <3>2. errors # {}  BY <3>1, <1>5
    <3> HIDE DEF kept, step
    <3> QED  BY <3>1, <3>2, <2>1, <1>3
  <2>4. CASE ~ProbeFails(b)
    <3>1. kept = probes /\ (over <=> Len(probes) = 2)  BY <2>4
    <3>2. Len(probes) \in 1 .. 2  BY <1>3, <1>4
    <3>3. step = "attest" => Len(kept) = 2  BY <3>1
    <3>4. step = "probe" => Len(kept) = 1
      <4>1. step = "probe" => Len(probes) # 2  BY <3>1
      <4> QED  BY <4>1, <3>1, <3>2
    <3>5. ~x.disturbed => \A i \in 1 .. Len(probes) : probes[i] = source.rules
      BY <2>1, <2>2, <1>4
    <3> QED  BY <1>4, <3>1, <3>3, <3>4, <3>5
  <2> QED  BY <2>3, <2>4
<1> HIDE DEF kept, step, errors
<1>7. r \in BuildStates
  <2>1. step \in BuildSteps  BY <1>6 DEF BuildSteps
  <2>2. kept \in Seq(RuleSets) /\ errors \in SUBSET ErrorCodes  BY <1>5, <1>6
  <2> QED  BY <1>1, <2>1, <2>2 DEF BuildStates
<1>8. x.status # "RELEASE_READY"
  BY <1>1, <1>2 DEF BuildOK, Decided
<1>9. r.at \in RulesChecked /\ r.at \in EvidenceTaken /\ r.at # "idle"
  BY <1>1, <1>6 DEF RulesChecked, EvidenceTaken, Zipped, BuildStates
<1>10. x.at \in RulesChecked /\ x.at \in EvidenceTaken /\ x.at \in Zipped
  BY <1>2 DEF RulesChecked, EvidenceTaken, Zipped
<1>11. BuildOK(r)
  BY <1>1, <1>2, <1>5, <1>6, <1>7, <1>8, <1>9, <1>10 DEF BuildOK, BuildStates, FollowsWorkspace, Probed
<1> QED  BY <1>2, <1>11, GiveKeeps

\* A build is decided ready only if nothing is wrong with it, it is whole and
\* the attestation is about its very artifacts.
LEMMA DecideKeeps ==
  ASSUME ReleaseInv, NEW b \in Builders, Decide(b)
  PROVE  ReleaseInv'
<1> DEFINE x == build[b]
           status == IF ~Automated(b) /\ Attested(b) THEN "RELEASE_READY" ELSE "BLOCKED"
           r == [x EXCEPT !.at = "lock", !.status = status]
<1>1. BuildOK(x) /\ x \in BuildStates
  BY TheBuild DEF BuildOK
<1>2. UNCHANGED <<source, attestation, output>> /\ Give(b, r) /\ x.at = "attest"
  BY DEF Decide, Private, workspaceVars, At
<1>3. status \in {"RELEASE_READY", "BLOCKED"}
  OBVIOUS
<1>4. status = "RELEASE_READY" => /\ x.errors = {} /\ Whole(x)
                                  /\ Shown(BuildArtifacts(x))
  BY DEF Automated, Attested, OutputValid, ArchivesIntact, EvidenceIntact, Whole, Decoded,
     ReleaseInv
<1> HIDE DEF status
<1>5. r \in BuildStates
  BY <1>1, <1>3 DEF BuildStates, BuildSteps
<1>6. Whole(r) <=> Whole(x)
  BY <1>1 DEF Whole, BuildStates
<1>7. BuildArtifacts(r) = BuildArtifacts(x)
  BY <1>1 DEF BuildArtifacts, BuildStates
<1>8. BuildOK(r)
  BY <1>1, <1>2, <1>3, <1>4, <1>5, <1>6, <1>7 DEF BuildOK, BuildStates, FollowsWorkspace,
     EvidenceTaken, Zipped, RulesChecked, Probed, Decided
<1> QED  BY <1>2, <1>8, GiveKeeps

LEMMA LockKeeps ==
  ASSUME ReleaseInv, NEW b \in Builders, LockOutput(b)
  PROVE  ReleaseInv'
<1> DEFINE x == build[b]
           r == [x EXCEPT !.at = "publish"]
<1>1. BuildOK(x) /\ x \in BuildStates
  BY TheBuild DEF BuildOK
<1>2. UNCHANGED <<source, attestation, output>> /\ x.at = "lock" /\ (End(b) \/ Give(b, r))
  BY DEF LockOutput, workspaceVars, At, Move
<1>3. r \in BuildStates
  BY <1>1 DEF BuildStates, BuildSteps
<1>4. (Whole(r) <=> Whole(x)) /\ BuildArtifacts(r) = BuildArtifacts(x)
  BY <1>1 DEF Whole, BuildArtifacts, BuildStates
<1>5. BuildOK(r)
  BY <1>1, <1>2, <1>3, <1>4 DEF BuildOK, BuildStates, FollowsWorkspace,
     EvidenceTaken, Zipped, RulesChecked, Probed, Decided
<1> QED  BY <1>2, <1>5, GiveKeeps, EndKeeps

LEMMA DamageKeeps ==
  ASSUME ReleaseInv, NEW b \in Builders, DamageStage(b)
  PROVE  ReleaseInv'
<1> DEFINE x == build[b]
<1>1. BuildOK(x) /\ x \in BuildStates
  BY TheBuild DEF BuildOK
<1>2. UNCHANGED <<source, attestation, output>>
      /\ x.at \in {"codex", "zip", "web", "validate_packet", "validate_evidence",
                   "validate_rules", "probe"}
  BY DEF DamageStage
<1>3. PICK file \in {"evidence", "codex", "rules", "web"} :
             x[file] # Nothing /\ Give(b, [x EXCEPT ![file] = Damaged])
  BY DEF DamageStage
<1> DEFINE r == [x EXCEPT ![file] = Damaged]
<1>4. x.status # "RELEASE_READY"
  BY <1>1, <1>2 DEF BuildOK, Decided
<1>5. CASE file = "evidence"
  <2>1. r = [x EXCEPT !.evidence = Damaged] /\ r \in BuildStates
    BY <1>1, <1>5 DEF BuildStates
  <2>2. BuildOK(r)
    BY <1>1, <1>2, <1>4, <2>1 DEF BuildOK, BuildStates, FollowsWorkspace, Probed
  <2> QED  BY <2>2, <1>2, <1>3, GiveKeeps
<1>6. CASE file = "codex"
  <2>1. r = [x EXCEPT !.codex = Damaged] /\ r \in BuildStates
    BY <1>1, <1>6 DEF BuildStates, RulesCopy
  <2>2. BuildOK(r)
    BY <1>1, <1>2, <1>4, <2>1 DEF BuildOK, BuildStates, FollowsWorkspace, Probed
  <2> QED  BY <2>2, <1>2, <1>3, GiveKeeps
<1>7. CASE file = "rules"
  <2>1. r = [x EXCEPT !.rules = Damaged] /\ r \in BuildStates
    BY <1>1, <1>7 DEF BuildStates, RulesCopy
  <2>2. BuildOK(r)
    BY <1>1, <1>2, <1>4, <2>1 DEF BuildOK, BuildStates, FollowsWorkspace, Probed
  <2> QED  BY <2>2, <1>2, <1>3, GiveKeeps
<1>8. CASE file = "web"
  <2>1. r = [x EXCEPT !.web = Damaged] /\ r \in BuildStates
    BY <1>1, <1>8 DEF BuildStates, RulesCopy
  <2>2. BuildOK(r)
    BY <1>1, <1>2, <1>4, <2>1 DEF BuildOK, BuildStates, FollowsWorkspace, Probed
  <2> QED  BY <2>2, <1>2, <1>3, GiveKeeps
<1> QED  BY <1>3, <1>5, <1>6, <1>7, <1>8

\* A ready build whose rules nobody changed while it ran is coherent.
LEMMA ReadyBuildCoherent ==
  ASSUME ReleaseInv, NEW x, BuildOK(x), x.at = "publish", x.status = "RELEASE_READY"
  PROVE  /\ x.evidence = RunDatabase /\ x.errors = {}
         /\ Damaged \notin {x.evidence, x.codex, x.web}
         /\ Shown(BuildArtifacts(x))
         /\ \/ x.disturbed \/ x.rules = Damaged
            \/ {x.codex, x.rules, x.web, x.checked} \cup {x.probes[1], x.probes[2]}
                  = {x.rules} /\ x.rules \in GoodRules
<1>1. /\ x.errors = {} /\ Shown(BuildArtifacts(x))
      /\ x.codex \in RuleSets /\ x.web \in RuleSets /\ x.evidence \in Databases
  BY DEF BuildOK, Whole
<1>2. x.evidence \in {RunDatabase, Damaged}
  BY DEF BuildOK, EvidenceTaken, Zipped, RulesChecked
<1>3. Damaged \notin {x.evidence, x.codex, x.web} /\ x.codex # Nothing /\ x.web # Nothing
  BY <1>1, ReleaseAssumption
<1>4. x.checked \in GoodRules /\ Len(x.probes) = 2
  BY <1>1 DEF BuildOK, RulesChecked, Probed
<1>5. ASSUME ~x.disturbed, x.rules # Damaged
      PROVE  {x.codex, x.rules, x.web, x.checked} \cup {x.probes[1], x.probes[2]}
                  = {x.rules} /\ x.rules \in GoodRules
  <2>1. FollowsWorkspace(x)  BY <1>5 DEF BuildOK
  <2>2. /\ x.codex = source.rules /\ x.web = source.rules /\ x.rules = source.rules
        /\ x.checked = source.rules
    BY <2>1, <1>3, <1>5 DEF FollowsWorkspace, Zipped, RulesChecked
  <2>3. x.probes[1] = source.rules /\ x.probes[2] = source.rules
    BY <2>1, <1>4 DEF FollowsWorkspace
  <2> QED  BY <2>2, <2>3, <1>4
<1> QED  BY <1>1, <1>2, <1>3, <1>5

LEMMA PublishKeeps ==
  ASSUME ReleaseInv, NEW b \in Builders, Publish(b)
  PROVE  ReleaseInv'
<1> DEFINE x == build[b]
           r == [x EXCEPT !.at = "unlock"]
<1>1. BuildOK(x) /\ x \in BuildStates
  BY TheBuild DEF BuildOK
<1>2. /\ source' = source /\ attestation' = attestation
      /\ x.at = "publish" /\ Give(b, r)
  BY DEF Publish, workspaceVars, At, Move
<1>3. r \in BuildStates
  BY <1>1 DEF BuildStates, BuildSteps
<1>4. (Whole(r) <=> Whole(x)) /\ BuildArtifacts(r) = BuildArtifacts(x)
  BY <1>1 DEF Whole, BuildArtifacts, BuildStates
<1>5. BuildOK(r)
  BY <1>1, <1>2, <1>3, <1>4 DEF BuildOK, BuildStates, FollowsWorkspace,
     EvidenceTaken, Zipped, RulesChecked, Probed, Decided
<1>6. x.to \in Directories
  BY <1>1, <1>2 DEF BuildOK
<1>7. CASE output[x.to] # Nothing
  <2>1. output' = output  BY <1>7 DEF Publish
  <2> QED  BY <2>1, <1>2, <1>5, GiveKeeps
<1>8. CASE output[x.to] = Nothing
  <2> DEFINE p == [status |-> x.status, artifacts |-> BuildArtifacts(x), disturbed |-> x.disturbed]
  <2>1. output' = [output EXCEPT ![x.to] = p]
    BY <1>8 DEF Publish
  <2>2. output = [d \in Directories |-> output[d]]
    BY DEF ReleaseInv
  <2>3. /\ output' = [d \in Directories |-> output'[d]]
        /\ output'[x.to] = p /\ \A d \in Directories \ {x.to} : output'[d] = output[d]
    BY <2>1, <2>2, <1>6
  <2>4. \A a : Shown(a) =>
             \E o \in Directories : output'[o] # Nothing /\ output'[o].artifacts = a
    BY <2>3, <1>8 DEF Shown
  <2>5. \A c \in Builders : BuildOK(build[c])'
    <3> SUFFICES ASSUME NEW c \in Builders PROVE BuildOK(build[c])'
      OBVIOUS
    <3>1. BuildOK(build'[c])  BY <1>2, <1>5 DEF ReleaseInv, Give
    <3>2. Shown(BuildArtifacts(build'[c])) =>
             \E o \in Directories : /\ output'[o] # Nothing
                                   /\ output'[o].artifacts = BuildArtifacts(build'[c])
      BY <2>4
    <3> QED  BY <3>1, <3>2, <1>2 DEF BuildOK, FollowsWorkspace, Shown, BuildArtifacts
  <2>6. attestation' # Nothing => Shown(attestation.candidate)'
    BY <2>4, <2>3, <1>2, <1>8 DEF ReleaseInv, Shown
  <2>7. build' = [c \in Builders |-> build'[c]]
    BY <1>2 DEF ReleaseInv, Give
  <2>8. ReadyIsEarned'
    <3> SUFFICES ASSUME NEW d \in Directories, Ready(d)'
                 PROVE  /\ LET a == output'[d].artifacts
                           IN  /\ a.evidence = RunDatabase
                               /\ \/ output'[d].disturbed \/ a.rules = Damaged
                                  \/ {a.codex, a.rules, a.web, a.checked} \cup
                                        {a.probes[1], a.probes[2]} = {a.rules}
                                     /\ a.rules \in GoodRules
                        /\ \E o \in Directories \ {d} :
                              /\ output'[o] # Nothing
                              /\ output'[o].artifacts = output'[d].artifacts
                              /\ output'[o].artifacts.errors = {}
                              /\ Damaged \notin {output'[o].artifacts.evidence,
                                    output'[o].artifacts.codex, output'[o].artifacts.web}
      BY DEF ReadyIsEarned, ReadyIsCoherent, ReadyWasReviewed
    <3>1. CASE d # x.to
      <4>1. output'[d] = output[d] /\ Ready(d)
        BY <3>1, <2>3 DEF Ready
      <4>2. PICK o \in Directories \ {d} :
              /\ output[o] # Nothing
              /\ output[o].artifacts = output[d].artifacts
              /\ output[o].artifacts.errors = {}
              /\ Damaged \notin {output[o].artifacts.evidence, output[o].artifacts.codex,
                              output[o].artifacts.web}
        BY <4>1 DEF ReleaseInv, ReadyIsEarned, ReadyWasReviewed
      <4>3. output'[o] = output[o]  BY <4>2, <2>3, <1>8
      <4>4. ReadyIsCoherent  BY DEF ReleaseInv, ReadyIsEarned
      <4> QED  BY <4>1, <4>2, <4>3, <4>4 DEF ReadyIsCoherent
    <3>2. CASE d = x.to
      <4>1. output'[d] = p /\ x.status = "RELEASE_READY"
        BY <3>2, <2>3 DEF Ready
      <4>2. /\ x.evidence = RunDatabase /\ x.errors = {}
            /\ Damaged \notin {x.evidence, x.codex, x.web}
            /\ Shown(BuildArtifacts(x))
            /\ \/ x.disturbed \/ x.rules = Damaged
               \/ {x.codex, x.rules, x.web, x.checked} \cup {x.probes[1], x.probes[2]}
                     = {x.rules} /\ x.rules \in GoodRules
        BY <1>1, <1>2, <4>1, ReadyBuildCoherent
      <4>3. PICK o \in Directories : output[o] # Nothing /\ output[o].artifacts = BuildArtifacts(x)
        BY <4>2 DEF Shown
      <4>4. o # d /\ output'[o] = output[o]
        BY <4>3, <3>2, <1>8, <2>3
      <4>5. output'[d].artifacts = BuildArtifacts(x) /\ output'[d].disturbed = x.disturbed
        BY <4>1
      <4> HIDE DEF p, x
      <4> QED  BY <4>2, <4>3, <4>4, <4>5 DEF BuildArtifacts
    <3> QED  BY <3>1, <3>2
  <2> QED  BY <2>3, <2>5, <2>6, <2>7, <2>8, <1>2 DEF ReleaseInv
<1> QED  BY <1>7, <1>8

\* The rules of the workspace change: every build that runs is disturbed.
LEMMA EditKeeps ==
  ASSUME ReleaseInv, EditWorkspace
  PROVE  ReleaseInv'
<1>1. UNCHANGED <<output, attestation>>
  BY DEF EditWorkspace
<1>2. source \in Workspaces
  BY DEF ReleaseInv
<1>3. ReadyIsEarned'
  BY <1>1 DEF ReleaseInv, ReadyIsEarned, ReadyIsCoherent, ReadyWasReviewed, Ready
<1>4. CASE build' = build /\ source' \in Workspaces /\ source'.rules = source.rules
  <2>1. \A b \in Builders : BuildOK(build[b])'
    BY <1>1, <1>4 DEF ReleaseInv, BuildOK, FollowsWorkspace, Shown
  <2> QED  BY <2>1, <1>1, <1>3, <1>4 DEF ReleaseInv, Shown
<1>5. CASE \E r \in RuleSets :
             /\ source' = [source EXCEPT !.rules = r]
             /\ build' = [b \in Builders |-> [build[b] EXCEPT !.disturbed = ~At(b, "idle")]]
  <2>1. source' \in Workspaces  BY <1>2, <1>5 DEF Workspaces
  <2>2. ASSUME NEW b \in Builders PROVE BuildOK(build[b])'
    <3> DEFINE x == build[b]
               running == ~At(b, "idle")
               y == [x EXCEPT !.disturbed = running]
    <3>1. BuildOK(x) /\ x \in BuildStates  BY TheBuild DEF BuildOK
    <3>2. build'[b] = y  BY <1>5
    <3>3. CASE x.at = "idle"
      <4>1. y \in BuildStates /\ y.at = "idle"
        BY <3>1, <3>3 DEF BuildStates
      <4>2. y.codex = Nothing /\ y.web = Nothing /\ y.probes = <<>>
        BY <3>1, <3>3 DEF BuildOK, RulesChecked, BuildStates
      <4>3. y.status # "RELEASE_READY"
        BY <3>1, <3>3 DEF BuildOK, Decided, BuildStates
      <4>4. /\ build'[b] \in BuildStates /\ build'[b].at = "idle"
            /\ build'[b].codex = Nothing /\ build'[b].web = Nothing
            /\ build'[b].probes = <<>> /\ build'[b].status # "RELEASE_READY"
        BY <3>2, <4>1, <4>2, <4>3
      <4> HIDE DEF x, running
      <4> QED
        BY <4>4 DEF BuildOK, FollowsWorkspace, EvidenceTaken, Zipped, RulesChecked, Probed
    <3>4. CASE x.at # "idle"
      <4>1. running  BY <3>4 DEF At
      <4>2. y \in BuildStates /\ y.disturbed /\ y.at = x.at
        BY <3>1, <4>1 DEF BuildStates
      <4>3. (Whole(y) <=> Whole(x)) /\ BuildArtifacts(y) = BuildArtifacts(x)
        BY <3>1 DEF Whole, BuildArtifacts, BuildStates
      <4>4. BuildOK(y)
        BY <3>1, <3>4, <4>2, <4>3 DEF BuildOK, BuildStates
      <4>5. build'[b].disturbed  BY <3>2, <4>2
      <4>6. BuildOK(build'[b])  BY <3>2, <4>4
      <4> QED  BY <4>5, <4>6, <1>1 DEF BuildOK, Shown
    <3> QED  BY <3>3, <3>4
  <2>3. build' = [b \in Builders |-> build'[b]]  BY <1>5
  <2> QED  BY <2>1, <2>2, <2>3, <1>1, <1>3 DEF ReleaseInv, Shown
<1>6. /\ \A e \in Databases : [source EXCEPT !.evidence = e] \in Workspaces
                            /\ [source EXCEPT !.evidence = e].rules = source.rules
      /\ [source EXCEPT !.documented = ~@] \in Workspaces
      /\ [source EXCEPT !.documented = ~@].rules = source.rules
      /\ [source EXCEPT !.verified = ~@] \in Workspaces
      /\ [source EXCEPT !.verified = ~@].rules = source.rules
  BY <1>2 DEF Workspaces
<1> QED  BY <1>4, <1>5, <1>6 DEF EditWorkspace

LEMMA AttestKeeps ==
  ASSUME ReleaseInv, NEW d \in Directories, Attest(d)
  PROVE  ReleaseInv'
<1>1. UNCHANGED <<source, build, output>>
  BY DEF Attest
<1>2. PICK passed \in SUBSET RequiredChecks :
             attestation' = [candidate |-> output[d].artifacts, passed |-> passed]
  BY DEF Attest
<1>3. Shown(attestation.candidate)'
  BY <1>1, <1>2 DEF Shown, Attest
<1>4. \A b \in Builders : BuildOK(build[b])'
  BY <1>1 DEF ReleaseInv, BuildOK, FollowsWorkspace, Shown
<1>5. ReadyIsEarned'
  BY <1>1 DEF ReleaseInv, ReadyIsEarned, ReadyIsCoherent, ReadyWasReviewed, Ready
<1> QED  BY <1>1, <1>3, <1>4, <1>5 DEF ReleaseInv

LEMMA ReleaseInitKeeps == ReleaseInit => ReleaseInv
<1> SUFFICES ASSUME ReleaseInit PROVE ReleaseInv
  OBVIOUS
<1>1. \A b \in Builders : BuildOK(build[b])
  BY IdleOK DEF ReleaseInit
<1>2. ReadyIsEarned
  BY DEF ReleaseInit, ReadyIsEarned, ReadyIsCoherent, ReadyWasReviewed, Ready
<1> QED  BY <1>1, <1>2 DEF ReleaseInit, ReleaseInv, Workspaces

LEMMA ReleaseStepKeeps == ReleaseInv /\ [ReleaseNext]_releaseVars => ReleaseInv'
<1> SUFFICES ASSUME ReleaseInv, [ReleaseNext]_releaseVars PROVE ReleaseInv'
  OBVIOUS
<1>1. ASSUME NEW b \in Builders, BuildStep(b) PROVE ReleaseInv'
  <2>1. ASSUME UnlockOutput(b) PROVE ReleaseInv'
    BY <2>1, EndKeeps DEF UnlockOutput, workspaceVars
  <2> QED
    BY <1>1, <2>1, PreflightKeeps, CopyRulesKeeps, ValidateKeeps, ProbeKeeps, DecideKeeps,
       LockKeeps, PublishKeeps DEF BuildStep
<1>2. ASSUME NEW b \in Builders, CrashBuild(b) PROVE ReleaseInv'
  BY <1>2, EndKeeps DEF CrashBuild
<1>3. CASE UNCHANGED releaseVars
  BY ZenonT(60), <1>3 DEF releaseVars, ReleaseInv, BuildOK, FollowsWorkspace, Shown, ReadyIsEarned,
     ReadyIsCoherent, ReadyWasReviewed, Ready
<1> QED
  BY <1>1, <1>2, <1>3, DamageKeeps, StartBuildKeeps, EditKeeps, AttestKeeps DEF ReleaseNext

\* A release that is marked ready was reviewed as it is, was published before
\* in another directory for that review, and ships the database of its run; its
\* copies of the rules agree unless the workspace was changed under the build
\* (evidence_review/release/builder.py, attestation.py).
THEOREM ReadyIsEarnedHolds == ReleaseSpec => []ReadyIsEarned
<1>1. ReleaseInv => ReadyIsEarned
  BY DEF ReleaseInv
<1> QED
  BY <1>1, ReleaseInitKeeps, ReleaseStepKeeps, PTL DEF ReleaseSpec

----------------------------------------------------------------------------
(* The drawing case: what the handlers are about to do.                    *)

ManualDocs == {Manual(id) : id \in ManualIds}

CalibrationIds ==
  [kind : {"calibration"}, reviewer : Reviewers, at : 1..MaxTime, length : {"length"}]

\* A calibration, its confirmation and its candidate belong together.
CalibrationRecords ==
  {r \in [key : CalibrationIds, candidate : CandidateIds, confirmation : Confirmations] :
      /\ r.confirmation.candidate = r.candidate
      /\ r.key.reviewer = r.confirmation.reviewer
      /\ r.key.at >= r.confirmation.at}

WriteSteps ==
  [step : {"create", "fill"}, doc : ManualDocs \cup Confirmations \cup CalibrationIds,
   content : ManualDocs \cup Confirmations \cup CalibrationRecords]
IndexSteps ==
  {s \in [step : {"index"}, doc : Confirmations] :
      s.doc.action = "CREATED" => s.doc.candidate \in ManualIds}
CalibratedSteps == [step : {"calibrated"}, doc : CalibrationRecords]
PacketSteps == [step : {"packet"}, doc : CalibrationRecords, since : Nat]
HandlerSteps == WriteSteps \cup IndexSteps \cup CalibratedSteps \cup PacketSteps

\* What a handler does later neither fills a file nor loads a packet.
LaterOK(s) == \A i \in 2 .. Len(s) : s[i].step \notin {"fill", "packet"}

CandidateFile(id) == [kind |-> "candidate", id |-> id]

\* The candidate a packet will show is the confirmed one, unless a file was
\* replaced since it was verified.
ShownStep(s) ==
  /\ s.since <= replaced
  /\ s.since = replaced =>
        /\ CandidateFile(s.doc.candidate) \in DOMAIN disk
        /\ disk[CandidateFile(s.doc.candidate)]
              \in {Extracted(s.doc.candidate), Manual(s.doc.candidate)}

Statuses == {"ACCEPTED", "EDITED", "CREATED"}
InputValues == Values \cup {NoValue, CHOOSE v \in Values : TRUE}
InputSet ==
  {i \in [field : Fields, candidate : CandidateIds, status : Statuses,
          confirmation : Confirmations, value : InputValues] :
      i.status = i.confirmation.action /\ i.candidate = i.confirmation.candidate}

\* The invariant of the handlers and the disk: a file that is being filled is
\* torn and nobody else fills it.
WorkInv ==
  /\ task \in [Handlers -> Seq(HandlerSteps)]
  /\ \A h \in Handlers : LaterOK(task[h])
  /\ replaced \in Nat
  /\ \A h \in Handlers : Doing(h, "fill") =>
        /\ FileOf(Head(task[h]).doc) \in DOMAIN disk
        /\ disk[FileOf(Head(task[h]).doc)] = TornArtifact
  /\ \A g, h \in Handlers : g # h /\ Doing(g, "fill") /\ Doing(h, "fill") =>
        FileOf(Head(task[g]).doc) # FileOf(Head(task[h]).doc)
  /\ \A h \in Handlers : Doing(h, "packet") => ShownStep(Head(task[h]))
  /\ InputsFile \in DOMAIN disk => disk[InputsFile] \subseteq InputSet

CandidateOf(id) == IF id \in ManualIds THEN Manual(id) ELSE Extracted(id)

\* The invariant of the index and of what is shown and bound.
CaseInv ==
  /\ \A id \in DOMAIN entries : id \in CandidateIds /\ entries[id] = CandidateOf(id)
  /\ confirmations \subseteq Confirmations
  /\ \A k \in DOMAIN calibrations : calibrations[k] \in CalibrationRecords
  /\ inputs \subseteq InputSet
  /\ PacketIsCoherent
  /\ BoundInputsTrace

----------------------------------------------------------------------------
(* Lemmas about the operators.                                             *)

\* The rest of a handler's steps.
LEMMA TailSteps ==
  ASSUME NEW s \in Seq(HandlerSteps), s # <<>>, LaterOK(s)
  PROVE  /\ Head(s) \in HandlerSteps
         /\ Tail(s) \in Seq(HandlerSteps) /\ LaterOK(Tail(s))
         /\ Tail(s) # <<>> => Head(Tail(s)).step \notin {"fill", "packet"}
<1>1. Len(s) \in Nat /\ Len(s) >= 1
  OBVIOUS
<1>2. Tail(s) \in Seq(HandlerSteps) /\ Head(s) \in HandlerSteps
  OBVIOUS
<1>3. Len(Tail(s)) = Len(s) - 1 /\ \A i \in 1 .. Len(s) - 1 : Tail(s)[i] = s[i + 1]
  OBVIOUS
<1>4. LaterOK(Tail(s))
  BY <1>1, <1>3 DEF LaterOK
<1>5. ASSUME Tail(s) # <<>> PROVE Head(Tail(s)).step \notin {"fill", "packet"}
  <2>1. Len(Tail(s)) >= 1 /\ Head(Tail(s)) = Tail(s)[1]
    BY <1>5, <1>2
  <2>2. Head(Tail(s)) = s[2] /\ 2 \in 2 .. Len(s)
    BY <2>1, <1>1, <1>3
  <2> QED  BY <2>2 DEF LaterOK
<1> QED  BY <1>2, <1>4, <1>5

LEMMA NewHead ==
  ASSUME NEW s \in Seq(HandlerSteps), s # <<>>, LaterOK(s), NEW w \in HandlerSteps
  PROVE  LET t == <<w>> \o Tail(s)
         IN  t \in Seq(HandlerSteps) /\ LaterOK(t) /\ t # <<>> /\ Head(t) = w
<1> DEFINE t == <<w>> \o Tail(s)
<1>1. Len(s) \in Nat /\ Len(s) >= 1 /\ Tail(s) \in Seq(HandlerSteps) /\ Len(Tail(s)) = Len(s) - 1
  OBVIOUS
<1>2. <<w>> \in Seq(HandlerSteps) /\ Len(<<w>>) = 1
  OBVIOUS
<1>3. t \in Seq(HandlerSteps) /\ Len(t) = Len(s) /\ t[1] = w
  BY <1>1, <1>2
<1>4. \A i \in 2 .. Len(s) : t[i] = s[i]
  BY <1>1, <1>2
<1>5. LaterOK(t)
  BY <1>3, <1>4 DEF LaterOK
<1> QED  BY <1>1, <1>3, <1>5

\* The file of what a handler writes is a candidate's, or of another kind.
LEMMA FilesOfWrites ==
  ASSUME NEW w \in WriteSteps
  PROVE  /\ FileOf(w.doc) # InputsFile
         /\ \A id : FileOf(w.doc) = CandidateFile(id) => w.doc = Manual(id)
<1>1. w.doc \in ManualDocs \cup Confirmations \cup CalibrationIds
  BY DEF WriteSteps
<1>2. CASE w.doc \in ManualDocs
  <2>1. PICK m \in ManualIds : w.doc = Manual(m)  BY <1>2 DEF ManualDocs
  <2>2. FileOf(w.doc) = CandidateFile(m)
    BY <2>1 DEF FileOf, Manual, DrawingCandidate, CandidateFile
  <2>3. \A id : CandidateFile(m) = CandidateFile(id) => m = id
    BY DEF CandidateFile
  <2>4. CandidateFile(m) # InputsFile
    BY DEF CandidateFile, InputsFile
  <2> QED  BY <2>1, <2>2, <2>3, <2>4
<1>3. CASE w.doc \in Confirmations \cup CalibrationIds
  <2>1. w.doc.kind \in {"confirmation", "calibration"}
    BY <1>3 DEF Confirmations, CalibrationIds
  <2>2. FileOf(w.doc) = w.doc
    BY <2>1 DEF FileOf
  <2> QED  BY <2>1, <2>2 DEF CandidateFile, InputsFile
<1> QED  BY <1>1, <1>2, <1>3

----------------------------------------------------------------------------
(* The steps of the drawing case.                                          *)

\* One handler has other steps to do, none of which fills a file.
LEMMA Retask ==
  ASSUME WorkInv, NEW h \in Handlers, NEW t \in Seq(HandlerSteps), LaterOK(t),
         t # <<>> => Head(t).step # "fill",
         t # <<>> /\ Head(t).step = "packet" => ShownStep(Head(t)),
         task' = [task EXCEPT ![h] = t], UNCHANGED <<disk, replaced>>
  PROVE  WorkInv'
<1>1. task' \in [Handlers -> Seq(HandlerSteps)] /\ \A g \in Handlers : LaterOK(task'[g])
  BY DEF WorkInv
<1>2. \A g \in Handlers : task'[g] = IF g = h THEN t ELSE task[g]
  BY DEF WorkInv
<1>3. \A g \in Handlers : Doing(g, "fill")' => Doing(g, "fill") /\ task'[g] = task[g]
  BY <1>2 DEF Doing, Resting
<1>4. \A g \in Handlers : Doing(g, "packet")' => ShownStep(Head(task[g]))'
  BY <1>2 DEF Doing, Resting, WorkInv, ShownStep
<1>5. \A g \in Handlers : Doing(g, "fill")' =>
        /\ FileOf(Head(task'[g]).doc) \in DOMAIN disk'
        /\ disk'[FileOf(Head(task'[g]).doc)] = TornArtifact
  BY <1>3 DEF WorkInv
<1>6. \A f, g \in Handlers : f # g /\ Doing(f, "fill")' /\ Doing(g, "fill")' =>
        FileOf(Head(task'[f]).doc) # FileOf(Head(task'[g]).doc)
  BY <1>3 DEF WorkInv
<1> QED
  BY <1>1, <1>4, <1>5, <1>6 DEF WorkInv

\* A handler's request ends.
LEMMA AnswerWork ==
  ASSUME WorkInv, NEW h \in Handlers, Answer(h), UNCHANGED <<disk, replaced>>
  PROVE  WorkInv'
<1>1. <<>> \in Seq(HandlerSteps) /\ LaterOK(<<>>)
  BY DEF LaterOK
<1> QED  BY <1>1, Retask DEF Answer

LEMMA ContinueWork ==
  ASSUME WorkInv, NEW h \in Handlers, ~Resting(h), NextTask(h), UNCHANGED <<disk, replaced>>
  PROVE  WorkInv'
<1>1. task[h] \in Seq(HandlerSteps) /\ task[h] # <<>> /\ LaterOK(task[h])
  BY DEF WorkInv, Resting
<1>2. task' = [task EXCEPT ![h] = Tail(task[h])]
  BY DEF NextTask
<1> QED  BY <1>1, <1>2, TailSteps, Retask

\* The head of a handler's steps, by its name.
LEMMA HeadKinds ==
  ASSUME WorkInv, NEW h \in Handlers, ~Resting(h)
  PROVE  /\ Head(task[h]) \in HandlerSteps
         /\ Doing(h, "create") \/ Doing(h, "fill") => Head(task[h]) \in WriteSteps
         /\ Doing(h, "index") => Head(task[h]) \in IndexSteps
         /\ Doing(h, "calibrated") => Head(task[h]) \in CalibratedSteps
         /\ Doing(h, "packet") => Head(task[h]) \in PacketSteps
<1>1. task[h] \in Seq(HandlerSteps) /\ task[h] # <<>> /\ LaterOK(task[h])
  BY DEF WorkInv, Resting
<1>2. Head(task[h]) \in HandlerSteps
  BY <1>1, TailSteps
<1> QED
  BY <1>2 DEF HandlerSteps, WriteSteps, IndexSteps, CalibratedSteps, PacketSteps, Doing

\* The index of the case does not change.
LEMMA SameCase ==
  ASSUME CaseInv, UNCHANGED <<entries, confirmations, calibrations, packets, inputs, bound>>
  PROVE  CaseInv'
  BY DEF CaseInv, PacketIsCoherent, BoundInputsTrace, ConflictFree

LEMMA RecordExistingKeeps ==
  ASSUME WorkInv, NEW h \in Handlers, NEW c \in Sent, RecordExisting(h, c)
  PROVE  WorkInv'
<1> DEFINE t == <<Creates(c, c), [step |-> "index", doc |-> c]>>
<1>1. c \in Confirmations /\ c.action # "CREATED"
  BY DrawingAssumption DEF RecordExisting
<1>2. Creates(c, c) \in WriteSteps /\ [step |-> "index", doc |-> c] \in IndexSteps
  BY <1>1 DEF Creates, WriteSteps, IndexSteps
<1>3. t \in Seq(HandlerSteps)
  BY <1>2 DEF HandlerSteps
<1>4. t # <<>> /\ Head(t).step = "create" /\ LaterOK(t)
  BY DEF LaterOK, Creates
<1>5. task' = [task EXCEPT ![h] = t] /\ UNCHANGED <<disk, replaced>>
  BY DEF RecordExisting
<1> HIDE DEF t
<1> QED  BY <1>3, <1>4, <1>5, Retask

LEMMA RecordManualKeeps ==
  ASSUME WorkInv, NEW h \in Handlers, NEW c \in Sent, RecordManual(h, c)
  PROVE  WorkInv'
<1> DEFINE m == Manual(c.candidate)
           t == <<Creates(m, m), Creates(c, c), [step |-> "index", doc |-> c]>>
<1>1. c \in Confirmations /\ c.candidate \in ManualIds
  BY DrawingAssumption DEF RecordManual
<1>2. /\ Creates(m, m) \in WriteSteps /\ Creates(c, c) \in WriteSteps
      /\ [step |-> "index", doc |-> c] \in IndexSteps
  BY <1>1 DEF Creates, WriteSteps, IndexSteps, ManualDocs
<1>3. t \in Seq(HandlerSteps)
  BY <1>2 DEF HandlerSteps
<1>4. t # <<>> /\ Head(t).step = "create" /\ LaterOK(t)
  BY DEF LaterOK, Creates
<1>5. task' = [task EXCEPT ![h] = t] /\ UNCHANGED <<disk, replaced>>
  BY DEF RecordManual
<1> HIDE DEF t
<1> QED  BY <1>3, <1>4, <1>5, Retask

\* A calibration is about a confirmation of the calibrating reviewer.
LEMMA PostCalibrationKeeps ==
  ASSUME WorkInv, CaseInv, NEW h \in Handlers, NEW c \in confirmations,
         NEW reviewer \in Reviewers, NEW at \in 1 .. MaxTime,
         PostCalibration(h, c, reviewer, at, "length")
  PROVE  WorkInv'
<1> DEFINE id == CalibrationId(reviewer, at, "length")
           record == CalibrationRecord(id, c)
           t == <<Creates(id, record), [step |-> "calibrated", doc |-> record]>>
<1>1. c \in Confirmations /\ c.reviewer = reviewer /\ at >= c.at /\ c.candidate \in CandidateIds
  BY DEF CaseInv, PostCalibration, Calibrates, Confirmations
<1>2. id \in CalibrationIds /\ id.reviewer = reviewer /\ id.at = at
  BY DEF CalibrationId, CalibrationIds
<1>3. record \in CalibrationRecords
  BY <1>1, <1>2 DEF CalibrationRecord, CalibrationRecords
<1>4. Creates(id, record) \in WriteSteps /\ [step |-> "calibrated", doc |-> record] \in CalibratedSteps
  BY <1>2, <1>3 DEF Creates, WriteSteps, CalibratedSteps
<1>5. t \in Seq(HandlerSteps)
  BY <1>4 DEF HandlerSteps
<1>6. t # <<>> /\ Head(t).step = "create" /\ LaterOK(t)
  BY DEF LaterOK, Creates
<1>7. task' = [task EXCEPT ![h] = t] /\ UNCHANGED <<disk, replaced>>
  BY DEF PostCalibration
<1> HIDE DEF t
<1> QED  BY <1>5, <1>6, <1>7, Retask

\* A packet is loaded after its candidate's file was verified.
LEMMA PacketVerifyKeeps ==
  ASSUME WorkInv, CaseInv, NEW h \in Handlers, NEW k \in DOMAIN calibrations, NEW asked,
         PacketVerify(h, k, asked)
  PROVE  WorkInv'
<1> DEFINE r == calibrations[k]
           p == [step |-> "packet", doc |-> r, since |-> replaced]
           t == <<p>>
<1>1. r \in CalibrationRecords /\ replaced \in Nat
  BY DEF CaseInv, WorkInv
<1>2. p \in PacketSteps /\ t \in Seq(HandlerSteps)
  BY <1>1 DEF PacketSteps, HandlerSteps
<1>3. t # <<>> /\ Head(t) = p /\ LaterOK(t)
  BY DEF LaterOK
<1>4. KnownCandidate(r.candidate) /\ Intact(r.candidate)
  BY DEF PacketVerify, Verifies
<1>5. entries[r.candidate] \in {Extracted(r.candidate), Manual(r.candidate)}
  BY <1>4 DEF CaseInv, KnownCandidate, CandidateOf
<1>6. FileOf(entries[r.candidate]) = CandidateFile(r.candidate)
  BY <1>5 DEF FileOf, Extracted, Manual, DrawingCandidate, CandidateFile
<1>7. ShownStep(p)
  BY <1>1, <1>4, <1>5, <1>6 DEF ShownStep, Intact
<1>8. task' = [task EXCEPT ![h] = t] /\ UNCHANGED <<disk, replaced>>
  BY DEF PacketVerify
<1>9. Head(t).step # "fill" /\ ShownStep(Head(t))
  BY <1>3, <1>7
<1> HIDE DEF t, p, r
<1> QED  BY <1>2, <1>3, <1>8, <1>9, Retask

\* A file is created torn: nobody fills or shows it yet.
LEMMA CreateKeeps ==
  ASSUME WorkInv, NEW h \in Handlers, CreateArtifact(h)
  PROVE  WorkInv'
<1> DEFINE w == Head(task[h])
           f == FileOf(w.doc)
           x == [w EXCEPT !.step = "fill"]
           t == <<x>> \o Tail(task[h])
<1>1. ~Resting(h) /\ w.step = "create" /\ w \in WriteSteps /\ replaced' = replaced
  BY HeadKinds DEF CreateArtifact, Doing
<1>2. CASE f \in DOMAIN disk
  BY <1>1, <1>2, AnswerWork DEF CreateArtifact
<1>3. CASE f \notin DOMAIN disk
  <2>1. disk' = With(disk, f, TornArtifact) /\ task' = [task EXCEPT ![h] = t]
    BY <1>3 DEF CreateArtifact
  <2>2. /\ DOMAIN disk' = DOMAIN disk \cup {f} /\ disk'[f] = TornArtifact
        /\ \A y \in DOMAIN disk : disk'[y] = disk[y]
    BY <2>1, <1>3 DEF With
  <2>3. x \in WriteSteps /\ x.step = "fill" /\ x.doc = w.doc
    BY <1>1 DEF WriteSteps
  <2>4. t \in Seq(HandlerSteps) /\ LaterOK(t) /\ t # <<>> /\ Head(t) = x
    <3>1. task[h] \in Seq(HandlerSteps) /\ task[h] # <<>> /\ LaterOK(task[h])
      BY <1>1 DEF WorkInv, Resting
    <3>2. x \in HandlerSteps  BY <2>3 DEF HandlerSteps
    <3> HIDE DEF x
    <3> QED  BY <3>1, <3>2, NewHead
  <2>5. FileOf(Head(t).doc) = f /\ Head(t).step = "fill"
    BY <2>3, <2>4
  <2> HIDE DEF t, x
  <2>6. \A g \in Handlers : task'[g] = IF g = h THEN t ELSE task[g]
    BY <2>1 DEF WorkInv
  <2>7. task' \in [Handlers -> Seq(HandlerSteps)] /\ \A g \in Handlers : LaterOK(task'[g])
    BY <2>1, <2>4 DEF WorkInv
  <2>8. \A g \in Handlers : Doing(g, "fill")' =>
          /\ FileOf(Head(task'[g]).doc) \in DOMAIN disk'
          /\ disk'[FileOf(Head(task'[g]).doc)] = TornArtifact
    BY <2>2, <2>5, <2>6 DEF Doing, Resting, WorkInv
  <2>9. \A g \in Handlers \ {h} : Doing(g, "fill")' => FileOf(Head(task'[g]).doc) # f
    BY <1>3, <2>6 DEF Doing, Resting, WorkInv
  <2>10. \A e, g \in Handlers : e # g /\ Doing(e, "fill")' /\ Doing(g, "fill")' =>
           FileOf(Head(task'[e]).doc) # FileOf(Head(task'[g]).doc)
    <3> SUFFICES ASSUME NEW e \in Handlers, NEW g \in Handlers, e # g,
                        Doing(e, "fill")', Doing(g, "fill")'
                 PROVE  FileOf(Head(task'[e]).doc) # FileOf(Head(task'[g]).doc)
      OBVIOUS
    <3>1. CASE e # h /\ g # h
      BY <3>1, <2>6 DEF Doing, Resting, WorkInv
    <3>2. CASE e = h \/ g = h
      BY <3>2, <2>5, <2>6, <2>9
    <3> QED  BY <3>1, <3>2
  <2>11. \A g \in Handlers : Doing(g, "packet")' => ShownStep(Head(task[g]))'
    <3> SUFFICES ASSUME NEW g \in Handlers, Doing(g, "packet")' PROVE ShownStep(Head(task[g]))'
      OBVIOUS
    <3>1. g # h /\ task'[g] = task[g] /\ Doing(g, "packet")
      BY <2>5, <2>6 DEF Doing, Resting
    <3>2. ShownStep(Head(task[g]))  BY <3>1 DEF WorkInv
    <3> QED  BY <3>1, <3>2, <2>2, <1>1 DEF ShownStep
  <2>12. InputsFile \in DOMAIN disk' => disk'[InputsFile] \subseteq InputSet
    BY <2>2, <1>1, FilesOfWrites DEF WorkInv
  <2> QED
    BY <2>7, <2>8, <2>10, <2>11, <2>12, <1>1 DEF WorkInv
<1> QED  BY <1>2, <1>3

\* A handler is done with the file it filled, whether or not it succeeded; the
\* file was torn, so that no packet is about to show it.
LEMMA FinishFill ==
  ASSUME WorkInv, NEW h \in Handlers, Doing(h, "fill"),
         NEW t \in Seq(HandlerSteps), LaterOK(t),
         t # <<>> => Head(t).step \notin {"fill", "packet"},
         task' = [task EXCEPT ![h] = t], replaced' = replaced,
         \A y \in DOMAIN disk \ {FileOf(Head(task[h]).doc)} : y \in DOMAIN disk' /\ disk'[y] = disk[y],
         InputsFile \in DOMAIN disk' => InputsFile \in DOMAIN disk
  PROVE  WorkInv'
<1> DEFINE f == FileOf(Head(task[h]).doc)
<1>1. disk[f] = TornArtifact /\ Head(task[h]) \in WriteSteps
  BY HeadKinds DEF WorkInv, Doing
<1>2. \A g \in Handlers : task'[g] = IF g = h THEN t ELSE task[g]
  BY DEF WorkInv
<1>3. task' \in [Handlers -> Seq(HandlerSteps)] /\ \A g \in Handlers : LaterOK(task'[g])
  BY DEF WorkInv
<1>4. \A g \in Handlers : Doing(g, "fill")' =>
        g # h /\ task'[g] = task[g] /\ Doing(g, "fill") /\ FileOf(Head(task[g]).doc) # f
  BY <1>2 DEF Doing, Resting, WorkInv
<1>5. \A g \in Handlers : Doing(g, "fill")' =>
        /\ FileOf(Head(task'[g]).doc) \in DOMAIN disk'
        /\ disk'[FileOf(Head(task'[g]).doc)] = TornArtifact
  BY <1>4 DEF WorkInv
<1>6. \A e, g \in Handlers : e # g /\ Doing(e, "fill")' /\ Doing(g, "fill")' =>
        FileOf(Head(task'[e]).doc) # FileOf(Head(task'[g]).doc)
  BY <1>4 DEF WorkInv
<1>7. \A g \in Handlers : Doing(g, "packet")' => ShownStep(Head(task[g]))'
  <2> SUFFICES ASSUME NEW g \in Handlers, Doing(g, "packet")' PROVE ShownStep(Head(task[g]))'
    OBVIOUS
  <2>1. g # h /\ task'[g] = task[g] /\ Doing(g, "packet")
    BY <1>2 DEF Doing, Resting
  <2> DEFINE p == Head(task[g])
  <2>2. ShownStep(p) /\ p \in PacketSteps
    BY <2>1, HeadKinds DEF WorkInv, Doing
  <2>3. p.doc.candidate \in CandidateIds
    BY <2>2 DEF PacketSteps, CalibrationRecords
  <2>4. TornArtifact \notin {Extracted(p.doc.candidate), Manual(p.doc.candidate)}
    BY <2>3, DrawingAssumption
  <2>5. p.since = replaced => CandidateFile(p.doc.candidate) # f
    BY <2>2, <2>4, <1>1 DEF ShownStep
  <2> QED  BY <2>1, <2>2, <2>5 DEF ShownStep
<1>8. InputsFile \in DOMAIN disk' => disk'[InputsFile] \subseteq InputSet
  BY <1>1, FilesOfWrites DEF WorkInv
<1> QED
  BY <1>3, <1>5, <1>6, <1>7, <1>8 DEF WorkInv

LEMMA FillKeeps ==
  ASSUME WorkInv, NEW h \in Handlers, FillArtifact(h) \/ FillFails(h)
  PROVE  WorkInv'
<1> DEFINE w == Head(task[h])
           f == FileOf(w.doc)
<1>1. Doing(h, "fill") /\ ~Resting(h) /\ w \in WriteSteps /\ replaced' = replaced
  BY HeadKinds DEF FillArtifact, FillFails, Doing
<1>2. f # InputsFile  BY <1>1, FilesOfWrites
<1>3. task[h] \in Seq(HandlerSteps) /\ task[h] # <<>> /\ LaterOK(task[h])
  BY <1>1 DEF WorkInv, Resting
<1>4. CASE FillArtifact(h)
  <2>1. disk' = With(disk, f, w.content) /\ task' = [task EXCEPT ![h] = Tail(task[h])]
    BY <1>4 DEF FillArtifact, NextTask
  <2>2. /\ DOMAIN disk' = DOMAIN disk \cup {f}
        /\ \A y \in DOMAIN disk \ {f} : y \in DOMAIN disk' /\ disk'[y] = disk[y]
    BY <2>1 DEF With
  <2> QED  BY <2>1, <2>2, <1>1, <1>2, <1>3, TailSteps, FinishFill
<1>5. CASE FillFails(h)
  <2>1. /\ disk' = [y \in DOMAIN disk \ {f} |-> disk[y]]
        /\ task' = [task EXCEPT ![h] = <<>>]
    BY <1>5 DEF FillFails, Answer
  <2>2. <<>> \in Seq(HandlerSteps) /\ LaterOK(<<>>)
    BY DEF LaterOK
  <2> QED  BY <2>1, <2>2, <1>1, FinishFill
<1> QED  BY <1>4, <1>5

\* The inputs are persisted once; a candidate or the inputs are replaced.
LEMMA ArtifactsKeep ==
  ASSUME WorkInv, CaseInv, PersistConfirmedInputs \/ ReplaceArtifact
  PROVE  WorkInv'
<1>1. task' = task /\ replaced \in Nat
  BY DEF PersistConfirmedInputs, ReplaceArtifact, WorkInv
<1>2. \A h \in Handlers : Doing(h, "fill") => Head(task[h]) \in WriteSteps
                                          /\ FileOf(Head(task[h]).doc) # InputsFile
  BY HeadKinds, FilesOfWrites DEF Doing
<1>3. \A h \in Handlers : Doing(h, "packet") =>
        Head(task[h]).since \in Nat /\ ShownStep(Head(task[h]))
  BY HeadKinds DEF Doing, PacketSteps, WorkInv
<1>4. \A id : CandidateFile(id) # InputsFile
  BY DEF CandidateFile, InputsFile
<1>5. CASE PersistConfirmedInputs
  <2>1. disk' = With(disk, InputsFile, inputs) /\ replaced' = replaced
    BY <1>5 DEF PersistConfirmedInputs
  <2>2. /\ DOMAIN disk' = DOMAIN disk \cup {InputsFile} /\ disk'[InputsFile] = inputs
        /\ \A y \in DOMAIN disk \ {InputsFile} : disk'[y] = disk[y]
    BY <2>1 DEF With
  <2>3. \A h \in Handlers : Doing(h, "packet")' => ShownStep(Head(task[h]))'
    BY <2>1, <2>2, <1>1, <1>3, <1>4 DEF ShownStep, Doing, Resting
  <2>4. inputs \subseteq InputSet  BY DEF CaseInv
  <2>5. \A h \in Handlers : Doing(h, "fill")' =>
          /\ FileOf(Head(task'[h]).doc) \in DOMAIN disk'
          /\ disk'[FileOf(Head(task'[h]).doc)] = TornArtifact
    BY <2>2, <1>1, <1>2 DEF WorkInv, Doing, Resting
  <2> QED  BY <2>1, <2>2, <2>3, <2>4, <2>5, <1>1 DEF WorkInv, Doing, Resting
<1>6. ASSUME NEW f \in DOMAIN disk, NEW v \in Values, f.kind = "candidate", disk[f] # TornArtifact,
             disk' = [disk EXCEPT ![f] = [disk[f] EXCEPT !.value = v]], replaced' = replaced + 1
      PROVE  WorkInv'
  <2>1. f # InputsFile  BY <1>6 DEF InputsFile
  <2>2. /\ DOMAIN disk' = DOMAIN disk
        /\ \A y \in DOMAIN disk \ {f} : disk'[y] = disk[y]
    BY <1>6
  <2>3. \A h \in Handlers : Doing(h, "packet")' => ShownStep(Head(task[h]))'
    BY <1>1, <1>3, <1>6 DEF ShownStep, Doing, Resting
  <2>4. \A h \in Handlers : Doing(h, "fill")' =>
          /\ FileOf(Head(task'[h]).doc) \in DOMAIN disk'
          /\ disk'[FileOf(Head(task'[h]).doc)] = TornArtifact
    BY <2>2, <1>1, <1>6 DEF WorkInv, Doing, Resting
  <2>5. InputsFile \in DOMAIN disk' => disk'[InputsFile] \subseteq InputSet
    BY <2>1, <2>2 DEF WorkInv
  <2> QED  BY <2>3, <2>4, <2>5, <1>1, <1>6 DEF WorkInv, Doing, Resting
<1>7. ASSUME NEW v \in Values, InputsFile \in DOMAIN disk, replaced' = replaced,
             disk' = [disk EXCEPT ![InputsFile] = {[i EXCEPT !.value = v] : i \in disk[InputsFile]}]
      PROVE  WorkInv'
  <2>1. /\ DOMAIN disk' = DOMAIN disk
        /\ disk'[InputsFile] = {[i EXCEPT !.value = v] : i \in disk[InputsFile]}
        /\ \A y \in DOMAIN disk \ {InputsFile} : disk'[y] = disk[y]
    BY <1>7
  <2>2. \A h \in Handlers : Doing(h, "packet")' => ShownStep(Head(task[h]))'
    BY <2>1, <1>1, <1>3, <1>4, <1>7 DEF ShownStep, Doing, Resting
  <2>3. \A h \in Handlers : Doing(h, "fill")' =>
          /\ FileOf(Head(task'[h]).doc) \in DOMAIN disk'
          /\ disk'[FileOf(Head(task'[h]).doc)] = TornArtifact
    BY <2>1, <1>1, <1>2 DEF WorkInv, Doing, Resting
  <2>4. disk'[InputsFile] \subseteq InputSet
    <3>1. \A i \in InputSet : [i EXCEPT !.value = v] \in InputSet
      BY DEF InputSet, InputValues
    <3> QED  BY <3>1, <2>1, <1>7 DEF WorkInv
  <2> QED  BY <2>2, <2>3, <2>4, <1>1, <1>7 DEF WorkInv, Doing, Resting
<1> QED  BY <1>5, <1>6, <1>7 DEF ReplaceArtifact

\* A new candidate is indexed under its own identifier.
LEMMA IndexKeeps ==
  ASSUME WorkInv, CaseInv, NEW h \in Handlers, IndexAction(h) \/ IndexCalibration(h)
  PROVE  WorkInv' /\ CaseInv'
<1>1. CASE IndexAction(h)
  <2> DEFINE c == Head(task[h]).doc
  <2>1. Doing(h, "index") /\ ~Resting(h) /\ Head(task[h]) \in IndexSteps
    BY <1>1, HeadKinds DEF IndexAction, Doing
  <2>2. c \in Confirmations /\ (c.action = "CREATED" => c.candidate \in ManualIds)
    BY <2>1 DEF IndexSteps
  <2>3. WorkInv'
    BY <1>1, AnswerWork DEF IndexAction
  <2>4. /\ entries' = IF c.action = "CREATED"
                      THEN With(entries, c.candidate, Manual(c.candidate)) ELSE entries
        /\ confirmations' \subseteq confirmations \cup {c}
        /\ UNCHANGED <<calibrations, packets, inputs, bound>>
    BY <1>1 DEF IndexAction
  <2>5. \A id \in DOMAIN entries' : id \in CandidateIds /\ entries'[id] = CandidateOf(id)
    BY <2>2, <2>4 DEF CaseInv, With, CandidateOf, CandidateIds
  <2>6. PacketIsCoherent' /\ BoundInputsTrace'
    BY <2>4 DEF CaseInv, PacketIsCoherent, BoundInputsTrace, ConflictFree
  <2> QED  BY <2>2, <2>3, <2>4, <2>5, <2>6 DEF CaseInv
<1>2. CASE IndexCalibration(h)
  <2> DEFINE r == Head(task[h]).doc
  <2>1. Doing(h, "calibrated") /\ ~Resting(h) /\ Head(task[h]) \in CalibratedSteps
    BY <1>2, HeadKinds DEF IndexCalibration, Doing
  <2>2. r \in CalibrationRecords
    BY <2>1 DEF CalibratedSteps
  <2>3. WorkInv'
    BY <1>2, <2>1, ContinueWork DEF IndexCalibration
  <2>4. calibrations' = With(calibrations, r.key, r)
        /\ UNCHANGED <<entries, confirmations, packets, inputs, bound>>
    BY <1>2 DEF IndexCalibration
  <2>5. \A k \in DOMAIN calibrations' : calibrations'[k] \in CalibrationRecords
    BY <2>2, <2>4 DEF CaseInv, With
  <2>6. PacketIsCoherent' /\ BoundInputsTrace'
    BY <2>4 DEF CaseInv, PacketIsCoherent, BoundInputsTrace, ConflictFree
  <2> QED  BY <2>3, <2>4, <2>5, <2>6 DEF CaseInv
<1> QED  BY <1>1, <1>2

LEMMA PacketLoadKeeps ==
  ASSUME WorkInv, CaseInv, NEW h \in Handlers, PacketLoad(h)
  PROVE  WorkInv' /\ CaseInv'
<1> DEFINE s == Head(task[h])
           r == s.doc
           p == [record |-> r, candidate |-> disk[CandidateFile(r.candidate)], status |-> "ACCEPTED",
                 raced |-> replaced # s.since]
<1>1. Doing(h, "packet") /\ ~Resting(h) /\ s \in PacketSteps /\ ShownStep(s)
  BY HeadKinds DEF PacketLoad, Doing, WorkInv
<1>2. WorkInv'
  BY <1>1, ContinueWork DEF PacketLoad
<1>3. packets' = {p} /\ UNCHANGED <<entries, confirmations, calibrations, inputs, bound>>
  BY DEF PacketLoad, CandidateFile, memory
<1>4. r \in CalibrationRecords  BY <1>1 DEF PacketSteps
<1>5. CASE s.since = replaced
  <2>1. p.candidate \in {Extracted(r.candidate), Manual(r.candidate)}
    BY <1>1, <1>5 DEF ShownStep
  <2>2. p.record = r  OBVIOUS
  <2> HIDE DEF p
  <2> QED  BY <1>2, <1>3, <1>4, <2>1, <2>2 DEF CaseInv, PacketIsCoherent, BoundInputsTrace,
              ConflictFree, CalibrationRecords
<1>6. CASE s.since # replaced
  <2>1. p.raced /\ p.record = r  BY <1>6
  <2> HIDE DEF p
  <2> QED  BY <1>2, <1>3, <1>4, <2>1 DEF CaseInv, PacketIsCoherent, BoundInputsTrace,
              ConflictFree, CalibrationRecords
<1> QED  BY <1>5, <1>6

\* A confirmed input names its confirmation's candidate and action.
LEMMA BuildInputKeeps ==
  ASSUME CaseInv, NEW f \in Fields, NEW c \in confirmations, BuildConfirmedInput(f, c)
  PROVE  CaseInv'
<1> DEFINE e == entries[c.candidate]
           v == EffectiveValue(e, c)
           i == ConfirmedInput(f, e, c, v)
<1>1. c \in Confirmations /\ c.action \in Statuses /\ KnownCandidate(c.candidate)
  BY DEF CaseInv, BuildConfirmedInput, Statuses
<1>2. c.candidate \in CandidateIds /\ e = CandidateOf(c.candidate)
  BY <1>1 DEF CaseInv, KnownCandidate
<1>3. e.id = c.candidate /\ e.value \in InputValues
  BY <1>2 DEF CandidateOf, Extracted, Manual, DrawingCandidate, InputValues
<1>4. v \in InputValues
  BY <1>1, <1>3 DEF EffectiveValue, Confirmations, InputValues
<1> HIDE DEF v, e
<1>5. i \in InputSet
  BY <1>1, <1>2, <1>3, <1>4 DEF ConfirmedInput, InputSet
<1>6. inputs' = inputs \cup {i} /\ UNCHANGED <<entries, confirmations, calibrations, packets, bound>>
  BY DEF BuildConfirmedInput, e, v, memory
<1> HIDE DEF i
<1> QED  BY <1>5, <1>6 DEF CaseInv, PacketIsCoherent, BoundInputsTrace, ConflictFree

\* What is bound was verified, whatever became of the file of the inputs.
LEMMA BindKeeps ==
  ASSUME WorkInv, CaseInv, BindConfirmedInputs
  PROVE  CaseInv'
<1>1. /\ bound' = disk[InputsFile] /\ disk[InputsFile] \subseteq InputSet
      /\ \A i \in disk[InputsFile] : VerifiedInput(i)
      /\ ConflictFree(disk[InputsFile])
      /\ UNCHANGED <<entries, confirmations, calibrations, packets, inputs>>
  BY DEF BindConfirmedInputs, WorkInv, memory
<1>2. ConflictFree(bound)'
  BY <1>1 DEF ConflictFree
<1>3. ASSUME NEW i \in disk[InputsFile]
      PROVE  /\ i.confirmation.action # "REJECTED"
             /\ LET candidate == IF i.candidate \in ManualIds THEN Manual(i.candidate)
                                 ELSE Extracted(i.candidate)
                IN \/ i.value = EffectiveValue(candidate, i.confirmation)
                   \/ i.confirmation.value = NoValue /\ i.confirmation.action # "ACCEPTED"
  <2>1. i \in InputSet /\ VerifiedInput(i)
    BY <1>1
  <2>2. i.status \in Statuses /\ i.confirmation.action = i.status
    BY <2>1 DEF InputSet
  <2>3. i.confirmation.action # "REJECTED"
    BY <2>2 DEF Statuses
  <2>4. CASE i.confirmation.value # NoValue
    BY <2>1, <2>3, <2>4 DEF VerifiedInput, EffectiveValue
  <2>5. CASE i.confirmation.value = NoValue /\ i.status = "ACCEPTED"
    <3>1. entries[i.candidate] = CandidateOf(i.candidate) /\ entries[i.candidate].value = i.value
      BY <2>1, <2>5 DEF VerifiedInput, CaseInv, KnownCandidate
    <3> QED  BY <2>3, <2>5, <3>1 DEF CandidateOf, EffectiveValue
  <2>6. CASE i.confirmation.value = NoValue /\ i.status # "ACCEPTED"
    BY <2>2, <2>3, <2>6
  <2> QED  BY <2>4, <2>5, <2>6
<1>4. BoundInputsTrace'
  BY <1>1, <1>2, <1>3 DEF BoundInputsTrace
<1> QED  BY <1>1, <1>4 DEF CaseInv, PacketIsCoherent

LEMMA RestartKeeps ==
  ASSUME WorkInv, CaseInv, RestartServer
  PROVE  WorkInv' /\ CaseInv'
<1>1. /\ entries' = [id \in ExtractedIds |-> Extracted(id)] /\ confirmations' = {}
      /\ calibrations' = [k \in {} |-> k] /\ task' = [h \in Handlers |-> <<>>]
      /\ UNCHANGED <<disk, packets, inputs, bound, replaced>>
  BY DEF RestartServer
<1>2. \A id \in DOMAIN entries' : id \in CandidateIds /\ entries'[id] = CandidateOf(id)
  BY <1>1, DrawingAssumption DEF CandidateIds, CandidateOf
<1>3. PacketIsCoherent' /\ BoundInputsTrace'
  BY <1>1 DEF CaseInv, PacketIsCoherent, BoundInputsTrace, ConflictFree
<1>4. <<>> \in Seq(HandlerSteps) /\ LaterOK(<<>>)
  BY DEF LaterOK
<1>5. \A h \in Handlers : task'[h] = <<>>  BY <1>1
<1>6. task' \in [Handlers -> Seq(HandlerSteps)]  BY <1>1, <1>4
<1>7. WorkInv'
  BY <1>1, <1>4, <1>5, <1>6 DEF WorkInv, Doing, Resting
<1> QED  BY <1>1, <1>2, <1>3, <1>7 DEF CaseInv

LEMMA DrawingInitKeeps == DrawingInit => WorkInv /\ CaseInv
<1> SUFFICES ASSUME DrawingInit PROVE WorkInv /\ CaseInv
  OBVIOUS
<1>1. <<>> \in Seq(HandlerSteps) /\ LaterOK(<<>>)
  BY DEF LaterOK
<1>2. InputsFile \notin DOMAIN disk
  BY DEF DrawingInit, InputsFile, FileOf, Extracted, DrawingCandidate
<1>3. WorkInv
  BY <1>1, <1>2 DEF DrawingInit, WorkInv, Doing, Resting
<1>4. CaseInv
  BY DrawingAssumption DEF DrawingInit, CaseInv, CandidateIds, CandidateOf, PacketIsCoherent,
     BoundInputsTrace, ConflictFree
<1> QED  BY <1>3, <1>4

LEMMA DrawingStepKeeps ==
  WorkInv /\ CaseInv /\ [DrawingNext]_drawingVars => (WorkInv /\ CaseInv)'
<1> SUFFICES ASSUME WorkInv, CaseInv, [DrawingNext]_drawingVars PROVE WorkInv' /\ CaseInv'
  OBVIOUS
<1>1. ASSUME NEW h \in Handlers, NEW c \in Sent, RecordExisting(h, c) \/ RecordManual(h, c)
      PROVE  WorkInv' /\ CaseInv'
  BY <1>1, RecordExistingKeeps, RecordManualKeeps, SameCase
     DEF RecordExisting, RecordManual, memory
<1>2. ASSUME NEW h \in Handlers, NEW c \in confirmations, NEW r \in Reviewers, NEW t \in 1 .. MaxTime,
             PostCalibration(h, c, r, t, "length")
      PROVE  WorkInv' /\ CaseInv'
  BY <1>2, PostCalibrationKeeps, SameCase DEF PostCalibration, memory
<1>3. ASSUME NEW h \in Handlers, NEW k \in DOMAIN calibrations, NEW asked, PacketVerify(h, k, asked)
      PROVE  WorkInv' /\ CaseInv'
  BY <1>3, PacketVerifyKeeps, SameCase DEF PacketVerify, memory
<1>4. ASSUME NEW h \in Handlers, HandlerStep(h) \/ FillFails(h) PROVE WorkInv' /\ CaseInv'
  <2>1. CASE CreateArtifact(h)
    BY <2>1, CreateKeeps, SameCase DEF CreateArtifact, memory
  <2>2. CASE FillArtifact(h) \/ FillFails(h)
    BY <2>2, FillKeeps, SameCase DEF FillArtifact, FillFails, memory
  <2> QED  BY <1>4, <2>1, <2>2, IndexKeeps, PacketLoadKeeps DEF HandlerStep
<1>5. ASSUME NEW f \in Fields, NEW c \in confirmations, BuildConfirmedInput(f, c)
      PROVE  WorkInv' /\ CaseInv'
  BY <1>5, BuildInputKeeps DEF BuildConfirmedInput, WorkInv, Doing, Resting, ShownStep
<1>6. CASE PersistConfirmedInputs \/ ReplaceArtifact
  BY <1>6, ArtifactsKeep, SameCase DEF PersistConfirmedInputs, ReplaceArtifact, memory
<1>7. CASE BindConfirmedInputs
  BY <1>7, BindKeeps DEF BindConfirmedInputs, WorkInv, Doing, Resting, ShownStep
<1>8. CASE UNCHANGED drawingVars
  BY <1>8, SameCase DEF drawingVars, WorkInv, Doing, Resting, ShownStep
<1> QED
  BY <1>1, <1>2, <1>3, <1>4, <1>5, <1>6, <1>7, <1>8, RestartKeeps DEF DrawingNext

\* Whatever the handler threads of the annotation server do, and whatever is
\* replaced on the disk, a packet's calibration, confirmation and candidate
\* belong together, and the engines are given confirmed values only
\* (drawing_review/local_server.py, service.py, parsing/drawing_inputs.py).
THEOREM DrawingIsTracedHolds == DrawingSpec => []DrawingIsTraced
<1>1. CaseInv => DrawingIsTraced
  BY DEF CaseInv, DrawingIsTraced
<1> QED
  BY <1>1, DrawingInitKeeps, DrawingStepKeeps, PTL DEF DrawingSpec

----------------------------------------------------------------------------
(* Lists: what the elements at some positions, the lists put one after the *)
(* other and the first elements of a list are.                             *)

\* A set of numbers that holds 0 and the successor of each of its members holds
\* every number.
LEMMA Induction ==
    ASSUME NEW T \in SUBSET Nat, 0 \in T, \A n \in T : n + 1 \in T
    PROVE  Nat \subseteq T
<1> SUFFICES ASSUME Nat \ T # {} PROVE FALSE
    OBVIOUS
<1> DEFINE U == Nat \ T
<1>1. U \in SUBSET Nat /\ U # {}
    OBVIOUS
<1>2. PICK n \in U : \A x \in U : ~ (<<x, n>> \in OpToRel(<, Nat))
  <2> HIDE DEF U
  <2> QED  BY <1>1, NatLessThanWellFounded, WFMin
<1>3. \A x \in U : ~ (x < n)
    BY <1>2 DEF OpToRel
<1>4. n \in Nat /\ n # 0 /\ n - 1 \in Nat /\ n - 1 < n /\ (n - 1) + 1 = n
    OBVIOUS
<1>5. n - 1 \in T
    BY <1>3, <1>4
<1> QED  BY <1>4, <1>5

\* Functions on 0 .. n may be defined by recursion.
Defines(step, a, n, V) ==
    \E f \in [0 .. n -> V] : f[0] = a /\ \A k \in 1 .. n : f[k] = step[<<f[k - 1], k>>]

\* A function of a step and a first value exists.
LEMMA Recursion ==
    ASSUME NEW V, NEW a \in V, NEW n \in Nat, NEW step \in [V \X (1 .. n) -> V]
    PROVE  Defines(step, a, n, V)
<1> DEFINE Good(f, m) == f \in [0 .. m -> V] /\ \A k \in 0 .. m :
                            f[k] = IF k = 0 THEN a ELSE step[<<f[k - 1], k>>]
           T == {m \in Nat : m <= n => \E f : Good(f, m)}
<1>1. 0 \in T
  <2> DEFINE f == [k \in 0 .. 0 |-> a]
  <2>1. Good(f, 0)
      OBVIOUS
  <2> QED  BY <2>1
<1>2. ASSUME NEW m \in T PROVE m + 1 \in T
  <2> SUFFICES ASSUME m + 1 <= n PROVE \E f : Good(f, m + 1)
      OBVIOUS
  <2>0. m \in Nat /\ m <= n /\ m + 1 \in 1 .. n /\ (m + 1) - 1 = m /\ m + 1 # 0 /\ m \in 0 .. m
      OBVIOUS
  <2>1. PICK f : Good(f, m)
      BY <2>0
  <2> DEFINE g == [k \in 0 .. m + 1 |-> IF k = m + 1 THEN step[<<f[m], m + 1>>] ELSE f[k]]
  <2>2. f[m] \in V /\ step[<<f[m], m + 1>>] \in V
      BY <2>0, <2>1
  <2>3. \A k \in 0 .. m + 1 : k = m + 1 \/ k \in 0 .. m
      BY <2>0
  <2>4. g \in [0 .. m + 1 -> V]
      BY <2>1, <2>2, <2>3
  <2>5. \A k \in 0 .. m : k \in 0 .. m + 1 /\ g[k] = f[k] /\ (k # 0 => k - 1 \in 0 .. m)
      BY <2>0
  <2>6. g[m + 1] = step[<<g[m], m + 1>>]
    <3>1. g[m] = f[m]
        BY <2>0, <2>5
    <3>2. m + 1 \in 0 .. m + 1
        BY <2>0
    <3>3. g[m + 1] = step[<<f[m], m + 1>>]
        BY <3>2
    <3> QED  BY <3>1, <3>3
  <2> HIDE DEF g
  <2>7. ASSUME NEW k \in 0 .. m + 1
        PROVE  g[k] = IF k = 0 THEN a ELSE step[<<g[k - 1], k>>]
    <3>1. CASE k = m + 1
        BY <2>0, <2>6, <3>1
    <3>2. CASE k \in 0 .. m
        BY <2>1, <2>5, <3>2
    <3> QED  BY <2>3, <3>1, <3>2
  <2> QED  BY <2>4, <2>7
<1> HIDE DEF T
<1>3. T \in SUBSET Nat
    BY DEF T
<1>4. n \in T
    BY <1>1, <1>2, <1>3, Induction
<1>5. PICK f : Good(f, n)
    BY <1>4 DEF T
<1>7. f[0] = a
  <2>1. 0 \in 0 .. n
      OBVIOUS
  <2> QED  BY <1>5, <2>1
<1>8. ASSUME NEW k \in 1 .. n PROVE f[k] = step[<<f[k - 1], k>>]
  <2>1. k \in 0 .. n /\ k # 0
      OBVIOUS
  <2> QED  BY <1>5, <2>1
<1> QED  BY <1>5, <1>7, <1>8 DEF Defines

\* The elements of a list at the positions I are a list of just those.
LEMMA PositionsList ==
    ASSUME NEW S, NEW s \in Seq(S), NEW I
    PROVE  /\ AtPositions(s, I) \in Seq({s[k] : k \in I \cap DOMAIN s})
           /\ Len(AtPositions(s, I)) <= Len(s)
           /\ ElementsOf(AtPositions(s, I)) = {s[k] : k \in I \cap DOMAIN s}
<1> DEFINE n == Len(s)
           W == {s[k] : k \in I \cap DOMAIN s}
           Is(f) == f = [k \in 0 .. n |->
                           IF k = 0 THEN <<>>
                           ELSE IF k \in I THEN Append(f[k - 1], s[k]) ELSE f[k - 1]]
           F == CHOOSE f : Is(f)
<1>1. AtPositions(s, I) = F[n]
    BY DEF AtPositions
<1>2. n \in Nat /\ DOMAIN s = 1 .. n
    OBVIOUS
<1>3. \E f : Is(f)
  <2> DEFINE V == Seq(W)
             step == [x \in V \X (1 .. n) |->
                        IF x[2] \in I THEN Append(x[1], s[x[2]]) ELSE x[1]]
  <2>1. <<>> \in V
      OBVIOUS
  <2>2. ASSUME NEW x \in V \X (1 .. n)
        PROVE  (IF x[2] \in I THEN Append(x[1], s[x[2]]) ELSE x[1]) \in V
    <3>1. x[1] \in Seq(W) /\ x[2] \in 1 .. n
        OBVIOUS
    <3>2. x[2] \in I => s[x[2]] \in W
        BY <3>1, <1>2
    <3> HIDE DEF W
    <3> QED  BY <3>1, <3>2
  <2>3. step \in [V \X (1 .. n) -> V]
      BY <2>2
  <2>4. \A v \in V, k \in 1 .. n :
            step[<<v, k>>] = IF k \in I THEN Append(v, s[k]) ELSE v
      OBVIOUS
  <2> HIDE DEF V, step
  <2>5. PICK f \in [0 .. n -> V] :
            f[0] = <<>> /\ \A k \in 1 .. n : f[k] = step[<<f[k - 1], k>>]
    <3> HIDE DEF n
    <3>1. Defines(step, <<>>, n, V)
        BY <1>2, <2>1, <2>3, Recursion, Zenon
    <3> QED  BY <3>1 DEF Defines
  <2>6. \A k \in 0 .. n : k # 0 => k - 1 \in 0 .. n /\ k \in 1 .. n
      BY <1>2
  <2>7. \A k \in 0 .. n :
            f[k] = IF k = 0 THEN <<>>
                   ELSE IF k \in I THEN Append(f[k - 1], s[k]) ELSE f[k - 1]
      BY <2>4, <2>5, <2>6
  <2>8. Is(f)
      BY <2>5, <2>7
  <2> QED  BY <2>8
<1>4. Is(F)
    BY <1>3
<1> HIDE DEF F
<1>5. \A k \in 0 .. n : F[k] = IF k = 0 THEN <<>>
                               ELSE IF k \in I THEN Append(F[k - 1], s[k]) ELSE F[k - 1]
    BY <1>4
<1> DEFINE Facts(k) == /\ F[k] \in Seq(W)
                       /\ Len(F[k]) <= k
                       /\ \A j \in I \cap (1 .. k) : \E m \in DOMAIN F[k] : F[k][m] = s[j]
           T == {k \in Nat : k <= n => Facts(k)}
<1>6. 0 \in T
  <2>1. F[0] = <<>> /\ 1 .. 0 = {}
      BY <1>2, <1>5
  <2>2. <<>> \in Seq(W) /\ Len(<<>>) <= 0
      OBVIOUS
  <2> QED  BY <2>1, <2>2
<1>7. ASSUME NEW k \in T PROVE k + 1 \in T
  <2> SUFFICES ASSUME k + 1 <= n PROVE Facts(k + 1)
      OBVIOUS
  <2>1. k \in Nat /\ k <= n /\ k + 1 \in 0 .. n /\ (k + 1) - 1 = k /\ k + 1 # 0
        /\ k + 1 \in 1 .. n /\ k + 1 \in DOMAIN s
      BY <1>2
  <2>2. Facts(k)
      BY <2>1
  <2>3. \A j \in 1 .. k + 1 : j = k + 1 \/ j \in 1 .. k
      BY <2>1
  <2>4. CASE k + 1 \in I
    <3>1. F[k + 1] = Append(F[k], s[k + 1])
        BY <1>5, <2>1, <2>4
    <3>2. s[k + 1] \in W
        BY <2>1, <2>4
    <3> HIDE DEF W
    <3>3. /\ F[k + 1] \in Seq(W) /\ Len(F[k + 1]) = Len(F[k]) + 1 /\ Len(F[k]) \in Nat
          /\ F[k + 1][Len(F[k]) + 1] = s[k + 1]
          /\ \A m \in DOMAIN F[k] : m \in DOMAIN F[k + 1] /\ F[k + 1][m] = F[k][m]
          /\ Len(F[k]) + 1 \in DOMAIN F[k + 1]
        BY <2>2, <3>1, <3>2
    <3>4. \A j \in I \cap (1 .. k + 1) : \E m \in DOMAIN F[k + 1] : F[k + 1][m] = s[j]
        BY <2>2, <2>3, <3>3
    <3>5. Len(F[k + 1]) <= k + 1
        BY <2>1, <2>2, <3>3
    <3> QED  BY <3>3, <3>4, <3>5
  <2>5. CASE k + 1 \notin I
    <3>1. F[k + 1] = F[k]
        BY <1>5, <2>1, <2>5
    <3>2. Len(F[k]) \in Nat /\ Len(F[k]) <= k + 1
      <4> HIDE DEF W
      <4> QED  BY <2>1, <2>2
    <3>3. I \cap (1 .. k + 1) = I \cap (1 .. k)
        BY <2>1, <2>3, <2>5
    <3> QED  BY <2>2, <3>1, <3>2, <3>3
  <2> QED  BY <2>4, <2>5
<1>8. n \in T
  <2> HIDE DEF T
  <2>1. T \in SUBSET Nat
      BY DEF T
  <2> QED  BY <1>2, <1>6, <1>7, <2>1, Induction
<1>9. Facts(n)
    BY <1>2, <1>8
<1>10. ElementsOf(F[n]) = W
  <2>1. ElementsOf(F[n]) \subseteq W
    <3> HIDE DEF W
    <3> QED  BY <1>9 DEF ElementsOf
  <2>2. \A j \in I \cap DOMAIN s : s[j] \in ElementsOf(F[n])
      BY <1>2, <1>9 DEF ElementsOf
  <2> QED  BY <2>1, <2>2
<1> QED  BY <1>1, <1>9, <1>10

\* The lists of a list put one after the other are a list of their elements.
LEMMA JoinedList ==
    ASSUME NEW S, NEW n \in Nat, NEW ss, Len(ss) = n, \A k \in 1 .. n : ss[k] \in Seq(S)
    PROVE  /\ Joined(ss) \in Seq(S)
           /\ ElementsOf(Joined(ss)) = UNION {ElementsOf(ss[k]) : k \in 1 .. n}
<1> DEFINE Is(f) == f = [k \in 0 .. n |-> IF k = 0 THEN <<>> ELSE f[k - 1] \o ss[k]]
           F == CHOOSE f : Is(f)
<1>1. Joined(ss) = F[n]
    BY DEF Joined
<1>3. \E f : Is(f)
  <2> DEFINE V == Seq(S)
             step == [x \in V \X (1 .. n) |-> x[1] \o ss[x[2]]]
  <2>1. <<>> \in V
      OBVIOUS
  <2>2. ASSUME NEW x \in V \X (1 .. n) PROVE x[1] \o ss[x[2]] \in V
    <3>1. x[1] \in Seq(S) /\ x[2] \in 1 .. n
        OBVIOUS
    <3>2. ss[x[2]] \in Seq(S)
        BY <3>1
    <3> QED  BY <3>1, <3>2
  <2>3. step \in [V \X (1 .. n) -> V]
      BY <2>2
  <2>4. \A v \in V, k \in 1 .. n : step[<<v, k>>] = v \o ss[k]
      OBVIOUS
  <2> HIDE DEF V, step
  <2>5. PICK f \in [0 .. n -> V] :
            f[0] = <<>> /\ \A k \in 1 .. n : f[k] = step[<<f[k - 1], k>>]
    <3>1. Defines(step, <<>>, n, V)
        BY <2>1, <2>3, Recursion, Zenon
    <3> QED  BY <3>1 DEF Defines
  <2>6. \A k \in 0 .. n : k # 0 => k - 1 \in 0 .. n /\ k \in 1 .. n
      OBVIOUS
  <2>7. \A k \in 0 .. n : f[k] = IF k = 0 THEN <<>> ELSE f[k - 1] \o ss[k]
      BY <2>4, <2>5, <2>6
  <2>8. Is(f)
      BY <2>5, <2>7
  <2> QED  BY <2>8
<1>4. Is(F)
    BY <1>3
<1> HIDE DEF F
<1>5. \A k \in 0 .. n : F[k] = IF k = 0 THEN <<>> ELSE F[k - 1] \o ss[k]
    BY <1>4
<1> DEFINE Union(k) == UNION {ElementsOf(ss[j]) : j \in 1 .. k}
           Facts(k) == F[k] \in Seq(S) /\ ElementsOf(F[k]) = Union(k)
           T == {k \in Nat : k <= n => Facts(k)}
<1>6. 0 \in T
  <2>1. F[0] = <<>> /\ 1 .. 0 = {}
      BY <1>5
  <2>2. <<>> \in Seq(S) /\ ElementsOf(<<>>) = {}
      BY DEF ElementsOf
  <2>3. UNION {ElementsOf(ss[j]) : j \in {}} = {}
      OBVIOUS
  <2> QED  BY <2>1, <2>2, <2>3
<1>7. ASSUME NEW k \in T PROVE k + 1 \in T
  <2> SUFFICES ASSUME k + 1 <= n PROVE Facts(k + 1)
      OBVIOUS
  <2>1. k \in Nat /\ k <= n /\ k + 1 \in 0 .. n /\ (k + 1) - 1 = k /\ k + 1 # 0
        /\ k + 1 \in 1 .. n
      OBVIOUS
  <2>2. Facts(k)
      BY <2>1
  <2>3. F[k + 1] = F[k] \o ss[k + 1]
      BY <1>5, <2>1
  <2>4. ss[k + 1] \in Seq(S)
      BY <2>1
  <2>5. F[k + 1] \in Seq(S)
      BY <2>2, <2>3, <2>4
  <2>6. ElementsOf(F[k + 1]) = ElementsOf(F[k]) \cup ElementsOf(ss[k + 1])
    <3>1. ElementsOf(F[k + 1]) = Range(F[k + 1]) /\ ElementsOf(F[k]) = Range(F[k])
          /\ ElementsOf(ss[k + 1]) = Range(ss[k + 1])
        BY DEF ElementsOf, Range
    <3> QED  BY <2>2, <2>3, <2>4, <3>1, RangeConcatenation
  <2>7. 1 .. k + 1 = (1 .. k) \cup {k + 1}
      BY <2>1
  <2>8. Union(k + 1) = Union(k) \cup ElementsOf(ss[k + 1])
    <3> DEFINE A == 1 .. k
    <3>1. 1 .. k + 1 = A \cup {k + 1}
        BY <2>7
    <3> HIDE DEF A
    <3>2. ASSUME NEW z
          PROVE  {ElementsOf(ss[j]) : j \in A \cup {z}}
                   = {ElementsOf(ss[j]) : j \in A} \cup {ElementsOf(ss[z])}
        BY Zenon
    <3>3. ASSUME NEW X, NEW x PROVE UNION (X \cup {x}) = (UNION X) \cup x
      <4>1. \A y \in UNION (X \cup {x}) : y \in (UNION X) \cup x
          OBVIOUS
      <4>2. \A y \in (UNION X) \cup x : y \in UNION (X \cup {x})
          OBVIOUS
      <4> QED  BY <4>1, <4>2
    <3>4. UNION {ElementsOf(ss[j]) : j \in A \cup {k + 1}}
            = (UNION {ElementsOf(ss[j]) : j \in A}) \cup ElementsOf(ss[k + 1])
        BY <3>2, <3>3
    <3> QED  BY <3>1, <3>4 DEF A
  <2> HIDE DEF Union
  <2> QED  BY <2>2, <2>5, <2>6, <2>8
<1>8. n \in T
  <2> HIDE DEF T
  <2>1. T \in SUBSET Nat
      BY DEF T
  <2> QED  BY <1>6, <1>7, <2>1, Induction
<1> QED  BY <1>1, <1>8

\* The first elements of a list.
LEMMA FirstList ==
    ASSUME NEW S, NEW s \in Seq(S), NEW n \in Int
    PROVE  /\ First(s, n) \in Seq(S)
           /\ ElementsOf(First(s, n)) \subseteq ElementsOf(s)
           /\ Len(First(s, n)) <= Len(s)
           /\ n >= 0 => Len(First(s, n)) <= n
<1> DEFINE m == AtMost(Len(s), n)
<1>1. m \in Int /\ m <= Len(s) /\ m <= n /\ Len(s) \in Nat
    BY DEF AtMost
<1>2. First(s, n) = SubSeq(s, 1, m)
    BY DEF First
<1> HIDE DEF m
<1>3. CASE m < 1
  <2>1. SubSeq(s, 1, m) = <<>>
      BY <1>1, <1>3
  <2> QED  BY <1>1, <1>2, <2>1 DEF ElementsOf
<1>4. CASE m >= 1
  <2>1. m \in 1 .. Len(s)
      BY <1>1, <1>4
  <2>2. /\ SubSeq(s, 1, m) \in Seq(S) /\ Len(SubSeq(s, 1, m)) = m
        /\ \A k \in 1 .. m : SubSeq(s, 1, m)[k] = s[k] /\ k \in DOMAIN s
      BY <1>1, <2>1
  <2>3. DOMAIN SubSeq(s, 1, m) = 1 .. m
      BY <2>2
  <2> QED  BY <1>1, <1>2, <2>1, <2>2, <2>3 DEF ElementsOf
<1> QED  BY <1>1, <1>3, <1>4

----------------------------------------------------------------------------
(* The plan and what is searched for it.                                   *)

PlanFields == {"original", "version", "issues", "requests"}

PlanOK(p) ==
    /\ DOMAIN p = PlanFields
    /\ Len(p.issues) \in Nat \ {0} /\ DOMAIN p.issues = 1 .. Len(p.issues)
    /\ \A i \in DOMAIN p.issues : /\ DOMAIN p.issues[i].roles = 1 .. Len(p.issues[i].roles)
                                  /\ Len(p.issues[i].roles) \in Nat \ {0}
                                  /\ IsList(p.issues[i].facets)
    /\ IsList(p.requests)

\* A list is one of its own elements; the elements of a list of members are members.
LEMMA Lists ==
    ASSUME NEW S, NEW s \in Seq(S)
    PROVE  /\ IsList(s) /\ DOMAIN s = 1 .. Len(s) /\ Len(s) \in Nat
           /\ ElementsOf(s) \subseteq S
<1>1. s = [k \in 1 .. Len(s) |-> s[k]] /\ Len(s) \in Nat /\ DOMAIN s = 1 .. Len(s)
    OBVIOUS
<1>2. \A k \in 1 .. Len(s) : s[k] \in ElementsOf(s)
    BY <1>1 DEF ElementsOf
<1>3. s \in Seq(ElementsOf(s))
    BY <1>1, <1>2, IsASeq
<1> QED  BY <1>1, <1>3 DEF IsList, ElementsOf

\* A function on the first numbers is a list.
LEMMA ListOfFunction ==
    ASSUME NEW n \in Nat, NEW f, f = [k \in 1 .. n |-> f[k]]
    PROVE  /\ IsList(f) /\ Len(f) = n /\ DOMAIN f = 1 .. n
           /\ \A S : (\A k \in 1 .. n : f[k] \in S) => f \in Seq(S)
<1>1. ASSUME NEW S, \A k \in 1 .. n : f[k] \in S
      PROVE  f \in Seq(S) /\ Len(f) = n
  <2>1. f \in [1 .. n -> S]
      BY <1>1
  <2>2. f \in Seq(S)
      BY <2>1, SeqDef
  <2> QED  BY <2>1, <2>2
<1>2. DOMAIN f = 1 .. n
    OBVIOUS
<1>3. \A k \in 1 .. n : f[k] \in ElementsOf(f)
    BY <1>2 DEF ElementsOf
<1>4. f \in Seq(ElementsOf(f)) /\ Len(f) = n
    BY <1>1, <1>3
<1> QED  BY <1>1, <1>2, <1>4 DEF IsList

\* Two lists put together are a list.
LEMMA ListConcat ==
    ASSUME NEW s, NEW t, IsList(s), IsList(t)
    PROVE  IsList(s \o t)
<1> DEFINE S == ElementsOf(s) \cup ElementsOf(t)
<1>1. s \in Seq(S) /\ t \in Seq(S)
    BY SeqMonotonic DEF IsList
<1> HIDE DEF S
<1>2. s \o t \in Seq(S)
    BY <1>1
<1> QED  BY <1>2, Lists

\* The positions of a list that satisfy a condition, as a list.
LEMMA PositionsOf ==
    ASSUME NEW s, IsList(s), NEW I
    PROVE  IsList(AtPositions([k \in DOMAIN s |-> k], I))
<1> DEFINE t == [k \in DOMAIN s |-> k]
<1>1. t \in Seq(Nat)
  <2>1. Len(s) \in Nat /\ DOMAIN s = 1 .. Len(s)
      BY Lists DEF IsList
  <2>2. t = [k \in 1 .. Len(s) |-> t[k]] /\ \A k \in 1 .. Len(s) : t[k] \in Nat
      BY <2>1
  <2> HIDE DEF t
  <2> QED  BY <2>1, <2>2, ListOfFunction
<1> HIDE DEF t
<1>2. AtPositions(t, I) \in Seq({t[k] : k \in I \cap DOMAIN t})
    BY <1>1, PositionsList
<1>3. IsList(AtPositions(t, I))
    BY <1>2, Lists, Zenon
<1> QED  BY <1>3 DEF t

\* The searches generated for the facets of an issue are a list of requests.
LEMMA FacetRequestsList ==
    ASSUME NEW p, PlanOK(p), NEW i \in DOMAIN p.issues
    PROVE  IsList(FacetRequests(p, i))
<1> DEFINE facets == p.issues[i].facets
           t == [k \in DOMAIN facets |-> k]
<1>1. IsList(facets)
    BY DEF PlanOK
<1>2. PICK I : FacetRequests(p, i) =
        [n \in DOMAIN AtPositions(t, I) |->
            [id |-> <<"FACET", i, facets[AtPositions(t, I)[n]]>>, issues |-> {i},
             text |-> SearchText[facets[AtPositions(t, I)[n]]], kind |-> "concept_relation",
             role |-> "rule"]]
    BY DEF FacetRequests
<1>3. IsList(AtPositions(t, I))
    BY <1>1, PositionsOf
<1> HIDE DEF t
<1> DEFINE added == AtPositions(t, I)
<1>4. DOMAIN added = 1 .. Len(added) /\ Len(added) \in Nat
    BY <1>3, Lists DEF IsList
<1> HIDE DEF added
<1> DEFINE f == [n \in 1 .. Len(added) |->
            [id |-> <<"FACET", i, facets[added[n]]>>, issues |-> {i},
             text |-> SearchText[facets[added[n]]], kind |-> "concept_relation",
             role |-> "rule"]]
<1>5. f = [n \in 1 .. Len(added) |-> f[n]]
    OBVIOUS
<1>6. FacetRequests(p, i) = f
    BY <1>2, <1>4 DEF added
<1> HIDE DEF f
<1>7. IsList(f)
    BY <1>4, <1>5, ListOfFunction
<1> QED  BY <1>6, <1>7

\* The requests the user adds are a list of requests of the plan.
LEMMA UserRequestsList ==
    ASSUME NEW p, NEW texts, IsList(texts)
    PROVE  IsList(UserRequests(p, texts))
<1> DEFINE t == [n \in DOMAIN texts |-> n]
<1>2. PICK I : UserRequests(p, texts) =
        [k \in DOMAIN AtPositions(t, I) |->
            Expansion(p, AtPositions(t, I)[k], texts[AtPositions(t, I)[k]])]
    BY DEF UserRequests
<1>3. IsList(AtPositions(t, I))
    BY PositionsOf
<1> HIDE DEF t
<1> DEFINE added == AtPositions(t, I)
<1>4. DOMAIN added = 1 .. Len(added) /\ Len(added) \in Nat
    BY <1>3, Lists DEF IsList
<1> HIDE DEF added
<1> DEFINE f == [k \in 1 .. Len(added) |-> Expansion(p, added[k], texts[added[k]])]
<1>5. f = [n \in 1 .. Len(added) |-> f[n]]
    OBVIOUS
<1>6. UserRequests(p, texts) = f
    BY <1>2, <1>4 DEF added
<1> HIDE DEF f
<1>7. IsList(f)
    BY <1>4, <1>5, ListOfFunction
<1> QED  BY <1>6, <1>7

\* A plan stays one when requests are added to it, and keeps its issues.
LEMMA EffectivePlanOK ==
    ASSUME PlanOK(plan), NEW texts, IsList(texts)
    PROVE  PlanOK(EffectivePlan(texts)) /\ EffectivePlan(texts).issues = plan.issues
<1> DEFINE p == PlanWithUserExpansions(plan, texts)
<1>1. /\ DOMAIN p = PlanFields /\ p.issues = plan.issues
      /\ p.requests = UserRequests(plan, texts) \o plan.requests
    BY DEF PlanWithUserExpansions, PlanOK, PlanFields
<1>2. IsList(p.requests)
    BY <1>1, UserRequestsList, ListConcat DEF PlanOK
<1>3. PlanOK(p)
    BY <1>1, <1>2 DEF PlanOK
<1>4. EffectivePlan(texts) = AugmentPlan(p)
    BY DEF EffectivePlan
<1> HIDE DEF p
<1>5. /\ DOMAIN AugmentPlan(p) = PlanFields /\ AugmentPlan(p).issues = plan.issues
      /\ AugmentPlan(p).requests = p.requests \o AllFacetRequests(p)
    BY <1>1 DEF AugmentPlan, PlanFields
<1>6. IsList(AllFacetRequests(p))
  <2> DEFINE n == Len(p.issues)
             ss == [i \in DOMAIN p.issues |-> FacetRequests(p, i)]
             S == UNION {ElementsOf(ss[i]) : i \in 1 .. n}
  <2>1. n \in Nat /\ DOMAIN p.issues = 1 .. n
      BY <1>3 DEF PlanOK
  <2>2. Len(ss) = n
    <3>1. ss = [i \in 1 .. n |-> ss[i]]
        BY <2>1
    <3> HIDE DEF ss, n
    <3> QED  BY <3>1, <2>1, ListOfFunction
  <2>3. \A i \in 1 .. n : ss[i] \in Seq(S)
    <3> SUFFICES ASSUME NEW i \in 1 .. n PROVE ss[i] \in Seq(S)
        OBVIOUS
    <3>1. ss[i] = FacetRequests(p, i) /\ IsList(ss[i])
        BY <1>3, <2>1, FacetRequestsList
    <3>2. ElementsOf(ss[i]) \subseteq S
        OBVIOUS
    <3> HIDE DEF ss, S
    <3> QED  BY <3>1, <3>2, SeqMonotonic DEF IsList
  <2>4. AllFacetRequests(p) = Joined(ss)
      BY DEF AllFacetRequests
  <2> HIDE DEF ss, S, n
  <2>5. Joined(ss) \in Seq(S)
      BY <2>1, <2>2, <2>3, JoinedList
  <2> QED  BY <2>4, <2>5, Lists
<1>7. IsList(AugmentPlan(p).requests)
    BY <1>2, <1>5, <1>6, ListConcat
<1> QED  BY <1>4, <1>5, <1>7 DEF PlanOK

\* The elements of a list that satisfy a condition on positions.
LEMMA PositionsElements ==
    ASSUME NEW s, IsList(s), NEW I \in SUBSET DOMAIN s
    PROVE  /\ IsList(AtPositions(s, I)) /\ Len(AtPositions(s, I)) <= Len(s)
           /\ ElementsOf(AtPositions(s, I)) = {s[k] : k \in I}
<1>1. s \in Seq(ElementsOf(s)) /\ I \cap DOMAIN s = I
    BY DEF IsList
<1>2. /\ AtPositions(s, I) \in Seq({s[k] : k \in I}) /\ Len(AtPositions(s, I)) <= Len(s)
      /\ ElementsOf(AtPositions(s, I)) = {s[k] : k \in I}
    BY <1>1, PositionsList
<1>3. IsList(AtPositions(s, I))
    BY <1>2, Lists, Zenon
<1> QED  BY <1>2, <1>3

\* The empty list and the lists of one element.
LEMMA SingleElements ==
    /\ \A S : <<>> \in Seq(S)
    /\ ElementsOf(<<>>) = {}
    /\ \A S : \A x \in S : <<x>> \in Seq(S)
    /\ \A x : ElementsOf(<<x>>) = {x}
<1>1. \A x : DOMAIN <<x>> = {1} /\ <<x>>[1] = x
    OBVIOUS
<1>2. DOMAIN <<>> = {}
    OBVIOUS
<1> QED  BY <1>1, <1>2 DEF ElementsOf

\* The requests of an issue and a role, in the order of the plan.
LEMMA RequestsOfElements ==
    ASSUME NEW p, PlanOK(p), NEW i, NEW role
    PROVE  /\ IsList(RequestsOf(p, i, role)) /\ Len(RequestsOf(p, i, role)) <= Len(p.requests)
           /\ ElementsOf(RequestsOf(p, i, role)) =
                {x \in ElementsOf(p.requests) : i \in x.issues /\ x.role = role}
<1> DEFINE s == p.requests
           I == {k \in DOMAIN s : i \in s[k].issues /\ s[k].role = role}
<1>1. IsList(s) /\ I \in SUBSET DOMAIN s
    BY DEF PlanOK
<1>2. RequestsOf(p, i, role) = AtPositions(s, I)
    BY DEF RequestsOf
<1>3. {s[k] : k \in I} = {x \in ElementsOf(s) : i \in x.issues /\ x.role = role}
    BY DEF ElementsOf
<1> HIDE DEF s, I
<1>4. /\ IsList(AtPositions(s, I)) /\ Len(AtPositions(s, I)) <= Len(s)
      /\ ElementsOf(AtPositions(s, I)) = {s[k] : k \in I}
    BY <1>1, PositionsElements
<1> QED  BY <1>2, <1>3, <1>4 DEF s

\* What may be searched for an issue: every request of one of its roles.
LEMMA OrderElements ==
    ASSUME NEW p, PlanOK(p), NEW i \in DOMAIN p.issues
    PROVE  /\ IsList(RequestOrder(p, i))
           /\ ElementsOf(RequestOrder(p, i)) =
                {x \in ElementsOf(p.requests) :
                    i \in x.issues /\ x.role \in ElementsOf(p.issues[i].roles)}
<1> DEFINE roles == p.issues[i].roles
           R(k) == RequestsOf(p, i, roles[k])
           n == Len(p.requests)
           m == Len(roles)
           depth(d) == [k \in DOMAIN roles |-> IF d <= Len(R(k)) THEN <<R(k)[d]>> ELSE <<>>]
           ss == [d \in 1 .. n |-> Joined(depth(d))]
           S == {x \in ElementsOf(p.requests) : i \in x.issues /\ x.role \in ElementsOf(roles)}
<1>1. RequestOrder(p, i) = Joined(ss)
    BY DEF RequestOrder
<1>2. /\ n \in Nat /\ DOMAIN p.requests = 1 .. n
      /\ DOMAIN roles = 1 .. m /\ m \in Nat
    BY Lists DEF PlanOK, IsList
<1>3. ASSUME NEW k \in 1 .. m
      PROVE  /\ DOMAIN R(k) = 1 .. Len(R(k)) /\ Len(R(k)) \in 0 .. n
             /\ ElementsOf(R(k)) =
                  {x \in ElementsOf(p.requests) : i \in x.issues /\ x.role = roles[k]}
             /\ ElementsOf(R(k)) \subseteq S
  <2>1. /\ IsList(R(k)) /\ Len(R(k)) <= n
        /\ ElementsOf(R(k)) =
                  {x \in ElementsOf(p.requests) : i \in x.issues /\ x.role = roles[k]}
      BY RequestsOfElements
  <2>2. roles[k] \in ElementsOf(roles)
      BY <1>2 DEF ElementsOf
  <2>3. DOMAIN R(k) = 1 .. Len(R(k)) /\ Len(R(k)) \in Nat
      BY <2>1, Lists DEF IsList
  <2>4. Len(R(k)) \in 0 .. n
    <3> HIDE DEF R, n
    <3> QED  BY <2>1, <2>3, <1>2
  <2> QED  BY <2>1, <2>2, <2>3, <2>4
<1> HIDE DEF R, n, S
<1>4. ASSUME NEW d \in 1 .. n
      PROVE  /\ ss[d] \in Seq(S)
             /\ ElementsOf(ss[d]) = {R(k)[d] : k \in {j \in 1 .. m : d <= Len(R(j))}}
  <2>1. depth(d) = [k \in 1 .. m |-> depth(d)[k]]
      BY <1>2
  <2>2. \A k \in 1 .. m : depth(d)[k] = IF d <= Len(R(k)) THEN <<R(k)[d]>> ELSE <<>>
      BY <1>2
  <2>3. ss[d] = Joined(depth(d))
      OBVIOUS
  <2> HIDE DEF depth, ss
  <2>4. Len(depth(d)) = m
      BY <1>2, <2>1, ListOfFunction
  <2>5. ASSUME NEW k \in 1 .. m
        PROVE  /\ depth(d)[k] \in Seq(S)
               /\ ElementsOf(depth(d)[k]) = IF d <= Len(R(k)) THEN {R(k)[d]} ELSE {}
    <3>1. CASE d <= Len(R(k))
      <4>1. R(k)[d] \in ElementsOf(R(k))
          BY <1>2, <1>3, <3>1 DEF ElementsOf
      <4>2. R(k)[d] \in S
          BY <1>3, <4>1
      <4>3. depth(d)[k] = <<R(k)[d]>>
          BY <2>2, <3>1
      <4> QED  BY <3>1, <4>2, <4>3, SingleElements
    <3>2. CASE ~(d <= Len(R(k)))
      <4>1. depth(d)[k] = <<>>
          BY <2>2, <3>2
      <4> QED  BY <3>2, <4>1, SingleElements
    <3> QED  BY <3>1, <3>2
  <2>6. /\ Joined(depth(d)) \in Seq(S)
        /\ ElementsOf(Joined(depth(d))) = UNION {ElementsOf(depth(d)[k]) : k \in 1 .. m}
    <3> HIDE DEF m
    <3> QED  BY <1>2, <2>4, <2>5, JoinedList
  <2>7. UNION {ElementsOf(depth(d)[k]) : k \in 1 .. m}
          = {R(k)[d] : k \in {j \in 1 .. m : d <= Len(R(j))}}
      BY <2>5
  <2> QED  BY <2>3, <2>6, <2>7
<1>5. Len(ss) = n
  <2>1. ss = [d \in 1 .. n |-> ss[d]]
      OBVIOUS
  <2> HIDE DEF ss
  <2> QED  BY <1>2, <2>1, ListOfFunction
<1> HIDE DEF ss
<1>6. Joined(ss) \in Seq(S) /\ ElementsOf(Joined(ss)) = UNION {ElementsOf(ss[d]) : d \in 1 .. n}
    BY <1>2, <1>4, <1>5, JoinedList
<1>7. ElementsOf(Joined(ss)) \subseteq S
    BY <1>6, Lists
<1>8. ASSUME NEW x \in S PROVE x \in ElementsOf(Joined(ss))
  <2>1. PICK k \in 1 .. m : x.role = roles[k]
      BY <1>2 DEF S, ElementsOf
  <2>2. x \in ElementsOf(R(k))
      BY <1>3, <2>1 DEF S
  <2>3. PICK d \in 1 .. Len(R(k)) : x = R(k)[d]
      BY <1>3, <2>2 DEF ElementsOf
  <2>4. d \in 1 .. n /\ d <= Len(R(k))
      BY <1>2, <1>3, <2>3
  <2>5. x \in ElementsOf(ss[d])
      BY <1>4, <2>3, <2>4
  <2> QED  BY <1>6, <2>4, <2>5
<1>9. IsList(Joined(ss))
    BY <1>6, Lists
<1> QED  BY <1>1, <1>7, <1>8, <1>9 DEF S

\* What is searched for an issue and a role, of what may be searched.
LEMMA SearchedElements ==
    ASSUME NEW p, PlanOK(p), NEW i \in DOMAIN p.issues
    PROVE  /\ IsList(RequestsForIssue(p, i))
           /\ ElementsOf(RequestsForIssue(p, i)) \subseteq ElementsOf(RequestOrder(p, i))
           /\ \A role : /\ IsList(SearchedFor(p, i, role))
                        /\ ElementsOf(SearchedFor(p, i, role)) =
                             {x \in ElementsOf(RequestsForIssue(p, i)) : x.role = role}
<1> DEFINE all == RequestsForIssue(p, i)
<1>1. RequestOrder(p, i) \in Seq(ElementsOf(RequestOrder(p, i))) /\ MaxQueries \in Int
    BY OrderElements, PolicyAssumption DEF IsList
<1>2. /\ all \in Seq(ElementsOf(RequestOrder(p, i)))
      /\ ElementsOf(all) \subseteq ElementsOf(RequestOrder(p, i))
    BY <1>1, FirstList DEF RequestsForIssue
<1>3. IsList(all)
    BY <1>2, Lists
<1>4. ASSUME NEW role
      PROVE  /\ IsList(SearchedFor(p, i, role))
             /\ ElementsOf(SearchedFor(p, i, role)) = {x \in ElementsOf(all) : x.role = role}
  <2> DEFINE I == {k \in DOMAIN all : all[k].role = role}
  <2>1. SearchedFor(p, i, role) = AtPositions(all, I)
      BY DEF SearchedFor
  <2>2. {all[k] : k \in I} = {x \in ElementsOf(all) : x.role = role}
      BY DEF ElementsOf
  <2>3. I \in SUBSET DOMAIN all
      OBVIOUS
  <2> HIDE DEF I, all
  <2>4. IsList(AtPositions(all, I)) /\ ElementsOf(AtPositions(all, I)) = {all[k] : k \in I}
      BY <1>3, <2>3, PositionsElements
  <2> QED  BY <2>1, <2>2, <2>4
<1> QED  BY <1>2, <1>3, <1>4

KeyOK(p, b) ==
    /\ b.issue \in DOMAIN p.issues /\ b.role \in ElementsOf(p.issues[b.issue].roles)
    /\ IsList(b.requests)
    /\ \A x \in ElementsOf(b.requests) :
          x \in ElementsOf(p.requests) /\ b.issue \in x.issues /\ x.role = b.role

\* The requests of a bucket are requests of its issue and role, and a request
\* searched for an issue is in one of its buckets.
LEMMA KeysElements ==
    ASSUME NEW p, PlanOK(p)
    PROVE  /\ IsList(BucketKeys(p))
           /\ \A b \in ElementsOf(BucketKeys(p)) : KeyOK(p, b)
           /\ \A i \in DOMAIN p.issues : \A x \in ElementsOf(RequestsForIssue(p, i)) :
                 \E b \in ElementsOf(BucketKeys(p)) :
                    b.issue = i /\ x \in ElementsOf(b.requests)
<1> DEFINE n == Len(p.issues)
           roles(i) == p.issues[i].roles
           key(i, k) == [issue |-> i, role |-> roles(i)[k],
                         requests |-> SearchedFor(p, i, roles(i)[k])]
           ss == [i \in DOMAIN p.issues |-> [k \in DOMAIN roles(i) |-> key(i, k)]]
           S == {key(i, k) : i \in DOMAIN p.issues, k \in Nat}
           T == {b \in S : KeyOK(p, b)}
<1>1. BucketKeys(p) = Joined(ss)
    BY DEF BucketKeys
<1>2. n \in Nat /\ DOMAIN p.issues = 1 .. n
    BY DEF PlanOK
<1>3. Len(ss) = n
  <2>1. ss = [i \in 1 .. n |-> ss[i]]
      BY <1>2
  <2> HIDE DEF ss, n
  <2> QED  BY <1>2, <2>1, ListOfFunction
<1>4. ASSUME NEW i \in 1 .. n
      PROVE  /\ DOMAIN ss[i] = 1 .. Len(roles(i)) /\ Len(roles(i)) \in Nat
             /\ \A k \in 1 .. Len(roles(i)) : ss[i][k] = key(i, k) /\ key(i, k) \in T
             /\ ss[i] \in Seq(T)
  <2>1. i \in DOMAIN p.issues /\ DOMAIN roles(i) = 1 .. Len(roles(i)) /\ Len(roles(i)) \in Nat
      BY <1>2 DEF PlanOK
  <2>2. ss[i] = [k \in 1 .. Len(roles(i)) |-> key(i, k)]
      BY <1>2, <2>1
  <2>3. ASSUME NEW k \in 1 .. Len(roles(i)) PROVE key(i, k) \in T
    <3>1. k \in Nat
        BY <2>1
    <3>2. key(i, k) \in S
        BY <2>1, <3>1
    <3>3. roles(i)[k] \in ElementsOf(roles(i))
        BY <2>1 DEF ElementsOf
    <3>4. /\ IsList(SearchedFor(p, i, roles(i)[k]))
          /\ ElementsOf(SearchedFor(p, i, roles(i)[k])) =
               {x \in ElementsOf(RequestsForIssue(p, i)) : x.role = roles(i)[k]}
        BY <2>1, SearchedElements
    <3>5. \A x \in ElementsOf(SearchedFor(p, i, roles(i)[k])) :
              x \in ElementsOf(p.requests) /\ i \in x.issues /\ x.role = roles(i)[k]
        BY <2>1, <3>4, SearchedElements, OrderElements
    <3>6. KeyOK(p, key(i, k))
        BY <2>1, <3>3, <3>4, <3>5 DEF KeyOK
    <3> QED  BY <3>2, <3>6
  <2>4. ss[i] = [k \in 1 .. Len(roles(i)) |-> ss[i][k]]
      BY <2>2
  <2>5. \A k \in 1 .. Len(roles(i)) : ss[i][k] = key(i, k)
      BY <2>2
  <2> HIDE DEF ss, key, T, roles
  <2>6. ss[i] \in Seq(T) /\ DOMAIN ss[i] = 1 .. Len(roles(i))
      BY <2>1, <2>3, <2>4, <2>5, ListOfFunction
  <2> QED  BY <2>1, <2>3, <2>5, <2>6
<1> HIDE DEF ss, T
<1>5. /\ Joined(ss) \in Seq(T)
      /\ ElementsOf(Joined(ss)) = UNION {ElementsOf(ss[i]) : i \in 1 .. n}
  <2> HIDE DEF n
  <2> QED  BY <1>2, <1>3, <1>4, JoinedList
<1>6. IsList(Joined(ss)) /\ ElementsOf(Joined(ss)) \subseteq T
    BY <1>5, Lists
<1>7. ASSUME NEW i \in DOMAIN p.issues, NEW x \in ElementsOf(RequestsForIssue(p, i))
      PROVE  \E b \in ElementsOf(Joined(ss)) : b.issue = i /\ x \in ElementsOf(b.requests)
  <2>1. x.role \in ElementsOf(roles(i))
      BY SearchedElements, OrderElements
  <2>2. PICK k \in 1 .. Len(roles(i)) : x.role = roles(i)[k]
      BY <2>1 DEF ElementsOf, PlanOK
  <2>3. x \in ElementsOf(SearchedFor(p, i, roles(i)[k]))
      BY <2>2, SearchedElements
  <2>4. ss[i][k] = key(i, k) /\ k \in DOMAIN ss[i]
      BY <1>2, <1>4, <2>2
  <2>5. key(i, k) \in ElementsOf(ss[i])
      BY <2>4 DEF ElementsOf
  <2>6. key(i, k) \in ElementsOf(Joined(ss))
      BY <1>2, <1>5, <2>5
  <2> QED  BY <2>3, <2>6
<1> QED  BY <1>1, <1>6, <1>7 DEF T

----------------------------------------------------------------------------
(* What links reach.                                                       *)

\* What links reach in one more step.
LEMMA ReachedSteps ==
    ASSUME NEW S
    PROVE  /\ RefDepth \in Nat
           /\ ReachedFrom(S)[0] = S
           /\ \A d \in 1 .. RefDepth :
                 ReachedFrom(S)[d] = ReachedFrom(S)[d - 1] \cup LinkedFrom(ReachedFrom(S)[d - 1])
<1> DEFINE V == SUBSET (S \cup Indexed)
           n == RefDepth
           Is(f) == f = [d \in 0 .. n |-> IF d = 0 THEN S ELSE f[d - 1] \cup LinkedFrom(f[d - 1])]
           F == CHOOSE f : Is(f)
           step == [x \in V \X (1 .. n) |-> x[1] \cup LinkedFrom(x[1])]
<1>1. ReachedFrom(S) = F
    BY DEF ReachedFrom
<1>2. n \in Nat
    BY PolicyAssumption
<1>3. S \in V /\ step \in [V \X (1 .. n) -> V]
  <2>1. \A x \in V \X (1 .. n) : x[1] \cup LinkedFrom(x[1]) \in V
      BY DEF LinkedFrom
  <2> HIDE DEF V
  <2>2. step \in [V \X (1 .. n) -> V]
      BY <2>1
  <2> QED  BY <2>2 DEF V
<1>4. \A v \in V, k \in 1 .. n : step[<<v, k>>] = v \cup LinkedFrom(v)
    OBVIOUS
<1> HIDE DEF V, step, n
<1>5. Defines(step, S, n, V)
    BY <1>2, <1>3, Recursion, Zenon
<1>6. PICK f \in [0 .. n -> V] : f[0] = S /\ \A k \in 1 .. n : f[k] = step[<<f[k - 1], k>>]
    BY <1>5 DEF Defines
<1>7. ASSUME NEW d \in 0 .. n
      PROVE  f[d] = IF d = 0 THEN S ELSE f[d - 1] \cup LinkedFrom(f[d - 1])
  <2>1. d # 0 => d \in 1 .. n /\ d - 1 \in 0 .. n
      BY <1>2
  <2> QED  BY <1>4, <1>6, <2>1
<1>8. Is(f)
    BY <1>6, <1>7
<1>9. Is(F)
    BY <1>8
<1> HIDE DEF F
<1>10. F[0] = S
    BY <1>2, <1>9
<1>11. \A d \in 1 .. n : F[d] = F[d - 1] \cup LinkedFrom(F[d - 1])
  <2>1. \A d \in 1 .. n : d \in 0 .. n /\ d # 0
      BY <1>2
  <2> QED  BY <1>9, <2>1
<1> QED  BY <1>1, <1>2, <1>10, <1>11 DEF n

\* More links reach more, from more elements more.
LEMMA ReachedGrows ==
    ASSUME NEW S, NEW T, S \subseteq T, NEW d \in 0 .. RefDepth
    PROVE  ReachedFrom(S)[d] \subseteq ReachedFrom(T)[RefDepth]
<1>1. RefDepth \in Nat /\ d \in Nat /\ d <= RefDepth
    BY ReachedSteps
<1> DEFINE A(k) == ReachedFrom(S)[k]
           B(k) == ReachedFrom(T)[k]
           U == {k \in Nat : k <= d => A(k) \subseteq B(k)}
           W == {k \in Nat : d + k <= RefDepth => A(d) \subseteq B(d + k)}
<1>2. /\ A(0) = S /\ B(0) = T
      /\ \A k \in 1 .. RefDepth : /\ A(k) = A(k - 1) \cup LinkedFrom(A(k - 1))
                                  /\ B(k) = B(k - 1) \cup LinkedFrom(B(k - 1))
    BY ReachedSteps
<1> HIDE DEF A, B
<1>3. \A X, Y : X \subseteq Y => LinkedFrom(X) \subseteq LinkedFrom(Y)
    BY DEF LinkedFrom
<1>4. 0 \in U
    BY <1>2
<1>5. ASSUME NEW k \in U PROVE k + 1 \in U
  <2> SUFFICES ASSUME k + 1 <= d PROVE A(k + 1) \subseteq B(k + 1)
      OBVIOUS
  <2>1. k \in Nat /\ k <= d /\ k + 1 \in 1 .. RefDepth /\ (k + 1) - 1 = k
      BY <1>1
  <2>2. A(k) \subseteq B(k)
      BY <2>1
  <2> QED  BY <1>2, <1>3, <2>1, <2>2
<1>6. d \in U
  <2> HIDE DEF U
  <2>1. U \in SUBSET Nat
      BY DEF U
  <2> QED  BY <1>1, <1>4, <1>5, <2>1, Induction
<1>7. A(d) \subseteq B(d)
    BY <1>1, <1>6
<1>8. 0 \in W
    BY <1>1, <1>7
<1>9. ASSUME NEW k \in W PROVE k + 1 \in W
  <2> SUFFICES ASSUME d + (k + 1) <= RefDepth PROVE A(d) \subseteq B(d + (k + 1))
      OBVIOUS
  <2>1. /\ k \in Nat /\ d + k <= RefDepth /\ d + (k + 1) \in 1 .. RefDepth
        /\ (d + (k + 1)) - 1 = d + k
      BY <1>1
  <2>2. A(d) \subseteq B(d + k)
      BY <2>1
  <2> QED  BY <1>2, <2>1, <2>2
<1>10. RefDepth - d \in W
  <2> HIDE DEF W
  <2>1. W \in SUBSET Nat /\ RefDepth - d \in Nat
      BY <1>1 DEF W
  <2> QED  BY <1>8, <1>9, <2>1, Induction
<1>11. A(d) \subseteq B(RefDepth)
    BY <1>1, <1>10
<1> QED  BY <1>11 DEF A, B

----------------------------------------------------------------------------
(* The search: what a match says is true of the text it was found in.      *)

Retrievable == Clauses \cup Indexed

\* A match names an issue of the plan and one of its roles, and the text it was
\* found in is relevant to a request of that issue and role.
MatchOK(m, x) ==
    /\ m.issue \in DOMAIN plan.issues /\ m.role \in RequiredRoles(m.issue)
    /\ RelevantFor(m.issue, m.role, x)

MatchesOK(M, x) == M # {} /\ \A m \in M : MatchOK(m, x)

\* The elements that may stand for a candidate, and the list it starts with.
SourcesOf(x) == IF x \in Elements THEN {x} ELSE CitableSources(x)
Unresolved(x) == IF x \in Elements THEN <<x>> ELSE <<>>

CandidateOK(c) ==
    /\ DOMAIN c = {"id", "matches", "evidence", "limited"}
    /\ c.id \in Retrievable /\ MatchesOK(c.matches, c.id)
    /\ IsList(c.evidence) /\ ElementsOf(c.evidence) \subseteq SourcesOf(c.id)

OfferedOK(c) == CandidateOK(c) /\ c.evidence = Unresolved(c.id)

OfferOK(s) == IsList(s) /\ Len(s) <= RoleLimit /\ \A k \in DOMAIN s : OfferedOK(s[k])

Positive == Nat \ {0}
Places == [b : Positive, r : Positive, q : Positive, s : Positive]

FoundOK == DOMAIN found \subseteq Retrievable /\ \A x \in DOMAIN found : MatchesOK(found[x], x)

SearchInv ==
    /\ PlanOK(plan)
    /\ IsList(keys) /\ \A b \in ElementsOf(keys) : KeyOK(plan, b)
    /\ pos \in Places
    /\ FoundOK
    /\ IsList(buckets) /\ \A k \in DOMAIN buckets : OfferOK(buckets[k])
    /\ phase = "plan" => found = NoFound /\ buckets = <<>> /\ candidates = <<>>

\* What can be retrieved is finite.
LEMMA RetrievableFinite ==
    /\ \A A : A \subseteq Retrievable => IsFiniteSet(A) /\ Cardinality(A) \in Nat
    /\ Indexed \subseteq Elements /\ RoleLimit \in Positive
<1>1. IsFiniteSet(Clauses) /\ IsFiniteSet(Elements) /\ Indexed \subseteq Elements
      /\ RoleLimit \in Positive
    BY PolicyAssumption DEF Positive
<1>2. IsFiniteSet(Indexed)
    BY <1>1, FS_Subset
<1>3. IsFiniteSet(Retrievable)
    BY <1>1, <1>2, FS_Union DEF Retrievable
<1> QED  BY <1>1, <1>3, FS_Subset, FS_CardinalityType

\* The request being searched belongs to the issue and the role of its bucket.
LEMMA RequestFacts ==
    ASSUME SearchInv, Searching
    PROVE  /\ Request \in ElementsOf(plan.requests)
           /\ Bucket.issue \in Request.issues /\ Request.role = Bucket.role
           /\ Bucket.issue \in DOMAIN plan.issues
           /\ Bucket.role \in RequiredRoles(Bucket.issue)
<1>1. pos.b \in 1 .. Len(keys) /\ pos.r \in 1 .. Len(Bucket.requests)
  <2>1. Len(keys) \in Nat /\ pos.b \in Positive /\ pos.r \in Positive
      BY Lists DEF SearchInv, IsList, Places
  <2>2. pos.b \in DOMAIN keys
      BY <2>1, Lists DEF SearchInv, IsList, Searching, Positive
  <2>3. KeyOK(plan, Bucket)
      BY <2>2 DEF SearchInv, Bucket, ElementsOf
  <2>4. Len(Bucket.requests) \in Nat
      BY <2>3, Lists DEF KeyOK, IsList
  <2> QED  BY <2>1, <2>4 DEF Searching, Positive
<1>2. KeyOK(plan, Bucket)
    BY <1>1, Lists DEF SearchInv, Bucket, ElementsOf, IsList
<1>3. Request \in ElementsOf(Bucket.requests)
    BY <1>1, <1>2, Lists DEF Request, ElementsOf, IsList, KeyOK
<1> QED  BY <1>2, <1>3 DEF KeyOK, RequiredRoles

\* What an accepted answer adds is a true match.
LEMMA AddKeeps ==
    ASSUME SearchInv, Searching, NEW A \in SUBSET Retrievable, NEW B \in SUBSET Accepted(A),
           found' = Add(B), plan' = plan
    PROVE  FoundOK'
<1>1. \A x \in B : x \in Retrievable
                   /\ Relevance(plan.issues[Bucket.issue].question, Request.text, x) = "ACCEPT"
    BY DEF Accepted, IssueQuestion
<1>2. /\ Match.issue = Bucket.issue /\ Match.role = Bucket.role
    BY DEF Match
<1>3. \A x \in B : MatchOK(Match, x)
    BY <1>1, <1>2, RequestFacts DEF MatchOK, RelevantFor
<1>4. /\ DOMAIN found' = DOMAIN found \cup B
      /\ \A x \in DOMAIN found' :
            found'[x] = (IF x \in DOMAIN found THEN found[x] ELSE {})
                          \cup (IF x \in B THEN {Match} ELSE {})
    BY DEF Add
<1>5. ASSUME NEW x \in DOMAIN found' PROVE MatchesOK(found'[x], x)
  <2>1. \A m \in found'[x] : MatchOK(m, x)
      BY <1>3, <1>4 DEF SearchInv, FoundOK, MatchesOK
  <2>2. found'[x] # {}
      BY <1>4 DEF SearchInv, FoundOK, MatchesOK
  <2> QED  BY <2>1, <2>2 DEF MatchesOK
<1>7. DOMAIN found' \subseteq Retrievable
    BY <1>1, <1>4 DEF SearchInv, FoundOK
<1> QED  BY <1>5, <1>7 DEF FoundOK, MatchesOK, MatchOK, RequiredRoles, RelevantFor

\* What is known of matches, candidates and buckets depends on the plan alone.
LEMMA SamePlan ==
    ASSUME plan' = plan
    PROVE  /\ \A M, x : MatchesOK(M, x)' <=> MatchesOK(M, x)
           /\ \A c : CandidateOK(c)' <=> CandidateOK(c)
           /\ \A c : OfferedOK(c)' <=> OfferedOK(c)
           /\ \A s : OfferOK(s)' <=> OfferOK(s)
           /\ \A b : KeyOK(plan, b)' <=> KeyOK(plan, b)
           /\ \A i : RequiredRoles(i)' = RequiredRoles(i)
           /\ \A i, role, x : RelevantFor(i, role, x)' <=> RelevantFor(i, role, x)
<1>1. \A M, x : MatchesOK(M, x)' <=> MatchesOK(M, x)
    BY DEF MatchesOK, MatchOK, RequiredRoles, RelevantFor
<1>2. \A c : CandidateOK(c)' <=> CandidateOK(c)
    BY <1>1 DEF CandidateOK
<1>3. \A c : OfferedOK(c)' <=> OfferedOK(c)
    BY <1>2 DEF OfferedOK
<1>4. \A s : OfferOK(s)' <=> OfferOK(s)
    BY <1>3 DEF OfferOK
<1> QED  BY <1>1, <1>2, <1>3, <1>4 DEF RequiredRoles, RelevantFor

\* A step that changes only the place or what was found keeps the search.
LEMMA SearchKept ==
    ASSUME SearchInv, plan' = plan, keys' = keys, buckets' = buckets, FoundOK',
           pos' \in Places,
           phase' # "plan"
    PROVE  SearchInv'
BY SamePlan DEF SearchInv

\* What was found stays right while the plan does not change.
LEMMA SameFound ==
    ASSUME SearchInv, plan' = plan, found' = found
    PROVE  FoundOK'
BY SamePlan DEF SearchInv, FoundOK

\* The moves of the search end at a place.
LEMMA PlacesMove ==
    ASSUME pos \in Places
    PROVE  /\ [pos EXCEPT !.s = @ + 1] \in Places
           /\ [pos EXCEPT !.q = @ + 1, !.s = 1] \in Places
           /\ NextRequest \in Places
<1>1. \A n \in Positive : n + 1 \in Positive /\ 1 \in Positive
    BY DEF Positive
<1>2. \A n, m \in Positive : [pos EXCEPT !.s = n] \in Places
                             /\ [pos EXCEPT !.q = n, !.s = m] \in Places
    BY DEF Places
<1>3. \A k, n, m \in Positive : [pos EXCEPT !.r = k, !.q = n, !.s = m] \in Places
    BY DEF Places
<1>4. pos.r \in Positive /\ pos.q \in Positive /\ pos.s \in Positive
    BY DEF Places
<1> QED  BY <1>1, <1>2, <1>3, <1>4 DEF NextRequest

\* One stage of a query keeps the search.
LEMMA SearchStageKeeps == ASSUME SearchInv, SearchStage PROVE SearchInv'
<1>1. /\ Searching /\ plan' = plan /\ keys' = keys /\ buckets' = buckets /\ phase' = "search"
      /\ pos \in Places
    BY DEF SearchStage, Searching, SearchInv
<1> DEFINE text == Queries[pos.q]
           stage == Attempts(text)[pos.s]
<1>2. PICK A \in IF stage = "HEADING_SCOPED" THEN HeadingAnswers(text) ELSE ClauseAnswers :
        \E hits \in Truncated({x \in Accepted(A) : Relevance(text, text, x) = "ACCEPT"}) :
            /\ found' = Add(hits) \/ found' = found
            /\ pos' = [pos EXCEPT !.s = @ + 1] \/ pos' = [pos EXCEPT !.q = @ + 1, !.s = 1]
    BY DEF SearchStage
<1>3. PICK hits \in Truncated({x \in Accepted(A) : Relevance(text, text, x) = "ACCEPT"}) :
          /\ found' = Add(hits) \/ found' = found
          /\ pos' = [pos EXCEPT !.s = @ + 1] \/ pos' = [pos EXCEPT !.q = @ + 1, !.s = 1]
    BY <1>2
<1>4. hits \in SUBSET Accepted(A)
    BY DEF Truncated
<1>5. A \in SUBSET Retrievable
    BY <1>2 DEF HeadingAnswers, ClauseAnswers, Answers, Retrievable
<1>6. FoundOK'
  <2>1. CASE found' = found
      BY <1>1, <2>1, SameFound
  <2>2. CASE found' = Add(hits)
      BY <1>1, <1>4, <1>5, <2>2, AddKeeps
  <2> QED  BY <1>3, <2>1, <2>2
<1>7. pos' \in Places
    BY <1>1, <1>3, PlacesMove
<1> QED  BY <1>1, <1>6, <1>7, SearchKept

\* The end of a request keeps the search.
LEMMA EndRequestKeeps == ASSUME SearchInv, EndRequest PROVE SearchInv'
<1>1. /\ plan' = plan /\ keys' = keys /\ buckets' = buckets /\ found' = found
      /\ phase' = "search" /\ pos' = NextRequest
      /\ pos \in Places
    BY DEF EndRequest, Searching, SearchInv
<1>2. pos' \in Places
    BY <1>1, PlacesMove
<1> QED  BY <1>1, <1>2, SameFound, SearchKept

\* The search of the elements keeps the search.
LEMMA SearchElementsKeeps == ASSUME SearchInv, SearchElements PROVE SearchInv'
<1>1. /\ Searching /\ plan' = plan /\ keys' = keys /\ buckets' = buckets /\ phase' = "search"
      /\ pos \in Places
    BY DEF SearchElements, Searching, SearchInv
<1>2. PICK A \in ElementAnswers :
          /\ found' = Add(Accepted(A))
          /\ pos' = NextRequest \/ pos' = [pos EXCEPT !.s = @ + 1]
    BY DEF SearchElements
<1>3. A \in SUBSET Retrievable
    BY <1>2 DEF ElementAnswers, Answers, Retrievable
<1>4. FoundOK'
    BY <1>1, <1>2, <1>3, AddKeeps
<1>5. pos' \in Places
    BY <1>1, <1>2, PlacesMove
<1> QED  BY <1>1, <1>4, <1>5, SearchKept

\* A list of candidates is offered as it was found.
LEMMA OrderFacts ==
    ASSUME NEW S, IsFiniteSet(S), Cardinality(S) \in Nat, NEW n \in Nat,
           NEW order \in Orders(S, AtMost(Cardinality(S), n))
    PROVE  /\ order \in Seq(S) /\ IsList(order) /\ DOMAIN order = 1 .. Len(order)
           /\ Len(order) \in Nat /\ Len(order) <= n /\ Len(order) <= Cardinality(S)
<1>1. PICK m \in Nat : order \in [1 .. m -> S] /\ m <= n /\ m <= Cardinality(S)
    BY DEF Orders, AtMost
<1>2. order = [k \in 1 .. m |-> order[k]] /\ \A k \in 1 .. m : order[k] \in S
    BY <1>1
<1>3. order \in Seq(S) /\ Len(order) = m /\ DOMAIN order = 1 .. m /\ IsList(order)
    BY <1>2, ListOfFunction
<1> QED  BY <1>1, <1>3

\* A closed bucket offers what was found, best first.
LEMMA CloseBucketKeeps == ASSUME SearchInv, CloseBucket PROVE SearchInv'
<1>1. PICK order \in Ranked(DOMAIN found) :
          buckets' = Append(buckets, [k \in DOMAIN order |->
                                         Candidate(order[k], found[order[k]])])
    BY DEF CloseBucket
<1>2. /\ plan' = plan /\ keys' = keys /\ found' = NoFound /\ phase' = "search"
      /\ pos' = [b |-> pos.b + 1, r |-> 1, q |-> 1, s |-> 1]
      /\ pos \in Places
    BY DEF CloseBucket, SearchInv
<1> DEFINE n == Len(order)
           s == [k \in 1 .. n |-> Candidate(order[k], found[order[k]])]
<1>3. /\ order \in Seq(DOMAIN found) /\ DOMAIN order = 1 .. n /\ n \in Nat /\ n <= RoleLimit
    BY <1>1, RetrievableFinite, OrderFacts DEF Ranked, SearchInv, FoundOK, Positive
<1>4. ASSUME NEW k \in 1 .. n PROVE OfferedOK(s[k])
  <2> DEFINE x == order[k]
             c == Candidate(x, found[x])
  <2>1. s[k] = c /\ x \in DOMAIN found
      BY <1>3
  <2> HIDE DEF x
  <2>2. x \in Retrievable /\ MatchesOK(found[x], x)
      BY <2>1 DEF SearchInv, FoundOK
  <2>3. /\ DOMAIN c = {"id", "matches", "evidence", "limited"} /\ c.id = x
        /\ c.matches = found[x] /\ c.evidence = Unresolved(x)
      BY DEF Candidate, Unresolved
  <2>4. IsList(Unresolved(x)) /\ ElementsOf(Unresolved(x)) \subseteq SourcesOf(x)
    <3>1. CASE x \in Elements
      <4>1. Unresolved(x) = <<x>> /\ SourcesOf(x) = {x}
          BY <3>1 DEF Unresolved, SourcesOf
      <4> QED  BY <4>1, SingleElements DEF IsList
    <3>2. CASE x \notin Elements
      <4>1. Unresolved(x) = <<>>
          BY <3>2 DEF Unresolved
      <4> QED  BY <4>1, SingleElements DEF IsList
    <3> QED  BY <3>1, <3>2
  <2> HIDE DEF c
  <2>5. OfferedOK(c)
      BY <2>2, <2>3, <2>4 DEF OfferedOK, CandidateOK
  <2> QED  BY <2>1, <2>5
<1>5. s = [k \in 1 .. n |-> s[k]]
    OBVIOUS
<1>6. buckets' = Append(buckets, s)
    BY <1>1, <1>3
<1> HIDE DEF s
<1>7. IsList(s) /\ Len(s) = n /\ DOMAIN s = 1 .. n
  <2> HIDE DEF n
  <2> QED  BY <1>3, <1>5, ListOfFunction
<1>8. OfferOK(s)
    BY <1>3, <1>4, <1>7 DEF OfferOK
<1>9. IsList(buckets') /\ \A k \in DOMAIN buckets' : OfferOK(buckets'[k])
  <2> DEFINE S == ElementsOf(buckets) \cup {s}
  <2>1. buckets \in Seq(S) /\ s \in S
      BY SeqMonotonic DEF SearchInv, IsList
  <2>2. \A x \in S : OfferOK(x)
      BY <1>8 DEF SearchInv, ElementsOf
  <2> HIDE DEF S
  <2>3. buckets' \in Seq(S)
      BY <1>6, <2>1
  <2>4. IsList(buckets') /\ ElementsOf(buckets') \subseteq S
      BY <2>3, Lists
  <2> QED  BY <2>2, <2>4 DEF ElementsOf
<1>10. pos' \in Places
    BY <1>2 DEF Places, Positive
<1>11. FoundOK'
    BY <1>2 DEF FoundOK, NoFound
<1> QED  BY <1>2, <1>9, <1>10, <1>11, SamePlan DEF SearchInv

\* The effective plan is a plan.
LEMMA PlanQuestionKeeps == ASSUME SearchInv, PlanQuestion PROVE SearchInv'
<1>1. PICK texts \in ExpansionChoices :
          plan' = EffectivePlan(texts) /\ keys' = BucketKeys(plan') /\ phase' # "plan"
    BY DEF PlanQuestion
<1>2. /\ phase = "plan" /\ pos' = pos /\ found' = found /\ buckets' = buckets
    BY DEF PlanQuestion, searchVars
<1>3. PlanOK(plan')
    BY <1>1, EffectivePlanOK, ExpansionAssumption DEF SearchInv
<1>4. IsList(keys') /\ \A b \in ElementsOf(keys') : KeyOK(plan', b)
    BY <1>1, <1>3, KeysElements
<1>5. found' = NoFound /\ buckets' = <<>> /\ pos' \in Places
    BY <1>2 DEF SearchInv
<1>6. FoundOK'
    BY <1>5 DEF FoundOK, NoFound
<1>7. IsList(buckets') /\ DOMAIN buckets' = {}
    BY <1>5, SingleElements DEF IsList
<1> QED  BY <1>1, <1>3, <1>4, <1>5, <1>6, <1>7 DEF SearchInv

SearchPart == <<plan, keys, pos, found, buckets>>

\* The steps after the search leave it alone.
LEMMA LaterStep ==
    ASSUME \/ EndSearch \/ SelectCandidate \/ EndSelection
           \/ MaterializeEvidence \/ EndMaterialization
           \/ StartTraversal \/ TakeSource \/ FollowLink \/ EndTraversal \/ EndExpansion
           \/ EvaluateCoverage
    PROVE  UNCHANGED SearchPart /\ phase' # "plan"
<1>1. CASE EndSearch \/ SelectCandidate \/ EndSelection
    BY <1>1 DEF EndSearch, SelectCandidate, EndSelection, searchVars, SearchPart
<1>2. CASE MaterializeEvidence \/ EndMaterialization
    BY <1>2 DEF MaterializeEvidence, EndMaterialization, searchVars, SearchPart
<1>3. CASE StartTraversal \/ TakeSource \/ FollowLink
    BY <1>3 DEF StartTraversal, TakeSource, FollowLink, searchVars, SearchPart
<1>4. CASE EndTraversal \/ EndExpansion \/ EvaluateCoverage
    BY <1>4 DEF EndTraversal, EndExpansion, EvaluateCoverage, searchVars, SearchPart
<1> QED  BY <1>1, <1>2, <1>3, <1>4

\* Every step of retrieval keeps the search.
LEMMA SearchStepKeeps == ASSUME SearchInv, RetrievalNext PROVE SearchInv'
<1>1. CASE PlanQuestion
    BY <1>1, PlanQuestionKeeps
<1>2. CASE SearchStage \/ EndRequest \/ SearchElements \/ CloseBucket
    BY <1>2, SearchStageKeeps, EndRequestKeeps, SearchElementsKeeps, CloseBucketKeeps
<1>3. CASE UNCHANGED SearchPart /\ phase' # "plan"
  <2>1. /\ plan' = plan /\ keys' = keys /\ pos' = pos /\ found' = found /\ buckets' = buckets
      BY <1>3 DEF SearchPart
  <2>2. pos' \in Places
      BY <2>1 DEF SearchInv
  <2> QED  BY <1>3, <2>1, <2>2, SameFound, SearchKept
<1> QED  BY <1>1, <1>2, <1>3, LaterStep DEF RetrievalNext

----------------------------------------------------------------------------
(* The selection: where the selected evidence comes from.                  *)

Cited == {"expand", "cover", "request", "track_a", "track_b", "finalize", "done"}

\* A candidate that keeps only selected evidence.
CitesSelected(c) == ElementsOf(c.evidence) \subseteq ElementsOf(evidence)

SelectionInv ==
    /\ turn \in Positive
    /\ IsList(candidates) /\ \A k \in DOMAIN candidates : CandidateOK(candidates[k])
    /\ IsList(evidence) /\ ElementsOf(evidence) \subseteq Elements
    /\ phase \in {"plan", "search", "select"} =>
          /\ evidence = <<>>
          /\ \A k \in DOMAIN candidates : candidates[k].evidence = Unresolved(candidates[k].id)
    /\ phase = "cite" => \A k \in DOMAIN candidates :
          IF k < turn THEN CitesSelected(candidates[k])
          ELSE candidates[k].evidence = Unresolved(candidates[k].id)
    /\ phase \in Cited => \A k \in DOMAIN candidates : CitesSelected(candidates[k])

\* Selected evidence is the evidence of a candidate or was reached by a reference.
Traced(e) ==
    \/ \E k \in DOMAIN candidates : /\ phase = "cite" => k < turn
                                    /\ e \in ElementsOf(candidates[k].evidence)
    \/ \E r \in references : r.evidence = e

AllTraced == \A e \in ElementsOf(evidence) : Traced(e)

\* The elements of two lists put together.
LEMMA ConcatElements ==
    ASSUME NEW s, NEW t, IsList(s), IsList(t)
    PROVE  ElementsOf(s \o t) = ElementsOf(s) \cup ElementsOf(t)
<1> DEFINE S == ElementsOf(s) \cup ElementsOf(t)
<1>1. s \in Seq(S) /\ t \in Seq(S)
    BY SeqMonotonic DEF IsList
<1> HIDE DEF S
<1>2. Range(s \o t) = Range(s) \cup Range(t)
    BY <1>1, RangeConcatenation
<1> QED  BY <1>2 DEF Range, ElementsOf

\* A list with one more element.
LEMMA AppendList ==
    ASSUME NEW s, IsList(s), NEW x
    PROVE  /\ IsList(Append(s, x)) /\ Len(Append(s, x)) = Len(s) + 1
           /\ ElementsOf(Append(s, x)) = ElementsOf(s) \cup {x}
           /\ DOMAIN Append(s, x) = 1 .. Len(s) + 1
           /\ Append(s, x)[Len(s) + 1] = x
           /\ \A k \in DOMAIN s : Append(s, x)[k] = s[k]
<1> DEFINE S == ElementsOf(s) \cup {x}
<1>1. s \in Seq(S) /\ x \in S /\ ElementsOf(s) \subseteq S
    BY SeqMonotonic DEF IsList
<1>2. S = ElementsOf(s) \cup {x}
    OBVIOUS
<1> HIDE DEF S
<1>3. /\ Append(s, x) \in Seq(S) /\ Len(Append(s, x)) = Len(s) + 1 /\ Len(s) \in Nat
      /\ DOMAIN s = 1 .. Len(s) /\ DOMAIN Append(s, x) = 1 .. Len(s) + 1
      /\ Append(s, x)[Len(s) + 1] = x
      /\ \A k \in DOMAIN s : Append(s, x)[k] = s[k]
    BY <1>1
<1>4. ElementsOf(Append(s, x)) \subseteq S
    BY <1>3, Lists
<1>5. x \in ElementsOf(Append(s, x))
    BY <1>3 DEF ElementsOf
<1>6. \A k \in DOMAIN s : k \in DOMAIN Append(s, x)
    BY <1>3
<1>7. ElementsOf(s) \subseteq ElementsOf(Append(s, x))
    BY <1>3, <1>6 DEF ElementsOf
<1> QED  BY <1>2, <1>3, <1>4, <1>5, <1>7, Lists

\* What the evidence budget admits of a list.
LEMMA AdmittedFacts ==
    ASSUME NEW s, IsList(s), IsList(evidence)
    PROVE  /\ ElementsOf(Admitted(s)) \subseteq ElementsOf(s)
           /\ IsList(evidence \o Admitted(s))
           /\ ElementsOf(evidence \o Admitted(s)) = ElementsOf(evidence) \cup ElementsOf(Admitted(s))
<1> DEFINE I == {k \in DOMAIN s : s[k] \notin ElementsOf(evidence)}
           free == MaxEvidence - Len(evidence)
<1>1. Fresh(s) = AtPositions(s, I) /\ I \in SUBSET DOMAIN s /\ {s[k] : k \in I} \subseteq ElementsOf(s)
    BY DEF Fresh, ElementsOf
<1> HIDE DEF I
<1>2. IsList(Fresh(s)) /\ ElementsOf(Fresh(s)) \subseteq ElementsOf(s)
    BY <1>1, PositionsElements
<1>3. free \in Int
    BY PolicyAssumption, Lists DEF IsList
<1>4. Admitted(s) = First(Fresh(s), free)
    BY DEF Admitted
<1> HIDE DEF free
<1>5. /\ Admitted(s) \in Seq(ElementsOf(Fresh(s)))
      /\ ElementsOf(Admitted(s)) \subseteq ElementsOf(Fresh(s))
    BY <1>2, <1>3, <1>4, FirstList DEF IsList
<1>6. IsList(Admitted(s))
    BY <1>5, Lists
<1> QED  BY <1>2, <1>5, <1>6, ListConcat, ConcatElements

\* A list with one element replaced.
LEMMA ExceptList ==
    ASSUME NEW s, IsList(s), NEW k \in DOMAIN s, NEW x
    PROVE  /\ IsList([s EXCEPT ![k] = x]) /\ DOMAIN [s EXCEPT ![k] = x] = DOMAIN s
           /\ Len([s EXCEPT ![k] = x]) = Len(s)
           /\ [s EXCEPT ![k] = x][k] = x
           /\ \A j \in DOMAIN s : j # k => [s EXCEPT ![k] = x][j] = s[j]
<1> DEFINE t == [s EXCEPT ![k] = x]
<1>1. s = [j \in 1 .. Len(s) |-> s[j]] /\ Len(s) \in Nat /\ DOMAIN s = 1 .. Len(s)
    BY Lists DEF IsList
<1>2. t = [j \in 1 .. Len(s) |-> t[j]]
    BY <1>1
<1>3. t[k] = x /\ \A j \in DOMAIN s : j # k => t[j] = s[j]
    OBVIOUS
<1> HIDE DEF t
<1>4. IsList(t) /\ Len(t) = Len(s) /\ DOMAIN t = 1 .. Len(s)
    BY <1>1, <1>2, ListOfFunction
<1> QED  BY <1>1, <1>3, <1>4 DEF t

\* Quotient and remainder.
LEMMA Division ==
    ASSUME NEW a \in Nat, NEW b \in Positive
    PROVE  /\ a = b * (a \div b) + (a % b) /\ a \div b \in Nat /\ a % b \in 0 .. b - 1
<1>1. b \in Nat /\ b > 0
    BY DEF Positive
<1>2. a = b * (a \div b) + (a % b)
    BY <1>1, Z3
<1>3. a \div b \in Nat
    BY <1>1
<1>4. a % b \in 0 .. b - 1
    BY <1>1
<1> QED  BY <1>2, <1>3, <1>4

\* Whose turn it is.
Place == ((turn - 1) % Len(buckets)) + 1

\* The bucket and the rank of a turn are there.
LEMMA TurnFacts ==
    ASSUME SearchInv, turn \in Positive, buckets # <<>>
    PROVE  /\ Place \in DOMAIN buckets /\ Place \in 1 .. Len(buckets)
           /\ Turn.bucket = buckets[Place] /\ Turn.rank \in Positive
           /\ Len(buckets) \in Positive
           /\ turn = Len(buckets) * (Turn.rank - 1) + Place
<1> DEFINE n == Len(buckets)
<1>1. n \in Nat /\ DOMAIN buckets = 1 .. n /\ buckets = [k \in 1 .. n |-> buckets[k]]
    BY Lists DEF SearchInv, IsList
<1>2. n # 0
    BY <1>1 DEF SearchInv, IsList
<1>3. n \in Positive /\ turn - 1 \in Nat
    BY <1>1, <1>2 DEF Positive
<1>4. /\ Turn.rank = ((turn - 1) \div n) + 1
      /\ Turn.bucket = buckets[Place] /\ Place = ((turn - 1) % n) + 1
    BY DEF Turn, Place
<1> HIDE DEF n
<1>5. /\ turn - 1 = n * ((turn - 1) \div n) + ((turn - 1) % n)
      /\ (turn - 1) \div n \in Nat /\ (turn - 1) % n \in 0 .. n - 1
    BY <1>3, Division
<1> DEFINE q == (turn - 1) \div n
           r == (turn - 1) % n
<1>6. /\ q \in Nat /\ r \in 0 .. n - 1 /\ turn - 1 = n * q + r /\ Turn.rank = q + 1
      /\ Place = r + 1
    BY <1>4, <1>5
<1> HIDE DEF q, r
<1>7. n * q \in Nat
    BY <1>3, <1>6 DEF Positive
<1>8. Place \in 1 .. n /\ Turn.rank \in Positive /\ Turn.rank - 1 = q
    BY <1>3, <1>6 DEF Positive
<1>9. turn = n * q + Place
    BY <1>3, <1>6, <1>7 DEF Positive
<1> QED  BY <1>1, <1>3, <1>4, <1>8, <1>9 DEF n

\* There is no turn without a bucket.
LEMMA TurnGuard ==
    ASSUME SearchInv, turn \in Positive, turn <= MaxDepth * Len(buckets)
    PROVE  buckets # <<>>
<1> SUFFICES ASSUME buckets = <<>> PROVE FALSE
    OBVIOUS
<1>1. MaxDepth = 0 /\ Len(buckets) = 0
    BY DEF MaxDepth
<1> QED  BY <1>1 DEF Positive

\* A merge adds matches to one candidate and leaves the others.
MergeResult(s, c, t) ==
    /\ IsList(t) /\ DOMAIN t = DOMAIN s /\ Len(t) = Len(s)
    /\ \A k \in DOMAIN s :
          /\ DOMAIN t[k] = {"id", "matches", "evidence", "limited"}
          /\ t[k].id = s[k].id /\ t[k].evidence = s[k].evidence
          /\ s[k].matches \subseteq t[k].matches
          /\ \/ t[k] = s[k]
             \/ /\ s[k].id = c.id
                /\ t[k].matches = s[k].matches \cup c.matches
    /\ \E k \in DOMAIN s : s[k].id = c.id /\ c.matches \subseteq t[k].matches

\* The merge of a candidate that is already there.
LEMMA MergeFacts ==
    ASSUME NEW s, IsList(s), NEW c, Has(s, c.id), \A k \in DOMAIN s : CandidateOK(s[k])
    PROVE  MergeResult(s, c, MergeInto(s, c))
<1> DEFINE n == AtPlace(s, c.id)
           x == [s[n] EXCEPT !.matches = @ \cup c.matches]
<1>1. n \in DOMAIN s /\ s[n].id = c.id
    BY DEF Has, AtPlace
<1>2. DOMAIN s[n] = {"id", "matches", "evidence", "limited"}
    BY <1>1 DEF CandidateOK
<1>3. /\ DOMAIN x = {"id", "matches", "evidence", "limited"}
      /\ x.id = s[n].id /\ x.evidence = s[n].evidence
      /\ x.matches = s[n].matches \cup c.matches
    BY <1>2
<1>4. MergeInto(s, c) = [s EXCEPT ![n] = x]
    BY DEF MergeInto
<1> HIDE DEF x, n
<1>5. /\ IsList([s EXCEPT ![n] = x]) /\ DOMAIN [s EXCEPT ![n] = x] = DOMAIN s
      /\ Len([s EXCEPT ![n] = x]) = Len(s)
      /\ [s EXCEPT ![n] = x][n] = x
      /\ \A j \in DOMAIN s : j # n => [s EXCEPT ![n] = x][j] = s[j]
    BY <1>1, ExceptList
<1> DEFINE t == [s EXCEPT ![n] = x]
<1> HIDE DEF t
<1>6. \A k \in DOMAIN s : k # n => t[k] = s[k] /\ DOMAIN s[k] = {"id", "matches", "evidence", "limited"}
    BY <1>5 DEF t, CandidateOK
<1>7. t[n] = x
    BY <1>5 DEF t
<1>8. \A k \in DOMAIN s :
         /\ DOMAIN t[k] = {"id", "matches", "evidence", "limited"}
         /\ t[k].id = s[k].id /\ t[k].evidence = s[k].evidence
         /\ s[k].matches \subseteq t[k].matches
         /\ t[k] = s[k] \/ (s[k].id = c.id /\ t[k].matches = s[k].matches \cup c.matches)
    BY <1>1, <1>3, <1>6, <1>7
<1>9. \E k \in DOMAIN s : s[k].id = c.id /\ c.matches \subseteq t[k].matches
    BY <1>1, <1>3, <1>7
<1> QED  BY <1>4, <1>5, <1>8, <1>9 DEF t, MergeResult

\* A merge of offered candidates gives offered candidates.
LEMMA MergeKeeps ==
    ASSUME NEW s, IsList(s), NEW c, OfferedOK(c), Has(s, c.id),
           \A k \in DOMAIN s : OfferedOK(s[k])
    PROVE  /\ IsList(MergeInto(s, c))
           /\ \A k \in DOMAIN MergeInto(s, c) : OfferedOK(MergeInto(s, c)[k])
<1> DEFINE t == MergeInto(s, c)
<1>1. \A k \in DOMAIN s : CandidateOK(s[k])
    BY DEF OfferedOK
<1>2. /\ IsList(t) /\ DOMAIN t = DOMAIN s
      /\ \A k \in DOMAIN s :
             /\ DOMAIN t[k] = {"id", "matches", "evidence", "limited"}
             /\ t[k].id = s[k].id /\ t[k].evidence = s[k].evidence
             /\ \/ t[k] = s[k]
                \/ /\ s[k].id = c.id
                   /\ t[k].matches = s[k].matches \cup c.matches
  <2>1. IsList(s) /\ Has(s, c.id)
      OBVIOUS
  <2>2. MergeResult(s, c, t)
      BY <1>1, <2>1, MergeFacts
  <2> HIDE DEF t
  <2> QED  BY <2>2 DEF MergeResult
<1> HIDE DEF t
<1>3. ASSUME NEW k \in DOMAIN s PROVE OfferedOK(t[k])
  <2>1. OfferedOK(s[k])
      OBVIOUS
  <2>2. CASE t[k] = s[k]
      BY <2>1, <2>2
  <2>3. CASE s[k].id = c.id /\ t[k].matches = s[k].matches \cup c.matches
    <3>1. MatchesOK(t[k].matches, s[k].id)
        BY <2>1, <2>3 DEF OfferedOK, CandidateOK, MatchesOK
    <3> QED  BY <1>2, <2>1, <3>1 DEF OfferedOK, CandidateOK
  <2> QED  BY <1>2, <2>2, <2>3
<1>4. /\ IsList(t)
      /\ \A k \in DOMAIN t : OfferedOK(t[k])
    BY <1>2, <1>3
<1> QED  BY <1>4 DEF t

\* A turn of the round robin keeps the selection.
LEMMA SelectCandidateKeeps ==
    ASSUME SearchInv, SelectionInv, AllTraced, SelectCandidate
    PROVE  SelectionInv' /\ AllTraced'
<1>1. /\ phase = "select" /\ phase' = "select" /\ plan' = plan /\ evidence' = evidence
      /\ turn' = turn + 1 /\ turn \in Positive /\ evidence = <<>>
      /\ turn <= MaxDepth * Len(buckets)
    BY DEF SelectCandidate, SelectionInv
<1>2. /\ Turn.bucket = buckets[Place] /\ Place \in DOMAIN buckets /\ Turn.rank \in Positive
    BY <1>1, TurnGuard, TurnFacts
<1>10. Len(Turn.bucket) \in Nat
    BY <1>2, Lists DEF SearchInv, OfferOK, IsList
<1> DEFINE c == Turn.bucket[Turn.rank]
<1>3. \/ candidates' = candidates
      \/ /\ Turn.rank <= Len(Turn.bucket)
         /\ \/ Has(candidates, c.id) /\ candidates' = MergeInto(candidates, c)
            \/ candidates' = Append(candidates, c)
  <2>1. CASE Turn.rank > Len(Turn.bucket)
      BY <2>1 DEF SelectCandidate
  <2>2. CASE ~(Turn.rank > Len(Turn.bucket))
    <3>1. Turn.rank <= Len(Turn.bucket)
        BY <1>2, <1>10, <2>2 DEF Positive
    <3> QED  BY <2>2, <3>1 DEF SelectCandidate
  <2> QED  BY <2>1, <2>2
<1>4. ASSUME Turn.rank <= Len(Turn.bucket) PROVE OfferedOK(c)
  <2>1. OfferOK(Turn.bucket)
      BY <1>2 DEF SearchInv
  <2>2. DOMAIN Turn.bucket = 1 .. Len(Turn.bucket) /\ Len(Turn.bucket) \in Nat
      BY <2>1, Lists DEF OfferOK, IsList
  <2>3. Turn.rank \in DOMAIN Turn.bucket
      BY <1>2, <1>4, <2>2 DEF Positive
  <2> QED  BY <2>1, <2>3 DEF OfferOK
<1> DEFINE Good(s) == IsList(s) /\ \A k \in DOMAIN s : OfferedOK(s[k])
<1>5. Good(candidates)
    BY <1>1 DEF SelectionInv, OfferedOK
<1>6. Good(candidates')
  <2>1. CASE candidates' = candidates
      BY <1>5, <2>1
  <2>2. CASE Turn.rank <= Len(Turn.bucket) /\ candidates' = Append(candidates, c)
    <3> HIDE DEF c
    <3>1. /\ IsList(candidates') /\ ElementsOf(candidates') = ElementsOf(candidates) \cup {c}
        BY <1>5, <2>2, AppendList
    <3>2. \A x \in ElementsOf(candidates') : OfferedOK(x)
        BY <1>4, <1>5, <2>2, <3>1 DEF ElementsOf
    <3> QED  BY <3>1, <3>2 DEF ElementsOf
  <2>3. CASE /\ Turn.rank <= Len(Turn.bucket)
             /\ Has(candidates, c.id) /\ candidates' = MergeInto(candidates, c)
    <3>1. OfferedOK(c) /\ Good(candidates) /\ Has(candidates, c.id)
        BY <1>4, <1>5, <2>3
    <3> HIDE DEF c
    <3>2. IsList(MergeInto(candidates, c)) /\ \A k \in DOMAIN MergeInto(candidates, c) :
              OfferedOK(MergeInto(candidates, c)[k])
        BY <3>1, MergeKeeps
    <3> QED  BY <2>3, <3>2
  <2> QED  BY <1>3, <2>1, <2>2, <2>3
<1>7. turn' \in Positive
    BY <1>1 DEF Positive
<1>8. \A k \in DOMAIN candidates' :
         /\ CandidateOK(candidates[k])'
         /\ candidates'[k].evidence = Unresolved(candidates'[k].id)
  <2> HIDE DEF c
  <2>1. \A k \in DOMAIN candidates' : OfferedOK(candidates'[k])
      BY <1>6
  <2>2. \A y : CandidateOK(y)' <=> CandidateOK(y)
      BY <1>1, SamePlan
  <2>3. ASSUME NEW k \in DOMAIN candidates' PROVE CandidateOK(candidates[k])'
    <3>1. CandidateOK(candidates'[k])
        BY <2>1 DEF OfferedOK
    <3>2. plan' = plan
        BY <1>1
    <3> QED  BY <3>1, <3>2 DEF CandidateOK, MatchesOK, MatchOK, RequiredRoles, RelevantFor
  <2> QED  BY <2>1, <2>3 DEF OfferedOK
<1>9. AllTraced'
    BY <1>1, SingleElements DEF AllTraced
<1> QED  BY <1>1, <1>6, <1>7, <1>8, <1>9, SingleElements DEF SelectionInv, Cited, IsList

\* The selection, the evidence and the turn as they were.
SameSelection == UNCHANGED <<plan, turn, candidates, evidence, references>>

\* Candidates stay right while the plan and they do not change.
LEMMA CandidatesKept ==
    ASSUME plan' = plan, candidates' = candidates,
           \A k \in DOMAIN candidates : CandidateOK(candidates[k])
    PROVE  \A k \in DOMAIN candidates' : CandidateOK(candidates[k])'
BY DEF CandidateOK, MatchesOK, MatchOK, RequiredRoles, RelevantFor

\* A step that leaves the selection alone keeps what is known of it, while the
\* phase stays in its group.
LEMMA SelectionKept ==
    ASSUME SelectionInv, AllTraced, SameSelection,
           phase' \in {"plan", "search", "select"} => phase \in {"plan", "search", "select"},
           phase' = "cite" => phase = "cite",
           phase' \in Cited => phase \in Cited
    PROVE  SelectionInv' /\ AllTraced'
<1>1. /\ plan' = plan /\ candidates' = candidates /\ evidence' = evidence /\ turn' = turn
      /\ references' = references
    BY DEF SameSelection
<1>2. \A k \in DOMAIN candidates' : CandidateOK(candidates[k])'
    BY <1>1, CandidatesKept DEF SelectionInv
<1>3. SelectionInv'
  <2>1. /\ turn' \in Positive /\ IsList(candidates') /\ IsList(evidence')
        /\ ElementsOf(evidence') \subseteq Elements
      BY <1>1 DEF SelectionInv
  <2>2. phase' \in {"plan", "search", "select"} =>
          /\ evidence' = <<>>
          /\ \A k \in DOMAIN candidates' : candidates'[k].evidence = Unresolved(candidates'[k].id)
      BY <1>1 DEF SelectionInv
  <2>3. phase' = "cite" => \A k \in DOMAIN candidates' :
          IF k < turn' THEN CitesSelected(candidates[k])'
          ELSE candidates'[k].evidence = Unresolved(candidates'[k].id)
      BY <1>1 DEF SelectionInv, CitesSelected
  <2>4. phase' \in Cited => \A k \in DOMAIN candidates' : CitesSelected(candidates[k])'
      BY <1>1 DEF SelectionInv, CitesSelected
  <2> QED  BY <1>2, <2>1, <2>2, <2>3, <2>4 DEF SelectionInv
<1>4. AllTraced'
  <2> SUFFICES ASSUME NEW e \in ElementsOf(evidence') PROVE Traced(e)'
      BY DEF AllTraced
  <2>1. Traced(e)
      BY <1>1 DEF AllTraced
  <2> QED  BY <1>1, <2>1 DEF Traced
<1> QED  BY <1>3, <1>4

\* The end of the round robin keeps the selection.
LEMMA EndSelectionKeeps ==
    ASSUME SearchInv, SelectionInv, AllTraced, EndSelection
    PROVE  SelectionInv' /\ AllTraced'
<1>1. /\ phase = "select" /\ phase' = "cite" /\ plan' = plan /\ candidates' = candidates
      /\ evidence' = evidence /\ turn' = 1 /\ evidence = <<>>
    BY DEF EndSelection, SelectionInv
<1>2. \A k \in DOMAIN candidates' : CandidateOK(candidates[k])'
    BY <1>1, CandidatesKept DEF SelectionInv
<1>3. \A k \in DOMAIN candidates : k \in Nat /\ ~(k < 1)
    BY Lists DEF SelectionInv, IsList
<1>4. \A k \in DOMAIN candidates : candidates[k].evidence = Unresolved(candidates[k].id)
    BY <1>1 DEF SelectionInv
<1>5. AllTraced'
    BY <1>1, SingleElements DEF AllTraced
<1>6. ~ (phase' \in Cited) /\ ~ (phase' \in {"plan", "search", "select"}) /\ turn' \in Positive
    BY <1>1 DEF Cited, Positive
<1> QED  BY <1>1, <1>2, <1>3, <1>4, <1>5, <1>6 DEF SelectionInv, IsList

\* The end of the resolution keeps the selection.
LEMMA EndMaterializationKeeps ==
    ASSUME SelectionInv, AllTraced, EndMaterialization
    PROVE  SelectionInv' /\ AllTraced'
<1>1. /\ phase = "cite" /\ phase' \in {"cover", "expand"} /\ plan' = plan
      /\ candidates' = candidates /\ references' = references
      /\ evidence' = evidence /\ turn' = 1 /\ turn > Len(candidates)
    BY DEF EndMaterialization, expansionVars
<1>2. \A k \in DOMAIN candidates' : CandidateOK(candidates[k])'
    BY <1>1, CandidatesKept DEF SelectionInv
<1>3. \A k \in DOMAIN candidates : k < turn
  <2>1. Len(candidates) \in Nat /\ DOMAIN candidates = 1 .. Len(candidates) /\ turn \in Nat
      BY Lists DEF SelectionInv, IsList, Positive
  <2> QED  BY <1>1, <2>1
<1>4. \A k \in DOMAIN candidates : CitesSelected(candidates[k])
    BY <1>1, <1>3 DEF SelectionInv
<1>5. \A k \in DOMAIN candidates' : CitesSelected(candidates[k])'
    BY <1>1, <1>4 DEF CitesSelected
<1>6. phase' # "cite" /\ ~ (phase' \in {"plan", "search", "select"}) /\ turn' \in Positive
    BY <1>1 DEF Positive
<1>7. AllTraced'
  <2> SUFFICES ASSUME NEW e \in ElementsOf(evidence') PROVE Traced(e)'
      BY DEF AllTraced
  <2>1. Traced(e)
      BY <1>1 DEF AllTraced
  <2> QED  BY <1>1, <1>6, <2>1 DEF Traced
<1> QED  BY <1>1, <1>2, <1>5, <1>6, <1>7 DEF SelectionInv, IsList

\* The resolutions of a candidate are lists of elements that may stand for it.
LEMMA ResolutionFacts ==
    ASSUME NEW c, OfferedOK(c), NEW resolved \in Resolutions(c)
    PROVE  IsList(resolved) /\ ElementsOf(resolved) \subseteq SourcesOf(c.id)
<1>1. CASE c.evidence # <<>>
    BY <1>1 DEF Resolutions, OfferedOK, CandidateOK
<1>2. CASE c.evidence = <<>>
  <2> DEFINE S == CitableSources(c.id)
  <2>1. c.id \notin Elements
    <3> SUFFICES ASSUME c.id \in Elements PROVE FALSE
        OBVIOUS
    <3>1. <<c.id>> = <<>>
        BY <1>2 DEF OfferedOK, Unresolved
    <3> QED  BY <3>1, SingleElements
  <2>2. SourcesOf(c.id) = S /\ S \subseteq Retrievable
      BY <2>1, PolicyAssumption DEF SourcesOf, CitableSources, Retrievable
  <2>3. resolved \in Orders(S, AtMost(Cardinality(S), MaxElements))
      BY <1>2 DEF Resolutions
  <2>4. MaxElements \in Nat
      BY PolicyAssumption
  <2>5. IsFiniteSet(S) /\ Cardinality(S) \in Nat
      BY <2>2, RetrievableFinite
  <2> HIDE DEF S
  <2>6. IsList(resolved) /\ resolved \in Seq(S)
      BY <2>3, <2>4, <2>5, OrderFacts
  <2>7. ElementsOf(resolved) \subseteq S
      BY <2>6, Lists
  <2> QED  BY <2>2, <2>6, <2>7
<1> QED  BY <1>1, <1>2

\* What the resolution of one candidate selects and cites.
LEMMA ResolvedFacts ==
    ASSUME SelectionInv, NEW c, OfferedOK(c), NEW resolved \in Resolutions(c),
           NEW after, after = evidence \o Admitted(resolved)
    PROVE  /\ CandidateOK(Resolved(c, resolved))
           /\ ElementsOf(after) = ElementsOf(evidence) \cup ElementsOf(Admitted(resolved))
           /\ IsList(after) /\ ElementsOf(after) \subseteq Elements
           /\ ElementsOf(Resolved(c, resolved).evidence) \subseteq ElementsOf(after)
           /\ ElementsOf(Admitted(resolved)) \subseteq ElementsOf(Resolved(c, resolved).evidence)
<1> DEFINE new == ElementsOf(Admitted(resolved))
           selected == ElementsOf(evidence) \cup new
           I == {k \in DOMAIN resolved : resolved[k] \in selected}
           d == Resolved(c, resolved)
<1>1. IsList(resolved) /\ ElementsOf(resolved) \subseteq SourcesOf(c.id)
    BY ResolutionFacts
<1>2. /\ new \subseteq ElementsOf(resolved) /\ IsList(after)
      /\ ElementsOf(after) = selected
    BY <1>1, AdmittedFacts DEF SelectionInv
<1>3. DOMAIN c = {"id", "matches", "evidence", "limited"}
    BY DEF OfferedOK, CandidateOK
<1>4. /\ DOMAIN d = {"id", "matches", "evidence", "limited"} /\ d.id = c.id
      /\ d.matches = c.matches /\ d.evidence = AtPositions(resolved, I)
    BY <1>3 DEF Resolved
<1>5. I \in SUBSET DOMAIN resolved
    OBVIOUS
<1> HIDE DEF d
<1>6. IsList(d.evidence) /\ ElementsOf(d.evidence) = {resolved[k] : k \in I}
  <2> HIDE DEF I
  <2> QED  BY <1>1, <1>4, <1>5, PositionsElements
<1>7. /\ ElementsOf(d.evidence) \subseteq selected
      /\ ElementsOf(d.evidence) \subseteq ElementsOf(resolved)
      /\ new \subseteq ElementsOf(d.evidence)
    BY <1>2, <1>6 DEF ElementsOf
<1>8. SourcesOf(c.id) \subseteq Elements
    BY PolicyAssumption DEF SourcesOf, CitableSources
<1>9. CandidateOK(d)
    BY <1>1, <1>4, <1>6, <1>7 DEF CandidateOK, OfferedOK
<1> HIDE DEF selected, I, new
<1>10. selected = ElementsOf(evidence) \cup new /\ ElementsOf(evidence) \subseteq Elements
    BY DEF selected, SelectionInv
<1>11. ElementsOf(after) \subseteq Elements
    BY <1>1, <1>2, <1>8, <1>10
<1> QED  BY <1>2, <1>7, <1>9, <1>10, <1>11 DEF d, new

\* The resolution of one candidate keeps the selection.
LEMMA MaterializeEvidenceKeeps ==
    ASSUME SearchInv, SelectionInv, AllTraced, MaterializeEvidence
    PROVE  SelectionInv' /\ AllTraced'
<1>1. /\ phase = "cite" /\ phase' = "cite" /\ plan' = plan /\ references' = references
      /\ turn' = turn + 1 /\ turn <= Len(candidates) /\ turn \in Positive
    BY DEF MaterializeEvidence, SelectionInv, expansionVars
<1>2. turn \in DOMAIN candidates /\ DOMAIN candidates = 1 .. Len(candidates)
      /\ Len(candidates) \in Nat
  <2>1. Len(candidates) \in Nat /\ DOMAIN candidates = 1 .. Len(candidates)
      BY Lists DEF SelectionInv, IsList
  <2> QED  BY <1>1, <2>1 DEF Positive
<1> DEFINE c == candidates[turn]
<1>3. OfferedOK(c)
  <2>1. ~(turn < turn)
      BY <1>1 DEF Positive
  <2> QED  BY <1>1, <1>2, <2>1 DEF SelectionInv, OfferedOK
<1>4. PICK resolved \in Resolutions(c) :
          /\ evidence' = evidence \o Admitted(resolved)
          /\ candidates' = [candidates EXCEPT ![turn] = Resolved(c, resolved)]
    BY DEF MaterializeEvidence
<1> DEFINE d == Resolved(c, resolved)
           new == ElementsOf(Admitted(resolved))
<1>5. /\ CandidateOK(d) /\ ElementsOf(evidence') = ElementsOf(evidence) \cup new
      /\ IsList(evidence') /\ ElementsOf(evidence') \subseteq Elements
      /\ ElementsOf(d.evidence) \subseteq ElementsOf(evidence')
      /\ new \subseteq ElementsOf(d.evidence)
    BY <1>3, <1>4, ResolvedFacts
<1> HIDE DEF d, new
<1>6. /\ IsList(candidates') /\ DOMAIN candidates' = DOMAIN candidates
      /\ candidates'[turn] = d
      /\ \A k \in DOMAIN candidates : k # turn => candidates'[k] = candidates[k]
    BY <1>2, <1>4, ExceptList DEF SelectionInv, d
<1>7. \A k \in DOMAIN candidates' : CandidateOK(candidates'[k])
    BY <1>5, <1>6 DEF SelectionInv
<1>8. \A k \in DOMAIN candidates' : CandidateOK(candidates[k])'
    BY <1>1, <1>7 DEF CandidateOK, MatchesOK, MatchOK, RequiredRoles, RelevantFor
<1>9. \A k \in DOMAIN candidates : (k < turn' <=> (k < turn \/ k = turn)) /\ ~(turn < turn)
    BY <1>1, <1>2 DEF Positive
<1>10. ASSUME NEW k \in DOMAIN candidates'
       PROVE  IF k < turn' THEN CitesSelected(candidates[k])'
              ELSE candidates'[k].evidence = Unresolved(candidates'[k].id)
  <2>1. CASE k = turn
      BY <1>2, <1>5, <1>6, <1>9, <2>1 DEF CitesSelected
  <2>2. CASE k # turn
    <3>1. IF k < turn THEN CitesSelected(candidates[k])
          ELSE candidates[k].evidence = Unresolved(candidates[k].id)
        BY <1>1, <1>6 DEF SelectionInv
    <3>2. ElementsOf(evidence) \subseteq ElementsOf(evidence')
        BY <1>5
    <3>3. candidates'[k] = candidates[k] /\ (k < turn' <=> k < turn)
        BY <1>6, <1>9, <2>2
    <3> QED  BY <3>1, <3>2, <3>3 DEF CitesSelected
  <2> QED  BY <2>1, <2>2
<1>11. turn' \in Positive
    BY <1>1 DEF Positive
<1>12. SelectionInv'
    BY <1>1, <1>5, <1>6, <1>8, <1>10, <1>11 DEF SelectionInv, Cited
<1>13. ASSUME NEW e \in ElementsOf(evidence') PROVE Traced(e)'
  <2>1. CASE e \in new
      BY <1>2, <1>5, <1>6, <1>9, <2>1 DEF Traced
  <2>2. CASE e \in ElementsOf(evidence)
    <3>1. Traced(e)
        BY <2>2 DEF AllTraced
    <3>2. CASE \E k \in DOMAIN candidates : k < turn /\ e \in ElementsOf(candidates[k].evidence)
        BY <1>6, <1>9, <3>2 DEF Traced
    <3> QED  BY <1>1, <3>1, <3>2 DEF Traced
  <2> QED  BY <1>5, <2>1, <2>2
<1> QED  BY <1>12, <1>13 DEF AllTraced

----------------------------------------------------------------------------
(* The traversal: what it reaches, and from where.                         *)

Early == {"plan", "search", "select", "cite"}

\* An element of the queue is reached from its root, a seed of the issue.
QueuedOK(x) ==
    /\ x.depth \in 0 .. RefDepth /\ x.root \in Seeds(walk.issue) /\ x.at \in Elements
    /\ x.at \in ReachedFrom({x.root})[x.depth]

\* A link being followed starts at an element reached from its root.
RowOK(x) ==
    /\ x.depth \in 1 .. RefDepth /\ x.root \in Seeds(walk.issue)
    /\ x.source \in ReachedFrom({x.root})[x.depth - 1]
    /\ \E l \in Links[x.source] : l.target = x.target

HitOK(x) ==
    /\ x.target \in Indexed /\ x.root \in Seeds(walk.issue)
    /\ x.target \in ReachedFrom({x.root})[RefDepth]

WalkOK ==
    /\ DOMAIN walk = {"issue", "queue", "rows", "visited", "hits"}
    /\ IsList(walk.queue) /\ \A x \in ElementsOf(walk.queue) : QueuedOK(x)
    /\ IsList(walk.rows) /\ \A x \in ElementsOf(walk.rows) : RowOK(x)
    /\ IsFiniteSet(walk.hits) /\ \A x \in walk.hits : HitOK(x)

\* A reference binds selected evidence to a match of the selected evidence it
\* was reached from.
ReferenceOK(r) ==
    /\ r.evidence \in ElementsOf(evidence) /\ r.source \in ElementsOf(evidence)
    /\ r.match \in SeedMatches(r.match.issue, r.source)
    /\ r.evidence \in ReachedFrom({r.source})[RefDepth]

ExpansionInv ==
    /\ WalkOK
    /\ \A r \in references : ReferenceOK(r)
    /\ phase \in Early =>
          walk.queue = <<>> /\ walk.rows = <<>> /\ walk.hits = {} /\ references = {}

\* Only the traversal itself changes what is known of it.
LEMMA ExpansionKept ==
    ASSUME ExpansionInv, UNCHANGED <<walk, candidates, evidence, references>>,
           phase' \in Early => phase \in Early
    PROVE  ExpansionInv'
<1>1. /\ walk' = walk /\ candidates' = candidates /\ evidence' = evidence
      /\ references' = references
    OBVIOUS
<1>2. WalkOK'
  <2>1. Seeds(walk.issue)' = Seeds(walk.issue)
      BY <1>1 DEF Seeds, SeedMatches
  <2>2. \A x : QueuedOK(x)' <=> QueuedOK(x)
      BY <2>1 DEF QueuedOK
  <2>3. \A x : RowOK(x)' <=> RowOK(x)
      BY <2>1 DEF RowOK
  <2>4. \A x : HitOK(x)' <=> HitOK(x)
      BY <2>1 DEF HitOK
  <2> QED  BY <1>1, <2>2, <2>3, <2>4 DEF ExpansionInv, WalkOK
<1>3. \A r \in references' : ReferenceOK(r)'
    BY <1>1 DEF ExpansionInv, ReferenceOK, SeedMatches
<1> QED  BY <1>1, <1>2, <1>3 DEF ExpansionInv

\* Nothing has been reached before the traversal starts.
LEMMA EmptyWalk ==
    ASSUME ExpansionInv, walk' = walk, references' = references,
           phase \in Early
    PROVE  ExpansionInv'
<1>1. /\ walk.queue = <<>> /\ walk.rows = <<>> /\ walk.hits = {} /\ references = {}
    BY DEF ExpansionInv
<1>2. walk'.queue = <<>> /\ walk'.rows = <<>> /\ walk'.hits = {} /\ references' = {}
    BY <1>1
<1>3. WalkOK'
    BY <1>2, SingleElements DEF ExpansionInv, WalkOK
<1> QED  BY <1>2, <1>3 DEF ExpansionInv

\* A list with every element mapped.
LEMMA MappedList ==
    ASSUME NEW s, IsList(s), NEW f, f = [k \in DOMAIN s |-> f[k]]
    PROVE  IsList(f) /\ DOMAIN f = DOMAIN s
<1>1. Len(s) \in Nat /\ DOMAIN s = 1 .. Len(s)
    BY Lists DEF IsList
<1>2. f = [k \in 1 .. Len(s) |-> f[k]]
    BY <1>1
<1> QED  BY <1>1, <1>2, ListOfFunction

\* An order of a whole finite set.
LEMMA WholeOrder ==
    ASSUME NEW S, IsFiniteSet(S), NEW s \in Orders(S, Cardinality(S))
    PROVE  IsList(s) /\ ElementsOf(s) \subseteq S /\ s \in Seq(S)
<1>1. Cardinality(S) \in Nat
    BY FS_CardinalityType
<1>2. AtMost(Cardinality(S), Cardinality(S)) = Cardinality(S)
    BY DEF AtMost
<1>3. s \in Seq(S) /\ IsList(s)
    BY <1>1, <1>2, OrderFacts
<1> QED  BY <1>3, Lists

\* A traversal starts at seeds of its issue.
LEMMA StartTraversalKeeps ==
    ASSUME SelectionInv, ExpansionInv, StartTraversal
    PROVE  ExpansionInv'
<1> DEFINE i == walk.issue + 1
           S == Seeds(i)
<1>1. PICK seeds \in SeedOrders(i) :
          walk' = [issue |-> i,
                   queue |-> [k \in DOMAIN seeds |->
                                [at |-> seeds[k], depth |-> 0, root |-> seeds[k]]],
                   rows |-> <<>>, visited |-> S, hits |-> {}]
    BY DEF StartTraversal
<1>2. /\ phase = "expand" /\ phase' = "expand" /\ candidates' = candidates
      /\ evidence' = evidence /\ references' = references
    BY DEF StartTraversal, selectionVars
<1>3. S \subseteq ElementsOf(evidence) /\ S \subseteq Elements
    BY DEF Seeds, SelectionInv
<1>4. IsFiniteSet(S)
    BY <1>3, PolicyAssumption, FS_Subset
<1>5. seeds \in Orders(S, Cardinality(S))
    BY DEF SeedOrders
<1> DEFINE queue == [k \in DOMAIN seeds |-> [at |-> seeds[k], depth |-> 0, root |-> seeds[k]]]
<1>7. walk'.queue = queue /\ walk'.rows = <<>> /\ walk'.hits = {} /\ walk'.issue = i
      /\ DOMAIN walk' = {"issue", "queue", "rows", "visited", "hits"}
    BY <1>1
<1> HIDE DEF i
<1>8. Seeds(walk.issue)' = S
    BY <1>2, <1>7 DEF Seeds, SeedMatches
<1> HIDE DEF S
<1>9. IsList(seeds) /\ ElementsOf(seeds) \subseteq S
    BY <1>4, <1>5, WholeOrder
<1>10. IsList(queue)
    BY <1>9, MappedList
<1>11. ASSUME NEW x \in ElementsOf(queue) PROVE QueuedOK(x)'
  <2>1. PICK k \in DOMAIN seeds : x = [at |-> seeds[k], depth |-> 0, root |-> seeds[k]]
      BY DEF ElementsOf
  <2>2. x.at \in S /\ x.root = x.at /\ x.depth = 0
      BY <1>9, <2>1 DEF ElementsOf
  <2>3. x.at \in ReachedFrom({x.root})[x.depth] /\ x.depth \in 0 .. RefDepth
    <3>1. ReachedFrom({x.root})[0] = {x.root} /\ RefDepth \in Nat
        BY ReachedSteps
    <3> QED  BY <2>2, <3>1
  <2> QED  BY <1>3, <1>8, <2>2, <2>3 DEF QueuedOK
<1> HIDE DEF queue
<1>12. IsList(walk'.rows) /\ ElementsOf(walk'.rows) = {} /\ IsFiniteSet(walk'.hits)
    BY <1>7, SingleElements, FS_EmptySet DEF IsList
<1>13. WalkOK'
    BY <1>7, <1>10, <1>11, <1>12 DEF WalkOK
<1>14. \A r \in references' : ReferenceOK(r)'
    BY <1>2 DEF ExpansionInv, ReferenceOK, SeedMatches
<1> QED  BY <1>2, <1>13, <1>14 DEF ExpansionInv, Early

\* What a step of the traversal leaves alone.
LEMMA TraversalFrame ==
    ASSUME TakeSource \/ FollowLink
    PROVE  /\ phase = "expand" /\ phase' = "expand"
           /\ candidates' = candidates /\ evidence' = evidence /\ references' = references
BY DEF TakeSource, FollowLink, selectionVars

\* A step inside the traversal of an issue that keeps its parts in order.
LEMMA WalkStep ==
    ASSUME ExpansionInv, TakeSource \/ FollowLink, walk'.issue = walk.issue,
           DOMAIN walk' = {"issue", "queue", "rows", "visited", "hits"},
           IsList(walk'.queue), \A x \in ElementsOf(walk'.queue) : QueuedOK(x),
           IsList(walk'.rows), \A x \in ElementsOf(walk'.rows) : RowOK(x),
           IsFiniteSet(walk'.hits), \A x \in walk'.hits : HitOK(x)
    PROVE  ExpansionInv'
<1>1. /\ phase' = "expand" /\ candidates' = candidates /\ evidence' = evidence
      /\ references' = references
    BY TraversalFrame
<1>2. Seeds(walk.issue)' = Seeds(walk.issue)
    BY <1>1 DEF Seeds, SeedMatches
<1>3. \A x : QueuedOK(x)' <=> QueuedOK(x)
    BY <1>2 DEF QueuedOK
<1>4. \A x : RowOK(x)' <=> RowOK(x)
    BY <1>2 DEF RowOK
<1>5. \A x : HitOK(x)' <=> HitOK(x)
    BY <1>2 DEF HitOK
<1>6. WalkOK'
    BY <1>3, <1>4, <1>5 DEF WalkOK
<1>7. \A r \in references' : ReferenceOK(r)'
    BY <1>1 DEF ExpansionInv, ReferenceOK, SeedMatches
<1> QED  BY <1>1, <1>6, <1>7 DEF ExpansionInv, Early

\* The rest of a list.
LEMMA TailList ==
    ASSUME NEW s, IsList(s), s # <<>>
    PROVE  /\ IsList(Tail(s)) /\ ElementsOf(Tail(s)) \subseteq ElementsOf(s)
           /\ Head(s) \in ElementsOf(s)
<1> DEFINE S == ElementsOf(s)
<1>1. s \in Seq(S)
    BY DEF IsList
<1> HIDE DEF S
<1>2. Tail(s) \in Seq(S) /\ Head(s) \in S
    BY <1>1, HeadTailProperties
<1>3. IsList(Tail(s)) /\ ElementsOf(Tail(s)) \subseteq S
    BY <1>2, Lists
<1> QED  BY <1>2, <1>3 DEF S

\* The links of the next element lead on from what was reached.
LEMMA TakeSourceKeeps ==
    ASSUME SelectionInv, ExpansionInv, TakeSource
    PROVE  ExpansionInv'
<1> DEFINE first == Head(walk.queue)
<1>1. PICK rows \in IF first.depth >= RefDepth THEN {<<>>} ELSE Rows(first.at) :
          walk' = [walk EXCEPT !.queue = Tail(@),
                     !.rows = [k \in DOMAIN rows |->
                                 [source |-> first.at, target |-> rows[k].target,
                                  type |-> rows[k].type, depth |-> first.depth + 1,
                                  root |-> first.root]]]
    BY DEF TakeSource
<1>2. walk.queue # <<>> /\ walk.rows = <<>>
    BY DEF TakeSource
<1>3. DOMAIN walk = {"issue", "queue", "rows", "visited", "hits"}
    BY DEF ExpansionInv, WalkOK
<1> DEFINE f == [k \in DOMAIN rows |->
                   [source |-> first.at, target |-> rows[k].target,
                    type |-> rows[k].type, depth |-> first.depth + 1,
                    root |-> first.root]]
<1>4. /\ DOMAIN walk' = {"issue", "queue", "rows", "visited", "hits"}
      /\ walk'.issue = walk.issue /\ walk'.queue = Tail(walk.queue)
      /\ walk'.rows = f /\ walk'.hits = walk.hits
    BY <1>1, <1>3
<1>5. IsList(walk'.queue) /\ ElementsOf(walk'.queue) \subseteq ElementsOf(walk.queue)
      /\ first \in ElementsOf(walk.queue)
    BY <1>2, <1>4, TailList DEF ExpansionInv, WalkOK
<1>6. QueuedOK(first) /\ \A x \in ElementsOf(walk'.queue) : QueuedOK(x)
    BY <1>5 DEF ExpansionInv, WalkOK
<1> HIDE DEF first
<1>7. IsList(rows) /\ (rows # <<>> => first.depth < RefDepth /\ ElementsOf(rows) \subseteq Links[first.at])
  <2>0. first.depth \in Nat /\ RefDepth \in Nat
      BY <1>6, ReachedSteps DEF QueuedOK
  <2>1. CASE first.depth >= RefDepth
      BY <1>1, <2>1, SingleElements DEF IsList
  <2>2. CASE ~(first.depth >= RefDepth)
    <3> DEFINE S == Links[first.at]
    <3>1. PICK s \in Orders(S, Cardinality(S)) : rows = First(s, RefFanout)
        BY <1>1, <2>2 DEF Rows, LinkOrders
    <3>2. IsFiniteSet(S)
        BY <1>6, PolicyAssumption DEF QueuedOK
    <3>3. RefFanout \in Int
        BY PolicyAssumption
    <3> HIDE DEF S
    <3>4. s \in Seq(S)
        BY <3>2, WholeOrder
    <3>5. rows \in Seq(S)
        BY <3>1, <3>3, <3>4, FirstList
    <3>6. IsList(rows) /\ ElementsOf(rows) \subseteq S
        BY <3>5, Lists
    <3> QED  BY <2>0, <2>2, <3>6 DEF S
  <2> QED  BY <2>1, <2>2
<1>8. IsList(f)
    BY <1>7, MappedList
<1>9. ASSUME NEW x \in ElementsOf(f) PROVE RowOK(x)
  <2>1. PICK k \in DOMAIN rows : x = f[k]
      BY DEF ElementsOf
  <2>2. /\ x.source = first.at /\ x.target = rows[k].target /\ x.depth = first.depth + 1
        /\ x.root = first.root
      BY <2>1
  <2>3. rows # <<>>
      BY SingleElements DEF ElementsOf
  <2>4. rows[k] \in Links[first.at] /\ first.depth < RefDepth
      BY <1>7, <2>3 DEF ElementsOf
  <2>5. first.depth \in Nat /\ RefDepth \in Nat
      BY <1>6, ReachedSteps DEF QueuedOK
  <2>6. x.depth \in 1 .. RefDepth /\ x.depth - 1 = first.depth
      BY <2>2, <2>4, <2>5
  <2> QED  BY <1>6, <2>2, <2>4, <2>6 DEF RowOK, QueuedOK
<1> HIDE DEF f
<1>10. IsList(walk'.rows) /\ \A x \in ElementsOf(walk'.rows) : RowOK(x)
    BY <1>4, <1>8, <1>9
<1>11. IsFiniteSet(walk'.hits) /\ \A x \in walk'.hits : HitOK(x)
    BY <1>4 DEF ExpansionInv, WalkOK
<1> QED  BY <1>4, <1>5, <1>6, <1>10, <1>11, WalkStep

\* A followed link reaches one step further.
LEMMA FollowLinkKeeps ==
    ASSUME SelectionInv, ExpansionInv, FollowLink
    PROVE  ExpansionInv'
<1> DEFINE link == Head(walk.rows)
           seen == [walk EXCEPT !.rows = Tail(@), !.visited = @ \cup {link.target}]
           next == [at |-> link.target, depth |-> link.depth, root |-> link.root]
<1>1. walk.rows # <<>>
    BY DEF FollowLink
<1>2. \/ walk' = seen
      \/ /\ link.target \in Indexed /\ ~StaleRevision(link.source, link.target)
         /\ walk' = [seen EXCEPT !.hits = @ \cup {link}, !.queue = Append(@, next)]
    BY DEF FollowLink
<1>3. DOMAIN walk = {"issue", "queue", "rows", "visited", "hits"}
    BY DEF ExpansionInv, WalkOK
<1>4. /\ DOMAIN walk' = {"issue", "queue", "rows", "visited", "hits"}
      /\ walk'.issue = walk.issue /\ walk'.rows = Tail(walk.rows)
      /\ \/ walk'.queue = walk.queue /\ walk'.hits = walk.hits
         \/ /\ link.target \in Indexed /\ ~StaleRevision(link.source, link.target)
            /\ walk'.queue = Append(walk.queue, next) /\ walk'.hits = walk.hits \cup {link}
    BY <1>2, <1>3
<1>5. IsList(walk'.rows) /\ ElementsOf(walk'.rows) \subseteq ElementsOf(walk.rows)
      /\ link \in ElementsOf(walk.rows)
    BY <1>1, <1>4, TailList DEF ExpansionInv, WalkOK
<1>6. RowOK(link) /\ \A x \in ElementsOf(walk'.rows) : RowOK(x)
    BY <1>5 DEF ExpansionInv, WalkOK
<1>7. next.at = link.target /\ next.depth = link.depth /\ next.root = link.root
    OBVIOUS
<1> HIDE DEF link, seen, next
<1>8. /\ IsList(walk.queue) /\ \A x \in ElementsOf(walk.queue) : QueuedOK(x)
      /\ IsFiniteSet(walk.hits) /\ \A x \in walk.hits : HitOK(x)
    BY DEF ExpansionInv, WalkOK
<1>9. CASE walk'.queue = walk.queue /\ walk'.hits = walk.hits
    BY <1>4, <1>5, <1>6, <1>8, <1>9, WalkStep
<1>10. CASE /\ link.target \in Indexed /\ ~StaleRevision(link.source, link.target)
            /\ walk'.queue = Append(walk.queue, next) /\ walk'.hits = walk.hits \cup {link}
  <2> DEFINE R == ReachedFrom({link.root})
  <2>1. /\ link.depth \in 1 .. RefDepth /\ link.source \in R[link.depth - 1]
        /\ \E l \in Links[link.source] : l.target = link.target
      BY <1>6 DEF RowOK
  <2>2. link.target \in LinkedFrom(R[link.depth - 1])
      BY <1>10, <2>1 DEF LinkedFrom
  <2>3. link.target \in R[link.depth]
    <3>1. R[link.depth] = R[link.depth - 1] \cup LinkedFrom(R[link.depth - 1])
        BY <2>1, ReachedSteps
    <3> QED  BY <2>2, <3>1
  <2>4. link.depth \in 0 .. RefDepth
      BY <2>1, ReachedSteps
  <2>5. link.target \in R[RefDepth]
      BY <2>3, <2>4, ReachedGrows
  <2>6. link.target \in Elements
      BY <1>10, PolicyAssumption
  <2>7. QueuedOK(next)
      BY <1>6, <1>7, <2>3, <2>4, <2>6 DEF QueuedOK, RowOK
  <2>8. HitOK(link)
      BY <1>6, <1>10, <2>5 DEF HitOK, RowOK
  <2> HIDE DEF R
  <2>9. IsList(walk'.queue) /\ ElementsOf(walk'.queue) = ElementsOf(walk.queue) \cup {next}
      BY <1>8, <1>10, AppendList
  <2>10. IsFiniteSet(walk'.hits)
      BY <1>8, <1>10, FS_AddElement
  <2>11. \A x \in ElementsOf(walk'.queue) : QueuedOK(x)
      BY <1>8, <2>7, <2>9
  <2>12. \A x \in walk'.hits : HitOK(x)
      BY <1>8, <1>10, <2>8
  <2> QED  BY <1>4, <1>5, <1>6, <2>9, <2>10, <2>11, <2>12, WalkStep
<1> QED  BY <1>4, <1>9, <1>10

\* The evidence the hits of a traversal add.
LEMMA HitTargets ==
    ASSUME ExpansionInv, SelectionInv, NEW order \in HitOrders,
           NEW targets, targets = [k \in DOMAIN order |-> order[k].target]
    PROVE  /\ IsList(targets)
           /\ \A e \in ElementsOf(targets) : \E h \in walk.hits : e = h.target
           /\ IsList(evidence \o Admitted(targets))
           /\ ElementsOf(evidence \o Admitted(targets)) =
                ElementsOf(evidence) \cup ElementsOf(Admitted(targets))
           /\ ElementsOf(Admitted(targets)) \subseteq ElementsOf(targets)
<1>1. order \in Orders(walk.hits, Cardinality(walk.hits)) /\ IsFiniteSet(walk.hits)
    BY DEF HitOrders, ExpansionInv, WalkOK
<1>2. IsList(order) /\ ElementsOf(order) \subseteq walk.hits
    BY <1>1, WholeOrder
<1>3. targets = [k \in DOMAIN order |-> targets[k]]
    OBVIOUS
<1>4. IsList(targets) /\ DOMAIN targets = DOMAIN order
    BY <1>2, <1>3, MappedList
<1>5. \A e \in ElementsOf(targets) : \E h \in walk.hits : e = h.target
    BY <1>2, <1>4 DEF ElementsOf
<1> QED  BY <1>4, <1>5, AdmittedFacts DEF SelectionInv

\* The references of a traversal were reached from their seed.
LEMMA EndTraversalKeeps ==
    ASSUME SearchInv, SelectionInv, AllTraced, ExpansionInv, EndTraversal
    PROVE  SelectionInv' /\ AllTraced' /\ ExpansionInv'
<1> DEFINE i == walk.issue
<1>1. PICK order \in HitOrders :
       LET targets == [k \in DOMAIN order |-> order[k].target]
           kept == ElementsOf(evidence) \cup ElementsOf(Admitted(targets))
       IN  /\ evidence' = evidence \o Admitted(targets)
           /\ references' = references \cup UNION
                {{[evidence |-> h.target, source |-> h.root, match |-> m] :
                     m \in SeedMatches(i, h.root)} :
                 h \in {x \in walk.hits : x.target \in kept}}
    BY DEF EndTraversal
<1> DEFINE targets == [k \in DOMAIN order |-> order[k].target]
           new == ElementsOf(Admitted(targets))
           kept == ElementsOf(evidence) \cup new
<1>2. /\ phase = "expand" /\ phase' = "expand" /\ plan' = plan /\ turn' = turn
      /\ candidates' = candidates
      /\ walk' = [walk EXCEPT !.queue = <<>>, !.rows = <<>>, !.hits = {}]
    BY DEF EndTraversal
<1>3. /\ IsList(evidence') /\ ElementsOf(evidence') = kept
      /\ \A e \in new : \E h \in walk.hits : e = h.target
    BY <1>1, HitTargets
<1>4. ASSUME NEW r \in references' \ references
      PROVE  \E h \in walk.hits : \E m \in SeedMatches(i, h.root) :
                /\ h.target \in kept
                /\ r = [evidence |-> h.target, source |-> h.root, match |-> m]
  <2> DEFINE of(h) == {[evidence |-> h.target, source |-> h.root, match |-> m] :
                          m \in SeedMatches(i, h.root)}
             H == {x \in walk.hits : x.target \in kept}
  <2>1. r \in UNION {of(h) : h \in H}
      BY <1>1, <1>4
  <2> HIDE DEF of, H
  <2>2. PICK h \in H : r \in of(h)
      BY <2>1
  <2> QED  BY <2>2 DEF of, H
<1>5. ASSUME NEW h \in walk.hits, h.target \in kept, NEW m \in SeedMatches(i, h.root)
      PROVE  [evidence |-> h.target, source |-> h.root, match |-> m] \in references'
  <2> DEFINE of(x) == {[evidence |-> x.target, source |-> x.root, match |-> n] :
                          n \in SeedMatches(i, x.root)}
             H == {x \in walk.hits : x.target \in kept}
  <2>1. references' = references \cup UNION {of(x) : x \in H}
      BY <1>1
  <2>2. h \in H /\ [evidence |-> h.target, source |-> h.root, match |-> m] \in of(h)
      BY <1>5
  <2> HIDE DEF of, H
  <2> QED  BY <2>1, <2>2
<1>6. references \subseteq references'
    BY <1>1
<1> HIDE DEF targets, new, kept
<1>7. \A x \in walk.hits : /\ HitOK(x) /\ x.root \in ElementsOf(evidence)
                           /\ SeedMatches(i, x.root) # {} /\ x.target \in Elements
    BY PolicyAssumption DEF ExpansionInv, WalkOK, HitOK, Seeds
<1>8. kept = ElementsOf(evidence) \cup new
    BY DEF kept
<1>9. ElementsOf(evidence') \subseteq Elements
    BY <1>3, <1>7, <1>8 DEF SelectionInv
<1>10. SelectionInv'
  <2>1. \A k \in DOMAIN candidates' : CandidateOK(candidates[k])'
      BY <1>2, CandidatesKept DEF SelectionInv
  <2>2. \A k \in DOMAIN candidates' : CitesSelected(candidates[k])'
      BY <1>2, <1>3, <1>8 DEF SelectionInv, CitesSelected, Cited
  <2> QED  BY <1>2, <1>3, <1>9, <2>1, <2>2 DEF SelectionInv
<1>11. ASSUME NEW e \in ElementsOf(evidence') PROVE Traced(e)'
  <2>1. CASE e \in ElementsOf(evidence)
    <3>1. Traced(e)
        BY <2>1 DEF AllTraced
    <3> QED  BY <1>2, <1>6, <3>1 DEF Traced
  <2>2. CASE e \in new
    <3>1. PICK h \in walk.hits : e = h.target
        BY <1>3, <2>2
    <3>2. PICK m \in SeedMatches(i, h.root) : TRUE
        BY <1>7
    <3>3. [evidence |-> h.target, source |-> h.root, match |-> m] \in references'
        BY <1>5, <1>8, <2>2, <3>1
    <3>4. \E r \in references' : r.evidence = e
        BY <3>1, <3>3
    <3> QED  BY <3>4 DEF Traced
  <2> QED  BY <1>3, <1>8, <2>1, <2>2
<1>12. ASSUME NEW r \in references' PROVE ReferenceOK(r)'
  <2>1. CASE r \in references
      BY <1>2, <1>3, <1>8, <2>1 DEF ExpansionInv, ReferenceOK, SeedMatches
  <2>2. CASE r \notin references
    <3>0. PICK h \in walk.hits : \E m \in SeedMatches(i, h.root) :
              /\ h.target \in kept
              /\ r = [evidence |-> h.target, source |-> h.root, match |-> m]
        BY <1>4, <2>2
    <3>1. PICK m \in SeedMatches(i, h.root) :
              /\ h.target \in kept
              /\ r = [evidence |-> h.target, source |-> h.root, match |-> m]
        BY <3>0
    <3>2. r.evidence = h.target /\ r.source = h.root /\ r.match = m
        BY <3>1
    <3>3. m.issue = i
        BY DEF SeedMatches
    <3>4. r.match \in SeedMatches(r.match.issue, r.source)
        BY <3>2, <3>3
    <3>5. r.match \in SeedMatches(r.match.issue, r.source)'
        BY <1>2, <3>4 DEF SeedMatches
    <3>6. r.evidence \in ReachedFrom({r.source})[RefDepth]
        BY <1>7, <3>2 DEF HitOK
    <3> QED  BY <1>3, <1>7, <1>8, <3>1, <3>2, <3>5, <3>6 DEF ReferenceOK
  <2> QED  BY <2>1, <2>2
<1>13. WalkOK'
  <2>1. /\ DOMAIN walk' = {"issue", "queue", "rows", "visited", "hits"}
        /\ walk'.queue = <<>> /\ walk'.rows = <<>> /\ walk'.hits = {}
      BY <1>2 DEF ExpansionInv, WalkOK
  <2>2. IsList(<<>>) /\ ElementsOf(<<>>) = {} /\ IsFiniteSet({})
      BY SingleElements, FS_EmptySet DEF IsList
  <2> QED  BY <2>1, <2>2 DEF WalkOK
<1> QED  BY <1>2, <1>10, <1>11, <1>12, <1>13 DEF AllTraced, ExpansionInv, Early

----------------------------------------------------------------------------
(* What retrieval keeps.                                                   *)

EvidenceInv == SearchInv /\ SelectionInv /\ AllTraced /\ ExpansionInv

\* Until the selection starts there is nothing selected.
LEMMA BeforeSelection ==
    ASSUME EvidenceInv,
           PlanQuestion \/ SearchStage \/ EndRequest \/ SearchElements \/ CloseBucket
    PROVE  SelectionInv' /\ AllTraced' /\ ExpansionInv'
<1>1. /\ phase \in {"plan", "search"} /\ phase' \in {"refused", "search"}
      /\ UNCHANGED <<turn, candidates, evidence, references, walk>>
      /\ PlanQuestion \/ plan' = plan
  <2>1. CASE PlanQuestion
      BY <2>1 DEF PlanQuestion, selectionVars, expansionVars
  <2>2. CASE SearchStage \/ EndRequest
      BY <2>2 DEF SearchStage, EndRequest, Searching, selectionVars, expansionVars
  <2>3. CASE SearchElements \/ CloseBucket
      BY <2>3 DEF SearchElements, CloseBucket, Searching, selectionVars, expansionVars
  <2> QED  BY <2>1, <2>2, <2>3
<1>2. ExpansionInv'
    BY <1>1, EmptyWalk DEF EvidenceInv, Early
<1>3. CASE plan' = plan
  <2>1. SameSelection
      BY <1>1, <1>3 DEF SameSelection
  <2> QED  BY <1>1, <1>2, <2>1, SelectionKept DEF EvidenceInv, Cited
<1>4. CASE PlanQuestion
  <2>1. candidates = <<>> /\ evidence = <<>>
      BY <1>4 DEF PlanQuestion, EvidenceInv, SearchInv, SelectionInv
  <2>2. candidates' = <<>> /\ evidence' = <<>> /\ turn' \in Positive
      BY <1>1, <2>1 DEF EvidenceInv, SelectionInv
  <2>3. IsList(<<>>) /\ ElementsOf(<<>>) = {} /\ DOMAIN <<>> = {}
      BY SingleElements DEF IsList
  <2> QED  BY <1>2, <2>2, <2>3 DEF SelectionInv, AllTraced
<1> QED  BY <1>1, <1>3, <1>4

\* Every step of retrieval keeps where the evidence comes from.
LEMMA EvidenceStep == ASSUME EvidenceInv, RetrievalNext PROVE EvidenceInv'
<1>1. SearchInv'
    BY SearchStepKeeps DEF EvidenceInv
<1>2. CASE PlanQuestion \/ SearchStage \/ EndRequest \/ SearchElements \/ CloseBucket
    BY <1>1, <1>2, BeforeSelection DEF EvidenceInv
<1>3. CASE SelectCandidate
  <2>1. phase = "select" /\ phase' = "select" /\ walk' = walk /\ references' = references
      BY <1>3 DEF SelectCandidate, expansionVars
  <2> QED  BY <1>1, <1>3, <2>1, SelectCandidateKeeps, EmptyWalk DEF EvidenceInv, Early
<1>4. CASE EndSelection
  <2>1. phase = "select" /\ walk' = walk /\ references' = references
      BY <1>4 DEF EndSelection, expansionVars
  <2> QED  BY <1>1, <1>4, <2>1, EndSelectionKeeps, EmptyWalk DEF EvidenceInv, Early
<1>5. CASE MaterializeEvidence
  <2>1. phase = "cite" /\ walk' = walk /\ references' = references
      BY <1>5 DEF MaterializeEvidence, expansionVars
  <2> QED  BY <1>1, <1>5, <2>1, MaterializeEvidenceKeeps, EmptyWalk DEF EvidenceInv, Early
<1>6. CASE EndMaterialization
  <2>1. phase = "cite" /\ walk' = walk /\ references' = references
      BY <1>6 DEF EndMaterialization, expansionVars
  <2> QED  BY <1>1, <1>6, <2>1, EndMaterializationKeeps, EmptyWalk DEF EvidenceInv, Early
<1>7. CASE EndSearch
  <2>1. /\ phase = "search" /\ phase' = "select"
        /\ UNCHANGED <<plan, turn, candidates, evidence, references, walk>>
      BY <1>7 DEF EndSearch, expansionVars
  <2>2. SameSelection
      BY <2>1 DEF SameSelection
  <2>3. SelectionInv' /\ AllTraced'
      BY <2>1, <2>2, SelectionKept DEF EvidenceInv, Cited
  <2> QED  BY <1>1, <2>1, <2>3, EmptyWalk DEF EvidenceInv, Early
<1>8. CASE StartTraversal \/ TakeSource \/ FollowLink
  <2>1. /\ phase = "expand" /\ phase' = "expand"
        /\ UNCHANGED <<plan, turn, candidates, evidence, references>>
      BY <1>8 DEF StartTraversal, TakeSource, FollowLink, selectionVars
  <2>2. SameSelection
      BY <2>1 DEF SameSelection
  <2>3. SelectionInv' /\ AllTraced'
      BY <2>1, <2>2, SelectionKept DEF EvidenceInv
  <2> QED  BY <1>1, <1>8, <2>3, StartTraversalKeeps, TakeSourceKeeps, FollowLinkKeeps DEF EvidenceInv
<1>9. CASE EndTraversal
    BY <1>1, <1>9, EndTraversalKeeps DEF EvidenceInv
<1>10. CASE EndExpansion \/ EvaluateCoverage
  <2>1. /\ phase \in {"expand", "cover"} /\ phase' \in {"cover", "request", "refused"}
        /\ UNCHANGED <<plan, turn, candidates, evidence, references, walk>>
      BY <1>10 DEF EndExpansion, EvaluateCoverage, selectionVars, expansionVars
  <2>2. SameSelection
      BY <2>1 DEF SameSelection
  <2>3. SelectionInv' /\ AllTraced'
      BY <2>1, <2>2, SelectionKept DEF EvidenceInv, Cited
  <2> QED  BY <1>1, <2>1, <2>3, ExpansionKept DEF EvidenceInv, Early
<1> QED  BY <1>2, <1>3, <1>4, <1>5, <1>6, <1>7, <1>8, <1>9, <1>10 DEF RetrievalNext

----------------------------------------------------------------------------
(* The coverage verdict: what an answered issue rests on.                  *)

\* Selected evidence of a candidate stands for the role of its match.
LEMMA DirectSeed ==
    ASSUME EvidenceInv, phase \in Cited, ElementsOf(evidence) \subseteq Boxed,
           NEW k \in DOMAIN candidates, NEW e \in ElementsOf(candidates[k].evidence),
           NEW m \in candidates[k].matches
    PROVE  /\ e \in Direct(m.issue, m.role) /\ e \in ElementsOf(evidence)
           /\ m.issue \in DOMAIN plan.issues /\ m.role \in RequiredRoles(m.issue)
<1> DEFINE c == candidates[k]
<1>1. CandidateOK(c) /\ CitesSelected(c)
    BY DEF EvidenceInv, SelectionInv
<1>2. MatchOK(m, c.id) /\ e \in SourcesOf(c.id) /\ e \in ElementsOf(evidence)
    BY <1>1 DEF CandidateOK, MatchesOK, CitesSelected
<1>3. c.id \in Clauses \cup Indexed /\ Indexed \subseteq Elements
    BY <1>1, PolicyAssumption DEF CandidateOK, Retrievable
<1>4. CASE c.id \in Elements
  <2>1. e = c.id
      BY <1>2, <1>4 DEF SourcesOf
  <2> QED  BY <1>2, <2>1 DEF MatchOK, Direct
<1>5. CASE c.id \notin Elements
  <2>1. c.id \in Clauses /\ e \in Sources[c.id] /\ Revision[e] = Revision[c.id]
      BY <1>2, <1>3, <1>5 DEF SourcesOf, CitableSources
  <2> QED  BY <1>2, <2>1 DEF MatchOK, Direct
<1> QED  BY <1>4, <1>5

\* What current links reach from evidence that stands for a role is grounded.
LEMMA ReachedGrounded ==
    ASSUME NEW i, NEW role, NEW s \in Direct(i, role), NEW e \in ReachedFrom({s})[RefDepth],
           e \in Boxed
    PROVE  e \in Grounded(i, role)
<1>1. {s} \subseteq Direct(i, role)
    OBVIOUS
<1>2. RefDepth \in 0 .. RefDepth
    BY ReachedSteps
<1>3. e \in ReachedFrom(Direct(i, role))[RefDepth]
    BY <1>1, <1>2, ReachedGrows
<1> QED  BY <1>3 DEF Grounded

\* The evidence of a candidate is grounded in the role of every match it has.
LEMMA CandidateGrounded ==
    ASSUME EvidenceInv, phase \in Cited, ElementsOf(evidence) \subseteq Boxed,
           NEW k \in DOMAIN candidates, NEW e \in ElementsOf(candidates[k].evidence),
           NEW m \in candidates[k].matches
    PROVE  /\ e \in Grounded(m.issue, m.role) /\ e \in ElementsOf(evidence)
           /\ m.issue \in DOMAIN plan.issues /\ m.role \in RequiredRoles(m.issue)
<1>1. e \in Direct(m.issue, m.role) /\ e \in ElementsOf(evidence)
      /\ m.issue \in DOMAIN plan.issues /\ m.role \in RequiredRoles(m.issue)
    BY DirectSeed
<1>2. ReachedFrom({e})[0] = {e} /\ 0 \in 0 .. RefDepth
    BY ReachedSteps
<1>3. {e} \subseteq {e} /\ e \in ReachedFrom({e})[RefDepth]
    BY <1>2, ReachedGrows
<1> QED  BY <1>1, <1>3, ReachedGrounded

\* So is the evidence a reference was followed to.
LEMMA ReferenceGrounded ==
    ASSUME EvidenceInv, phase \in Cited, ElementsOf(evidence) \subseteq Boxed,
           NEW r \in references
    PROVE  /\ r.evidence \in Grounded(r.match.issue, r.match.role)
           /\ r.evidence \in ElementsOf(evidence)
           /\ r.match.issue \in DOMAIN plan.issues
           /\ r.match.role \in RequiredRoles(r.match.issue)
<1>1. ReferenceOK(r)
    BY DEF EvidenceInv, ExpansionInv
<1>2. PICK k \in DOMAIN candidates :
          r.source \in ElementsOf(candidates[k].evidence) /\ r.match \in candidates[k].matches
    BY <1>1 DEF ReferenceOK, SeedMatches
<1>3. /\ r.source \in Direct(r.match.issue, r.match.role)
      /\ r.match.issue \in DOMAIN plan.issues
      /\ r.match.role \in RequiredRoles(r.match.issue)
    BY <1>2, DirectSeed
<1>4. r.evidence \in Boxed /\ r.evidence \in ElementsOf(evidence)
      /\ r.evidence \in ReachedFrom({r.source})[RefDepth]
    BY <1>1 DEF ReferenceOK
<1> QED  BY <1>3, <1>4, ReachedGrounded

\* What ResolvedIsSupported says of an answered issue.
Backed(i) ==
    /\ \A role \in RequiredRoles(i) :
          support[i].evidence \cap ElementsOf(evidence) \cap Grounded(i, role) # {}
    /\ \A f \in Facets(i) : \E role \in RequiredRoles(i) :
          \E e \in support[i].evidence \cap Grounded(i, role) : f \in Says[e]

\* An issue whose roles have citable evidence and whose facets have evidence is backed.
LEMMA CoverageBacked ==
    ASSUME EvidenceInv, phase \in Cited, ElementsOf(evidence) \subseteq Boxed,
           NEW i \in DOMAIN plan.issues, RequiredRoles(i) \subseteq CitationRoles(i),
           MissingFacets(i) = {}
    PROVE  /\ \A role \in RequiredRoles(i) :
                 SupportEvidence(i) \cap ElementsOf(evidence) \cap Grounded(i, role) # {}
           /\ \A f \in Facets(i) : \E role \in RequiredRoles(i) :
                 \E e \in SupportEvidence(i) \cap Grounded(i, role) : f \in Says[e]
<1>1. \A k \in DOMAIN candidates : CandidateOK(candidates[k])
    BY DEF EvidenceInv, SelectionInv
<1>2. ASSUME NEW c \in CandidatesOf(i), NEW e \in ElementsOf(c.evidence), NEW m \in c.matches,
             m.issue = i
      PROVE  /\ e \in SupportEvidence(i) \cap ElementsOf(evidence) \cap Grounded(i, m.role)
             /\ m.role \in RequiredRoles(i)
  <2>1. PICK k \in DOMAIN candidates : c = candidates[k]
      BY DEF CandidatesOf
  <2>2. e \in SupportEvidence(i)
      BY DEF SupportEvidence
  <2> QED  BY <1>2, <2>1, <2>2, CandidateGrounded
<1>3. ASSUME NEW r \in ReferencesOf(i)
      PROVE  /\ r.evidence \in SupportEvidence(i) \cap ElementsOf(evidence)
                                  \cap Grounded(i, r.match.role)
             /\ r.match.role \in RequiredRoles(i)
  <2>1. r \in references /\ r.match.issue = i
      BY DEF ReferencesOf
  <2>2. r.evidence \in SupportEvidence(i)
      BY DEF SupportEvidence
  <2> QED  BY <2>1, <2>2, ReferenceGrounded
<1>4. ASSUME NEW role \in RequiredRoles(i)
      PROVE  SupportEvidence(i) \cap ElementsOf(evidence) \cap Grounded(i, role) # {}
  <2>1. role \in CitationRoles(i)
      OBVIOUS
  <2>2. CASE \E r \in ReferencesOf(i) : role = r.match.role
      BY <1>3, <2>2
  <2>3. CASE \E c \in CandidatesOf(i) : /\ c.evidence # <<>>
                                        /\ \E m \in c.matches : m.issue = i /\ m.role = role
    <3>1. PICK c \in CandidatesOf(i) : /\ c.evidence # <<>>
                                       /\ \E m \in c.matches : m.issue = i /\ m.role = role
        BY <2>3
    <3>2. PICK m \in c.matches : m.issue = i /\ m.role = role
        BY <3>1
    <3>3. IsList(c.evidence)
        BY <1>1 DEF CandidatesOf, CandidateOK
    <3>4. Head(c.evidence) \in ElementsOf(c.evidence)
        BY <3>1, <3>3, TailList
    <3> QED  BY <1>2, <3>2, <3>4
  <2> QED  BY <2>1, <2>2, <2>3 DEF CitationRoles
<1>5. ASSUME NEW f \in Facets(i)
      PROVE  \E role \in RequiredRoles(i) :
                 \E e \in SupportEvidence(i) \cap Grounded(i, role) : f \in Says[e]
  <2>1. PICK e \in FacetEvidence(i, f) : TRUE
      BY DEF MissingFacets
  <2>2. CASE \E r \in ReferencesOf(i) : e = r.evidence /\ f \in Says[r.evidence]
    <3>1. PICK r \in ReferencesOf(i) : e = r.evidence /\ f \in Says[r.evidence]
        BY <2>2
    <3>2. /\ r.evidence \in SupportEvidence(i) \cap Grounded(i, r.match.role)
          /\ r.match.role \in RequiredRoles(i)
        BY <1>3
    <3> QED  BY <3>1, <3>2
  <2>3. CASE \E c \in CandidatesOf(i) : e \in ElementsOf(c.evidence) /\ f \in Says[e]
    <3>1. PICK c \in CandidatesOf(i) : e \in ElementsOf(c.evidence) /\ f \in Says[e]
        BY <2>3
    <3>2. PICK m \in c.matches : m.issue = i
        BY DEF CandidatesOf
    <3>3. /\ e \in SupportEvidence(i) \cap Grounded(i, m.role)
          /\ m.role \in RequiredRoles(i)
        BY <1>2, <3>1, <3>2
    <3> QED  BY <3>1, <3>3
  <2> QED  BY <2>1, <2>2, <2>3 DEF FacetEvidence
<1> QED  BY <1>4, <1>5

\* A resolved issue lacks no role and no facet.
LEMMA CompleteStatus ==
    ASSUME NEW i, Status(i).status \in {"RESOLVED", "CONDITIONAL"}
    PROVE  RequiredRoles(i) \subseteq CitationRoles(i) /\ MissingFacets(i) = {}
<1> DEFINE lacking == RequiredRoles(i) \ CitationRoles(i)
           gap == RelevanceGap(i)
           gaps == SourceGaps(i)
           m == MissingFacets(i)
<1>1. SourceGaps(i) = {}
  <2> SUFFICES ASSUME gaps # {} PROVE FALSE
      OBVIOUS
  <2>1. Status(i).status = "SOURCE_MISSING"
      BY DEF Status
  <2> QED  BY <2>1
<1>2. ~RelevanceGap(i)
  <2> SUFFICES ASSUME RelevanceGap(i) PROVE FALSE
      OBVIOUS
  <2>1. Status(i).status = "UNRESOLVED"
      BY <1>1, SMTT(60) DEF Status, RelevanceGap
  <2> QED  BY <2>1
<1>3. lacking = {}
  <2> SUFFICES ASSUME lacking # {} PROVE FALSE
      OBVIOUS
  <2>1. Status(i).status = "UNRESOLVED"
      BY <1>1, <1>2 DEF Status
  <2> QED  BY <2>1
<1>4. m = {}
  <2> SUFFICES ASSUME m # {} PROVE FALSE
      OBVIOUS
  <2>1. Status(i).status = "UNRESOLVED"
      BY <1>1, <1>2, <1>3 DEF Status
  <2> QED  BY <2>1
<1> QED  BY <1>3, <1>4

----------------------------------------------------------------------------
(* The final packet: what makes it ready.                                  *)

RetrievalPhases == {"plan", "search", "select", "cite", "expand", "cover"}

\* The invariant of the answer: the factors of a request are a number, and a
\* packet is there only when everything is done.
AnswerInv ==
    /\ PlanOK(plan)
    /\ phase = "request" => \A i \in Issues : support[i].covered \subseteq RequiredRoles(i)
    /\ phase \in {"track_a", "track_b", "finalize"} => request.factors \in Nat
    /\ packet # NotYet => phase = "done"
    /\ ReadyMeansAllAnswered

\* A ratio is a number.
LEMMA RatioNat ==
    ASSUME NEW n \in Nat, NEW d \in Nat \ {0}
    PROVE  Ratio(n, d) \in Nat
<1>1. 2 * 10000 * n + d \in Nat /\ 2 * d \in Nat \ {0}
    OBVIOUS
<1>2. \A a \in Nat, b \in Nat \ {0} : a \div b \in Nat
    OBVIOUS
<1> QED  BY <1>1, <1>2 DEF Ratio

\* The roles of the issues can be counted, and there is one.
LEMMA RolesCounted ==
    ASSUME PlanOK(plan), \A i \in Issues : support[i].covered \subseteq RequiredRoles(i)
    PROVE  /\ IsFiniteSet(Issues)
           /\ Cardinality(RolesCovered) \in Nat
           /\ Cardinality(RolesToCover) \in Nat \ {0}
<1>1. IsFiniteSet(Issues) /\ 1 \in Issues
    BY FS_Interval DEF PlanOK, Issues
<1>2. \A i \in Issues : IsFiniteSet(RequiredRoles(i)) /\ RequiredRoles(i) # {}
  <2> SUFFICES ASSUME NEW i \in Issues
               PROVE  IsFiniteSet(RequiredRoles(i)) /\ RequiredRoles(i) # {}
      OBVIOUS
  <2> DEFINE roles == plan.issues[i].roles
  <2>1. DOMAIN roles = 1 .. Len(roles) /\ Len(roles) \in Nat \ {0}
      BY DEF PlanOK, Issues
  <2>2. IsFiniteSet(DOMAIN roles)
    <3>1. PICK k \in Nat : k = Len(roles)
        BY <2>1
    <3>2. IsFiniteSet(1 .. k)
        BY FS_Interval
    <3> QED  BY <2>1, <3>1, <3>2
  <2>3. IsFiniteSet({roles[k] : k \in DOMAIN roles})
    <3> DEFINE image == [k \in DOMAIN roles |-> roles[k]]
    <3>1. image \in Surjection(DOMAIN roles, {roles[k] : k \in DOMAIN roles})
        BY DEF Surjection
    <3> QED  BY <3>1, <2>2, FS_Surjection
  <2>4. roles[1] \in RequiredRoles(i)
      BY <2>1 DEF RequiredRoles, ElementsOf
  <2> QED  BY <2>3, <2>4 DEF RequiredRoles, ElementsOf
<1>3. \A i \in Issues : IsFiniteSet({i} \X RequiredRoles(i))
    BY <1>2, FS_Singleton, FS_Product
<1>4. IsFiniteSet(RolesToCover)
  <2> DEFINE sets == {{i} \X RequiredRoles(i) : i \in Issues}
             image == [i \in Issues |-> {i} \X RequiredRoles(i)]
  <2>1. IsFiniteSet(sets)
    <3>1. image \in Surjection(Issues, sets)
        BY DEF Surjection
    <3> QED  BY <3>1, <1>1, FS_Surjection
  <2> QED  BY <2>1, <1>3, FS_UNION DEF RolesToCover
<1>5. RolesCovered \subseteq RolesToCover
    BY DEF RolesCovered, RolesToCover
<1>6. RolesToCover # {}
  <2>1. PICK role \in RequiredRoles(1) : TRUE
      BY <1>1, <1>2
  <2>2. <<1, role>> \in RolesToCover
      BY <2>1, <1>1 DEF RolesToCover
  <2> QED  BY <2>2
<1>7. IsFiniteSet(RolesCovered)
    BY <1>4, <1>5, FS_Subset
<1>8. Cardinality(RolesToCover) # 0 /\ Cardinality(RolesToCover) \in Nat
    BY <1>4, <1>6, FS_EmptySet, FS_CardinalityType
<1> QED  BY <1>1, <1>7, <1>8, FS_CardinalityType

\* The coverage factors are a number.
LEMMA FactorsNat ==
    ASSUME PlanOK(plan), \A i \in Issues : support[i].covered \subseteq RequiredRoles(i)
    PROVE  CoverageFactors \in Nat
<1> DEFINE n == Len(plan.issues)
           sourced == {i \in Issues : support[i].gaps \cap SourceGapCodes = {}}
           parsed == {i \in Issues : "PARSE_GAP" \notin support[i].gaps}
           answered == {i \in Issues : /\ support[i].status \in Complete
                                      /\ support[i].covered = RequiredRoles(i)}
           traceable == {i \in answered : support[i].covered # {}}
<1>1. n \in Nat \ {0}  BY DEF PlanOK
<1>2. \A S : S \subseteq Issues => Cardinality(S) \in Nat
    BY RolesCounted, FS_Subset, FS_CardinalityType
<1>3. /\ Cardinality(sourced) \in Nat /\ Cardinality(parsed) \in Nat
      /\ Cardinality(answered) \in Nat /\ Cardinality(traceable) \in Nat
    BY <1>2
<1>4. CoverageFactors =
        20 * Ratio(Cardinality(sourced), n) + 15 * Ratio(Cardinality(traceable), n)
          + 10 * Ratio(Cardinality(parsed), n) + 15 * Ratio(Cardinality(answered), n)
          + 15 * Ratio(Cardinality(RolesCovered), Cardinality(RolesToCover))
          + 2 * 10000
    BY DEF CoverageFactors
<1> HIDE DEF n, sourced, parsed, answered, traceable
<1>5. /\ Ratio(Cardinality(sourced), n) \in Nat /\ Ratio(Cardinality(traceable), n) \in Nat
      /\ Ratio(Cardinality(parsed), n) \in Nat /\ Ratio(Cardinality(answered), n) \in Nat
      /\ Ratio(Cardinality(RolesCovered), Cardinality(RolesToCover)) \in Nat
    BY <1>1, <1>3, RolesCounted, RatioNat
<1> QED  BY <1>4, <1>5

\* The coverage verdict covers required roles only.
LEMMA CoverageKeeps ==
    ASSUME PlanOK(plan), EvaluateCoverage
    PROVE  /\ phase' = "request" => \A i \in Issues : support'[i].covered \subseteq RequiredRoles(i)
           /\ phase' \in {"request", "refused"} /\ plan' = plan
<1>1. CASE phase' = "request"
  <2>1. support' = [i \in DOMAIN plan.issues |-> IssueSupport(i)]
      BY <1>1 DEF EvaluateCoverage
  <2>2. \A i \in Issues : support'[i].covered = RequiredRoles(i) \cap CitationRoles(i)
      BY <2>1 DEF Issues, IssueSupport
  <2> QED  BY <1>1, <2>2 DEF EvaluateCoverage
<1>2. CASE phase' # "request"
    BY <1>2 DEF EvaluateCoverage
<1> QED  BY <1>1, <1>2

\* What retrieval does to the answer: it works in the phases before the
\* request, and its last step leaves every issue a coverage of its own roles.
LEMMA RetrievalStep ==
    ASSUME RetrievalNext, PlanOK(plan)
    PROVE  /\ phase \in RetrievalPhases
           /\ phase' \in RetrievalPhases \cup {"request", "refused"}
           /\ PlanOK(plan')
           /\ phase' = "request" => /\ plan' = plan
                                    /\ \A i \in Issues :
                                          support'[i].covered \subseteq RequiredRoles(i)
<1>1. CASE PlanQuestion
  <2>1. PICK texts \in ExpansionChoices : plan' = EffectivePlan(texts)
      BY <1>1 DEF PlanQuestion
  <2>2. PlanOK(plan')
      BY <2>1, EffectivePlanOK, ExpansionAssumption
  <2>3. phase = "plan" /\ phase' \in {"refused", "search"}
      BY <1>1 DEF PlanQuestion
  <2> QED  BY <2>2, <2>3 DEF RetrievalPhases
<1>2. CASE EvaluateCoverage
  <2>1. phase = "cover"
      BY <1>2 DEF EvaluateCoverage
  <2> QED  BY <1>2, <2>1, CoverageKeeps DEF RetrievalPhases
<1>3. CASE SearchStage \/ EndRequest \/ SearchElements \/ CloseBucket \/ EndSearch
  <2>1. phase = "search" /\ phase' \in {"search", "select"} /\ plan' = plan
      BY <1>3 DEF SearchStage, EndRequest, SearchElements, CloseBucket, EndSearch, Searching
  <2> QED  BY <2>1 DEF RetrievalPhases
<1>4. CASE SelectCandidate \/ EndSelection \/ MaterializeEvidence \/ EndMaterialization
  <2>1. /\ phase \in {"select", "cite"} /\ phase' \in {"select", "cite", "cover", "expand"}
        /\ plan' = plan
      BY <1>4 DEF SelectCandidate, EndSelection, MaterializeEvidence, EndMaterialization
  <2> QED  BY <2>1 DEF RetrievalPhases
<1>5. CASE StartTraversal \/ TakeSource \/ FollowLink \/ EndTraversal \/ EndExpansion
  <2>1. phase = "expand" /\ phase' \in {"expand", "cover"} /\ plan' = plan
      BY <1>5 DEF StartTraversal, TakeSource, FollowLink, EndTraversal, EndExpansion
  <2> QED  BY <2>1 DEF RetrievalPhases
<1> QED  BY <1>1, <1>2, <1>3, <1>4, <1>5 DEF RetrievalNext

\* The confidence score is a number.
LEMMA ScoreInt ==
    ASSUME request.factors \in Nat
    PROVE  Score \in Int
<1>1. Calculated \in Nat
    BY DEF Calculated
<1> DEFINE gate == IF SemanticGate THEN 5 * 10000 ELSE 0
<1>2. gate \in Nat
    OBVIOUS
<1>3. Score = (2 * (request.factors + Calculated + gate) + 100) \div 200
    BY DEF Score
<1> HIDE DEF gate
<1>4. 2 * (request.factors + Calculated + gate) + 100 \in Nat
    BY <1>1, <1>2
<1>5. \A a \in Nat : a \div 200 \in Int
    OBVIOUS
<1> QED  BY <1>3, <1>4, <1>5

\* A gate reports nothing exactly when it does not hold.
LEMMA GateEmpty == \A code, holds : Gate(code, holds) = {} <=> ~holds
    BY DEF Gate

\* An issue is answered only with a claim about it.
LEMMA AnsweredHasClaim ==
    ASSUME NEW i, IssueResult(i) \in Complete
    PROVE  \E c \in draft.claims : i \in c.issues
<1> SUFFICES ASSUME {c \in draft.claims : i \in c.issues} = {} PROVE FALSE
    OBVIOUS
<1>1. IssueResult(i) \in {support[i].status, "UNRESOLVED", "SOURCE_MISSING"}
    BY DEF IssueResult
<1>2. support[i].status \notin Complete => IssueResult(i) = support[i].status
    BY DEF IssueResult
<1>3. support[i].status \in Complete => IssueResult(i) \in {"UNRESOLVED", "SOURCE_MISSING"}
    BY DEF IssueResult, Complete
<1> QED  BY <1>2, <1>3 DEF Complete

\* A packet without a reason to abstain: what the gates let through.
LEMMA NoReason ==
    ASSUME request.factors \in Nat, Reasons = {}
    PROVE  /\ SomeAnswered
           /\ \A r \in request.rules : r.id \in request.approved /\ ~r.missing
           /\ \A r \in request.calculations : r.status = "SUCCESS"
           /\ ~Partial => Score >= 7000
<1> DEFINE absent == (\E r \in request.rules : r.missing) \/ ~SomeAnswered
           unapproved == \E r \in request.rules : r.id \notin request.approved
           failed == \/ \E r \in request.calculations : r.status # "SUCCESS"
                     \/ \E r \in request.rules : r.status = "ENGINE_ERROR"
           low == Score < 7000 /\ ~Partial
           uncited == /\ audit.overall = "INCOMPLETE" \/ "CITATION_MISMATCH" \in FindingCodes
                      /\ ~Partial
           conflicting == draft.conflict \/ "SOURCE_CONFLICT" \in FindingCodes
           g1 == Gate("MISSING_REQUIRED_INPUT", absent)
           g2 == Gate("UNCITED_OR_UNRESOLVED_CLAIM", uncited)
           g3 == Gate("UNAPPROVED_RULE", unapproved)
           g4 == Gate("MATH_ENGINE_ERROR", failed)
           g5 == Gate("UNRESOLVED_CONFLICT", conflicting)
           g6 == Gate("TRACK_B_REJECTION", ~SemanticGate)
           g7 == Gate("LOW_CONFIDENCE", low)
<1>0. Reasons = g1 \cup g2 \cup g3 \cup g4 \cup g5 \cup g6 \cup g7
    BY DEF Reasons
<1>a. g1 = {} /\ g3 = {} /\ g4 = {} /\ g7 = {}
  <2> HIDE DEF g1, g2, g3, g4, g5, g6, g7
  <2> QED  BY <1>0
<1>1. ~absent
  <2> HIDE DEF absent
  <2> QED  BY <1>a DEF Gate
<1>2. ~unapproved
  <2> HIDE DEF unapproved
  <2> QED  BY <1>a DEF Gate
<1>3. ~failed
  <2> HIDE DEF failed
  <2> QED  BY <1>a DEF Gate
<1>4. ~low
  <2> HIDE DEF low
  <2> QED  BY <1>a DEF Gate
<1> QED  BY <1>1, <1>2, <1>3, <1>4, ScoreInt


\* A partial answer has issues of both kinds.
LEMMA PartialMeans ==
    /\ Partial => /\ \E i \in Issues : Results[i] \in Complete
                  /\ \E i \in Issues : Results[i] \notin Complete
    /\ SomeAnswered /\ ~Partial => \A i \in Issues : Results[i] \in Complete
BY DEF Partial, SomeAnswered

\* The final step keeps the packet right.
LEMMA FinalizeKeeps ==
    ASSUME request.factors \in Nat, FinalizeRun
    PROVE  ReadyMeansAllAnswered' /\ phase' = "done"
<1>1. /\ packet'.status = PacketStatus /\ packet'.results = Results
      /\ packet'.score = Score
      /\ plan' = plan /\ draft' = draft /\ request' = request
      /\ phase' = "done"
    BY DEF FinalizeRun
<1>2. Issues' = Issues
    BY <1>1 DEF Issues
<1>3. /\ PacketStatus = "READY_FOR_HUMAN_REVIEW" => Reasons = {} /\ ~Partial
      /\ PacketStatus = "PARTIALLY_RESOLVED" => Partial
    BY DEF PacketStatus
<1>4. ASSUME PacketStatus = "READY_FOR_HUMAN_REVIEW"
      PROVE  /\ \A i \in Issues : Results[i] \in Complete
                                  /\ \E c \in draft.claims : i \in c.issues
             /\ \A r \in request.rules : r.id \in request.approved /\ ~r.missing
             /\ \A r \in request.calculations : r.status = "SUCCESS"
             /\ Score >= 7000
  <2>1. /\ SomeAnswered /\ ~Partial
        /\ \A r \in request.rules : r.id \in request.approved /\ ~r.missing
        /\ \A r \in request.calculations : r.status = "SUCCESS"
        /\ Score >= 7000
      BY <1>3, <1>4, NoReason
  <2>2. \A i \in Issues : Results[i] \in Complete
      BY <2>1, PartialMeans
  <2>3. \A i \in Issues : Results[i] = IssueResult(i)
      BY DEF Results, Issues
  <2>4. \A i \in Issues : \E c \in draft.claims : i \in c.issues
      BY <2>2, <2>3, AnsweredHasClaim
  <2> QED  BY <2>1, <2>2, <2>4
<1>5. PacketStatus = "PARTIALLY_RESOLVED" => /\ \E i \in Issues : Results[i] \in Complete
                                             /\ \E i \in Issues : Results[i] \notin Complete
    BY <1>3, PartialMeans
<1> QED  BY <1>1, <1>2, <1>4, <1>5 DEF ReadyMeansAllAnswered

\* The initial states have no packet.
LEMMA PipelineInitKeeps == RetrievalInit /\ AssessmentInit => AnswerInv
<1> SUFFICES ASSUME RetrievalInit, AssessmentInit PROVE AnswerInv
    OBVIOUS
<1>1. plan \in Plans /\ phase = "plan" /\ packet = NotYet
    BY DEF RetrievalInit, AssessmentInit
<1>2. Len(plan.issues) \in 1 .. MaxIssues /\ ValidPlan(plan) /\ MaxIssues \in Nat
    BY <1>1, PlansAssumption, PolicyAssumption DEF ValidPlan
<1>3. Len(plan.issues) \in Nat \ {0}
    BY <1>2
<1>4. PlanOK(plan)
    BY <1>2, <1>3 DEF ValidPlan, PlanOK, PlanFields
<1> QED  BY <1>1, <1>4 DEF AnswerInv, ReadyMeansAllAnswered

\* Every step keeps the packet right.
LEMMA PipelineStepKeeps == AnswerInv /\ [PipelineNext]_pipelineVars => AnswerInv'
<1> SUFFICES ASSUME AnswerInv, [PipelineNext]_pipelineVars PROVE AnswerInv'
    OBVIOUS
<1> USE DEF AnswerInv
<1>1. CASE RetrievalNext /\ UNCHANGED assessmentVars
  <2>1. packet' = packet /\ request' = request
      BY <1>1 DEF assessmentVars
  <2>2. /\ phase \in RetrievalPhases
        /\ phase' \in RetrievalPhases \cup {"request", "refused"}
        /\ PlanOK(plan')
      BY <1>1, RetrievalStep
  <2>3. phase' = "request" => \A i \in Issues' : support'[i].covered \subseteq RequiredRoles(i)'
      BY <1>1, RetrievalStep DEF Issues, RequiredRoles
  <2>4. packet = NotYet
      BY <2>2 DEF RetrievalPhases
  <2>5. ReadyMeansAllAnswered'
      BY <2>1, <2>4 DEF ReadyMeansAllAnswered
  <2> QED  BY <2>1, <2>2, <2>3, <2>4, <2>5 DEF RetrievalPhases, PlanOK
<1>2. CASE BuildRequest
  <2>1. /\ phase = "request" /\ phase' = "track_a" /\ plan' = plan /\ packet' = packet
        /\ request'.factors = CoverageFactors
      BY <1>2 DEF BuildRequest
  <2>2. CoverageFactors \in Nat
      BY <2>1, FactorsNat
  <2>3. packet = NotYet
      BY <2>1
  <2>4. ReadyMeansAllAnswered'
      BY <2>1, <2>3 DEF ReadyMeansAllAnswered
  <2> QED  BY <2>1, <2>2, <2>3, <2>4 DEF PlanOK
<1>3. CASE AcceptTrackA \/ AcceptTrackB
  <2>1. /\ phase \in {"track_a", "track_b"} /\ phase' \in {"track_b", "finalize"}
        /\ plan' = plan /\ packet' = packet /\ request' = request
      BY <1>3 DEF AcceptTrackA, AcceptTrackB
  <2>2. packet = NotYet
      BY <2>1
  <2>3. ReadyMeansAllAnswered'
      BY <2>1, <2>2 DEF ReadyMeansAllAnswered
  <2> QED  BY <2>1, <2>2, <2>3 DEF PlanOK
<1>4. CASE FinalizeRun
  <2>1. phase = "finalize" /\ plan' = plan
      BY <1>4 DEF FinalizeRun
  <2> QED  BY <1>4, <2>1, FinalizeKeeps DEF PlanOK
<1>5. CASE UNCHANGED pipelineVars
  <2>1. /\ phase' = phase /\ plan' = plan /\ support' = support /\ request' = request
        /\ draft' = draft /\ packet' = packet
      BY <1>5 DEF pipelineVars, retrievalVars, assessmentVars
  <2>2. PlanOK(plan')
      BY <2>1
  <2>3. Issues' = Issues
      BY <2>1 DEF Issues
  <2>4. ReadyMeansAllAnswered'
      BY <2>1, <2>3 DEF ReadyMeansAllAnswered
  <2>5. \A i : RequiredRoles(i)' = RequiredRoles(i)
      BY <2>1 DEF RequiredRoles
  <2> QED  BY <2>1, <2>2, <2>3, <2>4, <2>5 DEF PlanOK
<1> QED  BY <1>1, <1>2, <1>3, <1>4, <1>5 DEF PipelineNext, AssessmentNext

\* A packet is READY only when every issue of its plan has an answer and a claim
\* about it, every rule is approved and complete and every calculation
\* succeeded; one that says PARTIALLY_RESOLVED has issues of both kinds
\* (llm_layer/, abstention/finalizer.py).
THEOREM ReadyMeansAllAnsweredHolds == PipelineSpec => []ReadyMeansAllAnswered
<1>1. AnswerInv => ReadyMeansAllAnswered
    BY DEF AnswerInv
<1> QED
    BY <1>1, PipelineInitKeeps, PipelineStepKeeps, PTL DEF PipelineSpec

----------------------------------------------------------------------------
(* The final packet: what its answers rest on.                             *)

Requested == {"track_a", "track_b", "finalize", "done"}
Settled == {"request"} \cup Requested

\* The verdict of every issue is there, and an answered issue is backed.
SupportInv ==
    phase \in Settled =>
        /\ ElementsOf(evidence) \subseteq Boxed
        /\ DOMAIN support = DOMAIN plan.issues
        /\ \A i \in DOMAIN plan.issues : support[i].status \in Complete => Backed(i)

\* The request carries the lineage of the selected evidence.
RequestInv ==
    phase \in Requested =>
        /\ request.evidence = ElementsOf(evidence) \cap Worded
        /\ request.lineage = [e \in ElementsOf(evidence) \cap Worded |-> Lineage(e)]

\* The draft and the audit that were accepted are valid.
TracksInv ==
    /\ phase \in {"track_b", "finalize", "done"} => StructureValid(draft) /\ IntegrityValid(draft)
    /\ phase \in {"finalize", "done"} =>
          /\ audit.overall = Overall(draft.claims, audit.claims)
          /\ audit.completeness = Completeness(draft.claims, audit.claims)

\* The basis of an answer, and what the last step reads.
LEMMA BackedKept ==
    ASSUME UNCHANGED <<plan, evidence, support>>
    PROVE  /\ \A i : Backed(i)' <=> Backed(i)
           /\ \A i, role : Grounded(i, role)' = Grounded(i, role)
           /\ \A i : Facets(i)' = Facets(i)
<1>1. plan' = plan /\ evidence' = evidence /\ support' = support
    OBVIOUS
<1>2. \A i, role : Direct(i, role)' = Direct(i, role)
    BY <1>1 DEF Direct, RelevantFor
<1>3. \A i, role : Grounded(i, role)' = Grounded(i, role)
    BY <1>2 DEF Grounded
<1>4. \A i : Facets(i)' = Facets(i) /\ RequiredRoles(i)' = RequiredRoles(i)
    BY <1>1 DEF Facets, RequiredRoles
<1>5. \A i : Backed(i)' <=> Backed(i)
    BY <1>1, <1>3, <1>4 DEF Backed
<1> QED  BY <1>3, <1>4, <1>5

\* The verdict of retrieval.
LEMMA EvaluateCoverageBacks ==
    ASSUME EvidenceInv, EvaluateCoverage
    PROVE  SupportInv'
<1> SUFFICES ASSUME phase' \in Settled PROVE SupportInv'
    BY DEF SupportInv
<1>1. /\ phase = "cover" /\ Documented /\ plan' = plan /\ evidence' = evidence
      /\ support' = [i \in DOMAIN plan.issues |-> IssueSupport(i)]
    BY DEF EvaluateCoverage, Settled, Requested, selectionVars
<1>2. phase \in Cited /\ ElementsOf(evidence) \subseteq Boxed
    BY <1>1 DEF Cited, Documented
<1>3. \A i, role : Direct(i, role)' = Direct(i, role)
    BY <1>1 DEF Direct, RelevantFor
<1>4. \A i, role : Grounded(i, role)' = Grounded(i, role)
    BY <1>3 DEF Grounded
<1>5. \A i : Facets(i)' = Facets(i) /\ RequiredRoles(i)' = RequiredRoles(i)
    BY <1>1 DEF Facets, RequiredRoles
<1>6. ASSUME NEW i \in DOMAIN plan.issues, support'[i].status \in Complete
      PROVE  Backed(i)'
  <2>1. support'[i].status = Status(i).status /\ support'[i].evidence = SupportEvidence(i)
      BY <1>1 DEF IssueSupport
  <2>2. RequiredRoles(i) \subseteq CitationRoles(i) /\ MissingFacets(i) = {}
      BY <1>6, <2>1, CompleteStatus DEF Complete
  <2>3. /\ \A role \in RequiredRoles(i) :
              SupportEvidence(i) \cap ElementsOf(evidence) \cap Grounded(i, role) # {}
        /\ \A f \in Facets(i) : \E role \in RequiredRoles(i) :
              \E e \in SupportEvidence(i) \cap Grounded(i, role) : f \in Says[e]
      BY <1>2, <2>2, CoverageBacked
  <2> QED  BY <1>1, <1>4, <1>5, <2>1, <2>3 DEF Backed
<1> QED  BY <1>1, <1>2, <1>6 DEF SupportInv

\* Selected evidence was retrieved for some issue.
LEMMA LineageThere ==
    ASSUME EvidenceInv, phase \in Cited, NEW e \in ElementsOf(evidence)
    PROVE  Lineage(e) # {}
<1>1. Traced(e)
    BY DEF EvidenceInv, AllTraced
<1>2. CASE \E r \in references : r.evidence = e
    BY <1>2 DEF Lineage
<1>3. CASE \E k \in DOMAIN candidates : e \in ElementsOf(candidates[k].evidence)
  <2>1. PICK k \in DOMAIN candidates : e \in ElementsOf(candidates[k].evidence)
      BY <1>3
  <2>2. MatchesOK(candidates[k].matches, candidates[k].id)
      BY DEF EvidenceInv, SelectionInv, CandidateOK
  <2>3. PICK m \in candidates[k].matches : m.issue \in Issues
      BY <2>2 DEF MatchesOK, MatchOK, Issues
  <2>4. m \in SeedMatches(m.issue, e)
      BY <2>1, <2>3 DEF SeedMatches
  <2> QED  BY <2>3, <2>4 DEF Lineage
<1> QED  BY <1>1, <1>2, <1>3 DEF Traced

\* What was retrieved for an issue is grounded in one of its roles.
LEMMA LineageGrounded ==
    ASSUME EvidenceInv, phase \in Cited, ElementsOf(evidence) \subseteq Boxed,
           NEW e, NEW i \in Lineage(e)
    PROVE  \E role \in RequiredRoles(i) : e \in Grounded(i, role)
<1>1. CASE \E r \in references : r.evidence = e /\ i = r.match.issue
    BY <1>1, ReferenceGrounded
<1>2. CASE SeedMatches(i, e) # {}
  <2>1. PICK m \in SeedMatches(i, e) : TRUE
      BY <1>2
  <2>2. PICK k \in DOMAIN candidates :
            e \in ElementsOf(candidates[k].evidence) /\ m \in candidates[k].matches /\ m.issue = i
      BY DEF SeedMatches
  <2> QED  BY <2>2, CandidateGrounded
<1> QED  BY <1>1, <1>2 DEF Lineage

\* A valid claim cites evidence grounded in each of its issues.
LEMMA ClaimGrounded ==
    ASSUME EvidenceInv, phase = "finalize", SupportInv, RequestInv, TracksInv,
           NEW c \in draft.claims
    PROVE  /\ \A i \in c.issues : \E role \in RequiredRoles(i) :
                 c.citations \cap Grounded(i, role) # {}
           /\ c.citations \subseteq Boxed
<1>1. /\ phase \in Cited /\ ElementsOf(evidence) \subseteq Boxed
      /\ request.evidence = ElementsOf(evidence) \cap Worded
      /\ request.lineage = [e \in ElementsOf(evidence) \cap Worded |-> Lineage(e)]
      /\ StructureValid(draft) /\ IntegrityValid(draft)
    BY DEF Cited, SupportInv, Settled, Requested, RequestInv, TracksInv
<1>2. c.citations # {} /\ c.citations \subseteq request.evidence /\ ClaimSupported(c)
    BY <1>1 DEF StructureValid, IntegrityValid
<1>3. \A e \in request.evidence : request.lineage[e] = Lineage(e) /\ e \in ElementsOf(evidence)
    BY <1>1
<1>4. PICK e0 \in request.evidence : TRUE
    BY <1>2
<1>5. request.lineage[e0] # {}
    BY <1>1, <1>3, LineageThere
<1>6. c.issues \subseteq UNION {request.lineage[e] : e \in c.citations}
    BY <1>5 , <1>2 DEF ClaimSupported
<1>7. ASSUME NEW i \in c.issues
      PROVE  \E role \in RequiredRoles(i) : c.citations \cap Grounded(i, role) # {}
  <2>1. PICK e \in c.citations : i \in request.lineage[e]
      BY <1>6
  <2>2. i \in Lineage(e)
      BY <1>2, <1>3, <2>1
  <2>3. PICK role \in RequiredRoles(i) : e \in Grounded(i, role)
      BY <1>1, <2>2, LineageGrounded
  <2> QED  BY <2>1, <2>3
<1> QED  BY <1>1, <1>2, <1>3, <1>7

\* Retrieval is over: nothing it found changes.
LEMMA EvidenceKept ==
    ASSUME EvidenceInv, UNCHANGED <<plan, keys, searchVars, selectionVars, expansionVars>>,
           phase' = phase \/ (phase \in Cited /\ phase' \in Cited)
    PROVE  EvidenceInv'
<1>1. /\ plan' = plan /\ keys' = keys /\ pos' = pos /\ found' = found /\ buckets' = buckets
      /\ turn' = turn /\ candidates' = candidates /\ evidence' = evidence
      /\ walk' = walk /\ references' = references
    BY DEF searchVars, selectionVars, expansionVars
<1>2. SameSelection
    BY <1>1 DEF SameSelection
<1>3. SelectionInv' /\ AllTraced'
    BY <1>2, SelectionKept DEF EvidenceInv, Cited
<1>4. ExpansionInv'
    BY <1>1, ExpansionKept DEF EvidenceInv, Cited, Early
<1>5. SearchInv'
  <2>1. FoundOK' /\ pos' \in Places
      BY <1>1, SameFound DEF EvidenceInv, SearchInv
  <2>2. CASE phase' # "plan"
      BY <1>1, <2>1, <2>2, SearchKept DEF EvidenceInv
  <2>3. CASE phase' = "plan"
    <3>1. phase = "plan"
        BY <2>3 DEF Cited
    <3> QED  BY <1>1, <2>1, <2>3, <3>1, SamePlan DEF EvidenceInv, SearchInv
  <2> QED  BY <2>2, <2>3
<1> QED  BY <1>3, <1>4, <1>5 DEF EvidenceInv

\* What the packet says of an issue, issue by issue.
AnswerGrounded(i) ==
    LET claims == {c \in draft.claims : i \in c.issues}
        grounded == UNION {Grounded(i, role) : role \in RequiredRoles(i)}
    IN  /\ support[i].status \in Complete
        /\ \E c \in claims : c.citations \cap grounded # {}
        /\ \A c \in claims : Audited(c) = "ACCEPT" /\ c.citations \subseteq Boxed
        /\ IF Declares
           THEN Obligations[i] \subseteq UNION {c.facets : c \in claims}
           ELSE \A f \in Facets(i) : \E e \in grounded : f \in Says[e]

\* The audit as a whole accepts only when every claim is accepted.
LEMMA OverallAccepts ==
    ASSUME NEW claims, NEW audits, Overall(claims, audits) = "ACCEPT"
    PROVE  AcceptedClaims(claims, audits) = claims
<1> DEFINE A == claims = {}
           B == \E c \in claims : audits[c].disposition = "REJECT"
           C == claims # {} /\ AcceptedClaims(claims, audits) = claims
<1>1. Overall(claims, audits) =
        CASE A -> "INCOMPLETE" [] B -> "REJECT" [] C -> "ACCEPT" [] OTHER -> "INCOMPLETE"
    BY DEF Overall
<1>2. (A \in BOOLEAN) /\ (B \in BOOLEAN) /\ (C \in BOOLEAN) /\ (A => ~B) /\ (A => ~C)
    OBVIOUS
<1>3. B => ~C
    BY DEF AcceptedClaims
<1>4. C => AcceptedClaims(claims, audits) = claims
    OBVIOUS
<1> HIDE DEF A, B, C
<1>5. C
    BY <1>1, <1>2, <1>3
<1> QED  BY <1>4, <1>5

\* The audit that passes the gate accepts every claim and completes every issue.
LEMMA GatePassed ==
    ASSUME phase = "finalize", TracksInv, SemanticGate
    PROVE  /\ \A c \in draft.claims : Audited(c) = "ACCEPT"
           /\ Declares => \A i \in Issues : Obligations[i] \subseteq
                 UNION {c.facets : c \in {x \in draft.claims : i \in x.issues}}
<1> DEFINE accepted == AcceptedClaims(draft.claims, audit.claims)
<1>1. /\ Overall(draft.claims, audit.claims) = "ACCEPT"
      /\ Completeness(draft.claims, audit.claims) = "COMPLETE"
    BY DEF TracksInv, SemanticGate
<1>2. accepted = draft.claims
    BY <1>1, OverallAccepts
<1>3. \A c \in draft.claims : Audited(c) = "ACCEPT"
    BY <1>2 DEF AcceptedClaims, Audited
<1>4. ASSUME Declares, NEW i \in Issues
      PROVE  Obligations[i] \subseteq
                UNION {c.facets : c \in {x \in draft.claims : i \in x.issues}}
  <2>1. Obligations[i] \subseteq UNION {c.facets : c \in {x \in accepted : i \in x.issues}}
      BY <1>1, <1>4 DEF Completeness
  <2> HIDE DEF accepted
  <2> QED  BY <1>2, <2>1
<1> QED  BY <1>3, <1>4

\* What a presented packet calls answered was accepted as that.
LEMMA FinalAnswer ==
    ASSUME EvidenceInv, phase = "finalize", SupportInv, RequestInv, TracksInv, SemanticGate,
           NEW i \in Issues, IssueResult(i) \in Complete
    PROVE  AnswerGrounded(i)
<1> DEFINE claims == {c \in draft.claims : i \in c.issues}
           grounded == UNION {Grounded(i, role) : role \in RequiredRoles(i)}
<1>1. support[i].status \in Complete
    BY DEF IssueResult
<1>2. PICK c \in draft.claims : i \in c.issues
    BY AnsweredHasClaim
<1>3. \E role \in RequiredRoles(i) : c.citations \cap Grounded(i, role) # {}
    BY <1>2, ClaimGrounded
<1>4. \E d \in claims : d.citations \cap grounded # {}
  <2>1. c \in claims
      BY <1>2
  <2>2. c.citations \cap grounded # {}
      BY <1>3
  <2> HIDE DEF claims, grounded
  <2> QED  BY <2>1, <2>2
<1>5. \A d \in claims : Audited(d) = "ACCEPT" /\ d.citations \subseteq Boxed
    BY GatePassed, ClaimGrounded
<1>6. Declares => Obligations[i] \subseteq UNION {d.facets : d \in claims}
    BY GatePassed
<1>7. \A f \in Facets(i) : \E e \in grounded : f \in Says[e]
  <2>1. Backed(i)
      BY <1>1 DEF SupportInv, Settled, Requested, Issues
  <2>2. \A f \in Facets(i) : \E role \in RequiredRoles(i) : \E e \in Grounded(i, role) : f \in Says[e]
      BY <2>1 DEF Backed
  <2> QED  BY <2>2
<1> HIDE DEF claims, grounded
<1> QED  BY <1>1, <1>4, <1>5, <1>6, <1>7 DEF AnswerGrounded, claims, grounded

\* A grounded answer stays grounded while what it rests on does not change.
LEMMA AnswerKept ==
    ASSUME UNCHANGED <<plan, evidence, support, draft, audit>>
    PROVE  \A i : AnswerGrounded(i)' <=> AnswerGrounded(i)
<1>1. /\ plan' = plan /\ evidence' = evidence /\ support' = support /\ draft' = draft
      /\ audit' = audit
    OBVIOUS
<1>2. /\ \A i, role : Grounded(i, role)' = Grounded(i, role)
      /\ \A i : Facets(i)' = Facets(i)
    BY <1>1, BackedKept
<1>3. \A i : RequiredRoles(i)' = RequiredRoles(i)
    BY <1>1 DEF RequiredRoles
<1>4. Obligations' = Obligations /\ (Declares' <=> Declares)
    BY <1>1 DEF Obligations, Declares
<1>5. \A c : Audited(c)' = Audited(c)
    BY <1>1 DEF Audited
<1>6. ASSUME NEW i PROVE AnswerGrounded(i)' <=> AnswerGrounded(i)
  <2> DEFINE grounded == UNION {Grounded(i, role) : role \in RequiredRoles(i)}
  <2>1. grounded' = grounded
      BY <1>2, <1>3
  <2> HIDE DEF grounded
  <2>2. AnswerGrounded(i) <=>
          /\ support[i].status \in Complete
          /\ \E c \in {d \in draft.claims : i \in d.issues} : c.citations \cap grounded # {}
          /\ \A c \in {d \in draft.claims : i \in d.issues} :
                Audited(c) = "ACCEPT" /\ c.citations \subseteq Boxed
          /\ IF Declares
             THEN Obligations[i] \subseteq
                    UNION {c.facets : c \in {d \in draft.claims : i \in d.issues}}
             ELSE \A f \in Facets(i) : \E e \in grounded : f \in Says[e]
      BY DEF AnswerGrounded, grounded
  <2>3. AnswerGrounded(i)' <=>
          /\ support'[i].status \in Complete
          /\ \E c \in {d \in draft'.claims : i \in d.issues} : c.citations \cap grounded' # {}
          /\ \A c \in {d \in draft'.claims : i \in d.issues} :
                Audited(c)' = "ACCEPT" /\ c.citations \subseteq Boxed
          /\ IF Declares'
             THEN Obligations'[i] \subseteq
                    UNION {c.facets : c \in {d \in draft'.claims : i \in d.issues}}
             ELSE \A f \in Facets(i)' : \E e \in grounded' : f \in Says[e]
      BY DEF AnswerGrounded, grounded, Complete
  <2> QED  BY <1>1, <1>2, <1>4, <1>5, <2>1, <2>2, <2>3
<1> QED  BY <1>6

\* A packet that does not abstain has passed the gate of the audit.
LEMMA PresentedPasses ==
    ASSUME PacketStatus # "ABSTAIN"
    PROVE  SemanticGate
<1>1. Reasons = {}
    BY DEF PacketStatus
<1> DEFINE g == Gate("TRACK_B_REJECTION", ~SemanticGate)
<1>2. g \subseteq Reasons
    BY DEF Reasons
<1>3. g = {}
  <2> HIDE DEF g
  <2> QED  BY <1>1, <1>2
<1> QED  BY <1>3 DEF Gate

\* The final step presents grounded answers only.
LEMMA FinalizeGrounds ==
    ASSUME EvidenceInv, SupportInv, RequestInv, TracksInv, FinalizeRun
    PROVE  AnswersAreGrounded'
<1>1. /\ phase = "finalize" /\ packet'.status = PacketStatus /\ packet'.results = Results
      /\ UNCHANGED <<plan, evidence, support, draft, audit>>
    BY DEF FinalizeRun, selectionVars
<1>2. Issues' = Issues
    BY <1>1 DEF Issues
<1>3. ASSUME Presented', NEW i \in Issues', packet'.results[i] \in Complete
      PROVE  AnswerGrounded(i)'
  <2>1. SemanticGate
      BY <1>1, <1>3, PresentedPasses DEF Presented
  <2>2. i \in Issues /\ IssueResult(i) \in Complete
      BY <1>1, <1>2, <1>3 DEF Results, Issues
  <2>3. AnswerGrounded(i)
      BY <1>1, <2>1, <2>2, FinalAnswer
  <2> QED  BY <1>1, <2>3, AnswerKept
<1> QED  BY <1>3 DEF AnswersAreGrounded, AnswerGrounded, Complete

\* The invariant of the answers.
GroundInv ==
    /\ AnswerInv /\ EvidenceInv /\ SupportInv /\ RequestInv /\ TracksInv
    /\ AnswersAreGrounded

\* Retrieval ends with the coverage verdict.
LEMMA OnlyCoverageEnds ==
    ASSUME RetrievalNext, phase' = "request"
    PROVE  EvaluateCoverage
<1>1. ~PlanQuestion
    BY DEF PlanQuestion
<1>2. ~ (SearchStage \/ EndRequest \/ SearchElements \/ CloseBucket \/ EndSearch)
    BY DEF SearchStage, EndRequest, SearchElements, CloseBucket, EndSearch, Searching
<1>3. ~ (SelectCandidate \/ EndSelection \/ MaterializeEvidence \/ EndMaterialization)
    BY DEF SelectCandidate, EndSelection, MaterializeEvidence, EndMaterialization
<1>4. ~ (StartTraversal \/ TakeSource \/ FollowLink \/ EndTraversal \/ EndExpansion)
    BY DEF StartTraversal, TakeSource, FollowLink, EndTraversal, EndExpansion
<1> QED  BY <1>1, <1>2, <1>3, <1>4 DEF RetrievalNext

\* The steps of retrieval keep the answers grounded.
LEMMA RetrievalGrounds ==
    ASSUME GroundInv, RetrievalNext, UNCHANGED assessmentVars
    PROVE  EvidenceInv' /\ SupportInv' /\ RequestInv' /\ TracksInv' /\ AnswersAreGrounded'
<1>1. /\ phase \in RetrievalPhases /\ phase' \in RetrievalPhases \cup {"request", "refused"}
      /\ packet' = packet
    BY RetrievalStep DEF GroundInv, AnswerInv, assessmentVars
<1>2. packet = NotYet
    BY <1>1 DEF GroundInv, AnswerInv, RetrievalPhases
<1>3. EvidenceInv'
    BY EvidenceStep DEF GroundInv
<1>4. phase' \notin Requested /\ (phase' \in Settled => phase' = "request")
    BY <1>1 DEF RetrievalPhases, Requested, Settled
<1>5. SupportInv'
  <2>1. CASE phase' = "request"
      BY <2>1, OnlyCoverageEnds, EvaluateCoverageBacks DEF GroundInv
  <2>2. CASE phase' # "request"
      BY <1>4, <2>2 DEF SupportInv
  <2> QED  BY <2>1, <2>2
<1> QED  BY <1>1, <1>2, <1>3, <1>4, <1>5 DEF RequestInv, TracksInv, Requested, AnswersAreGrounded,
            Presented

\* The steps of the assessment leave what retrieval found alone.
LEMMA AssessmentFrame ==
    ASSUME GroundInv, AssessmentNext
    PROVE  /\ EvidenceInv' /\ SupportInv' /\ phase \in Cited /\ phase' \in Cited
           /\ UNCHANGED <<plan, candidates, evidence, references, support>>
<1>1. /\ phase \in {"request", "track_a", "track_b", "finalize"}
      /\ phase' \in {"track_a", "track_b", "finalize", "done"}
      /\ UNCHANGED <<plan, keys, searchVars, selectionVars, expansionVars, support>>
  <2>1. CASE BuildRequest
      BY <2>1 DEF BuildRequest
  <2>2. CASE AcceptTrackA \/ AcceptTrackB
      BY <2>2 DEF AcceptTrackA, AcceptTrackB
  <2>3. CASE FinalizeRun
      BY <2>3 DEF FinalizeRun
  <2> QED  BY <2>1, <2>2, <2>3 DEF AssessmentNext
<1>2. phase \in Cited /\ phase' \in Cited /\ phase \in Settled
    BY <1>1 DEF Cited, Settled, Requested
<1>3. EvidenceInv'
    BY <1>1, <1>2, EvidenceKept DEF GroundInv
<1>4. UNCHANGED <<plan, candidates, evidence, references, support>>
    BY <1>1 DEF selectionVars, expansionVars
<1>5. SupportInv'
  <2>1. \A i : Backed(i)' <=> Backed(i)
      BY <1>4, BackedKept
  <2> QED  BY <1>2, <1>4, <2>1 DEF GroundInv, SupportInv, Complete
<1> QED  BY <1>2, <1>3, <1>4, <1>5

\* The lineage of an element while what it is read from does not change.
LEMMA LineageKept ==
    ASSUME UNCHANGED <<plan, candidates, evidence, references, support>>
    PROVE  \A e : Lineage(e)' = Lineage(e)
BY DEF Lineage, SeedMatches, Issues

\* The validity of a draft while what it is checked against does not change.
LEMMA ValidKept ==
    ASSUME plan' = plan, request' = request
    PROVE  \A d : /\ StructureValid(d)' <=> StructureValid(d)
                  /\ IntegrityValid(d)' <=> IntegrityValid(d)
<1>1. /\ Issues' = Issues /\ Obligations' = Obligations /\ (Declares' <=> Declares)
    BY DEF Issues, Obligations, Declares
<1>2. \A c : (IssuesRelevant(c)' <=> IssuesRelevant(c)) /\ (FacetsUnambiguous(c)' <=> FacetsUnambiguous(c))
    BY <1>1 DEF IssuesRelevant, FacetsUnambiguous
<1>3. \A d : StructureValid(d)' <=> StructureValid(d)
    BY <1>2 DEF StructureValid
<1>4. \A c : /\ ClaimSupported(c)' <=> ClaimSupported(c)
             /\ CalculationsSucceeded(c)' <=> CalculationsSucceeded(c)
             /\ RulesMatch(c)' <=> RulesMatch(c)
             /\ AllowedNumbers(c)' = AllowedNumbers(c)
    BY DEF ClaimSupported, CalculationsSucceeded, RulesMatch, AllowedNumbers
<1>5. \A d : IntegrityValid(d)' <=> IntegrityValid(d)
    BY <1>4 DEF IntegrityValid
<1> QED  BY <1>3, <1>5

\* The completeness of an answer while the plan and the support do not change.
LEMMA CompletenessKept ==
    ASSUME plan' = plan, support' = support
    PROVE  \A claims, audits : Completeness(claims, audits)' = Completeness(claims, audits)
<1>1. /\ Issues' = Issues /\ Obligations' = Obligations /\ (Declares' <=> Declares)
    BY DEF Issues, Obligations, Declares
<1> QED  BY <1>1 DEF Completeness

\* The request while what it was built from does not change.
LEMMA RequestKept ==
    ASSUME RequestInv, request' = request, phase \in Requested,
           UNCHANGED <<plan, candidates, evidence, references, support>>
    PROVE  RequestInv'
<1>1. \A e : Lineage(e)' = Lineage(e)
    BY LineageKept
<1> QED  BY <1>1 DEF RequestInv

\* The steps of the assessment keep the answers grounded.
LEMMA AssessmentGrounds ==
    ASSUME GroundInv, AssessmentNext
    PROVE  RequestInv' /\ TracksInv' /\ AnswersAreGrounded'
<1>1. /\ UNCHANGED <<plan, candidates, evidence, references, support>>
      /\ plan' = plan /\ support' = support
    BY AssessmentFrame
<1>2. CASE BuildRequest
  <2>1. /\ phase = "request" /\ phase' = "track_a" /\ packet' = packet
        /\ request'.evidence = ElementsOf(evidence) \cap Worded
        /\ request'.lineage = [e \in ElementsOf(evidence) \cap Worded |-> Lineage(e)]
      BY <1>2 DEF BuildRequest
  <2>2. \A e : Lineage(e)' = Lineage(e)
      BY <1>1, LineageKept
  <2>3. RequestInv'
      BY <1>1, <2>1, <2>2 DEF RequestInv
  <2>4. packet' = NotYet
      BY <2>1 DEF GroundInv, AnswerInv
  <2> QED  BY <2>1, <2>3, <2>4 DEF TracksInv, AnswersAreGrounded, Presented
<1>3. CASE AcceptTrackA
  <2>1. /\ phase = "track_a" /\ phase' = "track_b" /\ packet' = packet /\ request' = request
        /\ StructureValid(draft') /\ IntegrityValid(draft')
      BY <1>3 DEF AcceptTrackA
  <2>2. StructureValid(draft)' /\ IntegrityValid(draft)'
    <3>1. \A d : (StructureValid(d)' <=> StructureValid(d)) /\ (IntegrityValid(d)' <=> IntegrityValid(d))
        BY <1>1, <2>1, ValidKept
    <3> QED  BY <1>1, <2>1, <3>1 DEF StructureValid, IntegrityValid, IssuesRelevant, FacetsUnambiguous,
                ClaimSupported, CalculationsSucceeded, RulesMatch, AllowedNumbers, Issues, Obligations,
                Declares
  <2>3. RequestInv'
      BY <1>1, <2>1, RequestKept DEF GroundInv, Requested
  <2>4. packet' = NotYet
      BY <2>1 DEF GroundInv, AnswerInv
  <2> QED  BY <2>1, <2>2, <2>3, <2>4 DEF TracksInv, AnswersAreGrounded, Presented
<1>4. CASE AcceptTrackB
  <2>1. /\ phase = "track_b" /\ phase' = "finalize" /\ packet' = packet /\ request' = request
        /\ draft' = draft
        /\ audit'.overall = Overall(draft.claims, audit'.claims)
        /\ audit'.completeness = Completeness(draft.claims, audit'.claims)
      BY <1>4 DEF AcceptTrackB
  <2>2. StructureValid(draft)' /\ IntegrityValid(draft)'
    <3>1. StructureValid(draft) /\ IntegrityValid(draft)
        BY <2>1 DEF GroundInv, TracksInv
    <3> QED  BY <1>1, <2>1, <3>1, ValidKept
  <2>3. RequestInv'
      BY <1>1, <2>1, RequestKept DEF GroundInv, Requested
  <2>4. packet' = NotYet
      BY <2>1 DEF GroundInv, AnswerInv
  <2>5. audit'.completeness = Completeness(draft.claims, audit.claims)'
      BY <1>1, <2>1 DEF Completeness, Issues, Obligations, Declares, AcceptedClaims
  <2>6. TracksInv'
      BY <2>1, <2>2, <2>5 DEF TracksInv
  <2> QED  BY <2>3, <2>4, <2>6 DEF AnswersAreGrounded, Presented
<1>5. CASE FinalizeRun
  <2>1. /\ phase = "finalize" /\ phase' = "done" /\ request' = request /\ draft' = draft
        /\ audit' = audit
      BY <1>5 DEF FinalizeRun
  <2>2. StructureValid(draft)' /\ IntegrityValid(draft)'
    <3>1. StructureValid(draft) /\ IntegrityValid(draft)
        BY <2>1 DEF GroundInv, TracksInv
    <3> QED  BY <1>1, <2>1, <3>1, ValidKept
  <2>3. Completeness(draft.claims, audit.claims)' = Completeness(draft.claims, audit.claims)
      BY <1>1, <2>1 DEF Completeness, Issues, Obligations, Declares, AcceptedClaims
  <2>4. TracksInv'
      BY <2>1, <2>2, <2>3 DEF GroundInv, TracksInv
  <2>5. RequestInv'
      BY <1>1, <2>1, RequestKept DEF GroundInv, Requested
  <2>6. AnswersAreGrounded'
      BY <1>5, FinalizeGrounds DEF GroundInv
  <2> QED  BY <2>4, <2>5, <2>6
<1> QED  BY <1>2, <1>3, <1>4, <1>5 DEF AssessmentNext

\* The initial states are grounded.
LEMMA GroundInit == RetrievalInit /\ AssessmentInit => GroundInv
<1> SUFFICES ASSUME RetrievalInit, AssessmentInit PROVE GroundInv
    OBVIOUS
<1>1. AnswerInv
    BY PipelineInitKeeps
<1>2. /\ phase = "plan" /\ packet = NotYet /\ keys = <<>> /\ buckets = <<>> /\ candidates = <<>>
      /\ evidence = <<>> /\ turn = 1 /\ found = NoFound /\ references = {}
      /\ pos = [b |-> 1, r |-> 1, q |-> 1, s |-> 1]
      /\ walk = [issue |-> 0, queue |-> <<>>, rows |-> <<>>, visited |-> {}, hits |-> {}]
    BY DEF RetrievalInit, AssessmentInit
<1>3. IsList(<<>>) /\ ElementsOf(<<>>) = {} /\ IsFiniteSet({}) /\ DOMAIN <<>> = {}
    BY SingleElements, FS_EmptySet DEF IsList
<1>4. pos \in Places
    BY <1>2 DEF Places, Positive
<1>5. FoundOK
    BY <1>2 DEF FoundOK, NoFound
<1>6. SearchInv
    BY <1>1, <1>2, <1>3, <1>4, <1>5 DEF SearchInv, AnswerInv
<1>7. SelectionInv /\ AllTraced
    BY <1>2, <1>3 DEF SelectionInv, AllTraced, Positive
<1>8. /\ DOMAIN walk = {"issue", "queue", "rows", "visited", "hits"}
      /\ walk.queue = <<>> /\ walk.rows = <<>> /\ walk.hits = {}
    BY <1>2
<1>9. ExpansionInv
    BY <1>2, <1>3, <1>8 DEF ExpansionInv, WalkOK
<1> QED  BY <1>1, <1>2, <1>6, <1>7, <1>9 DEF GroundInv, EvidenceInv, SupportInv, RequestInv,
            TracksInv, AnswersAreGrounded, Presented, Settled, Requested

\* Every step keeps the answers grounded.
LEMMA GroundStep == GroundInv /\ [PipelineNext]_pipelineVars => GroundInv'
<1> SUFFICES ASSUME GroundInv, [PipelineNext]_pipelineVars PROVE GroundInv'
    OBVIOUS
<1>1. AnswerInv'
    BY PipelineStepKeeps DEF GroundInv
<1>2. CASE RetrievalNext /\ UNCHANGED assessmentVars
    BY <1>1, <1>2, RetrievalGrounds DEF GroundInv
<1>3. CASE AssessmentNext
    BY <1>1, <1>3, AssessmentFrame, AssessmentGrounds DEF GroundInv
<1>4. CASE UNCHANGED pipelineVars
  <2>1. /\ phase' = phase /\ request' = request /\ draft' = draft /\ audit' = audit
        /\ packet' = packet
        /\ UNCHANGED <<plan, keys, searchVars, selectionVars, expansionVars, support>>
        /\ UNCHANGED <<plan, candidates, evidence, references, support>>
      BY <1>4 DEF pipelineVars, retrievalVars, assessmentVars, selectionVars, expansionVars
  <2>2. EvidenceInv'
      BY <2>1, EvidenceKept DEF GroundInv
  <2>3. \A i : (Backed(i)' <=> Backed(i)) /\ (AnswerGrounded(i)' <=> AnswerGrounded(i))
      BY <2>1, BackedKept, AnswerKept
  <2>4. SupportInv'
      BY <2>1, <2>3 DEF GroundInv, SupportInv, Complete
  <2>5. RequestInv'
    <3>1. \A e : Lineage(e)' = Lineage(e)
        BY <2>1, LineageKept
    <3> QED  BY <2>1, <3>1 DEF GroundInv, RequestInv
  <2>6. TracksInv'
    <3>1. StructureValid(draft)' <=> StructureValid(draft)
        BY <2>1, ValidKept
    <3>2. IntegrityValid(draft)' <=> IntegrityValid(draft)
        BY <2>1, ValidKept
    <3>3. Completeness(draft.claims, audit.claims)' = Completeness(draft.claims, audit.claims)
        BY <2>1 DEF Completeness, Issues, Obligations, Declares, AcceptedClaims
    <3> QED  BY <2>1, <3>1, <3>2, <3>3 DEF GroundInv, TracksInv
  <2>7. AnswersAreGrounded'
    <3>1. Issues' = Issues /\ (Presented' <=> Presented)
        BY <2>1 DEF Issues, Presented
    <3>2. \A i \in Issues : packet.results[i] \in Complete /\ Presented => AnswerGrounded(i)
        BY DEF GroundInv, AnswersAreGrounded, AnswerGrounded
    <3>3. \A i \in Issues' : packet'.results[i] \in Complete /\ Presented' => AnswerGrounded(i)'
        BY <2>1, <2>3, <3>1, <3>2
    <3> QED  BY <3>3 DEF AnswersAreGrounded, AnswerGrounded, Complete
  <2> QED  BY <1>1, <2>2, <2>4, <2>5, <2>6, <2>7 DEF GroundInv
<1> QED  BY <1>2, <1>3, <1>4 DEF PipelineNext

\* An issue the coverage verdict answers is grounded: whatever the index answers,
\* in whatever order, and whatever the budgets cut off, each of its required roles
\* and facets has selected evidence that the corpus itself connects to a request
\* of that issue and role (retrieval/issue_bundle.py, clause_resolution.py,
\* graph.py, facets.py, coverage.py).
THEOREM ResolvedIsSupportedHolds == PipelineSpec => []ResolvedIsSupported
<1>1. GroundInv => ResolvedIsSupported
  <2> SUFFICES ASSUME GroundInv, phase = "request" PROVE ResolvedIsSupported
      BY DEF ResolvedIsSupported
  <2>1. /\ DOMAIN support = DOMAIN plan.issues
        /\ \A i \in DOMAIN support : support[i].status \in Complete => Backed(i)
      BY DEF GroundInv, SupportInv, Settled
  <2> QED  BY <2>1 DEF ResolvedIsSupported, Backed, Complete
<1> QED  BY <1>1, GroundInit, GroundStep, PTL DEF PipelineSpec

\* What a packet presents as an answer is grounded: an issue that a reviewable
\* packet calls answered has claims the audit accepted, and they rest on selected
\* evidence grounded in that issue (llm_layer/, abstention/finalizer.py).
THEOREM AnswersAreGroundedHolds == PipelineSpec => []AnswersAreGrounded
<1>1. GroundInv => AnswersAreGrounded
    BY DEF GroundInv
<1> QED  BY <1>1, GroundInit, GroundStep, PTL DEF PipelineSpec

----------------------------------------------------------------------------
(* The caps: what the round robin treats, and in which order.              *)

\* A place that is not later in the round robin has no later rank.
LEMMA RoundOrder ==
    ASSUME NEW L \in Positive, NEW j \in 1 .. L, NEW k \in 1 .. L, NEW r \in Positive,
           NEW n \in Positive, (r - 1) * L + j <= (n - 1) * L + k
    PROVE  r <= n
<1> SUFFICES ASSUME ~(r <= n) PROVE FALSE
    OBVIOUS
<1> DEFINE a == r - 1
           b == n - 1
<1>1. /\ a \in Nat /\ b \in Nat /\ L \in Nat /\ L >= 1 /\ a >= b + 1
      /\ j \in Nat /\ j >= 1 /\ k \in Nat /\ k <= L
      /\ a * L + j <= b * L + k
    BY DEF Positive
<1> HIDE DEF a, b
<1>2. PICK d \in Nat : a = b + 1 + d
  <2>1. a - (b + 1) \in Nat /\ a = b + 1 + (a - (b + 1))
      BY <1>1
  <2> QED  BY <2>1
<1>3. a * L = b * L + L + d * L /\ d * L \in Nat /\ b * L \in Nat
    BY <1>1, <1>2
<1> DEFINE x == b * L
           y == d * L
           z == a * L
<1>4. z = x + L + y /\ x \in Nat /\ y \in Nat /\ z + j <= x + k
    BY <1>1, <1>3
<1> HIDE DEF x, y, z
<1> QED  BY <1>1, <1>4

\* Two places have different turns.
LEMMA RoundUnique ==
    ASSUME NEW L \in Positive, NEW j \in 1 .. L, NEW k \in 1 .. L, NEW r \in Positive,
           NEW n \in Positive, (r - 1) * L + j = (n - 1) * L + k
    PROVE  r = n /\ j = k
<1> DEFINE x == (r - 1) * L
           y == (n - 1) * L
<1>1. x \in Int /\ y \in Int /\ j \in Nat /\ k \in Nat
    BY DEF Positive
<1>2. x + j = y + k
    OBVIOUS
<1>3. x + j <= y + k /\ y + k <= x + j
  <2> HIDE DEF x, y
  <2> QED  BY <1>1, <1>2
<1>4. r <= n /\ n <= r
    BY <1>3, RoundOrder
<1>5. r = n
    BY <1>4 DEF Positive
<1>6. x = y
    BY <1>5
<1> HIDE DEF x, y
<1>7. j = k
    BY <1>1, <1>2, <1>6
<1> QED  BY <1>5, <1>7

\* No place comes after the last round.
LEMMA RoundBound ==
    ASSUME NEW L \in Positive, NEW k \in 1 .. L, NEW n \in Positive, NEW M \in Nat, n <= M
    PROVE  (n - 1) * L + k <= M * L
<1> DEFINE a == n - 1
<1>1. a \in Nat /\ L \in Nat /\ k \in Nat /\ k <= L /\ a + 1 <= M
    BY DEF Positive
<1> HIDE DEF a
<1>2. PICK d \in Nat : M = a + 1 + d
  <2>1. M - (a + 1) \in Nat /\ M = a + 1 + (M - (a + 1))
      BY <1>1
  <2> QED  BY <2>1
<1>3. M * L = a * L + L + d * L /\ d * L \in Nat /\ a * L \in Nat
    BY <1>1, <1>2
<1> DEFINE x == a * L
           y == d * L
<1>4. M * L = x + L + y /\ x \in Nat /\ y \in Nat
    BY <1>3
<1>5. x + k <= x + L + y
  <2> HIDE DEF x, y
  <2> QED  BY <1>1, <1>4
<1> QED  BY <1>4, <1>5 DEF x, a

\* A bounded set of numbers has a greatest one.
LEMMA Greatest ==
    ASSUME NEW B \in Nat, NEW S \in SUBSET (0 .. B), S # {}
    PROVE  \E n \in S : \A m \in S : m <= n
<1> DEFINE T == {b \in Nat : \A U \in SUBSET (0 .. b) :
                    U # {} => \E n \in U : \A m \in U : m <= n}
<1>1. 0 \in T
  <2>1. ASSUME NEW U \in SUBSET (0 .. 0), U # {} PROVE \E n \in U : \A m \in U : m <= n
    <3>0. \A m \in 0 .. 0 : m = 0
        OBVIOUS
    <3>1. 0 \in U /\ \A m \in U : m = 0
        BY <2>1, <3>0
    <3> QED  BY <3>1
  <2> QED  BY <2>1
<1>2. ASSUME NEW b \in T PROVE b + 1 \in T
  <2>1. ASSUME NEW U \in SUBSET (0 .. b + 1), U # {} PROVE \E n \in U : \A m \in U : m <= n
    <3>1. CASE b + 1 \in U
      <4>1. \A m \in U : m <= b + 1
          OBVIOUS
      <4> QED  BY <3>1, <4>1
    <3>2. CASE b + 1 \notin U
      <4>1. U \in SUBSET (0 .. b)
          BY <3>2
      <4> QED  BY <2>1, <4>1
    <3> QED  BY <3>1, <3>2
  <2> QED  BY <2>1
<1> HIDE DEF T
<1>3. T \in SUBSET Nat
    BY DEF T
<1>4. B \in T
    BY <1>1, <1>2, <1>3, Induction
<1> QED  BY <1>4 DEF T

\* The number of rounds is that of the longest bucket.
LEMMA DepthFacts ==
    ASSUME SearchInv, buckets # <<>>
    PROVE  MaxDepth \in Nat /\ \A k \in DOMAIN buckets : Len(buckets[k]) <= MaxDepth
<1> DEFINE S == {Len(buckets[k]) : k \in DOMAIN buckets}
<1>1. \A k \in DOMAIN buckets : Len(buckets[k]) \in 0 .. RoleLimit
  <2> SUFFICES ASSUME NEW k \in DOMAIN buckets PROVE Len(buckets[k]) \in 0 .. RoleLimit
      OBVIOUS
  <2>1. IsList(buckets[k]) /\ Len(buckets[k]) <= RoleLimit
      BY DEF SearchInv, OfferOK
  <2>2. Len(buckets[k]) \in Nat
      BY <2>1, Lists DEF IsList
  <2> QED  BY <2>1, <2>2, RetrievableFinite DEF Positive
<1>2. S \in SUBSET (0 .. RoleLimit)
    BY <1>1
<1>3. 1 \in DOMAIN buckets
  <2>1. Len(buckets) \in Nat /\ DOMAIN buckets = 1 .. Len(buckets) /\ Len(buckets) # 0
      BY Lists DEF SearchInv, IsList
  <2> QED  BY <2>1
<1>4. S # {}
    BY <1>3
<1>5. \A k \in DOMAIN buckets : Len(buckets[k]) \in S
    OBVIOUS
<1>6. MaxDepth = CHOOSE n \in S : \A k \in DOMAIN buckets : Len(buckets[k]) <= n
    BY DEF MaxDepth
<1>7. RoleLimit \in Nat
    BY RetrievableFinite DEF Positive
<1> HIDE DEF S
<1>8. PICK n \in S : \A m \in S : m <= n
    BY <1>2, <1>4, <1>7, Greatest
<1>9. \A k \in DOMAIN buckets : Len(buckets[k]) <= n
    BY <1>5, <1>8
<1>10. MaxDepth \in S /\ \A k \in DOMAIN buckets : Len(buckets[k]) <= MaxDepth
    BY <1>6, <1>9
<1> QED  BY <1>2, <1>7, <1>10

\* The turn of a place of the round robin, and whether it is over.
TurnOf(k, n) == (n - 1) * Len(buckets) + k
Offered(k, n) == buckets[k][n]
IsPlace(k, n) == k \in DOMAIN buckets /\ n \in DOMAIN buckets[k]
Treated(k, n) == phase \notin {"plan", "search"} /\ (phase = "select" => TurnOf(k, n) < turn)

OverBudget(d) == d.reason = "CANDIDATE_BUDGET"
Carried(k, n) ==
    \A m \in Offered(k, n).matches :
        \/ Selected(m, Offered(k, n).id)
        \/ Drop(m.issue, m.request, "CANDIDATE_BUDGET", Offered(k, n).id) \in drops

\* The cap is reached, and every candidate was offered at rank n or better.
FullAt(n) ==
    /\ Len(candidates) >= CandidateCap
    /\ \A c \in DOMAIN candidates : \E j \in DOMAIN buckets : \E r \in DOMAIN buckets[j] :
          r <= n /\ buckets[j][r].id = candidates[c].id

CapInv ==
    /\ phase = "plan" \/ keys = BucketKeys(plan)
    /\ phase \in {"plan", "search"} => turn = 1 /\ candidates = <<>> /\ drops = {}
    /\ phase \notin {"plan", "search", "refused"} => QueryDrops(plan) \subseteq drops
    /\ \A k, n : IsPlace(k, n) /\ Treated(k, n) =>
          Carried(k, n) /\ (Has(candidates, Offered(k, n).id) \/ FullAt(n))
    /\ \A d \in drops : OverBudget(d) =>
          /\ ~Has(candidates, d.id)
          /\ \E k, n : IsPlace(k, n) /\ Treated(k, n) /\ Offered(k, n).id = d.id
    /\ \A c \in DOMAIN candidates : \E k, n :
          IsPlace(k, n) /\ Treated(k, n) /\ Offered(k, n).id = candidates[c].id

\* Places are numbers.
LEMMA PlaceFacts ==
    ASSUME SearchInv, NEW k, NEW n, IsPlace(k, n)
    PROVE  /\ k \in 1 .. Len(buckets) /\ Len(buckets) \in Positive /\ n \in Positive
           /\ n <= Len(buckets[k]) /\ buckets # <<>> /\ TurnOf(k, n) \in Nat /\ TurnOf(k, n) >= 1
           /\ OfferedOK(Offered(k, n))
<1>1. Len(buckets) \in Nat /\ DOMAIN buckets = 1 .. Len(buckets)
    BY Lists DEF SearchInv, IsList
<1>2. IsList(buckets[k]) /\ k \in DOMAIN buckets
    BY DEF IsPlace, SearchInv, OfferOK
<1>3. Len(buckets[k]) \in Nat /\ n \in 1 .. Len(buckets[k])
    BY <1>2, Lists DEF IsPlace, IsList
<1>4. k \in 1 .. Len(buckets) /\ Len(buckets) \in Positive /\ n \in Positive
      /\ n <= Len(buckets[k])
    BY <1>1, <1>2, <1>3 DEF Positive
<1>5. buckets # <<>>
    BY <1>2, SingleElements
<1> DEFINE x == (n - 1) * Len(buckets)
<1>6. x \in Nat /\ k \in Nat /\ k >= 1
    BY <1>4 DEF Positive
<1>7. x + k \in Nat /\ x + k >= 1
  <2> HIDE DEF x
  <2> QED  BY <1>6
<1>8. OfferedOK(Offered(k, n))
    BY DEF IsPlace, SearchInv, OfferOK, Offered
<1> QED  BY <1>4, <1>5, <1>7, <1>8 DEF TurnOf

\* Nothing is selected at first.
LEMMA CapInit ==
    ASSUME RetrievalInit PROVE CapInv
<1>1. phase = "plan" /\ candidates = <<>> /\ drops = {} /\ turn = 1
    BY DEF RetrievalInit
<1>2. DOMAIN candidates = {}
    BY <1>1, SingleElements
<1> QED  BY <1>1, <1>2 DEF CapInv, Treated

\* Until the selection starts there is nothing to account for.
LEMMA CapBefore ==
    ASSUME CapInv, phase \in {"plan", "search"},
           phase' \in {"search", "refused"}, UNCHANGED <<turn, candidates, drops>>,
           keys' = BucketKeys(plan'), phase' = "refused" => buckets' = <<>>
    PROVE  CapInv'
<1>1. turn' = 1 /\ candidates' = <<>> /\ drops' = {}
    BY DEF CapInv
<1>2. DOMAIN candidates' = {} /\ DOMAIN <<>> = {}
    BY <1>1, SingleElements
<1>3. \A k, n : ~(IsPlace(k, n)' /\ Treated(k, n)')
    BY <1>2 DEF IsPlace, Treated
<1> QED  BY <1>1, <1>2, <1>3 DEF CapInv

\* A later step changes neither the candidates' identifiers and matches nor the
\* drops of the cap.
LEMMA CapKept ==
    ASSUME CapInv, phase \notin {"plan", "search"}, phase' \notin {"plan", "search"},
           plan' = plan, keys' = keys, buckets' = buckets,
           \A k, n : IsPlace(k, n) => (Treated(k, n)' <=> Treated(k, n)),
           phase' = "refused" \/ phase # "refused",
           DOMAIN candidates' = DOMAIN candidates, Len(candidates') = Len(candidates),
           \A c \in DOMAIN candidates : /\ candidates'[c].id = candidates[c].id
                                        /\ candidates'[c].matches = candidates[c].matches,
           drops \subseteq drops', \A d \in drops' : OverBudget(d) => d \in drops
    PROVE  CapInv'
<1>1. \A k, n : /\ Offered(k, n)' = Offered(k, n) /\ (IsPlace(k, n)' <=> IsPlace(k, n))
    BY DEF Offered, IsPlace
<1>2. \A x : Has(candidates, x)' <=> Has(candidates, x)
    BY DEF Has
<1>3. \A m, x : Selected(m, x)' <=> Selected(m, x)
    BY DEF Selected
<1>4. \A n : FullAt(n)' <=> FullAt(n)
    BY DEF FullAt
<1>5. \A k, n : Carried(k, n) => Carried(k, n)'
    BY <1>1, <1>3 DEF Carried
<1>6. \A k, n : IsPlace(k, n)' /\ Treated(k, n)' =>
          Carried(k, n)' /\ (Has(candidates, Offered(k, n).id)' \/ FullAt(n)')
  <2> SUFFICES ASSUME NEW k, NEW n, IsPlace(k, n)', Treated(k, n)'
               PROVE  Carried(k, n)' /\ (Has(candidates, Offered(k, n).id)' \/ FullAt(n)')
      OBVIOUS
  <2>1. IsPlace(k, n) /\ Treated(k, n)
      BY <1>1
  <2>2. Carried(k, n) /\ (Has(candidates, Offered(k, n).id) \/ FullAt(n))
      BY <2>1 DEF CapInv
  <2>3. Has(candidates, Offered(k, n).id)' <=> Has(candidates, Offered(k, n).id)
      BY <1>1 DEF Has
  <2> QED  BY <1>4, <1>5, <2>2, <2>3
<1>7. \A d \in drops' : OverBudget(d) =>
          /\ ~Has(candidates', d.id)
          /\ \E k, n : IsPlace(k, n)' /\ Treated(k, n)' /\ Offered(k, n)'.id = d.id
  <2> SUFFICES ASSUME NEW d \in drops', OverBudget(d)
               PROVE  /\ ~Has(candidates', d.id)
                      /\ \E k, n : IsPlace(k, n)' /\ Treated(k, n)' /\ Offered(k, n)'.id = d.id
      OBVIOUS
  <2>1. d \in drops
      OBVIOUS
  <2>2. ~Has(candidates, d.id)
      BY <2>1 DEF CapInv
  <2>3. PICK k, n : IsPlace(k, n) /\ Treated(k, n) /\ Offered(k, n).id = d.id
      BY <2>1 DEF CapInv
  <2>4. ~Has(candidates', d.id)
      BY <2>2 DEF Has
  <2> QED  BY <1>1, <2>3, <2>4
<1>8. \A c \in DOMAIN candidates' : \E k, n :
          IsPlace(k, n)' /\ Treated(k, n)' /\ Offered(k, n)'.id = candidates'[c].id
  <2> SUFFICES ASSUME NEW c \in DOMAIN candidates'
               PROVE  \E k, n : /\ IsPlace(k, n)' /\ Treated(k, n)'
                                /\ Offered(k, n)'.id = candidates'[c].id
      OBVIOUS
  <2>1. PICK k, n : IsPlace(k, n) /\ Treated(k, n) /\ Offered(k, n).id = candidates[c].id
      BY DEF CapInv
  <2> QED  BY <1>1, <2>1
<1>9. phase' \notin {"plan", "search", "refused"} => QueryDrops(plan') \subseteq drops'
    BY DEF CapInv
<1>10. keys' = BucketKeys(plan')
    BY DEF CapInv
<1> QED  BY <1>6, <1>7, <1>8, <1>9, <1>10 DEF CapInv, OverBudget

\* The place whose turn it is.
TheTurn(k, n) == k = Place /\ n = Turn.rank

\* A turn treats one place, the one it is the turn of.
LEMMA TurnTreats ==
    ASSUME SearchInv, SelectionInv, SelectCandidate
    PROVE  /\ \A k, n : IsPlace(k, n) =>
                 /\ Treated(k, n)' <=> (Treated(k, n) \/ TurnOf(k, n) = turn)
                 /\ Treated(k, n) => TurnOf(k, n) < turn
                 /\ TurnOf(k, n) = turn => /\ k = Place /\ n = Turn.rank
                                       /\ Turn.rank <= Len(Turn.bucket)
           /\ Turn.rank <= Len(Turn.bucket) => /\ IsPlace(Place, Turn.rank)
                                               /\ TurnOf(Place, Turn.rank) = turn
           /\ Offered(Place, Turn.rank) = Turn.bucket[Turn.rank]
           /\ phase = "select" /\ phase' = "select" /\ plan' = plan /\ keys' = keys
           /\ buckets' = buckets /\ turn \in Nat
<1>1. /\ phase = "select" /\ phase' = "select" /\ plan' = plan /\ keys' = keys
      /\ buckets' = buckets /\ turn' = turn + 1 /\ turn \in Positive /\ turn \in Nat
      /\ turn <= MaxDepth * Len(buckets)
    BY DEF SelectCandidate, SelectionInv, searchVars, Positive
<1>2. /\ Place \in DOMAIN buckets /\ Place \in 1 .. Len(buckets)
      /\ Turn.bucket = buckets[Place] /\ Turn.rank \in Positive
      /\ Len(buckets) \in Positive
      /\ turn = Len(buckets) * (Turn.rank - 1) + Place
    BY <1>1, TurnGuard, TurnFacts
<1> DEFINE L == Len(buckets)
           rank == Turn.rank
<1>3. TurnOf(Place, rank) = turn
  <2>1. TurnOf(Place, rank) = (rank - 1) * L + Place
      BY DEF TurnOf
  <2>2. (rank - 1) * L = L * (rank - 1)
    <3> HIDE DEF rank, L
    <3>1. rank \in Nat /\ L \in Nat
        BY <1>2 DEF rank, L, Positive
    <3> QED  BY <3>1
  <2> QED  BY <1>2, <2>1, <2>2
<1>4. ASSUME NEW k, NEW n, IsPlace(k, n)
      PROVE  /\ Treated(k, n)' <=> (Treated(k, n) \/ TurnOf(k, n) = turn)
             /\ Treated(k, n) => TurnOf(k, n) < turn
             /\ TurnOf(k, n) = turn => k = Place /\ n = rank /\ rank <= Len(Turn.bucket)
  <2>1. /\ k \in 1 .. L /\ n \in Positive /\ n <= Len(buckets[k]) /\ TurnOf(k, n) \in Nat
        /\ L \in Positive
      BY <1>4, PlaceFacts
  <2>2. TurnOf(k, n)' = TurnOf(k, n)
      BY <1>1 DEF TurnOf
  <2>3. /\ Treated(k, n) <=> TurnOf(k, n) < turn
        /\ Treated(k, n)' <=> TurnOf(k, n) < turn + 1
      BY <1>1, <2>2 DEF Treated
  <2>4. TurnOf(k, n) < turn + 1 <=> (TurnOf(k, n) < turn \/ TurnOf(k, n) = turn)
      BY <1>1, <2>1
  <2>5. ASSUME TurnOf(k, n) = turn PROVE k = Place /\ n = rank /\ rank <= Len(Turn.bucket)
    <3>1. (n - 1) * L + k = (rank - 1) * L + Place
        BY <1>3, <2>5 DEF TurnOf
    <3>2. Place \in 1 .. L /\ rank \in Positive
        BY <1>2
    <3> HIDE DEF rank, L
    <3>3. k = Place /\ n = rank
        BY <2>1, <3>1, <3>2, RoundUnique
    <3> QED  BY <1>2, <2>1, <3>3 DEF rank
  <2> QED  BY <2>3, <2>4, <2>5
<1>5. rank <= Len(Turn.bucket) => IsPlace(Place, rank)
  <2>1. IsList(Turn.bucket)
      BY <1>2 DEF SearchInv, OfferOK
  <2>2. DOMAIN Turn.bucket = 1 .. Len(Turn.bucket) /\ Len(Turn.bucket) \in Nat
      BY <2>1, Lists DEF IsList
  <2> QED  BY <1>2, <2>2 DEF IsPlace, Positive
<1>6. Offered(Place, rank) = Turn.bucket[rank]
    BY <1>2 DEF Offered
<1> QED  BY <1>1, <1>3, <1>4, <1>5, <1>6

\* What a turn must leave for the accounts to stay right.
LEMMA TurnAccounts ==
    ASSUME SearchInv, SelectionInv, CapInv, SelectCandidate,
           Turn.rank <= Len(Turn.bucket),
           NEW c, c = Turn.bucket[Turn.rank],
           \A k, n : IsPlace(k, n) /\ Treated(k, n) =>
              Carried(k, n)' /\ (Has(candidates', Offered(k, n).id) \/ FullAt(n)'),
           \A k, n : TheTurn(k, n) =>
              Carried(k, n)' /\ (Has(candidates', c.id) \/ FullAt(n)'),
           drops \subseteq drops',
           \A d \in drops' : OverBudget(d) =>
              ~Has(candidates', d.id) /\ (d \in drops \/ d.id = c.id),
           \A x \in DOMAIN candidates' :
              \/ candidates'[x].id = c.id
              \/ \E y \in DOMAIN candidates : candidates'[x].id = candidates[y].id
    PROVE  CapInv'
<1>1. /\ \A k, n : IsPlace(k, n) =>
              /\ Treated(k, n)' <=> (Treated(k, n) \/ TurnOf(k, n) = turn)
              /\ TurnOf(k, n) = turn => k = Place /\ n = Turn.rank
      /\ IsPlace(Place, Turn.rank) /\ TurnOf(Place, Turn.rank) = turn
      /\ Offered(Place, Turn.rank) = c
      /\ phase = "select" /\ phase' = "select" /\ plan' = plan /\ keys' = keys
      /\ buckets' = buckets
    BY TurnTreats
<1>2. \A k, n : Offered(k, n)' = Offered(k, n) /\ (IsPlace(k, n)' <=> IsPlace(k, n))
    BY <1>1 DEF Offered, IsPlace
<1>3. /\ \A k, n : TheTurn(k, n) => IsPlace(k, n) /\ Offered(k, n) = c
      /\ \E k, n : TheTurn(k, n)
      /\ \A k, n : IsPlace(k, n) => (Treated(k, n)' <=> (Treated(k, n) \/ TheTurn(k, n)))
    BY <1>1 DEF TheTurn
<1>4. ASSUME NEW k, NEW n, IsPlace(k, n)', Treated(k, n)'
      PROVE  Carried(k, n)' /\ (Has(candidates, Offered(k, n).id)' \/ FullAt(n)')
  <2>1. IsPlace(k, n)
      BY <1>2, <1>4
  <2>2. CASE Treated(k, n)
    <3>1. Carried(k, n)' /\ (Has(candidates', Offered(k, n).id) \/ FullAt(n)')
        BY <2>1, <2>2
    <3> QED  BY <1>1, <3>1 DEF Has, Offered
  <2>3. CASE TheTurn(k, n)
    <3>1. Carried(k, n)' /\ (Has(candidates', c.id) \/ FullAt(n)')
        BY <2>3
    <3>2. Offered(k, n) = c /\ Offered(k, n)' = c
        BY <1>2, <1>3, <2>3
    <3> QED  BY <3>1, <3>2 DEF Has
  <2> QED  BY <1>3, <1>4, <2>1, <2>2, <2>3
<1>5. \A d \in drops : OverBudget(d) =>
          \E k, n : IsPlace(k, n) /\ Treated(k, n) /\ Offered(k, n).id = d.id
    BY DEF CapInv
<1>6. \A y \in DOMAIN candidates : \E k, n :
          IsPlace(k, n) /\ Treated(k, n) /\ Offered(k, n).id = candidates[y].id
    BY DEF CapInv
<1>7. \A k, n : IsPlace(k, n) /\ Treated(k, n) => IsPlace(k, n)' /\ Treated(k, n)'
    BY <1>2, <1>3
<1>8. \E k, n : IsPlace(k, n)' /\ Treated(k, n)' /\ Offered(k, n)'.id = c.id
  <2>2. PICK k, n : TheTurn(k, n) /\ IsPlace(k, n) /\ Offered(k, n) = c
      BY <1>3
  <2>3. IsPlace(k, n)' /\ Treated(k, n)' /\ Offered(k, n)' = c
      BY <1>2, <1>3, <2>2
  <2> QED  BY <2>3
<1>9. ASSUME NEW d \in drops', OverBudget(d)
      PROVE  /\ ~Has(candidates', d.id)
             /\ \E k, n : IsPlace(k, n)' /\ Treated(k, n)' /\ Offered(k, n)'.id = d.id
  <2>1. CASE d \in drops
    <3>1. PICK k, n : IsPlace(k, n) /\ Treated(k, n) /\ Offered(k, n).id = d.id
        BY <1>5, <1>9, <2>1
    <3> QED  BY <1>2, <1>7, <1>9, <3>1
  <2>2. CASE d.id = c.id
      BY <1>8, <1>9, <2>2
  <2> QED  BY <1>9, <2>1, <2>2
<1>10. ASSUME NEW x \in DOMAIN candidates'
       PROVE  \E k, n : IsPlace(k, n)' /\ Treated(k, n)' /\ Offered(k, n)'.id = candidates'[x].id
  <2>1. CASE candidates'[x].id = c.id
      BY <1>8, <2>1
  <2>2. CASE \E y \in DOMAIN candidates : candidates'[x].id = candidates[y].id
    <3>1. PICK y \in DOMAIN candidates : candidates'[x].id = candidates[y].id
        BY <2>2
    <3>2. PICK k, n : IsPlace(k, n) /\ Treated(k, n) /\ Offered(k, n).id = candidates[y].id
        BY <1>6
    <3> QED  BY <1>2, <1>7, <3>1, <3>2
  <2> QED  BY <2>1, <2>2
<1>11. keys' = BucketKeys(plan') /\ QueryDrops(plan') \subseteq drops'
    BY <1>1 DEF CapInv
<1>12. \A k, n : IsPlace(k, n)' /\ Treated(k, n)' =>
          Carried(k, n)' /\ (Has(candidates, Offered(k, n).id)' \/ FullAt(n)')
    BY <1>4
<1>13. \A d \in drops' : OverBudget(d) =>
          /\ ~Has(candidates', d.id)
          /\ \E k, n : IsPlace(k, n)' /\ Treated(k, n)' /\ Offered(k, n)'.id = d.id
    BY <1>9
<1>14. \A x \in DOMAIN candidates' :
          \E k, n : IsPlace(k, n)' /\ Treated(k, n)' /\ Offered(k, n)'.id = candidates'[x].id
    BY <1>10
<1> QED  BY <1>1, <1>11, <1>12, <1>13, <1>14 DEF CapInv, OverBudget

\* What a selected candidate carries stays carried.
LEMMA CarriedGrows ==
    ASSUME buckets' = buckets, drops \subseteq drops',
           \A y \in DOMAIN candidates : \E x \in DOMAIN candidates' :
              /\ candidates'[x].id = candidates[y].id
              /\ candidates[y].matches \subseteq candidates'[x].matches
    PROVE  /\ \A k, n : Carried(k, n) => Carried(k, n)'
           /\ \A i : Has(candidates, i) => Has(candidates', i)
<1>1. \A k, n : Offered(k, n)' = Offered(k, n)
    BY DEF Offered
<1>2. ASSUME NEW m, NEW i, Selected(m, i) PROVE Selected(m, i)'
  <2>1. PICK y \in DOMAIN candidates : candidates[y].id = i /\ m \in candidates[y].matches
      BY <1>2 DEF Selected
  <2>2. PICK x \in DOMAIN candidates' : /\ candidates'[x].id = candidates[y].id
                                        /\ candidates[y].matches \subseteq candidates'[x].matches
      OBVIOUS
  <2>3. candidates'[x].id = i /\ m \in candidates'[x].matches
      BY <2>1, <2>2
  <2> QED  BY <2>3 DEF Selected
<1>3. \A k, n : Carried(k, n) => Carried(k, n)'
    BY <1>1, <1>2 DEF Carried
<1>4. \A i : Has(candidates, i) => Has(candidates', i)
    BY DEF Has
<1> QED  BY <1>3, <1>4

\* The turn of a bucket that has no candidate of that rank changes nothing.
LEMMA TurnSkips ==
    ASSUME SearchInv, SelectionInv, CapInv, SelectCandidate, ~(Turn.rank <= Len(Turn.bucket)),
           UNCHANGED <<candidates, drops>>
    PROVE  CapInv'
<1>1. /\ \A k, n : IsPlace(k, n) => (Treated(k, n)' <=> Treated(k, n))
      /\ phase = "select" /\ phase' = "select" /\ plan' = plan /\ keys' = keys
      /\ buckets' = buckets
  <2>1. \A k, n : IsPlace(k, n) =>
              /\ Treated(k, n)' <=> (Treated(k, n) \/ TurnOf(k, n) = turn)
              /\ TurnOf(k, n) = turn => Turn.rank <= Len(Turn.bucket)
      BY TurnTreats
  <2>2. /\ phase = "select" /\ phase' = "select" /\ plan' = plan /\ keys' = keys
        /\ buckets' = buckets
      BY TurnTreats
  <2> QED  BY <2>1, <2>2
<1>2. candidates' = candidates /\ drops' = drops
    OBVIOUS
<1> QED  BY <1>1, <1>2, CapKept

\* A candidate that is already selected takes the matches of the new offer.
LEMMA TurnMerges ==
    ASSUME SearchInv, SelectionInv, CapInv, SelectCandidate, Turn.rank <= Len(Turn.bucket),
           NEW c, c = Turn.bucket[Turn.rank], Has(candidates, c.id),
           candidates' = MergeInto(candidates, c), drops' = drops
    PROVE  CapInv'
<1>1. /\ IsPlace(Place, Turn.rank) /\ Offered(Place, Turn.rank) = c
      /\ buckets' = buckets /\ phase = "select"
    BY TurnTreats
<1>2. MergeResult(candidates, c, candidates')
  <2>1. IsList(candidates) /\ \A k \in DOMAIN candidates : CandidateOK(candidates[k])
      BY DEF SelectionInv
  <2>2. MergeResult(candidates, c, MergeInto(candidates, c))
      BY <2>1, MergeFacts
  <2> QED  BY <2>2
<1>3. /\ DOMAIN candidates' = DOMAIN candidates /\ Len(candidates') = Len(candidates)
      /\ \A k \in DOMAIN candidates : /\ candidates'[k].id = candidates[k].id
                                      /\ candidates[k].matches \subseteq candidates'[k].matches
    BY <1>2 DEF MergeResult
<1>4. PICK k \in DOMAIN candidates :
          candidates[k].id = c.id /\ c.matches \subseteq candidates'[k].matches
    BY <1>2 DEF MergeResult
<1>5. /\ \A j, n : Carried(j, n) => Carried(j, n)'
      /\ \A i : Has(candidates, i) => Has(candidates', i)
    BY <1>1, <1>3, CarriedGrows
<1>6. \A i : Has(candidates', i) => Has(candidates, i)
    BY <1>3 DEF Has
<1>7. \A n : FullAt(n) => FullAt(n)'
    BY <1>1, <1>3 DEF FullAt
<1>8. \A j, n : IsPlace(j, n) /\ Treated(j, n) =>
         Carried(j, n)' /\ (Has(candidates', Offered(j, n).id) \/ FullAt(n)')
    BY <1>5, <1>7 DEF CapInv
<1>9. ASSUME NEW j, NEW n, TheTurn(j, n) PROVE Carried(j, n)'
  <2>1. Offered(j, n) = c /\ Offered(j, n)' = Offered(j, n)
      BY <1>1, <1>9 DEF TheTurn, Offered
  <2>2. ASSUME NEW m \in c.matches PROVE Selected(m, c.id)'
      BY <1>3, <1>4 DEF Selected
  <2> QED  BY <2>1, <2>2 DEF Carried
<1>10. Has(candidates', c.id)
    BY <1>5
<1>11. \A d \in drops' : OverBudget(d) =>
          ~Has(candidates', d.id) /\ (d \in drops \/ d.id = c.id)
    BY <1>6 DEF CapInv
<1>12. \A x \in DOMAIN candidates' :
          \/ candidates'[x].id = c.id
          \/ \E y \in DOMAIN candidates : candidates'[x].id = candidates[y].id
    BY <1>3
<1> QED  BY <1>8, <1>9, <1>10, <1>11, <1>12, TurnAccounts

\* A new candidate is selected while there is room.
LEMMA TurnAppends ==
    ASSUME SearchInv, SelectionInv, CapInv, SelectCandidate, Turn.rank <= Len(Turn.bucket),
           NEW c, c = Turn.bucket[Turn.rank], Len(candidates) < CandidateCap,
           candidates' = Append(candidates, c), drops' = drops
    PROVE  CapInv'
<1>1. /\ IsPlace(Place, Turn.rank) /\ Offered(Place, Turn.rank) = c
      /\ buckets' = buckets /\ phase = "select"
    BY TurnTreats
<1>2. Len(candidates) \in Nat /\ CandidateCap \in Nat
    BY PolicyAssumption, Lists DEF SelectionInv, IsList
<1>3. \A n : ~FullAt(n)
    BY <1>2 DEF FullAt
<1>4. /\ DOMAIN candidates' = 1 .. Len(candidates) + 1 /\ DOMAIN candidates = 1 .. Len(candidates)
      /\ candidates'[Len(candidates) + 1] = c
      /\ \A k \in DOMAIN candidates : candidates'[k] = candidates[k]
    BY AppendList, Lists DEF SelectionInv, IsList
<1>5. /\ \A k \in DOMAIN candidates : k \in DOMAIN candidates'
      /\ Len(candidates) + 1 \in DOMAIN candidates'
      /\ \A k \in DOMAIN candidates' : k \in DOMAIN candidates \/ k = Len(candidates) + 1
    BY <1>2, <1>4
<1>6. /\ \A j, n : Carried(j, n) => Carried(j, n)'
      /\ \A i : Has(candidates, i) => Has(candidates', i)
  <2>1. \A y \in DOMAIN candidates : \E x \in DOMAIN candidates' :
            /\ candidates'[x].id = candidates[y].id
            /\ candidates[y].matches \subseteq candidates'[x].matches
      BY <1>4, <1>5
  <2> QED  BY <1>1, <2>1, CarriedGrows
<1>7. \A j, n : IsPlace(j, n) /\ Treated(j, n) =>
         Carried(j, n)' /\ (Has(candidates', Offered(j, n).id) \/ FullAt(n)')
    BY <1>3, <1>6 DEF CapInv
<1>8. Has(candidates', c.id)
    BY <1>4, <1>5 DEF Has
<1>9. ASSUME NEW j, NEW n, TheTurn(j, n) PROVE Carried(j, n)'
  <2>1. Offered(j, n) = c /\ Offered(j, n)' = Offered(j, n)
      BY <1>1, <1>9 DEF TheTurn, Offered
  <2>2. ASSUME NEW m \in c.matches PROVE Selected(m, c.id)'
      BY <1>4, <1>5 DEF Selected
  <2> QED  BY <2>1, <2>2 DEF Carried
<1>10. \A d \in drops' : ~OverBudget(d)
  <2> SUFFICES ASSUME NEW d \in drops, OverBudget(d) PROVE FALSE
      OBVIOUS
  <2>1. ~Has(candidates, d.id)
      BY DEF CapInv
  <2>2. PICK j, n : IsPlace(j, n) /\ Treated(j, n) /\ Offered(j, n).id = d.id
      BY DEF CapInv
  <2>3. Has(candidates, Offered(j, n).id) \/ FullAt(n)
      BY <2>2 DEF CapInv
  <2> QED  BY <1>3, <2>1, <2>2, <2>3
<1>11. \A x \in DOMAIN candidates' :
          \/ candidates'[x].id = c.id
          \/ \E y \in DOMAIN candidates : candidates'[x].id = candidates[y].id
    BY <1>4, <1>5
<1> QED  BY <1>7, <1>8, <1>9, <1>10, <1>11, TurnAccounts

\* A new candidate is dropped when the cap is reached, and then everything that
\* was selected had its turn before.
LEMMA TurnDrops ==
    ASSUME SearchInv, SelectionInv, CapInv, SelectCandidate, Turn.rank <= Len(Turn.bucket),
           NEW c, c = Turn.bucket[Turn.rank], ~Has(candidates, c.id),
           Len(candidates) >= CandidateCap, candidates' = candidates,
           drops' = drops \cup
             {Drop(m.issue, m.request, "CANDIDATE_BUDGET", c.id) : m \in c.matches}
    PROVE  CapInv'
<1>1. /\ IsPlace(Place, Turn.rank) /\ Offered(Place, Turn.rank) = c
      /\ buckets' = buckets /\ phase = "select" /\ TurnOf(Place, Turn.rank) = turn /\ turn \in Nat
      /\ \A k, n : IsPlace(k, n) => (Treated(k, n) => TurnOf(k, n) < turn)
    BY TurnTreats
<1>2. /\ \A j, n : Carried(j, n) => Carried(j, n)'
  <2>1. \A y \in DOMAIN candidates : \E x \in DOMAIN candidates' :
            /\ candidates'[x].id = candidates[y].id
            /\ candidates[y].matches \subseteq candidates'[x].matches
      OBVIOUS
  <2> QED  BY <1>1, <2>1, CarriedGrows
<1>3. \A n : FullAt(n) => FullAt(n)'
    BY <1>1 DEF FullAt
<1>4. \A j, n : IsPlace(j, n) /\ Treated(j, n) =>
         Carried(j, n)' /\ (Has(candidates', Offered(j, n).id) \/ FullAt(n)')
    BY <1>2, <1>3 DEF CapInv
<1>5. ASSUME NEW j, NEW n, TheTurn(j, n) PROVE Carried(j, n)'
  <2>1. Offered(j, n) = c /\ Offered(j, n)' = Offered(j, n)
      BY <1>1, <1>5 DEF TheTurn, Offered
  <2>2. ASSUME NEW m \in c.matches
        PROVE  Drop(m.issue, m.request, "CANDIDATE_BUDGET", c.id) \in drops'
      OBVIOUS
  <2> QED  BY <2>1, <2>2 DEF Carried
<1>6. FullAt(Turn.rank)
  <2>1. ASSUME NEW x \in DOMAIN candidates
        PROVE  \E j \in DOMAIN buckets : \E r \in DOMAIN buckets[j] :
                  r <= Turn.rank /\ buckets[j][r].id = candidates[x].id
    <3>1. PICK j, r : IsPlace(j, r) /\ Treated(j, r) /\ Offered(j, r).id = candidates[x].id
        BY DEF CapInv
    <3>2. TurnOf(j, r) < TurnOf(Place, Turn.rank)
        BY <1>1, <3>1
    <3>3. j \in 1 .. Len(buckets) /\ Len(buckets) \in Positive /\ r \in Positive
          /\ TurnOf(j, r) \in Nat
        BY <3>1, PlaceFacts
    <3>4. Place \in 1 .. Len(buckets) /\ Turn.rank \in Positive /\ TurnOf(Place, Turn.rank) \in Nat
        BY <1>1, PlaceFacts
    <3>5. TurnOf(j, r) <= TurnOf(Place, Turn.rank)
        BY <3>2, <3>3, <3>4
    <3>6. r <= Turn.rank
        BY <3>3, <3>4, <3>5, RoundOrder DEF TurnOf
    <3> QED  BY <3>1, <3>6 DEF IsPlace, Offered
  <2> QED  BY <2>1 DEF FullAt
<1>7. \A j, n : TheTurn(j, n) => FullAt(n)'
    BY <1>3, <1>6 DEF TheTurn
<1>8. \A d \in drops' : OverBudget(d) =>
          ~Has(candidates', d.id) /\ (d \in drops \/ d.id = c.id)
  <2> SUFFICES ASSUME NEW d \in drops', OverBudget(d)
               PROVE  ~Has(candidates', d.id) /\ (d \in drops \/ d.id = c.id)
      OBVIOUS
  <2>1. CASE d \in drops
      BY <2>1 DEF CapInv
  <2>2. CASE d \notin drops
    <3>1. d.id = c.id
        BY <2>2 DEF Drop
    <3> QED  BY <3>1
  <2> QED  BY <2>1, <2>2
<1>9. \A x \in DOMAIN candidates' :
          \/ candidates'[x].id = c.id
          \/ \E y \in DOMAIN candidates : candidates'[x].id = candidates[y].id
    OBVIOUS
<1> QED  BY <1>4, <1>5, <1>7, <1>8, <1>9, TurnAccounts

\* A turn of the round robin keeps the accounts.
LEMMA SelectCandidateCaps ==
    ASSUME SearchInv, SelectionInv, CapInv, SelectCandidate
    PROVE  CapInv'
<1>1. Turn.rank > Len(Turn.bucket) <=> ~(Turn.rank <= Len(Turn.bucket))
  <2>1. turn \in Positive /\ turn <= MaxDepth * Len(buckets)
      BY DEF SelectCandidate, SelectionInv
  <2>2. Turn.bucket = buckets[Place] /\ Place \in DOMAIN buckets /\ Turn.rank \in Positive
      BY <2>1, TurnGuard, TurnFacts
  <2>3. Len(Turn.bucket) \in Nat
      BY <2>2, Lists DEF SearchInv, OfferOK, IsList
  <2> QED  BY <2>2, <2>3 DEF Positive
<1>2. CASE ~(Turn.rank <= Len(Turn.bucket))
  <2>1. UNCHANGED <<candidates, drops>>
      BY <1>1, <1>2 DEF SelectCandidate
  <2> QED  BY <1>2, <2>1, TurnSkips
<1>3. CASE Turn.rank <= Len(Turn.bucket)
  <2> DEFINE c == Turn.bucket[Turn.rank]
  <2>1. \/ /\ Has(candidates, c.id) /\ candidates' = MergeInto(candidates, c)
           /\ drops' = drops
        \/ /\ Len(candidates) < CandidateCap /\ candidates' = Append(candidates, c)
           /\ drops' = drops
        \/ /\ ~Has(candidates, c.id) /\ Len(candidates) >= CandidateCap
           /\ candidates' = candidates
           /\ drops' = drops \cup
                {Drop(m.issue, m.request, "CANDIDATE_BUDGET", c.id) : m \in c.matches}
      BY <1>1, <1>3 DEF SelectCandidate
  <2>2. c = Turn.bucket[Turn.rank]
      OBVIOUS
  <2> HIDE DEF c
  <2> QED  BY <1>3, <2>1, <2>2, TurnMerges, TurnAppends, TurnDrops
<1> QED  BY <1>2, <1>3

\* The first turn has treated nothing, and no query is dropped for the cap.
LEMMA EndSearchCaps ==
    ASSUME SearchInv, CapInv, EndSearch PROVE CapInv'
<1>1. /\ phase = "search" /\ phase' = "select" /\ plan' = plan /\ keys' = keys
      /\ buckets' = buckets /\ turn' = turn /\ candidates' = candidates
      /\ drops' = QueryDrops(plan)
    BY DEF EndSearch, searchVars
<1>2. turn' = 1 /\ candidates' = <<>> /\ keys' = BucketKeys(plan') /\ DOMAIN candidates' = {}
    BY <1>1, SingleElements DEF CapInv
<1>3. ASSUME NEW k, NEW n, IsPlace(k, n)' PROVE ~Treated(k, n)'
  <2>1. IsPlace(k, n) /\ TurnOf(k, n)' = TurnOf(k, n)
      BY <1>1, <1>3 DEF IsPlace, TurnOf
  <2>2. TurnOf(k, n) \in Nat /\ TurnOf(k, n) >= 1
      BY <2>1, PlaceFacts
  <2> QED  BY <1>1, <1>2, <2>1, <2>2 DEF Treated
<1>4. ASSUME NEW d \in QueryDrops(plan) PROVE ~OverBudget(d)
  <2> DEFINE of(i) == {Drop(i, x.id, "QUERY_BUDGET", 0) :
                x \in ElementsOf(RequestOrder(plan, i)) \ ElementsOf(RequestsForIssue(plan, i))}
  <2>1. d \in UNION {of(i) : i \in DOMAIN plan.issues}
      BY DEF QueryDrops
  <2>2. \A i : \A x \in of(i) : x.reason = "QUERY_BUDGET"
      BY DEF Drop
  <2> HIDE DEF of
  <2>3. PICK i \in DOMAIN plan.issues : d \in of(i)
      BY <2>1
  <2> QED  BY <2>2, <2>3 DEF OverBudget
<1>5. \A d \in drops' : ~OverBudget(d)
    BY <1>1, <1>4
<1>6. QueryDrops(plan') \subseteq drops'
    BY <1>1
<1> QED  BY <1>1, <1>2, <1>3, <1>5, <1>6 DEF CapInv, OverBudget

\* When the turns are over every place was treated.
LEMMA EndSelectionCaps ==
    ASSUME SearchInv, SelectionInv, CapInv, EndSelection PROVE CapInv'
<1>1. /\ phase = "select" /\ phase' = "cite" /\ plan' = plan /\ keys' = keys
      /\ buckets' = buckets /\ candidates' = candidates /\ drops' = drops
      /\ turn > MaxDepth * Len(buckets) /\ turn \in Nat
    BY DEF EndSelection, searchVars, SelectionInv, Positive
<1>2. ASSUME NEW k, NEW n, IsPlace(k, n) PROVE Treated(k, n)' <=> Treated(k, n)
  <2>1. /\ k \in 1 .. Len(buckets) /\ n \in Positive /\ n <= Len(buckets[k])
        /\ TurnOf(k, n) \in Nat /\ Len(buckets) \in Positive /\ buckets # <<>>
      BY <1>2, PlaceFacts
  <2>2. MaxDepth \in Nat /\ Len(buckets[k]) <= MaxDepth
      BY <1>2, <2>1, DepthFacts DEF IsPlace
  <2>3. Len(buckets[k]) \in Nat
      BY <1>2, Lists DEF IsPlace, SearchInv, OfferOK, IsList
  <2>4. n <= MaxDepth
      BY <2>1, <2>2, <2>3 DEF Positive
  <2>5. TurnOf(k, n) <= MaxDepth * Len(buckets)
      BY <2>1, <2>2, <2>4, RoundBound DEF TurnOf
  <2> DEFINE a == TurnOf(k, n)
             x == MaxDepth * Len(buckets)
  <2>6. a \in Nat /\ x \in Nat /\ a <= x /\ turn > x
      BY <1>1, <2>1, <2>2, <2>5 DEF Positive
  <2> HIDE DEF a, x
  <2>7. a < turn
      BY <1>1, <2>6
  <2> QED  BY <1>1, <2>7 DEF Treated, a
<1> QED  BY <1>1, <1>2, CapKept

\* After the selection the accounts are closed.
LEMMA ClosedAccounts ==
    ASSUME CapInv, phase \notin {"plan", "search", "select"},
           phase' \notin {"plan", "search", "select"}, phase' = "refused" \/ phase # "refused",
           plan' = plan, keys' = keys, buckets' = buckets,
           DOMAIN candidates' = DOMAIN candidates, Len(candidates') = Len(candidates),
           \A c \in DOMAIN candidates : /\ candidates'[c].id = candidates[c].id
                                        /\ candidates'[c].matches = candidates[c].matches,
           drops \subseteq drops', \A d \in drops' : OverBudget(d) => d \in drops
    PROVE  CapInv'
<1>1. \A k, n : IsPlace(k, n) => (Treated(k, n)' <=> Treated(k, n))
    BY DEF Treated
<1> QED  BY <1>1, CapKept

\* The resolution of a candidate keeps its matches.
LEMMA MaterializeEvidenceCaps ==
    ASSUME SelectionInv, CapInv, MaterializeEvidence PROVE CapInv'
<1>1. /\ phase = "cite" /\ phase' = "cite" /\ plan' = plan /\ keys' = keys
      /\ buckets' = buckets /\ drops' = drops
      /\ turn <= Len(candidates) /\ turn \in Positive
    BY DEF MaterializeEvidence, searchVars, SelectionInv
<1>2. turn \in DOMAIN candidates
  <2>1. Len(candidates) \in Nat /\ DOMAIN candidates = 1 .. Len(candidates)
      BY Lists DEF SelectionInv, IsList
  <2> QED  BY <1>1, <2>1 DEF Positive
<1> DEFINE c == candidates[turn]
<1>3. PICK resolved \in Resolutions(c) :
          candidates' = [candidates EXCEPT ![turn] = Resolved(c, resolved)]
    BY DEF MaterializeEvidence
<1> DEFINE d == Resolved(c, resolved)
<1>4. DOMAIN c = {"id", "matches", "evidence", "limited"}
    BY <1>2 DEF SelectionInv, CandidateOK
<1>5. d.id = c.id /\ d.matches = c.matches
    BY <1>4 DEF Resolved
<1> HIDE DEF d
<1>6. /\ DOMAIN candidates' = DOMAIN candidates /\ Len(candidates') = Len(candidates)
      /\ candidates'[turn] = d
      /\ \A k \in DOMAIN candidates : k # turn => candidates'[k] = candidates[k]
    BY <1>2, <1>3, ExceptList DEF SelectionInv, d
<1>7. \A k \in DOMAIN candidates : /\ candidates'[k].id = candidates[k].id
                                   /\ candidates'[k].matches = candidates[k].matches
    BY <1>2, <1>5, <1>6
<1> QED  BY <1>1, <1>6, <1>7, ClosedAccounts

\* What the end of a traversal drops is no candidate.
LEMMA EndTraversalCaps ==
    ASSUME CapInv, EndTraversal PROVE CapInv'
<1>1. /\ phase = "expand" /\ phase' = "expand" /\ plan' = plan /\ keys' = keys
      /\ buckets' = buckets /\ candidates' = candidates
    BY DEF EndTraversal, searchVars
<1>2. PICK order \in HitOrders :
       LET targets == [k \in DOMAIN order |-> order[k].target]
           kept == ElementsOf(evidence) \cup ElementsOf(Admitted(targets))
       IN  drops' = drops \cup UNION
                {{Drop(m.issue, m.request, "REFERENCE_EVIDENCE_BUDGET", h.target) :
                     m \in SeedMatches(walk.issue, h.root)} :
                 h \in {x \in walk.hits : x.target \notin kept}}
    BY DEF EndTraversal
<1> DEFINE targets == [k \in DOMAIN order |-> order[k].target]
           kept == ElementsOf(evidence) \cup ElementsOf(Admitted(targets))
           of(h) == {Drop(m.issue, m.request, "REFERENCE_EVIDENCE_BUDGET", h.target) :
                        m \in SeedMatches(walk.issue, h.root)}
           H == {x \in walk.hits : x.target \notin kept}
<1>3. drops' = drops \cup UNION {of(h) : h \in H}
    BY <1>2
<1>4. \A h : \A d \in of(h) : d.reason = "REFERENCE_EVIDENCE_BUDGET"
    BY DEF Drop
<1> HIDE DEF targets, kept, of, H
<1>5. ASSUME NEW d \in drops', OverBudget(d) PROVE d \in drops
  <2> SUFFICES ASSUME d \notin drops PROVE FALSE
      OBVIOUS
  <2>1. PICK h \in H : d \in of(h)
      BY <1>3
  <2> QED  BY <1>4, <1>5, <2>1 DEF OverBudget
<1> QED  BY <1>1, <1>3, <1>5, ClosedAccounts

\* Before the selection there is nothing to account for.
LEMMA BeforeSelectionCaps ==
    ASSUME SearchInv, CapInv,
           PlanQuestion \/ SearchStage \/ EndRequest \/ SearchElements \/ CloseBucket
    PROVE  CapInv'
<1>1. CASE PlanQuestion
  <2>1. /\ phase = "plan" /\ phase' \in {"search", "refused"} /\ keys' = BucketKeys(plan')
        /\ UNCHANGED <<turn, candidates, drops>> /\ buckets' = buckets
      BY <1>1 DEF PlanQuestion, selectionVars, searchVars
  <2>2. buckets' = <<>>
      BY <2>1 DEF SearchInv
  <2> QED  BY <2>1, <2>2, CapBefore
<1>2. CASE SearchStage \/ EndRequest \/ SearchElements \/ CloseBucket
  <2>1. /\ phase = "search" /\ phase' = "search" /\ keys' = keys /\ plan' = plan
        /\ UNCHANGED <<turn, candidates, drops>>
    <3>1. CASE SearchStage \/ EndRequest
        BY <3>1 DEF SearchStage, EndRequest, Searching, selectionVars
    <3>2. CASE SearchElements \/ CloseBucket
        BY <3>2 DEF SearchElements, CloseBucket, Searching, selectionVars
    <3> QED  BY <1>2, <3>1, <3>2
  <2>2. keys' = BucketKeys(plan')
      BY <2>1 DEF CapInv
  <2> QED  BY <2>1, <2>2, CapBefore
<1> QED  BY <1>1, <1>2

\* Every step keeps the accounts.
LEMMA CapStep ==
    ASSUME GroundInv, CapInv, [PipelineNext]_pipelineVars PROVE CapInv'
<1> SearchInv /\ SelectionInv
    BY DEF GroundInv, EvidenceInv
<1>1. CASE PlanQuestion \/ SearchStage \/ EndRequest \/ SearchElements \/ CloseBucket
    BY <1>1, BeforeSelectionCaps
<1>2. CASE EndSearch \/ SelectCandidate \/ EndSelection
    BY <1>2, EndSearchCaps, SelectCandidateCaps, EndSelectionCaps
<1>3. CASE MaterializeEvidence \/ EndTraversal
    BY <1>3, MaterializeEvidenceCaps, EndTraversalCaps
<1>4. CASE \/ EndMaterialization \/ StartTraversal \/ TakeSource \/ FollowLink
           \/ EndExpansion \/ EvaluateCoverage
  <2>1. /\ phase \in {"cite", "expand", "cover"}
        /\ phase' \in {"expand", "cover", "request", "refused"}
        /\ plan' = plan /\ keys' = keys /\ buckets' = buckets
        /\ candidates' = candidates /\ drops' = drops
    <3>1. CASE EndMaterialization \/ StartTraversal \/ TakeSource
        BY <3>1 DEF EndMaterialization, StartTraversal, TakeSource, searchVars, selectionVars
    <3>2. CASE FollowLink \/ EndExpansion \/ EvaluateCoverage
        BY <3>2 DEF FollowLink, EndExpansion, EvaluateCoverage, searchVars, selectionVars
    <3> QED  BY <1>4, <3>1, <3>2
  <2> QED  BY <2>1, ClosedAccounts
<1>5. CASE AssessmentNext
  <2>1. /\ phase \in {"request", "track_a", "track_b", "finalize"}
        /\ phase' \in {"track_a", "track_b", "finalize", "done"}
        /\ plan' = plan /\ keys' = keys /\ buckets' = buckets
        /\ candidates' = candidates /\ drops' = drops
    <3>1. CASE BuildRequest \/ AcceptTrackA
        BY <3>1 DEF BuildRequest, AcceptTrackA, searchVars, selectionVars
    <3>2. CASE AcceptTrackB \/ FinalizeRun
        BY <3>2 DEF AcceptTrackB, FinalizeRun, searchVars, selectionVars
    <3> QED  BY <1>5, <3>1, <3>2 DEF AssessmentNext
  <2> QED  BY <2>1, ClosedAccounts
<1>6. CASE UNCHANGED pipelineVars
  <2>1. /\ phase' = phase /\ plan' = plan /\ keys' = keys /\ buckets' = buckets
        /\ candidates' = candidates /\ drops' = drops /\ turn' = turn
      BY <1>6 DEF pipelineVars, retrievalVars, searchVars, selectionVars
  <2>2. CASE phase \in {"plan", "search"}
    <3>1. turn' = 1 /\ candidates' = <<>> /\ drops' = {} /\ DOMAIN <<>> = {}
        BY <2>1, <2>2, SingleElements DEF CapInv
    <3>2. \A k, n : ~Treated(k, n)'
        BY <2>1, <2>2 DEF Treated
    <3>3. phase' = "plan" \/ keys' = BucketKeys(plan')
        BY <2>1 DEF CapInv
    <3> QED  BY <2>1, <2>2, <3>1, <3>2, <3>3 DEF CapInv
  <2>3. CASE phase \notin {"plan", "search"}
    <3>1. \A k, n : IsPlace(k, n) => (Treated(k, n)' <=> Treated(k, n))
        BY <2>1 DEF Treated, TurnOf
    <3> QED  BY <2>1, <2>3, <3>1, CapKept
  <2> QED  BY <2>2, <2>3
<1> QED  BY <1>1, <1>2, <1>3, <1>4, <1>5, <1>6 DEF PipelineNext, RetrievalNext

\* A candidate the cap dropped was offered no better than what was selected.
LEMMA DroppedLater ==
    ASSUME SearchInv, SelectionInv, CapInv, NEW k, NEW n, IsPlace(k, n),
           NEW d \in drops, OverBudget(d), d.id = Offered(k, n).id
    PROVE  \A c \in DOMAIN candidates : \E j \in DOMAIN buckets : \E r \in DOMAIN buckets[j] :
              r <= n /\ r \in Positive /\ buckets[j][r].id = candidates[c].id
<1>1. ~Has(candidates, d.id)
    BY DEF CapInv
<1>2. n \in Positive /\ k \in 1 .. Len(buckets) /\ TurnOf(k, n) \in Nat /\ Len(buckets) \in Positive
    BY PlaceFacts
<1>3. PICK j, r : IsPlace(j, r) /\ Treated(j, r) /\ Offered(j, r).id = d.id
    BY DEF CapInv
<1>4. r \in Positive /\ j \in 1 .. Len(buckets) /\ TurnOf(j, r) \in Nat
    BY <1>3, PlaceFacts
<1>5. FullAt(r)
    BY <1>1, <1>3 DEF CapInv
<1>6. FullAt(n) \/ r <= n
  <2>1. CASE Treated(k, n)
    <3>1. Has(candidates, Offered(k, n).id) \/ FullAt(n)
        BY <2>1 DEF CapInv
    <3> QED  BY <1>1, <3>1
  <2>2. CASE ~Treated(k, n)
    <3>1. TurnOf(j, r) < turn /\ ~(TurnOf(k, n) < turn) /\ turn \in Nat
        BY <1>3, <2>2 DEF Treated, SelectionInv, Positive
    <3>2. TurnOf(j, r) <= TurnOf(k, n)
        BY <1>2, <1>4, <3>1
    <3> QED  BY <1>2, <1>4, <3>2, RoundOrder DEF TurnOf
  <2> QED  BY <2>1, <2>2
<1>7. ASSUME NEW c \in DOMAIN candidates
      PROVE  \E q \in DOMAIN buckets : \E s \in DOMAIN buckets[q] :
                s <= n /\ s \in Positive /\ buckets[q][s].id = candidates[c].id
  <2>1. CASE FullAt(n)
    <3>1. PICK q \in DOMAIN buckets : \E s \in DOMAIN buckets[q] :
              s <= n /\ buckets[q][s].id = candidates[c].id
        BY <2>1 DEF FullAt
    <3>2. PICK s \in DOMAIN buckets[q] : s <= n /\ buckets[q][s].id = candidates[c].id
        BY <3>1
    <3>3. s \in Positive
        BY <3>2, PlaceFacts DEF IsPlace
    <3> QED  BY <3>2, <3>3
  <2>2. CASE r <= n
    <3>1. PICK q \in DOMAIN buckets : \E s \in DOMAIN buckets[q] :
              s <= r /\ buckets[q][s].id = candidates[c].id
        BY <1>5 DEF FullAt
    <3>2. PICK s \in DOMAIN buckets[q] : s <= r /\ buckets[q][s].id = candidates[c].id
        BY <3>1
    <3>3. s \in Positive
        BY <3>2, PlaceFacts DEF IsPlace
    <3>4. s <= n
        BY <1>2, <1>4, <2>2, <3>2, <3>3 DEF Positive
    <3> QED  BY <3>2, <3>3, <3>4
  <2> QED  BY <1>6, <2>1, <2>2
<1> QED  BY <1>7

\* The accounts tell what the caps cut off.
LEMMA CapsReported == ASSUME SearchInv, CapInv PROVE BudgetsReported
<1> SUFFICES ASSUME phase \in {"cite", "expand", "cover", "request"}
             PROVE  /\ \A k \in DOMAIN buckets : \A n \in DOMAIN buckets[k] :
                          \A m \in buckets[k][n].matches :
                              \/ Selected(m, buckets[k][n].id)
                              \/ Drop(m.issue, m.request, "CANDIDATE_BUDGET", buckets[k][n].id) \in drops
                    /\ \A i \in DOMAIN plan.issues : \A x \in ElementsOf(plan.requests) :
                          (i \in x.issues /\ x.role \in RequiredRoles(i)) =>
                              \/ \E b \in ElementsOf(keys) :
                                    b.issue = i /\ x \in ElementsOf(b.requests)
                              \/ Drop(i, x.id, "QUERY_BUDGET", 0) \in drops
    BY DEF BudgetsReported
<1>1. ASSUME NEW k \in DOMAIN buckets, NEW n \in DOMAIN buckets[k]
      PROVE  Carried(k, n)
  <2>1. IsPlace(k, n) /\ Treated(k, n)
      BY DEF IsPlace, Treated
  <2> QED  BY <2>1 DEF CapInv
<1>2. ASSUME NEW i \in DOMAIN plan.issues, NEW x \in ElementsOf(plan.requests),
             i \in x.issues, x.role \in RequiredRoles(i)
      PROVE  \/ \E b \in ElementsOf(keys) : b.issue = i /\ x \in ElementsOf(b.requests)
             \/ Drop(i, x.id, "QUERY_BUDGET", 0) \in drops
  <2>1. PlanOK(plan) /\ keys = BucketKeys(plan) /\ QueryDrops(plan) \subseteq drops
      BY DEF SearchInv, CapInv
  <2>2. x \in ElementsOf(RequestOrder(plan, i))
      BY <1>2, <2>1, OrderElements DEF RequiredRoles
  <2>3. CASE x \in ElementsOf(RequestsForIssue(plan, i))
      BY <2>1, <2>3, KeysElements
  <2>4. CASE x \notin ElementsOf(RequestsForIssue(plan, i))
    <3> DEFINE of(j) == {Drop(j, y.id, "QUERY_BUDGET", 0) :
                  y \in ElementsOf(RequestOrder(plan, j)) \ ElementsOf(RequestsForIssue(plan, j))}
    <3>1. QueryDrops(plan) = UNION {of(j) : j \in DOMAIN plan.issues}
        BY DEF QueryDrops
    <3>2. Drop(i, x.id, "QUERY_BUDGET", 0) \in of(i)
        BY <2>2, <2>4
    <3> HIDE DEF of
    <3> QED  BY <2>1, <3>1, <3>2
  <2> QED  BY <2>3, <2>4
<1> QED  BY <1>1, <1>2 DEF Carried, Offered

\* The accounts tell that the cap is fair.
LEMMA CapsFair == ASSUME SearchInv, SelectionInv, CapInv PROVE CapIsFair
<1> SUFFICES ASSUME NEW k \in DOMAIN buckets, NEW n \in DOMAIN buckets[k],
                    NEW m \in buckets[k][n].matches,
                    Drop(m.issue, m.request, "CANDIDATE_BUDGET", buckets[k][n].id) \in drops,
                    NEW c \in DOMAIN candidates
             PROVE  \E j \in DOMAIN buckets : \E r \in 1 .. n :
                       r <= Len(buckets[j]) /\ buckets[j][r].id = candidates[c].id
    BY DEF CapIsFair
<1> DEFINE d == Drop(m.issue, m.request, "CANDIDATE_BUDGET", buckets[k][n].id)
<1>1. IsPlace(k, n) /\ d \in drops /\ OverBudget(d) /\ d.id = Offered(k, n).id
    BY DEF IsPlace, Drop, OverBudget, Offered
<1> HIDE DEF d
<1>2. PICK j \in DOMAIN buckets : \E r \in DOMAIN buckets[j] :
          r <= n /\ r \in Positive /\ buckets[j][r].id = candidates[c].id
    BY <1>1, DroppedLater
<1>3. PICK r \in DOMAIN buckets[j] :
          r <= n /\ r \in Positive /\ buckets[j][r].id = candidates[c].id
    BY <1>2
<1>4. r <= Len(buckets[j])
    BY PlaceFacts DEF IsPlace
<1>5. n \in Positive
    BY <1>1, PlaceFacts
<1>6. r \in 1 .. n
    BY <1>3, <1>5 DEF Positive
<1> QED  BY <1>3, <1>4, <1>6

\* What the query budget and the candidate cap cut off is reported, and the cap is
\* fair: it drops nothing that was offered at a better rank than something it
\* kept (retrieval/issue_bundle.py).
THEOREM CapsAreHonestHolds == PipelineSpec => []CapsAreHonest
<1>1. RetrievalInit /\ AssessmentInit => GroundInv /\ CapInv
    BY GroundInit, CapInit
<1>2. GroundInv /\ CapInv /\ [PipelineNext]_pipelineVars => (GroundInv /\ CapInv)'
    BY GroundStep, CapStep
<1>3. GroundInv /\ CapInv => CapsAreHonest
    BY CapsReported, CapsFair DEF GroundInv, EvidenceInv, CapsAreHonest
<1> QED  BY <1>1, <1>2, <1>3, PTL DEF PipelineSpec
================================================================================
