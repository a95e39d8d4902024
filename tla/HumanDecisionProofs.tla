------------------------- MODULE HumanDecisionProofs -------------------------
(***************************************************************************)
(* A decision that was answered RECORDED stays on disk as it was given and *)
(* keeps completing the review of its packet, for any number of servers,   *)
(* concurrent writers, reviewers, packets and any clock skew allowance.    *)
(***************************************************************************)
EXTENDS HumanDecision, Workbench, ServerLifecycle, FiniteSetTheorems, TLAPS

\* The empty file a writer created is its own until it is written: no writer is
\* about to fill a file that is not torn, and no two are about to fill the same.
FillsOwnFile ==
    /\ \A h \in Writers : writer[h].pc = "fill" => file[FileName(h)] = Torn
    /\ \A g, h \in Writers :
           (writer[g].pc = "fill" /\ writer[h].pc = "fill" /\ FileName(g) = FileName(h))
               => g = h

\* A time taken from the clock of a server lies below the highest clock.
\* A writer that has not started belongs to no server.
StampedByClock ==
    \A h \in Writers :
        /\ writer[h].pc = "idle" => writer[h].origin = NoServer
        /\ (writer[h].origin # NoServer /\ writer[h].pc \in {"create", "fill", "recorded"})
               => writer[h].time <= peak

\* The clock is never more than Skew behind its peak.
ClockNearPeak == clock <= peak /\ peak <= clock + Skew

DecisionInv ==
    TypeOK /\ FillsOwnFile /\ AnsweredIntact /\ StampedByClock /\ ClockNearPeak

\* The three kinds of content of a file name are different.
LEMMA ContentsDiffer ==
    /\ NoFile # Torn
    /\ \A r \in Reviewers, p \in Packets, v \in Verdicts :
           Record(r, p, v) # Torn /\ Record(r, p, v) # NoFile
  BY DEF NoFile, Torn, Record

\* The file name of a writer is a name, its content a record.
LEMMA NameAndContent ==
    ASSUME TypeOK, NEW h \in Writers
    PROVE  FileName(h) \in Names /\ Content(h) \in Records
  BY DecisionAssumption DEF TypeOK, FileName, Content, Names, Records, Times

\* The initial state satisfies the invariant.
LEMMA InitDecision == Init => DecisionInv
  <1> SUFFICES ASSUME Init PROVE DecisionInv
    OBVIOUS
  <1>1. TypeOK
    BY DecisionAssumption DEF Init, TypeOK, WriterStates, Times
  <1>2. \A h \in Writers : writer[h].pc = "idle" /\ writer[h].origin = NoServer
    BY DEF Init
  <1>3. FillsOwnFile /\ AnsweredIntact /\ StampedByClock
    BY <1>2 DEF FillsOwnFile, AnsweredIntact, StampedByClock
  <1>4. ClockNearPeak
    BY DecisionAssumption DEF Init, ClockNearPeak
  <1> QED
    BY <1>1, <1>3, <1>4 DEF DecisionInv

\* Only a writer that is about to fill or has filled its file is constrained: a
\* step that leaves the files alone, brings no writer into those states and
\* keeps what those writers hold, keeps the part of the invariant about files.
LEMMA FilesKept ==
    ASSUME FillsOwnFile, AnsweredIntact, file' = file,
           \A h \in Writers : writer'[h].pc \in {"fill", "recorded"} => writer'[h] = writer[h]
    PROVE  FillsOwnFile' /\ AnsweredIntact'
  BY DEF FillsOwnFile, AnsweredIntact, FileName, Content

\* How a step may bring a writer among those with a time.
TimesFrom ==
    \A h \in Writers :
        /\ writer'[h].pc = "idle" => writer'[h] = writer[h]
        /\ writer'[h].pc \in {"create", "fill", "recorded"} =>
               \/ writer'[h] = writer[h]
               \/ writer'[h].origin = NoServer
               \/ writer'[h].time <= peak
               \/ /\ writer[h].pc \in {"create", "fill", "recorded"}
                  /\ writer'[h].origin = writer[h].origin
                  /\ writer'[h].time = writer[h].time

\* Such a step keeps server times below the peak when the peak does not decrease.
LEMMA StampsKept ==
    ASSUME TypeOK, TypeOK', StampedByClock, peak <= peak', TimesFrom
    PROVE  StampedByClock'
  BY DecisionAssumption DEF StampedByClock, TypeOK, Times, TimesFrom

\* Every step keeps the variables in their types.
LEMMA TypeStep == TypeOK /\ [Next]_vars => TypeOK'
  <1> SUFFICES ASSUME TypeOK, [Next]_vars PROVE TypeOK'
    OBVIOUS
  <1> USE DEF TypeOK, WriterStates, authority, time
  <1>1. ASSUME NEW s \in Servers, StartServer(s) PROVE TypeOK'
    BY <1>1 DEF StartServer
  <1>2. ASSUME NEW s \in Servers, ServerExit(s) PROVE TypeOK'
    BY <1>2 DEF ServerExit
  <1>3. ASSUME NEW h \in Writers, NEW s \in Servers, PostArrives(h, s) PROVE TypeOK'
    BY <1>3 DEF PostArrives
  <1>4. ASSUME NEW h \in Writers, PostRecheck(h) PROVE TypeOK'
    <2>1. CASE Goto(h, "refused")
      BY SMTT(40), <1>4, <2>1 DEF PostRecheck, Goto
    <2>2. CASE /\ CurrentPresentation(writer[h].origin)
               /\ writer' = [writer EXCEPT ![h] =
                    [@ EXCEPT !.pc = "stamp", !.packet = server[writer[h].origin].shown]]
      BY <1>4, <2>2 DEF PostRecheck, CurrentPresentation
    <2> QED BY <1>4, <2>1, <2>2 DEF PostRecheck
  <1>5. ASSUME NEW h \in Writers, PostStamp(h) PROVE TypeOK'
    BY <1>5 DEF PostStamp
  <1>6. ASSUME NEW h \in Writers, NEW t \in ImportTimes, ImportEnvelope(h, t) PROVE TypeOK'
    BY ZenonT(60), <1>6, DecisionAssumption DEF ImportEnvelope, Times
  <1>7. ASSUME NEW h \in Writers, ImportKilled(h) PROVE TypeOK'
    BY <1>7 DEF ImportKilled, Goto
  <1>8. ASSUME NEW h \in Writers, CreateRecord(h) PROVE TypeOK'
    BY <1>8, NameAndContent DEF CreateRecord, Goto
  <1>9. ASSUME NEW h \in Writers, WriteRecord(h) PROVE TypeOK'
    BY <1>9, NameAndContent DEF WriteRecord, Goto
  <1>10. ASSUME ChangeAuthority PROVE TypeOK'
    BY <1>10 DEF ChangeAuthority
  <1>11. ASSUME Tick PROVE TypeOK'
    BY <1>11, DecisionAssumption DEF Tick, Times
  <1>12. ASSUME SetClockBack PROVE TypeOK'
    BY <1>12, DecisionAssumption DEF SetClockBack, Times
  <1>13. CASE UNCHANGED vars
    BY <1>13 DEF vars
  <1> QED
    BY <1>1, <1>2, <1>3, <1>4, <1>5, <1>6, <1>7, <1>8, <1>9, <1>10, <1>11, <1>12, <1>13
    DEF Next, WriterStep

\* Every step keeps answered decisions intact, with the ownership of empty files.
LEMMA FilesStep ==
    ASSUME TypeOK, FillsOwnFile, AnsweredIntact, [Next]_vars
    PROVE  FillsOwnFile' /\ AnsweredIntact'
  <1> USE DEF TypeOK, authority, time
  <1>1. ASSUME NEW s \in Servers, StartServer(s) PROVE FillsOwnFile' /\ AnsweredIntact'
    BY <1>1, FilesKept DEF StartServer
  <1>2. ASSUME NEW s \in Servers, ServerExit(s) PROVE FillsOwnFile' /\ AnsweredIntact'
    BY <1>2, FilesKept DEF ServerExit
  <1>3. ASSUME NEW h \in Writers, NEW s \in Servers, PostArrives(h, s)
        PROVE  FillsOwnFile' /\ AnsweredIntact'
    BY <1>3, FilesKept DEF PostArrives
  <1>4. ASSUME NEW h \in Writers, PostRecheck(h) PROVE FillsOwnFile' /\ AnsweredIntact'
    BY ZenonT(60), <1>4, FilesKept DEF PostRecheck, Goto
  <1>5. ASSUME NEW h \in Writers, PostStamp(h) PROVE FillsOwnFile' /\ AnsweredIntact'
    BY <1>5, FilesKept DEF PostStamp
  <1>6. ASSUME NEW h \in Writers, NEW t \in ImportTimes, ImportEnvelope(h, t)
        PROVE  FillsOwnFile' /\ AnsweredIntact'
    BY <1>6, FilesKept DEF ImportEnvelope
  <1>7. ASSUME NEW h \in Writers, ImportKilled(h) PROVE FillsOwnFile' /\ AnsweredIntact'
    BY <1>7, FilesKept DEF ImportKilled, Goto
  <1>8. ASSUME NEW h \in Writers, CreateRecord(h) PROVE FillsOwnFile' /\ AnsweredIntact'
    <2>1. CASE Goto(h, "refused") /\ UNCHANGED file
      BY <2>1, FilesKept DEF Goto
    <2>2. CASE /\ file[FileName(h)] = NoFile
               /\ file' = [file EXCEPT ![FileName(h)] = Torn] /\ Goto(h, "fill")
      <3>1. \A g \in Writers : FileName(g)' = FileName(g) /\ Content(g)' = Content(g)
        BY <2>2 DEF Goto, FileName, Content
      <3>2. \A g \in Writers :
                writer[g].pc \in {"fill", "recorded"} => FileName(g) # FileName(h)
        BY <2>2, ContentsDiffer DEF FillsOwnFile, AnsweredIntact, Content
      <3>3. FileName(h) \in Names
        BY NameAndContent
      <3>4. \A g \in Writers : g # h => writer'[g] = writer[g]
        BY <2>2 DEF Goto
      <3>5. writer'[h].pc = "fill"
        BY <2>2 DEF Goto
      <3>6. \A g \in Writers : g # h /\ writer'[g].pc \in {"fill", "recorded"} =>
                file'[FileName(g)] = file[FileName(g)]
        BY <2>2, <3>2, <3>4, NameAndContent
      <3>7. file'[FileName(h)] = Torn
        BY <2>2, <3>3
      <3> QED
        BY <3>1, <3>2, <3>4, <3>5, <3>6, <3>7 DEF FillsOwnFile, AnsweredIntact
    <2> QED BY <1>8, <2>1, <2>2 DEF CreateRecord
  <1>9. ASSUME NEW h \in Writers, WriteRecord(h) PROVE FillsOwnFile' /\ AnsweredIntact'
    <2>1. CASE Goto(h, "refused") /\ UNCHANGED file
      BY <2>1, FilesKept DEF Goto
    <2>2. CASE file' = [file EXCEPT ![FileName(h)] = Content(h)] /\ Goto(h, "recorded")
      <3>1. \A g \in Writers : FileName(g)' = FileName(g) /\ Content(g)' = Content(g)
        BY <2>2 DEF Goto, FileName, Content
      <3>2. \A g \in Writers :
                g # h /\ writer[g].pc \in {"fill", "recorded"} => FileName(g) # FileName(h)
        BY <1>9, ContentsDiffer DEF WriteRecord, FillsOwnFile, AnsweredIntact, Content
      <3>3. FileName(h) \in Names
        BY NameAndContent
      <3>4. \A g \in Writers : g # h => writer'[g] = writer[g]
        BY <2>2 DEF Goto
      <3>5. writer'[h].pc = "recorded"
        BY <2>2 DEF Goto
      <3>6. \A g \in Writers : g # h /\ writer'[g].pc \in {"fill", "recorded"} =>
                file'[FileName(g)] = file[FileName(g)]
        BY <2>2, <3>2, <3>4, NameAndContent
      <3>7. file'[FileName(h)] = Content(h)
        BY <2>2, <3>3
      <3> QED
        BY <3>1, <3>2, <3>4, <3>5, <3>6, <3>7 DEF FillsOwnFile, AnsweredIntact
    <2> QED BY <1>9, <2>1, <2>2 DEF WriteRecord
  <1>10. ASSUME ChangeAuthority \/ Tick \/ SetClockBack \/ UNCHANGED vars
         PROVE  FillsOwnFile' /\ AnsweredIntact'
    BY <1>10, FilesKept DEF ChangeAuthority, Tick, SetClockBack, vars
  <1> QED
    BY <1>1, <1>2, <1>3, <1>4, <1>5, <1>6, <1>7, <1>8, <1>9, <1>10 DEF Next, WriterStep

\* Every step keeps server times below the peak, and the clock near it.
LEMMA ClockStep ==
    ASSUME TypeOK, TypeOK', StampedByClock, ClockNearPeak, [Next]_vars
    PROVE  StampedByClock' /\ ClockNearPeak'
  <1>1. ClockNearPeak' /\ peak <= peak'
    <2>1. CASE Tick
      BY <2>1, DecisionAssumption DEF Tick, ClockNearPeak, TypeOK, Times
    <2>2. CASE SetClockBack
      BY <2>2, DecisionAssumption DEF SetClockBack, ClockNearPeak, TypeOK, Times
    <2>3. CASE UNCHANGED time
      BY <2>3, DecisionAssumption DEF time, ClockNearPeak, TypeOK, Times
    <2>4. ASSUME NEW h \in Writers, WriterStep(h) PROVE UNCHANGED time
      BY <2>4 DEF WriterStep, PostArrives, PostRecheck, PostStamp, ImportEnvelope,
         ImportKilled, CreateRecord, WriteRecord
    <2>5. ASSUME NEW s \in Servers, StartServer(s) \/ ServerExit(s) PROVE UNCHANGED time
      BY <2>5 DEF StartServer, ServerExit
    <2>6. CASE ChangeAuthority \/ UNCHANGED vars
      <3>1. UNCHANGED time
        BY <2>6 DEF ChangeAuthority, vars, time
      <3> QED BY <2>3, <3>1
    <2> QED
      BY <2>1, <2>2, <2>3, <2>4, <2>5, <2>6 DEF Next
  <1>2. TimesFrom
    <2> USE DEF TypeOK, TimesFrom
    <2>1. ASSUME NEW s \in Servers, StartServer(s) \/ ServerExit(s) PROVE TimesFrom
      BY <2>1 DEF StartServer, ServerExit
    <2>2. ASSUME NEW h \in Writers, NEW s \in Servers, PostArrives(h, s) PROVE TimesFrom
      BY <2>2 DEF PostArrives
    <2>3. ASSUME NEW h \in Writers, PostRecheck(h) PROVE TimesFrom
      <3>1. \A g \in Writers \ {h} : writer'[g] = writer[g]
        BY <2>3 DEF PostRecheck, Goto
      <3>2. CASE Goto(h, "refused")
        BY <3>1, <3>2 DEF Goto
      <3>3. CASE writer' = [writer EXCEPT ![h] =
                    [@ EXCEPT !.pc = "stamp", !.packet = server[writer[h].origin].shown]]
        BY <3>1, <3>3
      <3> QED BY <2>3, <3>2, <3>3 DEF PostRecheck
    <2>4. ASSUME NEW h \in Writers, PostStamp(h) PROVE TimesFrom
      BY <2>4 DEF PostStamp, ClockNearPeak
    <2>5. ASSUME NEW h \in Writers, NEW t \in ImportTimes, ImportEnvelope(h, t) PROVE TimesFrom
      BY <2>5 DEF ImportEnvelope, StampedByClock
    <2>6. ASSUME NEW h \in Writers, ImportKilled(h) PROVE TimesFrom
      BY <2>6 DEF ImportKilled, Goto
    <2>7. ASSUME NEW h \in Writers, CreateRecord(h) \/ WriteRecord(h) PROVE TimesFrom
      BY <2>7 DEF CreateRecord, WriteRecord, Goto
    <2>8. ASSUME ChangeAuthority \/ Tick \/ SetClockBack \/ UNCHANGED vars PROVE TimesFrom
      BY <2>8 DEF ChangeAuthority, Tick, SetClockBack, vars
    <2> QED
      BY <2>1, <2>2, <2>3, <2>4, <2>5, <2>6, <2>7, <2>8 DEF Next, WriterStep
  <1> QED
    BY <1>1, <1>2, StampsKept
\* The invariant is inductive.
THEOREM DecisionInvariant == Spec => []DecisionInv
  <1>1. DecisionInv /\ [Next]_vars => DecisionInv'
    BY TypeStep, FilesStep, ClockStep DEF DecisionInv
  <1> QED
    BY InitDecision, <1>1, PTL DEF Spec

\* Every variable keeps its type.
THEOREM DecisionTypeCorrect == Spec => []TypeOK
  <1>1. DecisionInv => TypeOK
    BY DEF DecisionInv
  <1> QED
    BY DecisionInvariant, <1>1, PTL

\* A decision reported as recorded, by the server or by the import, is on disk as it
\* was given for ever after: no concurrent request, import or restart replaces it.
THEOREM AnsweredIntactHolds == Spec => []AnsweredIntact
  <1>1. DecisionInv => AnsweredIntact
    BY DEF DecisionInv
  <1> QED
    BY DecisionInvariant, <1>1, PTL

\* A decision a server reported as recorded completes the review of its packet for
\* ever after, although the clock may be set back by the allowed skew.
THEOREM AnsweredIsCountedHolds == Spec => []AnsweredIsCounted
  <1>1. DecisionInv => AnsweredIsCounted
    <2> SUFFICES ASSUME DecisionInv, NEW h \in Writers,
                        writer[h].pc = "recorded", writer[h].origin # NoServer
                 PROVE  /\ BindingStatus(writer[h].packet) = "VALID"
                        /\ \A p \in Packets : BindingStatus(p) # "MISSING"
      BY DEF AnsweredIsCounted
    <2>1. file[FileName(h)] = Content(h)
      BY DEF DecisionInv, AnsweredIntact
    <2>2. FileName(h) \in Names /\ writer[h].packet \in Packets
      BY NameAndContent DEF DecisionInv, TypeOK
    <2>3. ValidFor(FileName(h), writer[h].packet)
      BY <2>1 DEF ValidFor, Content, Record
    <2>4. writer[h].time <= LiveCutoff
      BY DecisionAssumption DEF DecisionInv, StampedByClock, ClockNearPeak, LiveCutoff,
         TypeOK, Times
    <2>5. FileName(h)[1] <= LiveCutoff
      BY <2>4 DEF FileName
    <2>6. FileName(h) \in Counted(writer[h].packet, LiveCutoff)
      BY <2>2, <2>3, <2>5 DEF Counted
    <2> QED
      BY <2>2, <2>6 DEF BindingStatus
  <1> QED
    BY DecisionInvariant, <1>1, PTL

-----------------------------------------------------------------------------
(* The Workbench server: mutations.  A retry carries the revision of its    *)
(* first attempt, so that an edit that is already in the Matter finds a     *)
(* newer revision than the one it expects.                                  *)

Edits == Clients \X Nat
ClientStates == [at : {"idle", "sent", "applied", "stale"}, to : Processes \cup {NoProcess},
                 base : Nat, edit : Nat, tries : Nat]
MutationTypeOK ==
    /\ matter \in Seq(Edits)
    /\ client \in [Clients -> ClientStates]
    /\ answers \subseteq [edit : Edits, ok : BOOLEAN, tries : Nat]

Applied(edit) == \E i \in 1 .. Len(matter) : matter[i] = edit
EditOf(c) == <<c, client[c].edit>>

MatterOfClients ==
    /\ \A i, j \in 1 .. Len(matter) : matter[i] = matter[j] => i = j
    /\ \A i \in 1 .. Len(matter) : matter[i][2] <= client[matter[i][1]].edit
ClientKnows ==
    \A c \in Clients :
        /\ client[c].at # "idle" /\ Applied(EditOf(c)) => client[c].base < Len(matter)
        /\ client[c].at = "applied" => Applied(EditOf(c))
        /\ client[c].at \in {"sent", "stale"} /\ client[c].tries = 1 => ~Applied(EditOf(c))
AnswersHold ==
    \A a \in answers :
        /\ a.edit[2] <= client[a.edit[1]].edit
        /\ a.edit = EditOf(a.edit[1]) => client[a.edit[1]].at = "idle"
        /\ a.ok => Applied(a.edit)
        /\ ~a.ok /\ a.tries = 1 => ~Applied(a.edit)

MutationInv == MutationTypeOK /\ MatterOfClients /\ ClientKnows /\ AnswersHold

LEMMA InitMutations == WorkbenchInit => MutationInv
  <1> SUFFICES ASSUME WorkbenchInit PROVE MutationInv
    OBVIOUS
  <1>1. MutationTypeOK /\ Len(matter) = 0 /\ answers = {}
    BY DEF WorkbenchInit, MutationTypeOK, ClientStates
  <1>2. \A c \in Clients : client[c].at = "idle"
    BY DEF WorkbenchInit
  <1> QED
    BY <1>1, <1>2 DEF MutationInv, MatterOfClients, ClientKnows, AnswersHold

\* The lifecycle does not touch the mutations.
LEMMA LifecycleApart ==
    ASSUME \/ \E o \in Operators : OperatorStep(o)
           \/ \E p \in Processes : ProcessStep(p)
    PROVE  UNCHANGED mutationVars
  BY DEF OperatorStep, Ask, StatusReads, VerifyServer, RemoveStale, StartProcess, AwaitPort, StopReads,
     StopKills, StopCompares, StopRemoves, ProcessStep, CreateServerFile, WriteServerFile, AnnouncePort,
     ServeForever, BeginShutdown, CloseReads, CloseRemoves, KillProcess

LEMMA EditsTyped ==
    ASSUME MutationTypeOK
    PROVE  /\ Len(matter) \in Nat
           /\ \A i \in 1 .. Len(matter) : /\ matter[i] = <<matter[i][1], matter[i][2]>>
                                         /\ matter[i][1] \in Clients /\ matter[i][2] \in Nat
           /\ \A a \in answers : /\ a.edit = <<a.edit[1], a.edit[2]>>
                                /\ a.edit[1] \in Clients /\ a.edit[2] \in Nat
           /\ \A c \in Clients : client[c].edit \in Nat /\ client[c].base \in Nat
  <1>1. Len(matter) \in Nat /\ \A i \in 1 .. Len(matter) : matter[i] \in Edits
    BY DEF MutationTypeOK, ClientStates
  <1>2. \A a \in answers : a.edit \in Edits
    BY DEF MutationTypeOK, ClientStates
  <1>3. \A c \in Clients : client[c].edit \in Nat /\ client[c].base \in Nat
    BY DEF MutationTypeOK, ClientStates
  <1> QED
    BY <1>1, <1>2, <1>3 DEF Edits

\* A step that leaves the Matter and the answers alone and only changes what
\* an idle client knows of the revision.
LEMMA FewerClaims ==
    ASSUME MutationInv, MutationTypeOK', UNCHANGED <<matter, answers>>, NEW c \in Clients,
           client[c].at = "idle",
           \A d \in Clients :
               /\ client'[d].edit = client[d].edit /\ client'[d].at = client[d].at
               /\ client'[d].tries = client[d].tries
               /\ d # c => client'[d] = client[d]
    PROVE  MutationInv'
  <1>1. \A d \in Clients : EditOf(d)' = EditOf(d)
    BY DEF EditOf
  <1>2. \A edit : Applied(edit)' <=> Applied(edit)
    BY DEF Applied
  <1>3. MatterOfClients'
    BY EditsTyped DEF MutationInv, MatterOfClients
  <1>4. ClientKnows'
    BY <1>1, <1>2 DEF MutationInv, ClientKnows
  <1>5. AnswersHold'
    BY <1>1, <1>2, EditsTyped DEF MutationInv, AnswersHold
  <1> QED
    BY <1>3, <1>4, <1>5 DEF MutationInv

LEMMA MutationsInductive == MutationInv /\ [WorkbenchNext]_workbenchVars => MutationInv'
  <1> SUFFICES ASSUME MutationInv, [WorkbenchNext]_workbenchVars PROVE MutationInv'
    OBVIOUS
  <1> USE DEF MutationInv
  <1>1. CASE UNCHANGED mutationVars
    BY <1>1 DEF mutationVars, MutationTypeOK, ClientStates, MatterOfClients, ClientKnows, AnswersHold, Applied, EditOf
  <1>2. ASSUME NEW c \in Clients, NEW p \in Processes, Look(c, p) PROVE MutationInv'
    <2>1. MutationTypeOK'
      BY <1>2, EditsTyped DEF Look, MutationTypeOK, ClientStates
    <2>2. /\ UNCHANGED <<matter, answers>> /\ client[c].at = "idle"
          /\ \A d \in Clients :
               /\ client'[d].edit = client[d].edit /\ client'[d].at = client[d].at
               /\ client'[d].tries = client[d].tries
               /\ d # c => client'[d] = client[d]
      BY <1>2 DEF Look, MutationTypeOK, ClientStates
    <2> QED
      BY <2>1, <2>2, FewerClaims DEF MatterOfClients
  <1>3. ASSUME NEW c \in Clients, NEW p \in Processes, Post(c, p) PROVE MutationInv'
    <2>1. MutationTypeOK'
      <3> DEFINE r == [at |-> "sent", to |-> p, base |-> client[c].base, edit |-> client[c].edit + 1,
                       tries |-> 1]
      <3>1. client[c] \in ClientStates /\ UNCHANGED <<matter, answers>>
        BY <1>3 DEF Post, MutationTypeOK
      <3>2. r \in ClientStates
        BY <3>1 DEF ClientStates
      <3>3. client' = [client EXCEPT ![c] = r]
        BY <1>3, <3>1 DEF Post, MutationTypeOK, ClientStates
      <3> HIDE DEF r
      <3> QED
        BY <3>1, <3>2, <3>3 DEF MutationTypeOK
    <2>2. /\ UNCHANGED <<matter, answers>>
          /\ client'[c].at = "sent" /\ client'[c].edit = client[c].edit + 1
          /\ \A d \in Clients : d # c => client'[d] = client[d]
      BY <1>3 DEF Post, MutationTypeOK, ClientStates
    <2>3. \A edit \in Edits : Applied(edit)' <=> Applied(edit)
      BY <2>2 DEF Applied
    <2>4. ~Applied(<<c, client[c].edit + 1>>)
      <3> SUFFICES ASSUME NEW i \in 1 .. Len(matter), matter[i] = <<c, client[c].edit + 1>> PROVE FALSE
        BY DEF Applied
      <3>1. matter[i][1] = c /\ matter[i][2] = client[c].edit + 1
        OBVIOUS
      <3>2. client[c].edit + 1 <= client[c].edit
        BY <3>1 DEF MatterOfClients
      <3> QED
        BY <3>2, EditsTyped
    <2>5. MatterOfClients'
      <3>1. ASSUME NEW d \in Clients PROVE client[d].edit <= client'[d].edit
        <4>1. CASE d = c
          BY <2>2, <4>1, EditsTyped
        <4>2. CASE d # c
          BY <2>2, <4>2, EditsTyped
        <4> QED BY <4>1, <4>2
      <3>2. ASSUME NEW i \in 1 .. Len(matter) PROVE matter[i][2] <= client'[matter[i][1]].edit
        <4>1. /\ matter[i][1] \in Clients /\ matter[i][2] \in Nat
              /\ matter[i][2] <= client[matter[i][1]].edit
          BY EditsTyped DEF MatterOfClients
        <4>2. /\ client[matter[i][1]].edit \in Nat
              /\ client[matter[i][1]].edit <= client'[matter[i][1]].edit
          BY <3>1, <4>1, EditsTyped
        <4>3. client'[matter[i][1]].edit \in Nat
          BY <2>2, <4>1, EditsTyped
        <4> QED BY <4>1, <4>2, <4>3
      <3> QED BY <2>2, <3>2 DEF MatterOfClients
    <2>6. ClientKnows'
      <3> SUFFICES ASSUME NEW d \in Clients
                   PROVE  /\ client'[d].at # "idle" /\ Applied(EditOf(d))' => client'[d].base < Len(matter)
                          /\ client'[d].at = "applied" => Applied(EditOf(d))'
                          /\ client'[d].at \in {"sent", "stale"} /\ client'[d].tries = 1
                               => ~Applied(EditOf(d))'
        BY <2>2 DEF ClientKnows
      <3>1. EditOf(d)' = IF d = c THEN <<c, client[c].edit + 1>> ELSE EditOf(d)
        BY <2>2 DEF EditOf
      <3>2. Applied(EditOf(d))' <=> IF d = c THEN FALSE ELSE Applied(EditOf(d))
        BY <2>2, <2>4, <3>1 DEF Applied
      <3> QED
        BY <2>2, <3>2 DEF ClientKnows
    <2>7. AnswersHold'
      <3> SUFFICES ASSUME NEW a \in answers
                   PROVE  /\ a.edit[2] <= client'[a.edit[1]].edit
                          /\ a.edit = EditOf(a.edit[1])' => client'[a.edit[1]].at = "idle"
                          /\ a.ok => Applied(a.edit)
                          /\ ~a.ok /\ a.tries = 1 => ~Applied(a.edit)
        BY <2>2 DEF AnswersHold, Applied
      <3>1. a.edit[1] \in Clients /\ a.edit[2] \in Nat /\ a.edit[2] <= client[a.edit[1]].edit
        BY DEF MutationTypeOK, ClientStates, Edits, AnswersHold
      <3>2. CASE a.edit[1] = c
        BY <2>2, <3>1, <3>2 DEF AnswersHold, EditOf, MutationTypeOK, ClientStates
      <3>3. CASE a.edit[1] # c
        BY <2>2, <3>1, <3>3 DEF AnswersHold, EditOf
      <3> QED
        BY <3>2, <3>3
    <2> QED
      BY <2>1, <2>5, <2>6, <2>7
  <1>4. ASSUME NEW c \in Clients, NEW p \in Processes, PostAgain(c, p) PROVE MutationInv'
    <2>1. MutationTypeOK'
      BY ZenonT(60), <1>4 DEF PostAgain, MutationTypeOK, ClientStates
    <2>2. /\ UNCHANGED <<matter, answers>> /\ client[c].at # "idle"
          /\ client'[c].at = "sent" /\ client'[c].tries = 2
          /\ client'[c].edit = client[c].edit /\ client'[c].base = client[c].base
          /\ \A d \in Clients : d # c => client'[d] = client[d]
      BY <1>4 DEF PostAgain, MutationTypeOK, ClientStates
    <2>3. \A d \in Clients : EditOf(d)' = EditOf(d)
      BY <2>2 DEF EditOf
    <2>4. \A edit : Applied(edit)' <=> Applied(edit)
      BY <2>2 DEF Applied
    <2>5. MatterOfClients'
      BY <2>2, EditsTyped DEF MatterOfClients
    <2>6. ClientKnows'
      BY <2>2, <2>3, <2>4 DEF ClientKnows
    <2>7. AnswersHold'
      BY <2>2, <2>3, <2>4, EditsTyped DEF AnswersHold
    <2> QED
      BY <2>1, <2>5, <2>6, <2>7
  <1>5. ASSUME NEW c \in Clients, Mutate(c), ~Current(c) PROVE MutationInv'
    <2>1. MutationTypeOK'
      BY ZenonT(60), <1>5 DEF Mutate, MutationTypeOK, ClientStates
    <2>2. /\ UNCHANGED <<matter, answers>> /\ client[c].at = "sent" /\ client'[c].at = "stale"
          /\ client'[c].edit = client[c].edit /\ client'[c].base = client[c].base
          /\ client'[c].tries = client[c].tries
          /\ \A d \in Clients : d # c => client'[d] = client[d]
      BY <1>5 DEF Mutate, MutationTypeOK, ClientStates
    <2>3. \A d \in Clients : EditOf(d)' = EditOf(d)
      BY <2>2 DEF EditOf
    <2>4. \A edit : Applied(edit)' <=> Applied(edit)
      BY <2>2 DEF Applied
    <2>5. MatterOfClients'
      BY <2>2, EditsTyped DEF MatterOfClients
    <2>6. ClientKnows'
      BY <2>2, <2>3, <2>4 DEF ClientKnows
    <2>7. AnswersHold'
      BY <2>2, <2>3, <2>4, EditsTyped DEF AnswersHold
    <2> QED
      BY <2>1, <2>5, <2>6, <2>7
  <1>6. ASSUME NEW c \in Clients, Mutate(c), Current(c) PROVE MutationInv'
    <2>1. /\ matter' = Append(matter, EditOf(c)) /\ answers' = answers
          /\ client[c].at = "sent" /\ client[c].base = Len(matter)
          /\ client' = [client EXCEPT ![c].at = "applied"]
      BY <1>6 DEF Mutate, Current, EditOf
    <2>2. EditOf(c) \in Edits /\ Len(matter) \in Nat
      BY EditsTyped DEF EditOf, Edits
    <2>3. MutationTypeOK'
      <3> DEFINE r == [client[c] EXCEPT !.at = "applied"]
      <3>1. client[c] \in ClientStates
        BY DEF MutationTypeOK
      <3>2. r \in ClientStates
        BY <3>1 DEF ClientStates
      <3>3. client' = [client EXCEPT ![c] = r]
        BY <2>1
      <3> HIDE DEF r
      <3> QED
        BY <2>1, <2>2, <3>2, <3>3 DEF MutationTypeOK
    <2>4. /\ client'[c].at = "applied"
          /\ client'[c].edit = client[c].edit /\ client'[c].base = client[c].base
          /\ \A d \in Clients : d # c => client'[d] = client[d]
      BY <2>1 DEF MutationTypeOK, ClientStates
    <2>5. /\ Len(matter') = Len(matter) + 1
          /\ matter'[Len(matter) + 1] = EditOf(c)
          /\ \A i \in 1 .. Len(matter) : matter'[i] = matter[i]
      BY <2>1, <2>2 DEF MutationTypeOK, ClientStates
    <2>6. ~Applied(EditOf(c))
      BY <2>1, <2>2 DEF ClientKnows
    <2>7. \A edit : Applied(edit)' <=> Applied(edit) \/ edit = EditOf(c)
      BY <2>2, <2>5 DEF Applied
    <2>8. \A d \in Clients : EditOf(d)' = EditOf(d)
      BY <2>4 DEF EditOf
    <2>9. MatterOfClients'
      <3>1. ASSUME NEW i \in 1 .. Len(matter) + 1
            PROVE  /\ matter'[i][2] <= client'[matter'[i][1]].edit
                   /\ i # Len(matter) + 1 => matter'[i] # EditOf(c)
        <4>1. CASE i = Len(matter) + 1
          BY <2>4, <2>5, <4>1, EditsTyped DEF EditOf
        <4>2. CASE i \in 1 .. Len(matter)
          BY <2>4, <2>5, <2>6, <4>2, EditsTyped DEF MatterOfClients, Applied
        <4> QED
          BY <2>2, <4>1, <4>2
      <3>2. ASSUME NEW i \in 1 .. Len(matter) + 1, NEW j \in 1 .. Len(matter) + 1, matter'[i] = matter'[j]
            PROVE  i = j
        <4>1. CASE i = Len(matter) + 1 \/ j = Len(matter) + 1
          BY <2>5, <3>1, <3>2, <4>1
        <4>2. CASE i \in 1 .. Len(matter) /\ j \in 1 .. Len(matter)
          BY <2>5, <3>2, <4>2 DEF MatterOfClients
        <4> QED
          BY <2>2, <4>1, <4>2
      <3> QED
        BY <2>5, <3>1, <3>2 DEF MatterOfClients
    <2>10. \A d \in Clients : d # c => EditOf(d) # EditOf(c)
      BY DEF EditOf
    <2>11. ClientKnows'
      <3> SUFFICES ASSUME NEW d \in Clients
                   PROVE  /\ client'[d].at # "idle" /\ Applied(EditOf(d))' => client'[d].base < Len(matter')
                          /\ client'[d].at = "applied" => Applied(EditOf(d))'
                          /\ client'[d].at \in {"sent", "stale"} /\ client'[d].tries = 1
                               => ~Applied(EditOf(d))'
        BY DEF ClientKnows
      <3>1. CASE d = c
        BY <2>1, <2>2, <2>4, <2>5, <2>7, <2>8, <3>1
      <3>2. CASE d # c
        <4>1. Applied(EditOf(d))' <=> Applied(EditOf(d))
          BY <2>7, <2>8, <2>10, <3>2
        <4> QED
          BY <2>2, <2>4, <2>5, <3>2, <4>1, EditsTyped DEF ClientKnows
      <3> QED
        BY <3>1, <3>2
    <2>12. AnswersHold'
      <3> SUFFICES ASSUME NEW a \in answers
                   PROVE  /\ a.edit[2] <= client'[a.edit[1]].edit
                          /\ a.edit = EditOf(a.edit[1])' => client'[a.edit[1]].at = "idle"
                          /\ a.ok => Applied(a.edit)'
                          /\ ~a.ok /\ a.tries = 1 => ~Applied(a.edit)'
        BY <2>1 DEF AnswersHold
      <3>1. a.edit[1] \in Clients /\ a.edit = <<a.edit[1], a.edit[2]>>
        BY EditsTyped
      <3>2. a.edit # EditOf(c)
        <4>1. ASSUME a.edit = EditOf(c) PROVE FALSE
          <5>1. a.edit[1] = c
            BY <4>1 DEF EditOf
          <5> QED
            BY <2>1, <4>1, <5>1 DEF AnswersHold
        <4> QED
          BY <4>1
      <3>3. a.edit[1] = c => a.edit # EditOf(a.edit[1])'
        BY <2>8, <3>2
      <3> QED
        BY <2>4, <2>7, <2>8, <3>1, <3>2, <3>3 DEF AnswersHold
    <2> QED
      BY <2>3, <2>9, <2>11, <2>12
  <1>7. ASSUME NEW c \in Clients, Reply(c) PROVE MutationInv'
    <2> DEFINE answer == [edit |-> EditOf(c), ok |-> client[c].at = "applied", tries |-> client[c].tries]
    <2>1. /\ matter' = matter /\ answers' = answers \cup {answer}
          /\ client[c].at \in {"applied", "stale"}
          /\ client' = [client EXCEPT ![c].at = "idle",
                           ![c].base = IF client[c].at = "applied" THEN @ + 1 ELSE @]
      BY <1>7 DEF Reply, EditOf
    <2>2. answer \in [edit : Edits, ok : BOOLEAN, tries : Nat]
      BY EditsTyped DEF EditOf, Edits, MutationTypeOK, ClientStates
    <2> HIDE DEF answer
    <2>3. MutationTypeOK'
      <3> DEFINE base == IF client[c].at = "applied" THEN client[c].base + 1 ELSE client[c].base
                 r == [client[c] EXCEPT !.at = "idle", !.base = base]
      <3>1. client[c] \in ClientStates /\ base \in Nat
        BY EditsTyped DEF MutationTypeOK
      <3>2. client' = [client EXCEPT ![c].at = "idle", ![c].base = base]
        BY <2>1
      <3> HIDE DEF base
      <3>3. client' = [client EXCEPT ![c] = r]
        BY <3>2
      <3>4. r \in ClientStates
        BY <3>1 DEF ClientStates
      <3> HIDE DEF r
      <3> QED
        BY <2>1, <2>2, <3>3, <3>4 DEF MutationTypeOK
    <2>4. /\ client'[c].at = "idle" /\ client'[c].edit = client[c].edit
          /\ \A d \in Clients : d # c => client'[d] = client[d]
      BY <2>1 DEF MutationTypeOK, ClientStates
    <2>5. \A d \in Clients : EditOf(d)' = EditOf(d)
      BY <2>4 DEF EditOf
    <2>6. \A edit : Applied(edit)' <=> Applied(edit)
      BY <2>1 DEF Applied
    <2>7. MatterOfClients'
      <3>1. matter' = matter /\ \A d \in Clients : client'[d].edit = client[d].edit
        BY <2>1, <2>4
      <3> QED
        BY <3>1, EditsTyped DEF MatterOfClients
    <2>8. ClientKnows'
      BY <2>1, <2>4, <2>5, <2>6 DEF ClientKnows
    <2>9. AnswersHold'
      <3> SUFFICES ASSUME NEW a \in answers \cup {answer}
                   PROVE  /\ a.edit[2] <= client'[a.edit[1]].edit
                          /\ a.edit = EditOf(a.edit[1])' => client'[a.edit[1]].at = "idle"
                          /\ a.ok => Applied(a.edit)'
                          /\ ~a.ok /\ a.tries = 1 => ~Applied(a.edit)'
        BY <2>1 DEF AnswersHold
      <3>1. CASE a \in answers
        BY <2>4, <2>5, <2>6, <3>1, EditsTyped DEF AnswersHold
      <3>2. CASE a = answer
        <4>1. a.edit = EditOf(c) /\ a.edit[1] = c /\ a.edit[2] = client[c].edit
          BY <3>2 DEF EditOf, answer
        <4>2. a.ok = (client[c].at = "applied") /\ a.tries = client[c].tries
          BY <3>2 DEF answer
        <4>3. a.ok => Applied(EditOf(c))
          BY <4>2 DEF ClientKnows
        <4>4. ~a.ok /\ a.tries = 1 => ~Applied(EditOf(c))
          BY <2>1, <4>2 DEF ClientKnows
        <4> QED
          BY <2>4, <2>6, <4>1, <4>3, <4>4, EditsTyped
      <3> QED
        BY <3>1, <3>2
    <2> QED
      BY <2>3, <2>7, <2>8, <2>9
  <1> QED
    BY <1>1, <1>2, <1>3, <1>4, <1>5, <1>6, <1>7, LifecycleApart
    DEF WorkbenchNext, ClientStep, workbenchVars, mutationVars

\* How often an edit is in the Matter, when no two revisions hold the same one.
LEMMA ApplicationsOfEdit ==
    ASSUME MutationInv, NEW edit
    PROVE  /\ Applied(edit) => Applications(edit) = 1
           /\ ~Applied(edit) => Applications(edit) = 0
  <1>1. ASSUME Applied(edit) PROVE Applications(edit) = 1
    <2>1. PICK i \in 1 .. Len(matter) : matter[i] = edit
      BY <1>1 DEF Applied
    <2>2. {j \in 1 .. Len(matter) : matter[j] = edit} = {i}
      BY <2>1 DEF MutationInv, MatterOfClients
    <2> QED
      BY <2>2, FS_Singleton DEF Applications
  <1>2. ASSUME ~Applied(edit) PROVE Applications(edit) = 0
    <2>1. {j \in 1 .. Len(matter) : matter[j] = edit} = {}
      BY <1>2 DEF Applied
    <2> QED
      BY <2>1, FS_EmptySet DEF Applications
  <1> QED
    BY <1>1, <1>2

\* A mutation posted to the Workbench (local_server.py, _mutate) is applied at
\* most once, however often it is posted and through however many servers.
THEOREM AppliedOnceHolds == WorkbenchSpec => []AppliedOnce
  <1>1. MutationInv => AppliedOnce
    <2> SUFFICES ASSUME MutationInv PROVE AppliedOnce
      OBVIOUS
    <2>1. \A i \in 1 .. Len(matter) : Applied(matter[i])
      BY DEF Applied
    <2> QED
      BY <2>1, ApplicationsOfEdit DEF AppliedOnce, MutationInv, AnswersHold
  <1> QED
    BY <1>1, InitMutations, MutationsInductive, PTL DEF WorkbenchSpec

-----------------------------------------------------------------------------
(* The Workbench server: commands and processes.  A process that nobody has *)
(* signalled keeps its file because everybody who unlinks by name has read  *)
(* a file whose process is dead or signalled, or his own; whoever removes   *)
(* another file than he has read is recorded in overtaken.                  *)

StateFiles == [owner : Processes \cup {NoProcess}, whole : BOOLEAN]
ProcessStates == [at : {"unused", "starting", "created", "written", "printed", "serving", "closing",
                        "unlinking", "dead"},
                  term : BOOLEAN, printed : BOOLEAN, read : StateFiles]
OperatorStates == [at : {"idle", "status", "verify", "remove", "spawn", "wait", "read", "kill",
                         "compare", "unlink"},
                   cmd : {"none", "serve", "status", "stop"}, read : StateFiles,
                   held : Processes \cup {NoProcess}, child : Processes \cup {NoProcess}]
LifecycleTypeOK ==
    /\ stateFile \in StateFiles
    /\ process \in [Processes -> ProcessStates]
    /\ operator \in [Operators -> OperatorStates]

\* A process that has created its file once.
Started(p) == p \in Processes /\ process[p].at \notin {"unused", "starting"}
OwnerStarted(f) == f = NoStateFile \/ Started(f.owner)

OperatorKnows(o) ==
    /\ OwnerStarted(operator[o].read)
    /\ operator[o].at \in {"verify", "remove", "read", "kill", "compare", "unlink"} =>
           operator[o].read # NoStateFile
    /\ operator[o].at = "verify" => operator[o].read.whole
    /\ operator[o].at = "remove" /\ operator[o].read.whole => process[operator[o].read.owner].at = "dead"
    /\ operator[o].at \in {"compare", "unlink"} => process[operator[o].read.owner].term
    /\ operator[o].at = "wait" => operator[o].child \in Processes

HasFile(p) == process[p].at \in {"created", "written", "printed", "serving"}
OwnsFile(p) ==
    /\ HasFile(p) /\ ~process[p].term /\ p \notin overtaken =>
           stateFile = [owner |-> p, whole |-> process[p].at # "created"]
    /\ process[p].at = "unlinking" => process[p].read = [owner |-> p, whole |-> TRUE]

LifecycleInv ==
    /\ LifecycleTypeOK
    /\ OwnerStarted(stateFile)
    /\ \A o \in Operators : OperatorKnows(o)
    /\ \A p \in Processes : OwnsFile(p)

LEMMA NoProcessNotStarted == NoStateFile \in StateFiles /\ ~Started(NoStateFile.owner)
  BY WorkbenchAssumption DEF NoStateFile, StateFiles, Started

LEMMA InitLifecycle == WorkbenchInit => LifecycleInv
  <1> SUFFICES ASSUME WorkbenchInit PROVE LifecycleInv
    OBVIOUS
  <1> USE NoProcessNotStarted DEF WorkbenchInit
  <1>1. Resting \in OperatorStates /\ Resting.at = "idle" /\ Resting.read = NoStateFile
    BY DEF Resting, OperatorStates
  <1>2. LifecycleTypeOK
    BY <1>1 DEF LifecycleTypeOK, ProcessStates
  <1>3. \A o \in Operators : OperatorKnows(o)
    BY <1>1 DEF OperatorKnows, OwnerStarted
  <1> QED
    BY <1>2, <1>3 DEF LifecycleInv, OwnerStarted, OwnsFile, HasFile

\* Processes only go forward: started ones stay started, dead ones dead, and a
\* signal is not taken back.
Ages ==
    \A p \in Processes :
        /\ Started(p) => Started(p)'
        /\ process[p].at = "dead" => process'[p].at = "dead"
        /\ process[p].term => process'[p].term

LEMMA StillStarted ==
    ASSUME Ages, NEW f, OwnerStarted(f) PROVE OwnerStarted(f)'
  BY DEF Ages, OwnerStarted, Started

LEMMA OthersKnow ==
    ASSUME LifecycleInv, Ages, NEW o \in Operators, operator'[o] = operator[o]
    PROVE  OperatorKnows(o)'
  <1>1. OperatorKnows(o)
    BY DEF LifecycleInv
  <1>2. OwnerStarted(operator[o].read)'
    BY <1>1, StillStarted DEF OperatorKnows
  <1>3. operator[o].read # NoStateFile => operator[o].read.owner \in Processes
    BY <1>1 DEF OperatorKnows, OwnerStarted, Started
  <1> QED
    BY <1>1, <1>2, <1>3 DEF OperatorKnows, Ages

\* An operator that rests knows nothing.
LEMMA RestingKnows ==
    ASSUME LifecycleInv, NEW o \in Operators, Rest(o) PROVE OperatorKnows(o)'
  <1>1. operator'[o] = Resting
    BY DEF Rest, LifecycleInv, LifecycleTypeOK
  <1> QED
    BY <1>1 DEF OperatorKnows, Resting, OwnerStarted

\* Files and processes are left as they are.
LEMMA FilesLeft ==
    ASSUME LifecycleInv, UNCHANGED <<stateFile, process, overtaken>>
    PROVE  Ages /\ OwnerStarted(stateFile)' /\ \A p \in Processes : OwnsFile(p)'
  BY DEF LifecycleInv, Ages, Started, OwnerStarted, OwnsFile, HasFile

\* One process goes on and the files are left.
LEMMA ProcessGoes ==
    ASSUME LifecycleInv, NEW p \in Processes, UNCHANGED <<stateFile, overtaken>>,
           process' \in [Processes -> ProcessStates],
           \A q \in Processes \ {p} : process'[q] = process[q],
           process[p].term => process'[p].term,
           Started(p) => Started(p)',
           process[p].at = "dead" => process'[p].at = "dead",
           OwnsFile(p)'
    PROVE  Ages /\ OwnerStarted(stateFile)' /\ \A q \in Processes : OwnsFile(q)'
  <1>1. Ages
    BY DEF Ages, Started
  <1>2. OwnerStarted(stateFile)'
    BY <1>1, StillStarted DEF LifecycleInv, OwnerStarted
  <1>3. ASSUME NEW q \in Processes, q # p PROVE OwnsFile(q)'
    BY <1>3 DEF LifecycleInv, OwnsFile, HasFile
  <1> QED
    BY <1>1, <1>2, <1>3

LEMMA TerminatedGoes ==
    ASSUME LifecycleInv, NEW p \in Processes, Terminated(p), UNCHANGED <<stateFile, overtaken>>
    PROVE  /\ process' \in [Processes -> ProcessStates] /\ process'[p].term
           /\ Ages /\ OwnerStarted(stateFile)' /\ \A q \in Processes : OwnsFile(q)'
  <1> DEFINE at == IF Handled(p) THEN process[p].at ELSE "dead"
             r == [process[p] EXCEPT !.at = at, !.term = TRUE]
  <1>1. process[p] \in ProcessStates
    BY DEF LifecycleInv, LifecycleTypeOK
  <1>2. process' = [process EXCEPT ![p].at = at, ![p].term = TRUE]
    BY DEF Terminated
  <1>3. at \in {process[p].at, "dead"}
    OBVIOUS
  <1> HIDE DEF at
  <1>4. process' = [process EXCEPT ![p] = r]
    BY <1>2
  <1>5. r \in ProcessStates /\ r.at = at /\ r.term /\ r.read = process[p].read
    BY <1>1, <1>3 DEF ProcessStates
  <1> HIDE DEF r
  <1>6. /\ process' \in [Processes -> ProcessStates]
        /\ process'[p] = r
        /\ \A q \in Processes \ {p} : process'[q] = process[q]
    BY <1>4, <1>5 DEF LifecycleInv, LifecycleTypeOK
  <1>7. OwnsFile(p)'
    BY <1>3, <1>5, <1>6 DEF LifecycleInv, OwnsFile, HasFile
  <1>8. Started(p) => Started(p)'
    BY <1>3, <1>5, <1>6 DEF Started
  <1> QED
    BY <1>3, <1>5, <1>6, <1>7, <1>8, ProcessGoes

\* path.unlink by somebody who has read a file of a dead or signalled process.
LEMMA RemoveKeepsOwned ==
    ASSUME LifecycleInv, NEW read, Remove(read), UNCHANGED process,
           read # NoStateFile /\ read.whole =>
               process[read.owner].at = "dead" \/ process[read.owner].term
    PROVE  Ages /\ OwnerStarted(stateFile)' /\ \A p \in Processes : OwnsFile(p)'
  <1>1. Ages
    BY DEF Ages, Started
  <1>2. OwnerStarted(stateFile)'
    BY DEF Remove, OwnerStarted
  <1>3. ASSUME NEW p \in Processes PROVE OwnsFile(p)'
    <2>1. process[p].at = "unlinking" => process[p].read = [owner |-> p, whole |-> TRUE]
      BY DEF LifecycleInv, OwnsFile
    <2>2. ASSUME HasFile(p), ~process[p].term, p \notin overtaken' PROVE FALSE
      <3>0. p \notin overtaken
        BY <2>2 DEF Remove
      <3>1. stateFile.owner = p
        <4>1. OwnsFile(p)
          BY DEF LifecycleInv
        <4>2. stateFile = [owner |-> p, whole |-> process[p].at # "created"]
          BY <2>2, <3>0, <4>1 DEF OwnsFile
        <4> QED
          BY <4>2
      <3>2. stateFile # NoStateFile
        BY <3>1, NoProcessNotStarted, WorkbenchAssumption DEF NoStateFile
      <3>3. stateFile = read /\ stateFile.whole
        BY <2>2, <3>1, <3>2 DEF Remove
      <3> QED
        BY <2>2, <3>1, <3>2, <3>3 DEF HasFile
    <2> QED
      BY <2>1, <2>2 DEF OwnsFile, HasFile
  <1> QED
    BY <1>1, <1>2, <1>3

\* A command step leaves the other operators alone; what is left to show of it.
LEMMA OperatorGoes ==
    ASSUME LifecycleInv, NEW o \in Operators, LifecycleTypeOK', OperatorKnows(o)',
           \A q \in Operators \ {o} : operator'[q] = operator[q],
           Ages, OwnerStarted(stateFile)', \A p \in Processes : OwnsFile(p)'
    PROVE  LifecycleInv'
  BY OthersKnow DEF LifecycleInv

LEMMA StepTyped ==
    ASSUME LifecycleInv, NEW o \in Operators, NEW at, Step(o, at),
           at \in {"idle", "status", "verify", "remove", "spawn", "wait", "read", "kill", "compare", "unlink"}
    PROVE  /\ operator' \in [Operators -> OperatorStates]
           /\ operator'[o].at = at /\ operator'[o].read = operator[o].read
           /\ operator'[o].cmd = operator[o].cmd /\ operator'[o].child = operator[o].child
           /\ \A q \in Operators \ {o} : operator'[q] = operator[q]
  BY DEF Step, LifecycleInv, LifecycleTypeOK, OperatorStates

LEMMA RestTyped ==
    ASSUME LifecycleInv, NEW o \in Operators, Rest(o)
    PROVE  /\ operator' \in [Operators -> OperatorStates]
           /\ OperatorKnows(o)'
           /\ \A q \in Operators \ {o} : operator'[q] = operator[q]
  <1>1. Resting \in OperatorStates
    BY NoProcessNotStarted DEF Resting, OperatorStates
  <1> QED
    BY <1>1, RestingKnows DEF Rest, LifecycleInv, LifecycleTypeOK

\* What a command does with the answer of the status leaves it at rest, or on
\* its way to signal the server it has read, or to start one.
LEMMA StatusGoes ==
    ASSUME LifecycleInv, NEW o \in Operators, NEW running \in BOOLEAN, Status(o, running), Ages,
           running => operator[o].read # NoStateFile
    PROVE  /\ operator' \in [Operators -> OperatorStates]
           /\ OperatorKnows(o)'
           /\ \A q \in Operators \ {o} : operator'[q] = operator[q]
  <1>1. OwnerStarted(operator[o].read)
    BY DEF LifecycleInv, OperatorKnows
  <1>2. CASE Rest(o)
    BY <1>2, RestTyped
  <1>3. CASE running /\ Step(o, "read")
    BY <1>1, <1>3, StepTyped, StillStarted DEF OperatorKnows
  <1>4. CASE Step(o, "spawn")
    BY <1>1, <1>4, StepTyped, StillStarted DEF OperatorKnows
  <1> QED
    BY <1>2, <1>3, <1>4 DEF Status

LEMMA CommandKeepsLifecycle ==
    ASSUME LifecycleInv, NEW o \in Operators, OperatorStep(o) PROVE LifecycleInv'
  <1> USE DEF LifecycleTypeOK
  <1>1. OperatorKnows(o) /\ LifecycleTypeOK /\ operator[o] \in OperatorStates
    BY DEF LifecycleInv
  <1>2. ASSUME NEW cmd \in {"serve", "status", "stop"}, Ask(o, cmd) PROVE LifecycleInv'
    <2> DEFINE r == [Resting EXCEPT !.at = "status", !.cmd = cmd]
    <2>1. r \in OperatorStates /\ r.at = "status" /\ r.read = NoStateFile
      BY NoProcessNotStarted DEF Resting, OperatorStates
    <2>2. operator' = [operator EXCEPT ![o] = r] /\ UNCHANGED <<stateFile, process, overtaken>>
      BY <1>2 DEF Ask
    <2> HIDE DEF r
    <2>3. OperatorKnows(o)'
      BY <1>1, <2>1, <2>2 DEF OperatorKnows, OwnerStarted
    <2> QED
      BY <1>1, <2>1, <2>2, <2>3, FilesLeft, OperatorGoes
  <1>3. ASSUME StatusReads(o) PROVE LifecycleInv'
    <2>1. UNCHANGED <<stateFile, process, overtaken>>
      BY <1>3 DEF StatusReads
    <2>2. CASE stateFile = NoStateFile
      BY <1>1, <1>3, <2>1, <2>2, FilesLeft, StatusGoes, OperatorGoes DEF StatusReads
    <2>3. CASE stateFile # NoStateFile
      <3> DEFINE at == IF stateFile.whole THEN "verify" ELSE "remove"
                 r == [operator[o] EXCEPT !.at = at, !.read = stateFile]
      <3>1. operator' = [operator EXCEPT ![o].at = at, ![o].read = stateFile]
        BY <1>3, <2>3 DEF StatusReads
      <3>2. /\ at = IF stateFile.whole THEN "verify" ELSE "remove"
            /\ stateFile \in StateFiles /\ OwnerStarted(stateFile)
        BY <1>1 DEF LifecycleInv, StateFiles
      <3> HIDE DEF at
      <3>3. operator' = [operator EXCEPT ![o] = r]
        BY <3>1
      <3>4. r \in OperatorStates /\ r.at = at /\ r.read = stateFile
        BY <1>1, <3>2 DEF OperatorStates
      <3> HIDE DEF r
      <3>5. operator'[o] = r
        BY <1>1, <3>3
      <3>6. OwnerStarted(stateFile)'
        BY <2>1, FilesLeft
      <3>7. OperatorKnows(o)'
        BY <2>1, <2>3, <3>2, <3>4, <3>5, <3>6 DEF OperatorKnows, OwnerStarted
      <3> QED
        BY <1>1, <2>1, <3>3, <3>4, <3>7, FilesLeft, OperatorGoes
    <2> QED
      BY <2>2, <2>3
  <1>4. ASSUME VerifyServer(o) PROVE LifecycleInv'
    <2>1. UNCHANGED <<stateFile, process, overtaken>> /\ operator[o].at = "verify"
      BY <1>4 DEF VerifyServer
    <2>2. CASE Running(operator[o].read.owner)
      BY <1>1, <1>4, <2>1, <2>2, FilesLeft, StatusGoes, OperatorGoes DEF VerifyServer, OperatorKnows
    <2>3. CASE ~Running(operator[o].read.owner)
      <3>1. Step(o, "remove") /\ process[operator[o].read.owner].at = "dead"
        BY <1>1, <1>4, <2>1, <2>3 DEF VerifyServer, OperatorKnows, OwnerStarted, Started, Running
      <3>2. OperatorKnows(o)'
        BY <1>1, <2>1, <3>1, StepTyped, FilesLeft, StillStarted DEF OperatorKnows
      <3> QED
        BY <1>1, <2>1, <3>1, <3>2, StepTyped, FilesLeft, OperatorGoes
    <2> QED
      BY <2>2, <2>3
  <1>5. ASSUME RemoveStale(o) PROVE LifecycleInv'
    <2>1. /\ operator[o].at = "remove" /\ Remove(operator[o].read) /\ Status(o, FALSE)
          /\ UNCHANGED process
      BY <1>5 DEF RemoveStale
    <2>2. Ages /\ OwnerStarted(stateFile)' /\ \A p \in Processes : OwnsFile(p)'
      BY <1>1, <2>1, RemoveKeepsOwned DEF OperatorKnows
    <2>3. stateFile' \in StateFiles
      BY <2>1, NoProcessNotStarted DEF Remove
    <2> QED
      BY <1>1, <2>1, <2>2, <2>3, StatusGoes, OperatorGoes
  <1>6. ASSUME NEW p \in Processes, StartProcess(o, p) PROVE LifecycleInv'
    <2>1. /\ operator[o].at = "spawn" /\ process[p].at = "unused"
          /\ process' = [process EXCEPT ![p].at = "starting"]
          /\ operator' = [operator EXCEPT ![o].at = "wait", ![o].child = p]
          /\ UNCHANGED <<stateFile, overtaken>>
      BY <1>6 DEF StartProcess, Go
    <2>2. /\ process' \in [Processes -> ProcessStates] /\ process'[p].at = "starting"
          /\ process'[p].term = process[p].term
          /\ \A q \in Processes \ {p} : process'[q] = process[q]
      BY <1>1, <2>1 DEF ProcessStates
    <2>3. Ages /\ OwnerStarted(stateFile)' /\ \A q \in Processes : OwnsFile(q)'
      <3>1. ~Started(p) /\ OwnsFile(p)'
        BY <2>1, <2>2 DEF Started, OwnsFile, HasFile
      <3> QED
        BY <2>1, <2>2, <3>1, ProcessGoes
    <2> DEFINE r == [operator[o] EXCEPT !.at = "wait", !.child = p]
    <2>4. operator' = [operator EXCEPT ![o] = r]
      BY <2>1
    <2>5. r \in OperatorStates /\ r.at = "wait" /\ r.child = p /\ r.read = operator[o].read
      BY <1>1 DEF OperatorStates
    <2> HIDE DEF r
    <2>6. operator'[o] = r
      BY <1>1, <2>4
    <2>7. OperatorKnows(o)'
      BY <1>1, <2>3, <2>5, <2>6, StillStarted DEF OperatorKnows
    <2>8. LifecycleTypeOK' /\ \A q \in Operators \ {o} : operator'[q] = operator[q]
      BY ZenonT(60), <1>1, <2>1, <2>2, <2>4, <2>5
    <2> QED
      BY <2>3, <2>7, <2>8, OperatorGoes
  <1>7. ASSUME AwaitPort(o) PROVE LifecycleInv'
    <2>1. /\ Rest(o) /\ UNCHANGED <<stateFile, overtaken>> /\ operator[o].child \in Processes
          /\ UNCHANGED process \/ Terminated(operator[o].child)
      BY <1>1, <1>7 DEF AwaitPort, OperatorKnows
    <2> QED
      BY <1>1, <2>1, RestTyped, FilesLeft, TerminatedGoes, OperatorGoes
  <1>8. ASSUME StopReads(o) PROVE LifecycleInv'
    <2>1. UNCHANGED <<stateFile, process, overtaken>> /\ operator[o].at = "read"
      BY <1>8 DEF StopReads
    <2>2. CASE Rest(o)
      BY <1>1, <2>1, <2>2, RestTyped, FilesLeft, OperatorGoes
    <2>3. CASE operator' = [operator EXCEPT ![o].at = "kill", ![o].held = stateFile.owner]
      <3> DEFINE r == [operator[o] EXCEPT !.at = "kill", !.held = stateFile.owner]
      <3>1. operator' = [operator EXCEPT ![o] = r]
        BY <2>3
      <3>2. r \in OperatorStates /\ r.at = "kill" /\ r.read = operator[o].read
        BY <1>1 DEF OperatorStates, StateFiles
      <3> HIDE DEF r
      <3>3. operator'[o] = r
        BY <1>1, <3>1
      <3>4. OperatorKnows(o)'
        BY <1>1, <2>1, <3>2, <3>3, FilesLeft, StillStarted DEF OperatorKnows
      <3> QED
        BY <1>1, <2>1, <3>1, <3>2, <3>4, FilesLeft, OperatorGoes
    <2> QED
      BY <1>8, <2>2, <2>3 DEF StopReads
  <1>9. ASSUME StopKills(o) PROVE LifecycleInv'
    <2> DEFINE p == operator[o].read.owner
    <2>1. operator[o].at = "kill" /\ UNCHANGED <<stateFile, overtaken>> /\ p \in Processes
      BY <1>1, <1>9 DEF StopKills, OperatorKnows, OwnerStarted, Started
    <2>2. CASE UNCHANGED process /\ Rest(o)
      BY <1>1, <2>1, <2>2, RestTyped, FilesLeft, OperatorGoes
    <2>3. CASE Terminated(p) /\ Step(o, "compare")
      <3>1. /\ process' \in [Processes -> ProcessStates] /\ process'[p].term
            /\ Ages /\ OwnerStarted(stateFile)' /\ \A q \in Processes : OwnsFile(q)'
        BY <2>1, <2>3, TerminatedGoes
      <3>2. OperatorKnows(o)'
        BY <1>1, <2>1, <2>3, <3>1, StepTyped, StillStarted DEF OperatorKnows
      <3> QED
        BY <1>1, <2>1, <2>3, <3>1, <3>2, StepTyped, OperatorGoes
    <2> QED
      BY <1>9, <2>2, <2>3 DEF StopKills
  <1>10. ASSUME StopCompares(o) PROVE LifecycleInv'
    <2>1. UNCHANGED <<stateFile, process, overtaken>> /\ operator[o].at = "compare"
      BY <1>10 DEF StopCompares
    <2>2. CASE Rest(o)
      BY <1>1, <2>1, <2>2, RestTyped, FilesLeft, OperatorGoes
    <2>3. CASE Step(o, "unlink")
      <3>1. OperatorKnows(o)'
        BY <1>1, <2>1, <2>3, StepTyped, FilesLeft, StillStarted DEF OperatorKnows
      <3> QED
        BY <1>1, <2>1, <2>3, <3>1, StepTyped, FilesLeft, OperatorGoes
    <2> QED
      BY <1>10, <2>2, <2>3 DEF StopCompares
  <1>11. ASSUME StopRemoves(o) PROVE LifecycleInv'
    <2>1. operator[o].at = "unlink" /\ Remove(operator[o].read) /\ Rest(o) /\ UNCHANGED process
      BY <1>11 DEF StopRemoves
    <2>2. Ages /\ OwnerStarted(stateFile)' /\ \A p \in Processes : OwnsFile(p)'
      BY <1>1, <2>1, RemoveKeepsOwned DEF OperatorKnows
    <2>3. stateFile' \in StateFiles
      BY <2>1, NoProcessNotStarted DEF Remove
    <2> QED
      BY <1>1, <2>1, <2>2, <2>3, RestTyped, OperatorGoes
  <1> QED
    BY <1>2, <1>3, <1>4, <1>5, <1>6, <1>7, <1>8, <1>9, <1>10, <1>11 DEF OperatorStep

LEMMA ProcessKeepsLifecycle ==
    ASSUME LifecycleInv, NEW p \in Processes, ProcessStep(p) PROVE LifecycleInv'
  <1>1. /\ LifecycleTypeOK /\ process[p] \in ProcessStates /\ OwnsFile(p) /\ OwnerStarted(stateFile)
        /\ UNCHANGED operator
    BY DEF LifecycleInv, LifecycleTypeOK, ProcessStep, CreateServerFile, WriteServerFile, AnnouncePort,
       ServeForever, BeginShutdown, CloseReads, CloseRemoves, KillProcess
  <1>2. ASSUME Ages, LifecycleTypeOK', OwnerStarted(stateFile)', \A q \in Processes : OwnsFile(q)'
        PROVE  LifecycleInv'
    BY <1>1, <1>2, OthersKnow DEF LifecycleInv
  \* A process goes to another state with the files as they are.
  <1>3. ASSUME NEW at, Go(p, at), UNCHANGED <<stateFile, overtaken>>,
               at \in {"created", "written", "printed", "serving", "closing", "unlinking", "dead"},
               process[p].at = "dead" => at = "dead", OwnsFile(p)'
        PROVE  LifecycleInv'
    <2>1. /\ process' \in [Processes -> ProcessStates] /\ process'[p].at = at
          /\ process'[p].term = process[p].term
          /\ \A q \in Processes \ {p} : process'[q] = process[q]
      BY <1>1, <1>3 DEF Go, LifecycleTypeOK, ProcessStates
    <2>2. Started(p)'
      BY <1>3, <2>1 DEF Started
    <2> QED
      BY <1>1, <1>2, <1>3, <2>1, <2>2, ProcessGoes DEF LifecycleTypeOK
  <1>4. ASSUME NEW at, Go(p, at),
               at \in {"created", "written", "printed", "serving", "closing", "unlinking", "dead"}
        PROVE  /\ process' \in [Processes -> ProcessStates] /\ process'[p].at = at
               /\ process'[p].term = process[p].term /\ process'[p].read = process[p].read
               /\ \A q \in Processes \ {p} : process'[q] = process[q]
    BY <1>1, <1>4 DEF Go, LifecycleTypeOK, ProcessStates
  <1>5. ASSUME CreateServerFile(p) PROVE LifecycleInv'
    <2>1. process[p].at = "starting" /\ UNCHANGED overtaken
      BY <1>5 DEF CreateServerFile
    <2>2. CASE Go(p, "closing") /\ UNCHANGED stateFile
      <3>1. OwnsFile(p)'
        BY <1>4, <2>2 DEF OwnsFile, HasFile
      <3> QED
        BY <1>3, <2>1, <2>2, <3>1
    <2>3. CASE stateFile = NoStateFile /\ stateFile' = [owner |-> p, whole |-> FALSE] /\ Go(p, "created")
      <3>1. /\ process' \in [Processes -> ProcessStates] /\ process'[p].at = "created"
            /\ process'[p].term = process[p].term
            /\ \A q \in Processes \ {p} : process'[q] = process[q]
        BY <1>4, <2>3
      <3>2. Ages
        BY <2>1, <3>1 DEF Ages, Started
      <3>3. stateFile' \in StateFiles /\ OwnerStarted(stateFile)'
        BY <2>3, <3>1 DEF StateFiles, OwnerStarted, Started
      <3>4. OwnsFile(p)'
        BY <2>3, <3>1 DEF OwnsFile, HasFile
      <3>5. ASSUME NEW q \in Processes, q # p PROVE OwnsFile(q)'
        <4>1. OwnsFile(q)
          BY DEF LifecycleInv
        <4>2. stateFile # [owner |-> q, whole |-> process[q].at # "created"]
          BY <2>3, WorkbenchAssumption DEF NoStateFile
        <4> QED
          BY <2>1, <3>1, <3>5, <4>1, <4>2 DEF OwnsFile, HasFile
      <3> QED
        BY <1>1, <1>2, <3>1, <3>2, <3>3, <3>4, <3>5 DEF LifecycleTypeOK
    <2> QED
      BY <1>5, <2>2, <2>3 DEF CreateServerFile
  <1>6. ASSUME WriteServerFile(p) PROVE LifecycleInv'
    <2>1. /\ process[p].at = "created" /\ UNCHANGED overtaken /\ Go(p, "written")
          /\ stateFile' = [stateFile EXCEPT !.whole = stateFile.whole \/ stateFile.owner = p]
      BY <1>6 DEF WriteServerFile
    <2>2. /\ process' \in [Processes -> ProcessStates] /\ process'[p].at = "written"
          /\ process'[p].term = process[p].term
          /\ \A q \in Processes \ {p} : process'[q] = process[q]
      BY <1>4, <2>1
    <2>3. Ages
      BY <2>1, <2>2 DEF Ages, Started
    <2>4. /\ stateFile' \in StateFiles /\ stateFile'.owner = stateFile.owner
          /\ stateFile.owner # p => stateFile' = stateFile
          /\ stateFile.owner = p => stateFile' = [owner |-> p, whole |-> TRUE]
      BY <1>1, <2>1 DEF LifecycleTypeOK, StateFiles
    <2>5. OwnerStarted(stateFile)'
      <3>1. CASE stateFile.owner = p
        BY <2>2, <2>4, <3>1 DEF OwnerStarted, Started
      <3>2. CASE stateFile.owner # p
        BY <1>1, <2>3, <2>4, <3>2, StillStarted
      <3> QED
        BY <3>1, <3>2
    <2>6. OwnsFile(p)'
      <3>1. CASE HasFile(p)' /\ ~process'[p].term /\ p \notin overtaken'
        <4>1. stateFile = [owner |-> p, whole |-> process[p].at # "created"]
          BY <1>1, <2>1, <2>2, <3>1 DEF OwnsFile, HasFile
        <4>2. stateFile.owner = p
          BY <4>1
        <4> QED
          BY <2>2, <2>4, <4>2 DEF OwnsFile
      <3> QED
        BY <2>2, <3>1 DEF OwnsFile
    <2>7. ASSUME NEW q \in Processes, q # p PROVE OwnsFile(q)'
      <3>1. OwnsFile(q)
        BY DEF LifecycleInv
      <3>2. stateFile = [owner |-> q, whole |-> process[q].at # "created"] => stateFile' = stateFile
        BY <2>4, <2>7
      <3> QED
        BY <2>1, <2>2, <2>7, <3>1, <3>2 DEF OwnsFile, HasFile
    <2> QED
      BY <1>1, <1>2, <2>2, <2>3, <2>4, <2>5, <2>6, <2>7 DEF LifecycleTypeOK
  <1>7. ASSUME AnnouncePort(p) PROVE LifecycleInv'
    <2> DEFINE r == [process[p] EXCEPT !.at = "printed", !.printed = TRUE]
    <2>1. /\ process[p].at = "written" /\ UNCHANGED <<stateFile, overtaken>>
          /\ process' = [process EXCEPT ![p] = r]
      BY <1>7 DEF AnnouncePort
    <2>2. /\ r \in ProcessStates /\ r.at = "printed" /\ r.term = process[p].term
          /\ r.read = process[p].read
      BY <1>1 DEF ProcessStates
    <2> HIDE DEF r
    <2>3. /\ process' \in [Processes -> ProcessStates] /\ process'[p] = r
          /\ \A q \in Processes \ {p} : process'[q] = process[q]
      BY <1>1, <2>1, <2>2 DEF LifecycleTypeOK
    <2>4. OwnsFile(p)' /\ Started(p)'
      BY <1>1, <2>1, <2>2, <2>3 DEF OwnsFile, HasFile, Started
    <2> QED
      BY <1>1, <1>2, <2>1, <2>2, <2>3, <2>4, ProcessGoes DEF LifecycleTypeOK
  <1>8. ASSUME ServeForever(p) PROVE LifecycleInv'
    <2>1. OwnsFile(p)'
      BY <1>1, <1>4, <1>8 DEF ServeForever, OwnsFile, HasFile
    <2> QED
      BY <1>3, <1>8, <2>1 DEF ServeForever
  <1>9. ASSUME BeginShutdown(p) PROVE LifecycleInv'
    <2>1. OwnsFile(p)'
      BY <1>4, <1>9 DEF BeginShutdown, OwnsFile, HasFile
    <2> QED
      BY <1>3, <1>9, <2>1 DEF BeginShutdown
  <1>10. ASSUME CloseReads(p) PROVE LifecycleInv'
    <2> DEFINE at == IF OwnFile(p) THEN "unlinking" ELSE "dead"
               r == [process[p] EXCEPT !.at = at, !.read = stateFile]
    <2>1. /\ process[p].at = "closing" /\ UNCHANGED <<stateFile, overtaken>>
          /\ process' = [process EXCEPT ![p].at = at, ![p].read = stateFile]
      BY <1>10 DEF CloseReads
    <2>2. at \in {"unlinking", "dead"} /\ (at = "unlinking" => stateFile = [owner |-> p, whole |-> TRUE])
      BY DEF OwnFile
    <2> HIDE DEF at
    <2>3. process' = [process EXCEPT ![p] = r]
      BY <2>1
    <2>4. /\ r \in ProcessStates /\ r.at = at /\ r.term = process[p].term
          /\ r.read = stateFile
      BY <1>1, <2>2 DEF ProcessStates, LifecycleTypeOK
    <2> HIDE DEF r
    <2>5. /\ process' \in [Processes -> ProcessStates] /\ process'[p] = r
          /\ \A q \in Processes \ {p} : process'[q] = process[q]
      BY <1>1, <2>3, <2>4 DEF LifecycleTypeOK
    <2>6. OwnsFile(p)' /\ Started(p)'
      BY <2>2, <2>4, <2>5 DEF OwnsFile, HasFile, Started
    <2> QED
      BY <1>1, <1>2, <2>1, <2>4, <2>5, <2>6, ProcessGoes DEF LifecycleTypeOK
  <1>11. ASSUME CloseRemoves(p) PROVE LifecycleInv'
    <2>1. /\ process[p].at = "unlinking" /\ Remove(process[p].read) /\ Go(p, "dead")
          /\ process[p].read = [owner |-> p, whole |-> TRUE]
      BY <1>1, <1>11 DEF CloseRemoves, OwnsFile
    <2>2. /\ process' \in [Processes -> ProcessStates] /\ process'[p].at = "dead"
          /\ process'[p].term = process[p].term
          /\ \A q \in Processes \ {p} : process'[q] = process[q]
      BY <1>4, <2>1
    <2>3. Ages
      BY <2>1, <2>2 DEF Ages, Started
    <2>4. stateFile' \in StateFiles /\ OwnerStarted(stateFile)'
      BY <2>1, NoProcessNotStarted DEF Remove, OwnerStarted
    <2>5. OwnsFile(p)'
      BY <2>2 DEF OwnsFile, HasFile
    <2>6. ASSUME NEW q \in Processes, q # p PROVE OwnsFile(q)'
      <3>1. OwnsFile(q)
        BY DEF LifecycleInv
      <3>2. ASSUME HasFile(q), ~process[q].term, q \notin overtaken' PROVE FALSE
        <4>1. q \notin overtaken
          BY <2>1, <3>2 DEF Remove
        <4>2. stateFile = [owner |-> q, whole |-> process[q].at # "created"]
          BY <3>1, <3>2, <4>1 DEF OwnsFile
        <4>3. stateFile.owner = q /\ stateFile # process[p].read
          BY <2>1, <2>6, <4>2
        <4>4. stateFile # NoStateFile
          BY <4>3, WorkbenchAssumption DEF NoStateFile
        <4> QED
          BY <2>1, <3>2, <4>3, <4>4 DEF Remove
      <3> QED
        BY <2>2, <2>6, <3>1, <3>2 DEF OwnsFile, HasFile
    <2> QED
      BY <1>1, <1>2, <2>2, <2>3, <2>4, <2>5, <2>6 DEF LifecycleTypeOK
  <1>12. ASSUME KillProcess(p) PROVE LifecycleInv'
    <2>1. OwnsFile(p)'
      BY <1>4, <1>12 DEF KillProcess, OwnsFile, HasFile
    <2> QED
      BY <1>3, <1>12, <2>1 DEF KillProcess
  <1> QED
    BY <1>5, <1>6, <1>7, <1>8, <1>9, <1>10, <1>11, <1>12 DEF ProcessStep

LEMMA LifecycleInductive == LifecycleInv /\ [WorkbenchNext]_workbenchVars => LifecycleInv'
  <1> SUFFICES ASSUME LifecycleInv, [WorkbenchNext]_workbenchVars PROVE LifecycleInv'
    OBVIOUS
  <1>1. CASE UNCHANGED lifecycleVars
    <2>1. \A o \in Operators : OperatorKnows(o)'
      BY <1>1, FilesLeft, OthersKnow DEF lifecycleVars
    <2> QED
      BY <1>1, <2>1, FilesLeft DEF lifecycleVars, LifecycleInv, LifecycleTypeOK
  <1>2. ASSUME NEW c \in Clients, ClientStep(c) PROVE UNCHANGED lifecycleVars
    BY <1>2 DEF ClientStep, Look, Post, PostAgain, Mutate, Reply
  <1>3. CASE \E o \in Operators : OperatorStep(o)
    BY <1>3, CommandKeepsLifecycle
  <1>4. CASE \E p \in Processes : ProcessStep(p)
    BY <1>4, ProcessKeepsLifecycle
  <1> QED
    BY <1>1, <1>2, <1>3, <1>4 DEF WorkbenchNext, workbenchVars, lifecycleVars

\* A Workbench server in service that nobody has signalled is found through the
\* state file (local_server.py), whatever commands, starts and ends of other
\* servers overlap, unless somebody removed the file in the window between his
\* read and his unlink by name.
THEOREM WorkbenchFindableHolds == WorkbenchSpec => []WorkbenchFindable
  <1>1. LifecycleInv => WorkbenchFindable
    <2> SUFFICES ASSUME LifecycleInv, NEW p \in Processes \ overtaken, Serves(p), ~process[p].term
                 PROVE  stateFile = [owner |-> p, whole |-> TRUE]
      BY DEF WorkbenchFindable
    <2> QED
      BY DEF LifecycleInv, OwnsFile, HasFile, Serves
  <1> QED
    BY <1>1, InitLifecycle, LifecycleInductive, PTL DEF WorkbenchSpec


----------------------------------------------------------------------------
(* The detached server of a run, when one command runs after another.      *)

Launching == {"waiting", "probing", "terminate"}
Unserved(s) == s \in Detached => ~InService(s)

\* What a command may rely on while it works through its steps: the file it is
\* about to remove is not that of a server in service.
CommandKnows(l) ==
    /\ launcher[l].pc \notin Launching => launcher[l].child = Nobody
    /\ launcher[l].pc \in Launching => launcher[l].child \in Detached
    /\ launcher[l].pc \in {"verify", "kill", "reread", "unlink"} => launcher[l].seen \in Detached
    /\ launcher[l].pc = "verify" =>
          record.owner = launcher[l].seen \/ Unserved(record.owner)
    /\ launcher[l].pc \in {"remove", "unlink"} => Unserved(record.owner)
    /\ launcher[l].pc = "reread" => Unserved(launcher[l].seen)

\* The file is of a server that created it, and is written out with it.
FileIsOwned ==
    \A s \in Detached : record.owner = s =>
        /\ servers[s].pc \notin {"unused", "starting", "bound"}
        /\ record.whole \/ servers[s].pc \in {"created", "dead"}

CommandInv ==
    /\ ServerTypeOK
    /\ record.whole => record.owner \in Detached
    /\ FileIsOwned
    /\ \A l \in Launchers : CommandKnows(l)

\* No command was interrupted and no server asked to end.
Undisturbed == interrupts = 0 /\ \A t \in Detached : ~servers[t].term

Unpublished == {"starting", "bound", "created"}
Published == {"published", "printed", "serving", "stopping", "unlinking"}

\* Where the state file is as long as nothing was disturbed.
FilesFollow ==
    /\ \A s \in Detached :
          /\ servers[s].pc \in Unpublished \cup {"published"} =>
                \E l \in Launchers : launcher[l].pc \in {"waiting", "terminate"}
                                     /\ launcher[l].child = s
          /\ servers[s].pc = "created" => record = [owner |-> s, whole |-> FALSE]
          /\ servers[s].pc \in Published => record = [owner |-> s, whole |-> TRUE]
          /\ servers[s].printed => servers[s].pc \notin Unpublished \cup {"unused", "published"}
    /\ record.owner = Nobody => record = Absent
    /\ \A l \in Launchers :
          /\ launcher[l].pc = "verify" => record = Absent \/ record.owner = launcher[l].seen
          /\ launcher[l].pc = "reread" => servers[launcher[l].seen].pc = "dead"
          /\ launcher[l].pc \in {"remove", "unlink"} =>
                record = Absent \/ servers[record.owner].pc = "dead"

\* A signal leaves its mark: a server without handlers has none pending, and a
\* process a command knows of has been started.
SignalsMark ==
    /\ \A s \in Detached : servers[s].pc \in Unhandled \cup {"unused"} => ~servers[s].term
    /\ \A l \in Launchers : \A s \in Detached :
          s \in {launcher[l].seen, launcher[l].child} => servers[s].pc # "unused"

FindInv == CommandInv /\ SignalsMark /\ (Undisturbed => FilesFollow)

OneCommand == \A l, m \in Launchers : l = m

LEMMA ServerTyped ==
    ASSUME ServerTypeOK, NEW s \in Detached
    PROVE  /\ servers[s] \in [pc : ServerStates, term : BOOLEAN, printed : BOOLEAN]
           /\ \A pc \in ServerStates :
                 [servers[s] EXCEPT !.pc = pc]
                    \in [pc : ServerStates, term : BOOLEAN, printed : BOOLEAN]
  BY DEF ServerTypeOK

LEMMA AdvanceTyped ==
    ASSUME ServerTypeOK, NEW s \in Detached, NEW pc \in ServerStates, Advance(s, pc)
    PROVE  servers' \in [Detached -> [pc : ServerStates, term : BOOLEAN, printed : BOOLEAN]]
  BY ServerTyped DEF ServerTypeOK, Advance

LEMMA SignalTyped ==
    ASSUME ServerTypeOK, NEW s \in Detached, Signal(s)
    PROVE  servers' \in [Detached -> [pc : ServerStates, term : BOOLEAN, printed : BOOLEAN]]
  <1>1. servers[s] \in [pc : ServerStates, term : BOOLEAN, printed : BOOLEAN]
    BY DEF ServerTypeOK
  <1>2. "dead" \in ServerStates
    BY DEF ServerStates
  <1>3. [pc |-> IF servers[s].pc \in Unhandled THEN "dead" ELSE servers[s].pc,
         term |-> servers[s].pc \notin Unhandled, printed |-> servers[s].printed]
            \in [pc : ServerStates, term : BOOLEAN, printed : BOOLEAN]
    BY <1>1, <1>2
  <1> QED
    BY <1>3 DEF Signal, ServerTypeOK

CommandStates ==
    [pc : LauncherStates, cmd : Commands \cup {"none"}, held : Detached \cup {Nobody},
     seen : Detached \cup {Nobody}, child : Detached \cup {Nobody}]

LEMMA CommandTyped ==
    ASSUME ServerTypeOK, NEW l \in Launchers, NEW pc \in LauncherStates,
           Proceed(l, pc) \/ Done(l)
    PROVE  launcher' \in [Launchers -> CommandStates]
  <1>1. launcher \in [Launchers -> CommandStates]
    BY DEF ServerTypeOK, CommandStates
  <1>2. [launcher[l] EXCEPT !.pc = pc] \in CommandStates
    BY <1>1 DEF CommandStates
  <1>3. Idle \in CommandStates
    BY DEF CommandStates, Idle, LauncherStates
  <1> HIDE DEF CommandStates
  <1>4. CASE Proceed(l, pc)
    BY <1>1, <1>2, <1>4 DEF Proceed
  <1>5. CASE Done(l)
    BY <1>1, <1>3, <1>5 DEF Done
  <1> QED
    BY <1>4, <1>5

\* A command in its first steps is not waiting for a port, so nobody reads one.
LEMMA NobodyListens ==
    ASSUME OneCommand, CommandInv, NEW l \in Launchers, launcher[l].pc \notin Launching,
           NEW s \in Detached
    PROVE  ~Listened(s)
  BY ServerAssumption DEF OneCommand, CommandInv, CommandKnows, Listened

\* Steps of the server processes: nobody comes into service unheard, and the
\* file they leave is not that of a server in service they did not find there.
LEMMA ServersKeep ==
    ASSUME OneCommand, CommandInv, launcher' = launcher, ServerTypeOK',
           record'.whole => record'.owner \in Detached, FileIsOwned',
           \A s \in Detached : InService(s)' => InService(s) \/ Listened(s),
           record'.owner = record.owner \/ Unserved(record.owner)'
    PROVE  CommandInv'
  <1> SUFFICES ASSUME NEW l \in Launchers PROVE CommandKnows(l)'
    BY DEF CommandInv
  <1>1. CommandKnows(l)
    BY DEF CommandInv
  <1>2. launcher[l].pc \notin Launching => \A s \in Detached : InService(s)' => InService(s)
    BY NobodyListens
  <1>3. launcher[l].pc \notin Launching => (Unserved(record.owner) => Unserved(record.owner)')
    BY <1>2 DEF Unserved, InService
  <1>4. launcher[l].pc \notin Launching => (Unserved(launcher[l].seen) => Unserved(launcher[l].seen)')
    BY <1>2 DEF Unserved, InService
  <1> QED
    BY <1>1, <1>3, <1>4 DEF CommandKnows, Launching

LEMMA AdvanceServes ==
    ASSUME ServerTypeOK, NEW s \in Detached, NEW pc, Advance(s, pc),
           pc \in {"printed", "serving"} => servers[s].pc \in {"printed", "serving"}
    PROVE  \A t \in Detached : InService(t)' => InService(t)
  BY DEF ServerTypeOK, Advance, InService

LEMMA ServerStepKeeps ==
    ASSUME OneCommand, CommandInv, NEW s \in Detached, ServerStep(s) \/ Crash(s)
    PROVE  CommandInv'
  <1> DEFINE kept == UNCHANGED <<launcher, faults>>
  <1>1. ServerTypeOK /\ record \in [owner : Detached \cup {Nobody}, whole : BOOLEAN]
        /\ (record.whole => record.owner \in Detached)
    BY DEF CommandInv, ServerTypeOK
  <1>2. ASSUME NEW pc \in ServerStates, Advance(s, pc), record' = record \/ record' = Absent,
               kept \/ (crashes' \in 0 .. MaxCrashes /\ UNCHANGED <<launcher, interrupts>>),
               pc \in {"printed", "serving"} => servers[s].pc \in {"printed", "serving"},
               \/ servers[s].pc \in {"unused", "starting", "bound"}
               \/ pc = "dead"
               \/ /\ servers[s].pc \notin {"created", "dead"}
                  /\ pc \notin {"unused", "starting", "bound", "created"}
        PROVE  CommandInv'
    <2>1. \A t \in Detached : InService(t)' => InService(t)
      BY <1>1, <1>2, AdvanceServes
    <2>2. Unserved(record.owner)' \/ record'.owner = record.owner
      BY <1>2, ServerAssumption DEF Absent, Unserved
    <2>3. ServerTypeOK'
      <3>1. record' \in [owner : Detached \cup {Nobody}, whole : BOOLEAN]
        <4>1. record \in [owner : Detached \cup {Nobody}, whole : BOOLEAN]
          BY <1>1
        <4>2. Absent \in [owner : Detached \cup {Nobody}, whole : BOOLEAN]
          BY DEF Absent
        <4>3. record' = record \/ record' = Absent
          BY <1>2
        <4> QED
          BY <4>1, <4>2, <4>3
      <3>2. servers' \in [Detached -> [pc : ServerStates, term : BOOLEAN, printed : BOOLEAN]]
        BY <1>1, <1>2, AdvanceTyped
      <3>3. launcher' = launcher /\ interrupts' = interrupts /\ crashes' \in 0 .. MaxCrashes
        BY <1>1, <1>2 DEF faults, ServerTypeOK
      <3> HIDE DEF kept
      <3> QED
        BY <1>1, <3>1, <3>2, <3>3 DEF ServerTypeOK
    <2>4. record'.whole => record'.owner \in Detached
      BY <1>1, <1>2 DEF Absent
    <2>5. launcher' = launcher
      BY <1>2
    <2>6. FileIsOwned'
      <3>1. \A t \in Detached : servers'[t].pc = IF t = s THEN pc ELSE servers[t].pc
        BY <1>1, <1>2 DEF Advance, ServerTypeOK
      <3>2. FileIsOwned
        BY DEF CommandInv
      <3>3. \A t \in Detached : record'.owner = t => record' = record
        BY <1>2, ServerAssumption DEF Absent
      <3> HIDE DEF kept
      <3> QED
        BY <1>2, <3>1, <3>2, <3>3 DEF FileIsOwned
    <2> HIDE DEF kept
    <2> QED
      BY <2>1, <2>2, <2>3, <2>4, <2>5, <2>6, ServersKeep
  <1>3. CASE CreateState(s)
    <2>1. CASE record = Absent
      <3>1. /\ Advance(s, "created") /\ UNCHANGED <<launcher, faults>>
            /\ record' = [owner |-> s, whole |-> FALSE]
        BY <1>3, <2>1 DEF CreateState
      <3>2. "created" \in ServerStates
        BY DEF ServerStates, Unhandled
      <3>3. ServerTypeOK'
        BY <1>1, <3>1, <3>2, AdvanceTyped DEF ServerTypeOK, faults
      <3>4. \A t \in Detached : InService(t)' => InService(t)
        BY <1>1, <3>1, AdvanceServes
      <3>5. ~InService(s)'
        BY <1>1, <3>1 DEF InService, Advance, ServerTypeOK
      <3>6. Unserved(record.owner)'
        BY <3>1, <3>5 DEF Unserved, InService
      <3>7. record'.whole => record'.owner \in Detached
        BY <3>1
      <3>8. FileIsOwned'
        <4>1. servers'[s].pc = "created" /\ record'.owner = s
          BY <1>1, <3>1 DEF Advance, ServerTypeOK
        <4> QED
          BY <4>1 DEF FileIsOwned
      <3> QED
        BY <3>1, <3>3, <3>4, <3>6, <3>7, <3>8, ServersKeep
    <2>2. CASE record # Absent
      BY <1>2, <1>3, <2>2 DEF CreateState, ServerStates
    <2> QED
      BY <2>1, <2>2
  <1>4. CASE WriteState(s)
    <2>1. /\ Advance(s, "published") /\ UNCHANGED <<launcher, faults>>
          /\ record' = [record EXCEPT !.whole = record.whole \/ record.owner = s]
      BY <1>4 DEF WriteState
    <2>2. "published" \in ServerStates
      BY DEF ServerStates, Unhandled
    <2>3. /\ record' \in [owner : Detached \cup {Nobody}, whole : BOOLEAN]
          /\ record'.owner = record.owner
          /\ record'.whole => record'.owner \in Detached
      BY <1>1, <2>1
    <2>4. ServerTypeOK'
      BY <1>1, <2>1, <2>2, <2>3, AdvanceTyped DEF ServerTypeOK, faults
    <2>5. \A t \in Detached : InService(t)' => InService(t)
      BY <1>1, <2>1, AdvanceServes
    <2>6. FileIsOwned'
      <3>1. \A t \in Detached : servers'[t].pc = IF t = s THEN "published" ELSE servers[t].pc
        BY <1>1, <2>1 DEF Advance, ServerTypeOK
      <3>2. /\ FileIsOwned
            /\ record'.owner = s => record'.whole = TRUE
            /\ record.whole => record'.whole
        BY <1>1, <2>1 DEF CommandInv
      <3> QED
        BY <2>3, <3>1, <3>2 DEF FileIsOwned
    <2> QED
      BY <2>1, <2>3, <2>4, <2>5, <2>6, ServersKeep
  <1>5. CASE PrintPort(s)
    <2>1. CASE Listened(s)
      <3>1. /\ servers' = [servers EXCEPT ![s] = [servers[s] EXCEPT !.pc = "printed", !.printed = TRUE]]
            /\ UNCHANGED <<record, launcher, faults>>
        BY <1>5, <2>1 DEF PrintPort
      <3>2. [servers[s] EXCEPT !.pc = "printed", !.printed = TRUE]
               \in [pc : ServerStates, term : BOOLEAN, printed : BOOLEAN]
        <4>1. servers[s] \in [pc : ServerStates, term : BOOLEAN, printed : BOOLEAN]
          BY <1>1, ServerTyped
        <4>2. "printed" \in ServerStates
          BY DEF ServerStates, Unhandled
        <4> QED
          BY <4>1, <4>2
      <3>3. ServerTypeOK'
        BY <1>1, <3>1, <3>2 DEF ServerTypeOK, faults
      <3>4. \A t \in Detached : InService(t)' => InService(t) \/ Listened(t)
        BY <1>1, <2>1, <3>1 DEF InService, ServerTypeOK
      <3>5. FileIsOwned'
        <4>1. /\ servers[s].pc = "published"
              /\ \A t \in Detached : servers'[t].pc = IF t = s THEN "printed" ELSE servers[t].pc
          BY <1>1, <1>5, <3>1 DEF PrintPort, ServerTypeOK
        <4> QED
          BY <3>1, <4>1 DEF FileIsOwned, CommandInv
      <3> QED
        BY <1>1, <3>1, <3>3, <3>4, <3>5, ServersKeep
    <2>2. CASE ~Listened(s)
      BY <1>2, <1>5, <2>2 DEF PrintPort, ServerStates
    <2> QED
      BY <2>1, <2>2
  <1>6. CASE Bind(s) \/ InstallHandlers(s) \/ RequestShutdown(s) \/ IdleExpire(s) \/ CloseServer(s)
             \/ ReadOwnState(s)
    <2>1. {"bound", "dead", "serving", "stopping", "closing", "unlinking"} \subseteq ServerStates
      BY DEF ServerStates, Unhandled
    <2>2. PICK pc \in {"bound", "dead", "serving", "stopping", "closing", "unlinking"} :
             /\ Advance(s, pc) /\ UNCHANGED <<record, launcher, faults>>
             /\ pc = "serving" => servers[s].pc = "printed"
             /\ pc # "dead" => \/ servers[s].pc = "starting"
                               \/ servers[s].pc \notin {"created", "dead"} /\ pc # "bound"
      BY <1>6 DEF Bind, InstallHandlers, RequestShutdown, IdleExpire, CloseServer, ReadOwnState
    <2> QED
      BY <1>2, <2>1, <2>2
  <1>7. CASE UnlinkOwnState(s)
    BY <1>2, <1>7 DEF UnlinkOwnState, ServerStates
  <1>8. CASE Crash(s)
    <2>1. crashes' \in 0 .. MaxCrashes
      BY <1>1, <1>8, ServerAssumption DEF Crash, ServerTypeOK
    <2>2. "dead" \in ServerStates
      BY DEF ServerStates
    <2> QED
      BY <1>2, <1>8, <2>1, <2>2 DEF Crash
  <1> QED
    BY <1>3, <1>4, <1>5, <1>6, <1>7, <1>8 DEF ServerStep

\* A step of the only command, that says what the command knows afterwards.
LEMMA CommandMoves ==
    ASSUME OneCommand, CommandInv, NEW l \in Launchers, NEW r \in CommandStates,
           launcher' = [launcher EXCEPT ![l] = r],
           record' = record \/ record' = Absent,
           servers' \in [Detached -> [pc : ServerStates, term : BOOLEAN, printed : BOOLEAN]],
           \A s \in Detached : \/ servers'[s].pc = servers[s].pc
                               \/ servers'[s].pc = "dead"
                               \/ servers[s].pc = "unused",
           crashes' = crashes, interrupts' \in 0 .. MaxInterrupts,
           CommandKnows(l)'
    PROVE  CommandInv'
  <1>1. ServerTypeOK /\ record \in [owner : Detached \cup {Nobody}, whole : BOOLEAN]
    BY DEF CommandInv, ServerTypeOK
  <1>2. launcher' \in [Launchers -> CommandStates]
    <2>1. launcher \in [Launchers -> CommandStates]
      BY <1>1 DEF ServerTypeOK, CommandStates
    <2> HIDE DEF CommandStates
    <2> QED
      BY <2>1
  <1>3. record' \in [owner : Detached \cup {Nobody}, whole : BOOLEAN]
    <2>1. Absent \in [owner : Detached \cup {Nobody}, whole : BOOLEAN]
      BY DEF Absent
    <2> QED
      BY <1>1, <2>1
  <1>4. ServerTypeOK'
    BY <1>1, <1>2, <1>3 DEF ServerTypeOK, CommandStates
  <1>5. record'.whole => record'.owner \in Detached
    BY DEF CommandInv, Absent
  <1>6. FileIsOwned'
    <2>1. \A s \in Detached : record'.owner = s => record' = record
      BY ServerAssumption DEF Absent
    <2> QED
      BY <2>1 DEF FileIsOwned, CommandInv
  <1>7. \A m \in Launchers : CommandKnows(m)'
    BY DEF OneCommand
  <1> QED
    BY <1>4, <1>5, <1>6, <1>7 DEF CommandInv

LEMMA MovesTyped ==
    ASSUME CommandInv, NEW l \in Launchers
    PROVE  /\ launcher[l] \in CommandStates
           /\ launcher[l].seen \in Detached \cup {Nobody}
           /\ launcher[l].child \in Detached \cup {Nobody}
           /\ \A pc \in LauncherStates : [launcher[l] EXCEPT !.pc = pc] \in CommandStates
           /\ Idle \in CommandStates
           /\ interrupts \in 0 .. MaxInterrupts
           /\ servers \in [Detached -> [pc : ServerStates, term : BOOLEAN, printed : BOOLEAN]]
  <1>1. launcher[l] \in CommandStates
    BY DEF CommandInv, ServerTypeOK, CommandStates
  <1>2. \A pc \in LauncherStates : [launcher[l] EXCEPT !.pc = pc] \in CommandStates
    BY <1>1 DEF CommandStates
  <1>3. Idle \in CommandStates
    BY DEF CommandStates, Idle, LauncherStates
  <1> QED
    BY <1>1, <1>2, <1>3 DEF CommandInv, ServerTypeOK, CommandStates

\* A command that ends, and perhaps removes the file.
LEMMA CommandEnds ==
    ASSUME OneCommand, CommandInv, NEW l \in Launchers, Done(l),
           servers' = servers, crashes' = crashes, interrupts' \in 0 .. MaxInterrupts,
           record' = record \/ record' = Absent
    PROVE  CommandInv'
  <1>1. launcher'[l] = Idle
    BY MovesTyped DEF Done, CommandInv, ServerTypeOK
  <1>2. CommandKnows(l)'
    BY <1>1 DEF CommandKnows, Idle, Launching
  <1> QED
    BY <1>2, MovesTyped, CommandMoves DEF Done

LEMMA Proceeded ==
    ASSUME CommandInv, NEW l \in Launchers, NEW pc \in LauncherStates, Proceed(l, pc)
    PROVE  /\ launcher'[l].pc = pc /\ launcher'[l].child = launcher[l].child
           /\ launcher'[l].seen = launcher[l].seen
           /\ [launcher[l] EXCEPT !.pc = pc] \in CommandStates
           /\ launcher' = [launcher EXCEPT ![l] = [launcher[l] EXCEPT !.pc = pc]]
  <1>1. launcher[l] \in CommandStates /\ launcher'[l] = [launcher[l] EXCEPT !.pc = pc]
    BY MovesTyped DEF Proceed, CommandInv, ServerTypeOK
  <1>2. launcher'[l].pc = pc /\ launcher'[l].child = launcher[l].child
        /\ launcher'[l].seen = launcher[l].seen
    BY <1>1 DEF CommandStates
  <1> QED
    BY <1>2, MovesTyped DEF Proceed

\* A command that goes on with what it knew before, while it changes no server
\* and leaves the file or removes it.
LEMMA CommandGoesOn ==
    ASSUME OneCommand, CommandInv, NEW l \in Launchers, NEW pc \in LauncherStates,
           servers' = servers, crashes' = crashes, interrupts' = interrupts,
           Proceed(l, pc),
           \/ record' = record /\ pc \in Launching /\ launcher[l].pc \in Launching
           \/ /\ record' = record \/ record' = Absent
              /\ launcher[l].pc \notin Launching /\ pc \in {"status", "spawn"}
           \/ /\ record' = record /\ launcher[l].pc \notin Launching
              /\ pc \in {"remove", "unlink", "kill"}
              /\ pc # "kill" => Unserved(record.owner)
              /\ pc # "remove" => launcher[l].seen \in Detached
    PROVE  CommandInv'
  <1>1. CommandKnows(l)
    BY DEF CommandInv
  <1>2. record' = record => (Unserved(record.owner) => Unserved(record.owner)')
    BY DEF Unserved, InService
  <1>3. CommandKnows(l)'
    BY <1>1, <1>2, Proceeded DEF CommandKnows, Launching
  <1> QED
    BY <1>3, Proceeded, MovesTyped, CommandMoves

LEMMA CommandAnswered ==
    ASSUME OneCommand, CommandInv, NEW l \in Launchers, NEW running \in BOOLEAN,
           Answered(l, running), launcher[l].pc \notin Launching,
           UNCHANGED <<servers, faults>>, record' = record \/ (record' = Absent /\ ~running),
           running => launcher[l].seen \in Detached
    PROVE  CommandInv'
  <1>1. servers' = servers /\ crashes' = crashes /\ interrupts' = interrupts
    BY DEF faults
  <1>2. CASE launcher[l].cmd = "stop" /\ running
    <2>1. Proceed(l, "kill") /\ record' = record
      BY <1>2 DEF Answered
    <2> QED
      BY <1>1, <1>2, <2>1, CommandGoesOn DEF LauncherStates
  <1>3. CASE launcher[l].cmd \in {"serve", "open"} /\ ~running
    <2>1. Proceed(l, "spawn")
      BY <1>3 DEF Answered
    <2> QED
      BY <1>1, <2>1, CommandGoesOn DEF LauncherStates
  <1>4. CASE ~(launcher[l].cmd = "stop" /\ running) /\ ~(launcher[l].cmd \in {"serve", "open"} /\ ~running)
    <2>1. Done(l)
      BY <1>4 DEF Answered
    <2> QED
      BY <1>1, <2>1, CommandEnds, MovesTyped
  <1> QED
    BY <1>2, <1>3, <1>4

LEMMA SignalServes ==
    ASSUME ServerTypeOK, NEW s \in Detached, Signal(s)
    PROVE  /\ ~InService(s)'
           /\ \A t \in Detached : servers'[t].pc = servers[t].pc \/ servers'[t].pc = "dead"
           /\ \A t \in Detached : InService(t)' => InService(t)
  <1>1. servers' = [servers EXCEPT ![s] =
            [pc |-> IF servers[s].pc \in Unhandled THEN "dead" ELSE servers[s].pc,
             term |-> servers[s].pc \notin Unhandled, printed |-> servers[s].printed]]
    BY DEF Signal
  <1>2. \A t \in Detached : t # s => servers'[t] = servers[t]
    BY <1>1 DEF ServerTypeOK
  <1>3. /\ servers'[s].pc = IF servers[s].pc \in Unhandled THEN "dead" ELSE servers[s].pc
        /\ servers'[s].term = (servers[s].pc \notin Unhandled)
    BY <1>1 DEF ServerTypeOK
  <1> QED
    BY <1>2, <1>3 DEF InService

\* What a command writes down about the file it read, and about its child.
LEMMA StateRead ==
    \A c \in CommandStates, s \in Detached, pc \in LauncherStates :
        [c EXCEPT !.pc = pc, !.held = s] \in CommandStates
  BY DEF CommandStates

LEMMA StateSeen ==
    \A c \in CommandStates, s \in Detached, pc \in LauncherStates :
        [c EXCEPT !.pc = pc, !.seen = s] \in CommandStates
  BY DEF CommandStates

LEMMA ChildStarted ==
    \A c \in CommandStates, s \in Detached, pc \in LauncherStates :
        [c EXCEPT !.pc = pc, !.child = s] \in CommandStates
  BY DEF CommandStates

LEMMA LauncherStepKeeps ==
    ASSUME OneCommand, CommandInv, NEW l \in Launchers, LauncherStep(l)
    PROVE  CommandInv'
  <1>1. CommandKnows(l) /\ ServerTypeOK /\ FileIsOwned
        /\ (record.whole => record.owner \in Detached)
    BY DEF CommandInv
  <1>2. CASE StopReadState(l)
    <2>1. launcher[l].pc = "state" /\ record' = record
          /\ servers' = servers /\ crashes' = crashes /\ interrupts' = interrupts
      BY <1>2 DEF StopReadState, faults
    <2>2. CASE record.whole
      <3> DEFINE r == [launcher[l] EXCEPT !.pc = "status", !.held = record.owner]
      <3>1. launcher' = [launcher EXCEPT ![l] = r]
        BY <1>2, <2>2 DEF StopReadState
      <3>2. r \in CommandStates
        BY <1>1, <2>2, MovesTyped, StateRead DEF LauncherStates
      <3>3. launcher'[l].pc = "status" /\ launcher'[l].child = launcher[l].child
        BY <3>1, MovesTyped DEF CommandStates, CommandInv, ServerTypeOK
      <3>4. CommandKnows(l)'
        BY <1>1, <2>1, <3>3 DEF CommandKnows, Launching
      <3> HIDE DEF r
      <3> QED
        BY <2>1, <3>1, <3>2, <3>4, MovesTyped, CommandMoves
    <2>3. CASE ~record.whole
      BY <1>2, <2>1, <2>3, CommandEnds, MovesTyped DEF StopReadState
    <2> QED
      BY <2>2, <2>3
  <1>3. CASE ReadStatus(l)
    <2>1. launcher[l].pc = "status" /\ UNCHANGED <<record, servers, faults>>
      BY <1>3 DEF ReadStatus
    <2>2. servers' = servers /\ crashes' = crashes /\ interrupts' = interrupts /\ record' = record
      BY <2>1 DEF faults
    <2>3. CASE record = Absent /\ Answered(l, FALSE)
      BY <2>1, <2>3, CommandAnswered DEF Launching
    <2>4. CASE record # Absent /\ ~record.whole /\ Proceed(l, "remove")
      <3>1. Unserved(record.owner)
        BY <1>1, <2>4 DEF Unserved, FileIsOwned, InService
      <3> QED
        BY <2>1, <2>2, <2>4, <3>1, CommandGoesOn DEF Launching, LauncherStates
    <2>5. CASE record.whole /\ launcher' = [launcher EXCEPT ![l] =
                   [launcher[l] EXCEPT !.pc = "verify", !.seen = record.owner]]
      <3> DEFINE r == [launcher[l] EXCEPT !.pc = "verify", !.seen = record.owner]
      <3>1. r \in CommandStates
        BY <1>1, <2>5, MovesTyped, StateSeen DEF LauncherStates
      <3>2. /\ launcher'[l].pc = "verify" /\ launcher'[l].child = launcher[l].child
            /\ launcher'[l].seen = record.owner
        BY <2>5, MovesTyped DEF CommandStates, CommandInv, ServerTypeOK
      <3>3. CommandKnows(l)'
        BY <1>1, <2>1, <2>2, <2>5, <3>2 DEF CommandKnows, Launching
      <3> HIDE DEF r
      <3> QED
        BY <2>2, <2>5, <3>1, <3>3, MovesTyped, CommandMoves DEF r
    <2> QED
      BY <1>3, <2>3, <2>4, <2>5 DEF ReadStatus
  <1>4. CASE VerifyAlive(l)
    <2>1. /\ launcher[l].pc = "verify" /\ launcher[l].seen \in Detached
          /\ UNCHANGED <<record, servers, faults>>
          /\ record.owner = launcher[l].seen \/ Unserved(record.owner)
      BY <1>1, <1>4 DEF VerifyAlive, CommandKnows
    <2>2. servers' = servers /\ crashes' = crashes /\ interrupts' = interrupts /\ record' = record
      BY <2>1 DEF faults
    <2>3. CASE Alive(launcher[l].seen)
      <3>1. Answered(l, TRUE)
        BY <1>4, <2>3 DEF VerifyAlive
      <3> QED
        BY <2>1, <3>1, CommandAnswered DEF Launching
    <2>4. CASE ~Alive(launcher[l].seen)
      <3>1. Proceed(l, "remove")
        BY <1>4, <2>4 DEF VerifyAlive
      <3>2. Unserved(record.owner)
        BY <2>1, <2>4 DEF Unserved, Alive, InService
      <3> QED
        BY <2>1, <2>2, <3>1, <3>2, CommandGoesOn DEF Launching, LauncherStates
    <2> QED
      BY <2>3, <2>4
  <1>5. CASE RemoveState(l)
    <2>1. launcher[l].pc = "remove" /\ record' = Absent /\ UNCHANGED <<servers, faults>>
          /\ Answered(l, FALSE)
      BY <1>5 DEF RemoveState
    <2> QED
      BY <2>1, CommandAnswered DEF Launching
  <1>6. ASSUME NEW s \in Detached, Spawn(l, s) PROVE CommandInv'
    <2>1. /\ launcher[l].pc = "spawn" /\ servers[s].pc = "unused" /\ Advance(s, "starting")
          /\ launcher' = [launcher EXCEPT ![l] =
                [launcher[l] EXCEPT !.pc = "waiting", !.child = s]]
          /\ record' = record /\ crashes' = crashes /\ interrupts' = interrupts
      BY <1>6 DEF Spawn, faults
    <2> DEFINE r == [launcher[l] EXCEPT !.pc = "waiting", !.child = s]
    <2>2. r \in CommandStates
      BY MovesTyped, ChildStarted DEF LauncherStates
    <2>3. launcher'[l].pc = "waiting" /\ launcher'[l].child = s
      BY <2>1, MovesTyped DEF CommandStates, CommandInv, ServerTypeOK
    <2>4. CommandKnows(l)'
      BY <2>3 DEF CommandKnows, Launching
    <2>5. servers' \in [Detached -> [pc : ServerStates, term : BOOLEAN, printed : BOOLEAN]]
      BY <1>1, <2>1, AdvanceTyped DEF ServerStates, Unhandled
    <2>6. \A t \in Detached : servers'[t].pc = servers[t].pc \/ servers[t].pc = "unused"
      BY <1>1, <2>1 DEF Advance, ServerTypeOK
    <2> HIDE DEF r
    <2> QED
      BY <2>1, <2>2, <2>4, <2>5, <2>6, MovesTyped, CommandMoves DEF r
  <1>7. CASE PortRead(l) \/ PortMissing(l) \/ Probe(l)
    <2>1. /\ record' = record /\ servers' = servers /\ crashes' = crashes /\ interrupts' = interrupts
          /\ launcher[l].pc \in Launching
          /\ Done(l) \/ \E pc \in {"probing", "terminate"} : Proceed(l, pc)
      BY <1>7 DEF PortRead, PortMissing, Probe, faults, Launching
    <2>2. CASE Done(l)
      BY <2>1, <2>2, CommandEnds, MovesTyped
    <2>3. ASSUME NEW pc \in {"probing", "terminate"}, Proceed(l, pc) PROVE CommandInv'
      BY <2>1, <2>3, CommandGoesOn DEF Launching, LauncherStates
    <2> QED
      BY <2>1, <2>2, <2>3
  <1>8. CASE Terminate(l) \/ Kill(l)
    <2>1. /\ record' = record /\ crashes' = crashes /\ interrupts' = interrupts
          /\ \/ servers' = servers /\ Done(l)
             \/ \E s \in Detached :
                   /\ Signal(s)
                   /\ \/ Done(l)
                      \/ Proceed(l, "reread") /\ launcher[l].pc = "kill" /\ launcher[l].seen = s
      BY <1>1, <1>8 DEF Terminate, Kill, faults, CommandKnows, Launching
    <2>2. CASE servers' = servers /\ Done(l)
      BY <2>1, <2>2, CommandEnds, MovesTyped
    <2>3. ASSUME NEW s \in Detached, Signal(s),
                 \/ Done(l)
                 \/ Proceed(l, "reread") /\ launcher[l].pc = "kill" /\ launcher[l].seen = s
          PROVE  CommandInv'
      <3>1. servers' \in [Detached -> [pc : ServerStates, term : BOOLEAN, printed : BOOLEAN]]
        BY <1>1, <2>3, SignalTyped
      <3>2. /\ \A t \in Detached : servers'[t].pc = servers[t].pc \/ servers'[t].pc = "dead"
            /\ ~InService(s)'
        BY <1>1, <2>3, SignalServes
      <3>3. CASE Done(l)
        <4>1. launcher'[l] = Idle
          BY <3>3, MovesTyped DEF Done, CommandInv, ServerTypeOK
        <4>2. CommandKnows(l)'
          BY <4>1 DEF CommandKnows, Idle, Launching
        <4> QED
          BY <2>1, <3>1, <3>2, <3>3, <4>2, MovesTyped, CommandMoves DEF Done
      <3>4. CASE Proceed(l, "reread") /\ launcher[l].pc = "kill" /\ launcher[l].seen = s
        <4>1. /\ launcher'[l].pc = "reread" /\ launcher'[l].child = launcher[l].child
              /\ launcher'[l].seen = s
              /\ [launcher[l] EXCEPT !.pc = "reread"] \in CommandStates
              /\ launcher' = [launcher EXCEPT ![l] = [launcher[l] EXCEPT !.pc = "reread"]]
          BY <3>4, Proceeded DEF LauncherStates
        <4>2. CommandKnows(l)'
          <5>1. launcher[l].child = Nobody
            BY <1>1, <3>4 DEF CommandKnows, Launching
          <5>2. Unserved(launcher[l].seen)'
            BY <3>2, <4>1 DEF Unserved, InService
          <5> QED
            BY <2>3, <4>1, <5>1, <5>2 DEF CommandKnows, Launching
        <4> QED
          BY <2>1, <3>1, <3>2, <4>1, <4>2, MovesTyped, CommandMoves
      <3> QED
        BY <2>3, <3>3, <3>4
    <2> QED
      BY <2>1, <2>2, <2>3
  <1>9. CASE StopReread(l)
    <2>1. /\ launcher[l].pc = "reread" /\ record' = record /\ servers' = servers
          /\ crashes' = crashes /\ interrupts' = interrupts
          /\ Done(l) \/ (Proceed(l, "unlink") /\ record.owner = launcher[l].seen)
      BY <1>9 DEF StopReread, faults
    <2>2. Unserved(launcher[l].seen) /\ launcher[l].seen \in Detached
      BY <1>1, <2>1 DEF CommandKnows
    <2> QED
      BY <2>1, <2>2, CommandEnds, CommandGoesOn, MovesTyped DEF Launching, LauncherStates
  <1>10. CASE StopUnlink(l)
    BY <1>10, CommandEnds, MovesTyped DEF StopUnlink, faults
  <1> QED
    BY <1>2, <1>3, <1>4, <1>5, <1>6, <1>7, <1>8, <1>9, <1>10 DEF LauncherStep

LEMMA CommandBegins ==
    ASSUME OneCommand, CommandInv, NEW l \in Launchers,
           Interrupt(l) \/ \E cmd \in Commands : Begin(l, cmd)
    PROVE  CommandInv'
  <1>1. CASE Interrupt(l)
    <2>1. /\ Done(l) /\ record' = record /\ servers' = servers /\ crashes' = crashes
          /\ interrupts' \in 0 .. MaxInterrupts
      BY <1>1, MovesTyped, ServerAssumption DEF Interrupt
    <2> QED
      BY <2>1, CommandEnds
  <1>2. ASSUME NEW cmd \in Commands, Begin(l, cmd) PROVE CommandInv'
    <2>1. PICK pc \in {"state", "status"} :
             launcher' = [launcher EXCEPT ![l] = [Idle EXCEPT !.pc = pc, !.cmd = cmd]]
      BY <1>2 DEF Begin
    <2> DEFINE r == [Idle EXCEPT !.pc = pc, !.cmd = cmd]
    <2>2. r \in CommandStates
      BY DEF CommandStates, LauncherStates, Idle
    <2>3. launcher'[l].pc = pc /\ launcher'[l].child = Nobody
      BY <2>1 DEF CommandInv, ServerTypeOK, Idle
    <2>4. CommandKnows(l)'
      BY <2>3 DEF CommandKnows, Launching
    <2>5. /\ record' = record /\ servers' = servers /\ crashes' = crashes
          /\ interrupts' = interrupts
      BY <1>2 DEF Begin, faults
    <2>6. launcher' = [launcher EXCEPT ![l] = r]
      BY <2>1
    <2> HIDE DEF r
    <2> QED
      BY <2>2, <2>4, <2>5, <2>6, MovesTyped, CommandMoves
  <1> QED
    BY <1>1, <1>2

LEMMA InitCommand == ServerInit => CommandInv
  <1> SUFFICES ASSUME ServerInit PROVE CommandInv
    OBVIOUS
  <1>1. Absent \in [owner : Detached \cup {Nobody}, whole : BOOLEAN]
    BY DEF Absent
  <1>2. [pc |-> "unused", term |-> FALSE, printed |-> FALSE]
           \in [pc : ServerStates, term : BOOLEAN, printed : BOOLEAN]
    BY DEF ServerStates
  <1>3. Idle \in [pc : LauncherStates, cmd : Commands \cup {"none"},
                   held : Detached \cup {Nobody}, seen : Detached \cup {Nobody},
                   child : Detached \cup {Nobody}]
    BY DEF Idle, LauncherStates
  <1>4. ServerTypeOK
    BY <1>1, <1>2, <1>3, ServerAssumption DEF ServerInit, ServerTypeOK
  <1>5. record.owner = Nobody /\ ~record.whole
    BY DEF ServerInit, Absent
  <1>6. \A l \in Launchers : CommandKnows(l)
    BY DEF ServerInit, CommandKnows, Idle, Launching
  <1> QED
    BY <1>4, <1>5, <1>6, ServerAssumption DEF CommandInv, FileIsOwned

LEMMA CommandInductive ==
    ASSUME OneCommand
    PROVE  CommandInv /\ [ServerNext]_serverVars => CommandInv'
  <1>1. ASSUME CommandInv, UNCHANGED serverVars PROVE CommandInv'
    <2>1. /\ record' = record /\ servers' = servers /\ launcher' = launcher
          /\ crashes' = crashes /\ interrupts' = interrupts
      BY <1>1 DEF serverVars
    <2> QED
      BY <1>1, <2>1 DEF CommandInv, ServerTypeOK, FileIsOwned, CommandKnows, Unserved, InService
  <1> QED
    BY <1>1, LauncherStepKeeps, CommandBegins, ServerStepKeeps DEF ServerNext

LEMMA Advanced ==
    ASSUME ServerTypeOK, NEW s \in Detached, NEW pc, Advance(s, pc)
    PROVE  \A t \in Detached :
              /\ servers'[t].pc = IF t = s THEN pc ELSE servers[t].pc
              /\ servers'[t].term = servers[t].term
              /\ servers'[t].printed = servers[t].printed
  <1>1. \A t \in Detached :
           servers[t] \in [pc : ServerStates, term : BOOLEAN, printed : BOOLEAN]
    BY DEF ServerTypeOK
  <1>2. servers' = [servers EXCEPT ![s] = [servers[s] EXCEPT !.pc = pc]]
    BY DEF Advance
  <1>3. \A t \in Detached :
           servers'[t] = IF t = s THEN [servers[s] EXCEPT !.pc = pc] ELSE servers[t]
    BY <1>2 DEF ServerTypeOK
  <1> QED
    BY <1>1, <1>3

\* The port goes out with the step of the server that prints it.
LEMMA Printed ==
    ASSUME ServerTypeOK, NEW s \in Detached,
           servers' = [servers EXCEPT ![s] = [servers[s] EXCEPT !.pc = "printed", !.printed = TRUE]]
    PROVE  /\ servers'[s].pc = "printed" /\ servers'[s].term = servers[s].term
           /\ \A t \in Detached : t # s => servers'[t] = servers[t]
  <1>1. servers[s] \in [pc : ServerStates, term : BOOLEAN, printed : BOOLEAN]
    BY DEF ServerTypeOK
  <1>2. /\ servers'[s] = [servers[s] EXCEPT !.pc = "printed", !.printed = TRUE]
        /\ \A t \in Detached : t # s => servers'[t] = servers[t]
    BY DEF ServerTypeOK
  <1>3. \A r \in [pc : ServerStates, term : BOOLEAN, printed : BOOLEAN] :
           /\ [r EXCEPT !.pc = "printed", !.printed = TRUE].pc = "printed"
           /\ [r EXCEPT !.pc = "printed", !.printed = TRUE].term = r.term
    OBVIOUS
  <1>4. servers'[s].pc = "printed" /\ servers'[s].term = servers[s].term
    BY <1>1, <1>2, <1>3
  <1> QED
    BY <1>2, <1>4

\* What a signal does to the process it is sent to, and to no other.
LEMMA Signalled ==
    ASSUME ServerTypeOK, NEW s \in Detached, Signal(s)
    PROVE  /\ \A t \in Detached : t # s => servers'[t] = servers[t]
           /\ servers'[s].pc = IF servers[s].pc \in Unhandled THEN "dead" ELSE servers[s].pc
           /\ servers'[s].term = (servers[s].pc \notin Unhandled)
           /\ servers'[s].printed = servers[s].printed
  BY DEF ServerTypeOK, Signal

\* How the next state comes about: a server advances, prints, or is signalled.
LEMMA ServersMove ==
    ASSUME CommandInv, ServerNext
    PROVE  \/ servers' = servers
           \/ \E s \in Detached, pc \in ServerStates :
                 /\ Advance(s, pc)
                 /\ \/ servers[s].pc = "unused" /\ pc = "starting"
                    \/ servers[s].pc \in Unhandled /\ pc \in {"bound", "created", "published"}
                    \/ pc \notin Unhandled \cup {"unused"}
           \/ \E s \in Detached :
                 /\ servers[s].pc = "published"
                 /\ servers' = [servers EXCEPT ![s] =
                                  [servers[s] EXCEPT !.pc = "printed", !.printed = TRUE]]
           \/ \E l \in Launchers :
                 \/ launcher[l].pc = "terminate" /\ Signal(launcher[l].child)
                 \/ launcher[l].pc = "kill" /\ Signal(launcher[l].seen)
  <1>1. ASSUME NEW l \in Launchers, LauncherStep(l), ~\E s \in Detached : Spawn(l, s)
        PROVE  \/ servers' = servers
               \/ launcher[l].pc = "terminate" /\ Signal(launcher[l].child)
               \/ launcher[l].pc = "kill" /\ Signal(launcher[l].seen)
    BY <1>1 DEF LauncherStep, StopReadState, ReadStatus, VerifyAlive, RemoveState, PortRead,
                PortMissing, Probe, Terminate, Kill, StopReread, StopUnlink
  <1>2. ASSUME NEW l \in Launchers, Interrupt(l) \/ \E cmd \in Commands : Begin(l, cmd)
        PROVE  servers' = servers
    BY <1>2 DEF Interrupt, Begin
  <1>3. ASSUME NEW l \in Launchers, NEW s \in Detached, Spawn(l, s)
        PROVE  servers[s].pc = "unused" /\ Advance(s, "starting") /\ "starting" \in ServerStates
    BY <1>3 DEF Spawn, ServerStates, Unhandled
  <1>4. ASSUME NEW s \in Detached, Crash(s) \/ (ServerStep(s) /\ ~PrintPort(s))
        PROVE  \E pc \in ServerStates :
                 /\ Advance(s, pc)
                 /\ \/ servers[s].pc \in Unhandled /\ pc \in {"bound", "created", "published"}
                    \/ pc \notin Unhandled \cup {"unused"}
    BY <1>4 DEF ServerStep, Crash, Bind, CreateState, WriteState, InstallHandlers, RequestShutdown,
                IdleExpire, CloseServer, ReadOwnState, UnlinkOwnState, ServerStates, Unhandled
  <1>5. ASSUME NEW s \in Detached, PrintPort(s)
        PROVE  \/ /\ servers[s].pc = "published"
                  /\ servers' = [servers EXCEPT ![s] =
                                  [servers[s] EXCEPT !.pc = "printed", !.printed = TRUE]]
               \/ Advance(s, "closing") /\ "closing" \in ServerStates
                  /\ "closing" \notin Unhandled \cup {"unused"}
    BY <1>5 DEF PrintPort, ServerStates, Unhandled
  <1> QED
    BY <1>1, <1>2, <1>3, <1>4, <1>5 DEF ServerNext

\* What is known of whom a command names.
LEMMA CommandNames ==
    ASSUME CommandInv, ServerNext, NEW l \in Launchers, NEW s \in Detached,
           s \in {launcher'[l].seen, launcher'[l].child}
    PROVE  \/ s \in {launcher[l].seen, launcher[l].child}
           \/ s = record.owner
           \/ servers'[s].pc = "starting"
  <1>1. launcher \in [Launchers -> CommandStates]
    BY DEF CommandInv, ServerTypeOK, CommandStates
  <1>2. Idle.seen = Nobody /\ Idle.child = Nobody
    BY DEF Idle
  <1>3. ASSUME NEW m \in Launchers, NEW t \in Detached, Spawn(m, t)
        PROVE  \/ s \in {launcher[l].seen, launcher[l].child}
               \/ s = record.owner
               \/ servers'[s].pc = "starting"
    <2>1. PICK c : /\ c = [launcher[m] EXCEPT !.pc = "waiting", !.child = t]
                   /\ launcher' = [launcher EXCEPT ![m] = c]
      BY <1>3 DEF Spawn
    <2>2. c.seen = launcher[m].seen /\ c.child = t
      BY <1>1, <2>1 DEF CommandStates
    <2>3. servers'[t].pc = "starting"
      BY <1>3, Advanced DEF Spawn, CommandInv
    <2>4. launcher'[l] = IF l = m THEN c ELSE launcher[l]
      BY <1>1, <2>1
    <2> QED
      BY <2>2, <2>3, <2>4
  <1>4. ASSUME NEW m \in Launchers, NEW pc \in LauncherStates, Proceed(m, pc)
        PROVE  s \in {launcher[l].seen, launcher[l].child}
    <2>1. /\ launcher'[m].seen = launcher[m].seen
          /\ launcher'[m].child = launcher[m].child
          /\ launcher' = [launcher EXCEPT ![m] = [launcher[m] EXCEPT !.pc = pc]]
      BY <1>4, Proceeded
    <2> QED
      BY <1>1, <2>1
  <1>5. ASSUME NEW m \in Launchers, Done(m)
        PROVE  s \in {launcher[l].seen, launcher[l].child}
    <2>1. launcher'[l] = IF l = m THEN Idle ELSE launcher[l]
      BY <1>1, <1>5 DEF Done
    <2> QED
      BY <1>2, <2>1, ServerAssumption
  <1>6. ASSUME NEW m \in Launchers, NEW cmd, Begin(m, cmd)
        PROVE  s \in {launcher[l].seen, launcher[l].child}
    <2>1. PICK pc : launcher' = [launcher EXCEPT ![m] = [Idle EXCEPT !.pc = pc, !.cmd = cmd]]
      BY <1>6 DEF Begin
    <2>2. launcher'[l] = IF l = m THEN [Idle EXCEPT !.pc = pc, !.cmd = cmd] ELSE launcher[l]
      BY <1>1, <2>1
    <2>3. [Idle EXCEPT !.pc = pc, !.cmd = cmd].seen = Nobody
          /\ [Idle EXCEPT !.pc = pc, !.cmd = cmd].child = Nobody
      BY DEF Idle
    <2> QED
      BY <2>2, <2>3, ServerAssumption
  <1>7. ASSUME NEW m \in Launchers,
               launcher' = [launcher EXCEPT ![m] =
                  [launcher[m] EXCEPT !.pc = "status", !.held = record.owner]]
        PROVE  s \in {launcher[l].seen, launcher[l].child}
    <2>1. launcher'[l] = IF l = m THEN [launcher[m] EXCEPT !.pc = "status", !.held = record.owner]
                         ELSE launcher[l]
      BY <1>1, <1>7
    <2>2. launcher'[l].seen = launcher[l].seen /\ launcher'[l].child = launcher[l].child
      BY <1>1, <2>1 DEF CommandStates
    <2> QED
      BY <2>2
  <1>8. ASSUME NEW m \in Launchers,
               launcher' = [launcher EXCEPT ![m] =
                  [launcher[m] EXCEPT !.pc = "verify", !.seen = record.owner]]
        PROVE  s \in {launcher[l].seen, launcher[l].child} \/ s = record.owner
    <2>1. launcher'[l] = IF l = m THEN [launcher[m] EXCEPT !.pc = "verify", !.seen = record.owner]
                         ELSE launcher[l]
      BY <1>1, <1>8
    <2>2. /\ launcher'[l].child = launcher[l].child
          /\ launcher'[l].seen = launcher[l].seen \/ launcher'[l].seen = record.owner
      BY <1>1, <2>1 DEF CommandStates
    <2> QED
      BY <2>2
  <1>9. ASSUME NEW m \in Launchers, LauncherStep(m), ~\E t \in Detached : Spawn(m, t)
         PROVE  \/ launcher' = launcher
                \/ Done(m)
                \/ \E pc \in LauncherStates : Proceed(m, pc)
                \/ launcher' = [launcher EXCEPT ![m] =
                      [launcher[m] EXCEPT !.pc = "status", !.held = record.owner]]
                \/ launcher' = [launcher EXCEPT ![m] =
                      [launcher[m] EXCEPT !.pc = "verify", !.seen = record.owner]]
    <2>1. \A running \in BOOLEAN :
             Answered(m, running) => Done(m) \/ Proceed(m, "kill") \/ Proceed(m, "spawn")
      BY DEF Answered
    <2>2. {"kill", "spawn", "remove", "probing", "terminate", "reread", "unlink"} \subseteq LauncherStates
      BY DEF LauncherStates
    <2> QED
      BY <1>9, <2>1, <2>2 DEF LauncherStep, StopReadState, ReadStatus, VerifyAlive, RemoveState,
         PortRead, PortMissing, Probe, Terminate, Kill, StopReread, StopUnlink
  <1>10. ASSUME NEW t \in Detached, ServerStep(t) \/ Crash(t) PROVE launcher' = launcher
    BY <1>10 DEF ServerStep, Crash, Bind, CreateState, WriteState, PrintPort, InstallHandlers,
       RequestShutdown, IdleExpire, CloseServer, ReadOwnState, UnlinkOwnState
  <1> QED
    BY <1>3, <1>4, <1>5, <1>6, <1>7, <1>8, <1>9, <1>10 DEF ServerNext, Interrupt

LEMMA SignalsInductive ==
    ASSUME CommandInv, CommandInv', SignalsMark, [ServerNext]_serverVars
    PROVE  SignalsMark'
  <1>1. ServerTypeOK /\ FileIsOwned /\ \A l \in Launchers : CommandKnows(l)
    BY DEF CommandInv
  <1>2. CASE UNCHANGED serverVars
    BY <1>2 DEF serverVars, SignalsMark
  <1>3. CASE ServerNext
    <2>1. \A s \in Detached : /\ servers'[s].pc = "unused" => servers[s].pc = "unused"
                              /\ servers'[s].pc \in Unhandled \cup {"unused"} =>
                                    /\ servers'[s].term = servers[s].term
                                    /\ servers[s].pc \in Unhandled \cup {"unused"}
      <3>1. CASE servers' = servers
        BY <3>1
      <3>2. ASSUME NEW t \in Detached, NEW pc \in ServerStates, Advance(t, pc),
                   \/ servers[t].pc = "unused" /\ pc = "starting"
                   \/ servers[t].pc \in Unhandled /\ pc \in {"bound", "created", "published"}
                   \/ pc \notin Unhandled \cup {"unused"}
            PROVE  \A s \in Detached :
                      /\ servers'[s].pc = "unused" => servers[s].pc = "unused"
                      /\ servers'[s].pc \in Unhandled \cup {"unused"} =>
                             /\ servers'[s].term = servers[s].term
                             /\ servers[s].pc \in Unhandled \cup {"unused"}
        <4>1. \A s \in Detached : /\ servers'[s].pc = IF s = t THEN pc ELSE servers[s].pc
                                  /\ servers'[s].term = servers[s].term
          BY <1>1, <3>2, Advanced
        <4> QED
          BY <3>2, <4>1
      <3>3. ASSUME NEW t \in Detached, servers[t].pc = "published",
                   servers' = [servers EXCEPT ![t] =
                                 [servers[t] EXCEPT !.pc = "printed", !.printed = TRUE]]
            PROVE  \A s \in Detached :
                      /\ servers'[s].pc = "unused" => servers[s].pc = "unused"
                      /\ servers'[s].pc \in Unhandled \cup {"unused"} =>
                             /\ servers'[s].term = servers[s].term
                             /\ servers[s].pc \in Unhandled \cup {"unused"}
        BY <1>1, <3>3, Printed DEF Unhandled
      <3>4. ASSUME NEW t \in Detached, Signal(t), servers[t].pc # "unused"
            PROVE  \A s \in Detached :
                      /\ servers'[s].pc = "unused" => servers[s].pc = "unused"
                      /\ servers'[s].pc \in Unhandled \cup {"unused"} =>
                             /\ servers'[s].term = servers[s].term
                             /\ servers[s].pc \in Unhandled \cup {"unused"}
        BY <1>1, <3>4, Signalled DEF Unhandled
      <3>5. \A l \in Launchers :
               /\ launcher[l].pc = "terminate" => /\ launcher[l].child \in Detached
                                                 /\ servers[launcher[l].child].pc # "unused"
               /\ launcher[l].pc = "kill" => /\ launcher[l].seen \in Detached
                                            /\ servers[launcher[l].seen].pc # "unused"
        BY <1>1 DEF CommandKnows, SignalsMark, Launching
      <3> QED
        BY <1>3, <3>1, <3>2, <3>3, <3>4, <3>5, ServersMove
    <2>2. ASSUME NEW l \in Launchers, NEW s \in Detached,
                 s \in {launcher'[l].seen, launcher'[l].child}
          PROVE  servers'[s].pc # "unused"
      <3>1. CASE s \in {launcher[l].seen, launcher[l].child} \/ servers'[s].pc = "starting"
        BY <2>1, <3>1 DEF SignalsMark
      <3>2. CASE s = record.owner
        BY <1>1, <2>1, <3>2 DEF FileIsOwned
      <3> QED
        BY <1>3, <2>2, <3>1, <3>2, CommandNames
    <2>3. \A s \in Detached : servers'[s].pc \in Unhandled \cup {"unused"} => ~servers'[s].term
      BY <2>1 DEF SignalsMark
    <2> QED
      BY <2>2, <2>3 DEF SignalsMark
  <1> QED
    BY <1>2, <1>3

\* What was disturbed stays so.
LEMMA StaysDisturbed ==
    ASSUME CommandInv, SignalsMark, ServerNext, Undisturbed'
    PROVE  Undisturbed
  <1>1. ServerTypeOK
    BY DEF CommandInv
  <1>2. interrupts' = interrupts \/ interrupts' = interrupts + 1
    BY DEF ServerNext, LauncherStep, ServerStep, StopReadState, ReadStatus, VerifyAlive, RemoveState,
       PortRead, PortMissing, Probe, Terminate, Kill, StopReread, StopUnlink, Spawn, Interrupt, Begin,
       Crash, Bind, CreateState, WriteState, PrintPort, InstallHandlers, RequestShutdown, IdleExpire,
       CloseServer, ReadOwnState, UnlinkOwnState, faults
  <1>3. interrupts \in Nat
    BY <1>1, ServerAssumption DEF ServerTypeOK
  <1>4. interrupts = 0
    BY <1>2, <1>3 DEF Undisturbed
  <1>5. ASSUME NEW t \in Detached PROVE ~servers[t].term
    <2>1. ASSUME NEW s \in Detached, NEW pc \in ServerStates, Advance(s, pc)
          PROVE  servers'[t].term = servers[t].term
      BY <1>1, <2>1, Advanced
    <2>2. ASSUME NEW s \in Detached,
                 servers' = [servers EXCEPT ![s] =
                               [servers[s] EXCEPT !.pc = "printed", !.printed = TRUE]]
          PROVE  servers'[t].term = servers[t].term
      BY <1>1, <2>2, Printed
    <2>3. ASSUME NEW s \in Detached, Signal(s) PROVE ~servers[t].term
      <3>1. servers[s].pc \in Unhandled
        BY <1>1, <2>3, Signalled DEF Undisturbed
      <3>2. CASE t = s
        BY <3>1, <3>2 DEF SignalsMark
      <3>3. CASE t # s
        BY <1>1, <2>3, <3>3, Signalled DEF Undisturbed
      <3> QED
        BY <3>2, <3>3
    <2>4. \A l \in Launchers : /\ launcher[l].pc = "terminate" => launcher[l].child \in Detached
                               /\ launcher[l].pc = "kill" => launcher[l].seen \in Detached
      BY DEF CommandInv, CommandKnows, Launching
    <2> QED
      BY <2>1, <2>2, <2>3, <2>4, ServersMove DEF Undisturbed
  <1> QED
    BY <1>4, <1>5 DEF Undisturbed

\* A server moves on and leaves the file where it is.
LEMMA FilesAdvance ==
    ASSUME CommandInv, FilesFollow, NEW s \in Detached, NEW pc, Advance(s, pc),
           record' = record, launcher' = launcher, pc # "created",
           pc \in Unpublished \cup {"unused", "published"} =>
               servers[s].pc \in Unpublished \cup {"published"} /\ pc # "unused",
           pc \in Published => record = [owner |-> s, whole |-> TRUE],
           servers[s].pc = "dead" => pc = "dead"
    PROVE  FilesFollow'
  <1>1. ServerTypeOK /\ \A l \in Launchers : CommandKnows(l)
    BY DEF CommandInv
  <1>2. \A t \in Detached : /\ servers'[t].pc = IF t = s THEN pc ELSE servers[t].pc
                            /\ servers'[t].printed = servers[t].printed
    BY <1>1, Advanced
  <1>3. \A t \in Detached : servers[t].pc = "dead" => servers'[t].pc = "dead"
    BY <1>2
  <1>4. ASSUME NEW t \in Detached
        PROVE  /\ servers'[t].pc \in Unpublished \cup {"published"} =>
                     \E l \in Launchers : launcher'[l].pc \in {"waiting", "terminate"}
                                          /\ launcher'[l].child = t
               /\ servers'[t].pc = "created" => record' = [owner |-> t, whole |-> FALSE]
               /\ servers'[t].pc \in Published => record' = [owner |-> t, whole |-> TRUE]
               /\ servers'[t].printed => servers'[t].pc \notin Unpublished \cup {"unused", "published"}
    BY <1>2 DEF FilesFollow
  <1>5. record.owner \in Detached \cup {Nobody}
    BY <1>1 DEF ServerTypeOK
  <1>6. ASSUME NEW l \in Launchers
        PROVE  /\ launcher'[l].pc = "verify" => record' = Absent \/ record'.owner = launcher'[l].seen
               /\ launcher'[l].pc = "reread" => servers'[launcher'[l].seen].pc = "dead"
               /\ launcher'[l].pc \in {"remove", "unlink"} =>
                     record' = Absent \/ servers'[record'.owner].pc = "dead"
    BY <1>1, <1>3, <1>5 DEF FilesFollow, CommandKnows
  <1> QED
    BY <1>4, <1>6 DEF FilesFollow

\* While a command starts a server, it is in none of its other steps.
LEMMA StartingAlone ==
    ASSUME OneCommand, FilesFollow, NEW s \in Detached,
           servers[s].pc \in Unpublished \cup {"published"}
    PROVE  \A l \in Launchers : launcher[l].pc \in {"waiting", "terminate"} /\ launcher[l].child = s
  BY DEF OneCommand, FilesFollow

LEMMA FilesServer ==
    ASSUME OneCommand, CommandInv, FilesFollow, NEW s \in Detached, ServerStep(s) \/ Crash(s)
    PROVE  FilesFollow'
  <1>1. ServerTypeOK /\ FileIsOwned /\ \A l \in Launchers : CommandKnows(l)
    BY DEF CommandInv
  <1>2. CASE \/ Bind(s) \/ InstallHandlers(s) \/ RequestShutdown(s) \/ IdleExpire(s) \/ CloseServer(s)
             \/ ReadOwnState(s) \/ Crash(s)
             \/ (CreateState(s) /\ record # Absent) \/ (PrintPort(s) /\ ~Listened(s))
    <2>1. record.whole /\ record.owner = s => record = [owner |-> s, whole |-> TRUE]
      BY <1>1 DEF ServerTypeOK
    <2>2. PICK pc \in {"bound", "dead", "serving", "stopping", "closing", "unlinking"} :
             /\ Advance(s, pc) /\ record' = record /\ launcher' = launcher
             /\ pc = "bound" => servers[s].pc = "starting"
             /\ pc \in {"serving", "stopping"} => servers[s].pc \in {"printed", "serving"}
             /\ pc = "unlinking" => record.whole /\ record.owner = s
             /\ servers[s].pc = "dead" => pc = "dead"
      BY <1>2 DEF Bind, InstallHandlers, RequestShutdown, IdleExpire, CloseServer, ReadOwnState,
                  Crash, CreateState, PrintPort, Alive
    <2>3. pc \in Published => record = [owner |-> s, whole |-> TRUE]
      BY <2>1, <2>2 DEF Published, FilesFollow
    <2>4. pc # "created" /\ (servers[s].pc = "dead" => pc = "dead")
      BY <2>2
    <2>5. pc \in Unpublished \cup {"unused", "published"} =>
              servers[s].pc \in Unpublished \cup {"published"} /\ pc # "unused"
      BY <2>2 DEF Unpublished
    <2> QED
      BY <2>2, <2>3, <2>4, <2>5, FilesAdvance
  <1>3. CASE CreateState(s) /\ record = Absent
    <2>1. /\ servers[s].pc = "bound" /\ Advance(s, "created") /\ launcher' = launcher
          /\ record' = [owner |-> s, whole |-> FALSE]
      BY <1>3 DEF CreateState
    <2>2. \A t \in Detached : /\ servers'[t].pc = IF t = s THEN "created" ELSE servers[t].pc
                              /\ servers'[t].printed = servers[t].printed
      BY <1>1, <2>1, Advanced
    <2>3. \A l \in Launchers : launcher[l].pc \in {"waiting", "terminate"} /\ launcher[l].child = s
      BY <2>1, StartingAlone DEF Unpublished
    <2>4. \A t \in Detached : servers[t].pc \notin Published \cup {"created"}
      BY <1>3, ServerAssumption DEF FilesFollow, Absent
    <2>5. \E l \in Launchers : launcher[l].pc \in {"waiting", "terminate"} /\ launcher[l].child = s
      BY <2>1 DEF FilesFollow, Unpublished
    <2>6. ASSUME NEW t \in Detached
          PROVE  /\ servers'[t].pc \in Unpublished \cup {"published"} =>
                       \E l \in Launchers : launcher'[l].pc \in {"waiting", "terminate"}
                                            /\ launcher'[l].child = t
                 /\ servers'[t].pc = "created" => record' = [owner |-> t, whole |-> FALSE]
                 /\ servers'[t].pc \in Published => record' = [owner |-> t, whole |-> TRUE]
                 /\ servers'[t].printed => servers'[t].pc \notin Unpublished \cup {"unused", "published"}
      <3>1. CASE t = s
        BY <2>1, <2>2, <2>5, <3>1 DEF FilesFollow, Unpublished, Published
      <3>2. CASE t # s
        BY <2>1, <2>2, <2>4, <3>2 DEF FilesFollow
      <3> QED
        BY <3>1, <3>2
    <2> QED
      BY <2>1, <2>3, <2>6, ServerAssumption DEF FilesFollow
  <1>4. CASE WriteState(s)
    <2>1. /\ servers[s].pc = "created" /\ Advance(s, "published") /\ launcher' = launcher
          /\ record = [owner |-> s, whole |-> FALSE]
          /\ record' = [owner |-> s, whole |-> TRUE]
      <3>1. servers[s].pc = "created" /\ Advance(s, "published") /\ launcher' = launcher
            /\ record' = [record EXCEPT !.whole = record.whole \/ record.owner = s]
        BY <1>4 DEF WriteState
      <3>2. record = [owner |-> s, whole |-> FALSE]
        BY <3>1 DEF FilesFollow
      <3>3. record' = [owner |-> s, whole |-> TRUE]
        BY <3>1, <3>2
      <3> QED
        BY <3>1, <3>2, <3>3
    <2>2. \A t \in Detached : /\ servers'[t].pc = IF t = s THEN "published" ELSE servers[t].pc
                              /\ servers'[t].printed = servers[t].printed
      BY <1>1, <2>1, Advanced
    <2>3. \A l \in Launchers : launcher[l].pc \in {"waiting", "terminate"} /\ launcher[l].child = s
      BY <2>1, StartingAlone DEF Unpublished
    <2>4. \A t \in Detached : t # s => servers[t].pc \notin Published \cup {"created"}
      BY <2>1 DEF FilesFollow
    <2>5. \E l \in Launchers : launcher[l].pc \in {"waiting", "terminate"} /\ launcher[l].child = s
      BY <2>1 DEF FilesFollow, Unpublished
    <2>6. ASSUME NEW t \in Detached
          PROVE  /\ servers'[t].pc \in Unpublished \cup {"published"} =>
                       \E l \in Launchers : launcher'[l].pc \in {"waiting", "terminate"}
                                            /\ launcher'[l].child = t
                 /\ servers'[t].pc = "created" => record' = [owner |-> t, whole |-> FALSE]
                 /\ servers'[t].pc \in Published => record' = [owner |-> t, whole |-> TRUE]
                 /\ servers'[t].printed => servers'[t].pc \notin Unpublished \cup {"unused", "published"}
      <3>1. CASE t = s
        BY <2>1, <2>2, <2>5, <3>1 DEF FilesFollow, Unpublished
      <3>2. CASE t # s
        BY <2>1, <2>2, <2>4, <3>2 DEF FilesFollow
      <3> QED
        BY <3>1, <3>2
    <2> QED
      BY <2>1, <2>3, <2>6, ServerAssumption DEF FilesFollow
  <1>5. CASE PrintPort(s) /\ Listened(s)
    <2>1. /\ servers[s].pc = "published" /\ launcher' = launcher /\ record' = record
          /\ servers' = [servers EXCEPT ![s] = [servers[s] EXCEPT !.pc = "printed", !.printed = TRUE]]
      BY <1>5 DEF PrintPort
    <2>2. servers'[s].pc = "printed" /\ \A t \in Detached : t # s => servers'[t] = servers[t]
      BY <1>1, <2>1, Printed
    <2>3. \A l \in Launchers : launcher[l].pc \in {"waiting", "terminate"} /\ launcher[l].child = s
      BY <2>1, StartingAlone
    <2>4. ASSUME NEW t \in Detached
          PROVE  /\ servers'[t].pc \in Unpublished \cup {"published"} =>
                       \E l \in Launchers : launcher'[l].pc \in {"waiting", "terminate"}
                                            /\ launcher'[l].child = t
                 /\ servers'[t].pc = "created" => record' = [owner |-> t, whole |-> FALSE]
                 /\ servers'[t].pc \in Published => record' = [owner |-> t, whole |-> TRUE]
                 /\ servers'[t].printed => servers'[t].pc \notin Unpublished \cup {"unused", "published"}
      <3>1. CASE t = s
        BY <2>1, <2>2, <3>1 DEF FilesFollow, Unpublished, Published
      <3>2. CASE t # s
        BY <2>1, <2>2, <3>2 DEF FilesFollow
      <3> QED
        BY <3>1, <3>2
    <2> QED
      BY <2>1, <2>3, <2>4 DEF FilesFollow
  <1>6. CASE UnlinkOwnState(s)
    <2>1. /\ servers[s].pc = "unlinking" /\ Advance(s, "dead") /\ launcher' = launcher
          /\ record = [owner |-> s, whole |-> TRUE] /\ record' = Absent
      BY <1>6 DEF UnlinkOwnState, FilesFollow, Published
    <2>2. \A t \in Detached : /\ servers'[t].pc = IF t = s THEN "dead" ELSE servers[t].pc
                              /\ servers'[t].printed = servers[t].printed
      BY <1>1, <2>1, Advanced
    <2>3. \A t \in Detached : t # s => servers[t].pc \notin Published \cup {"created"}
      BY <2>1 DEF FilesFollow
    <2>4. ASSUME NEW t \in Detached
          PROVE  /\ servers'[t].pc \in Unpublished \cup {"published"} =>
                       \E l \in Launchers : launcher'[l].pc \in {"waiting", "terminate"}
                                            /\ launcher'[l].child = t
                 /\ servers'[t].pc = "created" => record' = [owner |-> t, whole |-> FALSE]
                 /\ servers'[t].pc \in Published => record' = [owner |-> t, whole |-> TRUE]
                 /\ servers'[t].printed => servers'[t].pc \notin Unpublished \cup {"unused", "published"}
      <3>1. CASE t = s
        BY <2>2, <3>1 DEF Unpublished, Published
      <3>2. CASE t # s
        <4>1. servers'[t].pc = servers[t].pc /\ servers'[t].printed = servers[t].printed
              /\ servers[t].pc \notin Published \cup {"created"} /\ launcher' = launcher
          BY <2>1, <2>2, <2>3, <3>2
        <4> QED
          BY <4>1 DEF FilesFollow
      <3> QED
        BY <3>1, <3>2
    <2>5. \A l \in Launchers : launcher[l].pc = "reread" => servers'[launcher[l].seen].pc = "dead"
      BY <1>1, <2>1, <2>2 DEF FilesFollow, CommandKnows
    <2> QED
      BY <2>1, <2>4, <2>5 DEF FilesFollow
  <1> QED
    BY <1>2, <1>3, <1>4, <1>5, <1>6 DEF ServerStep

\* A command moves on, and perhaps removes a file that no server needs.
LEMMA FilesCommand ==
    ASSUME OneCommand, CommandInv, FilesFollow, NEW l \in Launchers, servers' = servers,
           \/ record' = record
           \/ record' = Absent /\ (record = Absent \/ servers[record.owner].pc = "dead"),
           (\E s \in Detached : servers[s].pc \in Unpublished \cup {"published"}) =>
               /\ launcher'[l].pc \in {"waiting", "terminate"}
               /\ launcher'[l].child = launcher[l].child,
           launcher'[l].pc = "verify" => record' = Absent \/ record'.owner = launcher'[l].seen,
           launcher'[l].pc = "reread" => servers[launcher'[l].seen].pc = "dead",
           launcher'[l].pc \in {"remove", "unlink"} =>
               record' = Absent \/ servers[record'.owner].pc = "dead"
    PROVE  FilesFollow'
  <1>1. ASSUME NEW t \in Detached
        PROVE  /\ servers'[t].pc \in Unpublished \cup {"published"} =>
                     \E m \in Launchers : launcher'[m].pc \in {"waiting", "terminate"}
                                          /\ launcher'[m].child = t
               /\ servers'[t].pc = "created" => record' = [owner |-> t, whole |-> FALSE]
               /\ servers'[t].pc \in Published => record' = [owner |-> t, whole |-> TRUE]
               /\ servers'[t].printed => servers'[t].pc \notin Unpublished \cup {"unused", "published"}
    <2>1. servers[t].pc \in Unpublished \cup {"published"} => launcher[l].child = t
      BY StartingAlone
    <2>2. CASE record' = record
      BY <2>1, <2>2 DEF FilesFollow
    <2>3. CASE record' = Absent /\ (record = Absent \/ servers[record.owner].pc = "dead")
      <3>1. servers[t].pc \notin Published \cup {"created"}
        BY <2>3, ServerAssumption DEF FilesFollow, Published, Absent
      <3> QED
        BY <2>1, <3>1 DEF FilesFollow
    <2> QED
      BY <2>2, <2>3
  <1>2. record'.owner = Nobody => record' = Absent
    BY DEF FilesFollow
  <1>3. \A m \in Launchers :
          /\ launcher'[m].pc = "verify" => record' = Absent \/ record'.owner = launcher'[m].seen
          /\ launcher'[m].pc = "reread" => servers'[launcher'[m].seen].pc = "dead"
          /\ launcher'[m].pc \in {"remove", "unlink"} =>
                record' = Absent \/ servers'[record'.owner].pc = "dead"
    BY DEF OneCommand
  <1> QED
    BY <1>1, <1>2, <1>3 DEF FilesFollow

LEMMA FilesLauncher ==
    ASSUME OneCommand, CommandInv, SignalsMark, FilesFollow, Undisturbed',
           NEW l \in Launchers, LauncherStep(l)
    PROVE  FilesFollow'
  <1>1. ServerTypeOK /\ FileIsOwned /\ CommandKnows(l)
    BY DEF CommandInv
  <1>2. launcher \in [Launchers -> CommandStates]
    BY <1>1 DEF ServerTypeOK, CommandStates
  <1>3. launcher[l].pc \notin {"waiting", "terminate"} =>
           ~\E s \in Detached : servers[s].pc \in Unpublished \cup {"published"}
    BY StartingAlone
  <1>4. ASSUME Done(l), servers' = servers,
               \/ record' = record
               \/ record' = Absent /\ (record = Absent \/ servers[record.owner].pc = "dead"),
               ~\E s \in Detached : servers[s].pc \in Unpublished \cup {"published"}
        PROVE  FilesFollow'
    <2>1. launcher'[l].pc = "idle"
      BY <1>2, <1>4 DEF Done, Idle
    <2> QED
      BY <1>4, <2>1, FilesCommand
  <1>5. ASSUME NEW pc \in {"kill", "spawn"}, Proceed(l, pc), servers' = servers,
               \/ record' = record
               \/ record' = Absent /\ (record = Absent \/ servers[record.owner].pc = "dead"),
               launcher[l].pc \notin {"waiting", "terminate"}
        PROVE  FilesFollow'
    <2>1. launcher'[l].pc = pc
      BY <1>5, Proceeded DEF LauncherStates
    <2> QED
      BY <1>3, <1>5, <2>1, FilesCommand
  <1>6. ASSUME NEW running \in BOOLEAN, Answered(l, running), servers' = servers,
               \/ record' = record
               \/ record' = Absent /\ (record = Absent \/ servers[record.owner].pc = "dead"),
               launcher[l].pc \notin {"waiting", "terminate"}
        PROVE  FilesFollow'
    BY <1>3, <1>4, <1>5, <1>6 DEF Answered
  <1>7. CASE StopReadState(l)
    <2>1. launcher[l].pc = "state" /\ record' = record /\ servers' = servers
      BY <1>7 DEF StopReadState
    <2>2. CASE Done(l)
      BY <1>3, <1>4, <2>1, <2>2
    <2>3. CASE launcher' = [launcher EXCEPT ![l] =
                 [launcher[l] EXCEPT !.pc = "status", !.held = record.owner]]
      <3>1. launcher'[l].pc = "status"
        BY <1>2, <2>3 DEF CommandStates
      <3> QED
        BY <1>3, <2>1, <3>1, FilesCommand
    <2> QED
      BY <1>7, <2>2, <2>3 DEF StopReadState
  <1>8. CASE ReadStatus(l)
    <2>1. launcher[l].pc = "status" /\ record' = record /\ servers' = servers
      BY <1>8 DEF ReadStatus
    <2>2. CASE Answered(l, FALSE)
      BY <1>6, <2>1, <2>2
    <2>3. CASE record # Absent /\ ~record.whole /\ Proceed(l, "remove")
      <3>1. launcher'[l].pc = "remove"
        BY <2>3, Proceeded DEF LauncherStates
      <3>2. record.owner \in Detached
        BY <1>1, <2>3 DEF FilesFollow, ServerTypeOK
      <3>3. servers[record.owner].pc # "created"
        BY <1>3, <2>1, <3>2 DEF Unpublished
      <3>4. servers[record.owner].pc = "dead"
        BY <1>1, <2>3, <3>2, <3>3 DEF FileIsOwned
      <3> QED
        BY <1>3, <2>1, <3>1, <3>4, FilesCommand
    <2>4. CASE launcher' = [launcher EXCEPT ![l] =
                 [launcher[l] EXCEPT !.pc = "verify", !.seen = record.owner]]
      <3>1. launcher'[l].pc = "verify" /\ launcher'[l].seen = record.owner
        BY <1>2, <2>4 DEF CommandStates
      <3> QED
        BY <1>3, <2>1, <3>1, FilesCommand
    <2> QED
      BY <1>8, <2>2, <2>3, <2>4 DEF ReadStatus
  <1>9. CASE VerifyAlive(l)
    <2>1. launcher[l].pc = "verify" /\ record' = record /\ servers' = servers
      BY <1>9 DEF VerifyAlive
    <2>2. CASE Answered(l, TRUE)
      BY <1>6, <2>1, <2>2
    <2>3. CASE ~Alive(launcher[l].seen) /\ Proceed(l, "remove")
      <3>1. launcher'[l].pc = "remove"
        BY <2>3, Proceeded DEF LauncherStates
      <3>2. record = Absent \/ record.owner = launcher[l].seen
        BY <2>1 DEF FilesFollow
      <3>3. record.owner = launcher[l].seen => servers[record.owner].pc = "dead"
        BY <1>1, <2>1, <2>3 DEF Alive, CommandKnows, FileIsOwned
      <3> QED
        BY <1>3, <2>1, <3>1, <3>2, <3>3, FilesCommand
    <2> QED
      BY <1>9, <2>2, <2>3 DEF VerifyAlive
  <1>10. CASE RemoveState(l)
    <2>1. /\ launcher[l].pc = "remove" /\ record' = Absent /\ servers' = servers
          /\ Answered(l, FALSE)
      BY <1>10 DEF RemoveState
    <2>2. record = Absent \/ servers[record.owner].pc = "dead"
      BY <2>1 DEF FilesFollow
    <2> QED
      BY <1>6, <2>1, <2>2
  <1>11. ASSUME NEW s \in Detached, Spawn(l, s) PROVE FilesFollow'
    <2>1. /\ launcher[l].pc = "spawn" /\ servers[s].pc = "unused" /\ Advance(s, "starting")
          /\ launcher' = [launcher EXCEPT ![l] =
                [launcher[l] EXCEPT !.pc = "waiting", !.child = s]]
          /\ record' = record
      BY <1>11 DEF Spawn
    <2>2. launcher'[l].pc = "waiting" /\ launcher'[l].child = s
      BY <1>2, <2>1 DEF CommandStates
    <2>3. \A t \in Detached : /\ servers'[t].pc = IF t = s THEN "starting" ELSE servers[t].pc
                              /\ servers'[t].printed = servers[t].printed
      BY <1>1, <2>1, Advanced
    <2>4. ASSUME NEW t \in Detached
          PROVE  /\ servers'[t].pc \in Unpublished \cup {"published"} =>
                       \E m \in Launchers : launcher'[m].pc \in {"waiting", "terminate"}
                                            /\ launcher'[m].child = t
                 /\ servers'[t].pc = "created" => record' = [owner |-> t, whole |-> FALSE]
                 /\ servers'[t].pc \in Published => record' = [owner |-> t, whole |-> TRUE]
                 /\ servers'[t].printed => servers'[t].pc \notin Unpublished \cup {"unused", "published"}
      <3>1. CASE t = s
        BY <2>1, <2>2, <2>3, <3>1 DEF FilesFollow, Published
      <3>2. CASE t # s
        BY <1>3, <2>1, <2>3, <3>2 DEF FilesFollow
      <3> QED
        BY <3>1, <3>2
    <2>5. \A m \in Launchers : launcher'[m].pc = "waiting"
      BY <2>2 DEF OneCommand
    <2>6. record'.owner = Nobody => record' = Absent
      BY <2>1 DEF FilesFollow
    <2> QED
      BY <2>4, <2>5, <2>6 DEF FilesFollow
  <1>12. CASE PortRead(l)
    <2>1. /\ launcher[l].pc = "waiting" /\ record' = record /\ servers' = servers
          /\ servers[launcher[l].child].printed /\ launcher[l].child \in Detached
          /\ Done(l) \/ Proceed(l, "probing")
      BY <1>1, <1>12 DEF PortRead, CommandKnows, Launching
    <2>2. ~\E s \in Detached : servers[s].pc \in Unpublished \cup {"published"}
      BY <2>1, StartingAlone DEF FilesFollow
    <2>3. CASE Done(l)
      BY <1>4, <2>1, <2>2, <2>3
    <2>4. CASE Proceed(l, "probing")
      <3>1. launcher'[l].pc = "probing"
        BY <2>4, Proceeded DEF LauncherStates
      <3> QED
        BY <2>1, <2>2, <3>1, FilesCommand
    <2> QED
      BY <2>1, <2>3, <2>4
  <1>13. CASE PortMissing(l) \/ Probe(l)
    <2>1. /\ record' = record /\ servers' = servers
          /\ Proceed(l, "terminate") \/ (launcher[l].pc = "probing" /\ Done(l))
      BY <1>13 DEF PortMissing, Probe
    <2>2. CASE launcher[l].pc = "probing" /\ Done(l)
      BY <1>3, <1>4, <2>1, <2>2
    <2>3. CASE Proceed(l, "terminate")
      <3>1. launcher'[l].pc = "terminate" /\ launcher'[l].child = launcher[l].child
        BY <2>3, Proceeded DEF LauncherStates
      <3> QED
        BY <2>1, <3>1, FilesCommand
    <2> QED
      BY <2>1, <2>2, <2>3
  <1>14. CASE StopReread(l)
    <2>1. launcher[l].pc = "reread" /\ record' = record /\ servers' = servers
      BY <1>14 DEF StopReread
    <2>2. CASE Done(l)
      BY <1>3, <1>4, <2>1, <2>2
    <2>3. CASE record.owner = launcher[l].seen /\ Proceed(l, "unlink")
      <3>1. launcher'[l].pc = "unlink"
        BY <2>3, Proceeded DEF LauncherStates
      <3>2. servers[record.owner].pc = "dead"
        BY <2>1, <2>3 DEF FilesFollow
      <3> QED
        BY <1>3, <2>1, <3>1, <3>2, FilesCommand
    <2> QED
      BY <1>14, <2>2, <2>3 DEF StopReread
  <1>15. CASE StopUnlink(l)
    <2>1. launcher[l].pc = "unlink" /\ record' = Absent /\ servers' = servers /\ Done(l)
      BY <1>15 DEF StopUnlink
    <2>2. record = Absent \/ servers[record.owner].pc = "dead"
      BY <2>1 DEF FilesFollow
    <2> QED
      BY <1>3, <1>4, <2>1, <2>2
  <1>16. ASSUME NEW s \in Detached, Signal(s), record' = record,
                \A t \in Detached : servers[t].pc \in Unpublished \cup {"published"} => t = s,
                \/ Done(l)
                \/ Proceed(l, "reread") /\ launcher[l].seen = s
         PROVE  FilesFollow'
    <2>1. servers[s].pc \in Unhandled
      BY <1>1, <1>16, Signalled DEF Undisturbed
    <2>2. /\ servers'[s].pc = "dead"
          /\ \A t \in Detached : t # s => servers'[t] = servers[t]
      BY <1>1, <1>16, <2>1, Signalled
    <2>3. ASSUME NEW t \in Detached
          PROVE  /\ servers'[t].pc \notin Unpublished \cup {"published"}
                 /\ servers'[t].pc \in Published => record' = [owner |-> t, whole |-> TRUE]
      <3>1. CASE t = s
        BY <2>2, <3>1 DEF Unpublished, Published
      <3>2. CASE t # s
        BY <1>16, <2>2, <3>2 DEF FilesFollow
      <3> QED
        BY <3>1, <3>2
    <2>4. ASSUME NEW t \in Detached, servers'[t].printed PROVE servers'[t].pc # "unused"
      <3>1. CASE t = s
        BY <2>2, <3>1
      <3>2. CASE t # s
        BY <2>2, <2>4, <3>2 DEF FilesFollow
      <3> QED
        BY <3>1, <3>2
    <2>5. \A m \in Launchers :
            \/ launcher'[m].pc = "idle"
            \/ launcher'[m].pc = "reread" /\ launcher'[m].seen = s
      <3>1. CASE Done(l)
        BY <1>2, <3>1 DEF Done, Idle, OneCommand
      <3>2. CASE Proceed(l, "reread") /\ launcher[l].seen = s
        <4>1. launcher'[l].pc = "reread" /\ launcher'[l].seen = s
          BY <3>2, Proceeded DEF LauncherStates
        <4> QED
          BY <4>1 DEF OneCommand
      <3> QED
        BY <1>16, <3>1, <3>2
    <2>6. record'.owner = Nobody => record' = Absent
      BY <1>16 DEF FilesFollow
    <2> QED
      BY <2>2, <2>3, <2>4, <2>5, <2>6 DEF FilesFollow, Unpublished
  <1>17. CASE Terminate(l)
    <2>1. /\ launcher[l].pc = "terminate" /\ Signal(launcher[l].child) /\ Done(l)
          /\ record' = record /\ launcher[l].child \in Detached
      BY <1>1, <1>17 DEF Terminate, CommandKnows, Launching
    <2>2. \A t \in Detached :
             servers[t].pc \in Unpublished \cup {"published"} => t = launcher[l].child
      BY StartingAlone
    <2> QED
      BY <1>16, <2>1, <2>2
  <1>18. CASE Kill(l)
    <2>1. /\ launcher[l].pc = "kill" /\ record' = record /\ launcher[l].seen \in Detached
          /\ \/ Signal(launcher[l].seen) /\ Proceed(l, "reread")
             \/ Done(l) /\ servers' = servers
      BY <1>1, <1>18 DEF Kill, CommandKnows
    <2>2. CASE Done(l) /\ servers' = servers
      BY <1>3, <1>4, <2>1, <2>2
    <2>3. CASE Signal(launcher[l].seen) /\ Proceed(l, "reread")
      BY <1>3, <1>16, <2>1, <2>3
    <2> QED
      BY <2>1, <2>2, <2>3
  <1> QED
    BY <1>7, <1>8, <1>9, <1>10, <1>11, <1>12, <1>13, <1>14, <1>15, <1>17, <1>18 DEF LauncherStep

LEMMA InitFind == ServerInit => FindInv
  <1> SUFFICES ASSUME ServerInit PROVE SignalsMark /\ FilesFollow
    BY InitCommand DEF FindInv
  <1>1. /\ record = Absent
        /\ \A s \in Detached : /\ servers[s].pc = "unused" /\ ~servers[s].term
                               /\ ~servers[s].printed
        /\ \A l \in Launchers : /\ launcher[l].pc = "idle" /\ launcher[l].seen = Nobody
                                /\ launcher[l].child = Nobody
    BY DEF ServerInit, Idle
  <1>2. SignalsMark
    BY <1>1, ServerAssumption DEF SignalsMark
  <1>3. FilesFollow
    BY <1>1, ServerAssumption DEF FilesFollow, Unpublished, Published, Absent
  <1> QED
    BY <1>2, <1>3

LEMMA FindInductive ==
    ASSUME OneCommand
    PROVE  FindInv /\ [ServerNext]_serverVars => FindInv'
  <1> SUFFICES ASSUME FindInv, [ServerNext]_serverVars PROVE FindInv'
    OBVIOUS
  <1>1. CommandInv /\ SignalsMark /\ CommandInv'
    BY CommandInductive DEF FindInv
  <1>2. SignalsMark'
    BY <1>1, SignalsInductive
  <1>3. CASE UNCHANGED serverVars
    <2>1. Undisturbed' => Undisturbed
      BY <1>3 DEF serverVars, Undisturbed
    <2>2. FilesFollow => FilesFollow'
      BY <1>3 DEF serverVars, FilesFollow
    <2> QED
      BY <1>1, <1>2, <2>1, <2>2 DEF FindInv
  <1>4. CASE ServerNext
    <2>1. SUFFICES ASSUME Undisturbed' PROVE FilesFollow'
      BY <1>1, <1>2 DEF FindInv
    <2>2. Undisturbed /\ FilesFollow
      BY <1>1, <1>4, <2>1, StaysDisturbed DEF FindInv
    <2>3. ASSUME NEW l \in Launchers, Interrupt(l) PROVE FALSE
      <3>1. interrupts = 0 /\ interrupts' = interrupts + 1
        BY <2>2, <2>3 DEF Interrupt, Undisturbed
      <3> QED
        BY <2>1, <3>1 DEF Undisturbed
    <2>4. ASSUME NEW l \in Launchers, NEW cmd \in Commands, Begin(l, cmd) PROVE FilesFollow'
      <3>1. launcher[l].pc = "idle" /\ record' = record /\ servers' = servers
        BY <2>4 DEF Begin
      <3>2. launcher'[l].pc \in {"state", "status"}
        BY <1>1, <2>4 DEF Begin, Idle, CommandInv, ServerTypeOK
      <3>3. ~\E s \in Detached : servers[s].pc \in Unpublished \cup {"published"}
        BY <2>2, <3>1, StartingAlone
      <3> QED
        BY <1>1, <2>2, <3>1, <3>2, <3>3, FilesCommand
    <2> QED
      BY <1>1, <1>4, <2>1, <2>2, <2>3, <2>4, FilesServer, FilesLauncher DEF ServerNext
  <1> QED
    BY <1>3, <1>4

\* When one command runs after another, a server whose URL is out has its own,
\* complete state file in place, unless a command was interrupted or a server
\* asked to end: whatever the order of the steps of the command, of the servers
\* and of crashes.  A command that starts a server does not look at the file
\* while it waits (StartingAlone), so the file a new server creates is not the
\* one an earlier step of the command is about to remove.
THEOREM ServingIsFindableHolds ==
    ASSUME OneCommand PROVE ServerSpec => []ServingIsFindable
  <1>1. FindInv => ServingIsFindable
    <2> SUFFICES ASSUME FindInv, Undisturbed, NEW s \in Detached, InService(s)
                 PROVE  record = [owner |-> s, whole |-> TRUE]
      BY DEF ServingIsFindable, Undisturbed
    <2> QED
      BY DEF FindInv, FilesFollow, InService, Published
  <1> QED
    BY <1>1, InitFind, FindInductive, PTL DEF ServerSpec
================================================================================
