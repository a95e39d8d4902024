---------------------------- MODULE HumanDecision ----------------------------
(***************************************************************************)
(* The human decisions of one finalized run: what the review server does   *)
(* with a POST of a decision (review_packet/local_server.py), the offline  *)
(* import of a decision envelope (command_dispatch.py), the append-only    *)
(* records both write and the status both read                             *)
(* (review_packet/decision_record.py).                                     *)
(*                                                                         *)
(* Every request has a thread of its own, servers and imports are separate *)
(* processes, and all of them share one directory in which a record is     *)
(* created exclusively under a name made of its time and its reviewer, and *)
(* then written.                                                           *)
(***************************************************************************)
EXTENDS Naturals, FiniteSets

CONSTANTS
    Servers,      \* review server processes, each started at most once
    NoServer,     \* the origin of an imported decision
    Writers,      \* request threads and import processes, each used once
    Packets,      \* packet contents (their SHA-256)
    NoPacket,     \* a run that could not be verified when the server started
    Reviewers,    \* reviewer identifiers
    SafeName,     \* the file-name form of each identifier, a number in name order
    Verdicts,     \* the allowed decisions, with their notes
    ImportTimes,  \* the reviewed_at values of the envelopes that may be imported
    MaxClock,     \* bound on the wall clock
    Skew          \* MAX_FUTURE_DECISION_SKEW

ASSUME DecisionAssumption ==
    /\ NoServer \notin Servers
    /\ NoPacket \notin Packets
    /\ SafeName \in [Reviewers -> Nat]
    /\ MaxClock \in Nat
    /\ Skew \in Nat
    /\ ImportTimes \subseteq 0 .. MaxClock

VARIABLES
    packet,    \* the bytes of final-review-packet.json now
    verified,  \* manifest, snapshot and evidence database agree with them now
    server,    \* [pc, shown]: the packet the pages of a server were built from
    writer,    \* one decision on its way to disk, for each writer
    file,      \* human-decisions/: what is under each name
    clock,     \* the wall clock, which may be set back
    peak       \* the highest it has ever been

vars == <<packet, verified, server, writer, file, clock, peak>>
authority == <<packet, verified>>
time == <<clock, peak>>

Times == 0 .. MaxClock
Names == Times \X {SafeName[r] : r \in Reviewers}

\* A file that does not exist, one that was created and not written, a record.
NoFile == [state |-> "none"]
Torn == [state |-> "torn"]
Record(r, p, v) == [state |-> "whole", reviewer |-> r, packet |-> p, verdict |-> v]
Records == {Record(r, p, v) : r \in Reviewers, p \in Packets, v \in Verdicts}

\* write_human_decision: f"{file_time}-{safe_reviewer}.json" and its content.
FileName(h) == <<writer[h].time, SafeName[writer[h].reviewer]>>
Content(h) == Record(writer[h].reviewer, writer[h].packet, writer[h].verdict)

Init ==
    /\ packet \in Packets
    /\ verified = TRUE
    /\ server = [s \in Servers |-> [pc |-> "unused", shown |-> NoPacket]]
    /\ writer \in [Writers -> {[pc |-> "idle", origin |-> NoServer, reviewer |-> r,
                                packet |-> p, verdict |-> v, time |-> 0] :
                                   r \in Reviewers, p \in Packets, v \in Verdicts}]
    /\ file = [n \in Names |-> NoFile]
    /\ clock = 0 /\ peak = 0

Goto(h, pc) == writer' = [writer EXCEPT ![h] = [@ EXCEPT !.pc = pc]]

-----------------------------------------------------------------------------
(* The readers.                                                            *)

\* _read_decision_record ignores what does not decode, and other packets' records.
ValidFor(n, p) == file[n].state = "whole" /\ file[n].packet = p

Counted(p, cutoff) == {n \in Names : ValidFor(n, p) /\ n[1] <= cutoff}

\* _eligible_for_latest: reviewed_at <= now + MAX_FUTURE_DECISION_SKEW.
\* Mutation: no allowance for a clock that was set back.
MutLiveCutoff == clock
LiveCutoff == clock + Skew

\* human_decision_binding_status; the display status is REVIEW_COMPLETED when VALID.
BindingStatus(p) ==
    IF Counted(p, LiveCutoff) # {} THEN "VALID"
    ELSE IF \E q \in Packets : Counted(q, LiveCutoff) # {} THEN "STALE"
    ELSE "MISSING"

-----------------------------------------------------------------------------
(* A review server.                                                        *)

\* create_review_server: the run's binding is verified, projected and verified
\* again; a run that fails any of it gets no presentation.
StartServer(s) ==
    /\ server[s].pc = "unused"
    /\ \/ verified /\ server' = [server EXCEPT ![s] = [pc |-> "serving", shown |-> packet]]
       \/ server' = [server EXCEPT ![s] = [pc |-> "serving", shown |-> NoPacket]]
    /\ UNCHANGED <<authority, writer, file, time>>

\* current_presentation: the startup binding, only while it is still exact.
CurrentPresentation(s) == verified /\ server[s].shown = packet

\* do_POST up to the first _current_presentation: 404 or 409 otherwise.
PostArrives(h, s) ==
    /\ writer[h].pc = "idle"
    /\ server[s].pc = "serving"
    /\ CurrentPresentation(s)
    /\ writer' = [writer EXCEPT ![h] = [@ EXCEPT !.pc = "body", !.origin = s]]
    /\ UNCHANGED <<authority, server, file, time>>

\* The body has been read and decoded.  "Reading the request body may block.
\* Recheck authority immediately before appending a decision."
PostRecheck(h) ==
    /\ writer[h].pc = "body"
    /\ \/ /\ CurrentPresentation(writer[h].origin)
          /\ writer' = [writer EXCEPT ![h] =
                 [@ EXCEPT !.pc = "stamp", !.packet = server[writer[h].origin].shown]]
       \/ Goto(h, "refused")  \* STALE_PACKET, INCOMPLETE_BODY or INVALID_DECISION
    /\ UNCHANGED <<authority, server, file, time>>

\* build_server_human_decision_envelope takes the server's time.
PostStamp(h) ==
    /\ writer[h].pc = "stamp"
    /\ writer' = [writer EXCEPT ![h] = [@ EXCEPT !.pc = "create", !.time = clock]]
    /\ UNCHANGED <<authority, server, file, time>>

\* The process ends; its request threads are daemons and end where they are.
ServerExit(s) ==
    /\ server[s].pc = "serving"
    /\ server' = [server EXCEPT ![s] = [pc |-> "dead", shown |-> server[s].shown]]
    /\ writer' = [h \in Writers |->
           IF writer[h].origin = s /\ writer[h].pc \in {"body", "stamp", "create", "fill"}
             THEN [writer[h] EXCEPT !.pc = "lost"] ELSE writer[h]]
    /\ UNCHANGED <<authority, file, time>>

-----------------------------------------------------------------------------
(* The import of an envelope, and the write shared by both paths.          *)

\* _review_import_decision: the envelope must name the packet on disk; its
\* reviewed_at is its own, and neither evidence nor manifest is looked at.
ImportEnvelope(h, t) ==
    /\ writer[h].pc = "idle"
    /\ writer[h].packet = packet
    /\ writer' = [writer EXCEPT ![h] = [@ EXCEPT !.pc = "create", !.time = t]]
    /\ UNCHANGED <<authority, server, file, time>>

ImportKilled(h) ==
    /\ writer[h].pc \in {"create", "fill"}
    /\ writer[h].origin = NoServer
    /\ Goto(h, "lost")
    /\ UNCHANGED <<authority, server, file, time>>

\* output.open("xb").
\* Mutation: the file is opened for writing whether or not it exists.
MutCreateRecord(h) ==
    /\ writer[h].pc = "create"
    /\ file' = [file EXCEPT ![FileName(h)] = Torn] /\ Goto(h, "fill")
    /\ UNCHANGED <<authority, server, time>>
CreateRecord(h) ==
    /\ writer[h].pc = "create"
    /\ IF file[FileName(h)] = NoFile
         THEN file' = [file EXCEPT ![FileName(h)] = Torn] /\ Goto(h, "fill")
         ELSE Goto(h, "refused") /\ UNCHANGED file  \* DECISION_ALREADY_EXISTS
    /\ UNCHANGED <<authority, server, time>>

\* stream.write: the answer is RECORDED, or INTERNAL_ERROR with the file torn.
WriteRecord(h) ==
    /\ writer[h].pc = "fill"
    /\ \/ file' = [file EXCEPT ![FileName(h)] = Content(h)] /\ Goto(h, "recorded")
       \/ Goto(h, "refused") /\ UNCHANGED file
    /\ UNCHANGED <<authority, server, time>>

-----------------------------------------------------------------------------
(* The environment: the run directory or the evidence database is replaced *)
(* or restored, and the wall clock runs, or is set back by at most Skew.   *)

ChangeAuthority ==
    /\ packet' \in Packets
    /\ verified' \in BOOLEAN
    /\ UNCHANGED <<server, writer, file, time>>

Tick ==
    /\ clock < MaxClock
    /\ clock' = clock + 1
    /\ peak' = IF clock + 1 > peak THEN clock + 1 ELSE peak
    /\ UNCHANGED <<authority, server, writer, file>>

SetClockBack ==
    /\ clock > 0
    /\ peak < clock + Skew
    /\ clock' = clock - 1
    /\ UNCHANGED <<authority, server, writer, file, peak>>

WriterStep(h) ==
    \/ \E s \in Servers : PostArrives(h, s)
    \/ PostRecheck(h) \/ PostStamp(h)
    \/ \E t \in ImportTimes : ImportEnvelope(h, t)
    \/ ImportKilled(h) \/ CreateRecord(h) \/ WriteRecord(h)

Next ==
    \/ \E s \in Servers : StartServer(s) \/ ServerExit(s)
    \/ \E h \in Writers : WriterStep(h)
    \/ ChangeAuthority \/ Tick \/ SetClockBack

Spec == Init /\ [][Next]_vars

-----------------------------------------------------------------------------
(* Properties.                                                             *)

WriterStates == {"idle", "body", "stamp", "create", "fill", "recorded", "refused", "lost"}

\* Files, writers, servers and the clock are of their types.
TypeOK ==
    /\ packet \in Packets
    /\ verified \in BOOLEAN
    /\ server \in [Servers -> [pc : {"unused", "serving", "dead"},
                               shown : Packets \cup {NoPacket}]]
    /\ writer \in [Writers -> [pc : WriterStates, origin : Servers \cup {NoServer},
                               reviewer : Reviewers, packet : Packets,
                               verdict : Verdicts, time : Times]]
    /\ file \in [Names -> {NoFile, Torn} \cup Records]
    /\ clock \in Times
    /\ peak \in Times

\* do_POST answers RECORDED, and import-decision reports it, only for a decision
\* that is on disk as it was given; nothing written later, under the same second
\* and a reviewer with the same file name, replaces or tears it.
AnsweredIntact ==
    \A h \in Writers : writer[h].pc = "recorded" => file[FileName(h)] = Content(h)

\* A decision the server answered RECORDED completes the review of its packet from
\* then on (BindingStatus VALID), also on a machine whose clock is set back by up to
\* MAX_FUTURE_DECISION_SKEW; and for any other packet the run may come to hold the
\* status is at least STALE, never MISSING.
AnsweredIsCounted ==
    \A h \in Writers :
        (writer[h].pc = "recorded" /\ writer[h].origin # NoServer) =>
            /\ BindingStatus(writer[h].packet) = "VALID"
            /\ \A p \in Packets : BindingStatus(p) # "MISSING"
=============================================================================
