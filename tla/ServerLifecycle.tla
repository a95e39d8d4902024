--------------------------- MODULE ServerLifecycle ---------------------------
(***************************************************************************)
(* The detached review server of one run: the commands that start, query   *)
(* and stop it (review_packet/browser_launcher.py) and the server process  *)
(* itself (review_packet/server_process.py).                               *)
(*                                                                         *)
(* They coordinate through one file, .review-runtime/<run>/                *)
(* review-server.json, that names the process (pid) and its token.  Nobody *)
(* holds a lock: the file is created exclusively, read, and unlinked by    *)
(* name, so what is unlinked may not be what was read.  A server is used   *)
(* once and stands for its pid and token together: the command line of a   *)
(* process is checked against both, so that a reused pid is not mistaken   *)
(* for a server (_matches_server_process).                                 *)
(***************************************************************************)
EXTENDS Naturals, FiniteSets

CONSTANTS
    Launchers,   \* command-line processes; each runs one command after another
    Detached,    \* server processes (pid and token), each started at most once
    Nobody,      \* "no process"
    Commands,    \* which of "serve", "open", "status", "stop" the launchers run
    MaxCrashes,  \* bound on the server processes killed from outside
    MaxInterrupts \* bound on the commands interrupted before their end

ASSUME ServerAssumption ==
    /\ Nobody \notin Detached
    /\ Commands \subseteq {"serve", "open", "status", "stop"}
    /\ MaxCrashes \in Nat
    /\ MaxInterrupts \in Nat

VARIABLES
    record,    \* the state file: who created it, and whether it is written out
    servers,    \* where each server process is, a SIGTERM pending, port printed
    launcher,  \* where each launcher is, what it read, the child it started
    crashes, interrupts

serverVars == <<record, servers, launcher, crashes, interrupts>>
faults == <<crashes, interrupts>>

Absent == [owner |-> Nobody, whole |-> FALSE]

\* Before signal.signal(SIGTERM, ...) the default disposition ends the process
\* without running the `finally` clause.
Unhandled == {"starting", "bound", "created", "published", "printed"}
Alive(s) == servers[s].pc \notin {"unused", "dead"}

\* A server whose URL has been handed out and that nobody has asked to end.
InService(s) == servers[s].pc \in {"printed", "serving"} /\ ~servers[s].term

Idle == [pc |-> "idle", cmd |-> "none", held |-> Nobody, seen |-> Nobody,
         child |-> Nobody]

ServerInit ==
    /\ record = Absent
    /\ servers = [s \in Detached |-> [pc |-> "unused", term |-> FALSE, printed |-> FALSE]]
    /\ launcher = [l \in Launchers |-> Idle]
    /\ crashes = 0 /\ interrupts = 0

Proceed(l, pc) == launcher' = [launcher EXCEPT ![l] = [@ EXCEPT !.pc = pc]]
Done(l) == launcher' = [launcher EXCEPT ![l] = Idle]
Advance(s, pc) == servers' = [servers EXCEPT ![s] = [@ EXCEPT !.pc = pc]]

\* SIGTERM: the default disposition ends the process there and then; a handler
\* runs when the interpreter gets to it, and matters only while serving.
Signal(s) ==
    servers' = [servers EXCEPT ![s] =
        [pc |-> IF servers[s].pc \in Unhandled THEN "dead" ELSE servers[s].pc,
         term |-> servers[s].pc \notin Unhandled,
         printed |-> servers[s].printed]]

-----------------------------------------------------------------------------
(* The commands.                                                           *)

Begin(l, cmd) ==
    /\ launcher[l].pc = "idle"
    /\ launcher' = [launcher EXCEPT ![l] =
           [Idle EXCEPT !.pc = IF cmd = "stop" THEN "state" ELSE "status", !.cmd = cmd]]
    /\ UNCHANGED <<record, servers, faults>>

\* stop_review_server reads the state file before it asks for the status.
StopReadState(l) ==
    /\ launcher[l].pc = "state"
    /\ IF record.whole
         THEN launcher' = [launcher EXCEPT ![l] =
                  [@ EXCEPT !.pc = "status", !.held = record.owner]]
         ELSE Done(l)
    /\ UNCHANGED <<record, servers, faults>>

\* What a command does once review_server_status has answered.
Answered(l, running) ==
    CASE launcher[l].cmd = "stop" /\ running            -> Proceed(l, "kill")
      [] launcher[l].cmd \in {"serve", "open"} /\ ~running -> Proceed(l, "spawn")
      [] OTHER                                            -> Done(l)

ReadStatus(l) ==
    /\ launcher[l].pc = "status"
    /\ \/ record = Absent /\ Answered(l, FALSE)
       \/ record # Absent /\ ~record.whole /\ Proceed(l, "remove")
       \/ /\ record.whole
          /\ launcher' = [launcher EXCEPT ![l] =
                 [@ EXCEPT !.pc = "verify", !.seen = record.owner]]
    /\ UNCHANGED <<record, servers, faults>>

VerifyAlive(l) ==
    /\ launcher[l].pc = "verify"
    /\ IF Alive(launcher[l].seen) THEN Answered(l, TRUE) ELSE Proceed(l, "remove")
    /\ UNCHANGED <<record, servers, faults>>

\* path.unlink(missing_ok=True): whatever the file holds by now.
RemoveState(l) ==
    /\ launcher[l].pc = "remove"
    /\ record' = Absent
    /\ Answered(l, FALSE)
    /\ UNCHANGED <<servers, faults>>

Spawn(l, s) ==
    /\ launcher[l].pc = "spawn"
    /\ servers[s].pc = "unused"
    /\ Advance(s, "starting")
    /\ launcher' = [launcher EXCEPT ![l] = [@ EXCEPT !.pc = "waiting", !.child = s]]
    /\ UNCHANGED <<record, faults>>

\* The child printed its port: `serve` returns, `open` goes on to probe it.
PortRead(l) ==
    /\ launcher[l].pc = "waiting"
    /\ servers[launcher[l].child].printed
    /\ IF launcher[l].cmd = "open" THEN Proceed(l, "probing") ELSE Done(l)
    /\ UNCHANGED <<record, servers, faults>>

\* The pipe closed without a port, or _SERVER_START_TIMEOUT_SECONDS passed.
PortMissing(l) ==
    /\ launcher[l].pc = "waiting"
    /\ ~servers[launcher[l].child].printed
    /\ Proceed(l, "terminate")
    /\ UNCHANGED <<record, servers, faults>>

\* `open`: the page became ready and the browser took it, or the server is closed.
Probe(l) ==
    /\ launcher[l].pc = "probing"
    /\ Done(l) \/ Proceed(l, "terminate")
    /\ UNCHANGED <<record, servers, faults>>

\* Mutation: the child that did not answer in time is left alone.
MutTerminate(l) ==
    /\ launcher[l].pc = "terminate"
    /\ Done(l)
    /\ UNCHANGED <<record, servers, faults>>

\* process.terminate(); the wait that follows may time out, and nothing more is done.
Terminate(l) ==
    /\ launcher[l].pc = "terminate"
    /\ Signal(launcher[l].child)
    /\ Done(l)
    /\ UNCHANGED <<record, faults>>

Kill(l) ==
    /\ launcher[l].pc = "kill"
    /\ IF Alive(launcher[l].seen)
         THEN Signal(launcher[l].seen) /\ Proceed(l, "reread")
         ELSE Done(l) /\ UNCHANGED servers
    /\ UNCHANGED <<record, faults>>

\* The file is removed at once, whether or not the process has ended.
StopReread(l) ==
    /\ launcher[l].pc = "reread"
    /\ IF /\ record.whole
          /\ record.owner = launcher[l].seen
          /\ record.owner = launcher[l].held
         THEN Proceed(l, "unlink")
         ELSE Done(l)
    /\ UNCHANGED <<record, servers, faults>>

StopUnlink(l) ==
    /\ launcher[l].pc = "unlink"
    /\ record' = Absent
    /\ Done(l)
    /\ UNCHANGED <<servers, faults>>

-----------------------------------------------------------------------------
(* The server process.                                                     *)

\* create_review_server: the port is bound, or verification of the run raised.
Bind(s) ==
    /\ servers[s].pc = "starting"
    /\ Advance(s, "bound") \/ Advance(s, "dead")
    /\ UNCHANGED <<record, launcher, faults>>

\* state_path.open("x"): exclusive creation of an empty file.
CreateState(s) ==
    /\ servers[s].pc = "bound"
    /\ IF record = Absent
         THEN record' = [owner |-> s, whole |-> FALSE] /\ Advance(s, "created")
         ELSE Advance(s, "closing") /\ UNCHANGED record
    /\ UNCHANGED <<launcher, faults>>

\* The document goes into the file this process opened, even if the name has
\* been unlinked, or given to another file, since.
WriteState(s) ==
    /\ servers[s].pc = "created"
    /\ record' = [record EXCEPT !.whole = @ \/ record.owner = s]
    /\ Advance(s, "published")
    /\ UNCHANGED <<launcher, faults>>

\* print(port) fails when nobody holds the other end of the pipe any more.
Listened(s) == \E l \in Launchers : launcher[l].child = s

PrintPort(s) ==
    /\ servers[s].pc = "published"
    /\ IF Listened(s)
         THEN servers' = [servers EXCEPT ![s] = [@ EXCEPT !.pc = "printed", !.printed = TRUE]]
         ELSE Advance(s, "closing")
    /\ UNCHANGED <<record, launcher, faults>>

InstallHandlers(s) ==
    /\ servers[s].pc = "printed"
    /\ Advance(s, "serving")
    /\ UNCHANGED <<record, launcher, faults>>

\* request_shutdown: begin_shutdown() succeeds and server.shutdown() is called.
RequestShutdown(s) ==
    /\ servers[s].pc = "serving"
    /\ servers[s].term
    /\ Advance(s, "stopping")
    /\ UNCHANGED <<record, launcher, faults>>

\* supervise(): idle_expired() and begin_shutdown().
IdleExpire(s) ==
    /\ servers[s].pc = "serving"
    /\ Advance(s, "stopping")
    /\ UNCHANGED <<record, launcher, faults>>

CloseServer(s) ==
    /\ servers[s].pc = "stopping"
    /\ Advance(s, "closing")
    /\ UNCHANGED <<record, launcher, faults>>

ReadOwnState(s) ==
    /\ servers[s].pc = "closing"
    /\ Advance(s, IF record.whole /\ record.owner = s THEN "unlinking" ELSE "dead")
    /\ UNCHANGED <<record, launcher, faults>>

UnlinkOwnState(s) ==
    /\ servers[s].pc = "unlinking"
    /\ record' = Absent
    /\ Advance(s, "dead")
    /\ UNCHANGED <<launcher, faults>>

\* The process is killed, or the machine restarts: the file stays behind.
Crash(s) ==
    /\ crashes < MaxCrashes
    /\ Alive(s)
    /\ Advance(s, "dead")
    /\ crashes' = crashes + 1
    /\ UNCHANGED <<record, launcher, interrupts>>

\* The command is interrupted or killed; a child it started lives on in its own
\* session, without a reader for its port.
Interrupt(l) ==
    /\ interrupts < MaxInterrupts
    /\ launcher[l].pc # "idle"
    /\ Done(l)
    /\ interrupts' = interrupts + 1
    /\ UNCHANGED <<record, servers, crashes>>

LauncherStep(l) ==
    \/ StopReadState(l) \/ ReadStatus(l) \/ VerifyAlive(l) \/ RemoveState(l)
    \/ \E s \in Detached : Spawn(l, s)
    \/ PortRead(l) \/ PortMissing(l) \/ Probe(l) \/ Terminate(l)
    \/ Kill(l) \/ StopReread(l) \/ StopUnlink(l)

ServerStep(s) ==
    \/ Bind(s) \/ CreateState(s) \/ WriteState(s) \/ PrintPort(s) \/ InstallHandlers(s)
    \/ RequestShutdown(s) \/ IdleExpire(s) \/ CloseServer(s)
    \/ ReadOwnState(s) \/ UnlinkOwnState(s)

ServerNext ==
    \/ \E l \in Launchers : LauncherStep(l) \/ Interrupt(l) \/ \E cmd \in Commands : Begin(l, cmd)
    \/ \E s \in Detached : ServerStep(s) \/ Crash(s)

ServerSpec == ServerInit /\ [][ServerNext]_serverVars

-----------------------------------------------------------------------------
(* Properties.                                                             *)

ServerStates ==
    Unhandled \cup {"unused", "serving", "stopping", "closing", "unlinking", "dead"}
LauncherStates ==
    {"idle", "state", "status", "verify", "remove", "spawn", "waiting", "probing",
     "terminate", "kill", "reread", "unlink"}

\* The state file names a known process; processes and commands are at a known
\* step.
ServerTypeOK ==
    /\ record \in [owner : Detached \cup {Nobody}, whole : BOOLEAN]
    /\ servers \in [Detached -> [pc : ServerStates, term : BOOLEAN, printed : BOOLEAN]]
    /\ launcher \in [Launchers ->
           [pc : LauncherStates, cmd : Commands \cup {"none"},
            held : Detached \cup {Nobody}, seen : Detached \cup {Nobody},
            child : Detached \cup {Nobody}]]
    /\ crashes \in 0 .. MaxCrashes
    /\ interrupts \in 0 .. MaxInterrupts

\* serve_review_server and open_protected_review_workspace refuse to start a
\* second server of the run ("protected review server is already running"), and
\* serve-status and serve-stop reach a server through the state file alone: a
\* server whose URL is out and that nobody asked to end has its own, complete
\* state file in place.  A torn file of a slow start, a start that timed out, a
\* crash between any two steps and a server closing on its own must not
\* separate the two.  What can is a server signalled when it has its handlers, which
\* closes after serve-stop has removed its file (OneServer); an interrupted
\* command, whose child starts beside that of the next; and two commands at once,
\* each of which removes the file it found half written (RemoveState), so the
\* property is about one launcher.
ServingIsFindable ==
    (interrupts = 0 /\ \A t \in Detached : ~servers[t].term) =>
        \A s \in Detached : InService(s) => record = [owner |-> s, whole |-> TRUE]

\* At most one server of the run is in service.
OneServer ==
    \A s, t \in Detached : InService(s) /\ InService(t) => s = t
=============================================================================
