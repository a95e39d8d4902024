------------------------------- MODULE Workbench -------------------------------
(***************************************************************************)
(* The detached Workbench server of one Matter                             *)
(* (workbench/local_server.py): the commands that start, query and stop    *)
(* it, the process, and the mutations its clients post.                    *)
(*                                                                         *)
(* Commands and processes meet in one state file, created exclusively,     *)
(* read, and unlinked by name without a lock.  Every request runs in a     *)
(* daemon thread that dies with its process, so that a mutation may be     *)
(* committed and never answered; the client then posts the same payload    *)
(* again, perhaps to another server of the same Matter.  The commands are  *)
(* not those of the review server (ServerLifecycle): stop reads the file   *)
(* after the status and signals a pid nobody verifies again.               *)
(***************************************************************************)
EXTENDS Naturals, Sequences, FiniteSets

CONSTANTS
    Operators,   \* command lines, each one command after another
    Processes,   \* server processes (pid and token), each started at most once
    NoProcess,
    Clients,     \* pages and agents that post mutations
    MaxPosts,    \* bound on the mutations of a client
    MaxKills     \* bound on the processes killed from outside

ASSUME WorkbenchAssumption ==
    NoProcess \notin Processes /\ MaxPosts \in Nat /\ MaxKills \in Nat

VARIABLES
    stateFile,   \* the state file: its owner, and whether it is written out
    process,     \* where every process is, its port printed, a SIGTERM pending
    operator,    \* where every command is and what it has read
    matter,      \* the mutations of the Matter, in revision order
    client,      \* what every client posts and knows
    answers,     \* the answers received
    overtaken,   \* servers whose file was removed by somebody who had read another
                 \* one, or before it was written out
    kills

workbenchVars ==
    <<stateFile, process, operator, matter, client, answers, overtaken, kills>>
lifecycleVars == <<stateFile, process, operator, overtaken, kills>>
mutationVars == <<matter, client, answers>>

NoStateFile == [owner |-> NoProcess, whole |-> FALSE]
Resting == [at |-> "idle", cmd |-> "none", read |-> NoStateFile, held |-> NoProcess,
            child |-> NoProcess]

WorkbenchInit ==
    /\ stateFile = NoStateFile
    /\ process = [p \in Processes |->
          [at |-> "unused", term |-> FALSE, printed |-> FALSE, read |-> NoStateFile]]
    /\ operator = [o \in Operators |-> Resting]
    /\ matter = <<>>
    /\ client = [c \in Clients |->
          [at |-> "idle", to |-> NoProcess, base |-> 0, edit |-> 0, tries |-> 0]]
    /\ answers = {}
    /\ overtaken = {}
    /\ kills = 0

Running(p) == process[p].at \notin {"unused", "dead"}
Handled(p) == process[p].at \in {"serving", "closing", "unlinking"}
Serves(p) == process[p].at \in {"printed", "serving"}

Step(o, at) == operator' = [operator EXCEPT ![o].at = at]
Rest(o) == operator' = [operator EXCEPT ![o] = Resting]
Go(p, at) == process' = [process EXCEPT ![p].at = at]

\* SIGTERM ends a process without handlers at once.
Terminated(p) ==
    process' = [process EXCEPT
        ![p].at = IF Handled(p) THEN @ ELSE "dead", ![p].term = TRUE]

\* path.unlink(missing_ok=True), by one who has read the file earlier.
Remove(read) ==
    /\ stateFile' = NoStateFile
    /\ overtaken' = IF stateFile # NoStateFile /\ (stateFile # read \/ ~stateFile.whole)
                    THEN overtaken \cup {stateFile.owner} ELSE overtaken

----------------------------------------------------------------------------
(* The commands: serve, status and stop.                                   *)

Ask(o, cmd) ==
    /\ operator[o].at = "idle"
    /\ operator' = [operator EXCEPT ![o] = [Resting EXCEPT !.at = "status", !.cmd = cmd]]
    /\ UNCHANGED <<stateFile, process, overtaken, kills, mutationVars>>

\* What the command does with the answer of workbench_server_status.
Status(o, running) ==
    \/ operator[o].cmd = "stop" /\ running /\ Step(o, "read")
    \/ operator[o].cmd = "serve" /\ ~running /\ Step(o, "spawn")
    \/ (operator[o].cmd = "status" \/ running # (operator[o].cmd = "stop")) /\ Rest(o)

StatusReads(o) ==
    /\ operator[o].at = "status"
    /\ IF stateFile = NoStateFile
       THEN Status(o, FALSE)
       ELSE operator' = [operator EXCEPT
              ![o].at = IF stateFile.whole THEN "verify" ELSE "remove", ![o].read = stateFile]
    /\ UNCHANGED <<stateFile, process, overtaken, kills, mutationVars>>

VerifyServer(o) ==
    /\ operator[o].at = "verify"
    /\ IF Running(operator[o].read.owner) THEN Status(o, TRUE) ELSE Step(o, "remove")
    /\ UNCHANGED <<stateFile, process, overtaken, kills, mutationVars>>

RemoveStale(o) ==
    /\ operator[o].at = "remove"
    /\ Remove(operator[o].read)
    /\ Status(o, FALSE)
    /\ UNCHANGED <<process, kills, mutationVars>>

StartProcess(o, p) ==
    /\ operator[o].at = "spawn"
    /\ process[p].at = "unused"
    /\ Go(p, "starting")
    /\ operator' = [operator EXCEPT ![o].at = "wait", ![o].child = p]
    /\ UNCHANGED <<stateFile, overtaken, kills, mutationVars>>

\* The port is read, or two seconds pass or the pipe closes without it and the
\* child is terminated.
AwaitPort(o) ==
    /\ operator[o].at = "wait"
    /\ IF process[operator[o].child].printed
       THEN UNCHANGED process
       ELSE Terminated(operator[o].child)
    /\ Rest(o)
    /\ UNCHANGED <<stateFile, overtaken, kills, mutationVars>>

\* stop reads the file again for the token; a file that is gone or torn ends it.
StopReads(o) ==
    /\ operator[o].at = "read"
    /\ IF stateFile.whole
       THEN operator' = [operator EXCEPT ![o].at = "kill", ![o].held = stateFile.owner]
       ELSE Rest(o)
    /\ UNCHANGED <<stateFile, process, overtaken, kills, mutationVars>>

\* The pid of the status is signalled; os.kill raises if there is none.
StopKills(o) ==
    /\ operator[o].at = "kill"
    /\ LET p == operator[o].read.owner
       IN  IF Running(p)
           THEN Terminated(p) /\ Step(o, "compare")
           ELSE UNCHANGED process /\ Rest(o)
    /\ UNCHANGED <<stateFile, overtaken, kills, mutationVars>>

StopCompares(o) ==
    /\ operator[o].at = "compare"
    /\ IF stateFile = operator[o].read /\ stateFile.owner = operator[o].held
       THEN Step(o, "unlink")
       ELSE Rest(o)
    /\ UNCHANGED <<stateFile, process, overtaken, kills, mutationVars>>

StopRemoves(o) ==
    /\ operator[o].at = "unlink"
    /\ Remove(operator[o].read)
    /\ Rest(o)
    /\ UNCHANGED <<process, kills, mutationVars>>

----------------------------------------------------------------------------
(* The process.                                                            *)

\* open("x"): the file of another server ends this one through its `finally`.
CreateServerFile(p) ==
    /\ process[p].at = "starting"
    /\ IF stateFile = NoStateFile
       THEN stateFile' = [owner |-> p, whole |-> FALSE] /\ Go(p, "created")
       ELSE Go(p, "closing") /\ UNCHANGED stateFile
    /\ UNCHANGED <<operator, overtaken, kills, mutationVars>>

\* The bytes go to the file this process opened, whatever its name is now.
WriteServerFile(p) ==
    /\ process[p].at = "created"
    /\ stateFile' = [stateFile EXCEPT !.whole = @ \/ stateFile.owner = p]
    /\ Go(p, "written")
    /\ UNCHANGED <<operator, overtaken, kills, mutationVars>>

AnnouncePort(p) ==
    /\ process[p].at = "written"
    /\ process' = [process EXCEPT ![p].at = "printed", ![p].printed = TRUE]
    /\ UNCHANGED <<stateFile, operator, overtaken, kills, mutationVars>>

ServeForever(p) ==
    /\ process[p].at = "printed"
    /\ Go(p, "serving")
    /\ UNCHANGED <<stateFile, operator, overtaken, kills, mutationVars>>

\* A SIGTERM, or the idle window has passed: mark_activity is called after a
\* mutation, so a request in progress does not keep the server alive.
BeginShutdown(p) ==
    /\ process[p].at = "serving"
    /\ Go(p, "closing")
    /\ UNCHANGED <<stateFile, operator, overtaken, kills, mutationVars>>

\* The file is unlinked only if it names this process and its token.
\* A plausible bug: whatever file is found is unlinked.
MutOwnFile(p) == stateFile.whole
OwnFile(p) == stateFile = [owner |-> p, whole |-> TRUE]

CloseReads(p) ==
    /\ process[p].at = "closing"
    /\ process' = [process EXCEPT
          ![p].at = IF OwnFile(p) THEN "unlinking" ELSE "dead", ![p].read = stateFile]
    /\ UNCHANGED <<stateFile, operator, overtaken, kills, mutationVars>>

CloseRemoves(p) ==
    /\ process[p].at = "unlinking"
    /\ Remove(process[p].read)
    /\ Go(p, "dead")
    /\ UNCHANGED <<operator, kills, mutationVars>>

KillProcess(p) ==
    /\ kills < MaxKills
    /\ Running(p)
    /\ kills' = kills + 1
    /\ Go(p, "dead")
    /\ UNCHANGED <<stateFile, operator, overtaken, mutationVars>>

----------------------------------------------------------------------------
(* The mutations: add an issue, bind, select, each with the revision the   *)
(* client has seen.                                                        *)

\* GET state.
Look(c, p) ==
    /\ client[c].at = "idle" /\ Serves(p)
    /\ client' = [client EXCEPT ![c].base = Len(matter)]
    /\ UNCHANGED <<lifecycleVars, matter, answers>>

Post(c, p) ==
    /\ client[c].at = "idle" /\ Serves(p)
    /\ client[c].edit < MaxPosts
    /\ client' = [client EXCEPT ![c].at = "sent", ![c].to = p, ![c].tries = 1,
                                ![c].edit = @ + 1]
    /\ UNCHANGED <<lifecycleVars, matter, answers>>

\* A plausible bug: the mutation ignores the revision its client has seen.
MutCurrent(c) == TRUE
Current(c) == client[c].base = Len(matter)

\* _mutate: the service commits the mutation on the revision it expects, or
\* raises MatterRevisionConflict.
Mutate(c) ==
    /\ client[c].at = "sent" /\ Running(client[c].to)
    /\ IF Current(c)
       THEN /\ matter' = Append(matter, <<c, client[c].edit>>)
            /\ client' = [client EXCEPT ![c].at = "applied"]
       ELSE /\ client' = [client EXCEPT ![c].at = "stale"]
            /\ UNCHANGED matter
    /\ UNCHANGED <<lifecycleVars, answers>>

\* 200 with the new revision, or 409.
Reply(c) ==
    /\ client[c].at \in {"applied", "stale"} /\ Running(client[c].to)
    /\ answers' = answers \cup
          {[edit |-> <<c, client[c].edit>>, ok |-> client[c].at = "applied",
            tries |-> client[c].tries]}
    /\ client' = [client EXCEPT ![c].at = "idle",
                    ![c].base = IF client[c].at = "applied" THEN @ + 1 ELSE @]
    /\ UNCHANGED <<lifecycleVars, matter>>

\* The process ended before it answered: the client posts the same payload to a
\* server it can reach.
PostAgain(c, p) ==
    /\ client[c].at \in {"sent", "applied", "stale"} /\ ~Running(client[c].to)
    /\ Serves(p)
    /\ client' = [client EXCEPT ![c].at = "sent", ![c].to = p, ![c].tries = 2]
    /\ UNCHANGED <<lifecycleVars, matter, answers>>

OperatorStep(o) ==
    \/ \E cmd \in {"serve", "status", "stop"} : Ask(o, cmd)
    \/ StatusReads(o) \/ VerifyServer(o) \/ RemoveStale(o)
    \/ \E p \in Processes : StartProcess(o, p)
    \/ AwaitPort(o)
    \/ StopReads(o) \/ StopKills(o) \/ StopCompares(o) \/ StopRemoves(o)

ProcessStep(p) ==
    \/ CreateServerFile(p) \/ WriteServerFile(p) \/ AnnouncePort(p) \/ ServeForever(p)
    \/ BeginShutdown(p) \/ CloseReads(p) \/ CloseRemoves(p) \/ KillProcess(p)

ClientStep(c) ==
    \/ \E p \in Processes : Look(c, p) \/ Post(c, p) \/ PostAgain(c, p)
    \/ Mutate(c) \/ Reply(c)

WorkbenchNext ==
    \/ \E o \in Operators : OperatorStep(o)
    \/ \E p \in Processes : ProcessStep(p)
    \/ \E c \in Clients : ClientStep(c)

WorkbenchSpec == WorkbenchInit /\ [][WorkbenchNext]_workbenchVars

----------------------------------------------------------------------------
(* Properties.                                                             *)

\* A server in service that nobody has signalled is found through the state
\* file, complete and its own, so that a second one is refused and stop reaches
\* it: whatever commands, starts and ends of other servers overlap.  The one way
\* out is the window between a read and the unlink by name that follows it, and
\* the moment a file is created but not written (overtaken).
WorkbenchFindable ==
    \A p \in Processes \ overtaken :
        Serves(p) /\ ~process[p].term => stateFile = [owner |-> p, whole |-> TRUE]

Applications(edit) == Cardinality({i \in 1 .. Len(matter) : matter[i] = edit})

\* A mutation is applied at most once however often it is posted and through
\* however many servers; 200 means that it was applied, and 409 to the only
\* attempt that it was not.  (409 to a second attempt may also mean that the
\* first one was applied and its answer lost.)
AppliedOnce ==
    /\ \A i \in 1 .. Len(matter) : Applications(matter[i]) = 1
    /\ \A a \in answers :
          /\ a.ok => Applications(a.edit) = 1
          /\ ~a.ok /\ a.tries = 1 => Applications(a.edit) = 0
================================================================================
