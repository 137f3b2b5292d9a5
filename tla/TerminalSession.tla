--------------------------- MODULE TerminalSession ---------------------------
(***************************************************************************)
(* The agent's terminals: backgroundClone until the workspace is ready,    *)
(* and for each client of /terminal a handler, a shell behind a PTY and a  *)
(* goroutine that copies what the client types.                            *)
(*                                                                         *)
(* A session waits for the clone by polling: isReady and streamLogs each   *)
(* take mu for reading, streamLogs for as long as it writes to the client. *)
(* setReady takes mu for writing, and while it waits no new reader gets in *)
(* (sync.RWMutex).  The clone's log is written with no lock at all.        *)
(***************************************************************************)
EXTENDS Naturals

CONSTANT Session     \* slots for terminals open at the same time

VARIABLES
    clone,     \* where backgroundClone is; "ready" once ready is TRUE
    readers,   \* the sessions inside streamLogs that hold mu for reading
    at,        \* at[s]: where the handler is
    conn,      \* conn[s]: the websocket: up, left by the client, or closed
    shell,     \* shell[s]: the process behind the PTY
    typist     \* typist[s]: the goroutine between the two

vars == <<clone, readers, at, conn, shell, typist>>

Polling == {"polling", "unready", "streaming"}
Steps == Polling \cup {"starting", "copying", "returned"}
Writing == {"writing good", "writing bad"}     \* cloneLog.Write

TypeOK ==
    /\ clone \in Writing \cup {"cloning", "locking", "ready", "failed"}
    /\ readers \subseteq {s \in Session : at[s] = "streaming"}
    /\ at \in [Session -> Steps]
    /\ conn \in [Session -> {"up", "left", "closed"}]
    /\ shell \in [Session -> {"none", "alive", "ended"}]
    /\ typist \in [Session -> {"none", "running", "ended"}]
    /\ \A s \in Session : at[s] = "copying" => shell[s] # "none" /\ typist[s] # "none"

Init ==
    /\ clone = "cloning"
    /\ readers = {}
    /\ at = [s \in Session |-> "returned"]
    /\ conn = [s \in Session |-> "closed"]
    /\ shell = [s \in Session |-> "none"]
    /\ typist = [s \in Session |-> "none"]

sessions == <<readers, at, conn, shell, typist>>

-----------------------------------------------------------------------------
(* backgroundClone *)
Clone(from, to) == clone = from /\ clone' = to /\ UNCHANGED sessions

GitEnds == \E w \in Writing : Clone("cloning", w)
LogWritten == Clone("writing good", "locking") \/ Clone("writing bad", "failed")

\* setReady gets the lock; nobody holds it across the assignment.
setReady == readers = {} /\ Clone("locking", "ready")

-----------------------------------------------------------------------------
(* terminalHandler *)
MayRLock == clone # "locking"

Step(s, from, to) == at[s] = from /\ at' = [at EXCEPT ![s] = to]

\* A client connects; the slot's last session is over.
Open(s) ==
    /\ at[s] = "returned" /\ typist[s] # "running" /\ shell[s] # "alive"
    /\ Step(s, "returned", "polling")
    /\ conn' = [conn EXCEPT ![s] = "up"]
    /\ shell' = [shell EXCEPT ![s] = "none"]
    /\ typist' = [typist EXCEPT ![s] = "none"]
    /\ UNCHANGED <<clone, readers>>

ClientLeaves(s) ==
    /\ conn[s] = "up"
    /\ conn' = [conn EXCEPT ![s] = "left"]
    /\ UNCHANGED <<clone, readers, at, shell, typist>>

\* Mutant: whatever ended the clone ends the wait.
isReadyOrFailed(s) ==
    /\ MayRLock
    /\ Step(s, "polling", IF clone \in {"ready", "failed"} THEN "starting" ELSE "unready")
    /\ UNCHANGED <<clone, readers, conn, shell, typist>>

isReady(s) ==
    /\ MayRLock
    /\ Step(s, "polling", IF clone = "ready" THEN "starting" ELSE "unready")
    /\ UNCHANGED <<clone, readers, conn, shell, typist>>

StreamLogs(s) ==
    /\ MayRLock
    /\ Step(s, "unready", "streaming")
    /\ readers' = readers \cup {s}
    /\ UNCHANGED <<clone, conn, shell, typist>>

\* Mutant: the lock is not given back when a write fails.
StreamedHolding(s) ==
    /\ Step(s, "streaming", "polling")
    /\ readers' = IF conn[s] = "up" THEN readers \ {s} ELSE readers
    /\ UNCHANGED <<clone, conn, shell, typist>>

\* The lines are out, or the client is gone; both are the same to it.
Streamed(s) ==
    /\ Step(s, "streaming", "polling")
    /\ readers' = readers \ {s}
    /\ UNCHANGED <<clone, conn, shell, typist>>

\* Everything deferred: the websocket and the PTY are closed.
Return(s, from) ==
    /\ Step(s, from, "returned")
    /\ readers' = readers \ {s}
    /\ conn' = [conn EXCEPT ![s] = "closed"]

\* Reading the log while it is written may also end in a panic, which net/http
\* recovers from after the deferred calls.
StreamPanics(s) ==
    /\ clone \in Writing
    /\ Return(s, "streaming")
    /\ UNCHANGED <<clone, shell, typist>>

StartShell(s) ==
    /\ Step(s, "starting", "copying")
    /\ shell' = [shell EXCEPT ![s] = "alive"]
    /\ typist' = [typist EXCEPT ![s] = "running"]
    /\ UNCHANGED <<clone, readers, conn>>

StartShellFails(s) ==
    /\ Return(s, "starting")
    /\ UNCHANGED <<clone, shell, typist>>

\* "exit", or whatever ends a shell.  Nothing the agent does: it neither kills the
\* shell of a client that left nor waits for the process.
ShellEnds(s) ==
    /\ shell[s] = "alive"
    /\ shell' = [shell EXCEPT ![s] = "ended"]
    /\ UNCHANGED <<clone, readers, at, conn, typist>>

\* ReadMessage fails, and the goroutine ends.  The handler does not hear of it.
TypistEnds(s) ==
    /\ typist[s] = "running" /\ conn[s] # "up"
    /\ typist' = [typist EXCEPT ![s] = "ended"]
    /\ UNCHANGED <<clone, readers, at, conn, shell>>


\* The PTY has nothing more to read.
PTYEnds(s) ==
    /\ shell[s] = "ended"
    /\ Return(s, "copying")
    /\ UNCHANGED <<clone, shell, typist>>

-----------------------------------------------------------------------------
CloneStep == GitEnds \/ LogWritten \/ setReady

Handler(s) ==
    isReady(s) \/ StreamLogs(s) \/ Streamed(s) \/ StreamPanics(s)
        \/ StartShell(s) \/ StartShellFails(s) \/ PTYEnds(s)

Next ==
    \/ CloneStep
    \/ \E s \in Session : Open(s) \/ ClientLeaves(s) \/ Handler(s) \/ ShellEnds(s) \/ TypistEnds(s)

Spec == Init /\ [][Next]_vars

\* git ends, goroutines run on, and a client reads what it is sent or goes away.
\* Strong for the two ways into mu: sync.RWMutex lets waiting readers in before the
\* next writer.  Nobody leaves, and no shell ends, because it has to.
Fairness ==
    /\ WF_vars(CloneStep)
    /\ \A s \in Session : SF_vars(Handler(s)) /\ WF_vars(TypistEnds(s))

FairSpec == Spec /\ Fairness

-----------------------------------------------------------------------------
\* A client that waits for the clone gets its shell, or an end, unless the clone
\* failed: sessions that stream to slow or lost clients, a log that is written while
\* it is read and setReady's wait for the lock do not lock each other out.
WaitingEnds ==
    \A s \in Session :
        at[s] \in Polling ~> at[s] \in {"copying", "returned"} \/ clone = "failed"

=============================================================================
