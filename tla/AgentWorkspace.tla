--------------------------- MODULE AgentWorkspace ---------------------------
(***************************************************************************)
(* The agent's copy of a repository: the clone it starts with, the saves   *)
(* of the file API, the loop that commits every five minutes and the final *)
(* commit and push when the sandbox is told to stop (agent/cmd/agent).     *)
(*                                                                         *)
(* Three kinds of goroutine share the work tree and the git repository:    *)
(* one per save request, autoCommitLoop, and main once SIGTERM arrived.    *)
(* main does not stop the other two.  Each git command holds index.lock    *)
(* while it runs; one that finds it held fails, and one may fail for any   *)
(* other reason: a file cut short under git add, a full disk, a hook.  A   *)
(* git that fails takes its index.lock away and leaves the index as it was.*)
(***************************************************************************)
EXTENDS Integers

CONSTANTS
    File,       \* of the work tree, those git does not ignore
    Request,    \* slots for save requests served at the same time
    MaxSaves    \* bound: saves over a run

ASSUME WorkspaceAssumption == MaxSaves \in Nat

VARIABLES
    boot,      \* "cloning", "ready" or "failed"
    disk,      \* the work tree: the content of each file
    index, head, remote,   \* the same as staged, committed and pushed
    req,       \* req[r]: the save request r is serving, or Idle
    saves,     \* saves begun so far; a save's number is its content
    git,       \* who holds index.lock
    at,        \* where autoCommitLoop and main are
    todo,      \* files the running git add has not read yet
    staging,   \* the index it is building; index itself when none runs
    pushing,   \* the commit the running git push sends
    touched,   \* files a save had open at SIGTERM or opened since
    failed,    \* main's own git add or git commit failed
    synced     \* main logged "final sync successful"

vars == <<boot, disk, index, head, remote, req, saves, git, at, todo, staging, pushing,
          touched, failed, synced>>

Proc == {"auto", "main"}
Empty == -1               \* truncated, nothing written yet
Mixed == -2               \* cut short, or the remains of overlapping saves
Content == -2..MaxSaves   \* 0 is what was cloned
Tree == [File -> Content]
Idle == [file |-> "none"]

CommitSteps == {"add", "adding", "commit", "committing"}
AutoSteps == CommitSteps \cup {"sleep"}
MainSteps == CommitSteps \cup {"serving", "push", "pushing", "exited"}

TypeOK ==
    /\ boot \in {"cloning", "ready", "failed"}
    /\ disk \in Tree /\ index \in Tree /\ head \in Tree /\ remote \in Tree
    /\ pushing \in Tree /\ staging \in Tree
    /\ req \in [Request -> {Idle} \cup [file : File, save : 1..MaxSaves]]
    /\ saves \in 0..MaxSaves
    /\ at \in [Proc -> AutoSteps \cup MainSteps]
    /\ at["auto"] \in AutoSteps /\ at["main"] \in MainSteps
    /\ git \in Proc \cup {"free"}
    /\ \A p \in Proc : at[p] \in {"adding", "committing"} <=> git = p
    /\ todo \subseteq File /\ touched \subseteq File
    /\ failed \in BOOLEAN /\ synced \in BOOLEAN

Cloned == [f \in File |-> 0]

Init ==
    /\ boot = "cloning"
    /\ disk = Cloned /\ index = Cloned /\ head = Cloned /\ remote = Cloned
    /\ pushing = Cloned /\ staging = Cloned
    /\ req = [r \in Request |-> Idle]
    /\ saves = 0
    /\ git = "free"
    /\ at = [p \in Proc |-> IF p = "auto" THEN "sleep" ELSE "serving"]
    /\ todo = {} /\ touched = {}
    /\ failed = FALSE /\ synced = FALSE

repo == <<index, head, remote, pushing>>
adding == <<todo, staging>>
Alive == at["main"] # "exited"
Stopping == at["main"] # "serving"

-----------------------------------------------------------------------------
\* git clone ends; without it the agent never becomes ready.
backgroundClone ==
    /\ Alive /\ boot = "cloning"
    /\ boot' \in {"ready", "failed"}
    /\ UNCHANGED <<disk, repo, req, saves, git, at, adding, touched, failed, synced>>

-----------------------------------------------------------------------------
(* fileSaveHandler *)

\* os.Create cuts the file down to nothing.
SaveCreate(r, f) ==
    /\ Alive /\ boot = "ready"
    /\ req[r] = Idle
    /\ saves < MaxSaves
    /\ saves' = saves + 1
    /\ req' = [req EXCEPT ![r] = [file |-> f, save |-> saves + 1]]
    /\ disk' = [disk EXCEPT ![f] = Empty]
    /\ touched' = IF Stopping THEN touched \cup {f} ELSE touched
    /\ UNCHANGED <<boot, repo, git, at, adding, failed, synced>>

\* io.Copy writes the body over whatever the file holds by now: another save may
\* have written a longer one, and a body of no announced length is cut at 10 MB.
\* The client reads "saved" all the same.
SaveCopy(r) ==
    /\ Alive
    /\ req[r] # Idle
    /\ \E content \in {req[r].save, Mixed} : disk' = [disk EXCEPT ![req[r].file] = content]
    /\ req' = [req EXCEPT ![r] = Idle]
    /\ UNCHANGED <<boot, repo, saves, git, at, adding, touched, failed, synced>>

\* The body breaks off: an error for the client, and the file stays cut.
SaveBreaks(r) ==
    /\ Alive
    /\ req[r] # Idle
    /\ disk' = [disk EXCEPT ![req[r].file] = Mixed]
    /\ req' = [req EXCEPT ![r] = Idle]
    /\ UNCHANGED <<boot, repo, saves, git, at, adding, touched, failed, synced>>

-----------------------------------------------------------------------------
(* commitAll, run by autoCommitLoop and by gracefulShutdown *)

Step(p, from, to) == at[p] = from /\ at' = [at EXCEPT ![p] = to]
Done(p) == IF p = "auto" THEN "sleep" ELSE "push"

work == <<boot, disk, req, saves, touched, synced>>

AddBegin(p) ==
    /\ Alive /\ git = "free"
    /\ Step(p, "add", "adding")
    /\ git' = p /\ todo' = File
    /\ UNCHANGED <<work, repo, staging, failed>>

\* git add . reads the files one after the other.
AddFile(p, f) ==
    /\ Alive /\ at[p] = "adding"
    /\ f \in todo
    /\ staging' = [staging EXCEPT ![f] = disk[f]]
    /\ todo' = todo \ {f}
    /\ UNCHANGED <<work, repo, git, at, failed>>

AddEnd(p) ==
    /\ Alive /\ todo = {}
    /\ Step(p, "adding", "commit")
    /\ git' = "free" /\ index' = staging
    /\ UNCHANGED <<work, head, remote, pushing, adding, failed>>

CommitBegin(p) ==
    /\ Alive /\ git = "free"
    /\ Step(p, "commit", "committing")
    /\ git' = p
    /\ UNCHANGED <<work, repo, adding, failed>>

\* With nothing to commit the command fails and head stays what it is.
CommitEnd(p) ==
    /\ Alive
    /\ Step(p, "committing", Done(p))
    /\ head' = index
    /\ git' = "free"
    /\ UNCHANGED <<work, index, remote, pushing, adding, failed>>

\* Mutant: a failed add or commit ends the loop, or the shutdown's sync.
FailsExits(p) ==
    /\ Alive
    /\ \E s \in CommitSteps : Step(p, s, "exited")
    /\ git' = IF git = p THEN "free" ELSE git
    /\ todo' = IF git = p THEN {} ELSE todo
    /\ staging' = IF git = p THEN index ELSE staging
    /\ failed' = (failed \/ p = "main")
    /\ UNCHANGED <<work, repo>>

\* git add or git commit fails, before it holds index.lock or while it does:
\* commitAll returns the error and its caller drops it.  What git add has read
\* is lost, as it replaces the index only when it succeeds.
Fails(p) ==
    /\ Alive
    /\ \E s \in CommitSteps : Step(p, s, Done(p))
    /\ git' = IF git = p THEN "free" ELSE git
    /\ todo' = IF git = p THEN {} ELSE todo
    /\ staging' = IF git = p THEN index ELSE staging
    /\ failed' = (failed \/ p = "main")
    /\ UNCHANGED <<work, repo>>

-----------------------------------------------------------------------------
\* Five minutes are over.
autoCommitLoop ==
    /\ Alive /\ boot = "ready"
    /\ Step("auto", "sleep", "add")
    /\ UNCHANGED <<work, repo, git, adding, failed>>

\* SIGTERM: main enters gracefulShutdown, which has nothing to do before the
\* clone is there.
Terminate ==
    /\ Step("main", "serving", IF boot = "ready" THEN "add" ELSE "exited")
    /\ touched' = {req[r].file : r \in {q \in Request : req[q] # Idle}}
    /\ UNCHANGED <<boot, disk, repo, req, saves, git, adding, failed, synced>>

\* Mutant: the push starts from what the remote has, not from head.
PushBeginStale ==
    /\ Step("main", "push", "pushing")
    /\ pushing' = remote
    /\ UNCHANGED <<work, index, head, remote, git, adding, failed>>

PushBegin ==
    /\ Step("main", "push", "pushing")
    /\ pushing' = head
    /\ UNCHANGED <<work, index, head, remote, git, adding, failed>>

\* The push succeeds, or is refused; either way the process ends.
PushEnd ==
    /\ Step("main", "pushing", "exited")
    /\ \/ remote' = pushing /\ synced' = TRUE
       \/ UNCHANGED <<remote, synced>>
    /\ UNCHANGED <<boot, disk, req, saves, touched, index, head, pushing, git, adding, failed>>

-----------------------------------------------------------------------------
CommitStep(p) ==
    \/ AddBegin(p) \/ (\E f \in File : AddFile(p, f)) \/ AddEnd(p)
    \/ CommitBegin(p) \/ CommitEnd(p) \/ Fails(p)

autoStep == autoCommitLoop \/ CommitStep("auto")
mainStep == CommitStep("main") \/ PushBegin \/ PushEnd
saveStep(r) == SaveCopy(r) \/ SaveBreaks(r)

Next ==
    \/ backgroundClone \/ Terminate
    \/ autoStep \/ mainStep
    \/ \E r \in Request : saveStep(r) \/ \E f \in File : SaveCreate(r, f)

Spec == Init /\ [][Next]_vars

\* Goroutines run, and git commands and request bodies come to an end.
Fairness ==
    /\ WF_vars(autoStep) /\ WF_vars(mainStep)
    /\ \A r \in Request : WF_vars(saveStep(r))

FairSpec == Spec /\ Fairness

-----------------------------------------------------------------------------
\* "final sync successful": every file nobody was saving while the agent shut
\* down is on the remote as it is on disk.
FinalSyncComplete ==
    synced => \A f \in File \ touched : remote[f] = disk[f]

\* That holds when main's own git add and git commit did not fail, though saves,
\* the loop's adds, its commits and their failures go on between main's steps.
FinalSyncIfCommitted == ~failed => FinalSyncComplete

\* A save that stands reaches a commit while the agent runs, however often the
\* loop's git commands have failed before, unless they never stop failing.
SavesReachACommit ==
    <>[][~Fails("auto")]_vars =>
        \A f \in File, n \in 1..MaxSaves :
            disk[f] = n ~> (head[f] = n \/ disk[f] # n \/ Stopping)
=============================================================================
