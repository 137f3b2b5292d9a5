--------------------------- MODULE ProjectService ---------------------------
(***************************************************************************)
(* project-service: the owner of the projects table and of the workspace   *)
(* lifecycle (services/project-service/internal/service/service.go).       *)
(*                                                                         *)
(* Every gRPC call runs in a goroutine of its own.  A call is a sequence of *)
(* round trips to redis (the start lock), Postgres (the row), the auth     *)
(* service (a repository token) and Atlas (the sandbox); each round trip   *)
(* is one action, so that calls interleave between any two of them.  Rows  *)
(* are written in two ways: Save writes every column from the snapshot the *)
(* call read earlier, Update writes the status column alone.               *)
(*                                                                         *)
(* A call refused without a write (a missing field, an unknown project, a  *)
(* wrong callback token, a busy lock, an open breaker) is a stuttering     *)
(* step unless it holds the lock.                                          *)
(***************************************************************************)
EXTENDS Naturals, FiniteSets

CONSTANTS
    Project,            \* uuids CreateProject may draw for the id column
    User,               \* callers' user ids
    Call,               \* slots for calls that run at the same time
    Secret,             \* uuids StartWorkspace may draw; bounds its saves
    NoProject, NoUser, NoSecret,
    Fault,              \* what the environment may do: see Faults
    LeaseOutlivesCall,  \* TRUE: no StartWorkspace runs longer than the
                        \* 30s the redis key lives
    Stops               \* how callers use StopWorkspace: see StopUse

\* "retry": go-redis, left at its three retries, sends a command again whose
\* reply was lost.  (A SetNX sent again finds its own key and answers false.)

Faults == {"redis", "retry", "db", "auth", "atlas", "agent", "crash"}

\* Not at all, as the gateway does not route it; with the project_id and the
\* atlas_id of one project; or with any two, which nothing compares.
StopUse == {"none", "own", "any"}

ASSUME FaultAssumption ==
    /\ Fault \subseteq Faults
    /\ LeaseOutlivesCall \in BOOLEAN
    /\ Stops \in StopUse

ASSUME NullAssumption ==
    /\ NoProject \notin Project
    /\ NoUser \notin User
    /\ NoSecret \notin Secret

VARIABLES
    row,       \* row[p]: the row of project p, NoRow before it is inserted
    lock,      \* lock[p]: redis holds the key lock:project:p
    pc,        \* pc[c]: the next round trip of call c
    proj,      \* proj[c]: the project call c is about
    copy,      \* copy[c]: the row as call c holds it in memory
    drawn,     \* drawn[s]: the project whose start drew the token s
    launched,  \* <<p, s>>: Atlas accepted a sandbox for p whose agent holds s
    pending    \* the agents of launched that have yet to report

vars == <<row, lock, pc, proj, copy, drawn, launched, pending>>

Status == {"STOPPED", "STARTING", "RUNNING", "ERROR"}
Outcome == {"RUNNING", "ERROR"}            \* what READY and ERROR become

Row == [owner : User \cup {NoUser}, status : Status, secret : Secret \cup {NoSecret}]
NoRow == [owner |-> NoUser, status |-> "STOPPED", secret |-> NoSecret]

\* A StartWorkspace call owns its lock from SetNX to the deferred Del.
InStart == {"locked", "fetched", "saved", "tokened", "leaving"}
Step == {"idle", "stopping", "checked"} \cup InStart

Starting(p) == {c \in Call : pc[c] \in InStart /\ proj[c] = p}
Unused == {s \in Secret : drawn[s] = NoProject}

TypeOK ==
    /\ row \in [Project -> Row]
    /\ lock \in [Project -> BOOLEAN]
    /\ pc \in [Call -> Step]
    /\ proj \in [Call -> Project \cup {NoProject}]
    /\ copy \in [Call -> Row]
    /\ drawn \in [Secret -> Project \cup {NoProject}]
    /\ launched \subseteq Project \X Secret
    /\ pending \subseteq launched

Init ==
    /\ row = [p \in Project |-> NoRow]
    /\ lock = [p \in Project |-> FALSE]
    /\ pc = [c \in Call |-> "idle"]
    /\ proj = [c \in Call |-> NoProject]
    /\ copy = [c \in Call |-> NoRow]
    /\ drawn = [s \in Secret |-> NoProject]
    /\ launched = {}
    /\ pending = {}

-----------------------------------------------------------------------------
(* A call's control state: where it is, on which project, with which row.  *)
Go(c, step, p, r) ==
    /\ pc' = [pc EXCEPT ![c] = step]
    /\ proj' = [proj EXCEPT ![c] = p]
    /\ copy' = [copy EXCEPT ![c] = r]

Return(c) == Go(c, "idle", NoProject, NoRow)
Leave(c) == Go(c, "leaving", proj[c], NoRow)

SaveRow(p, r) == row' = [row EXCEPT ![p] = r]

-----------------------------------------------------------------------------
(* CreateProject: one INSERT of a STOPPED row.                             *)
CreateProject(p, u) ==
    /\ row[p] = NoRow
    /\ SaveRow(p, [owner |-> u, status |-> "STOPPED", secret |-> NoSecret])
    /\ UNCHANGED <<lock, pc, proj, copy, drawn, launched, pending>>

-----------------------------------------------------------------------------
(* StartWorkspace *)

\* Mutant: the Del is deferred before the SetNX reply is looked at.
StartLockDefersFirst(c, p) ==
    /\ pc[c] = "idle"
    /\ IF lock[p]
       THEN lock' = [lock EXCEPT ![p] = FALSE] /\ UNCHANGED <<pc, proj, copy>>
       ELSE lock' = [lock EXCEPT ![p] = TRUE] /\ Go(c, "locked", p, NoRow)
    /\ UNCHANGED <<row, drawn, launched, pending>>

\* SetNX succeeds; when the key exists the call returns "project busy".
StartLock(c, p) ==
    /\ pc[c] = "idle"
    /\ ~lock[p]
    /\ lock' = [lock EXCEPT ![p] = TRUE]
    /\ Go(c, "locked", p, NoRow)
    /\ UNCHANGED <<row, drawn, launched, pending>>

\* SetNX takes effect but its reply is lost: the call returns "lock error"
\* before it defers the Del, and the key stays until it expires.
StartLockUnanswered(p) ==
    /\ "redis" \in Fault
    /\ ~lock[p]
    /\ lock' = [lock EXCEPT ![p] = TRUE]
    /\ UNCHANGED <<row, pc, proj, copy, drawn, launched, pending>>

Live(r) == r.status \in {"RUNNING", "STARTING"}

\* Mutant: only RUNNING counts as up.
StartFetchWhileStarting(c, u) ==
    /\ pc[c] = "locked"
    /\ row[proj[c]].owner = u
    /\ row[proj[c]].status # "RUNNING"
    /\ Go(c, "fetched", proj[c], row[proj[c]])
    /\ UNCHANGED <<row, lock, drawn, launched, pending>>

StartFetch(c, u) ==
    /\ pc[c] = "locked"
    /\ row[proj[c]].owner = u
    /\ ~Live(row[proj[c]])
    /\ Go(c, "fetched", proj[c], row[proj[c]])
    /\ UNCHANGED <<row, lock, drawn, launched, pending>>

\* Not found, not owner, already up, or the query failed.
StartRefuse(c, u) ==
    /\ pc[c] = "locked"
    /\ \/ row[proj[c]].owner # u
       \/ Live(row[proj[c]])
       \/ "db" \in Fault
    /\ Leave(c)
    /\ UNCHANGED <<row, lock, drawn, launched, pending>>

\* Mutant: the token is not fresh, as if it were derived from the owner.
StartSaveOldToken(c, s) ==
    /\ pc[c] = "fetched"
    /\ LET r == [copy[c] EXCEPT !.status = "STARTING", !.secret = s]
       IN SaveRow(proj[c], r) /\ Go(c, "saved", proj[c], r)
    /\ drawn' = [drawn EXCEPT ![s] = proj[c]]
    /\ UNCHANGED <<lock, launched, pending>>

\* Mutant: the token is put into the row in memory after the save.
StartSaveThenToken(c, s) ==
    /\ pc[c] = "fetched"
    /\ s \in Unused
    /\ LET r == [copy[c] EXCEPT !.status = "STARTING"]
       IN SaveRow(proj[c], r) /\ Go(c, "saved", proj[c], [r EXCEPT !.secret = s])
    /\ drawn' = [drawn EXCEPT ![s] = proj[c]]
    /\ UNCHANGED <<lock, launched, pending>>

\* Save writes the whole snapshot back with a token nobody has seen.
StartSave(c, s) ==
    /\ pc[c] = "fetched"
    /\ s \in Unused
    /\ LET r == [copy[c] EXCEPT !.status = "STARTING", !.secret = s]
       IN /\ SaveRow(proj[c], r)
          /\ \/ Go(c, "saved", proj[c], r)
             \/ "db" \in Fault /\ Leave(c)        \* the answer is lost
    /\ drawn' = [drawn EXCEPT ![s] = proj[c]]
    /\ UNCHANGED <<lock, launched, pending>>

\* Bound: with no token left in Secret the save is taken to fail.
StartSaveFails(c) ==
    /\ pc[c] = "fetched"
    /\ "db" \in Fault \/ Unused = {}
    /\ Leave(c)
    /\ UNCHANGED <<row, lock, drawn, launched, pending>>

\* GenerateRepoToken answers.
StartToken(c) ==
    /\ pc[c] = "saved"
    /\ Go(c, "tokened", proj[c], copy[c])
    /\ UNCHANGED <<row, lock, drawn, launched, pending>>

\* It fails: the call returns and the row stays STARTING.
StartTokenFails(c) ==
    /\ pc[c] = "saved"
    /\ "auth" \in Fault
    /\ Leave(c)
    /\ UNCHANGED <<row, lock, drawn, launched, pending>>

\* Atlas takes POST /sandboxes and starts an agent that holds the token; the
\* answer may be lost, which only changes what the caller is told.
StartPost(c) ==
    /\ pc[c] = "tokened"
    /\ launched' = launched \cup {<<proj[c], copy[c].secret>>}
    /\ pending' = pending \cup {<<proj[c], copy[c].secret>>}
    /\ Leave(c)
    /\ UNCHANGED <<row, lock, drawn>>

\* The breaker is open, Atlas is unreachable or answers 300 or more.
StartPostFails(c) ==
    /\ pc[c] = "tokened"
    /\ "atlas" \in Fault
    /\ Leave(c)
    /\ UNCHANGED <<row, lock, drawn, launched, pending>>

\* The deferred Del removes the key, whoever set it.  It runs under the
\* caller's context: cancelled, or with redis away, it removes nothing.
StartLeave(c) ==
    /\ pc[c] = "leaving"
    /\ \/ lock' = [lock EXCEPT ![proj[c]] = FALSE]
       \/ "redis" \in Fault /\ UNCHANGED lock
    /\ Return(c)
    /\ UNCHANGED <<row, drawn, launched, pending>>

\* The key is gone, the reply is lost, and the Del will be sent again: it then
\* removes the key of whoever has set it in between.
StartLeaveRetried(c) ==
    /\ pc[c] = "leaving"
    /\ "retry" \in Fault
    /\ lock' = [lock EXCEPT ![proj[c]] = FALSE]
    /\ UNCHANGED <<row, pc, proj, copy, drawn, launched, pending>>

\* Mutant: the key is set without a TTL.
LockWithoutTTL(p) == FALSE /\ UNCHANGED vars

\* Redis drops the key 30s after it was set.
LockExpire(p) ==
    /\ lock[p]
    /\ LeaseOutlivesCall => Starting(p) = {}
    /\ lock' = [lock EXCEPT ![p] = FALSE]
    /\ UNCHANGED <<row, pc, proj, copy, drawn, launched, pending>>

-----------------------------------------------------------------------------
(* StopWorkspace: Atlas first, then a best-effort UPDATE of one column.    *)
(* The caller names the project and the sandbox; neither is looked up.     *)

\* DELETE /sandboxes/a: Atlas removes sandboxes it launched under that id, and
\* their agents with them, or none (no status of its answer is looked at).  When
\* no answer comes the call returns, whatever Atlas did.
StopDelete(c, p, a) ==
    /\ Stops # "none" /\ (Stops = "own" => a = p)
    /\ pc[c] = "idle"
    /\ \E gone \in SUBSET {l \in pending : l[1] = a} : pending' = pending \ gone
    /\ \/ Go(c, "stopping", p, NoRow)
       \/ "atlas" \in Fault /\ UNCHANGED <<pc, proj, copy>>
    /\ UNCHANGED <<row, lock, drawn, launched>>

\* Mutant: a status the enum does not know.
StopUpdateDeleted(c) ==
    /\ pc[c] = "stopping"
    /\ row' = [row EXCEPT ![proj[c]].status = "DELETED"]
    /\ Return(c)
    /\ UNCHANGED <<lock, drawn, launched, pending>>

StopUpdate(c) ==
    /\ pc[c] = "stopping"
    /\ \/ /\ row[proj[c]] # NoRow
          /\ row' = [row EXCEPT ![proj[c]].status = "STOPPED"]
       \/ /\ row[proj[c]] = NoRow \/ "db" \in Fault
          /\ UNCHANGED row
    /\ Return(c)
    /\ UNCHANGED <<lock, drawn, launched, pending>>

-----------------------------------------------------------------------------
(* The two webhook entry points: look the row up by atlas id, compare the  *)
(* token, save the whole row with the new status.  The lookup locks        *)
(* nothing: its option is not one this gorm reads and no transaction is    *)
(* open.  An agent reports once, when its clone ends.                      *)

\* Mutant: the lookup reads only the columns the handler needs.
AcceptReportNarrow(c, p, s, outcome) ==
    /\ pc[c] = "idle"
    /\ <<p, s>> \in pending
    /\ row[p].secret = s
    /\ Go(c, "checked", p, [NoRow EXCEPT !.status = outcome, !.secret = s])
    /\ pending' = pending \ {<<p, s>>}
    /\ UNCHANGED <<row, lock, drawn, launched>>

AcceptReport(c, p, s, outcome) ==
    /\ pc[c] = "idle"
    /\ <<p, s>> \in pending
    /\ row[p].secret = s
    /\ Go(c, "checked", p, [row[p] EXCEPT !.status = outcome])
    /\ pending' = pending \ {<<p, s>>}
    /\ UNCHANGED <<row, lock, drawn, launched>>

WebhookUpdate(c, p, s, outcome) == AcceptReport(c, p, s, outcome)
VerifyAndComplete(c, p, s, outcome) == AcceptReport(c, p, s, outcome)

\* Mutant: the save updates the status column alone.
WebhookSaveStatus(c) ==
    /\ pc[c] = "checked"
    /\ row' = [row EXCEPT ![proj[c]].status = copy[c].status]
    /\ Return(c)
    /\ UNCHANGED <<lock, drawn, launched, pending>>

WebhookSave(c) ==
    /\ pc[c] = "checked"
    /\ \/ SaveRow(proj[c], copy[c])
       \/ "db" \in Fault /\ UNCHANGED row
    /\ Return(c)
    /\ UNCHANGED <<lock, drawn, launched, pending>>

\* A report is refused for its token, or lost on the way: no agent repeats it.
ReportDropped(p, s) ==
    /\ <<p, s>> \in pending
    /\ row[p].secret # s \/ "agent" \in Fault
    /\ pending' = pending \ {<<p, s>>}
    /\ UNCHANGED <<row, lock, pc, proj, copy, drawn, launched>>

-----------------------------------------------------------------------------
\* The process dies and is started again; Postgres and redis keep their state.
Crash ==
    /\ "crash" \in Fault
    /\ pc' = [c \in Call |-> "idle"]
    /\ proj' = [c \in Call |-> NoProject]
    /\ copy' = [c \in Call |-> NoRow]
    /\ UNCHANGED <<row, lock, drawn, launched, pending>>

-----------------------------------------------------------------------------
StartStep(c) ==
    \/ \E u \in User : StartFetch(c, u) \/ StartRefuse(c, u)
    \/ \E s \in Secret : StartSave(c, s)
    \/ StartSaveFails(c)
    \/ StartToken(c) \/ StartTokenFails(c)
    \/ StartPost(c) \/ StartPostFails(c)
    \/ StartLeave(c) \/ StartLeaveRetried(c)

Next ==
    \/ \E p \in Project, u \in User : CreateProject(p, u)
    \/ \E c \in Call, p \in Project : StartLock(c, p) \/ \E a \in Project : StopDelete(c, p, a)
    \/ \E p \in Project : StartLockUnanswered(p) \/ LockExpire(p)
    \/ \E c \in Call : StartStep(c) \/ StopUpdate(c) \/ WebhookSave(c)
    \/ \E c \in Call, p \in Project, s \in Secret, o \in Outcome :
          WebhookUpdate(c, p, s, o) \/ VerifyAndComplete(c, p, s, o)
    \/ \E p \in Project, s \in Secret : ReportDropped(p, s)
    \/ Crash

Spec == Init /\ [][Next]_vars

\* A goroutine that has work keeps running, the services it waits for answer
\* or refuse, and redis expires its keys.  Nothing obliges a caller to call.
Fairness ==
    /\ \A c \in Call : WF_vars(StartStep(c))
    /\ \A p \in Project : WF_vars(LockExpire(p))

FairSpec == Spec /\ Fairness

-----------------------------------------------------------------------------
(* Properties *)

\* Nothing takes the key of a start that is inside: its TTL outlives the start,
\* and no earlier holder's Del is sent again.
LeasesHold == LeaseOutlivesCall /\ "retry" \notin Fault

\* Traffic as the gateway lets it through, with leases that hold.
Orderly == LeasesHold /\ Stops = "none"

\* A project shows RUNNING or ERROR only with the token of a sandbox Atlas
\* really launched for it, although WebhookUpdate and VerifyAndComplete save a
\* row they read earlier, starts overlap once a lock has expired, and
\* StopWorkspace overwrites the status under everybody.  StopWorkspace keeps
\* the token, so STOPPED says nothing; a row that was never started is STOPPED.
ReportedSecretWasLaunched ==
    \A p \in Project :
        /\ row[p].status \in Outcome => <<p, row[p].secret>> \in launched
        /\ row[p].secret = NoSecret => row[p].status = "STOPPED"

\* While nothing but redis fails and stops name the sandbox of their project,
\* somebody is about to answer for every STARTING row: the start that drew its
\* token and is on its way to Atlas, the agent that holds the token, a call that
\* has accepted a report and saves it, or a stop that has deleted the sandbox and
\* writes STOPPED.  Starts that overlap and saves of old rows leave no project to
\* a token nobody holds.
StartingIsAnsweredFor ==
    Fault \subseteq {"redis", "retry"} /\ Stops # "any" =>
        \A p \in Project : row[p].status = "STARTING" =>
            \/ <<p, row[p].secret>> \in pending
            \/ \E c \in Call : proj[c] = p /\
                  \/ pc[c] \in {"checked", "stopping"}
                  \/ pc[c] \in {"saved", "tokened"} /\ copy[c].secret = row[p].secret

\* A callback token never serves two projects: no row, no snapshot of a call
\* and no agent holds a token that another project's start drew.
SecretsStayWithTheirProject ==
    /\ \A p \in Project : row[p].secret # NoSecret => drawn[row[p].secret] = p
    /\ \A c \in Call : copy[c].secret # NoSecret => drawn[copy[c].secret] = proj[c]
    /\ \A l \in launched : drawn[l[2]] = l[1]

\* lock:project:<id>, as long as nothing takes it from the calls it protects, lets
\* one StartWorkspace at a time through, in spite of lost replies, failed Dels,
\* leaked keys and crashes: whoever is inside finds its own key still set.
StartExclusion ==
    LeasesHold =>
        \A c \in Call : pc[c] \in InStart =>
            /\ lock[proj[c]]
            /\ Starting(proj[c]) = {c}

\* A project is never locked for good: after a failed Del, a lost SetNX reply
\* or a crash the key's TTL frees it.
LockEventuallyFree == \A p \in Project : []<>~lock[p]

\* The token of a project changes only to one nobody held before: no save of
\* an old snapshot brings the token of an earlier start back.
SecretsMoveForward ==
    [][\A p \in Project :
          row'[p].secret # row[p].secret => row'[p].secret \in Unused]_vars

\* Once inserted, a project keeps its owner, although calls write whole rows they
\* read long ago: Gateway lets redis remember an owner because of this.
OwnerNeverChanges ==
    [][\A p \in Project : row[p].owner # NoUser => row'[p].owner = row[p].owner]_vars

\* The row of an orderly service lives the life Lifecycle describes.
LifecycleOf == INSTANCE Lifecycle
    WITH cell <- row, used <- Secret \ Unused

\* Under orderly traffic the service implements Lifecycle.
ImplementsLifecycle == LifecycleOf!Spec
=============================================================================
