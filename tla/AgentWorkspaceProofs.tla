------------------------ MODULE AgentWorkspaceProofs ------------------------
(* Theorems about AgentWorkspace.                                           *)
EXTENDS AgentWorkspace, TLAPS

\* From SIGTERM on every open save is of a file the final sync does not promise, so
\* the others stay as they are on disk.
SavesAreTouched ==
    Stopping => \A r \in Request : req[r] # Idle => req[r].file \in touched

\* How far main has brought file f: staged, committed, sent, pushed.
Indexed == at["main"] \in {"commit", "committing", "push"}
Staged(f) ==
    \/ Indexed
    \/ at["main"] = "adding" /\ f \notin todo

\* The loop may be building an index of its own after main's: it starts from main's.
FileSynced(f) ==
    /\ Staged(f) => staging[f] = disk[f]
    /\ Indexed => index[f] = disk[f]
    /\ at["main"] = "push" => head[f] = disk[f]
    /\ at["main"] = "pushing" => pushing[f] = disk[f]
    /\ synced => remote[f] = disk[f]

SyncInv ==
    /\ TypeOK
    /\ SavesAreTouched
    /\ synced => at["main"] = "exited"
    /\ ~failed => \A f \in File \ touched : FileSynced(f)

-----------------------------------------------------------------------------
LEMMA TypeInit == Init => TypeOK
<1> SUFFICES ASSUME Init PROVE TypeOK
  OBVIOUS
<1>1. Cloned \in Tree /\ 0 \in 0..MaxSaves
  BY WorkspaceAssumption DEF Cloned, Tree, Content
<1>2. /\ at = [p \in Proc |-> IF p = "auto" THEN "sleep" ELSE "serving"]
      /\ git = "free"
  BY DEF Init
<1>3. /\ at \in [Proc -> AutoSteps \cup MainSteps]
      /\ at["auto"] = "sleep" /\ at["main"] = "serving"
  BY <1>2 DEF Proc, AutoSteps, MainSteps
<1>4. \A p \in Proc : at[p] \in {"adding", "committing"} <=> git = p
  BY <1>2 DEF Proc
<1> QED BY <1>1, <1>2, <1>3, <1>4 DEF Init, TypeOK, AutoSteps, MainSteps

\* What a save writes is a content.
LEMMA SaveTyped ==
    ASSUME TypeOK, NEW r \in Request, saveStep(r) \/ \E f \in File : SaveCreate(r, f)
    PROVE  TypeOK'
<1> USE WorkspaceAssumption
<1>1. Empty \in Content /\ Mixed \in Content /\ 1..MaxSaves \subseteq Content
  BY DEF Empty, Mixed, Content
<1>2. ASSUME NEW f \in File, SaveCreate(r, f) PROVE TypeOK'
  <2>1. saves + 1 \in 1..MaxSaves
    BY <1>2 DEF SaveCreate, TypeOK
  <2>2. req' \in [Request -> {Idle} \cup [file : File, save : 1..MaxSaves]]
    BY <1>2, <2>1 DEF SaveCreate, TypeOK
  <2>3. disk' \in Tree
    BY <1>1, <1>2 DEF SaveCreate, TypeOK, Tree
  <2>4. saves' \in 0..MaxSaves /\ touched' \subseteq File
    BY <1>2, <2>1 DEF SaveCreate, TypeOK
  <2> QED BY <1>2, <2>2, <2>3, <2>4 DEF SaveCreate, TypeOK, repo, adding
<1>3. CASE saveStep(r)
  <2>1. req[r] # Idle /\ req[r] \in [file : File, save : 1..MaxSaves]
    BY <1>3 DEF saveStep, SaveCopy, SaveBreaks, TypeOK
  <2>2. disk' \in Tree
    BY <1>1, <1>3, <2>1 DEF saveStep, SaveCopy, SaveBreaks, TypeOK, Tree
  <2>3. req' \in [Request -> {Idle} \cup [file : File, save : 1..MaxSaves]]
    BY <1>3 DEF saveStep, SaveCopy, SaveBreaks, TypeOK
  <2> QED BY <1>3, <2>2, <2>3 DEF saveStep, SaveCopy, SaveBreaks, TypeOK, repo, adding
<1> QED BY <1>2, <1>3

\* A goroutine's next step among those it knows.
LEMMA StepTyped ==
    ASSUME TypeOK, NEW p \in Proc, NEW from, NEW to \in AutoSteps \cup MainSteps,
           Step(p, from, to)
    PROVE  /\ at' \in [Proc -> AutoSteps \cup MainSteps]
           /\ at[p] = from /\ at'[p] = to
           /\ \A q \in Proc : q # p => at'[q] = at[q]
  BY DEF TypeOK, Step

LEMMA CommitTyped ==
    ASSUME TypeOK, NEW p \in Proc, CommitStep(p)
    PROVE  TypeOK'
<1> USE DEF Proc, AutoSteps, MainSteps, CommitSteps, Done
<1>1. CASE AddBegin(p)
  BY <1>1, StepTyped DEF AddBegin, TypeOK, work, repo, adding
<1>2. ASSUME NEW f \in File, AddFile(p, f) PROVE TypeOK'
  BY <1>2 DEF AddFile, TypeOK, work, repo, Tree
<1>3. CASE AddEnd(p)
  BY <1>3, StepTyped DEF AddEnd, TypeOK, work, repo, adding
<1>4. CASE CommitBegin(p)
  BY <1>4, StepTyped DEF CommitBegin, TypeOK, work, repo, adding
<1>5. CASE CommitEnd(p)
  BY <1>5, StepTyped DEF CommitEnd, TypeOK, work, adding
<1>6. CASE Fails(p)
  BY <1>6, StepTyped DEF Fails, TypeOK, work, repo, adding
<1> QED BY <1>1, <1>2, <1>3, <1>4, <1>5, <1>6 DEF CommitStep

LEMMA TypeStep == TypeOK /\ [Next]_vars => TypeOK'
<1> SUFFICES ASSUME TypeOK, [Next]_vars PROVE TypeOK'
  OBVIOUS
<1> USE DEF Proc, AutoSteps, MainSteps, CommitSteps
<1>1. CASE backgroundClone
  BY <1>1 DEF backgroundClone, TypeOK, repo, adding
<1>2. CASE Terminate
  <2>1. touched' \subseteq File
    BY <1>2 DEF Terminate, TypeOK
  <2> QED BY <1>2, <2>1, StepTyped DEF Terminate, TypeOK, repo, adding
<1>3. CASE autoCommitLoop
  BY <1>3, StepTyped DEF autoCommitLoop, TypeOK, work, repo, adding
<1>4. CASE PushBegin
  BY <1>4, StepTyped DEF PushBegin, TypeOK, work, adding
<1>5. CASE PushEnd
  <2>1. remote' \in Tree /\ synced' \in BOOLEAN
    BY <1>5 DEF PushEnd, TypeOK, adding
  <2> QED BY <1>5, <2>1, StepTyped DEF PushEnd, TypeOK, adding
<1>6. CASE UNCHANGED vars
  BY <1>6 DEF vars, TypeOK
<1> QED
  BY <1>1, <1>2, <1>3, <1>4, <1>5, <1>6, CommitTyped, SaveTyped
  DEF Next, autoStep, mainStep

-----------------------------------------------------------------------------
\* While main serves it has synced nothing, and there is nothing to keep.
LEMMA NothingYet ==
    ASSUME NEW f \in File, at["main"] = "serving", ~synced PROVE FileSynced(f)
  BY DEF FileSynced, Staged, Indexed

LEMMA SyncSave ==
    ASSUME SyncInv, NEW r \in Request, saveStep(r) \/ \E f \in File : SaveCreate(r, f)
    PROVE  SyncInv'
<1>1. TypeOK /\ TypeOK'
  BY SaveTyped DEF SyncInv
<1>2. UNCHANGED <<repo, at, adding, failed, synced>>
  BY DEF saveStep, SaveCopy, SaveBreaks, SaveCreate
<1>3. SavesAreTouched'
  <2>1. ASSUME NEW f \in File, SaveCreate(r, f) PROVE SavesAreTouched'
    BY <1>1, <2>1 DEF SaveCreate, SyncInv, SavesAreTouched, Stopping, TypeOK
  <2>2. CASE saveStep(r)
    BY <1>1, <2>2 DEF saveStep, SaveCopy, SaveBreaks, SyncInv, SavesAreTouched, Stopping, TypeOK
  <2> QED BY <2>1, <2>2
<1>4. ASSUME Stopping, NEW f \in File \ touched' PROVE f \notin touched /\ disk'[f] = disk[f]
  <2>1. ASSUME NEW g \in File, SaveCreate(r, g) PROVE f \notin touched /\ disk'[f] = disk[f]
    BY <1>1, <1>4, <2>1 DEF SaveCreate, TypeOK, Tree
  <2>2. CASE saveStep(r)
    BY <1>1, <1>4, <2>2 DEF saveStep, SaveCopy, SaveBreaks, SyncInv, SavesAreTouched, TypeOK, Tree
  <2> QED BY <2>1, <2>2
<1>5. ASSUME ~failed', NEW f \in File \ touched' PROVE FileSynced(f)'
  <2>1. CASE Stopping
    <3>1. FileSynced(f) /\ disk'[f] = disk[f]
      BY <1>2, <1>4, <1>5, <2>1 DEF SyncInv
    <3> QED BY <1>2, <3>1 DEF FileSynced, Staged, Indexed, repo, adding
  <2>2. CASE ~Stopping
    BY <1>2, <2>2 DEF FileSynced, Staged, Indexed, SyncInv, Stopping
  <2> QED BY <2>1, <2>2
<1> QED BY <1>1, <1>2, <1>3, <1>5 DEF SyncInv

\* A commit of either goroutine: what is staged of a settled file is what is on disk.
LEMMA SyncCommit ==
    ASSUME SyncInv, NEW p \in Proc, CommitStep(p)
    PROVE  SyncInv'
<1>1. TypeOK /\ TypeOK'
  BY CommitTyped DEF SyncInv
<1>2. UNCHANGED work
  BY DEF CommitStep, AddBegin, AddFile, AddEnd, CommitBegin, CommitEnd, Fails
<1>3. /\ at["main"] \in CommitSteps \/ at'["main"] = at["main"]
      /\ at["main"] \in CommitSteps => at'["main"] \in CommitSteps \cup {"push"}
  BY <1>1
  DEF CommitStep, AddBegin, AddFile, AddEnd, CommitBegin, CommitEnd, Fails, Step, TypeOK,
      Proc, Done, CommitSteps
<1>4. SavesAreTouched' /\ (synced' => at'["main"] = "exited")
  BY <1>1, <1>2, <1>3 DEF SyncInv, SavesAreTouched, Stopping, work, CommitSteps
<1>5. ASSUME ~failed', NEW f \in File \ touched' PROVE FileSynced(f)'
  <2>1. ~failed
    BY <1>5 DEF CommitStep, AddBegin, AddFile, AddEnd, CommitBegin, CommitEnd, Fails
  <2>2. FileSynced(f) /\ UNCHANGED <<disk, synced>>
    BY <1>2, <1>5, <2>1 DEF SyncInv, work
  <2> USE DEF FileSynced, Staged, Indexed, Proc
  <2>3. CASE AddBegin(p)
    BY <1>1, <2>2, <2>3 DEF AddBegin, Step, TypeOK, repo, adding
  <2>4. ASSUME NEW g \in File, AddFile(p, g) PROVE FileSynced(f)'
    <3>1. /\ staging' = [staging EXCEPT ![g] = disk[g]] /\ todo' = todo \ {g}
          /\ UNCHANGED <<index, head, remote, pushing, at>>
      BY <2>4 DEF AddFile, repo
    <3>2. staging'[f] = staging[f] \/ staging'[f] = disk[f]
      BY <1>1, <3>1 DEF TypeOK, Tree
    <3>3. f = g => staging'[f] = disk[f]
      BY <1>1, <3>1 DEF TypeOK, Tree
    <3> QED BY <2>2, <3>1, <3>2, <3>3
  <2>5. CASE AddEnd(p)
    BY <1>1, <2>2, <2>5 DEF AddEnd, Step, TypeOK, repo, adding
  <2>6. CASE CommitBegin(p)
    BY <1>1, <2>2, <2>6 DEF CommitBegin, Step, TypeOK, repo, adding
  <2>7. CASE CommitEnd(p)
    BY <1>1, <2>2, <2>7 DEF CommitEnd, Step, TypeOK, adding, Done
  <2>8. CASE Fails(p)
    BY <1>1, <1>5, <2>2, <2>8 DEF Fails, Step, TypeOK, repo, adding, Done
  <2> QED BY <2>3, <2>4, <2>5, <2>6, <2>7, <2>8 DEF CommitStep
<1> QED BY <1>1, <1>4, <1>5 DEF SyncInv

\* main's own steps, the clone and the loop's timer.
LEMMA SyncMain ==
    ASSUME SyncInv, backgroundClone \/ Terminate \/ autoCommitLoop \/ PushBegin \/ PushEnd
    PROVE  SyncInv'
<1>1. TypeOK /\ TypeOK'
  BY TypeStep DEF SyncInv, Next, autoStep, mainStep
<1> USE DEF Proc
<1>2. CASE Terminate
  <2>1. at["main"] = "serving" /\ at'["main"] \in {"add", "exited"} /\ ~synced /\ UNCHANGED <<synced, req>>
    BY <1>1, <1>2 DEF Terminate, Step, TypeOK, SyncInv
  <2>2. SavesAreTouched'
    BY <1>2, <2>1 DEF Terminate, SavesAreTouched
  <2>3. \A f \in File : FileSynced(f)'
    BY <2>1 DEF FileSynced, Staged, Indexed
  <2> QED BY <1>1, <2>1, <2>2, <2>3 DEF SyncInv
<1>3. CASE backgroundClone \/ autoCommitLoop
  <2>1. at'["main"] = at["main"] /\ UNCHANGED <<disk, repo, req, adding, touched, failed, synced>>
    BY <1>1, <1>3 DEF backgroundClone, autoCommitLoop, work, Step, TypeOK
  <2> QED BY <1>1, <2>1 DEF SyncInv, SavesAreTouched, Stopping, FileSynced, Staged, Indexed, repo, adding
<1>4. CASE PushBegin
  <2>1. /\ at["main"] = "push" /\ at'["main"] = "pushing" /\ pushing' = head
        /\ UNCHANGED <<disk, req, touched, failed, synced>>
    BY <1>1, <1>4 DEF PushBegin, work, adding, Step, TypeOK
  <2> QED BY <1>1, <2>1 DEF SyncInv, SavesAreTouched, Stopping, FileSynced, Staged, Indexed
<1>5. CASE PushEnd
  <2>1. /\ at["main"] = "pushing" /\ at'["main"] = "exited" /\ ~synced
        /\ (remote' = pushing /\ synced') \/ ~synced'
        /\ UNCHANGED <<disk, req, touched, failed>>
    BY <1>1, <1>5 DEF PushEnd, Step, TypeOK, adding, SyncInv
  <2> QED BY <1>1, <2>1 DEF SyncInv, SavesAreTouched, Stopping, FileSynced, Staged, Indexed
<1> QED BY <1>2, <1>3, <1>4, <1>5

LEMMA SyncAlways == Spec => []SyncInv
<1>1. Init => SyncInv
  <2> SUFFICES ASSUME Init PROVE SyncInv
    OBVIOUS
  <2>1. at["main"] = "serving" /\ ~synced
    BY DEF Init, Proc
  <2> QED BY <2>1, TypeInit, NothingYet DEF SyncInv, SavesAreTouched, Stopping
<1>2. SyncInv /\ [Next]_vars => SyncInv'
  <2> SUFFICES ASSUME SyncInv, [Next]_vars PROVE SyncInv'
    OBVIOUS
  <2>1. CASE UNCHANGED vars
    BY <2>1, TypeStep DEF vars, SyncInv, SavesAreTouched, Stopping, FileSynced, Staged, Indexed
  <2> QED
    BY <2>1, SyncSave, SyncCommit, SyncMain DEF Next, autoStep, mainStep, Proc
<1> QED BY <1>1, <1>2, PTL DEF Spec

-----------------------------------------------------------------------------
\* Types, among them that whoever runs a git command is who holds index.lock.
THEOREM WorkspaceTyped == Spec => []TypeOK
  BY SyncAlways, PTL DEF SyncInv

\* For any files, saves and interleaving of the commit loop with the shutdown: unless
\* main's own git add or git commit failed, "final sync successful" is true of every
\* file nobody was saving.
THEOREM CommittedSyncIsComplete == Spec => []FinalSyncIfCommitted
<1>1. SyncInv => FinalSyncIfCommitted
  BY DEF SyncInv, FinalSyncIfCommitted, FinalSyncComplete, FileSynced
<1> QED BY <1>1, SyncAlways, PTL
=============================================================================
