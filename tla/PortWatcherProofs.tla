------------------------- MODULE PortWatcherProofs -------------------------
(* Theorems about PortWatcher.                                              *)
EXTENDS PortWatcher, TLAPS

\* Of a port that is not known, or that was found just now, Atlas has not been told.
ToldInv ==
    /\ told \in [Port -> 0..2]
    /\ found \subseteq known /\ found \subseteq Port
    /\ \A p, q \in found : p = q
    /\ \A p \in Port : told[p] <= 1
    /\ \A p \in Port : p \notin known \/ p \in found => told[p] = 0

LEMMA ToldInit == PortsInit => ToldInv
  BY DEF PortsInit, ToldInv

LEMMA ToldStep == ToldInv /\ [PortsNext]_allVars => ToldInv'
<1> SUFFICES ASSUME ToldInv, [PortsNext]_allVars PROVE ToldInv'
  OBVIOUS
<1> USE DEF ToldInv
<1>1. CASE UNCHANGED portVars
  BY <1>1 DEF portVars
<1>2. CASE PassBegins
  BY <1>2 DEF PassBegins
<1>3. ASSUME NEW p \in Port, PortOpens(p) \/ PortCloses(p) \/ Skip(p) PROVE ToldInv'
  BY <1>3 DEF PortOpens, PortCloses, Skip, watch
<1>4. ASSUME NEW p \in Port, Find(p) PROVE ToldInv'
  BY <1>4 DEF Find
<1>5. ASSUME NEW p \in Port, notifyPort(p) PROVE ToldInv'
  BY <1>5 DEF notifyPort, Tells
<1>6. CASE UNCHANGED allVars
  BY <1>1, <1>6 DEF allVars
<1> QED BY <1>1, <1>2, <1>3, <1>4, <1>5, <1>6 DEF PortsNext, Watch

\* For any ports and terminals, Atlas is told of a port at most once.
THEOREM PortsAreToldOnce == PortsSpec => []ToldOnce
<1>1. ToldInv => ToldOnce
  BY DEF ToldInv, ToldOnce
<1> QED BY <1>1, ToldInit, ToldStep, PTL DEF PortsSpec

-----------------------------------------------------------------------------
LEMMA SessionsTyped == TypeOK /\ [Next]_vars => TypeOK'
<1> SUFFICES ASSUME TypeOK, [Next]_vars PROVE TypeOK'
  OBVIOUS
<1> USE DEF TypeOK, Steps, Polling, Writing
<1>1. CASE CloneStep
  BY <1>1 DEF CloneStep, GitEnds, LogWritten, setReady, Clone, sessions
<1>2. ASSUME NEW s \in Session, Open(s) \/ ClientLeaves(s) \/ ShellEnds(s) \/ TypistEnds(s)
      PROVE  TypeOK'
  <2>1. CASE Open(s)
    BY <2>1 DEF Open, Step
  <2>2. CASE ClientLeaves(s)
    BY <2>2 DEF ClientLeaves
  <2>3. CASE ShellEnds(s)
    BY <2>3 DEF ShellEnds
  <2>4. CASE TypistEnds(s)
    BY <2>4 DEF TypistEnds
  <2> QED BY <1>2, <2>1, <2>2, <2>3, <2>4
<1>3. ASSUME NEW s \in Session, isReady(s) \/ StreamLogs(s) \/ Streamed(s) PROVE TypeOK'
  BY <1>3 DEF isReady, StreamLogs, Streamed, Step
<1>4. ASSUME NEW s \in Session, StreamPanics(s) \/ StartShellFails(s) \/ PTYEnds(s)
      PROVE  TypeOK'
  BY <1>4 DEF StreamPanics, StartShellFails, PTYEnds, Return, Step
<1>5. ASSUME NEW s \in Session, StartShell(s) PROVE TypeOK'
  BY <1>5 DEF StartShell, Step
<1>6. CASE UNCHANGED vars
  BY <1>6 DEF vars
<1> QED BY <1>1, <1>2, <1>3, <1>4, <1>5, <1>6 DEF Next, Handler

LEMMA PortsTypeStep == PortsTypeOK /\ [PortsNext]_allVars => PortsTypeOK'
<1> SUFFICES ASSUME PortsTypeOK, [PortsNext]_allVars PROVE PortsTypeOK'
  OBVIOUS
<1>1. TypeOK'
  <2>1. [Next]_vars
    BY DEF PortsNext, PassBegins, PortOpens, PortCloses, Watch, Skip, Find, notifyPort, allVars
  <2> QED BY <2>1, SessionsTyped DEF PortsTypeOK
<1> USE <1>1 DEF PortsTypeOK
<1>2. CASE UNCHANGED portVars
  BY <1>2 DEF portVars
<1>3. CASE PassBegins
  BY <1>3 DEF PassBegins
<1>4. ASSUME NEW p \in Port, PortOpens(p) \/ PortCloses(p) \/ Skip(p) PROVE PortsTypeOK'
  BY <1>4 DEF PortOpens, PortCloses, Skip, watch
<1>5. ASSUME NEW p \in Port, Find(p) PROVE PortsTypeOK'
  BY <1>5 DEF Find
<1>6. ASSUME NEW p \in Port, notifyPort(p) PROVE PortsTypeOK'
  BY <1>6 DEF notifyPort, Tells
<1>7. CASE UNCHANGED allVars
  BY <1>2, <1>7 DEF allVars
<1> QED BY <1>2, <1>3, <1>4, <1>5, <1>6, <1>7 DEF PortsNext, Watch

\* Types of both, among them that mu is held for reading only by sessions inside
\* streamLogs, which is what lets setReady have it in the end.
THEOREM PortsTyped == PortsSpec => []PortsTypeOK
<1>1. PortsInit => PortsTypeOK
  BY AgentPortIsWatched DEF PortsInit, Init, PortsTypeOK, TypeOK, Steps, Polling, Writing
<1> QED BY <1>1, PortsTypeStep, PTL DEF PortsSpec

-----------------------------------------------------------------------------
\* The watcher looks at terminals and touches none: what terminals do beside it they
\* may do alone.
THEOREM WatcherLeavesTerminalsAlone == PortsSpec => Spec
<1>1. PortsInit => Init
  BY DEF PortsInit
<1>2. [PortsNext]_allVars => [Next]_vars
  BY DEF PortsNext, PassBegins, PortOpens, PortCloses, Watch, Skip, Find, notifyPort, allVars
<1> QED BY <1>1, <1>2, PTL DEF PortsSpec, Spec

\* Nothing of a terminal, no open port and nothing Atlas was told precedes the end of
\* a clone that succeeded.
ReadyInv ==
    clone = "ready" \/
        /\ \A s \in Session : at[s] # "starting" /\ shell[s] # "alive"
        /\ listening \subseteq {AgentPort} /\ known \subseteq {AgentPort}
        /\ found \subseteq known
        /\ \A p \in Port \ {AgentPort} : told[p] = 0

LEMMA ReadyStep == TypeOK /\ ReadyInv /\ [PortsNext]_allVars => ReadyInv'
<1> SUFFICES ASSUME TypeOK, ReadyInv, [PortsNext]_allVars PROVE ReadyInv'
  OBVIOUS
<1>1. CASE clone = "ready"
  <2>1. ASSUME Next PROVE clone' = "ready"
    BY <1>1, <2>1 DEF Next, Handler, CloneStep, GitEnds, LogWritten, setReady, Clone, Writing,
       Open, ClientLeaves, ShellEnds, TypistEnds, isReady, StreamLogs, Streamed, StreamPanics,
       StartShell, StartShellFails, PTYEnds
  <2>2. clone' = "ready"
    BY <1>1, <2>1 DEF PortsNext, PassBegins, PortOpens, PortCloses, Watch, Skip, Find,
                      notifyPort, allVars, vars
  <2> QED BY <2>2 DEF ReadyInv
<1>2. CASE clone # "ready"
  <2> USE <1>2 DEF ReadyInv
  <2>1. CASE Next /\ UNCHANGED portVars
    <3> SUFFICES ASSUME clone' # "ready"
                 PROVE  \A s \in Session : at'[s] # "starting" /\ shell'[s] # "alive"
      BY <2>1 DEF portVars
    <3>1. CASE CloneStep
      BY <3>1 DEF CloneStep, GitEnds, LogWritten, setReady, Clone, sessions
    <3>2. ASSUME NEW s \in Session, Open(s) PROVE \A t \in Session : at'[t] # "starting" /\ shell'[t] # "alive"
      BY <3>2 DEF Open, Step, TypeOK
    <3>3. ASSUME NEW s \in Session, ClientLeaves(s) \/ ShellEnds(s) \/ TypistEnds(s)
          PROVE  \A t \in Session : at'[t] # "starting" /\ shell'[t] # "alive"
      BY <3>3 DEF ClientLeaves, ShellEnds, TypistEnds, TypeOK
    <3>4. ASSUME NEW s \in Session, isReady(s) \/ StreamLogs(s) \/ Streamed(s)
          PROVE  \A t \in Session : at'[t] # "starting" /\ shell'[t] # "alive"
      BY <3>4 DEF isReady, StreamLogs, Streamed, Step, TypeOK
    <3>5. ASSUME NEW s \in Session, StreamPanics(s) \/ StartShellFails(s) \/ PTYEnds(s)
          PROVE  \A t \in Session : at'[t] # "starting" /\ shell'[t] # "alive"
      BY <3>5 DEF StreamPanics, StartShellFails, PTYEnds, Return, Step, TypeOK
    <3>6. ASSUME NEW s \in Session, StartShell(s) PROVE FALSE
      BY <3>6 DEF StartShell, Step
    <3> QED BY <2>1, <3>1, <3>2, <3>3, <3>4, <3>5, <3>6 DEF Next, Handler
  <2>2. CASE PassBegins
    BY <2>2 DEF PassBegins, vars
  <2>3. ASSUME NEW p \in Port, PortOpens(p) \/ PortCloses(p) \/ Skip(p) PROVE ReadyInv'
    BY <2>3 DEF PortOpens, PortCloses, Skip, watch, vars
  <2>4. ASSUME NEW p \in Port, Find(p) PROVE ReadyInv'
    BY <2>4 DEF Find, vars
  <2>5. ASSUME NEW p \in Port, notifyPort(p) PROVE ReadyInv'
    BY <2>5 DEF notifyPort, Tells, vars
  <2>6. CASE UNCHANGED allVars
    BY <2>6 DEF allVars, vars, portVars
  <2> QED BY <2>1, <2>2, <2>3, <2>4, <2>5, <2>6 DEF PortsNext, Watch
<1> QED BY <1>1, <1>2

\* Atlas is told of a program's port only in a workspace whose clone succeeded.
THEOREM PortsComeWithTheWorkspace == PortsSpec => []PortsNeedAWorkspace
<1>1. PortsInit => ReadyInv
  BY DEF PortsInit, Init, ReadyInv
<1>2. ReadyInv => PortsNeedAWorkspace
  BY DEF ReadyInv, PortsNeedAWorkspace
<1>3. PortsTypeOK => TypeOK
  BY DEF PortsTypeOK
<1> QED BY <1>1, <1>2, <1>3, PortsTyped, ReadyStep, PTL DEF PortsSpec
=============================================================================
