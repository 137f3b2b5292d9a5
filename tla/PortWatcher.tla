----------------------------- MODULE PortWatcher -----------------------------
(***************************************************************************)
(* The agent's port watcher, beside the terminals whose programs open and  *)
(* close the ports: every five seconds a pass over a list of ports, each   *)
(* new one that answers told to Atlas, once and for all.                   *)
(***************************************************************************)
EXTENDS TerminalSession

CONSTANTS
    Port,        \* watchPorts
    AgentPort,   \* 9000, the agent's own, is one of them
    AtlasID      \* the environment sets ATLAS_ID, as project-service has it

ASSUME AgentPortIsWatched == AgentPort \in Port
ASSUME AtlasIDAssumption == AtlasID \in BOOLEAN

VARIABLES
    listening,   \* the ports a dial of localhost gets through to
    known,       \* knownPorts
    todo,        \* what the current pass has yet to dial, in any order
    found,       \* the ports the pass has found and not told of: none or one
    told         \* told[p]: requests that told Atlas of p, up to two

portVars == <<listening, known, todo, found, told>>
watch == <<known, todo, found, told>>
allVars == <<vars, portVars>>

PortsTypeOK ==
    /\ TypeOK
    /\ listening \subseteq Port /\ known \subseteq Port /\ todo \subseteq Port
    /\ AgentPort \in listening
    /\ found \subseteq known /\ \A p, q \in found : p = q
    /\ told \in [Port -> 0..2]

PortsInit ==
    /\ Init
    /\ listening = {AgentPort}
    /\ known = {} /\ todo = {} /\ found = {}
    /\ told = [p \in Port |-> 0]

\* A program someone started from a terminal; it may outlive the shell.
PortOpens(p) ==
    /\ \E s \in Session : shell[s] = "alive"
    /\ listening' = listening \cup {p}
    /\ UNCHANGED <<vars, watch>>

PortCloses(p) ==
    /\ p # AgentPort
    /\ listening' = listening \ {p}
    /\ UNCHANGED <<vars, watch>>

\* Five seconds are over.
PassBegins ==
    /\ todo = {} /\ found = {}
    /\ todo' = Port
    /\ UNCHANGED <<vars, listening, known, found, told>>

\* Mutant: a port that does not answer ends the pass.
SkipEndsPass(p) ==
    /\ found = {} /\ p \in todo
    /\ p \in known \/ p \notin listening
    /\ todo' = IF p \in known THEN todo \ {p} ELSE {}
    /\ UNCHANGED <<vars, listening, known, found, told>>

\* Known, or the dial fails.
Skip(p) ==
    /\ found = {} /\ p \in todo
    /\ p \in known \/ p \notin listening
    /\ todo' = todo \ {p}
    /\ UNCHANGED <<vars, listening, known, found, told>>

\* Mutant: Atlas is told of a port before it is known.
FindUnknown(p) ==
    /\ found = {} /\ p \in todo
    /\ p \notin known /\ p \in listening
    /\ todo' = todo \ {p}
    /\ found' = {p}
    /\ UNCHANGED <<vars, listening, known, told>>

\* Known before Atlas is told; what becomes of the telling changes nothing.
Find(p) ==
    /\ found = {} /\ p \in todo
    /\ p \notin known /\ p \in listening
    /\ todo' = todo \ {p}
    /\ known' = known \cup {p} /\ found' = {p}
    /\ UNCHANGED <<vars, listening, told>>

\* Without an id there is nothing to tell Atlas of.
Tells(p) ==
    told' = IF AtlasID THEN [told EXCEPT ![p] = IF @ = 2 THEN 2 ELSE @ + 1] ELSE told

\* Mutant: a port Atlas did not acknowledge is not known.
notifyPortAgain(p) ==
    /\ p \in found /\ found' = {}
    /\ Tells(p)
    /\ known' \in {known, known \ {p}}
    /\ UNCHANGED <<vars, listening, todo>>

\* The request is answered, refused or lost.
notifyPort(p) ==
    /\ p \in found /\ found' = {}
    /\ Tells(p)
    /\ UNCHANGED <<vars, listening, known, todo>>

Watch(p) == Skip(p) \/ Find(p) \/ notifyPort(p)

PortsNext ==
    \/ Next /\ UNCHANGED portVars
    \/ PassBegins
    \/ \E p \in Port : PortOpens(p) \/ PortCloses(p) \/ Watch(p)

\* Time passes and Atlas answers, or the connection breaks: the client that tells it
\* has no timeout.
PortsFairness ==
    /\ WF_allVars(CloneStep /\ UNCHANGED portVars)
    /\ \A s \in Session :
          /\ SF_allVars(Handler(s) /\ UNCHANGED portVars)
          /\ WF_allVars(TypistEnds(s) /\ UNCHANGED portVars)
    /\ WF_allVars(PassBegins)
    /\ \A p \in Port : WF_allVars(Watch(p))

PortsSpec == PortsInit /\ [][PortsNext]_allVars /\ PortsFairness

-----------------------------------------------------------------------------
\* Atlas is told of a port at most once, however often programs open and close it and
\* whatever became of the first telling.
ToldOnce == \A p \in Port : told[p] <= 1

\* The only port Atlas hears of while the workspace is not ready, or never will be
\* because its clone failed, is the agent's own: every other one a terminal has led
\* to, and terminals wait for the clone.
PortsNeedAWorkspace == clone = "ready" \/ \A p \in Port \ {AgentPort} : told[p] = 0

\* An agent that has its sandbox's id tells Atlas of a port that stays open, whichever
\* ports before it in the list are closed, flap, or were told of and lost.
OpenPortsAreTold ==
    AtlasID => \A p \in Port : <>[](p \in listening) => <>(told[p] > 0)
=============================================================================
