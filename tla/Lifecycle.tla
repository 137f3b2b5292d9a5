------------------------------ MODULE Lifecycle ------------------------------
(***************************************************************************)
(* What project-service promises about a project, with no calls, no lock   *)
(* and no snapshots: a project is STOPPED or in ERROR until somebody       *)
(* starts it, a start draws a token never used before, at most one sandbox *)
(* is launched for it, and only the agent of that sandbox, which holds the *)
(* token, moves the project on.  A start that has not been answered by its *)
(* agent is never overtaken by another.                                    *)
(***************************************************************************)
CONSTANTS Project, User, Secret, NoUser, NoSecret

VARIABLES
    cell,      \* cell[p]: owner, status and token of project p
    used,      \* tokens drawn so far
    launched   \* <<p, s>>: a sandbox of p runs with token s

vars == <<cell, used, launched>>

NoCell == [owner |-> NoUser, status |-> "STOPPED", secret |-> NoSecret]

Init ==
    /\ cell = [p \in Project |-> NoCell]
    /\ used = {}
    /\ launched = {}

Create(p, u) ==
    /\ cell[p] = NoCell
    /\ cell' = [cell EXCEPT ![p] = [owner |-> u, status |-> "STOPPED", secret |-> NoSecret]]
    /\ UNCHANGED <<used, launched>>

Start(p, s) ==
    /\ cell[p].owner \in User
    /\ cell[p].status \in {"STOPPED", "ERROR"}
    /\ s \notin used
    /\ cell' = [cell EXCEPT ![p] = [owner |-> cell[p].owner, status |-> "STARTING", secret |-> s]]
    /\ used' = used \cup {s}
    /\ UNCHANGED launched

Launch(p) ==
    /\ cell[p].status = "STARTING"
    /\ <<p, cell[p].secret>> \notin launched
    /\ launched' = launched \cup {<<p, cell[p].secret>>}
    /\ UNCHANGED <<cell, used>>

Report(p, outcome) ==
    /\ cell[p].status = "STARTING"
    /\ <<p, cell[p].secret>> \in launched
    /\ cell' = [cell EXCEPT ![p] = [owner |-> cell[p].owner, status |-> outcome,
                                    secret |-> cell[p].secret]]
    /\ UNCHANGED <<used, launched>>

Next ==
    \E p \in Project :
        \/ \E u \in User : Create(p, u)
        \/ \E s \in Secret : Start(p, s)
        \/ Launch(p)
        \/ \E outcome \in {"RUNNING", "ERROR"} : Report(p, outcome)

Spec == Init /\ [][Next]_vars
=============================================================================
