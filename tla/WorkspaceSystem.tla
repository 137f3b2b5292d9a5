--------------------------- MODULE WorkspaceSystem --------------------------
(***************************************************************************)
(* project-service behind the gateway: how a sandbox's agent is heard.     *)
(*                                                                         *)
(* StartWorkspace hands the agent the gateway's /api/internal/webhook; the *)
(* agent posts there once, when its clone ends (notifyCallback), and the   *)
(* gateway's HandleWebhookInternal forwards the post to VerifyAndComplete. *)
(* The gateway routes neither StopWorkspace nor WebhookUpdate.             *)
(***************************************************************************)
EXTENDS ProjectService

\* The keys of the JSON the agent posts.
Body(p, outcome) == [atlas_id |-> p, status |-> outcome]

\* What ShouldBindJSON insists on.
Required == {"id", "status"}

HandleWebhookInternal(c, s, body) ==
    /\ Required \subseteq DOMAIN body
    /\ VerifyAndComplete(c, body.id, s, body.status)

\* The gateway answers 400; the agent looks at no answer and posts no more.
BindingRefused(p, s, body) ==
    /\ ~(Required \subseteq DOMAIN body)
    /\ pending' = pending \ {<<p, s>>}
    /\ UNCHANGED <<row, lock, pc, proj, copy, drawn, launched>>

notifyCallback(p, s) ==
    /\ <<p, s>> \in pending
    /\ \E outcome \in Outcome :
          \/ \E c \in Call : HandleWebhookInternal(c, s, Body(p, outcome))
          \/ BindingRefused(p, s, Body(p, outcome))

SystemNext ==
    \/ \E p \in Project, u \in User : CreateProject(p, u)
    \/ \E c \in Call, p \in Project : StartLock(c, p)
    \/ \E p \in Project : StartLockUnanswered(p) \/ LockExpire(p)
    \/ \E c \in Call : StartStep(c) \/ WebhookSave(c)
    \/ \E p \in Project, s \in Secret : notifyCallback(p, s) \/ ReportDropped(p, s)
    \/ Crash

\* ProjectService's fairness, with the agents reporting through the gateway.
SystemSpec ==
    /\ Init /\ [][SystemNext]_vars
    /\ Fairness
    /\ \A c \in Call : WF_vars(WebhookSave(c))
    /\ \A p \in Project, s \in Secret : SF_vars(notifyCallback(p, s))

-----------------------------------------------------------------------------
\* The gateway proxies an agent's callback to project-service, which updates the
\* project: a sandbox Atlas launched does not leave its project STARTING.
AgentsAreHeard ==
    \A p \in Project, s \in Secret :
        <<p, s>> \in launched ~> (row[p].secret # s \/ row[p].status \in Outcome)
=============================================================================
