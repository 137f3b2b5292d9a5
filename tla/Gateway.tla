------------------------------- MODULE Gateway -------------------------------
(***************************************************************************)
(* The gateway: a process that dials both services before it listens,      *)
(* serves until a signal drains it, and answers each request from one or   *)
(* two RPCs (services/gateway).  VerifyRequest remembers in redis, for     *)
(* 30 seconds, who was found to own which workspace.                       *)
(*                                                                         *)
(* Each RPC and each redis command is one action.  A client that leaves    *)
(* cancels the request's context and with it whatever the handler would    *)
(* still have asked.  HandleWebhookInternal is in WorkspaceSystem; the two *)
(* URL handlers and Health touch no state.                                 *)
(***************************************************************************)
EXTENDS Naturals, Sequences, FiniteSetsExt

CONSTANTS
    User, NoUser,
    Workspace, NoWorkspace,   \* atlas ids, and the empty string
    Call,                     \* slots for requests in flight
    NoCall, NoAnswer

ASSUME NullsAreNull ==
    NoUser \notin User /\ NoWorkspace \notin Workspace

\* Atlas ids begin with "ws-", which no part of a label before one does.
ASSUME PrefixesAreNoIds == {"3000-", "preview-"} \cap Workspace = {}

VARIABLES
    gw,       \* where the gateway's main is
    up,       \* the services that answer
    token,    \* token[u]: the one token user u is ever given (a bound)
    owner,    \* owner[w]: user_id of the row with atlas_id w
    cache,    \* <<u, w>>: redis holds auth_decision:u:w, which is "1"
    call,     \* the request a slot serves
    answer    \* what the last step answered, NoAnswer if it did not

vars == <<gw, up, token, owner, cache, call, answer>>

Service == {"auth", "project"}
Guarded == {"verify", "create", "start"}            \* ask ValidateToken first
SigningIn == {"signup", "login", "google", "github"}  \* forward one RPC to auth

\* What a request deserves when it arrives: its token is not valid ("late"), it is
\* the owner's and nothing has gone wrong so far ("good"), anything else ("weak").
Claims == {"late", "good", "weak"}
Request ==
    [route : Guarded \cup SigningIn, at : {"received", "validated", "missed", "owned"},
     user : User, ws : Workspace \cup {NoWorkspace}, claim : Claims]
Answer ==
    [route : Guarded \cup SigningIn, user : User, ws : Workspace \cup {NoWorkspace},
     claim : Claims, code : {200, 400, 401, 403, 500}]

TypeOK ==
    /\ gw \in {"down", "dialing auth", "dialing project", "serving", "draining"}
    /\ up \subseteq Service
    /\ token \in [User -> {"none", "valid", "expired"}]
    /\ owner \in [Workspace -> User \cup {NoUser}]
    /\ cache \subseteq User \X Workspace
    /\ call \in [Call -> Request \cup {NoCall}]
    /\ (\E c \in Call : call[c] # NoCall) => gw \in {"serving", "draining"}
    /\ answer \in Answer \cup {NoAnswer}

Init ==
    /\ gw = "down" /\ up = {}
    /\ token = [u \in User |-> "none"]
    /\ owner = [w \in Workspace |-> NoUser]
    /\ cache = {}
    /\ call = [c \in Call |-> NoCall]
    /\ answer = NoAnswer

-----------------------------------------------------------------------------
(* The process *)
Main(from, to) ==
    /\ gw = from /\ gw' = to
    /\ answer' = NoAnswer
    /\ UNCHANGED <<up, token, owner, cache>>

\* Every setting has a default, so Load never stops the process.
Boot == Main("down", "dialing auth") /\ UNCHANGED call

\* WithBlock: the dial returns once the service answers.
DialAuth == "auth" \in up /\ Main("dialing auth", "dialing project") /\ UNCHANGED call
DialProject == "project" \in up /\ Main("dialing project", "serving") /\ UNCHANGED call

\* Ten seconds have passed: log.Fatalf, and the container is started again.
DialFails ==
    /\ \/ "auth" \notin up /\ Main("dialing auth", "down")
       \/ "project" \notin up /\ Main("dialing project", "down")
    /\ UNCHANGED call

InFlight == {c \in Call : call[c] # NoCall}

\* Shutdown stops listening, and returns when no request is left ...
Signal == Main("serving", "draining") /\ UNCHANGED call
Drained == InFlight = {} /\ Main("draining", "down") /\ UNCHANGED call

\* Mutant: Shutdown is given a context without a deadline.
GraceWithoutEnd == FALSE /\ UNCHANGED vars

\* Mutant: the process is gone and its requests are not.
GraceOverKeepsCalls == InFlight # {} /\ Main("draining", "down") /\ UNCHANGED call

\* ... or after ten seconds, with requests cut off.
GraceOver == InFlight # {} /\ Main("draining", "down") /\ call' = [c \in Call |-> NoCall]

\* A signal before main asked for signals kills it too.
Crash ==
    /\ gw # "down"
    /\ Main(gw, "down")
    /\ call' = [c \in Call |-> NoCall]

ServiceStarts(s) ==
    /\ s \notin up
    /\ up' = up \cup {s} /\ answer' = NoAnswer
    /\ UNCHANGED <<gw, token, owner, cache, call>>

ServiceStops(s) ==
    /\ s \in up
    /\ up' = up \ {s} /\ answer' = NoAnswer
    /\ UNCHANGED <<gw, token, owner, cache, call>>

-----------------------------------------------------------------------------
(* Requests *)
On(c, route, step) == call[c] # NoCall /\ call[c].route = route /\ call[c].at = step

Go(c, step) ==
    /\ call' = [call EXCEPT ![c].at = step]
    /\ answer' = NoAnswer

Reply(c, code, ws, claim) ==
    /\ answer' = [route |-> call[c].route, user |-> call[c].user, ws |-> ws,
                  claim |-> claim, code |-> code]
    /\ call' = [call EXCEPT ![c] = NoCall]

Answered(c, code) == Reply(c, code, call[c].ws, call[c].claim)

\* A refusal for a service that did not answer says nothing of the claim.
Excused(c, code) ==
    Reply(c, code, call[c].ws, IF call[c].claim = "late" THEN "late" ELSE "weak")

Keep == UNCHANGED <<gw, up, token, owner, cache>>

\* The first label of X-Forwarded-Host, cut where an atlas id may begin.
Label ==
    {<<"app">>} \cup {<<w>> : w \in Workspace} \cup
    {<<p, w>> : p \in {"3000-", "preview-"}, w \in Workspace}

\* All three rules come to the same: the label from its first "ws-" on.
parseAtlasID(h) ==
    LET ids == {i \in DOMAIN h : h[i] \in Workspace}
    IN IF ids = {} THEN NoWorkspace ELSE h[Min(ids)]

Owns(u, w) == w \in Workspace /\ owner[w] = u

Claim(u, w) ==
    CASE token[u] # "valid" -> "late"
      [] token[u] = "valid" /\ Owns(u, w) -> "good"
      [] OTHER -> "weak"

Arrive(c, route, u, w, claim) ==
    /\ gw = "serving" /\ call[c] = NoCall
    /\ call' = [call EXCEPT ![c] = [route |-> route, at |-> "received", user |-> u,
                                    ws |-> w, claim |-> claim]]
    /\ answer' = NoAnswer
    /\ Keep

\* The token is looked for in three places, which the claim already tells.
ArriveVerify(c, u, h) == Arrive(c, "verify", u, parseAtlasID(h), Claim(u, h[Len(h)]))
ArriveCreate(c, u) == Arrive(c, "create", u, NoWorkspace, Claim(u, NoWorkspace))
ArriveStart(c, u, w) == Arrive(c, "start", u, w, Claim(u, w))
ArriveSignIn(c, route, u) ==
    token[u] = "none" /\ Arrive(c, route, u, NoWorkspace, "weak")

ClientLeaves(c) ==
    /\ call[c] # NoCall
    /\ call' = [call EXCEPT ![c] = NoCall] /\ answer' = NoAnswer
    /\ Keep

\* One RPC to auth-service decides; the code of a failure differs.
SignIn(c, route, failure) ==
    /\ On(c, route, "received")
    /\ \/ /\ "auth" \in up
          /\ token' = [token EXCEPT ![call[c].user] = IF @ = "none" THEN "valid" ELSE @]
          /\ Answered(c, 200)
       \/ Excused(c, failure) /\ UNCHANGED token
    /\ UNCHANGED <<gw, up, owner, cache>>

Signup(c) == SignIn(c, "signup", 500)
Login(c) == SignIn(c, "login", 401)
HandleGoogleCallback(c) == SignIn(c, "google", 500)
HandleGitHubCallback(c) == SignIn(c, "github", 500) \/ SignIn(c, "github", 400)

\* Mutant: redis is asked before the token is validated.
VerifyCachedFirst(c) ==
    /\ On(c, "verify", "received") \/ On(c, "verify", "validated")
    /\ <<call[c].user, call[c].ws>> \in cache
    /\ Answered(c, 200)
    /\ Keep

\* Every guarded route begins by asking auth-service about the token.
ValidateToken(c) ==
    /\ \E route \in Guarded : On(c, route, "received")
    /\ \/ "auth" \in up /\ token[call[c].user] = "valid" /\ call[c].claim # "late" /\ Go(c, "validated")
       \/ Excused(c, 401)           \* not valid any more, or no answer
    /\ Keep

\* No workspace is named, or redis remembers one.
VerifyNowhere(c) ==
    /\ On(c, "verify", "validated") /\ call[c].ws = NoWorkspace
    /\ Answered(c, 403)
    /\ Keep

VerifyCached(c) ==
    /\ On(c, "verify", "validated")
    /\ <<call[c].user, call[c].ws>> \in cache
    /\ Answered(c, 200)
    /\ Keep

\* Mutant: a key that redis does not hold is a denial.
VerifyMissedDenies(c) ==
    /\ On(c, "verify", "validated") /\ call[c].ws # NoWorkspace
    /\ Answered(c, 403)
    /\ Keep

\* Not there, or redis does not answer: the error is not looked at.
VerifyMissed(c) ==
    /\ On(c, "verify", "validated") /\ call[c].ws # NoWorkspace
    /\ Go(c, "missed")
    /\ Keep

IsOwner(c) ==
    /\ On(c, "verify", "missed")
    /\ \/ /\ "project" \in up
          /\ IF Owns(call[c].user, call[c].ws) THEN Go(c, "owned") ELSE Answered(c, 403)
       \/ Excused(c, 403)
    /\ Keep

\* Mutant: the key names the workspace alone.
RememberWorkspace(c) ==
    /\ On(c, "verify", "owned")
    /\ cache' = cache \cup (User \X {call[c].ws})
    /\ Answered(c, 200)
    /\ UNCHANGED <<gw, up, token, owner>>

\* Whether or not redis takes the key, the answer is yes.
Remember(c) ==
    /\ On(c, "verify", "owned")
    /\ cache' \in {cache, cache \cup {<<call[c].user, call[c].ws>>}}
    /\ Answered(c, 200)
    /\ UNCHANGED <<gw, up, token, owner>>

\* Redis drops the key after 30 seconds; its volume keeps it over restarts.
Forget(u, w) ==
    /\ <<u, w>> \in cache
    /\ cache' = cache \ {<<u, w>>} /\ answer' = NoAnswer
    /\ UNCHANGED <<gw, up, token, owner, call>>

\* The row may be inserted and the answer lost: "Internal server error".
CreateProject(c) ==
    /\ On(c, "create", "validated")
    /\ \/ /\ "project" \in up
          /\ \E w \in Workspace :
                /\ owner[w] = NoUser
                /\ owner' = [owner EXCEPT ![w] = call[c].user]
                /\ Reply(c, 200, w, call[c].claim) \/ Excused(c, 500)
       \/ Excused(c, 500) /\ UNCHANGED owner
    /\ UNCHANGED <<gw, up, token, cache>>

\* project-service refuses all but the owner; "400" is its ok = false.
StartWorkspace(c) ==
    /\ On(c, "start", "validated")
    /\ \/ /\ "project" \in up
          /\ Owns(call[c].user, call[c].ws)
          /\ Answered(c, 200) \/ Excused(c, 400)
       \/ Excused(c, 500)
    /\ Keep

\* 72 hours.
Expire(u) ==
    /\ token[u] = "valid"
    /\ token' = [token EXCEPT ![u] = "expired"] /\ answer' = NoAnswer
    /\ UNCHANGED <<gw, up, owner, cache, call>>

-----------------------------------------------------------------------------
Process == Boot \/ DialAuth \/ DialProject \/ DialFails \/ Signal \/ Drained \/ GraceOver \/ Crash

VerifyRequest(c) ==
    VerifyNowhere(c) \/ VerifyCached(c) \/ VerifyMissed(c) \/ IsOwner(c) \/ Remember(c)

Next ==
    \/ Process
    \/ \E s \in Service : ServiceStarts(s) \/ ServiceStops(s)
    \/ \E c \in Call, u \in User :
          \/ \E h \in Label : ArriveVerify(c, u, h)
          \/ ArriveCreate(c, u)
          \/ \E w \in Workspace : ArriveStart(c, u, w)
          \/ \E route \in SigningIn : ArriveSignIn(c, route, u)
    \/ \E c \in Call :
          \/ ClientLeaves(c)
          \/ Signup(c) \/ Login(c) \/ HandleGoogleCallback(c) \/ HandleGitHubCallback(c)
          \/ ValidateToken(c)
          \/ VerifyRequest(c) \/ CreateProject(c) \/ StartWorkspace(c)
    \/ \E u \in User, w \in Workspace : Forget(u, w)
    \/ \E u \in User : Expire(u)

Spec == Init /\ [][Next]_vars

\* The container is restarted, a dial to a service that answers returns, and
\* Shutdown returns; the gateway's RPCs have no deadline, so handlers may hang.
Fairness ==
    /\ WF_vars(Boot) /\ WF_vars(DialAuth) /\ WF_vars(DialProject)
    /\ WF_vars(Drained \/ GraceOver)

FairSpec == Spec /\ Fairness

-----------------------------------------------------------------------------
\* Whoever is let into a workspace, told that his project is created or started,
\* owns it, though the decision may be one redis kept of an earlier request.
AllowedIsOwner ==
    answer # NoAnswer /\ answer.code = 200 /\ answer.route \in Guarded
        => Owns(answer.user, answer.ws)

\* A request that arrives with a token that is not valid is refused, whatever
\* redis remembers of its user: 30 seconds of memory prolong no token.
LateTokensAreRefused ==
    answer # NoAnswer /\ answer.claim = "late" => answer.code = 401

\* An owner is sent away from his workspace only when his token expired under
\* the request or a service did not answer it: no earlier refusal, from before
\* he created the project, and no failure of redis, is held against him.
OwnersGetIn ==
    answer # NoAnswer /\ answer.route = "verify" /\ answer.claim = "good"
        => answer.code = 200

\* With both services up and nobody killing it, the gateway always serves again:
\* no order in which the three come up, and no request that hangs, keeps it away.
Undisturbed ==
    /\ <>[](up = Service)
    /\ <>[][gw' = "down" => gw = "draining"]_gw

ComesBack == Undisturbed => []<>(gw = "serving")
=============================================================================
