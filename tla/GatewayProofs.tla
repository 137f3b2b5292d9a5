---------------------------- MODULE GatewayProofs ----------------------------
(* Theorems about Gateway.                                                  *)
EXTENDS Gateway, TLAPS

Code == {200, 400, 401, 403, 500}
Place == {"received", "validated", "missed", "owned"}
Route == Guarded \cup SigningIn

\* What redis keeps, and what project-service has answered to a request under way,
\* is still so: a workspace that has an owner keeps him.
DecisionsHold ==
    /\ \A u \in User, w \in Workspace : <<u, w>> \in cache => owner[w] = u
    /\ \A c \in Call :
          call[c] # NoCall /\ call[c].at = "owned" => Owns(call[c].user, call[c].ws)

\* Nothing has been done for a request whose token was late.
LateGetNowhere ==
    \A c \in Call : call[c] # NoCall /\ call[c].claim = "late" =>
        call[c].at = "received" /\ call[c].route \in Guarded

\* A request that came from the owner is still the owner's, however long it takes.
GoodAreOwners ==
    \A c \in Call :
        call[c] # NoCall /\ call[c].claim = "good" => Owns(call[c].user, call[c].ws)

Requests == DecisionsHold /\ LateGetNowhere /\ GoodAreOwners
Answers == AllowedIsOwner /\ LateTokensAreRefused /\ OwnersGetIn
GatewayInv == TypeOK /\ Requests /\ Answers

-----------------------------------------------------------------------------
\* A slot that is taken holds a request.
LEMMA CallTyped ==
    ASSUME GatewayInv, NEW c \in Call, call[c] # NoCall
    PROVE  call[c] \in Request /\ call \in [Call -> Request \cup {NoCall}]
  BY DEF GatewayInv, TypeOK

\* A step that answers nobody, cuts requests off or leaves them, and leaves redis and
\* the table alone.
LEMMA QuietStep ==
    ASSUME GatewayInv,
           answer' = NoAnswer,
           gw' \in {"down", "dialing auth", "dialing project", "serving", "draining"},
           up' \subseteq Service,
           token' \in [User -> {"none", "valid", "expired"}],
           cache' \subseteq cache, UNCHANGED owner,
           call' \in [Call -> Request \cup {NoCall}],
           \A c \in Call : call'[c] \in {call[c], NoCall},
           (\E c \in Call : call'[c] # NoCall) => gw' \in {"serving", "draining"}
    PROVE  GatewayInv'
<1>1. TypeOK'
  BY DEF GatewayInv, TypeOK
<1>2. Requests'
  BY DEF GatewayInv, Requests, DecisionsHold, LateGetNowhere, GoodAreOwners, Owns
<1>3. Answers'
  BY DEF Answers, AllowedIsOwner, LateTokensAreRefused, OwnersGetIn
<1> QED BY <1>1, <1>2, <1>3 DEF GatewayInv

\* A request gets one step further: its token was not late, and it is let past
\* project-service for its own workspace only.
LEMMA GoStep ==
    ASSUME GatewayInv, NEW c \in Call, NEW place \in Place,
           call[c] # NoCall, call[c].claim # "late",
           place = "owned" => Owns(call[c].user, call[c].ws),
           Go(c, place), Keep
    PROVE  GatewayInv'
<1>1. call[c] \in Request /\ call \in [Call -> Request \cup {NoCall}]
  BY CallTyped
<1>2. call' = [call EXCEPT ![c].at = place] /\ answer' = NoAnswer
  BY DEF Go
<1>3. /\ [call[c] EXCEPT !.at = place] \in Request
      /\ call'[c] = [call[c] EXCEPT !.at = place]
      /\ \A d \in Call \ {c} : call'[d] = call[d]
      /\ call' \in [Call -> Request \cup {NoCall}]
  BY <1>1, <1>2 DEF Request, Place
<1>4. TypeOK'
  BY <1>2, <1>3 DEF Keep, GatewayInv, TypeOK
<1>5. Requests'
  BY <1>1, <1>3 DEF Keep, GatewayInv, Requests, DecisionsHold, LateGetNowhere, GoodAreOwners, Owns, Request
<1>6. Answers'
  BY <1>2 DEF Answers, AllowedIsOwner, LateTokensAreRefused, OwnersGetIn
<1> QED BY <1>4, <1>5, <1>6 DEF GatewayInv

\* What a reply that changes nothing else leaves as it is.
LEMMA Standing ==
    ASSUME GatewayInv
    PROVE  /\ token \in [User -> {"none", "valid", "expired"}]
           /\ owner \in [Workspace -> User \cup {NoUser}]
           /\ cache \subseteq User \X Workspace
           /\ \A u \in User, w \in Workspace : <<u, w>> \in cache => owner[w] = u
  BY DEF GatewayInv, TypeOK, Requests, DecisionsHold

\* A request is answered: yes to the owner alone, 401 to a late token, and yes to an
\* owner at the door.
LEMMA ReplyStep ==
    ASSUME GatewayInv, NEW c \in Call, NEW code \in Code,
           NEW ws \in Workspace \cup {NoWorkspace}, NEW claim \in Claims,
           call[c] # NoCall,
           Reply(c, code, ws, claim),
           UNCHANGED <<gw, up>>,
           token' \in [User -> {"none", "valid", "expired"}],
           owner' \in [Workspace -> User \cup {NoUser}],
           cache' \subseteq User \X Workspace,
           \A w \in Workspace : owner[w] # NoUser => owner'[w] = owner[w],
           \A u \in User, w \in Workspace : <<u, w>> \in cache' => owner'[w] = u,
           code = 200 /\ call[c].route \in Guarded => ws \in Workspace /\ owner'[ws] = call[c].user,
           claim = "late" => code = 401,
           claim = "good" /\ call[c].route = "verify" => code = 200
    PROVE  GatewayInv'
<1>1. call[c] \in Request /\ call \in [Call -> Request \cup {NoCall}]
  BY CallTyped
<1>2. /\ answer' = [route |-> call[c].route, user |-> call[c].user, ws |-> ws,
                    claim |-> claim, code |-> code]
      /\ call' = [call EXCEPT ![c] = NoCall]
  BY DEF Reply
<1>3. answer' \in Answer
  BY <1>1, <1>2 DEF Request, Answer, Code
<1>4. TypeOK'
  BY <1>1, <1>2, <1>3 DEF GatewayInv, TypeOK
<1>5. \A d \in Call : call'[d] # NoCall => d # c /\ call'[d] = call[d] /\ call[d] \in Request
  BY <1>1, <1>2
<1>6. Requests'
  BY <1>5, NullsAreNull DEF GatewayInv, Requests, DecisionsHold, LateGetNowhere, GoodAreOwners, Owns, Request
<1>7. Answers'
  BY <1>2 DEF Answers, AllowedIsOwner, LateTokensAreRefused, OwnersGetIn, Owns
<1> QED BY <1>4, <1>6, <1>7 DEF GatewayInv

\* The same, when the answer says nothing but what the request deserves.
LEMMA AnsweredStep ==
    ASSUME GatewayInv, NEW c \in Call, NEW code \in Code,
           call[c] # NoCall, call[c].claim # "late",
           Answered(c, code) \/ Excused(c, code),
           code = 200 => Owns(call[c].user, call[c].ws),
           \/ code = 200 \/ Excused(c, code)
           \/ call[c].route # "verify" \/ ~Owns(call[c].user, call[c].ws),
           Keep
    PROVE  GatewayInv'
<1>1. call[c] \in Request
  BY CallTyped
<1>2. PICK claim \in Claims \ {"late"} :
          /\ Reply(c, code, call[c].ws, claim)
          /\ claim = "good" /\ call[c].route = "verify" => code = 200
  <2>1. call[c].claim = "good" => Owns(call[c].user, call[c].ws)
    BY DEF GatewayInv, Requests, GoodAreOwners
  <2> QED BY <1>1, <2>1 DEF Answered, Excused, Request, Claims
<1>3. call[c].ws \in Workspace \cup {NoWorkspace}
  BY <1>1 DEF Request
<1>4. UNCHANGED <<gw, up, token, owner, cache>>
  BY DEF Keep
<1>5. code = 200 => call[c].ws \in Workspace /\ owner[call[c].ws] = call[c].user
  BY DEF Owns
<1> QED BY <1>2, <1>3, <1>4, <1>5, Standing, ReplyStep

-----------------------------------------------------------------------------
\* An atlas id is taken out of every label that names one.
LEMMA AtlasIDTyped ==
    ASSUME NEW h \in Label PROVE parseAtlasID(h) \in Workspace \cup {NoWorkspace}
<1> DEFINE ids == {i \in DOMAIN h : h[i] \in Workspace}
<1>1. DOMAIN h \in {1..1, 1..2}
  BY DEF Label
<1>2. CASE ids = {}
  BY <1>2 DEF parseAtlasID
<1>3. CASE ids # {}
  <2>1. PICK i \in ids : \A j \in ids : i <= j
    <3>1. ids \subseteq {1, 2}
      BY <1>1
    <3> QED BY <1>3, <3>1
  <2>2. Min(ids) \in ids
    BY <2>1 DEF Min
  <2> QED BY <1>3, <2>2 DEF parseAtlasID
<1> QED BY <1>2, <1>3

\* A request arrives with the claim its user's token and workspace give it.
LEMMA ArriveStep ==
    ASSUME GatewayInv, NEW c \in Call, NEW route \in Route, NEW u \in User,
           NEW w \in Workspace \cup {NoWorkspace}, NEW claim \in Claims,
           claim = "late" => route \in Guarded,
           claim = "good" => Owns(u, w),
           Arrive(c, route, u, w, claim)
    PROVE  GatewayInv'
<1> DEFINE r == [route |-> route, at |-> "received", user |-> u, ws |-> w, claim |-> claim]
<1>1. call \in [Call -> Request \cup {NoCall}]
  BY DEF GatewayInv, TypeOK
<1>2. /\ call' = [call EXCEPT ![c] = r] /\ answer' = NoAnswer
      /\ gw = "serving" /\ UNCHANGED <<gw, up, token, owner, cache>>
  BY DEF Arrive, Keep
<1>3. r \in Request
  BY DEF Request, Route
<1>4. TypeOK'
  BY <1>1, <1>2, <1>3 DEF GatewayInv, TypeOK
<1>5. call'[c] = r /\ \A d \in Call \ {c} : call'[d] = call[d]
  BY <1>1, <1>2
<1>6. /\ r.at = "received" /\ (r.claim = "late" => r.route \in Guarded)
      /\ r.claim = "good" => Owns(r.user, r.ws)
  OBVIOUS
<1> HIDE DEF r
<1>7. Requests'
  BY <1>2, <1>5, <1>6 DEF GatewayInv, Requests, DecisionsHold, LateGetNowhere, GoodAreOwners, Owns
<1>8. Answers'
  BY <1>2 DEF Answers, AllowedIsOwner, LateTokensAreRefused, OwnersGetIn
<1> QED BY <1>4, <1>7, <1>8 DEF GatewayInv

LEMMA ClaimTyped ==
    ASSUME NEW u, NEW w
    PROVE  Claim(u, w) \in Claims /\ (Claim(u, w) = "good" => Owns(u, w))
  BY DEF Claim, Claims

\* A label that ends in an atlas id is read as that id.
LEMMA OwnLabel ==
    ASSUME NEW h \in Label, h[Len(h)] \in Workspace PROVE parseAtlasID(h) = h[Len(h)]
<1> DEFINE ids == {i \in DOMAIN h : h[i] \in Workspace}
<1>1. ids = {Len(h)}
  BY PrefixesAreNoIds DEF Label
<1>2. Min(ids) = Len(h)
  BY <1>1 DEF Min
<1> QED BY <1>1, <1>2 DEF parseAtlasID

LEMMA ArriveSteps ==
    ASSUME GatewayInv, NEW c \in Call, NEW u \in User
    PROVE  /\ \A h \in Label : ArriveVerify(c, u, h) => GatewayInv'
           /\ ArriveCreate(c, u) => GatewayInv'
           /\ \A w \in Workspace : ArriveStart(c, u, w) => GatewayInv'
           /\ \A route \in SigningIn : ArriveSignIn(c, route, u) => GatewayInv'
<1>1. ASSUME NEW h \in Label, ArriveVerify(c, u, h) PROVE GatewayInv'
  <2> DEFINE claim == Claim(u, h[Len(h)])
  <2>1. claim \in Claims /\ (claim = "good" => Owns(u, parseAtlasID(h)))
    BY ClaimTyped, OwnLabel DEF Owns
  <2>2. Arrive(c, "verify", u, parseAtlasID(h), claim)
    BY <1>1 DEF ArriveVerify
  <2> HIDE DEF claim
  <2> QED BY <2>1, <2>2, ArriveStep, AtlasIDTyped DEF Route, Guarded
<1>2. ASSUME ArriveCreate(c, u) PROVE GatewayInv'
  BY <1>2, ArriveStep, ClaimTyped DEF ArriveCreate, Route, Guarded
<1>3. ASSUME NEW w \in Workspace, ArriveStart(c, u, w) PROVE GatewayInv'
  BY <1>3, ArriveStep, ClaimTyped DEF ArriveStart, Route, Guarded
<1>4. ASSUME NEW route \in SigningIn, ArriveSignIn(c, route, u) PROVE GatewayInv'
  BY <1>4, ArriveStep DEF ArriveSignIn, Route, Claims
<1> QED BY <1>1, <1>2, <1>3, <1>4

-----------------------------------------------------------------------------
LEMMA ProcessStep == ASSUME GatewayInv, Process PROVE GatewayInv'
<1>1. ASSUME NEW from, NEW to \in {"down", "dialing auth", "dialing project", "serving", "draining"},
             Main(from, to),
             \/ UNCHANGED call /\ (InFlight # {} => to \in {"serving", "draining"})
             \/ call' = [c \in Call |-> NoCall]
      PROVE  GatewayInv'
  <2>1. /\ answer' = NoAnswer /\ gw' = to /\ UNCHANGED <<up, token, owner, cache>>
        /\ TypeOK
    BY <1>1 DEF Main, GatewayInv
  <2>2. /\ call' \in [Call -> Request \cup {NoCall}]
        /\ \A c \in Call : call'[c] \in {call[c], NoCall}
        /\ (\E c \in Call : call'[c] # NoCall) => gw' \in {"serving", "draining"}
    BY <1>1, <2>1 DEF TypeOK, InFlight
  <2> QED BY <2>1, <2>2, QuietStep DEF TypeOK
<1>2. gw \notin {"serving", "draining"} => InFlight = {}
  BY DEF GatewayInv, TypeOK, InFlight
<1>3. CASE Boot
  BY <1>1, <1>2, <1>3 DEF Boot, Main
<1>4. CASE DialAuth
  BY <1>1, <1>2, <1>4 DEF DialAuth, Main
<1>5. CASE DialProject
  BY <1>1, <1>5 DEF DialProject
<1>6. CASE DialFails
  BY <1>1, <1>2, <1>6 DEF DialFails, Main
<1>7. CASE Signal
  BY <1>1, <1>7 DEF Signal
<1>8. CASE Drained
  BY <1>1, <1>8 DEF Drained
<1>9. CASE GraceOver
  BY <1>1, <1>9 DEF GraceOver
<1>10. CASE Crash
  BY <1>1, <1>10 DEF Crash
<1> QED BY <1>3, <1>4, <1>5, <1>6, <1>7, <1>8, <1>9, <1>10 DEF Process

\* Services come and go, tokens expire, redis forgets and clients leave.
LEMMA WorldSteps ==
    ASSUME GatewayInv
    PROVE  /\ \A s \in Service : ServiceStarts(s) \/ ServiceStops(s) => GatewayInv'
           /\ \A u \in User, w \in Workspace : Forget(u, w) => GatewayInv'
           /\ \A u \in User : Expire(u) => GatewayInv'
           /\ \A c \in Call : ClientLeaves(c) => GatewayInv'
<1>1. TypeOK /\ \A c \in Call : call[c] \in {call[c], NoCall}
  BY DEF GatewayInv
<1>2. ASSUME NEW s \in Service, ServiceStarts(s) \/ ServiceStops(s) PROVE GatewayInv'
  BY <1>1, <1>2, QuietStep DEF ServiceStarts, ServiceStops, TypeOK
<1>3. ASSUME NEW u \in User, NEW w \in Workspace, Forget(u, w) PROVE GatewayInv'
  BY <1>1, <1>3, QuietStep DEF Forget, TypeOK
<1>4. ASSUME NEW u \in User, Expire(u) PROVE GatewayInv'
  BY <1>1, <1>4, QuietStep DEF Expire, TypeOK
<1>5. ASSUME NEW c \in Call, ClientLeaves(c) PROVE GatewayInv'
  BY <1>1, <1>5, QuietStep DEF ClientLeaves, Keep, TypeOK
<1> QED BY <1>2, <1>3, <1>4, <1>5

\* The routes that sign in: nothing was claimed, whatever the service answers.
LEMMA SignInStep ==
    ASSUME GatewayInv, NEW c \in Call, NEW route \in SigningIn, NEW failure \in {400, 401, 500},
           SignIn(c, route, failure)
    PROVE  GatewayInv'
<1>1. call[c] # NoCall /\ call[c].route = route /\ call[c] \in Request
  BY CallTyped DEF SignIn, On
<1>2. route \notin Guarded /\ route # "verify"
  BY DEF SigningIn, Guarded
<1>3. call[c].claim # "late"
  BY <1>1, <1>2 DEF GatewayInv, Requests, LateGetNowhere
<1>4. token' \in [User -> {"none", "valid", "expired"}]
  <2>1. call[c].user \in User
    BY <1>1 DEF Request
  <2> QED BY <2>1, Standing DEF SignIn
<1>5. PICK code \in Code, claim \in Claims \ {"late"} : Reply(c, code, call[c].ws, claim)
  BY <1>1, <1>3 DEF SignIn, Answered, Excused, Code, Claims, Request
<1> QED BY <1>1, <1>2, <1>4, <1>5, Standing, ReplyStep DEF SignIn, Request

\* The handler of /verify and the check before every guarded route.
LEMMA VerifySteps ==
    ASSUME GatewayInv, NEW c \in Call, ValidateToken(c) \/ VerifyRequest(c)
    PROVE  GatewayInv'
<1>1. call[c] # NoCall /\ call[c] \in Request
  BY CallTyped DEF ValidateToken, VerifyRequest, On, VerifyNowhere, VerifyCached,
     VerifyMissed, IsOwner, Remember
<1>2. call[c].at # "received" => call[c].claim # "late"
  BY <1>1 DEF GatewayInv, Requests, LateGetNowhere
<1>3. CASE ValidateToken(c)
  <2>1. CASE call[c].claim # "late" /\ Go(c, "validated")
    BY <1>1, <1>3, <2>1, GoStep DEF ValidateToken, Place
  <2>2. CASE Excused(c, 401)
    <3>1. PICK claim \in {"late", "weak"} : Reply(c, 401, call[c].ws, claim)
      BY <2>2 DEF Excused
    <3>2. call[c].ws \in Workspace \cup {NoWorkspace} /\ 401 \in Code /\ 401 # 200
      BY <1>1 DEF Request, Code
    <3>3. UNCHANGED <<gw, up, token, owner, cache>>
      BY <1>3 DEF ValidateToken, Keep
    <3> QED BY <1>1, <3>1, <3>2, <3>3, Standing, ReplyStep DEF Claims
  <2> QED BY <1>3, <2>1, <2>2 DEF ValidateToken
<1>4. CASE VerifyNowhere(c)
  <2>1. ~Owns(call[c].user, call[c].ws)
    BY <1>4, NullsAreNull DEF VerifyNowhere, Owns
  <2> QED BY <1>1, <1>2, <1>4, <2>1, AnsweredStep DEF VerifyNowhere, On, Code
<1>5. CASE VerifyCached(c)
  <2>1. Owns(call[c].user, call[c].ws)
    BY <1>5 DEF VerifyCached, GatewayInv, TypeOK, Requests, DecisionsHold, Owns
  <2> QED BY <1>1, <1>2, <1>5, <2>1, AnsweredStep DEF VerifyCached, On, Code
<1>6. CASE VerifyMissed(c)
  BY <1>1, <1>2, <1>6, GoStep DEF VerifyMissed, On, Place
<1>7. CASE IsOwner(c)
  <2>1. CASE Owns(call[c].user, call[c].ws) /\ Go(c, "owned")
    BY <1>1, <1>2, <1>7, <2>1, GoStep DEF IsOwner, On, Place
  <2>2. CASE (~Owns(call[c].user, call[c].ws) /\ Answered(c, 403)) \/ Excused(c, 403)
    BY <1>1, <1>2, <1>7, <2>2, AnsweredStep DEF IsOwner, On, Code
  <2> QED BY <1>7, <2>1, <2>2 DEF IsOwner
<1>8. CASE Remember(c)
  <2>1. Owns(call[c].user, call[c].ws)
    BY <1>8 DEF Remember, On, GatewayInv, Requests, DecisionsHold
  <2>2. /\ cache' \subseteq User \X Workspace
        /\ \A u \in User, w \in Workspace : <<u, w>> \in cache' => owner[w] = u
    <3>1. cache' \subseteq cache \cup {<<call[c].user, call[c].ws>>}
      BY <1>8 DEF Remember
    <3>2. call[c].user \in User /\ call[c].ws \in Workspace /\ owner[call[c].ws] = call[c].user
      BY <1>1, <2>1 DEF Request, Owns
    <3> QED BY <3>1, <3>2, Standing
  <2>3. Reply(c, 200, call[c].ws, call[c].claim) /\ call[c].claim # "late"
    BY <1>2, <1>8 DEF Remember, Answered, On
  <2>4. /\ call[c].ws \in Workspace /\ owner[call[c].ws] = call[c].user
        /\ call[c].claim \in Claims /\ 200 \in Code
    BY <1>1, <2>1 DEF Owns, Request, Code
  <2>5. UNCHANGED <<gw, up, token, owner>>
    BY <1>8 DEF Remember
  <2> QED BY <1>1, <2>2, <2>3, <2>4, <2>5, Standing, ReplyStep
<1> QED BY <1>3, <1>4, <1>5, <1>6, <1>7, <1>8 DEF VerifyRequest

\* A project that is created had no row, hence no owner to lose it.
LEMMA ProjectSteps ==
    ASSUME GatewayInv, NEW c \in Call, CreateProject(c) \/ StartWorkspace(c)
    PROVE  GatewayInv'
<1>1. call[c] # NoCall /\ call[c] \in Request
  BY CallTyped DEF CreateProject, StartWorkspace, On
<1>2. call[c].at # "received" => call[c].claim # "late"
  BY <1>1 DEF GatewayInv, Requests, LateGetNowhere
<1>3. CASE CreateProject(c)
  <2>1. call[c].claim # "late"
    BY <1>2, <1>3 DEF CreateProject, On
  <2>2. CASE Excused(c, 500) /\ UNCHANGED owner
    BY <1>1, <1>3, <2>1, <2>2, AnsweredStep DEF CreateProject, Keep, Code
  <2>3. ASSUME NEW w \in Workspace, owner[w] = NoUser,
               owner' = [owner EXCEPT ![w] = call[c].user],
               Reply(c, 200, w, call[c].claim) \/ Excused(c, 500)
        PROVE  GatewayInv'
    <3>1. /\ owner' \in [Workspace -> User \cup {NoUser}]
          /\ owner'[w] = call[c].user
          /\ \A v \in Workspace : owner[v] # NoUser => owner'[v] = owner[v]
          /\ \A u \in User, v \in Workspace : <<u, v>> \in cache => owner'[v] = u
      BY <1>1, <2>3, NullsAreNull DEF Request, GatewayInv, TypeOK, Requests, DecisionsHold
    <3>2. PICK code \in {200, 500}, ws \in {w, call[c].ws}, claim \in Claims \ {"late"} :
              Reply(c, code, ws, claim) /\ (code = 200 => ws = w)
      BY <1>1, <2>1, <2>3 DEF Excused, Claims, Request
    <3>3. ws \in Workspace \cup {NoWorkspace}
      BY <1>1, <3>2 DEF Request
    <3>4. /\ UNCHANGED <<gw, up, token, cache>>
          /\ token \in [User -> {"none", "valid", "expired"}] /\ cache \subseteq User \X Workspace
      BY <1>3 DEF CreateProject, GatewayInv, TypeOK
    <3>5. call[c].route = "create"
      BY <1>3 DEF CreateProject, On
    <3> QED BY <1>1, <3>1, <3>2, <3>3, <3>4, <3>5, ReplyStep DEF Code
  <2> QED BY <1>3, <2>2, <2>3 DEF CreateProject
<1>4. CASE StartWorkspace(c)
  BY <1>1, <1>2, <1>4, AnsweredStep DEF StartWorkspace, On, Code
<1> QED BY <1>3, <1>4

LEMMA NextStep == GatewayInv /\ [Next]_vars => GatewayInv'
<1> SUFFICES ASSUME GatewayInv, [Next]_vars PROVE GatewayInv'
  OBVIOUS
<1>1. CASE Process
  BY <1>1, ProcessStep
<1>2. ASSUME NEW c \in Call,
             \/ Signup(c) \/ Login(c) \/ HandleGoogleCallback(c) \/ HandleGitHubCallback(c)
             \/ ValidateToken(c) \/ VerifyRequest(c) \/ CreateProject(c) \/ StartWorkspace(c)
      PROVE  GatewayInv'
  BY <1>2, SignInStep, VerifySteps, ProjectSteps
  DEF Signup, Login, HandleGoogleCallback, HandleGitHubCallback, SigningIn
<1>3. CASE UNCHANGED vars
  <2>1. TypeOK'
    BY <1>3 DEF vars, GatewayInv, TypeOK
  <2>2. Requests'
    BY <1>3 DEF vars, GatewayInv, Requests, DecisionsHold, LateGetNowhere, GoodAreOwners, Owns
  <2>3. Answers'
    BY <1>3 DEF vars, GatewayInv, Answers, AllowedIsOwner, LateTokensAreRefused, OwnersGetIn, Owns
  <2> QED BY <2>1, <2>2, <2>3 DEF GatewayInv
<1> QED BY <1>1, <1>2, <1>3, WorldSteps, ArriveSteps DEF Next

LEMMA GatewayAlways == Spec => []GatewayInv
<1>1. Init => GatewayInv
  BY DEF Init, GatewayInv, TypeOK, Requests, DecisionsHold, LateGetNowhere, GoodAreOwners, Answers,
     AllowedIsOwner, LateTokensAreRefused, OwnersGetIn, Service
<1> QED BY <1>1, NextStep, PTL DEF Spec

-----------------------------------------------------------------------------
\* Types, among them that no request outlives the process that serves it.
THEOREM GatewayTyped == Spec => []TypeOK
  BY GatewayAlways, PTL DEF GatewayInv

\* Whatever redis keeps and whichever services and processes come and go: who is let
\* into a workspace, or told that his project is created or started, owns it.
THEOREM OnlyOwnersAreLetIn == Spec => []AllowedIsOwner
  BY GatewayAlways, PTL DEF GatewayInv, Answers

\* An owner who asks for his workspace is let in, unless his token expires under the
\* request or a service does not answer: neither what redis remembers nor what it has
\* lost is held against him.
THEOREM OwnersAreLetIn == Spec => []OwnersGetIn
  BY GatewayAlways, PTL DEF GatewayInv, Answers

\* A token that is not valid when its request arrives is refused on every guarded
\* route, before redis is asked.
THEOREM LateTokensGetNothing == Spec => []LateTokensAreRefused
  BY GatewayAlways, PTL DEF GatewayInv, Answers
=============================================================================
