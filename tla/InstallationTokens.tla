------------------------- MODULE InstallationTokens -------------------------
(***************************************************************************)
(* auth-service: GitHub App installations and the repository tokens minted *)
(* from them (HandleGitHubCallback, GenerateRepoToken and its table).      *)
(*                                                                         *)
(* An installation's row caches the token minted last.  Calls run side by  *)
(* side: two of them may find the cache empty, mint two tokens and store   *)
(* them in either order.  A token stands for the instant it was minted at. *)
(***************************************************************************)
EXTENDS Integers

CONSTANTS
    User, NoUser,
    Installation,
    Call,        \* slots for GenerateRepoToken calls served at the same time
    CacheLife,   \* a cached token is handed out for so long: 50 minutes
    TokenLife,   \* GitHub honours a token for so long: 60 minutes
    Delay,       \* a call stores a token at most so long after it was minted
    MaxTime      \* bound: the instants of a run

ASSUME TimeAssumption ==
    /\ CacheLife \in Nat /\ TokenLife \in Nat /\ Delay \in Nat /\ MaxTime \in Nat
    /\ CacheLife + Delay <= TokenLife
    /\ Delay < TokenLife

ASSUME NullAssumption == NoUser \notin User

VARIABLES
    row,     \* row[i]: the row of installation i; NoRow before it is linked
    now,
    call,    \* call[c]: Idle, or what the call has found so far
    given    \* given[c]: what slot c's last call answered, None before it did

vars == <<row, now, call, given>>

Time == 0..MaxTime
NoRow == [user |-> NoUser, minted |-> 0, expiry |-> 0]    \* expiry 0: no token
Row == [user : User \cup {NoUser}, minted : Time, expiry : 0..(MaxTime + CacheLife)]

Idle == [step |-> "idle"]
Minting == [step : {"minting"}, user : User, inst : Installation]
Storing == [step : {"storing"}, user : User, inst : Installation, minted : Time]
None == [step |-> "none"]
Given == [user : User, inst : Installation, minted : Time, at : Time]

TypeOK ==
    /\ row \in [Installation -> Row]
    /\ now \in Time
    /\ call \in [Call -> {Idle} \cup Minting \cup Storing]
    /\ given \in [Call -> {None} \cup Given]

Init ==
    /\ row = [i \in Installation |-> NoRow]
    /\ now = 0
    /\ call = [c \in Call |-> Idle]
    /\ given = [c \in Call |-> None]

-----------------------------------------------------------------------------
\* Mutant: on conflict the row goes to whoever links the installation last.
HandleGitHubCallbackTakesOver(u, i) ==
    /\ row' = [row EXCEPT ![i].user = u]
    /\ UNCHANGED <<now, call, given>>

\* The user exists and GitHub knows the installation.  The insert does nothing
\* when the installation has a row, whoever it belongs to, and reports success.
HandleGitHubCallback(u, i) ==
    /\ row' = IF row[i] = NoRow THEN [row EXCEPT ![i].user = u] ELSE row
    /\ UNCHANGED <<now, call, given>>

-----------------------------------------------------------------------------
(* GenerateRepoToken.  FindByUserID asks for no order: any of the user's    *)
(* installations may come first.  Without one the call is refused.          *)

Answer(c, u, i, minted) ==
    given' = [given EXCEPT ![c] = [user |-> u, inst |-> i, minted |-> minted, at |-> now]]

Cached(i) == row[i].expiry > now

\* Mutant: a cached token is handed out whatever its age.
AnswerAnyCached(c, u, i) ==
    /\ call[c] = Idle /\ row[i].user = u
    /\ row[i].expiry # 0
    /\ Answer(c, u, i, row[i].minted)
    /\ UNCHANGED <<row, now, call>>

AnswerCached(c, u, i) ==
    /\ call[c] = Idle /\ row[i].user = u
    /\ Cached(i)
    /\ Answer(c, u, i, row[i].minted)
    /\ UNCHANGED <<row, now, call>>

FindUncached(c, u, i) ==
    /\ call[c] = Idle /\ row[i].user = u
    /\ ~Cached(i)
    /\ call' = [call EXCEPT ![c] = [step |-> "minting", user |-> u, inst |-> i]]
    /\ UNCHANGED <<row, now, given>>

\* GitHub mints a token.
Mint(c) ==
    /\ call[c].step = "minting"
    /\ call' = [call EXCEPT ![c] =
          [step |-> "storing", user |-> @.user, inst |-> @.inst, minted |-> now]]
    /\ UNCHANGED <<row, now, given>>

MintFails(c) ==
    /\ call[c].step = "minting"
    /\ call' = [call EXCEPT ![c] = Idle]
    /\ UNCHANGED <<row, now, given>>

\* Mutant: the time the cached token is kept for is rounded to GitHub's own.
StoreForTokenLife(c) ==
    /\ call[c].step = "storing"
    /\ row' = [row EXCEPT ![call[c].inst].minted = call[c].minted,
                          ![call[c].inst].expiry = now + TokenLife]
    /\ Answer(c, call[c].user, call[c].inst, call[c].minted)
    /\ call' = [call EXCEPT ![c] = Idle]
    /\ UNCHANGED now

\* UpdateAccessToken stores the token with an expiry counted from now; when it
\* fails the token is answered all the same.
Store(c) ==
    /\ call[c].step = "storing"
    /\ \/ row' = [row EXCEPT ![call[c].inst].minted = call[c].minted,
                             ![call[c].inst].expiry = now + CacheLife]
       \/ UNCHANGED row
    /\ Answer(c, call[c].user, call[c].inst, call[c].minted)
    /\ call' = [call EXCEPT ![c] = Idle]
    /\ UNCHANGED now

-----------------------------------------------------------------------------
Late(c) == call[c].step = "storing" /\ now >= call[c].minted + Delay

Tick ==
    /\ now < MaxTime
    /\ \A c \in Call : ~Late(c)
    /\ now' = now + 1
    /\ UNCHANGED <<row, call, given>>

Next ==
    \/ \E u \in User, i \in Installation : HandleGitHubCallback(u, i)
    \/ \E c \in Call, u \in User, i \in Installation :
          AnswerCached(c, u, i) \/ FindUncached(c, u, i)
    \/ \E c \in Call : Mint(c) \/ MintFails(c) \/ Store(c)
    \/ Tick

Spec == Init /\ [][Next]_vars

-----------------------------------------------------------------------------
\* A token handed to StartWorkspace is one GitHub still honours, however calls
\* that found the cache empty interleave and in whatever order they store.
TokensAreHonoured ==
    \A c \in Call : given[c] # None => given[c].at < given[c].minted + TokenLife

\* A token opens the repositories of one installation, and is only given to the
\* user that installation's row belongs to: a second user who links it changes
\* nothing for the calls in flight, nor for later ones.
TokensStayWithTheirUser ==
    \A c \in Call : given[c] # None => row[given[c].inst].user = given[c].user
=============================================================================
