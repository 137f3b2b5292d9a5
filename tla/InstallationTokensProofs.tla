---------------------- MODULE InstallationTokensProofs ----------------------
(* Theorems about InstallationTokens.                                       *)
EXTENDS InstallationTokens, TLAPS

\* A cached token is not handed out past TokenLife, because its row's expiry was
\* set at most Delay after it was minted.
CacheInv ==
    \A i \in Installation :
        row[i].expiry # 0 => row[i].expiry <= row[i].minted + Delay + CacheLife

\* What a call has found: an installation that is still its user's, a token
\* minted not more than Delay ago.
CallInv ==
    \A c \in Call :
        /\ call[c] \in Minting \cup Storing => row[call[c].inst].user = call[c].user
        /\ call[c] \in Storing => call[c].minted <= now /\ now <= call[c].minted + Delay

TokenInv == TypeOK /\ CacheInv /\ CallInv /\ TokensAreHonoured /\ TokensStayWithTheirUser

LEMMA InitTokens == Init => TokenInv
  BY TimeAssumption, NullAssumption
  DEF Init, TokenInv, TypeOK, CacheInv, CallInv, TokensAreHonoured,
      TokensStayWithTheirUser, NoRow, Row, Idle, None, Time, Minting, Storing

\* Every step keeps TokenInv.
LEMMA NextTokens == TokenInv /\ [Next]_vars => TokenInv'
<1> SUFFICES ASSUME TokenInv, [Next]_vars PROVE TokenInv'
  OBVIOUS
<1> USE TimeAssumption, NullAssumption
<1>1. ASSUME NEW u \in User, NEW i \in Installation, HandleGitHubCallback(u, i)
      PROVE  TokenInv'
  <2>1. CASE row[i] = NoRow
    <3>1. row[i].user \notin User /\ row[i].expiry = 0 /\ row[i].minted = 0
      BY <2>1 DEF NoRow
    <3>2. row' = [row EXCEPT ![i].user = u] /\ UNCHANGED <<now, call, given>>
      BY <1>1, <2>1 DEF HandleGitHubCallback
    <3>3. TypeOK' /\ CacheInv'
      BY <1>1, <3>2 DEF TokenInv, TypeOK, CacheInv, Row, HandleGitHubCallback
    <3>4. CallInv'
      BY <3>1, <3>2 DEF TokenInv, TypeOK, CallInv, Row, Minting, Storing
    <3>5. TokensAreHonoured' /\ TokensStayWithTheirUser'
      BY <3>1, <3>2 DEF TokenInv, TypeOK, TokensAreHonoured, TokensStayWithTheirUser,
         Row, Given
    <3> QED BY <3>3, <3>4, <3>5 DEF TokenInv
  <2>2. CASE row[i] # NoRow
    BY <1>1, <2>2 DEF HandleGitHubCallback, TokenInv, TypeOK, CacheInv, CallInv,
       TokensAreHonoured, TokensStayWithTheirUser
  <2> QED BY <2>1, <2>2
<1>2. ASSUME NEW c \in Call, NEW u \in User, NEW i \in Installation, AnswerCached(c, u, i)
      PROVE  TokenInv'
  <2>1. row[i].expiry # 0 /\ now < row[i].minted + TokenLife
    BY <1>2 DEF AnswerCached, Cached, TokenInv, TypeOK, CacheInv, Row, Time
  <2>2. given' = [given EXCEPT ![c] =
             [user |-> u, inst |-> i, minted |-> row[i].minted, at |-> now]]
        /\ UNCHANGED <<row, now, call>> /\ row[i].user = u
    BY <1>2 DEF AnswerCached, Answer
  <2>3. TypeOK' /\ CacheInv' /\ CallInv'
    BY <2>2 DEF TokenInv, TypeOK, CacheInv, CallInv, Row, Given
  <2>4. TokensAreHonoured' /\ TokensStayWithTheirUser'
    BY <2>1, <2>2 DEF TokenInv, TypeOK, TokensAreHonoured, TokensStayWithTheirUser
  <2> QED BY <2>3, <2>4 DEF TokenInv
<1>3. ASSUME NEW c \in Call, NEW u \in User, NEW i \in Installation, FindUncached(c, u, i)
      PROVE  TokenInv'
  <2>1. TypeOK' /\ CacheInv' /\ TokensAreHonoured' /\ TokensStayWithTheirUser'
    BY <1>3 DEF FindUncached, TokenInv, TypeOK, CacheInv, TokensAreHonoured,
       TokensStayWithTheirUser, Minting
  <2>2. CallInv'
    BY <1>3 DEF FindUncached, TokenInv, TypeOK, CallInv, Minting, Storing
  <2> QED BY <2>1, <2>2 DEF TokenInv
<1>4. ASSUME NEW c \in Call, Mint(c) PROVE TokenInv'
  <2>1. call[c] \in Minting
    BY <1>4 DEF Mint, TokenInv, TypeOK, Idle, Storing
  <2>2. TypeOK' /\ CacheInv' /\ TokensAreHonoured' /\ TokensStayWithTheirUser'
    BY <1>4, <2>1 DEF Mint, TokenInv, TypeOK, CacheInv, TokensAreHonoured,
       TokensStayWithTheirUser, Minting, Storing
  <2>3. CallInv'
    BY <1>4, <2>1 DEF Mint, TokenInv, TypeOK, CallInv, Minting, Storing, Time
  <2> QED BY <2>2, <2>3 DEF TokenInv
<1>5. ASSUME NEW c \in Call, MintFails(c) PROVE TokenInv'
  BY <1>5 DEF MintFails, TokenInv, TypeOK, CacheInv, CallInv, TokensAreHonoured,
     TokensStayWithTheirUser, Idle, Minting, Storing
<1>6. ASSUME NEW c \in Call, Store(c) PROVE TokenInv'
  <2>1. /\ call[c] \in Storing
        /\ row[call[c].inst].user = call[c].user
        /\ call[c].minted <= now /\ now <= call[c].minted + Delay
    BY <1>6 DEF Store, TokenInv, TypeOK, CallInv, Idle, Minting
  <2>2. /\ given' = [given EXCEPT ![c] = [user |-> call[c].user, inst |-> call[c].inst,
                                          minted |-> call[c].minted, at |-> now]]
        /\ call' = [call EXCEPT ![c] = Idle]
        /\ UNCHANGED now
    BY <1>6 DEF Store, Answer
  <2>3. \A i \in Installation : row'[i].user = row[i].user
    BY <1>6, <2>1 DEF Store, TokenInv, TypeOK, Row, Storing
  <2>4. TypeOK'
    <3>1. row' \in [Installation -> Row]
      BY <1>6, <2>1 DEF Store, TokenInv, TypeOK, Row, Storing, Time
    <3> QED BY <3>1, <2>1, <2>2 DEF TokenInv, TypeOK, Storing, Given
  <2>5. CacheInv'
    <3>1. CASE row' = [row EXCEPT ![call[c].inst].minted = call[c].minted,
                                  ![call[c].inst].expiry = now + CacheLife]
      <4> SUFFICES ASSUME NEW i \in Installation
                   PROVE  row'[i].expiry # 0
                            => row'[i].expiry <= row'[i].minted + Delay + CacheLife
        BY DEF CacheInv
      <4>1. call[c].inst \in Installation /\ call[c].minted \in Nat /\ now \in Nat
        BY <2>1 DEF Storing, TokenInv, TypeOK, Time
      <4>2. CASE i = call[c].inst
        <5>1. row'[i].minted = call[c].minted /\ row'[i].expiry = now + CacheLife
          BY <3>1, <4>1, <4>2 DEF TokenInv, TypeOK, Row
        <5> QED BY <5>1, <4>1, <2>1
      <4>3. CASE i # call[c].inst
        BY <3>1, <4>3 DEF TokenInv, TypeOK, CacheInv
      <4> QED BY <4>2, <4>3
    <3>2. CASE UNCHANGED row
      BY <3>2 DEF TokenInv, CacheInv
    <3> QED BY <1>6, <3>1, <3>2 DEF Store
  <2>6. CallInv'
    BY <2>2, <2>3 DEF TokenInv, TypeOK, CallInv, Idle, Minting, Storing
  <2>7. TokensAreHonoured'
    BY <2>1, <2>2 DEF TokenInv, TypeOK, TokensAreHonoured, Storing, Given, Time
  <2>8. TokensStayWithTheirUser'
    BY <2>1, <2>2, <2>3 DEF TokenInv, TypeOK, TokensStayWithTheirUser, Storing, Given
  <2> QED BY <2>4, <2>5, <2>6, <2>7, <2>8 DEF TokenInv
<1>7. ASSUME Tick PROVE TokenInv'
  <2>1. TypeOK' /\ CacheInv' /\ TokensAreHonoured' /\ TokensStayWithTheirUser'
    BY <1>7 DEF Tick, TokenInv, TypeOK, CacheInv, TokensAreHonoured,
       TokensStayWithTheirUser, Time
  <2>2. CallInv'
    BY <1>7 DEF Tick, Late, TokenInv, TypeOK, CallInv, Minting, Storing, Time
  <2> QED BY <2>1, <2>2 DEF TokenInv
<1>8. CASE UNCHANGED vars
  BY <1>8 DEF vars, TokenInv, TypeOK, CacheInv, CallInv, TokensAreHonoured,
     TokensStayWithTheirUser
<1> QED BY <1>1, <1>2, <1>3, <1>4, <1>5, <1>6, <1>7, <1>8 DEF Next

\* Types of rows, calls and answers.
THEOREM TokensTyped == Spec => []TypeOK
<1>1. TokenInv => TypeOK
  BY DEF TokenInv
<1> QED BY <1>1, InitTokens, NextTokens, PTL DEF Spec

\* For any number of calls, users and installations: as long as CacheLife and the
\* delay of storing fit into TokenLife, no call answers a token GitHub has
\* stopped honouring.
THEOREM AnswersAreHonoured == Spec => []TokensAreHonoured
<1>1. TokenInv => TokensAreHonoured
  BY DEF TokenInv
<1> QED BY <1>1, InitTokens, NextTokens, PTL DEF Spec

\* No call answers a token of another user's installation.
THEOREM AnswersStayWithTheirUser == Spec => []TokensStayWithTheirUser
<1>1. TokenInv => TokensStayWithTheirUser
  BY DEF TokenInv
<1> QED BY <1>1, InitTokens, NextTokens, PTL DEF Spec
=============================================================================
