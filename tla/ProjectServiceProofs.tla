------------------------ MODULE ProjectServiceProofs ------------------------
(***************************************************************************)
(* Theorems about ProjectService, alone and behind the gateway             *)
(* (WorkspaceSystem), for any number of projects, calls, users and tokens. *)
(***************************************************************************)
EXTENDS WorkspaceSystem, TLAPS

-----------------------------------------------------------------------------
(* Type correctness.  TypeOK is not inductive: StartPost records a pair    *)
(* that is well typed only because a call past its save knows its project  *)
(* and holds a token.                                                      *)
Located ==
    \A c \in Call :
        /\ pc[c] # "idle" => proj[c] \in Project
        /\ pc[c] = "idle" => copy[c] = NoRow
        /\ pc[c] \in {"saved", "tokened"} => copy[c].secret \in Secret

TypeInv == TypeOK /\ Located

\* A call's control state stays well typed and located when it moves.
LEMMA GoTyped ==
    ASSUME TypeInv, NEW c \in Call, NEW step \in Step,
           NEW p \in Project \cup {NoProject}, NEW r \in Row,
           Go(c, step, p, r),
           step # "idle" => p \in Project,
           step = "idle" => r = NoRow,
           step \in {"saved", "tokened"} => r.secret \in Secret
    PROVE  /\ pc' \in [Call -> Step]
           /\ proj' \in [Call -> Project \cup {NoProject}]
           /\ copy' \in [Call -> Row]
           /\ Located'
  BY DEF TypeInv, TypeOK, Located, Go

LEMMA NoRowTyped == NoRow \in Row /\ NoRow.secret = NoSecret /\ NoRow.status = "STOPPED"
  BY DEF NoRow, Row, Status

\* Every step of the service preserves the types and where calls are.
LEMMA TypeStep == TypeInv /\ [Next]_vars => TypeInv'
<1> SUFFICES ASSUME TypeInv, [Next]_vars PROVE TypeInv'
  OBVIOUS
<1> USE NoRowTyped, NullAssumption
<1>1. ASSUME NEW p \in Project, NEW u \in User, CreateProject(p, u) PROVE TypeInv'
  BY <1>1 DEF TypeInv, TypeOK, Located, CreateProject, SaveRow, Row, Status
<1>2. ASSUME NEW c \in Call, NEW p \in Project, StartLock(c, p) PROVE TypeInv'
  BY <1>2, GoTyped DEF TypeInv, TypeOK, StartLock, Step, InStart
<1>3. ASSUME NEW c \in Call, NEW p \in Project, NEW a \in Project, StopDelete(c, p, a)
      PROVE  TypeInv'
  <2>1. UNCHANGED <<row, lock, drawn, launched>> /\ pending' \subseteq pending
    BY <1>3 DEF StopDelete
  <2>2. CASE Go(c, "stopping", p, NoRow)
    BY <2>1, <2>2, GoTyped DEF TypeInv, TypeOK, Step
  <2>3. CASE UNCHANGED <<pc, proj, copy>>
    BY <2>1, <2>3 DEF TypeInv, TypeOK, Located
  <2> QED BY <1>3, <2>2, <2>3 DEF StopDelete
<1>4. ASSUME NEW p \in Project, StartLockUnanswered(p) \/ LockExpire(p) PROVE TypeInv'
  BY <1>4 DEF TypeInv, TypeOK, Located, StartLockUnanswered, LockExpire
<1>5. ASSUME NEW c \in Call, NEW u \in User, StartFetch(c, u) PROVE TypeInv'
  BY <1>5, GoTyped DEF TypeInv, TypeOK, Located, StartFetch, Step, InStart
<1>6. ASSUME NEW c \in Call, Leave(c), pc[c] # "idle",
             UNCHANGED <<row, lock, drawn, launched, pending>>
      PROVE  TypeInv'
  BY <1>6, GoTyped DEF TypeInv, TypeOK, Located, Leave, Step, InStart
<1>7. ASSUME NEW c \in Call, NEW s \in Secret, StartSave(c, s) PROVE TypeInv'
  <2> DEFINE r == [copy[c] EXCEPT !.status = "STARTING", !.secret = s]
  <2>1. r \in Row /\ r.secret = s /\ proj[c] \in Project
    BY <1>7 DEF StartSave, TypeInv, TypeOK, Located, Row, Status
  <2>2. Go(c, "saved", proj[c], r) \/ Leave(c)
    BY <1>7 DEF StartSave
  <2>3. /\ row' = [row EXCEPT ![proj[c]] = r]
        /\ drawn' = [drawn EXCEPT ![s] = proj[c]]
        /\ UNCHANGED <<lock, launched, pending>>
    BY <1>7 DEF StartSave, SaveRow
  <2> HIDE DEF r
  <2>4. /\ pc' \in [Call -> Step] /\ proj' \in [Call -> Project \cup {NoProject}]
        /\ copy' \in [Call -> Row] /\ Located'
    BY <2>1, <2>2, GoTyped DEF Leave, Step, InStart
  <2> QED BY <2>1, <2>3, <2>4 DEF TypeInv, TypeOK
<1>8. ASSUME NEW c \in Call, StartToken(c) PROVE TypeInv'
  BY <1>8, GoTyped DEF TypeInv, TypeOK, Located, StartToken, Step, InStart
<1>9. ASSUME NEW c \in Call, StartPost(c) PROVE TypeInv'
  BY <1>9, GoTyped DEF TypeInv, TypeOK, Located, StartPost, Leave, Step, InStart
<1>10. ASSUME NEW c \in Call, StartLeave(c) \/ StartLeaveRetried(c) PROVE TypeInv'
  <2>1. CASE StartLeave(c)
    BY <2>1, GoTyped DEF TypeInv, TypeOK, Located, StartLeave, Return, Step
  <2>2. CASE StartLeaveRetried(c)
    BY <2>2 DEF TypeInv, TypeOK, Located, StartLeaveRetried
  <2> QED BY <1>10, <2>1, <2>2
<1>11. ASSUME NEW c \in Call, StopUpdate(c) PROVE TypeInv'
  <2>1. row' \in [Project -> Row]
    BY <1>11 DEF TypeInv, TypeOK, Located, StopUpdate, Row, Status
  <2> QED BY <1>11, <2>1, GoTyped DEF TypeInv, TypeOK, StopUpdate, Return, Step
<1>12. ASSUME NEW c \in Call, WebhookSave(c) PROVE TypeInv'
  <2>1. row' \in [Project -> Row]
    BY <1>12 DEF TypeInv, TypeOK, Located, WebhookSave, SaveRow
  <2> QED BY <1>12, <2>1, GoTyped DEF TypeInv, TypeOK, WebhookSave, Return, Step
<1>13. ASSUME NEW c \in Call, NEW p \in Project, NEW s \in Secret, NEW o \in Outcome,
              AcceptReport(c, p, s, o)
       PROVE  TypeInv'
  <2>1. [row[p] EXCEPT !.status = o] \in Row
    BY DEF TypeInv, TypeOK, Row, Status, Outcome
  <2> QED BY <1>13, <2>1, GoTyped DEF TypeInv, TypeOK, AcceptReport, Step
<1>14. ASSUME NEW p \in Project, NEW s \in Secret, ReportDropped(p, s) PROVE TypeInv'
  BY <1>14 DEF TypeInv, TypeOK, Located, ReportDropped
<1>15. CASE Crash
  BY <1>15 DEF TypeInv, TypeOK, Located, Crash, Step
<1>16. CASE UNCHANGED vars
  BY <1>16 DEF TypeInv, TypeOK, Located, vars
<1>17. ASSUME NEW c \in Call, StartStep(c) PROVE TypeInv'
  BY <1>17, <1>5, <1>6, <1>7, <1>8, <1>9, <1>10
     DEF StartStep, StartRefuse, StartSaveFails, StartTokenFails, StartPostFails
<1> QED
  BY <1>1, <1>2, <1>3, <1>4, <1>17, <1>11, <1>12, <1>13, <1>14, <1>15, <1>16
     DEF Next, WebhookUpdate, VerifyAndComplete

LEMMA TypeInit == Init => TypeInv
  BY NoRowTyped DEF Init, TypeInv, TypeOK, Located, Step

\* The rows, snapshots, locks and token sets keep their types forever.
THEOREM TypeCorrect == Spec => []TypeOK
<1>1. Spec => []TypeInv
  BY TypeInit, TypeStep, PTL DEF Spec
<1> QED BY <1>1, PTL DEF TypeInv

-----------------------------------------------------------------------------
(* Tokens.  What a row says of its token is as true of every snapshot a    *)
(* call may still save, so the snapshots are part of the invariant.        *)
SnapshotsTrue ==
    \A c \in Call :
        /\ pc[c] = "checked" =>
              /\ copy[c].status \in Outcome
              /\ copy[c].secret # NoSecret
              /\ <<proj[c], copy[c].secret>> \in launched

TokenInv ==
    /\ TypeInv
    /\ ReportedSecretWasLaunched
    /\ SecretsStayWithTheirProject
    /\ SnapshotsTrue

LEMMA TokenInit == Init => TokenInv
  BY TypeInit, NoRowTyped
     DEF Init, TokenInv, ReportedSecretWasLaunched, SecretsStayWithTheirProject,
         SnapshotsTrue, Outcome, NoRow

\* A step that leaves rows, tokens and agents alone and moves one call to a
\* step that saves nothing on its own.
LEMMA TokenMove ==
    ASSUME TokenInv, TypeInv', NEW c \in Call, NEW step \in Step \ {"checked"},
           NEW p \in Project \cup {NoProject}, NEW r \in Row,
           Go(c, step, p, r),
           r.secret # NoSecret => p \in Project /\ drawn[r.secret] = p,
           UNCHANGED <<row, drawn, launched>>
    PROVE  TokenInv'
<1>1. ReportedSecretWasLaunched'
  BY DEF TokenInv, ReportedSecretWasLaunched
<1>2. SecretsStayWithTheirProject'
  BY DEF TokenInv, SecretsStayWithTheirProject, Go, TypeInv, TypeOK
<1>3. SnapshotsTrue'
  BY DEF TokenInv, SnapshotsTrue, Go, TypeInv, TypeOK
<1> QED BY <1>1, <1>2, <1>3 DEF TokenInv

\* Every step keeps the rows, the snapshots and the agents consistent.
LEMMA TokenStep == TokenInv /\ [Next]_vars => TokenInv'
<1> SUFFICES ASSUME TokenInv, [Next]_vars PROVE TokenInv'
  OBVIOUS
<1> TypeInv /\ TypeInv'
  BY TypeStep DEF TokenInv
<1> USE NoRowTyped, NullAssumption
<1> USE DEF TypeInv, TypeOK
<1>1. ASSUME NEW p \in Project, NEW u \in User, CreateProject(p, u) PROVE TokenInv'
  <2>1. /\ row'[p].secret = NoSecret /\ row'[p].status = "STOPPED"
        /\ \A q \in Project \ {p} : row'[q] = row[q]
    BY <1>1 DEF CreateProject, SaveRow
  <2> QED BY <1>1, <2>1
       DEF CreateProject, TokenInv, ReportedSecretWasLaunched,
           SecretsStayWithTheirProject, SnapshotsTrue, Outcome
<1>2. ASSUME NEW c \in Call, NEW p \in Project,
             StartLock(c, p) \/ \E a \in Project : StopDelete(c, p, a)
      PROVE  TokenInv'
  <2>1. CASE Go(c, "locked", p, NoRow) \/ Go(c, "stopping", p, NoRow)
    BY <1>2, <2>1, TokenMove DEF StartLock, StopDelete, Step, InStart
  <2>2. CASE UNCHANGED <<pc, proj, copy>>
    BY <1>2, <2>2 DEF StartLock, StopDelete, TokenInv, ReportedSecretWasLaunched,
                      SecretsStayWithTheirProject, SnapshotsTrue
  <2> QED BY <1>2, <2>1, <2>2 DEF StartLock, StopDelete
<1>3. ASSUME NEW p \in Project, StartLockUnanswered(p) \/ LockExpire(p) PROVE TokenInv'
  BY <1>3 DEF StartLockUnanswered, LockExpire, TokenInv, ReportedSecretWasLaunched,
              SecretsStayWithTheirProject, SnapshotsTrue
<1>4. ASSUME NEW c \in Call, NEW u \in User, StartFetch(c, u) PROVE TokenInv'
  <2>1. /\ proj[c] \in Project /\ row[proj[c]] \in Row
        /\ row[proj[c]].secret # NoSecret => drawn[row[proj[c]].secret] = proj[c]
    BY <1>4 DEF StartFetch, TokenInv, SecretsStayWithTheirProject, Located
  <2> QED BY <1>4, <2>1, TokenMove DEF StartFetch, Step, InStart
<1>5. ASSUME NEW c \in Call, Leave(c), UNCHANGED <<row, lock, drawn, launched, pending>>
      PROVE  TokenInv'
  BY <1>5, TokenMove DEF Leave, Step, InStart
<1>6. ASSUME NEW c \in Call, NEW s \in Secret, StartSave(c, s) PROVE TokenInv'
  <2> DEFINE r == [copy[c] EXCEPT !.status = "STARTING", !.secret = s]
  <2>1. r \in Row /\ r.secret = s /\ r.status = "STARTING" /\ proj[c] \in Project
    BY <1>6 DEF StartSave, Located, Row, Status
  <2>2. Go(c, "saved", proj[c], r) \/ Go(c, "leaving", proj[c], NoRow)
    BY <1>6 DEF StartSave, Leave
  <2>3. /\ row' = [row EXCEPT ![proj[c]] = r]
        /\ drawn' = [drawn EXCEPT ![s] = proj[c]]
        /\ drawn[s] = NoProject
        /\ UNCHANGED <<lock, launched, pending>>
    BY <1>6 DEF StartSave, SaveRow, Unused
  <2> HIDE DEF r
  <2>4. \A t \in Secret : drawn[t] \in Project => drawn'[t] = drawn[t]
    BY <2>3
  \* A call that holds a token works on the project it was drawn for, so
  \* the token drawn now is not the one it holds.
  <2>5. \A d \in Call : copy[d].secret # NoSecret =>
            /\ copy[d].secret \in Secret
            /\ drawn[copy[d].secret] = proj[d]
            /\ proj[d] \in Project
    BY DEF TokenInv, SecretsStayWithTheirProject, Row, Located
  <2>6. \A d \in Call : copy[d].secret # NoSecret => drawn'[copy[d].secret] = proj[d]
    BY <2>4, <2>5
  <2>7. ReportedSecretWasLaunched'
    BY <2>1, <2>3 DEF TokenInv, ReportedSecretWasLaunched, Outcome
  <2>8. SecretsStayWithTheirProject'
    <3>1. \A p \in Project : row'[p].secret # NoSecret => drawn'[row'[p].secret] = p
      BY <2>1, <2>3 DEF TokenInv, SecretsStayWithTheirProject, Row
    <3>2. \A d \in Call : copy'[d].secret # NoSecret => drawn'[copy'[d].secret] = proj'[d]
      <4> SUFFICES ASSUME NEW d \in Call, copy'[d].secret # NoSecret
                   PROVE  drawn'[copy'[d].secret] = proj'[d]
        OBVIOUS
      <4>1. CASE d = c
        BY <4>1, <2>1, <2>2, <2>3 DEF Go
      <4>2. CASE d # c
        BY <4>2, <2>2, <2>6 DEF Go
      <4> QED BY <4>1, <4>2
    <3>3. \A l \in launched : drawn'[l[2]] = l[1]
      BY <2>3 DEF TokenInv, SecretsStayWithTheirProject
    <3> QED BY <3>1, <3>2, <3>3, <2>3 DEF SecretsStayWithTheirProject
  <2>9. SnapshotsTrue'
    BY <2>2, <2>3 DEF TokenInv, SnapshotsTrue, Go
  <2> QED BY <2>7, <2>8, <2>9 DEF TokenInv
<1>7. ASSUME NEW c \in Call, StartToken(c) PROVE TokenInv'
  <2>1. proj[c] \in Project /\ (copy[c].secret # NoSecret => drawn[copy[c].secret] = proj[c])
    BY <1>7 DEF StartToken, TokenInv, SecretsStayWithTheirProject, Located
  <2> QED BY <1>7, <2>1, TokenMove DEF StartToken, Step, InStart
<1>8. ASSUME NEW c \in Call, StartPost(c) PROVE TokenInv'
  <2>1. drawn[copy[c].secret] = proj[c]
    BY <1>8 DEF StartPost, Located, TokenInv, SecretsStayWithTheirProject
  <2>2. ReportedSecretWasLaunched'
    BY <1>8 DEF StartPost, TokenInv, ReportedSecretWasLaunched
  <2>3. SecretsStayWithTheirProject'
    BY <1>8, <2>1 DEF StartPost, Leave, Go, TokenInv, SecretsStayWithTheirProject
  <2>4. SnapshotsTrue'
    BY <1>8 DEF StartPost, Leave, Go, TokenInv, SnapshotsTrue
  <2> QED BY <2>2, <2>3, <2>4 DEF TokenInv
<1>9. ASSUME NEW c \in Call, StartLeave(c) \/ StartLeaveRetried(c) PROVE TokenInv'
  <2>1. CASE StartLeave(c)
    BY <2>1, TokenMove DEF StartLeave, Return, Step
  <2>2. CASE StartLeaveRetried(c)
    BY <2>2 DEF StartLeaveRetried, TokenInv, ReportedSecretWasLaunched,
                SecretsStayWithTheirProject, SnapshotsTrue
  <2> QED BY <1>9, <2>1, <2>2
<1>10. ASSUME NEW c \in Call, StopUpdate(c) PROVE TokenInv'
  <2>1. \A p \in Project :
            /\ row'[p].secret = row[p].secret
            /\ row'[p].status \in {row[p].status, "STOPPED"}
    BY <1>10 DEF StopUpdate, Row
  <2>2. ReportedSecretWasLaunched'
    BY <1>10, <2>1 DEF StopUpdate, TokenInv, ReportedSecretWasLaunched, Outcome
  <2>3. SecretsStayWithTheirProject'
    BY <1>10, <2>1 DEF StopUpdate, Return, Go, TokenInv, SecretsStayWithTheirProject
  <2>4. SnapshotsTrue'
    BY <1>10 DEF StopUpdate, Return, Go, TokenInv, SnapshotsTrue
  <2> QED BY <2>2, <2>3, <2>4 DEF TokenInv
<1>11. ASSUME NEW c \in Call, WebhookSave(c) PROVE TokenInv'
  <2>1. /\ <<proj[c], copy[c].secret>> \in launched
        /\ copy[c].secret # NoSecret
        /\ drawn[copy[c].secret] = proj[c]
    BY <1>11 DEF WebhookSave, TokenInv, SnapshotsTrue, SecretsStayWithTheirProject
  <2>2. \A p \in Project : row'[p] = row[p] \/ (p = proj[c] /\ row'[p] = copy[c])
    BY <1>11 DEF WebhookSave, SaveRow
  <2>3. ReportedSecretWasLaunched'
    BY <1>11, <2>1, <2>2 DEF WebhookSave, TokenInv, ReportedSecretWasLaunched
  <2>4. SecretsStayWithTheirProject'
    BY <1>11, <2>1, <2>2 DEF WebhookSave, Return, Go, TokenInv, SecretsStayWithTheirProject
  <2>5. SnapshotsTrue'
    BY <1>11 DEF WebhookSave, Return, Go, TokenInv, SnapshotsTrue
  <2> QED BY <2>3, <2>4, <2>5 DEF TokenInv
<1>12. ASSUME NEW c \in Call, NEW p \in Project, NEW s \in Secret, NEW o \in Outcome,
              AcceptReport(c, p, s, o)
       PROVE  TokenInv'
  <2> DEFINE r == [row[p] EXCEPT !.status = o]
  <2>1. r.secret = s /\ r.status = o /\ <<p, s>> \in launched /\ drawn[s] = p
    BY <1>12 DEF AcceptReport, Row, TokenInv, SecretsStayWithTheirProject
  <2>2. Go(c, "checked", p, r) /\ UNCHANGED <<row, drawn, launched>>
    BY <1>12 DEF AcceptReport
  <2> HIDE DEF r
  <2>3. ReportedSecretWasLaunched'
    BY <2>2 DEF TokenInv, ReportedSecretWasLaunched
  <2>4. SecretsStayWithTheirProject'
    BY <2>1, <2>2 DEF Go, TokenInv, SecretsStayWithTheirProject
  <2>5. SnapshotsTrue'
    BY <2>1, <2>2 DEF Go, TokenInv, SnapshotsTrue
  <2> QED BY <2>3, <2>4, <2>5 DEF TokenInv
<1>13. ASSUME NEW p \in Project, NEW s \in Secret, ReportDropped(p, s) PROVE TokenInv'
  BY <1>13 DEF ReportDropped, TokenInv, ReportedSecretWasLaunched,
               SecretsStayWithTheirProject, SnapshotsTrue
<1>14. CASE Crash
  BY <1>14 DEF Crash, TokenInv, ReportedSecretWasLaunched,
               SecretsStayWithTheirProject, SnapshotsTrue
<1>15. CASE UNCHANGED vars
  BY <1>15 DEF vars, TokenInv, ReportedSecretWasLaunched,
               SecretsStayWithTheirProject, SnapshotsTrue
<1>16. ASSUME NEW c \in Call, StartStep(c) PROVE TokenInv'
  BY <1>16, <1>4, <1>5, <1>6, <1>7, <1>8, <1>9
     DEF StartStep, StartRefuse, StartSaveFails, StartTokenFails, StartPostFails
<1> QED
  BY <1>1, <1>2, <1>3, <1>10, <1>11, <1>12, <1>13, <1>14, <1>15, <1>16
     DEF Next, WebhookUpdate, VerifyAndComplete

LEMMA TokenAlways == Spec => []TokenInv
  BY TokenInit, TokenStep, PTL DEF Spec

\* Whatever overlaps, expires or fails, a row shows RUNNING or ERROR only with
\* the token of a sandbox Atlas launched for that project.
THEOREM ReportsAreGenuine == Spec => []ReportedSecretWasLaunched
  BY TokenAlways, PTL DEF TokenInv

\* No callback token is ever shared by two projects.
THEOREM TokensAreIsolated == Spec => []SecretsStayWithTheirProject
  BY TokenAlways, PTL DEF TokenInv

-----------------------------------------------------------------------------
(* Owners.  A call's snapshot carries the owner of the row it was read     *)
(* from, which has one, so that saving it changes no owner.                *)
Reading == {"fetched", "saved", "tokened", "checked"}

OwnerInv ==
    /\ TypeInv
    /\ \A p \in Project : row[p].secret # NoSecret => row[p].owner # NoUser
    /\ \A c \in Call : pc[c] \in Reading =>
          copy[c].owner = row[proj[c]].owner /\ copy[c].owner # NoUser

OwnersStay == \A p \in Project : row[p].owner # NoUser => row'[p].owner = row[p].owner

\* A call that moves without a write, to a step at which it holds a row of its
\* project or none.
LEMMA OwnerMove ==
    ASSUME OwnerInv, TypeInv', NEW c \in Call, NEW step \in Step,
           NEW p \in Project \cup {NoProject}, NEW r \in Row,
           Go(c, step, p, r), UNCHANGED row,
           step \in Reading => p \in Project /\ r.owner = row[p].owner /\ r.owner # NoUser
    PROVE  OwnerInv' /\ OwnersStay
  BY DEF OwnerInv, OwnersStay, Go, TypeInv, TypeOK

\* Every step keeps the owners, and the snapshots agreeing with the rows.
LEMMA OwnerStep == OwnerInv /\ [Next]_vars => OwnerInv' /\ OwnersStay
<1> SUFFICES ASSUME OwnerInv, [Next]_vars PROVE OwnerInv' /\ OwnersStay
  OBVIOUS
<1> TypeInv /\ TypeInv'
  BY TypeStep DEF OwnerInv
<1> USE NoRowTyped, NullAssumption DEF TypeInv, TypeOK
<1>1. ASSUME NEW p \in Project, NEW u \in User, CreateProject(p, u) PROVE OwnerInv' /\ OwnersStay
  <2>1. /\ row[p].owner = NoUser /\ row'[p].secret = NoSecret
        /\ \A q \in Project \ {p} : row'[q] = row[q]
    BY <1>1 DEF CreateProject, SaveRow, NoRow
  <2>2. \A c \in Call : pc[c] \in Reading => proj[c] # p
    BY <2>1 DEF OwnerInv
  <2> QED BY <1>1, <2>1, <2>2 DEF CreateProject, OwnerInv, OwnersStay, Located, Reading
<1>2. ASSUME NEW c \in Call, NEW p \in Project,
             StartLock(c, p) \/ \E a \in Project : StopDelete(c, p, a)
      PROVE  OwnerInv' /\ OwnersStay
  <2>1. CASE Go(c, "locked", p, NoRow) \/ Go(c, "stopping", p, NoRow)
    BY <1>2, <2>1, OwnerMove DEF StartLock, StopDelete, Step, InStart, Reading
  <2>2. CASE UNCHANGED <<pc, proj, copy>>
    BY <1>2, <2>2 DEF StartLock, StopDelete, OwnerInv, OwnersStay
  <2> QED BY <1>2, <2>1, <2>2 DEF StartLock, StopDelete
<1>3. ASSUME NEW p \in Project, StartLockUnanswered(p) \/ LockExpire(p)
      PROVE  OwnerInv' /\ OwnersStay
  BY <1>3 DEF StartLockUnanswered, LockExpire, OwnerInv, OwnersStay
<1>4. ASSUME NEW c \in Call, NEW u \in User, StartFetch(c, u) PROVE OwnerInv' /\ OwnersStay
  <2>1. proj[c] \in Project /\ row[proj[c]] \in Row /\ row[proj[c]].owner # NoUser
    BY <1>4 DEF StartFetch, Located
  <2> QED BY <1>4, <2>1, OwnerMove DEF StartFetch, Step, InStart, Reading
<1>5. ASSUME NEW c \in Call, Leave(c), UNCHANGED row PROVE OwnerInv' /\ OwnersStay
  BY <1>5, OwnerMove DEF Leave, Step, InStart, Reading
<1>6. ASSUME NEW c \in Call, NEW s \in Secret, StartSave(c, s) PROVE OwnerInv' /\ OwnersStay
  <2> DEFINE r == [copy[c] EXCEPT !.status = "STARTING", !.secret = s]
  <2>1. /\ r \in Row /\ r.owner = copy[c].owner
        /\ proj[c] \in Project /\ copy[c].owner = row[proj[c]].owner /\ copy[c].owner # NoUser
    BY <1>6 DEF StartSave, Located, Row, Status, OwnerInv, Reading
  <2>2. Go(c, "saved", proj[c], r) \/ Go(c, "leaving", proj[c], NoRow)
    BY <1>6 DEF StartSave, Leave
  <2>3. row' = [row EXCEPT ![proj[c]] = r]
    BY <1>6 DEF StartSave, SaveRow
  <2> HIDE DEF r
  <2>4. \A p \in Project : row'[p].owner = row[p].owner
    BY <2>1, <2>3
  <2>5. \A p \in Project : row'[p].secret # NoSecret => row'[p].owner # NoUser
    BY <2>1, <2>3 DEF OwnerInv
  <2>6. \A d \in Call : pc'[d] \in Reading =>
            copy'[d].owner = row'[proj'[d]].owner /\ copy'[d].owner # NoUser
    BY <2>1, <2>2, <2>4 DEF Go, OwnerInv, Reading, Located
  <2> QED BY <2>4, <2>5, <2>6 DEF OwnerInv, OwnersStay
<1>7. ASSUME NEW c \in Call, StartToken(c) PROVE OwnerInv' /\ OwnersStay
  <2>1. proj[c] \in Project
    BY <1>7 DEF StartToken, Located
  <2> QED BY <1>7, <2>1, OwnerMove DEF StartToken, OwnerInv, Step, InStart, Reading
<1>8. ASSUME NEW c \in Call, StartLeave(c) \/ StartLeaveRetried(c) PROVE OwnerInv' /\ OwnersStay
  <2>1. CASE StartLeave(c)
    BY <2>1, OwnerMove DEF StartLeave, Return, Step, Reading
  <2>2. CASE StartLeaveRetried(c)
    BY <2>2 DEF StartLeaveRetried, OwnerInv, OwnersStay
  <2> QED BY <1>8, <2>1, <2>2
<1>9. ASSUME NEW c \in Call, StopUpdate(c) PROVE OwnerInv' /\ OwnersStay
  <2>1. \A p \in Project : row'[p].owner = row[p].owner /\ row'[p].secret = row[p].secret
    BY <1>9 DEF StopUpdate, Row
  <2> QED BY <1>9, <2>1 DEF StopUpdate, Return, Go, OwnerInv, OwnersStay, Located, Reading
<1>10. ASSUME NEW c \in Call, WebhookSave(c) PROVE OwnerInv' /\ OwnersStay
  <2>1. copy[c].owner = row[proj[c]].owner /\ copy[c].owner # NoUser
    BY <1>10 DEF WebhookSave, OwnerInv, Reading
  <2>2. \A p \in Project : row'[p] = row[p] \/ (p = proj[c] /\ row'[p] = copy[c])
    BY <1>10 DEF WebhookSave, SaveRow
  <2> QED BY <1>10, <2>1, <2>2 DEF WebhookSave, Return, Go, OwnerInv, OwnersStay, Located, Reading
<1>11. ASSUME NEW c \in Call, NEW p \in Project, NEW s \in Secret, NEW o \in Outcome,
              AcceptReport(c, p, s, o)
       PROVE  OwnerInv' /\ OwnersStay
  <2> DEFINE r == [row[p] EXCEPT !.status = o]
  <2>1. r \in Row /\ r.owner = row[p].owner /\ row[p].owner # NoUser
    BY <1>11 DEF AcceptReport, Row, Status, Outcome, OwnerInv
  <2>2. Go(c, "checked", p, r) /\ UNCHANGED row
    BY <1>11 DEF AcceptReport
  <2> HIDE DEF r
  <2> QED BY <2>1, <2>2, OwnerMove DEF Step, Reading
<1>12. ASSUME NEW p \in Project, NEW s \in Secret, ReportDropped(p, s)
       PROVE  OwnerInv' /\ OwnersStay
  BY <1>12 DEF ReportDropped, OwnerInv, OwnersStay
<1>13. CASE Crash
  BY <1>13 DEF Crash, OwnerInv, OwnersStay, Reading
<1>14. CASE UNCHANGED vars
  BY <1>14 DEF vars, OwnerInv, OwnersStay
<1>15. ASSUME NEW c \in Call, StartStep(c) PROVE OwnerInv' /\ OwnersStay
  <2>1. CASE StartPost(c)
    BY <1>5, <2>1 DEF StartPost
  <2> QED BY <1>15, <2>1, <1>4, <1>5, <1>6, <1>7, <1>8
        DEF StartStep, StartRefuse, StartSaveFails, StartTokenFails, StartPostFails
<1> QED
  BY <1>1, <1>2, <1>3, <1>9, <1>10, <1>11, <1>12, <1>13, <1>14, <1>15
     DEF Next, WebhookUpdate, VerifyAndComplete

\* Whatever overlaps, expires or fails, no project changes hands: what Gateway
\* keeps in redis of an owner stays true.
THEOREM OwnersAreForGood == Spec => OwnerNeverChanges
<1>1. Init => OwnerInv
  BY TypeInit, NoRowTyped DEF Init, OwnerInv, NoRow, Reading
<1>2. OwnersStay <=> (\A p \in Project : row[p].owner # NoUser => row'[p].owner = row[p].owner)
  BY DEF OwnersStay
<1>3. OwnerInv /\ [Next]_vars => [OwnersStay]_vars
  BY OwnerStep
<1>4. Spec => [][OwnersStay]_vars
  BY <1>1, <1>3, OwnerStep, PTL DEF Spec
<1> QED BY <1>4 DEF OwnersStay, OwnerNeverChanges

-----------------------------------------------------------------------------
(* Exclusion *)
ExclusionInv == TypeInv /\ StartExclusion

\* A step that keeps every lock, and sends a call elsewhere only from a place
\* inside StartWorkspace or to one outside of it.
LEMMA ExclusionMove ==
    ASSUME ExclusionInv, NEW c \in Call, NEW step \in Step,
           NEW p \in Project \cup {NoProject}, NEW r \in Row,
           Go(c, step, p, r), UNCHANGED lock,
           step \in InStart => pc[c] \in InStart /\ p = proj[c]
    PROVE  StartExclusion'
  BY DEF ExclusionInv, TypeInv, TypeOK, StartExclusion, Starting, Go

\* Every step keeps starts of a project exclusive.
LEMMA ExclusionStep == ExclusionInv /\ [Next]_vars => ExclusionInv'
<1> SUFFICES ASSUME ExclusionInv, [Next]_vars PROVE StartExclusion'
  BY TypeStep DEF ExclusionInv
<1> TypeInv
  BY DEF ExclusionInv
<1> USE NoRowTyped
<1> USE DEF TypeInv, TypeOK
<1>1. ASSUME UNCHANGED <<lock, pc, proj>> PROVE StartExclusion'
  BY <1>1 DEF ExclusionInv, StartExclusion, Starting
<1>2. ASSUME NEW c \in Call, NEW p \in Project, StartLock(c, p) PROVE StartExclusion'
  BY <1>2 DEF StartLock, Go, ExclusionInv, StartExclusion, Starting, InStart
<1>3. ASSUME NEW c \in Call, NEW p \in Project, NEW a \in Project, StopDelete(c, p, a)
      PROVE  StartExclusion'
  <2>1. CASE Go(c, "stopping", p, NoRow)
    BY <1>3, <2>1, ExclusionMove DEF StopDelete, Step, InStart
  <2> QED BY <1>3, <1>1, <2>1 DEF StopDelete
<1>4. ASSUME NEW p \in Project, StartLockUnanswered(p) PROVE StartExclusion'
  BY <1>4 DEF StartLockUnanswered, ExclusionInv, StartExclusion, Starting
<1>5. ASSUME NEW p \in Project, LockExpire(p) PROVE StartExclusion'
  BY <1>5 DEF LockExpire, LeasesHold, ExclusionInv, StartExclusion, Starting
<1>6. ASSUME NEW c \in Call, NEW step \in InStart, NEW r \in Row, pc[c] \in InStart,
             Go(c, step, proj[c], r), UNCHANGED lock
      PROVE  StartExclusion'
  BY <1>6, ExclusionMove DEF Step
<1>7. ASSUME NEW c \in Call, NEW u \in User, StartFetch(c, u) PROVE StartExclusion'
  BY <1>7, <1>6 DEF StartFetch, InStart, Located
<1>8. ASSUME NEW c \in Call, Leave(c), pc[c] \in InStart, UNCHANGED lock PROVE StartExclusion'
  BY <1>8, <1>6 DEF Leave, InStart
<1>9. ASSUME NEW c \in Call, NEW s \in Secret, StartSave(c, s) PROVE StartExclusion'
  <2> DEFINE r == [copy[c] EXCEPT !.status = "STARTING", !.secret = s]
  <2>1. r \in Row
    BY DEF Row, Status
  <2>2. Go(c, "saved", proj[c], r) \/ Leave(c)
    BY <1>9 DEF StartSave
  <2> HIDE DEF r
  <2> QED BY <1>9, <2>1, <2>2, <1>6, <1>8 DEF StartSave, InStart
<1>10. ASSUME NEW c \in Call, StartToken(c) PROVE StartExclusion'
  BY <1>10, <1>6 DEF StartToken, InStart
<1>11. ASSUME NEW c \in Call, StartLeave(c) PROVE StartExclusion'
  <2>1. \A d \in Call \ {c} : LeasesHold /\ pc[d] \in InStart =>
            proj[d] # proj[c] /\ lock[proj[d]] /\ Starting(proj[d]) = {d} /\ proj[d] \in Project
    BY <1>11 DEF StartLeave, ExclusionInv, StartExclusion, Starting, InStart, Located
  <2>2. /\ pc' = [pc EXCEPT ![c] = "idle"]
        /\ proj' = [proj EXCEPT ![c] = NoProject]
        /\ \A p \in Project \ {proj[c]} : lock'[p] = lock[p]
    BY <1>11 DEF StartLeave, Return, Go
  <2>3. \A d \in Call : pc'[d] \in InStart =>
            d # c /\ pc[d] \in InStart /\ proj'[d] = proj[d]
    BY <2>2 DEF InStart
  <2>4. \A d \in Call : LeasesHold /\ pc'[d] \in InStart =>
            Starting(proj[d])' = {d} /\ lock'[proj[d]]
    BY <2>1, <2>2, <2>3 DEF Starting
  <2> QED BY <2>3, <2>4 DEF StartExclusion, Starting
<1>12. ASSUME NEW c \in Call, StopUpdate(c) \/ WebhookSave(c) PROVE StartExclusion'
  BY <1>12, ExclusionMove DEF StopUpdate, WebhookSave, Return, Step, InStart
<1>13. ASSUME NEW c \in Call, NEW p \in Project, NEW s \in Secret, NEW o \in Outcome,
              AcceptReport(c, p, s, o)
       PROVE  StartExclusion'
  <2>1. [row[p] EXCEPT !.status = o] \in Row
    BY DEF Row, Status, Outcome
  <2> QED BY <1>13, <2>1, ExclusionMove DEF AcceptReport, Step, InStart
<1>14. CASE Crash
  BY <1>14 DEF Crash, StartExclusion, InStart
<1>16. ASSUME NEW c \in Call, StartLeaveRetried(c) PROVE StartExclusion'
  BY <1>16 DEF StartLeaveRetried, StartExclusion, LeasesHold
<1>15. ASSUME NEW c \in Call, StartStep(c) PROVE StartExclusion'
  BY <1>15, <1>7, <1>8, <1>9, <1>10, <1>11, <1>16
     DEF StartStep, StartRefuse, StartSaveFails, StartTokenFails, StartPost, StartPostFails,
         InStart
<1> QED
  BY <1>1, <1>2, <1>3, <1>4, <1>5, <1>12, <1>13, <1>14, <1>15
     DEF Next, WebhookUpdate, VerifyAndComplete, CreateProject, ReportDropped, vars

LEMMA ExclusionInit == Init => ExclusionInv
  BY TypeInit DEF Init, ExclusionInv, StartExclusion, InStart

\* While leases hold, one StartWorkspace at a time is between
\* SetNX and Del for a project, and its key is still there.
THEOREM StartsExclude == Spec => []StartExclusion
<1>1. Spec => []ExclusionInv
  BY ExclusionInit, ExclusionStep, PTL DEF Spec
<1> QED BY <1>1, PTL DEF ExclusionInv

-----------------------------------------------------------------------------
(* Orderly traffic.  A project is STARTING from the save of a start until  *)
(* the report of the agent it launched is saved, and in between nobody     *)
(* else touches the row: the start is followed from its fetch (which saw a *)
(* project that is down) to its POST, the report from the agent that has   *)
(* yet to send it to the snapshot of the webhook call.                     *)
Answering(r) == [r EXCEPT !.status = "STARTING"]

StartOwnsRow ==
    \A c \in Call :
        /\ pc[c] = "fetched" => row[proj[c]] = copy[c] /\ ~Live(copy[c])
        /\ pc[c] \in {"saved", "tokened"} =>
              /\ row[proj[c]] = copy[c]
              /\ copy[c].status = "STARTING"
              /\ <<proj[c], copy[c].secret>> \notin launched
        /\ pc[c] \in {"fetched", "saved", "tokened"} => copy[c].owner \in User

ReportOwnsRow ==
    /\ \A a \in pending : row[a[1]].secret = a[2] /\ row[a[1]].status = "STARTING"
    /\ \A c \in Call : pc[c] = "checked" =>
          /\ row[proj[c]] = Answering(copy[c])
          /\ <<proj[c], copy[c].secret>> \in launched \ pending
          /\ \A d \in Call : pc[d] = "checked" /\ proj[d] = proj[c] => d = c

OrderlyInv ==
    /\ TokenInv
    /\ StartExclusion
    /\ \A c \in Call : pc[c] # "stopping"
    /\ \A p \in Project : row[p] = NoRow \/ row[p].owner \in User
    /\ StartOwnsRow
    /\ ReportOwnsRow

LEMMA OrderlyInit == Init => OrderlyInv
<1> SUFFICES ASSUME Init PROVE OrderlyInv
  OBVIOUS
<1> QED
  BY TokenInit, ExclusionInit
     DEF Init, OrderlyInv, ExclusionInv, StartOwnsRow, ReportOwnsRow

\* The parts of OrderlyInv no single action needs to look at again.
LEMMA OrderlyRest ==
    ASSUME OrderlyInv, [Next]_vars, StartOwnsRow', ReportOwnsRow',
           \A c \in Call : pc'[c] # "stopping",
           \A p \in Project : row'[p] = NoRow \/ row'[p].owner \in User
    PROVE  OrderlyInv'
  BY TokenStep, ExclusionStep DEF OrderlyInv, ExclusionInv, TokenInv

\* A call moves without a write, to a step that claims no row.
LEMMA OrderlyMove ==
    ASSUME OrderlyInv, NEW c \in Call, NEW step \in {"idle", "locked", "leaving"},
           NEW p \in Project \cup {NoProject},
           Go(c, step, p, NoRow), UNCHANGED <<row, launched, pending>>
    PROVE  /\ StartOwnsRow' /\ ReportOwnsRow'
           /\ \A d \in Call : pc'[d] # "stopping"
           /\ \A q \in Project : row'[q] = NoRow \/ row'[q].owner \in User
<1> USE DEF OrderlyInv, TokenInv, TypeInv, TypeOK, Go
<1>1. \A d \in Call : \/ d = c /\ pc'[d] = step
                      \/ d # c /\ pc'[d] = pc[d] /\ proj'[d] = proj[d] /\ copy'[d] = copy[d]
  OBVIOUS
<1>2. StartOwnsRow'
  BY <1>1 DEF StartOwnsRow
<1>3. ReportOwnsRow'
  BY <1>1 DEF ReportOwnsRow
<1> QED BY <1>1, <1>2, <1>3

\* Two calls inside StartWorkspace work on different projects.
LEMMA OtherProject ==
    ASSUME OrderlyInv, LeasesHold, NEW c \in Call, NEW d \in Call, d # c,
           pc[c] \in InStart, pc[d] \in InStart
    PROVE  proj[d] # proj[c]
  BY DEF OrderlyInv, StartExclusion, Starting

\* A webhook call between lookup and save still finds the row it looked up.
LEMMA CheckedRow ==
    ASSUME OrderlyInv, NEW c \in Call, pc[c] = "checked"
    PROVE  /\ proj[c] \in Project
           /\ row[proj[c]].status = "STARTING"
           /\ row[proj[c]].secret = copy[c].secret
           /\ row[proj[c]].owner = copy[c].owner
           /\ <<proj[c], copy[c].secret>> \in launched \ pending
<1>1. copy[c] \in Row /\ proj[c] \in Project
  BY DEF OrderlyInv, TokenInv, TypeInv, TypeOK, Located
<1>2. row[proj[c]] = Answering(copy[c]) /\ <<proj[c], copy[c].secret>> \in launched \ pending
  BY DEF OrderlyInv, ReportOwnsRow
<1> QED BY <1>1, <1>2 DEF Answering, Row

\* Every step of an orderly service keeps rows with their owners.
LEMMA OrderlyStep ==
    ASSUME LeasesHold, OrderlyInv, [Next]_vars,
           \A c \in Call, p \in Project, a \in Project : ~StopDelete(c, p, a)
    PROVE  OrderlyInv'
<1> SUFFICES /\ StartOwnsRow' /\ ReportOwnsRow'
             /\ \A d \in Call : pc'[d] # "stopping"
             /\ \A q \in Project : row'[q] = NoRow \/ row'[q].owner \in User
  BY OrderlyRest
<1> DEFINE Goal == /\ StartOwnsRow' /\ ReportOwnsRow'
                   /\ \A d \in Call : pc'[d] # "stopping"
                   /\ \A q \in Project : row'[q] = NoRow \/ row'[q].owner \in User
<1> TokenInv /\ TypeInv /\ TypeOK /\ Located
  BY DEF OrderlyInv, TokenInv, TypeInv
<1> USE NoRowTyped, NullAssumption
<1>1. ASSUME NEW p \in Project, NEW u \in User, CreateProject(p, u) PROVE Goal
  <2>1. /\ row[p].owner = NoUser /\ row[p].secret = NoSecret /\ row[p].status = "STOPPED"
        /\ row'[p].owner = u
        /\ \A q \in Project \ {p} : row'[q] = row[q]
        /\ UNCHANGED <<pc, proj, copy, launched, pending>>
    BY <1>1 DEF CreateProject, SaveRow, NoRow, TypeOK
  <2>2. \A c \in Call : pc[c] \in {"fetched", "saved", "tokened", "checked"} => proj[c] # p
    <3> SUFFICES ASSUME NEW c \in Call, proj[c] = p,
                        pc[c] \in {"fetched", "saved", "tokened", "checked"}
                 PROVE  FALSE
      OBVIOUS
    <3>1. CASE pc[c] = "checked"
      BY <3>1, <2>1, CheckedRow
    <3>2. CASE pc[c] # "checked"
      BY <3>2, <2>1 DEF OrderlyInv, StartOwnsRow
    <3> QED BY <3>1, <3>2
  <2>3. StartOwnsRow'
    BY <2>1, <2>2 DEF OrderlyInv, StartOwnsRow, Located
  <2>4. ReportOwnsRow'
    BY <2>1, <2>2 DEF OrderlyInv, ReportOwnsRow, Located, TypeOK
  <2> QED BY <2>1, <2>3, <2>4 DEF OrderlyInv
<1>2. ASSUME NEW c \in Call, NEW p \in Project, StartLock(c, p) PROVE Goal
  BY <1>2, OrderlyMove DEF StartLock
<1>3. ASSUME UNCHANGED <<row, pc, proj, copy, launched, pending>> PROVE Goal
  BY <1>3 DEF OrderlyInv, StartOwnsRow, ReportOwnsRow
<1>4. ASSUME NEW c \in Call, NEW u \in User, StartFetch(c, u) PROVE Goal
  <2>1. Go(c, "fetched", proj[c], row[proj[c]]) /\ UNCHANGED <<row, launched, pending>>
    BY <1>4 DEF StartFetch
  <2>2. row[proj[c]].owner = u /\ ~Live(row[proj[c]])
    BY <1>4 DEF StartFetch
  <2>3. \A d \in Call :
            \/ d = c /\ pc'[d] = "fetched" /\ proj'[d] = proj[d] /\ copy'[d] = row[proj[c]]
            \/ d # c /\ pc'[d] = pc[d] /\ proj'[d] = proj[d] /\ copy'[d] = copy[d]
    BY <2>1 DEF Go, TypeOK
  <2>4. StartOwnsRow'
    BY <2>1, <2>2, <2>3 DEF OrderlyInv, StartOwnsRow, Live
  <2>5. ReportOwnsRow'
    BY <2>1, <2>3 DEF OrderlyInv, ReportOwnsRow
  <2> QED BY <2>1, <2>3, <2>4, <2>5 DEF OrderlyInv
<1>5. ASSUME NEW c \in Call, Leave(c), UNCHANGED <<row, launched, pending>> PROVE Goal
  BY <1>5, OrderlyMove DEF Leave, TypeOK
<1>6. ASSUME NEW c \in Call, NEW s \in Secret, StartSave(c, s) PROVE Goal
  <2> DEFINE r == [copy[c] EXCEPT !.status = "STARTING", !.secret = s]
  <2>1. /\ r.secret = s /\ r.status = "STARTING" /\ r.owner = copy[c].owner
        /\ proj[c] \in Project /\ pc[c] = "fetched" /\ copy[c].owner \in User
    BY <1>6 DEF StartSave, Located, TypeOK, Row, OrderlyInv, StartOwnsRow
  <2>2. \/ Go(c, "saved", proj[c], r)
        \/ Go(c, "leaving", proj[c], NoRow)
    BY <1>6 DEF StartSave, Leave
  <2>3. /\ row'[proj[c]] = r
        /\ \A q \in Project \ {proj[c]} : row'[q] = row[q]
        /\ UNCHANGED <<launched, pending>>
    BY <1>6, <2>1 DEF StartSave, SaveRow, TypeOK
  <2>4. <<proj[c], s>> \notin launched
    BY <1>6, <2>1 DEF StartSave, Unused, TokenInv, SecretsStayWithTheirProject, TypeOK
  <2> HIDE DEF r
  <2>5. \A d \in Call :
            \/ d = c /\ pc'[d] = "saved" /\ proj'[d] = proj[c] /\ copy'[d] = r
            \/ d = c /\ pc'[d] = "leaving"
            \/ d # c /\ pc'[d] = pc[d] /\ proj'[d] = proj[d] /\ copy'[d] = copy[d]
    BY <2>2 DEF Go, TypeOK
  \* The fetch saw a project that is down, so no report is on its way.
  <2>6. row[proj[c]].status # "STARTING"
    BY <2>1 DEF OrderlyInv, StartOwnsRow, Live
  <2>7. \A d \in Call : d # c /\ pc[d] \in {"fetched", "saved", "tokened", "checked"}
            => proj[d] # proj[c]
    <3> SUFFICES ASSUME NEW d \in Call, d # c, proj[d] = proj[c],
                        pc[d] \in {"fetched", "saved", "tokened", "checked"}
                 PROVE  FALSE
      OBVIOUS
    <3>1. CASE pc[d] = "checked"
      BY <3>1, <2>6, CheckedRow
    <3>2. CASE pc[d] # "checked"
      BY <3>2, <2>1, OtherProject DEF InStart
    <3> QED BY <3>1, <3>2
  <2>8. \A a \in pending : a[1] # proj[c]
    BY <2>6 DEF OrderlyInv, ReportOwnsRow
  <2>9. StartOwnsRow'
    BY <2>1, <2>3, <2>4, <2>5, <2>7 DEF OrderlyInv, StartOwnsRow, Located
  <2>10. ReportOwnsRow'
    <3>1. \A a \in pending' : row'[a[1]].secret = a[2] /\ row'[a[1]].status = "STARTING"
      BY <2>3, <2>8 DEF OrderlyInv, ReportOwnsRow, TypeOK
    <3>2. \A d \in Call : pc'[d] = "checked" =>
             d # c /\ pc[d] = "checked" /\ proj'[d] = proj[d] /\ copy'[d] = copy[d]
             /\ row'[proj[d]] = row[proj[d]]
      BY <2>3, <2>5, <2>7 DEF Located
    <3> QED BY <3>1, <3>2, <2>3 DEF OrderlyInv, ReportOwnsRow
  <2> QED BY <2>1, <2>3, <2>5, <2>9, <2>10 DEF OrderlyInv
<1>7. ASSUME NEW c \in Call, StartToken(c) PROVE Goal
  <2>1. \A d \in Call :
            \/ d = c /\ pc[d] = "saved" /\ pc'[d] = "tokened" /\ proj'[d] = proj[d] /\ copy'[d] = copy[d]
            \/ d # c /\ pc'[d] = pc[d] /\ proj'[d] = proj[d] /\ copy'[d] = copy[d]
    BY <1>7 DEF StartToken, Go, TypeOK
  <2> QED BY <1>7, <2>1 DEF StartToken, OrderlyInv, StartOwnsRow, ReportOwnsRow
<1>8. ASSUME NEW c \in Call, StartPost(c) PROVE Goal
  <2> DEFINE a == <<proj[c], copy[c].secret>>
  <2>1. /\ a \notin launched /\ pc[c] = "tokened"
        /\ row[proj[c]].secret = copy[c].secret /\ row[proj[c]].status = "STARTING"
    BY <1>8 DEF StartPost, OrderlyInv, StartOwnsRow
  <2>2. launched' = launched \cup {a} /\ pending' = pending \cup {a} /\ row' = row
    BY <1>8 DEF StartPost
  <2>3. \A d \in Call :
            \/ d = c /\ pc'[d] = "leaving"
            \/ d # c /\ pc'[d] = pc[d] /\ proj'[d] = proj[d] /\ copy'[d] = copy[d]
    BY <1>8 DEF StartPost, Leave, Go, TypeOK
  <2>4. StartOwnsRow'
    <3>1. \A d \in Call : d # c /\ pc[d] \in InStart => proj[d] # proj[c]
      BY <2>1, OtherProject DEF InStart
    <3> QED BY <2>2, <2>3, <3>1 DEF OrderlyInv, StartOwnsRow, InStart
  <2>5. ReportOwnsRow'
    <3>1. \A b \in pending' : row'[b[1]].secret = b[2] /\ row'[b[1]].status = "STARTING"
      BY <2>1, <2>2 DEF OrderlyInv, ReportOwnsRow
    <3> QED BY <2>1, <2>2, <2>3, <3>1 DEF OrderlyInv, ReportOwnsRow
  <2> QED BY <2>2, <2>3, <2>4, <2>5 DEF OrderlyInv
<1>9. ASSUME NEW c \in Call, StartLeave(c) PROVE Goal
  BY <1>9, OrderlyMove DEF StartLeave, Return
<1>10. ASSUME NEW c \in Call, WebhookSave(c) PROVE Goal
  <2> DEFINE a == <<proj[c], copy[c].secret>>
  <2>1. /\ pc[c] = "checked" /\ proj[c] \in Project
        /\ row[proj[c]] = Answering(copy[c]) /\ a \in launched \ pending
        /\ \A d \in Call : pc[d] = "checked" /\ d # c => proj[d] # proj[c]
    BY <1>10 DEF WebhookSave, OrderlyInv, ReportOwnsRow, Located
  <2>2. CASE UNCHANGED row
    BY <1>10, <2>2, OrderlyMove DEF WebhookSave, Return
  <2>3. CASE SaveRow(proj[c], copy[c])
    <3>1. /\ row'[proj[c]] = copy[c] /\ \A q \in Project \ {proj[c]} : row'[q] = row[q]
          /\ UNCHANGED <<launched, pending>>
      BY <1>10, <2>3, <2>1 DEF WebhookSave, SaveRow, TypeOK
    <3>2. /\ row[proj[c]].status = "STARTING" /\ row[proj[c]].secret = copy[c].secret
          /\ row[proj[c]].owner = copy[c].owner
      BY <2>1 DEF Answering, TypeOK, Row
    <3>3. \A d \in Call :
              \/ d = c /\ pc'[d] = "idle"
              \/ d # c /\ pc'[d] = pc[d] /\ proj'[d] = proj[d] /\ copy'[d] = copy[d]
      BY <1>10 DEF WebhookSave, Return, Go, TypeOK
    \* A start on this project would have seen STARTING, or not yet launched.
    <3>4. \A d \in Call : pc[d] \in {"fetched", "saved", "tokened"} => proj[d] # proj[c]
      BY <2>1, <3>2 DEF OrderlyInv, StartOwnsRow, Live
    <3>5. \A b \in pending : b[1] # proj[c]
      <4> SUFFICES ASSUME NEW b \in pending, b[1] = proj[c] PROVE FALSE
        OBVIOUS
      <4>1. b[2] = copy[c].secret
        BY <3>2 DEF OrderlyInv, ReportOwnsRow
      <4>2. b \in Project \X Secret
        BY DEF TypeOK
      <4>3. b = a
        BY <4>1, <4>2
      <4> QED BY <4>3, <2>1
    <3>6. StartOwnsRow'
      BY <3>1, <3>3, <3>4 DEF OrderlyInv, StartOwnsRow, Located
    <3>7. ReportOwnsRow'
      <4>1. \A b \in pending' : row'[b[1]].secret = b[2] /\ row'[b[1]].status = "STARTING"
        BY <3>1, <3>5 DEF OrderlyInv, ReportOwnsRow, TypeOK
      <4>2. \A d \in Call : pc'[d] = "checked" =>
               pc[d] = "checked" /\ proj'[d] = proj[d] /\ copy'[d] = copy[d]
               /\ row'[proj[d]] = row[proj[d]]
        BY <2>1, <3>1, <3>3 DEF Located
      <4> QED BY <3>1, <4>1, <4>2 DEF OrderlyInv, ReportOwnsRow
    <3>8. row'[proj[c]] = NoRow \/ row'[proj[c]].owner \in User
      <4>1. row[proj[c]] # NoRow
        BY <3>2, NoRowTyped
      <4> QED BY <4>1, <3>1, <3>2, <2>1 DEF OrderlyInv
    <3> QED BY <3>1, <3>3, <3>6, <3>7, <3>8 DEF OrderlyInv
  <2> QED BY <1>10, <2>2, <2>3 DEF WebhookSave
<1>11. ASSUME NEW c \in Call, NEW p \in Project, NEW s \in Secret, NEW o \in Outcome,
              AcceptReport(c, p, s, o)
       PROVE  Goal
  <2> DEFINE r == [row[p] EXCEPT !.status = o]
  <2>1. /\ <<p, s>> \in pending /\ <<p, s>> \in launched
        /\ row[p].secret = s /\ row[p].status = "STARTING"
    BY <1>11 DEF AcceptReport, OrderlyInv, ReportOwnsRow, TypeOK
  <2>2. r.secret = s /\ r.owner = row[p].owner /\ row[p] = Answering(r)
    BY <2>1 DEF Answering, TypeOK, Row
  <2>3. /\ Go(c, "checked", p, r) /\ pc[c] = "idle"
        /\ pending' = pending \ {<<p, s>>} /\ UNCHANGED <<row, launched>>
    BY <1>11 DEF AcceptReport
  <2> HIDE DEF r
  <2>4. \A d \in Call :
            \/ d = c /\ pc'[d] = "checked" /\ proj'[d] = p /\ copy'[d] = r
            \/ d # c /\ pc'[d] = pc[d] /\ proj'[d] = proj[d] /\ copy'[d] = copy[d]
    BY <2>3 DEF Go, TypeOK
  <2>5. \A d \in Call : pc[d] = "checked" => proj[d] # p
    <3> SUFFICES ASSUME NEW d \in Call, pc[d] = "checked", proj[d] = p PROVE FALSE
      OBVIOUS
    <3>1. row[p] = Answering(copy[d]) /\ <<p, copy[d].secret>> \notin pending
      BY DEF OrderlyInv, ReportOwnsRow
    <3>2. copy[d].secret = s
      BY <3>1, <2>1 DEF Answering, TypeOK, Row
    <3> QED BY <3>1, <3>2, <2>1
  <2>6. StartOwnsRow'
    BY <2>3, <2>4 DEF OrderlyInv, StartOwnsRow
  <2>7. ReportOwnsRow'
    BY <2>1, <2>2, <2>3, <2>4, <2>5 DEF OrderlyInv, ReportOwnsRow
  <2> QED BY <2>3, <2>4, <2>6, <2>7 DEF OrderlyInv
<1>12. ASSUME NEW p \in Project, NEW s \in Secret, ReportDropped(p, s) PROVE Goal
  BY <1>12 DEF ReportDropped, OrderlyInv, StartOwnsRow, ReportOwnsRow
<1>13. ASSUME Crash PROVE Goal
  BY <1>13 DEF Crash, OrderlyInv, StartOwnsRow, ReportOwnsRow
<1>20. ASSUME NEW c \in Call, StartLeaveRetried(c) PROVE FALSE
  BY <1>20 DEF StartLeaveRetried, LeasesHold
<1>14. ASSUME NEW c \in Call, StartStep(c) PROVE Goal
  BY <1>14, <1>4, <1>5, <1>6, <1>7, <1>8, <1>9, <1>20
     DEF StartStep, StartRefuse, StartSaveFails, StartTokenFails, StartPostFails
<1> HIDE DEF Goal
<1>15. ASSUME NEW p \in Project, StartLockUnanswered(p) \/ LockExpire(p) PROVE Goal
  BY <1>15, <1>3 DEF StartLockUnanswered, LockExpire
<1>16. ASSUME NEW c \in Call, NEW p \in Project, NEW a \in Project, StopDelete(c, p, a)
       PROVE  FALSE
  BY <1>16
<1>17. ASSUME NEW c \in Call, StopUpdate(c) PROVE FALSE
  BY <1>17 DEF StopUpdate, OrderlyInv
<1>18. ASSUME UNCHANGED vars PROVE Goal
  BY <1>18, <1>3 DEF vars
<1>19. Goal
  BY <1>1, <1>2, <1>10, <1>11, <1>12, <1>13, <1>14, <1>15, <1>16, <1>17, <1>18
     DEF Next, WebhookUpdate, VerifyAndComplete
<1> QED BY <1>19 DEF Goal

LEMMA OrderlyAlways == ASSUME Orderly PROVE Spec => []OrderlyInv
<1>1. OrderlyInv /\ [Next]_vars => OrderlyInv'
  BY OrderlyStep DEF Orderly, StopDelete
<1> QED BY <1>1, OrderlyInit, PTL DEF Spec

-----------------------------------------------------------------------------
(* The refinement *)

\* Each step of an orderly service is a step of Lifecycle, or none.
LEMMA LifecycleStep ==
    ASSUME LeasesHold, OrderlyInv, [Next]_vars
    PROVE  [LifecycleOf!Next]_(LifecycleOf!vars)
<1> TokenInv /\ TypeInv /\ TypeOK /\ Located
  BY DEF OrderlyInv, TokenInv, TypeInv
<1> USE NoRowTyped, NullAssumption
<1>1. ASSUME NEW p \in Project, NEW u \in User, CreateProject(p, u)
      PROVE  LifecycleOf!Create(p, u)
  BY <1>1 DEF CreateProject, SaveRow, LifecycleOf!Create, LifecycleOf!NoCell, NoRow, Unused
<1>2. ASSUME UNCHANGED <<row, drawn, launched>> PROVE UNCHANGED LifecycleOf!vars
  BY <1>2 DEF LifecycleOf!vars, Unused
<1>3. ASSUME NEW c \in Call, NEW s \in Secret, StartSave(c, s)
      PROVE  proj[c] \in Project /\ LifecycleOf!Start(proj[c], s)
  <2>1. /\ proj[c] \in Project /\ row[proj[c]] = copy[c] /\ ~Live(copy[c])
        /\ copy[c].owner \in User /\ copy[c] \in Row
    BY <1>3 DEF StartSave, OrderlyInv, StartOwnsRow, Located, TypeOK
  <2>2. [copy[c] EXCEPT !.status = "STARTING", !.secret = s]
          = [owner |-> row[proj[c]].owner, status |-> "STARTING", secret |-> s]
    <3> DEFINE r == [copy[c] EXCEPT !.status = "STARTING", !.secret = s]
    <3>1. /\ r \in Row /\ r.status = "STARTING" /\ r.secret = s
          /\ r.owner = row[proj[c]].owner
      BY <2>1 DEF Row, Status
    <3> HIDE DEF r
    <3>2. r = [owner |-> row[proj[c]].owner, status |-> "STARTING", secret |-> s]
      BY <3>1 DEF Row
    <3> QED BY <3>2 DEF r
  <2>3. row' = [row EXCEPT ![proj[c]] =
                   [owner |-> row[proj[c]].owner, status |-> "STARTING", secret |-> s]]
    BY <1>3, <2>2 DEF StartSave, SaveRow
  <2>4. row[proj[c]].status \in {"STOPPED", "ERROR"}
    BY <2>1 DEF Live, Row, Status
  <2>5. s \in Unused /\ drawn' = [drawn EXCEPT ![s] = proj[c]] /\ UNCHANGED launched
    BY <1>3 DEF StartSave
  <2>6. Unused' = Unused \ {s}
    BY <2>1, <2>5 DEF Unused, TypeOK
  <2>7. s \notin Secret \ Unused /\ (Secret \ Unused)' = (Secret \ Unused) \cup {s}
    BY <2>5, <2>6 DEF Unused
  <2> QED BY <2>1, <2>3, <2>4, <2>5, <2>7 DEF LifecycleOf!Start
<1>4. ASSUME NEW c \in Call, StartPost(c)
      PROVE  proj[c] \in Project /\ LifecycleOf!Launch(proj[c])
  BY <1>4 DEF StartPost, OrderlyInv, StartOwnsRow, Located, LifecycleOf!Launch, Unused
<1>5. ASSUME NEW c \in Call, WebhookSave(c)
      PROVE  \/ UNCHANGED LifecycleOf!vars
             \/ /\ proj[c] \in Project /\ copy[c].status \in {"RUNNING", "ERROR"}
                /\ LifecycleOf!Report(proj[c], copy[c].status)
  <2>1. CASE UNCHANGED row
    BY <1>5, <2>1, <1>2 DEF WebhookSave
  <2>2. CASE SaveRow(proj[c], copy[c])
    <3>1. /\ proj[c] \in Project /\ row[proj[c]].status = "STARTING"
          /\ row[proj[c]].secret = copy[c].secret /\ row[proj[c]].owner = copy[c].owner
          /\ <<proj[c], copy[c].secret>> \in launched
      BY <1>5, CheckedRow DEF WebhookSave
    <3>2. copy[c].status \in {"RUNNING", "ERROR"}
      BY <1>5 DEF WebhookSave, TokenInv, SnapshotsTrue, Outcome
    <3>3. copy[c] = [owner |-> row[proj[c]].owner, status |-> copy[c].status,
                     secret |-> row[proj[c]].secret]
      BY <3>1 DEF TypeOK, Row
    <3>4. row' = [row EXCEPT ![proj[c]] =
                     [owner |-> row[proj[c]].owner, status |-> copy[c].status,
                      secret |-> row[proj[c]].secret]]
      BY <2>2, <3>3 DEF SaveRow
    <3>5. UNCHANGED <<Secret \ Unused, launched>>
      BY <1>5 DEF WebhookSave, Unused
    <3> QED BY <3>1, <3>2, <3>4, <3>5 DEF LifecycleOf!Report
  <2> QED BY <1>5, <2>1, <2>2 DEF WebhookSave
<1>6. ASSUME NEW c \in Call, StartStep(c)
      PROVE  [LifecycleOf!Next]_(LifecycleOf!vars)
  <2>1. CASE \E s \in Secret : StartSave(c, s)
    BY <2>1, <1>3 DEF LifecycleOf!Next
  <2>2. CASE StartPost(c)
    BY <2>2, <1>4 DEF LifecycleOf!Next
  <2>3. CASE UNCHANGED <<row, drawn, launched>>
    BY <2>3, <1>2
  <2> QED
    BY <1>6, <2>1, <2>2, <2>3
       DEF StartStep, StartFetch, StartRefuse, StartSaveFails, StartToken, StartTokenFails,
           StartPostFails, StartLeave, StartLeaveRetried
<1>7. ASSUME NEW c \in Call, NEW p \in Project,
             StartLock(c, p) \/ \E a \in Project : StopDelete(c, p, a)
      PROVE  UNCHANGED LifecycleOf!vars
  BY <1>7, <1>2 DEF StartLock, StopDelete
<1>8. ASSUME NEW p \in Project, StartLockUnanswered(p) \/ LockExpire(p)
      PROVE  UNCHANGED LifecycleOf!vars
  BY <1>8, <1>2 DEF StartLockUnanswered, LockExpire
<1>9. ASSUME NEW c \in Call, NEW p \in Project, NEW s \in Secret, NEW o \in Outcome,
             AcceptReport(c, p, s, o)
      PROVE  UNCHANGED LifecycleOf!vars
  BY <1>9, <1>2 DEF AcceptReport
<1>10. ASSUME NEW p \in Project, NEW s \in Secret, ReportDropped(p, s)
       PROVE  UNCHANGED LifecycleOf!vars
  BY <1>10, <1>2 DEF ReportDropped
<1>11. ASSUME Crash \/ UNCHANGED vars PROVE UNCHANGED LifecycleOf!vars
  BY <1>11, <1>2 DEF Crash, vars
<1>12. ASSUME NEW c \in Call, StopUpdate(c) PROVE FALSE
  BY <1>12 DEF StopUpdate, OrderlyInv
<1>13. CASE \E p \in Project, u \in User : CreateProject(p, u)
  BY <1>13, <1>1 DEF LifecycleOf!Next
<1>14. CASE \E c \in Call : WebhookSave(c)
  BY <1>14, <1>5 DEF LifecycleOf!Next
<1> QED
  BY <1>6, <1>7, <1>8, <1>9, <1>10, <1>11, <1>12, <1>13, <1>14
     DEF Next, WebhookUpdate, VerifyAndComplete

LEMMA LifecycleInit == Init => LifecycleOf!Init
  BY DEF Init, LifecycleOf!Init, LifecycleOf!NoCell, NoRow, Unused

\* With leases that hold and no StopWorkspace, project-service implements
\* Lifecycle: one unanswered start at a time, answered by its own agent.
THEOREM ServiceImplementsLifecycle == ASSUME Orderly PROVE Spec => ImplementsLifecycle
<1>1. OrderlyInv /\ [Next]_vars => [LifecycleOf!Next]_(LifecycleOf!vars)
  BY LifecycleStep DEF Orderly
<1> QED
  BY <1>1, OrderlyAlways, LifecycleInit, PTL
     DEF Spec, ImplementsLifecycle, LifecycleOf!Spec

\* Under the same traffic no token an earlier start drew comes back.
THEOREM TokensMoveForward == ASSUME Orderly PROVE Spec => SecretsMoveForward
<1>1. ASSUME OrderlyInv, [LifecycleOf!Next]_(LifecycleOf!vars), NEW p \in Project,
             row'[p].secret # row[p].secret
      PROVE  row'[p].secret \in Unused
  <2> TypeOK
    BY <1>1 DEF OrderlyInv, TokenInv, TypeInv
  <2>1. PICK q \in Project :
            \/ \E u \in User : LifecycleOf!Create(q, u)
            \/ \E s \in Secret : LifecycleOf!Start(q, s)
            \/ LifecycleOf!Launch(q)
            \/ \E o \in {"RUNNING", "ERROR"} : LifecycleOf!Report(q, o)
    BY <1>1 DEF LifecycleOf!Next, LifecycleOf!vars
  <2>2. CASE \E u \in User : LifecycleOf!Create(q, u)
    BY <1>1, <2>2 DEF LifecycleOf!Create, LifecycleOf!NoCell, TypeOK
  <2>3. CASE \E s \in Secret : LifecycleOf!Start(q, s)
    BY <1>1, <2>3 DEF LifecycleOf!Start, TypeOK
  <2>4. CASE LifecycleOf!Launch(q)
    BY <1>1, <2>4 DEF LifecycleOf!Launch
  <2>5. CASE \E o \in {"RUNNING", "ERROR"} : LifecycleOf!Report(q, o)
    BY <1>1, <2>5 DEF LifecycleOf!Report, TypeOK
  <2> QED BY <2>1, <2>2, <2>3, <2>4, <2>5
<1>2. OrderlyInv /\ [Next]_vars
        => [\A p \in Project : row'[p].secret # row[p].secret => row'[p].secret \in Unused]_vars
  BY <1>1, LifecycleStep DEF Orderly
<1> QED BY <1>2, OrderlyAlways, PTL DEF Spec, SecretsMoveForward

-----------------------------------------------------------------------------
(* Answers under way.  StartingIsAnsweredFor is about rows, calls and      *)
(* agents at once, and inductive given TokenInv: it needs to know that the *)
(* copy of an accepted report carries an outcome.                          *)

\* Only redis fails, and stops name the sandbox of their project.
Quiet == Fault \subseteq {"redis", "retry"} /\ Stops # "any"

\* A call that answers for nothing goes somewhere, and no row or agent is lost.
LEMMA AnsweredMove ==
    ASSUME TypeOK, Quiet, StartingIsAnsweredFor,
           NEW c \in Call, NEW step, NEW p, NEW r, Go(c, step, p, r),
           row' = row, pending \subseteq pending',
           pc[c] \notin {"saved", "tokened", "checked", "stopping"}
    PROVE  StartingIsAnsweredFor'
  BY DEF Quiet, TypeOK, StartingIsAnsweredFor, Go

LEMMA AnsweredStep ==
    ASSUME Quiet, StartingIsAnsweredFor, TokenInv, [Next]_vars
    PROVE  StartingIsAnsweredFor'
<1> TypeOK /\ TypeInv /\ Located
  BY DEF TokenInv, TypeInv
<1> SUFFICES ASSUME NEW p \in Project, row'[p].status = "STARTING"
             PROVE  \/ <<p, row'[p].secret>> \in pending'
                    \/ \E c \in Call : proj'[c] = p /\
                          \/ pc'[c] \in {"checked", "stopping"}
                          \/ pc'[c] \in {"saved", "tokened"} /\ copy'[c].secret = row'[p].secret
  BY DEF Quiet, StartingIsAnsweredFor
<1> DEFINE Goal == \/ <<p, row'[p].secret>> \in pending'
                   \/ \E c \in Call : proj'[c] = p /\
                         \/ pc'[c] \in {"checked", "stopping"}
                         \/ pc'[c] \in {"saved", "tokened"} /\ copy'[c].secret = row'[p].secret
<1>1. ASSUME StartingIsAnsweredFor' PROVE Goal
  BY <1>1 DEF Quiet, StartingIsAnsweredFor
<1>2. ASSUME UNCHANGED <<pc, proj, copy, pending>>, row'[p] = row[p] PROVE Goal
  BY <1>2 DEF Quiet, StartingIsAnsweredFor
<1>3. ASSUME NEW q \in Project, NEW u \in User, CreateProject(q, u) PROVE Goal
  BY <1>2, <1>3 DEF CreateProject, SaveRow, TypeOK
<1>4. ASSUME NEW c \in Call, NEW q \in Project, StartLock(c, q) PROVE Goal
  BY <1>1, <1>4, AnsweredMove DEF StartLock
<1>13. ASSUME NEW c \in Call, NEW q \in Project, NEW a \in Project, StopDelete(c, q, a) PROVE Goal
  <2>1. /\ a = q /\ row' = row /\ pc[c] = "idle"
        /\ \A l \in pending : l[1] # q => l \in pending'
        /\ Go(c, "stopping", q, NoRow)
    BY <1>13, FaultAssumption DEF StopDelete, StopUse, Quiet
  <2>2. pc'[c] = "stopping" /\ proj'[c] = q
    BY <2>1 DEF Go, TypeOK
  <2>3. \A d \in Call \ {c} : pc'[d] = pc[d] /\ proj'[d] = proj[d] /\ copy'[d] = copy[d]
    BY <2>1 DEF Go, TypeOK
  <2>4. CASE p # q
    BY <2>1, <2>3, <2>4 DEF Quiet, StartingIsAnsweredFor
  <2> QED BY <2>2, <2>4
<1>5. ASSUME NEW c \in Call, StartStep(c) PROVE Goal
  <2>1. ASSUME NEW u \in User, StartFetch(c, u) \/ StartRefuse(c, u) PROVE Goal
    BY <1>1, <2>1, AnsweredMove DEF StartFetch, StartRefuse, Leave
  <2>2. ASSUME NEW s \in Secret, StartSave(c, s) PROVE Goal
    <3> DEFINE r == [copy[c] EXCEPT !.status = "STARTING", !.secret = s]
    <3>1. /\ row' = [row EXCEPT ![proj[c]] = r] /\ r.secret = s
          /\ Go(c, "saved", proj[c], r) /\ proj[c] \in Project /\ UNCHANGED pending
      BY <2>2 DEF Quiet, StartSave, SaveRow, TypeOK, Located, Row
    <3>2. CASE p = proj[c]
      BY <3>1, <3>2 DEF Go, TypeOK
    <3>3. CASE p # proj[c]
      <4>1. row'[p] = row[p]
        BY <3>1, <3>3 DEF TypeOK
      <4>2. \A d \in Call : proj[d] = p => /\ d # c
                                           /\ pc'[d] = pc[d] /\ proj'[d] = proj[d]
                                           /\ copy'[d] = copy[d]
        BY <3>1, <3>3 DEF Go, TypeOK
      <4> QED BY <3>1, <4>1, <4>2 DEF Quiet, StartingIsAnsweredFor
    <3> QED BY <3>2, <3>3
  <2>3. ASSUME StartSaveFails(c) PROVE Goal
    BY <1>1, <2>3, AnsweredMove DEF StartSaveFails, Leave
  <2>4. ASSUME StartToken(c) PROVE Goal
    <3>1. /\ row' = row /\ pending' = pending /\ pc[c] = "saved" /\ pc'[c] = "tokened"
          /\ \A d \in Call : /\ d # c => pc'[d] = pc[d]
                             /\ proj'[d] = proj[d] /\ copy'[d] = copy[d]
      BY <2>4 DEF StartToken, Go, TypeOK
    <3> QED BY <3>1 DEF Quiet, StartingIsAnsweredFor
  <2>5. ASSUME StartPost(c) PROVE Goal
    <3>1. /\ row' = row /\ pending' = pending \cup {<<proj[c], copy[c].secret>>}
          /\ pc[c] = "tokened"
          /\ \A d \in Call \ {c} : pc'[d] = pc[d] /\ proj'[d] = proj[d] /\ copy'[d] = copy[d]
      BY <2>5 DEF StartPost, Leave, Go, TypeOK
    <3> QED BY <3>1 DEF Quiet, StartingIsAnsweredFor
  <2>6. ASSUME StartLeave(c) PROVE Goal
    BY <1>1, <2>6, AnsweredMove DEF StartLeave, Return
  <2>8. ASSUME StartLeaveRetried(c) PROVE Goal
    BY <1>2, <2>8 DEF StartLeaveRetried
  <2>7. ~StartTokenFails(c) /\ ~StartPostFails(c)
    BY DEF Quiet, StartTokenFails, StartPostFails
  <2> QED BY <1>5, <2>1, <2>2, <2>3, <2>4, <2>5, <2>6, <2>7, <2>8 DEF StartStep
<1>6. ASSUME NEW c \in Call, StopUpdate(c) PROVE Goal
  <2>1. p # proj[c] /\ row'[p] = row[p]
    BY <1>6, NoRowTyped DEF Quiet, StopUpdate, TypeInv, TypeOK, Located, Row
  <2>2. \A d \in Call : proj[d] = p =>
            pc'[d] = pc[d] /\ proj'[d] = proj[d] /\ copy'[d] = copy[d]
    BY <1>6, <2>1 DEF StopUpdate, Return, Go, TypeOK
  <2> QED BY <1>6, <2>1, <2>2 DEF StopUpdate, Quiet, StartingIsAnsweredFor
<1>7. ASSUME NEW c \in Call, WebhookSave(c) PROVE Goal
  <2>1. /\ row' = [row EXCEPT ![proj[c]] = copy[c]] /\ pending' = pending
        /\ proj[c] \in Project /\ copy[c].status \in Outcome
    BY <1>7 DEF Quiet, WebhookSave, SaveRow, TokenInv, SnapshotsTrue, Located
  <2>2. p # proj[c]
    BY <2>1 DEF TypeOK, Outcome
  <2>3. row'[p] = row[p]
    BY <2>1, <2>2 DEF TypeOK
  <2>4. \A d \in Call : proj[d] = p =>
            pc'[d] = pc[d] /\ proj'[d] = proj[d] /\ copy'[d] = copy[d]
    BY <1>7, <2>2 DEF WebhookSave, Return, Go, TypeOK
  <2> QED BY <2>1, <2>3, <2>4 DEF Quiet, StartingIsAnsweredFor
<1>8. ASSUME NEW c \in Call, NEW q \in Project, NEW s \in Secret, NEW o \in Outcome,
             AcceptReport(c, q, s, o)
      PROVE  Goal
  <2>1. /\ row' = row /\ pending' = pending \ {<<q, s>>}
        /\ pc[c] = "idle" /\ pc'[c] = "checked" /\ proj'[c] = q
        /\ \A d \in Call \ {c} : pc'[d] = pc[d] /\ proj'[d] = proj[d] /\ copy'[d] = copy[d]
    BY <1>8 DEF AcceptReport, Go, TypeOK
  <2> QED BY <2>1 DEF Quiet, StartingIsAnsweredFor
<1>9. ASSUME NEW q \in Project, NEW s \in Secret, ReportDropped(q, s) PROVE Goal
  <2>1. /\ UNCHANGED <<row, pc, proj, copy>> /\ pending' = pending \ {<<q, s>>}
        /\ row[q].secret # s
    BY <1>9 DEF Quiet, ReportDropped
  <2> QED BY <2>1 DEF Quiet, StartingIsAnsweredFor
<1>10. ~Crash
  BY DEF Quiet, Crash
<1>11. ASSUME UNCHANGED <<row, pc, proj, copy, pending>> PROVE Goal
  BY <1>2, <1>11
<1> HIDE DEF Goal
<1>12. Goal
  BY <1>3, <1>4, <1>5, <1>6, <1>7, <1>8, <1>9, <1>10, <1>11, <1>13
     DEF Next, WebhookUpdate, VerifyAndComplete, StartLockUnanswered, LockExpire, vars
<1> QED BY <1>12 DEF Goal

\* As long as only redis fails and stops name the sandbox of their project, no STARTING
\* row is an orphan: its start, its agent, an accepted report or a stop is still to come.
THEOREM StartsAreAnsweredFor == Spec => []StartingIsAnsweredFor
<1>1. Init => StartingIsAnsweredFor
  BY NoRowTyped DEF Init, StartingIsAnsweredFor
<1>2. StartingIsAnsweredFor /\ TokenInv /\ [Next]_vars => StartingIsAnsweredFor'
  <2>1. CASE Quiet
    BY <2>1, AnsweredStep
  <2>2. CASE ~Quiet
    BY <2>2 DEF Quiet, StartingIsAnsweredFor
  <2> QED BY <2>1, <2>2
<1> QED BY <1>1, <1>2, TokenAlways, PTL DEF Spec

-----------------------------------------------------------------------------
(* Behind the gateway *)

\* The agent's JSON names no "id", so ShouldBindJSON refuses every report.
LEMMA NothingBinds ==
    ASSUME NEW p \in Project, NEW o \in Outcome
    PROVE  ~(Required \subseteq DOMAIN Body(p, o))
  BY DEF Required, Body

\* A step of the system is a step of project-service, or the gateway turning an agent
\* away, which takes from pending and changes nothing else.
LEMMA SystemStep ==
    ASSUME [SystemNext]_vars
    PROVE  \/ [Next]_vars
           \/ pending' \subseteq pending /\ UNCHANGED <<row, lock, pc, proj, copy, drawn, launched>>
<1>1. ASSUME NEW p \in Project, NEW s \in Secret, notifyCallback(p, s)
      PROVE  pending' \subseteq pending /\ UNCHANGED <<row, lock, pc, proj, copy, drawn, launched>>
  BY <1>1, NothingBinds DEF notifyCallback, HandleWebhookInternal, BindingRefused
<1> QED BY <1>1 DEF SystemNext, Next

\* Behind the gateway the agents' callbacks change nothing of what project-service
\* holds: seen from it, an agent that is refused is an agent that is not heard.
THEOREM SystemIsService == ASSUME "agent" \in Fault PROVE SystemSpec => Spec
<1>1. ASSUME NEW p \in Project, NEW s \in Secret, notifyCallback(p, s)
      PROVE  ReportDropped(p, s)
  BY <1>1, NothingBinds DEF notifyCallback, HandleWebhookInternal, BindingRefused, ReportDropped
<1>2. [SystemNext]_vars => [Next]_vars
  BY <1>1 DEF SystemNext, Next
<1> QED BY <1>2, PTL DEF SystemSpec, Spec

\* What the agents' refused reports leave of the service's own safety.
LEMMA SystemSafe == SystemSpec => [](TokenInv /\ ExclusionInv)
<1> DEFINE Safe == TokenInv /\ ExclusionInv
<1>1. Init => Safe
  BY TokenInit, ExclusionInit
<1>2. Safe /\ [SystemNext]_vars => Safe'
  <2> SUFFICES ASSUME Safe, [SystemNext]_vars PROVE Safe'
    OBVIOUS
  <2>1. CASE [Next]_vars
    BY <2>1, TokenStep, ExclusionStep
  <2>2. CASE pending' \subseteq pending /\ UNCHANGED <<row, lock, pc, proj, copy, drawn, launched>>
    <3>1. TypeInv'
      BY <2>2 DEF TokenInv, TypeInv, TypeOK, Located
    <3>2. StartExclusion'
      BY <2>2 DEF ExclusionInv, StartExclusion, Starting
    <3>3. ReportedSecretWasLaunched' /\ SecretsStayWithTheirProject' /\ SnapshotsTrue'
      BY <2>2 DEF TokenInv, ReportedSecretWasLaunched, SecretsStayWithTheirProject, SnapshotsTrue
    <3> QED BY <3>1, <3>2, <3>3 DEF TokenInv, ExclusionInv
  <2> QED BY <2>1, <2>2, SystemStep
<1> QED BY <1>1, <1>2, PTL DEF SystemSpec

\* Whatever fails, expires or is refused behind the gateway, no token serves two
\* projects, in rows, in snapshots or in agents.
THEOREM SystemKeepsTokens == SystemSpec => []SecretsStayWithTheirProject
<1>1. TokenInv => SecretsStayWithTheirProject
  BY DEF TokenInv
<1> QED BY <1>1, SystemSafe, PTL

\* Behind the gateway too, as long as leases hold, starts of a project exclude each
\* other and find their key still set.
THEOREM SystemStartsExclude ==
    ASSUME LeasesHold
    PROVE  SystemSpec => [](\A c \in Call : pc[c] \in InStart =>
                                lock[proj[c]] /\ Starting(proj[c]) = {c})
<1>1. ExclusionInv => \A c \in Call : pc[c] \in InStart => lock[proj[c]] /\ Starting(proj[c]) = {c}
  BY DEF ExclusionInv, StartExclusion
<1> QED BY <1>1, SystemSafe, PTL

-----------------------------------------------------------------------------
(* Nobody is heard: what the refused reports leave of the lifecycle.       *)

\* No call answers a report, and no row shows an outcome.
UnheardInv ==
    /\ TypeInv
    /\ \A p \in Project : row[p].status \notin Outcome
    /\ \A c \in Call : pc[c] \notin {"checked", "stopping"}

\* STARTING is for good.
Stuck == \A p \in Project : row[p].status = "STARTING" => row'[p].status = "STARTING"

LEMMA UnheardStep == UnheardInv /\ [SystemNext]_vars => UnheardInv' /\ Stuck
<1> SUFFICES ASSUME UnheardInv, [SystemNext]_vars PROVE UnheardInv' /\ Stuck
  OBVIOUS
<1> TypeOK /\ TypeInv
  BY DEF UnheardInv, TypeInv
<1> DEFINE Goal == /\ \A p \in Project : row'[p].status \notin Outcome
                   /\ \A c \in Call : pc'[c] \notin {"checked", "stopping"}
                   /\ Stuck
<1>1. TypeInv'
  <2>1. CASE [Next]_vars
    BY <2>1, TypeStep
  <2>2. CASE pending' \subseteq pending /\ UNCHANGED <<row, lock, pc, proj, copy, drawn, launched>>
    BY <2>2 DEF TypeInv, TypeOK, Located
  <2> QED BY <2>1, <2>2, SystemStep
<1>2. ASSUME UNCHANGED row, NEW c \in Call, NEW step \in Step \ {"checked", "stopping"},
             NEW p, NEW r, Go(c, step, p, r)
      PROVE  Goal
  BY <1>2 DEF UnheardInv, Stuck, Go, TypeOK
<1>3. ASSUME UNCHANGED <<row, pc>> PROVE Goal
  BY <1>3 DEF UnheardInv, Stuck
<1>4. ASSUME NEW p \in Project, NEW u \in User, CreateProject(p, u) PROVE Goal
  BY <1>4, NoRowTyped DEF CreateProject, SaveRow, UnheardInv, Stuck, TypeOK, Outcome
<1>5. ASSUME NEW c \in Call, NEW p \in Project, StartLock(c, p) PROVE Goal
  BY <1>2, <1>5 DEF StartLock, Step, InStart
<1>6. ASSUME NEW p \in Project, StartLockUnanswered(p) \/ LockExpire(p) PROVE Goal
  BY <1>3, <1>6 DEF StartLockUnanswered, LockExpire
<1>7. ASSUME NEW c \in Call, StartStep(c) PROVE Goal
  <2>1. ASSUME NEW u \in User, StartFetch(c, u) PROVE Goal
    BY <1>2, <2>1 DEF StartFetch, Step, InStart
  <2>2. ASSUME UNCHANGED row, Leave(c) PROVE Goal
    BY <1>2, <2>2 DEF Leave, Step, InStart
  <2>3. ASSUME NEW s \in Secret, StartSave(c, s) PROVE Goal
    <3> DEFINE r == [copy[c] EXCEPT !.status = "STARTING", !.secret = s]
    <3>1. r.status = "STARTING" /\ proj[c] \in Project /\ row' = [row EXCEPT ![proj[c]] = r]
      BY <2>3 DEF StartSave, SaveRow, TypeInv, TypeOK, Located, Row
    <3>2. Go(c, "saved", proj[c], r) \/ Leave(c)
      BY <2>3 DEF StartSave
    <3>3. \A d \in Call : pc'[d] \notin {"checked", "stopping"}
      BY <3>2 DEF Go, Leave, UnheardInv, TypeOK
    <3>4. \A q \in Project : row'[q].status = "STARTING" \/ row'[q] = row[q]
      BY <3>1 DEF TypeOK
    <3>5. \A q \in Project : row'[q].status \notin Outcome
      BY <3>4 DEF UnheardInv, Outcome
    <3> QED BY <3>3, <3>4, <3>5 DEF Stuck
  <2>4. ASSUME StartToken(c) PROVE Goal
    BY <1>2, <2>4 DEF StartToken, Step, InStart
  <2>5. ASSUME StartLeave(c) PROVE Goal
    BY <1>2, <2>5 DEF StartLeave, Return, Step
  <2>6. ASSUME StartLeaveRetried(c) PROVE Goal
    BY <1>3, <2>6 DEF StartLeaveRetried
  <2> QED BY <1>7, <2>1, <2>2, <2>3, <2>4, <2>5, <2>6
          DEF StartStep, StartRefuse, StartSaveFails, StartTokenFails, StartPost, StartPostFails
<1>8. ASSUME NEW c \in Call, WebhookSave(c) PROVE Goal
  BY <1>8 DEF WebhookSave, UnheardInv
<1>9. ASSUME NEW p \in Project, NEW s \in Secret, notifyCallback(p, s) \/ ReportDropped(p, s)
      PROVE  Goal
  BY <1>3, <1>9, NothingBinds
     DEF notifyCallback, HandleWebhookInternal, BindingRefused, ReportDropped
<1>10. ASSUME Crash PROVE Goal
  BY <1>10 DEF Crash, UnheardInv, Stuck
<1>11. ASSUME UNCHANGED vars PROVE Goal
  BY <1>3, <1>11 DEF vars
<1> HIDE DEF Goal
<1>12. Goal
  BY <1>4, <1>5, <1>6, <1>7, <1>8, <1>9, <1>10, <1>11 DEF SystemNext
<1> QED BY <1>1, <1>12 DEF UnheardInv, Goal

LEMMA UnheardAlways == SystemSpec => []UnheardInv
<1>1. Init => UnheardInv
  BY TypeInit, NoRowTyped DEF Init, UnheardInv, Outcome
<1> QED BY <1>1, UnheardStep, PTL DEF SystemSpec

\* No agent ever gets through to project-service: no project shows RUNNING or ERROR.
THEOREM NoOutcomeShows == SystemSpec => [](\A p \in Project : row[p].status \notin Outcome)
<1>1. UnheardInv => \A p \in Project : row[p].status \notin Outcome
  BY DEF UnheardInv
<1> QED BY <1>1, UnheardAlways, PTL

\* A project once STARTING is STARTING for good, and with it no start gets past
\* StartWorkspace's status check again.
THEOREM StartingIsForGood == SystemSpec => [][Stuck]_vars
<1>1. UnheardInv /\ [SystemNext]_vars => [Stuck]_vars
  BY UnheardStep
<1> QED BY <1>1, UnheardAlways, PTL DEF SystemSpec

\* No step of the system stops a workspace, so that leases that hold are enough.
LEMMA SystemOrderly ==
    ASSUME LeasesHold
    PROVE  OrderlyInv /\ UnheardInv /\ [SystemNext]_vars => OrderlyInv'
<1> SUFFICES ASSUME OrderlyInv, UnheardInv, [SystemNext]_vars PROVE OrderlyInv'
  OBVIOUS
<1>1. ASSUME pending' \subseteq pending, UNCHANGED <<row, lock, pc, proj, copy, drawn, launched>>
      PROVE  OrderlyInv'
  <2>1. TokenInv'
    <3>1. TypeInv'
      BY <1>1 DEF OrderlyInv, TokenInv, TypeInv, TypeOK, Located
    <3> QED BY <1>1, <3>1 DEF OrderlyInv, TokenInv, ReportedSecretWasLaunched,
                              SecretsStayWithTheirProject, SnapshotsTrue
  <2>2. StartExclusion' /\ StartOwnsRow'
    BY <1>1 DEF OrderlyInv, StartExclusion, Starting, StartOwnsRow
  <2>3. ReportOwnsRow'
    BY <1>1 DEF OrderlyInv, ReportOwnsRow
  <2> QED BY <1>1, <2>1, <2>2, <2>3 DEF OrderlyInv
<1>2. CASE [Next]_vars
  <2>1. ASSUME NEW c \in Call, NEW p \in Project, NEW a \in Project, StopDelete(c, p, a)
        PROVE  OrderlyInv'
    <3>1. pc'[c] # "stopping"
      BY UnheardStep DEF UnheardInv
    <3>2. UNCHANGED <<pc, proj, copy>>
      BY <2>1, <3>1 DEF StopDelete, Go, UnheardInv, TypeInv, TypeOK
    <3> QED BY <1>1, <2>1, <3>2 DEF StopDelete
  <2>2. CASE \A c \in Call, p \in Project, a \in Project : ~StopDelete(c, p, a)
    BY <1>2, <2>2, OrderlyStep
  <2> QED BY <2>1, <2>2
<1> QED BY <1>1, <1>2, SystemStep

\* Behind the gateway, leases that hold are all the service needs to implement
\* Lifecycle.
THEOREM SystemImplementsLifecycle ==
    ASSUME LeasesHold
    PROVE  SystemSpec => ImplementsLifecycle
<1>1. OrderlyInv /\ [SystemNext]_vars => [LifecycleOf!Next]_(LifecycleOf!vars)
  <2> SUFFICES ASSUME OrderlyInv, [SystemNext]_vars
               PROVE  [LifecycleOf!Next]_(LifecycleOf!vars)
    OBVIOUS
  <2>1. CASE [Next]_vars
    BY <2>1, LifecycleStep
  <2>2. CASE UNCHANGED <<row, drawn, launched>>
    BY <2>2 DEF LifecycleOf!vars, Unused
  <2> QED BY <2>1, <2>2, SystemStep
<1> QED
  BY <1>1, OrderlyInit, SystemOrderly, UnheardAlways, LifecycleInit, PTL
     DEF SystemSpec, ImplementsLifecycle, LifecycleOf!Spec

\* With starts that keep to their lock, a sandbox Atlas launched is its project's only
\* one, and the project waits for it, STARTING, in every state from then on: where
\* AgentsAreHeard fails, it fails for every sandbox.
Stranded == \A p \in Project, s \in Secret :
    <<p, s>> \in launched => row[p].secret = s /\ row[p].status = "STARTING"

THEOREM LaunchedIsStranded == ASSUME LeasesHold PROVE SystemSpec => []Stranded
<1>1. Init => Stranded
  BY DEF Init, Stranded
<1>2. ASSUME Stranded, OrderlyInv, UnheardInv, [SystemNext]_vars PROVE Stranded'
  <2> TypeOK /\ TypeInv
    BY <1>2 DEF UnheardInv, TypeInv
  <2> USE NoRowTyped
  <2>1. ASSUME UNCHANGED <<row, launched>> PROVE Stranded'
    BY <1>2, <2>1 DEF Stranded
  <2>2. ASSUME NEW p \in Project, NEW u \in User, CreateProject(p, u) PROVE Stranded'
    BY <1>2, <2>2 DEF CreateProject, SaveRow, Stranded, TypeOK
  <2>3. ASSUME NEW c \in Call, NEW s \in Secret, StartSave(c, s) PROVE Stranded'
    <3>1. proj[c] \in Project /\ row[proj[c]].status # "STARTING"
      BY <1>2, <2>3 DEF StartSave, OrderlyInv, StartOwnsRow, Live, TypeInv, TypeOK, Located
    <3>2. \A q \in Project : q # proj[c] => row'[q] = row[q]
      BY <2>3, <3>1 DEF StartSave, SaveRow, TypeOK
    <3>3. launched' = launched
      BY <2>3 DEF StartSave
    <3> QED BY <1>2, <3>1, <3>2, <3>3 DEF Stranded
  <2>4. ASSUME NEW c \in Call, StartPost(c) PROVE Stranded'
    <3>1. /\ row[proj[c]] = copy[c] /\ copy[c].status = "STARTING"
          /\ launched' = launched \cup {<<proj[c], copy[c].secret>>} /\ row' = row
      BY <1>2, <2>4 DEF StartPost, OrderlyInv, StartOwnsRow
    <3> QED BY <1>2, <3>1 DEF Stranded
  <2>5. ASSUME NEW c \in Call, StartStep(c) PROVE Stranded'
    BY <2>1, <2>3, <2>4, <2>5
       DEF StartStep, StartFetch, StartRefuse, StartSaveFails, StartToken, StartTokenFails,
           StartPostFails, StartLeave, StartLeaveRetried
  <2>6. ASSUME NEW c \in Call, WebhookSave(c) PROVE Stranded'
    BY <1>2, <2>6 DEF WebhookSave, UnheardInv
  <2>7. ASSUME NEW p \in Project, NEW s \in Secret, notifyCallback(p, s) \/ ReportDropped(p, s)
        PROVE  Stranded'
    BY <2>1, <2>7, NothingBinds
       DEF notifyCallback, HandleWebhookInternal, BindingRefused, ReportDropped
  <2> QED BY <1>2, <2>1, <2>2, <2>5, <2>6, <2>7
          DEF SystemNext, StartLock, StartLockUnanswered, LockExpire, Crash, vars
<1> QED BY <1>1, <1>2, OrderlyInit, SystemOrderly, UnheardAlways, PTL DEF SystemSpec
=============================================================================
