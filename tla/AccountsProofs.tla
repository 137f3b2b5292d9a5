---------------------------- MODULE AccountsProofs ----------------------------
(* Theorems about SigningKey, on whose specification Accounts builds, and   *)
(* about Accounts.                                                          *)
EXTENDS Accounts, TLAPS

\* A run that did not warn serves the key on file; a run about to write the file,
\* or that warned, has found none there; and the file holds the key of every
\* token a run signed that did not warn.
FileInv ==
    /\ TypeOK
    /\ warned => step = "serving"
    /\ step = "serving" => IF warned THEN file \notin Key ELSE file = key
    /\ step \in {"saving", "writing"} => file \notin Key
    /\ \A t \in tokens : ~t.warned => file = t.key

LEMMA InitFile == Init => FileInv
  BY KeyAssumption DEF Init, FileInv, TypeOK

\* Every step keeps FileInv when reads do not fail.
LEMMA NextFile == ASSUME ~ReadsFail, FileInv, [Next]_vars PROVE FileInv'
<1> USE KeyAssumption DEF FileInv, TypeOK
<1>1. CASE Start
  BY <1>1 DEF Start
<1>2. CASE Load
  BY <1>2 DEF Load
<1>3. CASE Generate
  <2>1. file \notin Key
    BY <1>3, ~ReadsFail DEF Generate
  <2> QED BY <1>3, <2>1 DEF Generate, Token
<1>4. CASE SaveTruncates
  BY <1>4 DEF SaveTruncates, Token
<1>5. CASE SaveWrites
  BY <1>5 DEF SaveWrites, Token
<1>6. CASE SaveFails
  BY <1>6 DEF SaveFails, Token
<1>7. ASSUME NEW u \in User, GenerateToken(u) PROVE FileInv'
  BY <1>7 DEF GenerateToken, Token
<1>8. CASE Crash
  BY <1>8 DEF Crash
<1>9. CASE UNCHANGED vars
  BY <1>9 DEF vars
<1> QED BY <1>1, <1>2, <1>3, <1>4, <1>5, <1>6, <1>7, <1>8, <1>9 DEF Next

\* Types alone are kept whether or not reads fail.
LEMMA NextKeyTyped == TypeOK /\ [Next]_vars => TypeOK'
<1> SUFFICES ASSUME TypeOK, [Next]_vars PROVE TypeOK'
  OBVIOUS
<1> USE KeyAssumption DEF TypeOK
<1>1. CASE Start \/ Load \/ Generate
  BY <1>1 DEF Start, Load, Generate
<1>2. CASE SaveTruncates \/ SaveWrites \/ SaveFails
  BY <1>2 DEF SaveTruncates, SaveWrites, SaveFails
<1>3. ASSUME NEW u \in User, GenerateToken(u) PROVE TypeOK'
  BY <1>3 DEF GenerateToken, Token
<1>4. CASE Crash
  BY <1>4 DEF Crash
<1>5. CASE UNCHANGED vars
  BY <1>5 DEF vars
<1> QED BY <1>1, <1>2, <1>3, <1>4, <1>5 DEF Next

\* A process has a key exactly when it saves it or serves.
THEOREM KeyTyped == Spec => []TypeOK
<1>1. Init => TypeOK
  BY KeyAssumption DEF Init, TypeOK
<1> QED BY <1>1, NextKeyTyped, PTL DEF Spec

\* For any number of runs and keys: as long as reads of the file do not fail, a
\* token is refused by a later run only if the run that signed it had warned.
THEOREM TokensSurvive == ~ReadsFail /\ Spec => []TokensOutliveRuns
<1>1. FileInv => TokensOutliveRuns
  BY DEF FileInv, TypeOK, Token, TokensOutliveRuns, ValidateToken
<1>2. CASE ~ReadsFail
  <2>1. FileInv /\ [Next]_vars => FileInv'
    BY <1>2, NextFile
  <2> QED BY <1>1, <2>1, InitFile, PTL DEF Spec
<1>3. CASE ReadsFail
  BY <1>3, PTL
<1> QED BY <1>2, <1>3

-----------------------------------------------------------------------------

\* A service that is up has run all migrations to their record, and the second of
\* them lets google_id be NULL; one that ran and is not recorded has done so too.
SchemaInv ==
    /\ recorded >= 2 => nullable
    /\ recorded = 1 /\ boot = "migrated" => nullable
    /\ boot = "up" => recorded = LastMigration
    /\ boot = "migrated" => recorded < LastMigration

\* Google is asked for the address of the person who signs in, or fails.
AskedInv ==
    \A c \in Call : call[c] # NoCall => call[c].email \in {call[c].person, Blank}

Served == TokenNamesItsAccount /\ RefusedOnlyForItsAddress
AccountsInv == AccountsTypeOK /\ SchemaInv /\ AskedInv /\ Served

Asked == [person : Address, email : Email]
Told == [route : {"signup", "login", "google"}, person : Address, email : Email,
         user : User \cup {NoUser}]

-----------------------------------------------------------------------------
\* Nobody is answered: main's steps, and calls that fail halfway.
LEMMA SilentStep ==
    ASSUME Silent PROVE Served'
  BY DEF Silent, Served, TokenNamesItsAccount, RefusedOnlyForItsAddress

\* The start of the process, up to its death.
LEMMA MainStep ==
    ASSUME AccountsInv,
           Connect \/ Migrate \/ Record \/ NewAuthService \/ KeyStep \/ Die
    PROVE  AccountsInv' /\ [Next]_vars
<1>1. Silent /\ Served'
  BY SilentStep DEF Connect, Migrate, Record, NewAuthService, KeyStep, Die
<1>2. [Next]_vars
  BY DEF Connect, Migrate, Record, NewAuthService, KeyStep, Die, Next
<1>3. TypeOK'
  BY <1>2, NextKeyTyped DEF AccountsInv, AccountsTypeOK
<1>4. SchemaInv' /\ recorded' \in 0..LastMigration
  <2>1. SchemaInv /\ recorded \in 0..3 /\ nullable \in BOOLEAN
    BY DEF AccountsInv, AccountsTypeOK, LastMigration
  <2>2. CASE Migrate
    BY <2>1, <2>2 DEF Migrate, SchemaInv, LastMigration
  <2>3. CASE Record
    BY <2>1, <2>3 DEF Record, SchemaInv, LastMigration
  <2>4. CASE Connect \/ NewAuthService \/ KeyStep \/ Die
    BY <2>1, <2>4 DEF Connect, NewAuthService, KeyStep, Die, tables, SchemaInv, LastMigration
  <2> QED BY <2>2, <2>3, <2>4
<1>5. /\ boot' \in {"off", "failed", "migrating", "migrated", "up"}
      /\ (boot' # "up") <=> (step' = "down")
  BY DEF Connect, Migrate, Record, NewAuthService, KeyStep, Die, AccountsInv,
     AccountsTypeOK, Start, Load, Generate, SaveTruncates, SaveWrites, SaveFails, Crash, vars
<1>6. users' \in BOOLEAN /\ nullable' \in BOOLEAN /\ legacy' \in BOOLEAN
  BY DEF Connect, Migrate, Record, NewAuthService, KeyStep, Die, tables, AccountsInv,
     AccountsTypeOK
<1>7. UNCHANGED account /\ (UNCHANGED call \/ call' = [c \in Call |-> NoCall])
  BY DEF Connect, Migrate, Record, NewAuthService, KeyStep, Die, Idle
<1>8. (step' # "serving") => \A c \in Call : call'[c] = NoCall
  BY <1>7 DEF Connect, Migrate, Record, NewAuthService, KeyStep, Die, Idle, AccountsInv,
     AccountsTypeOK, Start, Load, Generate, SaveTruncates, SaveWrites, SaveFails, Crash, vars
<1>9. AccountsTypeOK'
  BY <1>1, <1>3, <1>4, <1>5, <1>6, <1>7, <1>8 DEF AccountsInv, AccountsTypeOK, Silent
<1>10. AskedInv'
  BY <1>7 DEF AccountsInv, AskedInv
<1> QED BY <1>1, <1>2, <1>4, <1>9, <1>10 DEF AccountsInv

-----------------------------------------------------------------------------
\* Calls leave the process and the schema as they are; what is left to show of one
\* is that it types what it writes and answers what is true.
LEMMA CallStep ==
    ASSUME AccountsInv, step = "serving",
           UNCHANGED <<boot, tables>>,
           (\E u \in User : GenerateToken(u)) \/ UNCHANGED vars,
           account' \in [Email -> Account \cup {NoAccount}],
           call' \in [Call -> Asked \cup {NoCall}],
           AskedInv',
           answer' \in Told \cup {NoAnswer},
           Served'
    PROVE  AccountsInv' /\ [Next]_vars
<1>1. [Next]_vars
  BY DEF Next
<1>2. TypeOK'
  BY <1>1, NextKeyTyped DEF AccountsInv, AccountsTypeOK
<1>3. step' = step
  BY DEF GenerateToken, vars
<1>4. UNCHANGED <<boot, recorded, users, nullable, legacy>>
  BY DEF tables
<1>5. SchemaInv'
  BY <1>4 DEF AccountsInv, SchemaInv
<1>6. AccountsTypeOK'
  BY <1>2, <1>3, <1>4 DEF AccountsInv, AccountsTypeOK, Asked, Told
<1> QED BY <1>1, <1>5, <1>6 DEF AccountsInv

\* A service that serves has a table that takes accounts without a google_id.
LEMMA ServingTakesAll == ASSUME AccountsInv, step = "serving" PROVE nullable
  BY DEF AccountsInv, AccountsTypeOK, SchemaInv, LastMigration

\* An insert adds a row under its address, or is refused for the one that is there.
LEMMA InsertStep ==
    ASSUME AccountsInv, step = "serving",
           NEW route \in {"signup", "google"}, NEW p \in Address, NEW e \in Email,
           NEW password \in BOOLEAN,
           e = p \/ (e = Blank /\ route = "google"),
           Insert(route, p, e, password),
           UNCHANGED <<boot, tables>>,
           call' \in [Call -> Asked \cup {NoCall}],
           AskedInv'
    PROVE  AccountsInv' /\ [Next]_vars
<1>0. account \in [Email -> Account \cup {NoAccount}]
  BY DEF AccountsInv, AccountsTypeOK
<1>1. ASSUME NEW u \in User,
             account' = [account EXCEPT ![e] = [id |-> u, password |-> password]],
             Given(route, p, e, u) \/ Failed
      PROVE  AccountsInv' /\ [Next]_vars
  <2>1. [id |-> u, password |-> password] \in Account
    BY DEF Account
  <2>2. /\ account' \in [Email -> Account \cup {NoAccount}]
        /\ account'[e] # NoAccount /\ account'[e].id = u
    BY <1>0, <1>1, <2>1, AccountsAssumption DEF Account
  <2>3. CASE Given(route, p, e, u)
    <3>1. answer' = [route |-> route, person |-> p, email |-> e, user |-> u] /\ GenerateToken(u)
      BY <2>3 DEF Given, Tell
    <3>2. answer' \in Told
      BY <3>1 DEF Told
    <3>3. Served'
      BY <2>2, <3>1, AccountsAssumption DEF Served, TokenNamesItsAccount, RefusedOnlyForItsAddress
    <3> QED BY <2>2, <3>1, <3>2, <3>3, CallStep
  <2>4. CASE Failed
    BY <2>2, <2>4, SilentStep, CallStep DEF Failed, Silent
  <2> QED BY <1>1, <2>3, <2>4
<1>2. ASSUME ~Insertable(e), Refused(route, p, e), UNCHANGED account
      PROVE  AccountsInv' /\ [Next]_vars
  <2>1. answer' = [route |-> route, person |-> p, email |-> e, user |-> NoUser] /\ UNCHANGED vars
    BY <1>2 DEF Refused, Tell
  <2>2. account'[e] # NoAccount
    BY <1>2, ServingTakesAll DEF Insertable
  <2>3. answer' \in Told
    BY <2>1 DEF Told
  <2>4. Served'
    BY <2>1, <2>2 DEF Served, TokenNamesItsAccount, RefusedOnlyForItsAddress
  <2> QED BY <1>0, <1>2, <2>1, <2>3, <2>4, CallStep
<1>3. ASSUME Failed, UNCHANGED account PROVE AccountsInv' /\ [Next]_vars
  BY <1>0, <1>3, SilentStep, CallStep DEF Failed, Silent
<1>4. Unused # {} => (CHOOSE u \in User : u \in Unused) \in User
  BY DEF Unused
<1> QED BY <1>1, <1>2, <1>3, <1>4 DEF Insert

LEMMA LoginStep ==
    ASSUME AccountsInv, NEW p \in Address, NEW right \in BOOLEAN, Login(p, right)
    PROVE  AccountsInv' /\ [Next]_vars
<1>1. /\ step = "serving" /\ UNCHANGED <<boot, tables>>
      /\ account' = account /\ call' = call
      /\ account \in [Email -> Account \cup {NoAccount}]
      /\ call' \in [Call -> Asked \cup {NoCall}] /\ AskedInv'
  BY DEF Login, AccountsInv, AccountsTypeOK, AskedInv, Asked
<1>2. CASE /\ account[p] # NoAccount
           /\ Given("login", p, p, account[p].id) \/ Failed
  <2>1. account[p].id \in User
    BY <1>1, <1>2 DEF Email, Account
  <2>2. CASE Given("login", p, p, account[p].id)
    <3>1. /\ answer' = [route |-> "login", person |-> p, email |-> p, user |-> account[p].id]
          /\ GenerateToken(account[p].id)
      BY <2>2 DEF Given, Tell
    <3>2. answer' \in Told
      BY <2>1, <3>1 DEF Told, Email
    <3>3. Served'
      BY <1>1, <1>2, <2>1, <3>1, AccountsAssumption
      DEF Served, TokenNamesItsAccount, RefusedOnlyForItsAddress
    <3> QED BY <1>1, <2>1, <3>1, <3>2, <3>3, CallStep
  <2>3. CASE Failed
    BY <1>1, <2>3, SilentStep, CallStep DEF Failed, Silent
  <2> QED BY <1>2, <2>2, <2>3
<1>3. CASE Refused("login", p, p)
  <2>1. /\ answer' = [route |-> "login", person |-> p, email |-> p, user |-> NoUser]
        /\ UNCHANGED vars
    BY <1>3 DEF Refused, Tell
  <2>2. answer' \in Told
    BY <2>1 DEF Told, Email
  <2>3. Served'
    BY <2>1 DEF Served, TokenNamesItsAccount, RefusedOnlyForItsAddress
  <2> QED BY <1>1, <2>1, <2>2, <2>3, CallStep
<1> QED BY <1>2, <1>3 DEF Login

LEMMA GoogleSteps ==
    ASSUME AccountsInv, NEW c \in Call
    PROVE  /\ \A p \in Address, e \in Email :
                 e \in {p, Blank} /\ (GoogleFind(c, p, e) \/ GoogleMiss(c, p, e))
                     => AccountsInv' /\ [Next]_vars
           /\ GoogleCreate(c) => AccountsInv' /\ [Next]_vars
<1>0. /\ account \in [Email -> Account \cup {NoAccount}]
      /\ call \in [Call -> Asked \cup {NoCall}] /\ AskedInv
  BY DEF AccountsInv, AccountsTypeOK, Asked
<1>1. ASSUME NEW p \in Address, NEW e \in {p, Blank}, GoogleFind(c, p, e)
      PROVE  AccountsInv' /\ [Next]_vars
  <2>1. /\ step = "serving" /\ UNCHANGED <<boot, tables>> /\ account' = account /\ call' = call
        /\ answer' = [route |-> "google", person |-> p, email |-> e, user |-> account[e].id]
        /\ GenerateToken(account[e].id) /\ account[e] # NoAccount
    BY <1>1 DEF GoogleFind, Given, Tell
  <2>2. e \in Email /\ account[e].id \in User
    BY <1>0, <2>1 DEF Email, Account
  <2>3. answer' \in Told
    BY <2>1, <2>2 DEF Told
  <2>4. Served'
    BY <2>1, <2>2, AccountsAssumption DEF Served, TokenNamesItsAccount, RefusedOnlyForItsAddress
  <2>5. AskedInv'
    BY <1>0, <2>1 DEF AskedInv
  <2> QED BY <1>0, <2>1, <2>2, <2>3, <2>4, <2>5, CallStep
<1>2. ASSUME NEW p \in Address, NEW e \in {p, Blank}, GoogleMiss(c, p, e)
      PROVE  AccountsInv' /\ [Next]_vars
  <2>1. /\ step = "serving" /\ UNCHANGED <<vars, boot, tables, account>> /\ Silent
        /\ call' = [call EXCEPT ![c] = [person |-> p, email |-> e]]
    BY <1>2 DEF GoogleMiss
  <2>2. call' \in [Call -> Asked \cup {NoCall}]
    BY <1>0, <2>1 DEF Asked, Email
  <2>3. AskedInv'
    BY <1>0, <2>1 DEF AskedInv
  <2> QED BY <1>0, <2>1, <2>2, <2>3, SilentStep, CallStep DEF Silent
<1>3. ASSUME GoogleCreate(c) PROVE AccountsInv' /\ [Next]_vars
  <2>1. call[c] # NoCall /\ call[c] \in Asked /\ step = "serving"
    BY <1>0, <1>3 DEF GoogleCreate, AccountsInv, AccountsTypeOK
  <2>2. /\ Insert("google", call[c].person, call[c].email, FALSE)
        /\ call' = [call EXCEPT ![c] = NoCall] /\ UNCHANGED <<boot, tables>>
    BY <1>3 DEF GoogleCreate
  <2>3. call' \in [Call -> Asked \cup {NoCall}] /\ AskedInv'
    BY <1>0, <2>2 DEF AskedInv
  <2>4. /\ call[c].person \in Address /\ call[c].email \in Email
        /\ call[c].email \in {call[c].person, Blank}
    BY <1>0, <2>1 DEF Asked, AskedInv
  <2> QED BY <2>1, <2>2, <2>3, <2>4, InsertStep
<1> QED BY <1>1, <1>2, <1>3

LEMMA AccountsStep ==
    AccountsInv /\ [AccountsNext]_allVars => AccountsInv' /\ [Next]_vars
<1> SUFFICES ASSUME AccountsInv, [AccountsNext]_allVars PROVE AccountsInv' /\ [Next]_vars
  OBVIOUS
<1>1. ASSUME NEW p \in Address, Signup(p) PROVE AccountsInv' /\ [Next]_vars
  <2>1. /\ step = "serving" /\ UNCHANGED <<boot, tables>> /\ call' = call
        /\ Insert("signup", p, p, TRUE)
    BY <1>1 DEF Signup
  <2>2. call' \in [Call -> Asked \cup {NoCall}] /\ AskedInv' /\ p \in Email
    BY <2>1 DEF AccountsInv, AccountsTypeOK, AskedInv, Asked, Email
  <2> QED BY <2>1, <2>2, InsertStep
<1>2. ASSUME NEW c \in Call, NEW p \in Address, NEW e \in {p, Blank},
             GoogleFind(c, p, e) \/ GoogleMiss(c, p, e)
      PROVE  AccountsInv' /\ [Next]_vars
  BY <1>2, GoogleSteps DEF Email
<1>3. CASE UNCHANGED allVars
  <2>1. UNCHANGED vars /\ UNCHANGED <<boot, recorded, users, nullable, legacy, account, call, answer>>
    BY <1>3 DEF allVars, accountVars, tables
  <2>2. TypeOK'
    BY <2>1, NextKeyTyped DEF AccountsInv, AccountsTypeOK
  <2>3. AccountsTypeOK'
    BY <2>1, <2>2 DEF AccountsInv, AccountsTypeOK, vars
  <2>4. SchemaInv' /\ AskedInv' /\ Served'
    BY <2>1 DEF AccountsInv, SchemaInv, AskedInv, Served, TokenNamesItsAccount,
       RefusedOnlyForItsAddress
  <2> QED BY <2>1, <2>3, <2>4 DEF AccountsInv
<1> QED
  BY <1>1, <1>2, <1>3, MainStep, LoginStep, GoogleSteps DEF AccountsNext

LEMMA AccountsBegin == AccountsInit => AccountsInv
<1> SUFFICES ASSUME AccountsInit PROVE AccountsInv
  OBVIOUS
<1>1. TypeOK
  BY KeyAssumption DEF AccountsInit, Init, TypeOK
<1>2. AccountsTypeOK
  <2>1. /\ recorded \in {0, 1}
        /\ users \in BOOLEAN /\ nullable \in BOOLEAN /\ legacy \in BOOLEAN
    BY Zenon DEF AccountsInit
  <2>2. /\ boot = "off" /\ step = "down" /\ answer = NoAnswer
        /\ account = [a \in Email |-> NoAccount] /\ call = [c \in Call |-> NoCall]
    BY DEF AccountsInit, Init
  <2> QED BY <1>1, <2>1, <2>2 DEF AccountsTypeOK, LastMigration
<1>3. SchemaInv /\ AskedInv /\ Served
  BY DEF AccountsInit, SchemaInv, AskedInv, Served, TokenNamesItsAccount, RefusedOnlyForItsAddress
<1> QED BY <1>2, <1>3 DEF AccountsInv

LEMMA AccountsAlways == AccountsSpec => []AccountsInv
  BY AccountsBegin, AccountsStep, PTL DEF AccountsSpec

-----------------------------------------------------------------------------
\* Types, among them that calls and a served key end with their process.
THEOREM AccountsTyped == AccountsSpec => []AccountsTypeOK
  BY AccountsAlways, PTL DEF AccountsInv

\* A token names the account of its holder's address, for any number of people and of
\* sign-ins at the same time, and wherever the process dies.
THEOREM TokensNameAccounts == AccountsSpec => []TokenNamesItsAccount
  BY AccountsAlways, PTL DEF AccountsInv, Served

\* Nobody is refused an account but for an address that has one, on a database of
\* either age and however its migrations were cut short.
THEOREM RefusalsHaveAReason == AccountsSpec => []RefusedOnlyForItsAddress
  BY AccountsAlways, PTL DEF AccountsInv, Served

\* auth-service does to its key what SigningKey does and no more.
THEOREM AccountsKeepTheKey == AccountsSpec => Spec
<1>1. AccountsInit => Init
  BY DEF AccountsInit
<1> QED BY <1>1, AccountsStep, AccountsAlways, PTL DEF AccountsSpec, Spec

\* So its tokens outlive its runs as well, when reads of the key file do not fail.
THEOREM AccountsTokensSurvive == ~ReadsFail /\ AccountsSpec => []TokensOutliveRuns
  BY AccountsKeepTheKey, TokensSurvive, PTL
=============================================================================
