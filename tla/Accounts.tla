------------------------------ MODULE Accounts ------------------------------
(***************************************************************************)
(* auth-service: from the start of the process to an account's token.      *)
(*                                                                         *)
(* main migrates the users table, loads or makes the key (SigningKey) and  *)
(* serves; it may be killed at any instant.  Signup and Login make one     *)
(* query each; HandleGoogleCallback makes two, and another call may come   *)
(* between them.  Calls refused for a missing field or a short password    *)
(* change nothing and are left out, as are expired tokens.                 *)
(***************************************************************************)
EXTENDS SigningKey

CONSTANTS
    Address,       \* e-mail addresses; a person is known by his own
    Blank,         \* the empty address
    Call,          \* slots for Google sign-ins between their two queries
    NoUser, NoAccount, NoCall, NoAnswer

ASSUME AccountsAssumption ==
    /\ Blank \notin Address /\ NoUser \notin User
    /\ NoAccount \notin [id : User, password : BOOLEAN]

VARIABLES
    boot,      \* how far main is; "failed" after log.Fatalf
    recorded,  \* how many migrations gormigrate has recorded
    users,     \* the users table exists ...
    nullable,  \* ... and its google_id may be NULL
    legacy,    \* the table is from before the second migration, with an account
               \* whose google_id is ''
    account,   \* account[a]: the row with email a
    call,      \* whom a slot signs in, and with which address Google knows him
    answer     \* whom the last step gave a token, or NoUser whom it refused one

tables == <<recorded, users, nullable, legacy>>
accountVars == <<boot, tables, account, call, answer>>
allVars == <<vars, accountVars>>

Account == [id : User, password : BOOLEAN]
Email == Address \cup {Blank}
LastMigration == 3

AccountsTypeOK ==
    /\ TypeOK
    /\ boot \in {"off", "failed", "migrating", "migrated", "up"}
    /\ (boot # "up") <=> (step = "down")
    /\ recorded \in 0..LastMigration
    /\ users \in BOOLEAN /\ nullable \in BOOLEAN /\ legacy \in BOOLEAN
    /\ account \in [Email -> Account \cup {NoAccount}]
    /\ call \in [Call -> [person : Address, email : Email] \cup {NoCall}]
    /\ (step # "serving") => \A c \in Call : call[c] = NoCall
    /\ answer = NoAnswer \/ answer \in
          [route : {"signup", "login", "google"}, person : Address, email : Email,
           user : User \cup {NoUser}]

\* A new database, or one an earlier version has used.
AccountsInit ==
    /\ Init
    /\ boot = "off"
    /\ \/ recorded = 0 /\ users = FALSE /\ nullable = FALSE /\ legacy = FALSE
       \/ recorded = 1 /\ users = TRUE /\ nullable = FALSE /\ legacy \in BOOLEAN
    /\ account = [a \in Email |-> NoAccount]
    /\ call = [c \in Call |-> NoCall]
    /\ answer = NoAnswer

-----------------------------------------------------------------------------
(* main *)
Silent == answer' = NoAnswer
Idle == UNCHANGED <<account, call>>

\* Configuration, connection and schema; what is missing is fatal (Die).
Connect ==
    /\ boot \in {"off", "failed"}
    /\ boot' = "migrating"
    /\ Silent /\ Idle /\ UNCHANGED <<vars, tables>>

\* Mutant: a table that is there already is an error.
MigrateOnce ==
    /\ boot = "migrating" /\ recorded < LastMigration
    /\ IF recorded = 0 /\ users
       THEN boot' = "failed" /\ UNCHANGED <<users, nullable>>
       ELSE boot' = "migrated" /\ users' = TRUE /\ nullable' = TRUE
    /\ Silent /\ Idle /\ UNCHANGED <<vars, recorded, legacy>>

\* Mutant: the column keeps its NOT NULL.
MigrateKeepsNotNull ==
    /\ boot = "migrating" /\ recorded < LastMigration
    /\ boot' = "migrated"
    /\ users' = TRUE
    /\ nullable' = (nullable \/ recorded = 0)
    /\ Silent /\ Idle /\ UNCHANGED <<vars, recorded, legacy>>

\* The function of the next migration.  AutoMigrate makes a new column nullable and
\* leaves an old one alone; the second migration sets '' to NULL before it allows
\* NULL, and fails if there is a row to set.
Migrate ==
    /\ boot = "migrating" /\ recorded < LastMigration
    /\ IF recorded = 1 /\ legacy
       THEN boot' = "failed" /\ UNCHANGED <<users, nullable>>
       ELSE /\ boot' = "migrated"
            /\ users' = TRUE
            /\ nullable' = (nullable \/ ~users \/ recorded = 1)
    /\ Silent /\ Idle /\ UNCHANGED <<vars, recorded, legacy>>

\* gormigrate then inserts its id; the two are not one transaction.
Record ==
    /\ boot = "migrated"
    /\ recorded' = recorded + 1
    /\ boot' = "migrating"
    /\ Silent /\ Idle /\ UNCHANGED <<vars, users, nullable, legacy>>

NewAuthService ==
    /\ boot = "migrating" /\ recorded = LastMigration
    /\ boot' = "up" /\ Start
    /\ Silent /\ Idle /\ UNCHANGED tables

KeyStep ==
    /\ Load \/ Generate \/ SaveTruncates \/ SaveWrites \/ SaveFails
    /\ Silent /\ Idle /\ UNCHANGED <<boot, tables>>

\* The process dies, by a signal or by log.Fatalf for a setting, the database or
\* the GitHub key; the calls in flight die with it.
Die ==
    /\ boot \notin {"off", "failed"}
    /\ boot' = "off"
    /\ Crash \/ (step = "down" /\ UNCHANGED vars)
    /\ call' = [c \in Call |-> NoCall]
    /\ Silent /\ UNCHANGED <<tables, account>>

-----------------------------------------------------------------------------
(* Calls *)
Tell(route, p, e, u) == answer' = [route |-> route, person |-> p, email |-> e, user |-> u]

Given(route, p, e, u) == GenerateToken(u) /\ Tell(route, p, e, u)
Refused(route, p, e) == Tell(route, p, e, NoUser) /\ UNCHANGED vars

\* Something fails that is nobody's fault, before or after a write.
Failed == Silent /\ UNCHANGED vars

Unused == {u \in User : \A a \in Email : account[a] = NoAccount \/ account[a].id # u}
Insertable(e) == nullable /\ account[e] = NoAccount

\* Repo.Create and what follows: the row goes in, or the index or a constraint refuses
\* it, or the database fails, before the insert or after it.  Which fresh uuid is
\* drawn makes no difference.
\* Bound: with no id left in User the insert is taken to fail.
Insert(route, p, e, password) ==
    \/ /\ Insertable(e) /\ Unused # {}
       /\ LET u == CHOOSE u \in User : u \in Unused
          IN /\ account' = [account EXCEPT ![e] = [id |-> u, password |-> password]]
             /\ Given(route, p, e, u) \/ Failed
    \/ ~Insertable(e) /\ Refused(route, p, e) /\ UNCHANGED account
    \/ Failed /\ UNCHANGED account

Signup(p) ==
    /\ step = "serving"
    /\ Insert("signup", p, p, TRUE)
    /\ UNCHANGED <<boot, tables, call>>

\* An account of Google's has an empty hash, which no password matches.
Login(p, right) ==
    /\ step = "serving"
    /\ IF account[p] # NoAccount /\ account[p].password /\ right
       THEN Given("login", p, p, account[p].id) \/ Failed
       ELSE Refused("login", p, p)
    /\ UNCHANGED <<boot, tables, account, call>>

\* The status of Google's answer is not looked at: an error decodes to no address.
GoogleFind(c, p, e) ==
    /\ step = "serving" /\ call[c] = NoCall
    /\ account[e] # NoAccount
    /\ Given("google", p, e, account[e].id)
    /\ UNCHANGED <<boot, tables, account, call>>

\* Not found and not answered are the same to it.
GoogleMiss(c, p, e) ==
    /\ step = "serving" /\ call[c] = NoCall
    /\ call' = [call EXCEPT ![c] = [person |-> p, email |-> e]]
    /\ Silent /\ UNCHANGED <<vars, boot, tables, account>>

\* Mutant: the error of the insert is not looked at.
GoogleCreateAnyway(c) ==
    /\ call[c] # NoCall /\ Unused # {}
    /\ LET u == CHOOSE u \in User : u \in Unused IN
          /\ account' = IF Insertable(call[c].email)
                        THEN [account EXCEPT ![call[c].email] = [id |-> u, password |-> FALSE]]
                        ELSE account
          /\ Given("google", call[c].person, call[c].email, u)
    /\ call' = [call EXCEPT ![c] = NoCall]
    /\ UNCHANGED <<boot, tables>>

GoogleCreate(c) ==
    /\ call[c] # NoCall
    /\ Insert("google", call[c].person, call[c].email, FALSE)
    /\ call' = [call EXCEPT ![c] = NoCall]
    /\ UNCHANGED <<boot, tables>>

-----------------------------------------------------------------------------
AccountsNext ==
    \/ Connect \/ Migrate \/ Record \/ NewAuthService \/ KeyStep \/ Die
    \/ \E p \in Address : Signup(p)
    \/ \E p \in Address, right \in BOOLEAN : Login(p, right)
    \/ \E c \in Call, p \in Address : \E e \in {p, Blank} : GoogleFind(c, p, e) \/ GoogleMiss(c, p, e)
    \/ \E c \in Call : GoogleCreate(c)

\* The container is restarted and main runs on; nobody is obliged to call.
Boots ==
    WF_allVars(Connect \/ Migrate \/ Record \/ NewAuthService \/ KeyStep)

AccountsSpec == AccountsInit /\ [][AccountsNext]_allVars /\ Boots

-----------------------------------------------------------------------------
\* A token names an account that is there, the one of the address its holder signed
\* in with, however two first sign-ins of that address cross.  (The account of the
\* empty address is everybody's for whom Google answered with an error.)
TokenNamesItsAccount ==
    answer # NoAnswer /\ answer.user # NoUser =>
        /\ account[answer.email] # NoAccount /\ account[answer.email].id = answer.user
        /\ answer.email = answer.person \/ (answer.email = Blank /\ answer.route = "google")

\* Nobody is refused an account but for an address that has one: a service that
\* serves has a table that takes users Google does not know, whatever database it
\* found and wherever earlier starts were cut short.
RefusedOnlyForItsAddress ==
    answer # NoAnswer /\ answer.user = NoUser /\ answer.route # "login"
        => account[answer.email] # NoAccount

\* Unless killed for ever, or out of keys (a bound), auth-service comes to serve from
\* any point at which earlier starts were cut short: migrations that ran and were not
\* recorded run again.  A table with a '' in google_id is the exception: the second
\* migration fails on it at every start.
ServesAgain ==
    /\ ~legacy
    /\ <>[][boot' = "off" => boot = "off"]_boot
    /\ [](drawn # Key)
    => []<>(step = "serving")
=============================================================================
