----------------------------- MODULE SigningKey -----------------------------
(***************************************************************************)
(* auth-service: the RSA key its JWTs are signed with, over restarts.      *)
(*                                                                         *)
(* A run loads the key from a file on a volume, or generates one, tries to *)
(* save it and only then serves.  A run may end at any instant, so may the *)
(* write of the file.  Three days after it was signed a token is expired,  *)
(* which any run sees and no property here is about.                       *)
(***************************************************************************)
EXTENDS Naturals

CONSTANTS
    Key,          \* keys GenerateKey may draw; bounds the runs that generate
    NoKey, Torn,  \* no file; a file that does not parse
    User,
    ReadsFail     \* TRUE: reading the file may fail though it is there

ASSUME KeyAssumption ==
    /\ NoKey \notin Key /\ Torn \notin Key /\ NoKey # Torn
    /\ ReadsFail \in BOOLEAN

VARIABLES
    file,    \* what RSA_KEY_PATH holds
    key,     \* the running process's key, NoKey while it has none
    step,    \* where the process is
    drawn,   \* keys generated so far
    warned,  \* the running process logged "failed to save RSA key"
    tokens   \* tokens signed: for whom, with which key, by a run that warned

vars == <<file, key, step, drawn, warned, tokens>>

Token == [user : User, key : Key, warned : BOOLEAN]

TypeOK ==
    /\ file \in Key \cup {NoKey, Torn}
    /\ key \in Key \cup {NoKey}
    /\ step \in {"down", "starting", "saving", "writing", "serving"}
    /\ (key = NoKey) <=> (step \in {"down", "starting"})
    /\ drawn \subseteq Key
    /\ warned \in BOOLEAN
    /\ tokens \subseteq Token

Init ==
    /\ file = NoKey
    /\ key = NoKey
    /\ step = "down"
    /\ drawn = {} /\ warned = FALSE /\ tokens = {}

-----------------------------------------------------------------------------
Start ==
    /\ step = "down"
    /\ step' = "starting"
    /\ UNCHANGED <<file, key, drawn, warned, tokens>>

\* loadOrGenerateRSAKey finds a key it can parse.
Load ==
    /\ step = "starting"
    /\ file \in Key
    /\ key' = file
    /\ step' = "serving"
    /\ UNCHANGED <<file, drawn, warned, tokens>>

\* Mutant: the new key is served while it is being saved.
GenerateAndServe ==
    /\ step = "starting" /\ file \notin Key
    /\ \E k \in Key \ drawn : key' = k /\ drawn' = drawn \cup {k}
    /\ step' = "serving"
    /\ UNCHANGED <<file, warned, tokens>>

\* Nothing there, nothing that parses, or the read failed: all the same to it.
Generate ==
    /\ step = "starting"
    /\ file \notin Key \/ ReadsFail
    /\ \E k \in Key \ drawn : key' = k /\ drawn' = drawn \cup {k}
    /\ step' = "saving"
    /\ UNCHANGED <<file, warned, tokens>>

\* WriteFile truncates before it writes ...
SaveTruncates ==
    /\ step = "saving"
    /\ file' = Torn
    /\ step' = "writing"
    /\ UNCHANGED <<key, drawn, warned, tokens>>

\* Mutant: a key that could not be saved is not returned, and served all the same.
SaveFailsKeyless ==
    /\ step \in {"saving", "writing"}
    /\ step' = "serving" /\ warned' = TRUE /\ key' = NoKey
    /\ UNCHANGED <<file, drawn, tokens>>

\* ... and may fail before that or after; the key then serves this run only.
SaveFails ==
    /\ step \in {"saving", "writing"}
    /\ step' = "serving" /\ warned' = TRUE
    /\ UNCHANGED <<file, key, drawn, tokens>>

SaveWrites ==
    /\ step = "writing"
    /\ file' = key
    /\ step' = "serving"
    /\ UNCHANGED <<key, drawn, warned, tokens>>

GenerateToken(u) ==
    /\ step = "serving"
    /\ tokens' = tokens \cup {[user |-> u, key |-> key, warned |-> warned]}
    /\ UNCHANGED <<file, key, step, drawn, warned>>

ValidateToken(t) == t.key = key

\* The process dies; restart: unless-stopped brings it back with Start.
Crash ==
    /\ step # "down"
    /\ step' = "down" /\ key' = NoKey /\ warned' = FALSE
    /\ UNCHANGED <<file, drawn, tokens>>

Next ==
    \/ Start \/ Load \/ Generate
    \/ SaveTruncates \/ SaveWrites \/ SaveFails
    \/ \E u \in User : GenerateToken(u)
    \/ Crash

Spec == Init /\ [][Next]_vars

-----------------------------------------------------------------------------
\* A run that could not save its key says that the key works "for this session";
\* what any other run signed, every later run accepts, wherever runs and writes
\* of the file were cut short.  (A read that fails although the file is there
\* makes the run replace a good key: ReadsFail must be FALSE.)
TokensOutliveRuns ==
    step = "serving" => \A t \in tokens : ~t.warned => ValidateToken(t)
=============================================================================
