----------------------------- MODULE RateLimiter -----------------------------
(***************************************************************************)
(* The agent's rate limiter: checkRateLimit counts requests per key in a   *)
(* window that starts with the first request after the last one ran out.   *)
(* The key is what getClientIP takes for the client's address, which the   *)
(* proxy headers decide when there are any: nothing is promised to a       *)
(* client or about it, only to a key.                                      *)
(* All but the reading of the clock runs under rateLimitMu, so a request   *)
(* is one step, taken with a time that may be a few seconds old.           *)
(* Time is in whole seconds, as time.Now().Unix() gives it; only the age   *)
(* of a window matters, and stops counting once the window is over for     *)
(* every request.                                                          *)
(***************************************************************************)
EXTENDS Integers

CONSTANTS
    Client,   \* addresses requests come from
    V6,       \* those of them that are IPv6
    V6Key,    \* what is left of an IPv6 address before its first colon: "["
    Name,     \* what the proxy headers name, addresses or not
    NoHeader,
    Window,   \* 60 seconds
    Limit,    \* 100 requests
    Wait      \* bound: how long a request may wait for rateLimitMu, in seconds

ASSUME LimiterAssumption ==
    /\ V6 \subseteq Client
    /\ NoHeader \notin Name
    /\ Window \in Nat \ {0} /\ Limit \in Nat \ {0} /\ Wait \in Nat

VARIABLES
    count, age,   \* of each key: info.count, and seconds since info.lastReset
    served        \* served[k][n]: requests under key k let through in the current
                  \* second and the n - 1 before it

vars == <<count, age, served>>

Key == (Client \ V6) \cup {V6Key} \cup Name
Over == Window + Wait + 1
Delay == 0..Wait           \* how old a request's now is

\* X-Forwarded-For lists names, or is empty; bound: two of them.
Request ==
    [from : Client,
     xff  : {<<>>} \cup {<<n>> : n \in Name} \cup (Name \X Name),
     xri  : Name \cup {NoHeader}]

TypeOK ==
    /\ count \in [Key -> 0..Limit]
    /\ age \in [Key -> 0..Over]
    /\ served \in [Key -> [0..Over -> Nat]]

\* A key with no entry behaves as one whose window is over.
Init ==
    /\ count = [k \in Key |-> 0]
    /\ age = [k \in Key |-> Over]
    /\ served = [k \in Key |-> [n \in 0..Over |-> 0]]

\* The first name of X-Forwarded-For, else X-Real-IP, else what is left of the
\* address before its first colon.
getClientIP(r) ==
    CASE r.xff # <<>> -> r.xff[1]
      [] r.xff = <<>> /\ r.xri # NoHeader -> r.xri
      [] OTHER -> IF r.from \in V6 THEN V6Key ELSE r.from

Serve(k) ==
    served' = [served EXCEPT ![k] = [n \in 0..Over |-> IF n > 0 THEN @[n] + 1 ELSE @[n]]]

\* Mutant: the count starts over with every request.
CountLost(k, d) ==
    /\ age[k] - d <= Window
    /\ count[k] < Limit
    /\ count' = [count EXCEPT ![k] = 1]
    /\ Serve(k)
    /\ UNCHANGED age

\* Mutant: the limit is one higher.
CountPastLimit(k, d) ==
    /\ age[k] - d <= Window
    /\ count[k] <= Limit
    /\ count' = [count EXCEPT ![k] = @ + 1]
    /\ Serve(k)
    /\ UNCHANGED age

\* now - info.lastReset > 60 for the now the request has read.
NewWindow(k, d) ==
    /\ age[k] - d > Window
    /\ count' = [count EXCEPT ![k] = 1]
    /\ age' = [age EXCEPT ![k] = d]
    /\ Serve(k)

\* A now from before lastReset counts like any other.
Count(k, d) ==
    /\ age[k] - d <= Window
    /\ count[k] < Limit
    /\ count' = [count EXCEPT ![k] = @ + 1]
    /\ Serve(k)
    /\ UNCHANGED age

Refused(k, d) == age[k] - d <= Window /\ count[k] >= Limit

\* Mutant: a refused request starts the window anew.
RefuseRestarts(k, d) ==
    /\ Refused(k, d)
    /\ age' = [age EXCEPT ![k] = d]
    /\ UNCHANGED <<count, served>>

\* Too many requests
Refuse(k, d) ==
    /\ Refused(k, d)
    /\ UNCHANGED vars

Tick ==
    /\ age' = [k \in Key |-> IF age[k] = Over THEN Over ELSE age[k] + 1]
    /\ served' = [k \in Key |-> [n \in 0..Over |-> IF n = 0 THEN 0 ELSE served[k][n - 1]]]
    /\ UNCHANGED count

\* rateLimitMiddleware, for whatever a request says of where it comes from.
Next ==
    \/ \E r \in Request, d \in Delay :
          NewWindow(getClientIP(r), d) \/ Count(getClientIP(r), d) \/ Refuse(getClientIP(r), d)
    \/ Tick

Spec == Init /\ [][Next]_vars

-----------------------------------------------------------------------------
\* A window that is filled at its end and the next one filled at its start let through
\* twice the limit within a window's length, and never more, for every key; each second
\* a request may wait for the lock with the time it has read takes a second off the
\* stretch for which that is so.
TwiceTheLimitAtMost ==
    \A k \in Key, n \in 0..Over : n + Wait <= Window + 2 => served[k][n] <= 2 * Limit

\* A request is refused only when the limit has been let through under its key, and not
\* long ago: refusals do not prolong the window, and no request of another key counts.
RefusedForItsKey ==
    \A k \in Key, d \in Delay : Refused(k, d) => served[k][Over] >= Limit
=============================================================================
