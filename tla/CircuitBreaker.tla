--------------------------- MODULE CircuitBreaker ---------------------------
(***************************************************************************)
(* CircuitBreaker.Call of project-service, which every request to Atlas    *)
(* goes through.  failures is guarded by mu; state and lastFailTime are    *)
(* atomics that callers load without it, so each store and each load is a  *)
(* step of its own.                                                        *)
(*                                                                         *)
(* Time.  The code compares time.Since(lastFailTime) with resetTimeout,    *)
(* where lastFailTime was cut down to whole seconds.  Only differences     *)
(* matter, so the model keeps the position within the current second and   *)
(* the ticks gone by since each event, all of them stuck at Never once the *)
(* timeout has certainly passed.                                           *)
(***************************************************************************)
EXTENDS Integers

CONSTANTS
    Caller,          \* goroutines that call Atlas
    NoCaller,
    MaxFailures,     \* 5 in New
    ResetTimeout,    \* seconds, 30 in New
    TicksPerSecond   \* how finely the clock is cut

ASSUME BreakerAssumption ==
    /\ NoCaller \notin Caller
    /\ MaxFailures \in Nat \ {0}
    /\ ResetTimeout \in Nat \ {0}
    /\ TicksPerSecond \in Nat \ {0}

VARIABLES
    state,       \* 0 closed, 1 open, 2 half-open
    failures,    \* only compared with MaxFailures, so it stops counting there
    mu,          \* the caller that holds the mutex
    pc, seen,    \* of each caller: its next step, its local variable state
    healthy,     \* Atlas has recovered for good
    phase,       \* ticks since the current second began
    age,         \* ticks since the second stored in lastFailTime began
    sinceCount,  \* ticks since a failure was last counted
    sinceTrip,   \* ticks since the failure was counted that opened the breaker
    loaded,      \* of each caller: ticks since the second it loaded from lastFailTime
    found        \* of each caller: ticks since the failure that opened the breaker it found open

clock == <<phase, age, sinceCount, sinceTrip>>
checks == <<loaded, found>>
vars == <<state, failures, mu, pc, seen, healthy, clock, checks>>

Timeout == ResetTimeout * TicksPerSecond
Never == Timeout + 1
Later(t) == IF t = Never THEN Never ELSE t + 1

TypeOK ==
    /\ state \in {0, 1, 2}
    /\ failures \in 0..MaxFailures
    /\ mu \in Caller \cup {NoCaller}
    /\ pc \in [Caller -> {"idle", "check", "compare", "cas", "call", "failed", "counted", "stamped"}]
    /\ seen \in [Caller -> {0, 1, 2}]
    /\ healthy \in BOOLEAN
    /\ phase \in 0..(TicksPerSecond - 1)
    /\ age \in 0..Never /\ sinceCount \in 0..Never /\ sinceTrip \in 0..Never
    /\ loaded \in [Caller -> 0..Never] /\ found \in [Caller -> 0..Never]

Init ==
    /\ state = 0 /\ failures = 0 /\ mu = NoCaller
    /\ pc = [c \in Caller |-> "idle"]
    /\ seen = [c \in Caller |-> 0]
    /\ healthy = FALSE
    /\ phase \in 0..(TicksPerSecond - 1)
    /\ age = Never /\ sinceCount = Never /\ sinceTrip = Never
    /\ loaded = [c \in Caller |-> Never] /\ found = [c \in Caller |-> Never]

-----------------------------------------------------------------------------
Goto(c, step) == pc' = [pc EXCEPT ![c] = step]

\* state := atomic.LoadInt32(&cb.state)
Load(c) ==
    /\ pc[c] = "idle"
    /\ seen' = [seen EXCEPT ![c] = state]
    /\ IF state = 1
       THEN Goto(c, "check") /\ found' = [found EXCEPT ![c] = sinceTrip]
       ELSE Goto(c, "call") /\ UNCHANGED found
    /\ UNCHANGED <<state, failures, mu, healthy, clock, loaded>>

\* atomic.LoadInt64(&cb.lastFailTime): only later does time.Since read the clock.
LoadTime(c) ==
    /\ pc[c] = "check"
    /\ loaded' = [loaded EXCEPT ![c] = age]
    /\ Goto(c, "compare")
    /\ UNCHANGED <<state, failures, mu, seen, healthy, clock, found>>

Forget(c) == loaded' = [loaded EXCEPT ![c] = Never] /\ found' = [found EXCEPT ![c] = Never]

\* Mutant: a rejected call stores lastFailTime like a failed one.
CheckRejectStamps(c) ==
    /\ pc[c] = "compare"
    /\ loaded[c] <= Timeout
    /\ age' = phase
    /\ Goto(c, "idle") /\ Forget(c)
    /\ UNCHANGED <<state, failures, mu, seen, healthy, phase, sinceCount, sinceTrip>>

\* "circuit breaker is open"
CheckReject(c) ==
    /\ pc[c] = "compare"
    /\ loaded[c] <= Timeout
    /\ Goto(c, "idle") /\ Forget(c)
    /\ UNCHANGED <<state, failures, mu, seen, healthy, clock>>

CheckElapsed(c) ==
    /\ pc[c] = "compare"
    /\ loaded[c] > Timeout
    /\ Goto(c, "cas") /\ Forget(c)
    /\ UNCHANGED <<state, failures, mu, seen, healthy, clock>>

\* The compare-and-swap from open to half-open; who loses it calls Atlas too.
HalfOpen(c) ==
    /\ pc[c] = "cas"
    /\ IF state = 1
       THEN state' = 2 /\ seen' = [seen EXCEPT ![c] = 2]
       ELSE UNCHANGED <<state, seen>>
    /\ Goto(c, "call")
    /\ UNCHANGED <<failures, mu, healthy, clock, checks>>

\* fn() fails: Atlas cannot be reached, or the 30s of the client run out.
Fail(c) ==
    /\ pc[c] = "call"
    /\ ~healthy
    /\ Goto(c, "failed")
    /\ UNCHANGED <<state, failures, mu, seen, healthy, clock, checks>>

\* Mutant: the breaker opens before lastFailTime is stored.
FailCountOpensFirst(c) ==
    /\ pc[c] = "failed"
    /\ mu = NoCaller
    /\ mu' = c
    /\ failures' = IF failures = MaxFailures THEN failures ELSE failures + 1
    /\ state' = IF failures' >= MaxFailures THEN 1 ELSE state
    /\ sinceCount' = 0
    /\ sinceTrip' = IF failures' >= MaxFailures THEN 0 ELSE sinceTrip
    /\ Goto(c, "counted")
    /\ UNCHANGED <<seen, healthy, phase, age, checks>>

FailCount(c) ==
    /\ pc[c] = "failed"
    /\ mu = NoCaller
    /\ mu' = c
    /\ failures' = IF failures = MaxFailures THEN failures ELSE failures + 1
    /\ sinceCount' = 0
    /\ Goto(c, "counted")
    /\ UNCHANGED <<state, seen, healthy, phase, age, sinceTrip, checks>>

\* lastFailTime = time.Now().Unix()
FailStamp(c) ==
    /\ pc[c] = "counted"
    /\ age' = phase
    /\ Goto(c, "stamped")
    /\ UNCHANGED <<state, failures, mu, seen, healthy, phase, sinceCount, sinceTrip, checks>>

\* Mutant: the limit is compared with > instead of >=.
FailOpenAboveLimit(c) ==
    /\ pc[c] = "stamped"
    /\ UNCHANGED <<state, sinceTrip>>
    /\ mu' = NoCaller
    /\ Goto(c, "idle")
    /\ UNCHANGED <<failures, seen, healthy, phase, age, sinceCount, checks>>

FailOpen(c) ==
    /\ pc[c] = "stamped"
    /\ IF failures >= MaxFailures
       THEN state' = 1 /\ sinceTrip' = sinceCount
       ELSE UNCHANGED <<state, sinceTrip>>
    /\ mu' = NoCaller
    /\ Goto(c, "idle")
    /\ UNCHANGED <<failures, seen, healthy, phase, age, sinceCount, checks>>

\* Mutant: a success takes one failure back instead of all.
SucceedDecrements(c) ==
    /\ pc[c] = "call"
    /\ mu = NoCaller
    /\ failures' = failures - 1
    /\ state' = IF seen[c] = 2 THEN 0 ELSE state
    /\ Goto(c, "idle")
    /\ UNCHANGED <<mu, seen, healthy, clock, checks>>

\* fn() succeeds.  failures is read under mu only, so resetting it and
\* closing the breaker are one step.
Succeed(c) ==
    /\ pc[c] = "call"
    /\ mu = NoCaller
    /\ failures' = 0
    /\ state' = IF seen[c] = 2 THEN 0 ELSE state
    /\ Goto(c, "idle")
    /\ UNCHANGED <<mu, seen, healthy, clock, checks>>

Tick ==
    /\ phase' = IF phase + 1 = TicksPerSecond THEN 0 ELSE phase + 1
    /\ age' = Later(age)
    /\ sinceCount' = Later(sinceCount)
    /\ sinceTrip' = Later(sinceTrip)
    /\ loaded' = [c \in Caller |-> Later(loaded[c])]
    /\ found' = [c \in Caller |-> Later(found[c])]
    /\ UNCHANGED <<state, failures, mu, pc, seen, healthy>>

Recover ==
    /\ ~healthy
    /\ healthy' = TRUE
    /\ UNCHANGED <<state, failures, mu, pc, seen, clock, checks>>

CallStep(c) ==
    \/ Load(c) \/ LoadTime(c) \/ CheckReject(c) \/ CheckElapsed(c) \/ HalfOpen(c)
    \/ Fail(c) \/ FailCount(c) \/ FailStamp(c) \/ FailOpen(c)
    \/ Succeed(c)

Next == (\E c \in Caller : CallStep(c)) \/ Tick \/ Recover

Spec == Init /\ [][Next]_vars

\* Callers keep coming, Call runs to its end and time goes on.  mu is a
\* sync.RWMutex, which does not starve a waiter.
Fairness ==
    /\ \A c \in Caller : WF_vars(CallStep(c)) /\ SF_vars(FailCount(c)) /\ SF_vars(Succeed(c))
    /\ WF_vars(Tick)

FairSpec == Spec /\ Fairness

-----------------------------------------------------------------------------
\* Whenever no failure is being recorded, a closed breaker has counted fewer
\* failures than the limit, however successes that zero the count and calls
\* that began under an earlier state interleave with failures.
ClosedUnderLimit == state = 0 /\ mu = NoCaller => failures < MaxFailures

\* A caller that found the breaker open gets past it only when resetTimeout,
\* less the second lastFailTime is cut down by, is over since the failure that
\* had opened it: state is stored after lastFailTime, so the caller never sees
\* the breaker open with the time of an older failure.  (It may still pass just
\* after a later failure has re-opened the breaker: while it stands between its
\* load of lastFailTime and the comparison, others may half-open it and fail.)
ProbeWaitsForReset ==
    [][\A c \in Caller : CheckElapsed(c) => found[c] > Timeout - TicksPerSecond]_vars

\* Once Atlas answers again the breaker closes and stays closed: callers do
\* not leave it open or half-open forever, whatever was in flight.
Recovery == healthy ~> [](state = 0)
=============================================================================
