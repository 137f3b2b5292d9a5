------------------------ MODULE CircuitBreakerProofs ------------------------
(***************************************************************************)
(* Theorems about CircuitBreaker, for any number of callers, any limit,    *)
(* any timeout and any resolution of the clock.                            *)
(***************************************************************************)
EXTENDS CircuitBreaker, FiniteSetTheorems, TLAPS

\* The mutex is held by the caller that is recording a failure, and by it alone.
MutexHeld == \A c \in Caller : pc[c] \in {"counted", "stamped"} <=> mu = c

\* s ticks ago is not later than the end of the second that began t ticks ago.
\* For the second in lastFailTime a caller that has stored it but not yet
\* opened the breaker carries the fact from its count to the store of state;
\* a caller that found the breaker open carries it through its two loads.
NotLater(t, s) == t - (TicksPerSecond - 1) <= s

StampedInTime ==
    /\ state = 1 => NotLater(age, sinceTrip)
    /\ \A c \in Caller :
         /\ pc[c] = "stamped" => NotLater(age, sinceCount)
         /\ pc[c] = "check" => NotLater(age, found[c])
         /\ pc[c] = "compare" => NotLater(loaded[c], found[c])

BreakerInv == TypeOK /\ MutexHeld /\ ClosedUnderLimit /\ StampedInTime

\* Timeout is a number: the product is opaque to the steps below.
LEMMA TimeoutNat == Timeout \in Nat /\ Never = Timeout + 1
  BY BreakerAssumption DEF Timeout, Never

\* The timeout lasts at least a second.
LEMMA SecondFits == TicksPerSecond <= Timeout
<1> DEFINE R == ResetTimeout  T == TicksPerSecond
<1>1. R \in Nat /\ R >= 1 /\ T \in Nat /\ T >= 1
  BY BreakerAssumption
<1> HIDE DEF R, T
<1>2. R * T >= T
  <2>1. R - 1 >= 0 /\ (R - 1) * T >= 0
    BY <1>1
  <2>2. R * T = (R - 1) * T + T
    BY <1>1
  <2> QED BY <2>1, <2>2, <1>1
<1> QED BY <1>2 DEF Timeout, R, T

LEMMA BreakerInit == Init => BreakerInv
<1> SUFFICES ASSUME Init PROVE BreakerInv
  OBVIOUS
<1>1. TypeOK
  <2>1. Never \in 0..Never
    BY TimeoutNat
  <2>2. 0 \in 0..MaxFailures
    BY BreakerAssumption
  <2> QED BY <2>1, <2>2 DEF Init, TypeOK
<1>2. MutexHeld /\ ClosedUnderLimit /\ StampedInTime
  BY BreakerAssumption DEF Init, MutexHeld, ClosedUnderLimit, StampedInTime
<1> QED BY <1>1, <1>2 DEF BreakerInv

\* A tick moves every counter by one, or not at all once it reached Never.
LEMMA LaterBounds ==
    ASSUME NEW t \in 0..Never
    PROVE  Later(t) \in 0..Never /\ (t < Never => Later(t) = t + 1) /\ (t = Never => Later(t) = Never)
  BY TimeoutNat DEF Later

\* Every step of a caller and of the clock preserves the invariant.
LEMMA BreakerStep == BreakerInv /\ [Next]_vars => BreakerInv'
<1> SUFFICES ASSUME BreakerInv, [Next]_vars PROVE BreakerInv'
  OBVIOUS
<1> USE BreakerAssumption, TimeoutNat
<1> USE DEF BreakerInv, TypeOK, MutexHeld, ClosedUnderLimit, StampedInTime, NotLater, Goto, clock, checks
<1>1. ASSUME NEW c \in Caller, Load(c) PROVE BreakerInv'
  BY <1>1 DEF Load
<1>2. ASSUME NEW c \in Caller, CheckReject(c) \/ CheckElapsed(c) PROVE BreakerInv'
  BY <1>2 DEF CheckReject, CheckElapsed, Forget
<1>12. ASSUME NEW c \in Caller, LoadTime(c) PROVE BreakerInv'
  BY <1>12 DEF LoadTime
<1>3. ASSUME NEW c \in Caller, HalfOpen(c) PROVE BreakerInv'
  BY <1>3 DEF HalfOpen
<1>4. ASSUME NEW c \in Caller, Fail(c) PROVE BreakerInv'
  BY <1>4 DEF Fail
<1>5. ASSUME NEW c \in Caller, FailCount(c) PROVE BreakerInv'
  <2>1. failures' \in 0..MaxFailures
    BY <1>5 DEF FailCount
  <2>2. MutexHeld'
    BY <1>5 DEF FailCount
  <2>3. \A d \in Caller : pc'[d] # "stamped"
    BY <1>5 DEF FailCount
  <2>4. TypeOK'
    BY <1>5, <2>1 DEF FailCount
  <2>5. ClosedUnderLimit'
    BY <1>5 DEF FailCount
  <2>6. StampedInTime'
    BY <1>5, <2>3 DEF FailCount
  <2> HIDE DEF TypeOK, MutexHeld, ClosedUnderLimit, StampedInTime
  <2> QED BY <2>2, <2>4, <2>5, <2>6
<1>6. ASSUME NEW c \in Caller, FailStamp(c) PROVE BreakerInv'
  <2>1. TypeOK'
    <3>1. age' \in 0..Never
      <4>1. phase <= TicksPerSecond - 1 /\ TicksPerSecond - 1 <= Timeout
        BY SecondFits
      <4> QED BY <1>6, <4>1 DEF FailStamp
    <3> QED BY <1>6, <3>1 DEF FailStamp
  <2>2. MutexHeld'
    BY <1>6 DEF FailStamp
  <2>3. ClosedUnderLimit'
    BY <1>6 DEF FailStamp
  <2>4. age' - (TicksPerSecond - 1) <= 0
    BY <1>6 DEF FailStamp
  <2>5. StampedInTime'
    BY <1>6, <2>4 DEF FailStamp
  <2> HIDE DEF TypeOK, MutexHeld, ClosedUnderLimit, StampedInTime
  <2> QED BY <2>1, <2>2, <2>3, <2>5
<1>7. ASSUME NEW c \in Caller, FailOpen(c) PROVE BreakerInv'
  BY <1>7 DEF FailOpen
<1>8. ASSUME NEW c \in Caller, Succeed(c) PROVE BreakerInv'
  BY <1>8 DEF Succeed
<1>9. CASE Tick
  <2>1. /\ age' \in 0..Never /\ sinceCount' \in 0..Never /\ sinceTrip' \in 0..Never
        /\ phase' \in 0..(TicksPerSecond - 1)
    BY <1>9, LaterBounds DEF Tick
  <2>2. \A t, s \in 0..Never : NotLater(t, s) => NotLater(Later(t), Later(s))
    BY DEF Later
  <2>3. loaded' \in [Caller -> 0..Never] /\ found' \in [Caller -> 0..Never]
    BY <1>9, LaterBounds DEF Tick
  <2>4. TypeOK'
    BY <1>9, <2>1, <2>3 DEF Tick
  <2>5. MutexHeld' /\ ClosedUnderLimit'
    BY <1>9 DEF Tick
  <2>6. StampedInTime'
    <3>1. state' = 1 => NotLater(age', sinceTrip')
      BY <1>9, <2>2 DEF Tick
    <3>2. ASSUME NEW c \in Caller
          PROVE  /\ pc'[c] = "stamped" => NotLater(age', sinceCount')
                 /\ pc'[c] = "check" => NotLater(age', found'[c])
                 /\ pc'[c] = "compare" => NotLater(loaded'[c], found'[c])
      BY <1>9, <2>2 DEF Tick
    <3> QED BY <3>1, <3>2
  <2> HIDE DEF TypeOK, MutexHeld, ClosedUnderLimit, StampedInTime
  <2> QED BY <2>4, <2>5, <2>6
<1>10. CASE Recover
  BY <1>10 DEF Recover
<1>11. CASE UNCHANGED vars
  BY <1>11 DEF vars
<1> QED
  BY <1>1, <1>2, <1>3, <1>4, <1>5, <1>6, <1>7, <1>8, <1>9, <1>10, <1>11, <1>12 DEF Next, CallStep

LEMMA BreakerAlways == Spec => []BreakerInv
  BY BreakerInit, BreakerStep, PTL DEF Spec

\* Types of the breaker's three words and of its callers.
THEOREM BreakerTyped == Spec => []TypeOK
  BY BreakerAlways, PTL DEF BreakerInv

\* A closed breaker has counted fewer failures than its limit.
THEOREM ClosedIsUnderLimit == Spec => []ClosedUnderLimit
  BY BreakerAlways, PTL DEF BreakerInv

\* Nobody gets past the breaker it found open before the timeout since the
\* failure that had opened it is over, up to the second that lastFailTime loses.
THEOREM ProbesWait == Spec => ProbeWaitsForReset
<1>1. BreakerInv /\ [Next]_vars =>
        [\A c \in Caller : CheckElapsed(c) => found[c] > Timeout - TicksPerSecond]_vars
  <2> SUFFICES ASSUME BreakerInv, NEW c \in Caller, CheckElapsed(c)
               PROVE  found[c] > Timeout - TicksPerSecond
    OBVIOUS
  <2>1. loaded[c] - (TicksPerSecond - 1) <= found[c] /\ loaded[c] > Timeout
    BY DEF BreakerInv, StampedInTime, NotLater, CheckElapsed
  <2> QED BY <2>1, BreakerAssumption, TimeoutNat DEF BreakerInv, TypeOK
<1> QED BY <1>1, BreakerAlways, PTL DEF Spec, ProbeWaitsForReset

-----------------------------------------------------------------------------
(* What Recovery rests on: when a closed breaker stays closed.             *)

\* Calls that have failed and are not counted yet.
Failing == {c \in Caller : pc[c] = "failed"}

\* Atlas answers again, and the failures it left behind do not fill the count.
Room == healthy /\ state = 0 /\ failures + Cardinality(Failing) < MaxFailures

\* A step in which no call fails and none is counted.
LEMMA RoomKept ==
    ASSUME IsFiniteSet(Caller), BreakerInv, Room,
           healthy' = healthy, state' = 0, failures' \in Nat, failures' <= failures,
           Failing' \subseteq Failing
    PROVE  Room'
<1>1. IsFiniteSet(Failing)
  BY FS_Subset DEF Failing
<1>2. Cardinality(Failing') <= Cardinality(Failing) /\ IsFiniteSet(Failing')
  BY <1>1, FS_Subset
<1>3. Cardinality(Failing) \in Nat /\ Cardinality(Failing') \in Nat
  BY <1>1, <1>2, FS_CardinalityType
<1>4. failures' + Cardinality(Failing') < MaxFailures
  BY <1>2, <1>3, BreakerAssumption DEF BreakerInv, TypeOK, Room
<1>5. healthy'
  BY DEF Room
<1> QED BY <1>4, <1>5 DEF Room

LEMMA RoomStep ==
    ASSUME IsFiniteSet(Caller)
    PROVE  BreakerInv /\ Room /\ [Next]_vars => Room'
<1> SUFFICES ASSUME BreakerInv, Room, [Next]_vars PROVE Room'
  OBVIOUS
<1>1. /\ healthy /\ state = 0 /\ failures \in 0..MaxFailures /\ MaxFailures \in Nat
      /\ pc \in [Caller -> {"idle", "check", "compare", "cas", "call", "failed", "counted", "stamped"}]
  BY BreakerAssumption DEF BreakerInv, TypeOK, Room
<1>2. ASSUME NEW c \in Caller, NEW step, step # "failed", Goto(c, step)
      PROVE  Failing' \subseteq Failing
  BY <1>1, <1>2 DEF Goto, Failing
<1>3. ASSUME NEW c \in Caller,
             Load(c) \/ LoadTime(c) \/ CheckReject(c) \/ CheckElapsed(c) \/ HalfOpen(c) \/ FailStamp(c)
      PROVE  Room'
  <2>1. Failing' \subseteq Failing
    BY <1>2, <1>3 DEF Load, LoadTime, CheckReject, CheckElapsed, HalfOpen, FailStamp
  <2>2. state' = 0
    BY <1>1, <1>3 DEF Load, LoadTime, CheckReject, CheckElapsed, HalfOpen, FailStamp
  <2>3. failures' = failures
    BY <1>3 DEF Load, LoadTime, CheckReject, CheckElapsed, HalfOpen, FailStamp
  <2>4. healthy' = healthy
    BY <1>3 DEF Load, LoadTime, CheckReject, CheckElapsed, HalfOpen, FailStamp
  <2> QED BY <1>1, <2>1, <2>2, <2>3, <2>4, RoomKept
<1>4. ASSUME NEW c \in Caller, Fail(c) PROVE FALSE
  BY <1>1, <1>4 DEF Fail
<1>5. ASSUME NEW c \in Caller, FailCount(c) PROVE Room'
  <2>1. IsFiniteSet(Failing) /\ Cardinality(Failing) \in Nat
    BY FS_Subset, FS_CardinalityType DEF Failing
  <2>2. c \in Failing /\ Failing' = Failing \ {c}
    BY <1>1, <1>5 DEF FailCount, Goto, Failing
  <2>3. Cardinality(Failing') = Cardinality(Failing) - 1
    BY <2>1, <2>2, FS_RemoveElement
  <2>4. failures' = failures \/ failures' = failures + 1
    BY <1>5 DEF FailCount
  <2>5. failures' + Cardinality(Failing') < MaxFailures
    BY <1>1, <2>1, <2>3, <2>4 DEF Room
  <2>6. healthy' /\ state' = 0
    BY <1>1, <1>5 DEF FailCount
  <2> QED BY <2>5, <2>6 DEF Room
<1>6. ASSUME NEW c \in Caller, FailOpen(c) PROVE Room'
  <2>1. failures < MaxFailures
    <3>1. Cardinality(Failing) \in Nat
      BY FS_Subset, FS_CardinalityType DEF Failing
    <3> QED BY <1>1, <3>1 DEF Room
  <2>2. Failing' \subseteq Failing
    BY <1>2, <1>6 DEF FailOpen
  <2>3. state' = 0
    BY <1>1, <1>6, <2>1 DEF FailOpen
  <2> QED BY <1>1, <1>6, <2>2, <2>3, RoomKept DEF FailOpen
<1>7. ASSUME NEW c \in Caller, Succeed(c) PROVE Room'
  <2>1. Failing' \subseteq Failing
    BY <1>2, <1>7 DEF Succeed
  <2>2. state' = 0 /\ failures' = 0 /\ healthy' = healthy
    BY <1>1, <1>7 DEF Succeed
  <2> QED BY <1>1, <2>1, <2>2, RoomKept
<1>8. CASE UNCHANGED <<state, failures, pc, healthy>>
  BY <1>1, <1>8, RoomKept DEF Failing
<1>9. ASSUME Recover PROVE FALSE
  BY <1>1, <1>9 DEF Recover
<1> QED BY <1>3, <1>4, <1>5, <1>6, <1>7, <1>8, <1>9 DEF Next, CallStep, Tick, vars

\* Once Atlas answers, a closed breaker is not opened by the calls that failed before,
\* as long as their failures and the counted ones do not reach the limit: whatever
\* they interleave with, it stays closed.
THEOREM RoomStaysClosed ==
    ASSUME IsFiniteSet(Caller)
    PROVE  Spec => [](Room => [](state = 0))
<1>1. Room => state = 0
  BY DEF Room
<1> QED BY <1>1, BreakerAlways, RoomStep, PTL DEF Spec
=============================================================================
