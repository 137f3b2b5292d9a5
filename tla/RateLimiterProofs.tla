-------------------------- MODULE RateLimiterProofs --------------------------
(***************************************************************************)
(* What the rate limiter promises about a key, for every window, limit and *)
(* set of keys, whatever headers name the keys, and however late a request *)
(* gets the lock.  The argument is a bound, from above and from below, of  *)
(* what was served under a key by what its window has counted.             *)
(***************************************************************************)
EXTENDS RateLimiter, TLAPS

\* What s says was served, given that the key has counted n in a window of age a: not
\* more than n since the window opened, not more than a limit more since the one
\* before it may have opened, nothing this second once it is over for everybody.
AtMost(s, n, a) ==
    /\ s[0] = 0
    /\ a = Over => s[1] = 0
    /\ \A m \in 0..Over :
          /\ m + Wait <= a + 1 => s[m] <= n
          /\ m + Wait <= a + Window + 2 => s[m] <= n + Limit

\* The window counts no request but those served since it opened.
AtLeast(s, n, a) == a < Over => \A m \in 0..Over : m > a => s[m] >= n

Inv ==
    /\ TypeOK
    /\ \A k \in Key :
          /\ AtMost(served[k], count[k], age[k])
          /\ AtLeast(served[k], count[k], age[k])

-----------------------------------------------------------------------------
\* getClientIP gives every request a key, and Serve logs it under that key alone.
LEMMA KeyOfRequest == ASSUME NEW r \in Request PROVE getClientIP(r) \in Key
<1>1. CASE r.xff # <<>>
    BY <1>1 DEF getClientIP, Key, Request
<1>2. CASE r.xff = <<>> /\ r.xri # NoHeader
    BY <1>2 DEF getClientIP, Key, Request
<1>3. CASE r.xff = <<>> /\ r.xri = NoHeader
    BY <1>3 DEF getClientIP, Key, Request
<1> QED BY <1>1, <1>2, <1>3

LEMMA Served ==
    ASSUME TypeOK, NEW k \in Key, Serve(k)
    PROVE  /\ served' \in [Key -> [0..Over -> Nat]]
           /\ \A j \in Key : j # k => served'[j] = served[j]
           /\ \A m \in 0..Over :
                 served'[k][m] = IF m > 0 THEN served[k][m] + 1 ELSE served[k][m]
           /\ served'[k][0] = served[k][0]
<1>1. Over \in Nat
    BY LimiterAssumption DEF Over
<1> DEFINE t == [n \in 0..Over |-> IF n > 0 THEN served[k][n] + 1 ELSE served[k][n]]
<1>2. t \in [0..Over -> Nat]
    BY <1>1 DEF TypeOK
<1>3. served' = [served EXCEPT ![k] = t]
    BY DEF Serve
<1>4. 0 \in 0..Over /\ served'[k] = t
    BY <1>1, <1>3 DEF TypeOK
<1>5. \A j \in Key : j # k => served'[j] = served[j]
    BY <1>3 DEF TypeOK
<1>6. served' \in [Key -> [0..Over -> Nat]]
    BY <1>2, <1>3 DEF TypeOK
<1> QED BY <1>4, <1>5, <1>6

\* A request that opens a window: at most that one request is new, and the last window
\* had been open for longer than Window for a request as old as this one.
LEMMA Opened ==
    ASSUME NEW s \in [0..Over -> Nat], NEW t \in [0..Over -> Nat],
           NEW n \in 0..Limit, NEW a \in 0..Over, NEW d \in Delay, a - d > Window,
           AtMost(s, n, a), t[0] = s[0],
           \A m \in 0..Over : m > 0 => t[m] \in {s[m], s[m] + 1}
    PROVE  AtMost(t, 1, d)
<1>1. Wait \in Nat /\ Window \in Nat \ {0} /\ Limit \in Nat \ {0} /\ Over = Window + Wait + 1
    BY LimiterAssumption DEF Over
<1>2. d \in 0..Wait
    BY DEF Delay
<1>3. t[0] = 0 /\ s[0] = 0
    BY DEF AtMost
<1>4. ASSUME NEW m \in 0..Over, m + Wait <= d + 1 PROVE t[m] <= 1
    <2>1. CASE m = 0
        BY <2>1, <1>3
    <2>2. CASE m = 1
        <3>1. a = Over
            BY <1>1, <1>2, <1>4, <2>2
        <3>2. s[1] = 0
            BY <3>1 DEF AtMost
        <3> QED BY <2>2, <3>2
    <2> QED BY <1>1, <1>2, <1>4, <2>1, <2>2
<1>5. ASSUME NEW m \in 0..Over, m + Wait <= d + Window + 2 PROVE t[m] <= 1 + Limit
    <2>1. m + Wait <= a + 1
        BY <1>1, <1>2, <1>5
    <2>2. s[m] <= n /\ s[m] \in Nat
        BY <2>1 DEF AtMost
    <2>3. CASE m = 0
        BY <2>3, <1>3, <1>1
    <2>4. CASE m > 0
        <3>1. t[m] \in {s[m], s[m] + 1}
            BY <2>4
        <3> QED BY <2>2, <3>1, <1>1
    <2>5. m = 0 \/ m > 0
        BY <1>1
    <2> QED BY <2>3, <2>4, <2>5
<1>6. d # Over
    BY <1>1, <1>2
<1> QED BY <1>3, <1>4, <1>5, <1>6 DEF AtMost

\* A request counted in an open window: the count grows by one, the log by at most one.
LEMMA Counted ==
    ASSUME NEW s \in [0..Over -> Nat], NEW t \in [0..Over -> Nat],
           NEW n \in 0..Limit, NEW a \in 0..Over, a < Over,
           AtMost(s, n, a), t[0] = s[0],
           \A m \in 0..Over : m > 0 => t[m] \in {s[m], s[m] + 1}
    PROVE  AtMost(t, n + 1, a)
<1>1. Limit \in Nat /\ Over \in Nat
    BY LimiterAssumption DEF Over
<1>2. \A m \in 0..Over : t[m] <= s[m] + 1 /\ s[m] \in Nat /\ t[m] \in Nat
    <2> TAKE m \in 0..Over
    <2>1. CASE m = 0
        BY <2>1
    <2>2. CASE m > 0
        BY <2>2
    <2> QED BY <2>1, <2>2
<1>3. t[0] = 0
    BY DEF AtMost
<1>4. ASSUME NEW m \in 0..Over
      PROVE  /\ m + Wait <= a + 1 => t[m] <= n + 1
             /\ m + Wait <= a + Window + 2 => t[m] <= n + 1 + Limit
    <2>1. /\ m + Wait <= a + 1 => s[m] <= n
          /\ m + Wait <= a + Window + 2 => s[m] <= n + Limit
        BY DEF AtMost
    <2>2. t[m] <= s[m] + 1 /\ s[m] \in Nat /\ t[m] \in Nat
        BY <1>2
    <2> QED BY <1>1, <2>1, <2>2
<1> QED BY <1>3, <1>4 DEF AtMost

\* A second passes: everything served is a second older, and so is the window.
LEMMA Ticked ==
    ASSUME NEW s \in [0..Over -> Nat], NEW t \in [0..Over -> Nat],
           NEW n \in 0..Limit, NEW a \in 0..Over,
           t = [m \in 0..Over |-> IF m = 0 THEN 0 ELSE s[m - 1]]
    PROVE  LET b == IF a = Over THEN Over ELSE a + 1
           IN  /\ AtMost(s, n, a) => AtMost(t, n, b)
               /\ AtLeast(s, n, a) => AtLeast(t, n, b)
<1>1. Wait \in Nat /\ Window \in Nat \ {0} /\ Limit \in Nat \ {0} /\ Over = Window + Wait + 1
    BY LimiterAssumption DEF Over
<1> DEFINE b == IF a = Over THEN Over ELSE a + 1
<1>2. b \in 0..Over /\ b <= a + 1
    BY <1>1
<1>3. t[0] = 0 /\ t[1] = s[0]
    BY <1>1
<1>4. \A m \in 0..Over : m > 0 => m - 1 \in 0..Over /\ t[m] = s[m - 1]
    BY <1>1
<1>5. ASSUME AtMost(s, n, a) PROVE AtMost(t, n, b)
    <2>1. s[0] = 0
        BY <1>5 DEF AtMost
    <2>2. ASSUME NEW m \in 0..Over
          PROVE  /\ m + Wait <= b + 1 => t[m] <= n
                 /\ m + Wait <= b + Window + 2 => t[m] <= n + Limit
        <3>1. CASE m = 0
            BY <3>1, <1>1, <1>3
        <3>2. CASE m > 0
            <4>1. m - 1 \in 0..Over /\ t[m] = s[m - 1]
                BY <1>4, <3>2
            <4>2. /\ (m - 1) + Wait <= a + 1 => s[m - 1] <= n
                  /\ (m - 1) + Wait <= a + Window + 2 => s[m - 1] <= n + Limit
                BY <1>5, <4>1 DEF AtMost
            <4> QED BY <1>1, <1>2, <4>1, <4>2
        <3> QED BY <3>1, <3>2
    <2> QED BY <1>3, <2>1, <2>2 DEF AtMost
<1>6. ASSUME AtLeast(s, n, a) PROVE AtLeast(t, n, b)
    <2>1. SUFFICES ASSUME b < Over, NEW m \in 0..Over, m > b PROVE t[m] >= n
        BY DEF AtLeast
    <2>2. a < Over /\ b = a + 1
        BY <1>1, <2>1
    <2>3. m - 1 \in 0..Over /\ t[m] = s[m - 1] /\ m - 1 > a
        BY <1>1, <1>4, <2>1, <2>2
    <2> QED BY <1>6, <2>2, <2>3 DEF AtLeast
<1> QED BY <1>5, <1>6

-----------------------------------------------------------------------------
\* The invariant, step by step: a key's window is opened, counts, or grows older.
LEMMA InvInit == Init => Inv
<1> SUFFICES ASSUME Init PROVE Inv
    OBVIOUS
<1>1. Wait \in Nat /\ Window \in Nat \ {0} /\ Limit \in Nat \ {0} /\ Over = Window + Wait + 1
    BY LimiterAssumption DEF Over
<1>2. TypeOK
    BY <1>1 DEF Init, TypeOK
<1>3. ASSUME NEW k \in Key
      PROVE  AtMost(served[k], count[k], age[k]) /\ AtLeast(served[k], count[k], age[k])
    <2>1. served[k] = [n \in 0..Over |-> 0] /\ count[k] = 0 /\ age[k] = Over
        BY <1>3 DEF Init
    <2> QED BY <1>1, <2>1 DEF AtMost, AtLeast
<1> QED BY <1>2, <1>3 DEF Inv

LEMMA InvNewWindow ==
    ASSUME Inv, NEW k \in Key, NEW d \in Delay, NewWindow(k, d)
    PROVE  Inv'
<1>1. Wait \in Nat /\ Window \in Nat \ {0} /\ Limit \in Nat \ {0} /\ Over = Window + Wait + 1
    BY LimiterAssumption DEF Over
<1>2. /\ d \in 0..Over /\ TypeOK /\ Serve(k) /\ age[k] - d > Window
      /\ count' = [count EXCEPT ![k] = 1] /\ age' = [age EXCEPT ![k] = d]
    BY <1>1 DEF Inv, NewWindow, Delay
<1>3. TypeOK'
    <2>1. count' \in [Key -> 0..Limit]
        BY <1>1, <1>2 DEF TypeOK
    <2>2. age' \in [Key -> 0..Over]
        BY <1>2 DEF TypeOK
    <2>3. served' \in [Key -> [0..Over -> Nat]]
        BY <1>2, Served
    <2> QED BY <2>1, <2>2, <2>3 DEF TypeOK
<1>4. AtMost(served'[k], count'[k], age'[k]) /\ AtLeast(served'[k], count'[k], age'[k])
    <2>1. /\ served[k] \in [0..Over -> Nat] /\ served'[k] \in [0..Over -> Nat]
          /\ count[k] \in 0..Limit /\ age[k] \in 0..Over
        BY <1>2, <1>3 DEF TypeOK
    <2>2. count'[k] = 1 /\ age'[k] = d
        BY <1>2 DEF TypeOK
    <2>3. /\ served'[k][0] = served[k][0]
          /\ \A m \in 0..Over : m > 0 => served'[k][m] = served[k][m] + 1
        BY <1>2, Served
    <2>4. AtMost(served'[k], 1, d)
        <3>1. AtMost(served[k], count[k], age[k])
            BY DEF Inv
        <3> QED BY <1>2, <2>1, <2>3, <3>1, Opened
    <2>5. ASSUME NEW m \in 0..Over, m > d PROVE served'[k][m] >= 1
        <3>1. m > 0 /\ served[k][m] \in Nat
            BY <1>1, <1>2, <2>1, <2>5
        <3> QED BY <2>3, <3>1
    <2> QED BY <2>2, <2>4, <2>5 DEF AtLeast
<1>5. ASSUME NEW j \in Key, j # k
      PROVE  AtMost(served'[j], count'[j], age'[j]) /\ AtLeast(served'[j], count'[j], age'[j])
    <2>1. served'[j] = served[j] /\ count'[j] = count[j] /\ age'[j] = age[j]
        BY <1>2, <1>5, Served DEF TypeOK
    <2> QED BY <2>1 DEF Inv
<1> QED BY <1>3, <1>4, <1>5 DEF Inv

LEMMA InvCount ==
    ASSUME Inv, NEW k \in Key, NEW d \in Delay, Count(k, d)
    PROVE  Inv'
<1>1. Wait \in Nat /\ Window \in Nat \ {0} /\ Limit \in Nat \ {0} /\ Over = Window + Wait + 1
    BY LimiterAssumption DEF Over
<1>2. /\ d \in 0..Wait /\ TypeOK /\ Serve(k) /\ age[k] - d <= Window /\ count[k] < Limit
      /\ count' = [count EXCEPT ![k] = @ + 1] /\ age' = age
    BY DEF Inv, Count, Delay
<1>3. TypeOK'
    <2>1. count' \in [Key -> 0..Limit]
        BY <1>1, <1>2 DEF TypeOK
    <2>2. served' \in [Key -> [0..Over -> Nat]]
        BY <1>2, Served
    <2> QED BY <1>2, <2>1, <2>2 DEF TypeOK
<1>4. AtMost(served'[k], count'[k], age'[k]) /\ AtLeast(served'[k], count'[k], age'[k])
    <2>1. /\ served[k] \in [0..Over -> Nat] /\ served'[k] \in [0..Over -> Nat]
          /\ count[k] \in 0..Limit /\ age[k] \in 0..Over
        BY <1>2, <1>3 DEF TypeOK
    <2>2. count'[k] = count[k] + 1 /\ age'[k] = age[k] /\ age[k] < Over
        BY <1>1, <1>2, <2>1 DEF TypeOK
    <2>3. /\ served'[k][0] = served[k][0]
          /\ \A m \in 0..Over : m > 0 => served'[k][m] = served[k][m] + 1
        BY <1>2, Served
    <2>4. AtMost(served[k], count[k], age[k]) /\ AtLeast(served[k], count[k], age[k])
        BY DEF Inv
    <2>5. AtMost(served'[k], count[k] + 1, age[k])
        BY <2>1, <2>2, <2>3, <2>4, Counted
    <2>6. ASSUME NEW m \in 0..Over, m > age[k] PROVE served'[k][m] >= count[k] + 1
        <3>1. m > 0 /\ served[k][m] \in Nat /\ count[k] \in Nat
            BY <1>1, <2>1, <2>6
        <3>2. served[k][m] >= count[k]
            BY <2>2, <2>4, <2>6 DEF AtLeast
        <3> QED BY <2>3, <3>1, <3>2
    <2> QED BY <2>2, <2>5, <2>6 DEF AtLeast
<1>5. ASSUME NEW j \in Key, j # k
      PROVE  AtMost(served'[j], count'[j], age'[j]) /\ AtLeast(served'[j], count'[j], age'[j])
    <2>1. served'[j] = served[j] /\ count'[j] = count[j] /\ age'[j] = age[j]
        BY <1>2, <1>5, Served DEF TypeOK
    <2> QED BY <2>1 DEF Inv
<1> QED BY <1>3, <1>4, <1>5 DEF Inv

LEMMA InvTick == ASSUME Inv, Tick PROVE Inv'
<1>1. Wait \in Nat /\ Window \in Nat \ {0} /\ Limit \in Nat \ {0} /\ Over = Window + Wait + 1
    BY LimiterAssumption DEF Over
<1>2. TypeOK
    BY DEF Inv
<1>3. TypeOK'
    <2>1. \A k \in Key : (IF age[k] = Over THEN Over ELSE age[k] + 1) \in 0..Over
        <3> TAKE k \in Key
        <3>1. age[k] \in 0..Over /\ Over \in Nat
            BY <1>1, <1>2 DEF TypeOK
        <3> QED BY <3>1
    <2>2. served' \in [Key -> [0..Over -> Nat]]
        BY <1>1, <1>2 DEF Tick, TypeOK
    <2>3. age' \in [Key -> 0..Over]
        BY <2>1 DEF Tick
    <2>4. count' \in [Key -> 0..Limit]
        BY <1>2 DEF Tick, TypeOK
    <2> QED BY <2>2, <2>3, <2>4 DEF TypeOK
<1>4. ASSUME NEW k \in Key
      PROVE  AtMost(served'[k], count'[k], age'[k]) /\ AtLeast(served'[k], count'[k], age'[k])
    <2>1. /\ served[k] \in [0..Over -> Nat] /\ served'[k] \in [0..Over -> Nat]
          /\ count[k] \in 0..Limit /\ age[k] \in 0..Over
        BY <1>2, <1>3 DEF TypeOK
    <2>2. /\ served'[k] = [m \in 0..Over |-> IF m = 0 THEN 0 ELSE served[k][m - 1]]
          /\ age'[k] = IF age[k] = Over THEN Over ELSE age[k] + 1
          /\ count'[k] = count[k]
        BY DEF Tick
    <2>3. AtMost(served[k], count[k], age[k]) /\ AtLeast(served[k], count[k], age[k])
        BY DEF Inv
    <2> DEFINE b == IF age[k] = Over THEN Over ELSE age[k] + 1
    <2>4. AtMost(served'[k], count[k], b) /\ AtLeast(served'[k], count[k], b)
        BY <2>1, <2>2, <2>3, Ticked
    <2>5. age'[k] = b /\ count'[k] = count[k]
        BY <2>2
    <2> HIDE DEF b
    <2> QED BY <2>4, <2>5
<1> QED BY <1>3, <1>4 DEF Inv

\* The bounds of what a window's count says about what was served hold in every state.
THEOREM Invariant == Spec => []Inv
<1>1. Inv /\ [Next]_vars => Inv'
    <2> SUFFICES ASSUME Inv, [Next]_vars PROVE Inv'
        OBVIOUS
    <2>1. ASSUME NEW r \in Request, NEW d \in Delay, NewWindow(getClientIP(r), d) PROVE Inv'
        BY <2>1, KeyOfRequest, InvNewWindow
    <2>2. ASSUME NEW r \in Request, NEW d \in Delay, Count(getClientIP(r), d) PROVE Inv'
        BY <2>2, KeyOfRequest, InvCount
    <2>3. CASE Tick
        BY <2>3, InvTick
    <2>4. CASE vars' = vars
        BY <2>4 DEF vars, Inv, TypeOK, AtMost, AtLeast
    <2> QED BY <2>1, <2>2, <2>3, <2>4 DEF Next, Refuse
<1> QED BY <1>1, InvInit, PTL DEF Spec

\* A key never counts past the limit, and every window has an age (checkRateLimit).
THEOREM TypeCorrect == Spec => []TypeOK
<1>1. Inv => TypeOK
    BY DEF Inv
<1> QED BY <1>1, Invariant, PTL

\* Under no key is more than twice the limit let through within a window's length,
\* less a second for each that a request waits for the lock.
THEOREM TwiceTheLimit == Spec => []TwiceTheLimitAtMost
<1>1. ASSUME Inv PROVE TwiceTheLimitAtMost
    <2>1. Wait \in Nat /\ Window \in Nat /\ Limit \in Nat /\ Over \in Nat
        BY LimiterAssumption DEF Over
    <2>2. SUFFICES ASSUME NEW k \in Key, NEW n \in 0..Over, n + Wait <= Window + 2
                   PROVE  served[k][n] <= 2 * Limit
        BY DEF TwiceTheLimitAtMost
    <2>3. AtMost(served[k], count[k], age[k])
        BY <1>1 DEF Inv
    <2>4. count[k] \in 0..Limit /\ age[k] \in 0..Over /\ served[k][n] \in Nat
        BY <1>1 DEF Inv, TypeOK
    <2>5. n + Wait <= age[k] + Window + 2
        BY <2>1, <2>2, <2>4
    <2>6. served[k][n] <= count[k] + Limit
        BY <2>3, <2>5 DEF AtMost
    <2> QED BY <2>1, <2>4, <2>6
<1> QED BY <1>1, Invariant, PTL

\* A request is refused only when its own key has used up the limit.
THEOREM RefusalsAreForTheKey == Spec => []RefusedForItsKey
<1>1. ASSUME Inv PROVE RefusedForItsKey
    <2>1. Wait \in Nat /\ Window \in Nat /\ Limit \in Nat /\ Over = Window + Wait + 1
        BY LimiterAssumption DEF Over
    <2>2. SUFFICES ASSUME NEW k \in Key, NEW d \in Delay, Refused(k, d)
                   PROVE  served[k][Over] >= Limit
        BY DEF RefusedForItsKey
    <2>3. AtLeast(served[k], count[k], age[k])
        BY <1>1 DEF Inv
    <2>4. count[k] \in 0..Limit /\ age[k] \in 0..Over /\ served[k][Over] \in Nat
        BY <1>1, <2>1 DEF Inv, TypeOK
    <2>5. age[k] < Over /\ count[k] >= Limit
        BY <2>1, <2>2, <2>4 DEF Refused, Delay
    <2>6. served[k][Over] >= count[k]
        BY <2>1, <2>3, <2>5 DEF AtLeast
    <2> QED BY <2>1, <2>4, <2>5, <2>6
<1> QED BY <1>1, Invariant, PTL
=============================================================================
