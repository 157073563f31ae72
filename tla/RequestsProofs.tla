--------------------------- MODULE RequestsProofs ---------------------------
(* Theorems about Requests, for every capacity, window, delay and any number *)
(* of callers.                                                               *)
EXTENDS Requests, SequenceTheorems, TLAPS

\* A caller about to take the lock has read the clock within MaxDelay.
ClockFresh ==
    \A c \in Callers :
        pc[c] = "locking" => clock[c] <= time /\ time <= clock[c] + MaxDelay

\* A stamp is not later than its grant, and not much earlier.
Stamped ==
    \A j \in 1..Len(grants) :
        /\ grants[j].stamp <= grants[j].at
        /\ grants[j].at <= grants[j].stamp + MaxDelay
        /\ grants[j].at <= time

\* The limiter holds the stamps of the last grants, in their order ...
Suffix ==
    /\ Len(stamps) <= Len(grants)
    /\ \A i \in 1..Len(stamps) :
          stamps[i] = grants[Len(grants) - Len(stamps) + i].stamp

\* ... and has dropped none before its window was over.
Expired ==
    \A j \in 1..(Len(grants) - Len(stamps)) : grants[j].stamp <= time - Window

\* A call that was allowed a request after its context was done is in that request
\* or has ended.
LateState ==
    \A c \in Callers :
        \/ late[c] = 0
        \/ late[c] = 1 /\ c \in cancelled /\ pc[c] \in {"requesting", "idle"}

\* A call in progress counts its attempts, and backs off only before the last.
Counted ==
    \A c \in Callers :
        /\ pc[c] # "idle" => attempt[c] >= 1
        /\ pc[c] = "backing" => attempt[c] < MaxAttempts

CallersOK == ClockFresh /\ SleepBounded /\ LateState /\ Counted

Limiter == Stamped /\ Suffix /\ Expired /\ Spaced

RequestsInv == RequestsTypeOK /\ Limiter /\ CallersOK

-----------------------------------------------------------------------------
\* What trimExpired leaves.
LEMMA KeptSuffix ==
    ASSUME stamps \in Seq(Nat), NEW n \in 0..Len(stamps)
    PROVE  /\ Kept(n) \in Seq(Nat)
           /\ Len(Kept(n)) = Len(stamps) - n
           /\ \A i \in 1..(Len(stamps) - n) : Kept(n)[i] = stamps[n + i]
BY DEF Kept

\* A wait that takes the age of a stamp off the window is at most the window and
\* the delay of the clock.
LEMMA WaitArithmetic ==
    ASSUME NEW t \in Nat, NEW k \in Nat, NEW s \in Nat, NEW w \in Int,
           s <= t, t <= k + MaxDelay, w = t + s + Window - k
    PROVE  w - t <= Window + MaxDelay
BY LimiterAssumption, DelaysAssumption

\* A grant whose stamp is over a window ago is nearly a window ago itself.
LEMMA SpaceArithmetic ==
    ASSUME NEW t \in Nat, NEW a \in Nat, NEW s \in Nat,
           a <= s + MaxDelay, s <= t - Window
    PROVE  t - a >= Window - MaxDelay
BY LimiterAssumption, DelaysAssumption

LEMMA AppendFacts ==
    ASSUME NEW s \in Seq(Nat), NEW x \in Nat
    PROVE  /\ Append(s, x) \in Seq(Nat)
           /\ Len(Append(s, x)) = Len(s) + 1
           /\ \A i \in 1..Len(s) : Append(s, x)[i] = s[i]
           /\ Append(s, x)[Len(s) + 1] = x
OBVIOUS

LEMMA GrantFields ==
    ASSUME grants \in Seq([at : Nat, stamp : Nat]), NEW j \in 1..Len(grants)
    PROVE  grants[j].at \in Nat /\ grants[j].stamp \in Nat
<1>1. grants[j] \in [at : Nat, stamp : Nat]
  BY ElementOfSeq
<1> QED
  BY <1>1

\* The parts about the limiter stay true as long as no request is granted and no
\* stamp is dropped.
LEMMA LimiterKept ==
    ASSUME RequestsTypeOK, Limiter, UNCHANGED <<stamps, grants>>,
           time' \in Nat, time <= time'
    PROVE  Limiter'
<1>0. \A j \in 1..Len(grants) : grants[j].at \in Nat /\ grants[j].stamp \in Nat
  BY GrantFields DEF RequestsTypeOK
<1>1. Stamped'
  BY <1>0 DEF Limiter, Stamped, RequestsTypeOK
<1>2. Suffix'
  BY DEF Limiter, Suffix
<1>3. Expired'
  <2> SUFFICES ASSUME NEW j \in 1..(Len(grants) - Len(stamps))
               PROVE  grants[j].stamp <= time' - Window
    BY DEF Expired
  <2>1. j \in 1..Len(grants)
    BY DEF Limiter, Suffix, RequestsTypeOK
  <2>2. grants[j].stamp \in Nat
    BY <1>0, <2>1
  <2>3. grants[j].stamp <= time - Window
    BY DEF Limiter, Expired
  <2>4. time \in Nat
    BY DEF RequestsTypeOK
  <2> QED
    BY <2>2, <2>3, <2>4, LimiterAssumption
<1>4. Spaced'
  BY DEF Limiter, Spaced
<1> QED
  BY <1>1, <1>2, <1>3, <1>4 DEF Limiter

LEMMA InitRequests == RequestsInit => RequestsInv
<1> SUFFICES ASSUME RequestsInit PROVE RequestsInv
  OBVIOUS
<1> USE LimiterAssumption, AttemptsAssumption DEF RequestsInit
<1>1. RequestsTypeOK
  BY DEF RequestsTypeOK, RequestPCs
<1>2. CallersOK
  BY DEF CallersOK, ClockFresh, SleepBounded, LateState, Counted
<1>3. Limiter
  BY DEF Limiter, Stamped, Suffix, Expired, Spaced
<1> QED
  BY <1>1, <1>2, <1>3 DEF RequestsInv

LEMMA TickStep == RequestsInv /\ TickTime => RequestsInv'
<1> SUFFICES ASSUME RequestsInv, TickTime PROVE RequestsInv'
  OBVIOUS
<1> USE LimiterAssumption, DelaysAssumption, AttemptsAssumption DEF RequestsInv, CallersOK, TickTime
<1>1. RequestsTypeOK'
  BY DEF RequestsTypeOK
<1>2. ClockFresh'
  BY DEF ClockFresh, RequestsTypeOK
<1>3. SleepBounded'
  BY DEF SleepBounded, RequestsTypeOK
<1>4. LateState'
  BY DEF LateState
<1>5. Counted'
  BY DEF Counted
<1>6. Limiter'
  BY <1>1, LimiterKept DEF RequestsTypeOK
<1> QED
  BY <1>1, <1>2, <1>3, <1>4, <1>5, <1>6

\* Steps that change neither time nor the limiter.
LEMMA QuietRequests ==
    ASSUME RequestsInv, RequestsTypeOK', UNCHANGED <<time, stamps, grants>>,
           CallersOK'
    PROVE  RequestsInv'
BY LimiterKept DEF RequestsInv, RequestsTypeOK

LEMMA ReadClockStep ==
    ASSUME RequestsInv, NEW c \in Callers, ReadClock(c)
    PROVE  RequestsInv'
<1> USE DelaysAssumption DEF RequestsInv, CallersOK, ReadClock, Goto, RequestsTypeOK
<1>1. RequestsTypeOK'
  BY DEF RequestPCs
<1>2. ClockFresh'
  BY DEF ClockFresh
<1>3. SleepBounded'
  BY DEF SleepBounded
<1>4. LateState'
  BY DEF LateState
<1>5. Counted'
  BY DEF Counted
<1> QED
  BY <1>1, <1>2, <1>3, <1>4, <1>5, QuietRequests

LEMMA CallStep ==
    ASSUME RequestsInv, NEW c \in Callers, Call(c)
    PROVE  RequestsInv'
<1> USE AttemptsAssumption DEF RequestsInv, CallersOK, Call, Goto, RequestsTypeOK
<1>1. RequestsTypeOK'
  BY DEF RequestPCs
<1>2. ClockFresh'
  BY DEF ClockFresh
<1>3. SleepBounded'
  BY DEF SleepBounded
<1>4. LateState'
  BY DEF LateState
<1>5. Counted'
  BY DEF Counted
<1> QED
  BY <1>1, <1>2, <1>3, <1>4, <1>5, QuietRequests

LEMMA WakeStep ==
    ASSUME RequestsInv, NEW c \in Callers, WakeQueued(c)
    PROVE  RequestsInv'
<1> USE DEF RequestsInv, CallersOK, WakeQueued, Goto, RequestsTypeOK
<1>1. RequestsTypeOK'
  BY DEF RequestPCs
<1>2. ClockFresh'
  BY DEF ClockFresh
<1>3. SleepBounded'
  BY DEF SleepBounded
<1>4. LateState'
  BY DEF LateState
<1>5. Counted'
  BY DEF Counted
<1> QED
  BY <1>1, <1>2, <1>3, <1>4, <1>5, QuietRequests

\* The ends of a call: an answer, or a sleep cut short.
LEMMA EndStep ==
    ASSUME RequestsInv, NEW c \in Callers,
           pc[c] \in {"queued", "backing", "requesting"}, End(c)
    PROVE  RequestsInv'
<1> USE AttemptsAssumption DEF RequestsInv, CallersOK, End, Goto, RequestsTypeOK
<1>1. RequestsTypeOK'
  BY DEF RequestPCs
<1>2. ClockFresh'
  BY DEF ClockFresh
<1>3. SleepBounded'
  BY DEF SleepBounded
<1>4. LateState'
  BY DEF LateState
<1>5. Counted'
  BY DEF Counted
<1> QED
  BY <1>1, <1>2, <1>3, <1>4, <1>5, QuietRequests

LEMMA TransientStep ==
    ASSUME RequestsInv, NEW c \in Callers, Transient(c)
    PROVE  RequestsInv'
<1> USE AttemptsAssumption, DelaysAssumption DEF RequestsInv, CallersOK, Transient, Goto, RequestsTypeOK
<1>1. RequestsTypeOK'
  <2>1. PICK r \in RetryAfters :
            wake' = [wake EXCEPT ![c] = time + Greater(Backoff[attempt[c]], r)]
    OBVIOUS
  <2>2. Greater(Backoff[attempt[c]], r) \in Int
    BY DEF Greater, Counted
  <2> QED BY SMTT(20), <2>1, <2>2 DEF RequestPCs
<1>2. ClockFresh'
  BY DEF ClockFresh
<1>3. SleepBounded'
  BY DEF SleepBounded
<1>4. LateState'
  BY DEF LateState
<1>5. Counted'
  BY DEF Counted
<1> QED
  BY <1>1, <1>2, <1>3, <1>4, <1>5, QuietRequests

LEMMA RetryStep ==
    ASSUME RequestsInv, NEW c \in Callers, Retry(c)
    PROVE  RequestsInv'
<1> USE AttemptsAssumption DEF RequestsInv, CallersOK, Retry, Goto, RequestsTypeOK
<1>1. RequestsTypeOK'
  BY DEF RequestPCs, Counted
<1>2. ClockFresh'
  BY DEF ClockFresh
<1>3. SleepBounded'
  BY DEF SleepBounded
<1>4. LateState'
  BY DEF LateState
<1>5. Counted'
  BY DEF Counted
<1> QED
  BY <1>1, <1>2, <1>3, <1>4, <1>5, QuietRequests

LEMMA CancelStep ==
    ASSUME RequestsInv, NEW c \in Callers, CancelCall(c)
    PROVE  RequestsInv'
<1> USE DEF RequestsInv, CallersOK, CancelCall, RequestsTypeOK
<1>1. RequestsTypeOK'
  OBVIOUS
<1>2. ClockFresh'
  BY DEF ClockFresh
<1>3. SleepBounded'
  BY DEF SleepBounded
<1>4. LateState'
  BY DEF LateState
<1>5. Counted'
  BY DEF Counted
<1> QED
  BY <1>1, <1>2, <1>3, <1>4, <1>5, QuietRequests

-----------------------------------------------------------------------------
\* Trimming keeps a suffix of the grants, and drops only what has expired.
LEMMA TrimKeeps ==
    ASSUME RequestsTypeOK, Suffix, Expired,
           NEW at \in Nat, at <= time, NEW n \in 0..Len(stamps), Trimmed(n, at)
    PROVE  /\ \A i \in 1..(Len(stamps) - n) :
                Kept(n)[i] = grants[Len(grants) - (Len(stamps) - n) + i].stamp
           /\ \A j \in 1..(Len(grants) - (Len(stamps) - n)) :
                grants[j].stamp <= time - Window
<1>0. /\ Len(stamps) \in Nat /\ Len(grants) \in Nat /\ Len(stamps) <= Len(grants)
      /\ time \in Nat /\ Window \in Nat /\ stamps \in Seq(Nat)
  BY LimiterAssumption DEF RequestsTypeOK, Suffix
<1>1. ASSUME NEW i \in 1..(Len(stamps) - n)
      PROVE  Kept(n)[i] = grants[Len(grants) - (Len(stamps) - n) + i].stamp
  <2>1. Kept(n)[i] = stamps[n + i]
    BY <1>0, KeptSuffix
  <2>2. n + i \in 1..Len(stamps)
    BY <1>0
  <2>3. stamps[n + i] = grants[Len(grants) - Len(stamps) + (n + i)].stamp
    BY <2>2 DEF Suffix
  <2>4. Len(grants) - Len(stamps) + (n + i) = Len(grants) - (Len(stamps) - n) + i
    BY <1>0
  <2> QED
    BY <2>1, <2>3, <2>4
<1>2. ASSUME NEW j \in 1..(Len(grants) - (Len(stamps) - n))
      PROVE  grants[j].stamp <= time - Window
  <2>1. CASE j <= Len(grants) - Len(stamps)
    <3>1. j \in 1..(Len(grants) - Len(stamps))
      BY <1>0, <2>1
    <3> QED
      BY <3>1 DEF Expired
  <2>2. CASE ~ (j <= Len(grants) - Len(stamps))
    <3> DEFINE i == j - (Len(grants) - Len(stamps))
    <3>1. i \in 1..n /\ i \in 1..Len(stamps) /\ Len(grants) - Len(stamps) + i = j
      BY <1>0, <2>2
    <3>2. stamps[i] = grants[j].stamp
      BY <3>1 DEF Suffix
    <3>3. stamps[i] <= at - Window
      BY <3>1 DEF Trimmed
    <3>4. stamps[i] \in Nat
      BY <1>0, <3>1, ElementOfSeq
    <3> HIDE DEF i
    <3> QED
      BY <1>0, <3>2, <3>3, <3>4
  <2> QED
    BY <2>1, <2>2
<1> QED
  BY <1>1, <1>2

LEMMA FullStep ==
    ASSUME RequestsInv, NEW c \in Callers, Full(c)
    PROVE  RequestsInv'
<1>0. RequestsTypeOK /\ Limiter /\ CallersOK
  BY DEF RequestsInv
<1>1. PICK n \in 0..Len(stamps) :
          /\ Trimmed(n, clock[c])
          /\ Len(stamps) - n >= Capacity
          /\ stamps' = Kept(n)
          /\ wake' = [wake EXCEPT ![c] = time + stamps[n + 1] + Window - clock[c]]
  BY DEF Full
<1>2. /\ pc[c] = "locking" /\ pc' = [pc EXCEPT ![c] = "queued"]
      /\ clock' = [clock EXCEPT ![c] = 0]
      /\ UNCHANGED <<time, attempt, cancelled, grants, late>>
  BY DEF Full, Goto
<1>3. clock[c] \in Nat /\ clock[c] <= time /\ time <= clock[c] + MaxDelay
  BY <1>0, <1>2 DEF CallersOK, ClockFresh, RequestsTypeOK
<1>4. /\ Kept(n) \in Seq(Nat) /\ Len(Kept(n)) = Len(stamps) - n
      /\ Len(stamps) \in Nat /\ Len(grants) \in Nat
  BY <1>0, KeptSuffix DEF RequestsTypeOK
<1>5. /\ \A i \in 1..(Len(stamps) - n) :
            Kept(n)[i] = grants[Len(grants) - (Len(stamps) - n) + i].stamp
      /\ \A j \in 1..(Len(grants) - (Len(stamps) - n)) :
            grants[j].stamp <= time - Window
  BY <1>0, <1>1, <1>3, TrimKeeps DEF Limiter
<1>6. stamps[n + 1] \in Nat /\ stamps[n + 1] <= time
  <2>1. n + 1 \in 1..Len(stamps)
    BY <1>1, <1>4, LimiterAssumption
  <2>2. stamps[n + 1] \in Nat
    BY <1>0, <2>1, ElementOfSeq DEF RequestsTypeOK
  <2> DEFINE j == Len(grants) - Len(stamps) + (n + 1)
  <2>3. stamps[n + 1] = grants[j].stamp
    BY <1>0, <2>1 DEF Limiter, Suffix
  <2>4. j \in 1..Len(grants)
    BY <1>0, <1>4, <2>1 DEF Limiter, Suffix
  <2> HIDE DEF j
  <2>5. /\ grants[j].at \in Nat /\ grants[j].stamp \in Nat
        /\ grants[j].stamp <= grants[j].at /\ grants[j].at <= time
    BY <1>0, <2>4, GrantFields DEF Limiter, Stamped, RequestsTypeOK
  <2>6. time \in Nat
    BY <1>0 DEF RequestsTypeOK
  <2> QED
    BY <2>2, <2>3, <2>5, <2>6
<1>7. RequestsTypeOK'
  <2>1. time + stamps[n + 1] + Window - clock[c] \in Int
    BY SMTT(20), <1>0, <1>3, <1>6, LimiterAssumption DEF RequestsTypeOK
  <2>2. stamps' \in Seq(Nat) /\ Len(stamps') <= Capacity
    BY <1>0, <1>1, <1>4, LimiterAssumption DEF RequestsTypeOK
  <2> QED
    BY <1>0, <1>1, <1>2, <2>1, <2>2 DEF RequestsTypeOK, RequestPCs
<1>8. CallersOK'
  <2>1. ClockFresh'
    BY <1>0, <1>2 DEF CallersOK, ClockFresh, RequestsTypeOK
  <2>2. SleepBounded'
    <3> SUFFICES ASSUME NEW d \in Callers, pc'[d] = "queued"
                 PROVE  wake'[d] - time <= Window + MaxDelay
      BY <1>2 DEF SleepBounded
    <3>1. CASE d = c
      <4>1. wake'[d] = time + stamps[n + 1] + Window - clock[c]
        BY <1>0, <1>1, <3>1 DEF RequestsTypeOK
      <4>2. time \in Nat
        BY <1>0 DEF RequestsTypeOK
      <4>3. wake'[d] \in Int
        BY <1>3, <1>6, <4>1, <4>2, LimiterAssumption
      <4>4. wake'[d] - time <= Window + MaxDelay
        <5> DEFINE w == wake'[d]
        <5> DEFINE s == stamps[n + 1]
        <5>1. /\ w \in Int /\ s \in Nat /\ s <= time
              /\ w = time + s + Window - clock[c]
          BY <1>6, <4>1, <4>3
        <5> HIDE DEF w, s
        <5>2. w - time <= Window + MaxDelay
          BY ONLY <1>3, <4>2, <5>1, WaitArithmetic
        <5> QED
          BY <5>2 DEF w
      <4> QED
        BY <4>4
    <3>2. CASE d # c
      BY <1>0, <1>1, <1>2, <3>2 DEF CallersOK, SleepBounded, RequestsTypeOK
    <3> QED
      BY <3>1, <3>2
  <2>3. LateState' /\ Counted'
    BY <1>0, <1>2 DEF CallersOK, LateState, Counted, RequestsTypeOK
  <2> QED
    BY <2>1, <2>2, <2>3 DEF CallersOK
<1>9. Limiter'
  <2>1. Stamped' /\ Spaced'
    BY <1>0, <1>2 DEF Limiter, Stamped, Spaced
  <2>2. Suffix'
    <3>1. /\ stamps' = Kept(n) /\ grants' = grants
          /\ Len(stamps') = Len(stamps) - n
      BY <1>1, <1>2, <1>4
    <3>2. Len(stamps') <= Len(grants')
      BY <1>0, <1>4, <3>1 DEF Limiter, Suffix
    <3>3. \A i \in 1..Len(stamps') :
              stamps'[i] = grants'[Len(grants') - Len(stamps') + i].stamp
      BY ONLY <1>5, <3>1
    <3> QED
      BY <3>2, <3>3 DEF Suffix
  <2>3. Expired'
    <3>1. /\ grants' = grants /\ time' = time
          /\ Len(stamps') = Len(stamps) - n
      BY <1>1, <1>2, <1>4
    <3> QED
      BY ONLY <1>5, <3>1 DEF Expired
  <2> QED
    BY <2>1, <2>2, <2>3 DEF Limiter
<1> QED
  BY <1>7, <1>8, <1>9 DEF RequestsInv

LEMMA GrantStep ==
    ASSUME RequestsInv, NEW c \in Callers, Grant(c)
    PROVE  RequestsInv'
<1> DEFINE grant == [at |-> time, stamp |-> clock[c]]
<1>0. RequestsTypeOK /\ Limiter /\ CallersOK
  BY DEF RequestsInv
<1>1. PICK n \in 0..Len(stamps) :
          /\ Trimmed(n, clock[c])
          /\ Len(stamps) - n < Capacity
          /\ stamps' = Append(Kept(n), clock[c])
  BY DEF Grant
<1>2. /\ pc[c] = "locking" /\ pc' = [pc EXCEPT ![c] = "requesting"]
      /\ clock' = [clock EXCEPT ![c] = 0]
      /\ grants' = Append(grants, grant)
      /\ late' = [late EXCEPT ![c] = @ + (IF c \in cancelled THEN 1 ELSE 0)]
      /\ UNCHANGED <<time, attempt, wake, cancelled>>
  BY DEF Grant, Goto
<1>3. /\ clock[c] \in Nat /\ clock[c] <= time /\ time <= clock[c] + MaxDelay
      /\ time \in Nat
  BY <1>0, <1>2 DEF CallersOK, ClockFresh, RequestsTypeOK
<1>4. /\ Kept(n) \in Seq(Nat) /\ Len(Kept(n)) = Len(stamps) - n
      /\ Len(stamps) \in Nat /\ Len(grants) \in Nat
      /\ grants \in Seq([at : Nat, stamp : Nat])
  BY <1>0, KeptSuffix DEF RequestsTypeOK
<1>5. /\ \A i \in 1..(Len(stamps) - n) :
            Kept(n)[i] = grants[Len(grants) - (Len(stamps) - n) + i].stamp
      /\ \A j \in 1..(Len(grants) - (Len(stamps) - n)) :
            grants[j].stamp <= time - Window
  BY <1>0, <1>1, <1>3, TrimKeeps DEF Limiter
<1>6. grant \in [at : Nat, stamp : Nat]
  BY <1>3
<1>7. /\ grants' \in Seq([at : Nat, stamp : Nat])
      /\ Len(grants') = Len(grants) + 1
      /\ \A j \in 1..Len(grants) : grants'[j] = grants[j]
      /\ grants'[Len(grants) + 1] = grant
  <2> HIDE DEF grant
  <2> QED
    BY <1>2, <1>4, <1>6
<1>8. /\ stamps' \in Seq(Nat)
      /\ Len(stamps') = Len(stamps) - n + 1
      /\ \A i \in 1..(Len(stamps) - n) : stamps'[i] = Kept(n)[i]
      /\ stamps'[Len(stamps) - n + 1] = clock[c]
  <2> DEFINE kept == Kept(n)
  <2>1. kept \in Seq(Nat) /\ clock[c] \in Nat /\ stamps' = Append(kept, clock[c])
    BY <1>1, <1>3, <1>4
  <2>2. Len(kept) = Len(stamps) - n /\ kept = Kept(n)
    BY <1>4
  <2> HIDE DEF kept
  <2> QED
    BY <2>1, <2>2, AppendFacts
<1>9. RequestsTypeOK'
  <2>1. Len(stamps') <= Capacity
    BY <1>1, <1>4, <1>8, LimiterAssumption
  <2> HIDE DEF grant
  <2>2. late' \in [Callers -> Nat]
    BY <1>0, <1>2 DEF RequestsTypeOK
  <2>3. pc' \in [Callers -> RequestPCs] /\ clock' \in [Callers -> Nat]
    BY <1>0, <1>2 DEF RequestsTypeOK, RequestPCs
  <2> QED
    BY <1>0, <1>2, <1>7, <1>8, <2>1, <2>2, <2>3 DEF RequestsTypeOK
<1>10. CallersOK'
  <2> HIDE DEF grant
  <2>1. ClockFresh' /\ SleepBounded' /\ Counted'
    BY <1>0, <1>2 DEF CallersOK, ClockFresh, SleepBounded, Counted, RequestsTypeOK
  <2>2. late[c] = 0
    BY <1>0, <1>2 DEF CallersOK, LateState
  <2>3. LateState'
    BY <1>0, <1>2, <2>2 DEF CallersOK, LateState, RequestsTypeOK
  <2> QED
    BY <2>1, <2>3 DEF CallersOK
<1>11. Stamped'
  <2> SUFFICES ASSUME NEW j \in 1..Len(grants')
               PROVE  /\ grants'[j].stamp <= grants'[j].at
                      /\ grants'[j].at <= grants'[j].stamp + MaxDelay
                      /\ grants'[j].at <= time'
    BY DEF Stamped
  <2>1. CASE j \in 1..Len(grants)
    BY <1>0, <1>2, <1>7, <2>1 DEF Limiter, Stamped
  <2>2. CASE j = Len(grants) + 1
    BY <1>2, <1>3, <1>7, <2>2
  <2> QED
    BY <1>4, <1>7, <2>1, <2>2
<1> HIDE DEF grant
<1>12. Suffix'
  <2>00. Len(stamps) \in Nat /\ Len(grants) \in Nat
    BY <1>4
  <2>0. n \in Nat /\ n <= Len(stamps) /\ Len(stamps) <= Len(grants)
    BY <1>0, <1>4 DEF Limiter, Suffix
  <2>1. Len(stamps') <= Len(grants')
    BY <1>4, <1>7, <1>8, <2>0
  <2>2. ASSUME NEW i \in 1..Len(stamps')
        PROVE  stamps'[i] = grants'[Len(grants') - Len(stamps') + i].stamp
    <3>1. Len(grants') - Len(stamps') + i = Len(grants) - (Len(stamps) - n) + i
      BY <1>4, <1>7, <1>8, <2>0
    <3>2. CASE i \in 1..(Len(stamps) - n)
      <4>1. Len(grants) - (Len(stamps) - n) + i \in 1..Len(grants)
        BY <2>00, <2>0, <3>2
      <4> QED
        BY <1>5, <1>7, <1>8, <3>1, <3>2, <4>1
    <3>3. CASE i = Len(stamps) - n + 1
      <4>1. Len(grants) - (Len(stamps) - n) + i = Len(grants) + 1
        BY <1>4, <2>0, <3>3
      <4>2. grants'[Len(grants) + 1].stamp = clock[c]
        BY <1>7 DEF grant
      <4> QED
        BY <1>8, <3>1, <3>3, <4>1, <4>2
    <3> QED
      BY SMTT(20), <1>4, <1>8, <2>0, <3>2, <3>3
  <2> QED
    BY <2>1, <2>2 DEF Suffix
<1>13. Expired'
  <2> SUFFICES ASSUME NEW j \in 1..(Len(grants') - Len(stamps'))
               PROVE  grants'[j].stamp <= time' - Window
    BY DEF Expired
  <2>1. /\ Len(grants') = Len(grants) + 1 /\ Len(stamps') = Len(stamps) - n + 1
        /\ Len(stamps) \in Nat /\ Len(grants) \in Nat
        /\ n \in Nat /\ n <= Len(stamps)
    BY <1>4, <1>7, <1>8
  <2>2. Len(grants') - Len(stamps') = Len(grants) - (Len(stamps) - n)
    BY <2>1
  <2>3. j \in 1..(Len(grants) - (Len(stamps) - n))
    BY <2>2
  <2>4. j \in 1..Len(grants)
    BY <2>1, <2>3
  <2> QED
    BY <1>2, <1>5, <1>7, <2>3, <2>4
<1>14. Spaced'
  <2> SUFFICES ASSUME NEW i \in 1..Len(grants'), i + Capacity <= Len(grants')
               PROVE  grants'[i + Capacity].at - grants'[i].at >= Window - MaxDelay
    BY DEF Spaced
  <2>0. Capacity \in Nat /\ Capacity >= 1 /\ Window \in Nat /\ MaxDelay \in Nat
    BY LimiterAssumption, DelaysAssumption
  <2>1. i \in 1..Len(grants)
    <3>1. /\ Len(grants') = Len(grants) + 1 /\ Len(grants) \in Nat
          /\ i \in Nat /\ i >= 1
      BY <1>4, <1>7
    <3> QED
      BY <2>0, <3>1
  <2>2. CASE i + Capacity <= Len(grants)
    <3>1. i + Capacity \in 1..Len(grants)
      BY <1>4, <2>0, <2>1, <2>2
    <3> QED
      BY <1>0, <1>7, <2>1, <2>2, <3>1 DEF Limiter, Spaced
  <2>3. CASE i + Capacity = Len(grants) + 1
    <3>1. i \in 1..(Len(grants) - (Len(stamps) - n))
      <4>1. /\ Len(stamps) \in Nat /\ Len(grants) \in Nat /\ i \in Nat /\ i >= 1
            /\ n \in Nat /\ n <= Len(stamps) /\ Len(stamps) - n < Capacity
        BY <1>1, <1>4, <2>1
      <4> QED
        BY <2>0, <2>3, <4>1
    <3>2. /\ grants[i].at \in Nat /\ grants[i].stamp \in Nat
          /\ grants[i].at <= grants[i].stamp + MaxDelay
      BY <1>0, <1>4, <2>1, GrantFields DEF Limiter, Stamped
    <3>3. grants[i].stamp <= time - Window
      BY <1>5, <3>1
    <3>4. grants'[i + Capacity].at = time /\ grants'[i].at = grants[i].at
      BY SMTT(20), <1>7, <2>1, <2>3 DEF grant
    <3>5. time - grants[i].at >= Window - MaxDelay
      <4> DEFINE a == grants[i].at
      <4> DEFINE s == grants[i].stamp
      <4>1. time \in Nat /\ a \in Nat /\ s \in Nat /\ a <= s + MaxDelay /\ s <= time - Window
        BY ONLY <1>3, <3>2, <3>3
      <4> HIDE DEF a, s
      <4>2. time - a >= Window - MaxDelay
        BY ONLY <4>1, SpaceArithmetic
      <4> QED
        BY <4>2 DEF a
    <3> QED
      BY ONLY <2>0, <3>4, <3>5
  <2> QED
    <3>1. Len(grants') = Len(grants) + 1 /\ Len(grants) \in Nat /\ i \in Nat
      BY <1>4, <1>7, <2>1
    <3>2. i + Capacity <= Len(grants) \/ i + Capacity = Len(grants) + 1
      BY <2>0, <3>1
    <3> QED
      BY <2>2, <2>3, <3>2
<1> QED
  BY <1>9, <1>10, <1>11, <1>12, <1>13, <1>14 DEF RequestsInv, Limiter

-----------------------------------------------------------------------------
LEMMA NextRequests == RequestsInv /\ [RequestsNext]_requestVars => RequestsInv'
<1> SUFFICES ASSUME RequestsInv, [RequestsNext]_requestVars PROVE RequestsInv'
  OBVIOUS
<1>1. CASE TickTime
  BY <1>1, TickStep
<1>2. ASSUME NEW c \in Callers, CallerStep(c) PROVE RequestsInv'
  <2>1. CASE Call(c)
    BY <2>1, CallStep
  <2>2. CASE ReadClock(c)
    BY <2>2, ReadClockStep
  <2>3. CASE Grant(c)
    BY <2>3, GrantStep
  <2>4. CASE Full(c)
    BY <2>4, FullStep
  <2>5. CASE WakeQueued(c)
    BY <2>5, WakeStep
  <2>6. CASE SleepCancelled(c)
    BY <2>6, EndStep DEF SleepCancelled
  <2>7. CASE Answered(c)
    BY <2>7, EndStep DEF Answered
  <2>8. CASE Transient(c)
    BY <2>8, TransientStep
  <2>9. CASE Retry(c)
    BY <2>9, RetryStep
  <2> QED
    BY <1>2, <2>1, <2>2, <2>3, <2>4, <2>5, <2>6, <2>7, <2>8, <2>9 DEF CallerStep
<1>3. ASSUME NEW c \in Callers, CancelCall(c) PROVE RequestsInv'
  BY <1>3, CancelStep
<1>4. CASE UNCHANGED requestVars
  BY <1>4 DEF requestVars, RequestsInv, RequestsTypeOK, Limiter, Stamped, Suffix, Expired,
     Spaced, CallersOK, ClockFresh, SleepBounded, LateState, Counted
<1> QED
  BY <1>1, <1>2, <1>3, <1>4 DEF RequestsNext

\* RequestsInv holds in every reachable state.
THEOREM RequestsInvariance == RequestsSpec => []RequestsInv
BY InitRequests, NextRequests, PTL DEF RequestsSpec

\* The client and its limiter keep their types, and the limiter never holds more
\* stamps than its capacity (ratelimit.go:43-49).
THEOREM RequestsTyped == RequestsSpec => []RequestsTypeOK
<1>1. RequestsInv => RequestsTypeOK
  BY DEF RequestsInv
<1> QED
  BY <1>1, RequestsInvariance, PTL

\* Any Capacity + 1 requests spread over a window less the delay, for any number of
\* callers and any interleaving of their clock readings (ratelimit.go:9-12).
THEOREM RequestsSpaced == RequestsSpec => []Spaced
<1>1. RequestsInv => Spaced
  BY DEF RequestsInv, Limiter
<1> QED
  BY <1>1, RequestsInvariance, PTL

\* No caller sleeps for a slot longer than a window and the delay.
THEOREM SleepsBounded == RequestsSpec => []SleepBounded
<1>1. RequestsInv => SleepBounded
  BY DEF RequestsInv, CallersOK
<1> QED
  BY <1>1, RequestsInvariance, PTL

\* A cancelled call is allowed at most one more request (client.go:112-132).
THEOREM OneLateRequest == RequestsSpec => []LateOnce
<1>1. RequestsInv => LateOnce
  <2> SUFFICES ASSUME RequestsInv, NEW c \in Callers PROVE late[c] <= 1
    BY DEF LateOnce
  <2>1. late[c] = 0 \/ late[c] = 1
    BY DEF RequestsInv, CallersOK, LateState
  <2> QED
    BY <2>1
<1> QED
  BY <1>1, RequestsInvariance, PTL
=============================================================================
