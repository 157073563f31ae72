------------------------------ MODULE Requests ------------------------------
(***************************************************************************)
(* The GraphQL client (internal/twitch/gql): Client.Do with its retries, and *)
(* the RateLimiter that every copy of the client shares.                    *)
(*                                                                          *)
(* Wait reads the clock before it takes the lock, so that between the two   *)
(* others may be granted a request and time may pass; MaxDelay is how long  *)
(* a goroutine can take there.  An attempt is modelled by its outcome.      *)
(* Time is a number of ticks; stamps and wake-up times are instants.        *)
(***************************************************************************)
EXTENDS Integers, Sequences

CONSTANTS
    Callers,        \* goroutines that issue requests
    Capacity,       \* requests per window   (5 in app.go:337)
    Window,         \* length of the window  (one second)
    MaxDelay,       \* longest time between reading the clock and taking the lock
    MaxAttempts,    \* defaultMaxAttempts
    Backoff,        \* the delay after the nth failure: 2s << (n - 1), at most 30s
    RetryAfters,    \* delays a server may ask for; 0 for none
    MaxTime,        \* bound: time stops there
    MaxGrants       \* bound: calls start only before so many grants

ASSUME LimiterAssumption == Capacity \in Nat \ {0} /\ Window \in Nat \ {0}
ASSUME DelaysAssumption == MaxDelay \in Nat /\ Backoff \in [1..MaxAttempts -> Nat]
ASSUME AttemptsAssumption == MaxAttempts \in Nat \ {0} /\ RetryAfters \subseteq Nat
ASSUME RequestBounds == MaxTime \in Nat /\ MaxGrants \in Nat

VARIABLES
    time,
    stamps,         \* RateLimiter.stamps
    pc,             \* where each caller is
    clock,          \* Wait's local now; 0 when out of use, like the next two
    attempt,        \* Do's local attempt
    wake,           \* when its sleep is over
    cancelled,      \* callers whose context is done
    \* history
    grants,         \* when each request was allowed, and its stamp
    late            \* requests allowed to the present call since its context is done

requestVars == <<time, stamps, pc, clock, attempt, wake, cancelled, grants, late>>

RequestPCs == {"idle", "reading", "locking", "queued", "requesting", "backing"}

-----------------------------------------------------------------------------
(* RateLimiter                                                               *)

\* Variant: the window is over one tick early.
TrimmedEarly(n, at) ==
    /\ \A i \in 1..n : stamps[i] <= at - Window + 1
    /\ n < Len(stamps) => stamps[n + 1] > at - Window + 1

\* trimExpired drops the first n stamps: the longest prefix that has expired.
Trimmed(n, at) ==
    /\ \A i \in 1..n : stamps[i] <= at - Window
    /\ n < Len(stamps) => stamps[n + 1] > at - Window

Kept(n) == SubSeq(stamps, n + 1, Len(stamps))

RequestsInit ==
    /\ time = 0
    /\ stamps = <<>>
    /\ pc = [c \in Callers |-> "idle"]
    /\ clock = [c \in Callers |-> 0]
    /\ attempt = [c \in Callers |-> 0]
    /\ wake = [c \in Callers |-> 0]
    /\ cancelled = {}
    /\ grants = <<>>
    /\ late = [c \in Callers |-> 0]

\* Nobody stays between the clock and the lock for more than MaxDelay.
TickTime ==
    /\ time < MaxTime
    /\ \A c \in Callers : pc[c] = "locking" => time < clock[c] + MaxDelay
    /\ time' = time + 1
    /\ UNCHANGED <<stamps, pc, clock, attempt, wake, cancelled, grants, late>>

Goto(c, where) == pc' = [pc EXCEPT ![c] = where]

ReadClock(c) ==
    /\ pc[c] = "reading"
    /\ clock' = [clock EXCEPT ![c] = time]
    /\ Goto(c, "locking")
    /\ UNCHANGED <<time, stamps, attempt, wake, cancelled, grants, late>>

\* Variant: one request too many.
GrantOneMore(c) ==
    /\ pc[c] = "locking"
    /\ \E n \in 0..Len(stamps) :
          /\ Trimmed(n, clock[c])
          /\ Len(stamps) - n <= Capacity
          /\ stamps' = Append(Kept(n), clock[c])
    /\ grants' = Append(grants, [at |-> time, stamp |-> clock[c]])
    /\ late' = [late EXCEPT ![c] = @ + (IF c \in cancelled THEN 1 ELSE 0)]
    /\ Goto(c, "requesting") /\ clock' = [clock EXCEPT ![c] = 0]
    /\ UNCHANGED <<time, attempt, wake, cancelled>>

\* There is room: the request is allowed, and stamped with the time read before.
\* The context is not looked at.
Grant(c) ==
    /\ pc[c] = "locking"
    /\ \E n \in 0..Len(stamps) :
          /\ Trimmed(n, clock[c])
          /\ Len(stamps) - n < Capacity
          /\ stamps' = Append(Kept(n), clock[c])
    /\ grants' = Append(grants, [at |-> time, stamp |-> clock[c]])
    /\ late' = [late EXCEPT ![c] = @ + (IF c \in cancelled THEN 1 ELSE 0)]
    /\ Goto(c, "requesting") /\ clock' = [clock EXCEPT ![c] = 0]
    /\ UNCHANGED <<time, attempt, wake, cancelled>>

\* Variant: the age of the oldest stamp is not taken off the wait.
FullFromStamp(c) ==
    /\ pc[c] = "locking"
    /\ \E n \in 0..Len(stamps) :
          /\ Trimmed(n, clock[c])
          /\ Len(stamps) - n >= Capacity
          /\ stamps' = Kept(n)
          /\ wake' = [wake EXCEPT ![c] = time + stamps[n + 1] + Window]
    /\ Goto(c, "queued") /\ clock' = [clock EXCEPT ![c] = 0]
    /\ UNCHANGED <<time, attempt, cancelled, grants, late>>

\* There is none: sleep until the oldest stamp expires.
Full(c) ==
    /\ pc[c] = "locking"
    /\ \E n \in 0..Len(stamps) :
          /\ Trimmed(n, clock[c])
          /\ Len(stamps) - n >= Capacity
          /\ stamps' = Kept(n)
          /\ wake' = [wake EXCEPT ![c] = time + stamps[n + 1] + Window - clock[c]]
    /\ Goto(c, "queued") /\ clock' = [clock EXCEPT ![c] = 0]
    /\ UNCHANGED <<time, attempt, cancelled, grants, late>>

\* The sleep is over; the caller competes again.
WakeQueued(c) ==
    /\ pc[c] = "queued" /\ time >= wake[c]
    /\ Goto(c, "reading") /\ wake' = [wake EXCEPT ![c] = 0]
    /\ UNCHANGED <<time, stamps, clock, attempt, cancelled, grants, late>>

-----------------------------------------------------------------------------
(* Client.Do                                                                 *)

Call(c) ==
    /\ pc[c] = "idle" /\ Len(grants) < MaxGrants
    /\ attempt' = [attempt EXCEPT ![c] = 1]
    /\ late' = [late EXCEPT ![c] = 0]
    /\ Goto(c, "reading")
    /\ UNCHANGED <<time, stamps, clock, wake, cancelled, grants>>

\* The context of a caller is cancelled, at any moment.
CancelCall(c) ==
    /\ c \notin cancelled
    /\ cancelled' = cancelled \cup {c}
    /\ UNCHANGED <<time, stamps, pc, clock, attempt, wake, grants, late>>

End(c) ==
    /\ Goto(c, "idle")
    /\ attempt' = [attempt EXCEPT ![c] = 0] /\ wake' = [wake EXCEPT ![c] = 0]
    /\ UNCHANGED <<time, stamps, clock, cancelled, grants, late>>

\* A sleep of Wait or Do is cut short by the context.
SleepCancelled(c) ==
    /\ pc[c] \in {"queued", "backing"} /\ c \in cancelled
    /\ End(c)

\* The attempt succeeds or its error is permanent, or it was the last one.
Answered(c) ==
    /\ pc[c] = "requesting"
    /\ End(c)

Greater(a, b) == IF a >= b THEN a ELSE b

\* Variant: the context is not looked at after a failure.
TransientBlindly(c) ==
    /\ pc[c] = "requesting"
    /\ attempt[c] < MaxAttempts
    /\ \E r \in RetryAfters :
          wake' = [wake EXCEPT ![c] = time + Greater(Backoff[attempt[c]], r)]
    /\ Goto(c, "backing")
    /\ UNCHANGED <<time, stamps, clock, attempt, cancelled, grants, late>>

\* A transient failure, with attempts left and the context not done.
Transient(c) ==
    /\ pc[c] = "requesting"
    /\ attempt[c] < MaxAttempts /\ c \notin cancelled
    /\ \E r \in RetryAfters :
          wake' = [wake EXCEPT ![c] = time + Greater(Backoff[attempt[c]], r)]
    /\ Goto(c, "backing")
    /\ UNCHANGED <<time, stamps, clock, attempt, cancelled, grants, late>>

Retry(c) ==
    /\ pc[c] = "backing" /\ time >= wake[c]
    /\ attempt' = [attempt EXCEPT ![c] = @ + 1]
    /\ Goto(c, "reading") /\ wake' = [wake EXCEPT ![c] = 0]
    /\ UNCHANGED <<time, stamps, clock, cancelled, grants, late>>

CallerStep(c) ==
    \/ Call(c) \/ ReadClock(c) \/ Grant(c) \/ Full(c) \/ WakeQueued(c)
    \/ SleepCancelled(c) \/ Answered(c) \/ Transient(c) \/ Retry(c)

RequestsNext ==
    \/ TickTime
    \/ \E c \in Callers : CallerStep(c) \/ CancelCall(c)

RequestsSpec == RequestsInit /\ [][RequestsNext]_requestVars

-----------------------------------------------------------------------------
(* Properties                                                                *)

\* Every variable holds a value of its type; the limiter never holds more stamps
\* than it allows requests.
RequestsTypeOK ==
    /\ time \in Nat
    /\ stamps \in Seq(Nat) /\ Len(stamps) <= Capacity
    /\ pc \in [Callers -> RequestPCs]
    /\ clock \in [Callers -> Nat]
    /\ attempt \in [Callers -> 0..MaxAttempts]
    /\ wake \in [Callers -> Int]
    /\ cancelled \subseteq Callers
    /\ grants \in Seq([at : Nat, stamp : Nat])
    /\ late \in [Callers -> Nat]

\* Any Capacity + 1 requests of the whole process spread over a window, less the
\* time a goroutine may lose between the clock and the lock, however stamps of
\* several callers get out of order (ratelimit.go:9-12, 41-49).
Spaced ==
    \A i \in 1..Len(grants) :
        i + Capacity <= Len(grants) =>
            grants[i + Capacity].at - grants[i].at >= Window - MaxDelay

\* Nobody sleeps for a slot much longer than a window, however late its clock.
SleepBounded ==
    \A c \in Callers :
        pc[c] = "queued" => wake[c] - time <= Window + MaxDelay

\* After its context is done a call is allowed at most one more request, wherever
\* the cancellation finds it: Wait grants without looking at the context, and a
\* sleep that ends together with it may go either way (client.go:112-132).
LateOnce == \A c \in Callers : late[c] <= 1
=============================================================================
