------------------------------ MODULE Notifier ------------------------------
(***************************************************************************)
(* The Discord webhook (notify/discord.go:68-140).  Each message is sent from *)
(* a goroutine of its own (app.go:521-525, 571-575, 1157-1161) that holds the *)
(* mutex from the wait for its turn to the last answer: it waits until        *)
(* Spacing after the last answer, calls, and after the answer "too many       *)
(* requests" waits as long as that says and calls once more.                 *)
(*                                                                          *)
(* Time is the time left of a sleep and the time since an instant; a call     *)
(* takes as long as the service likes.                                       *)
(***************************************************************************)
EXTENDS Integers

CONSTANTS
    Senders,        \* goroutines; bound: how many messages wait at a time
    Unlocked,
    Spacing,        \* the second between calls
    RetryDelays,    \* what Retry-After may say; 0 where it says nothing usable
    MaxDelay,       \* the longest of them that is obeyed
    DefaultDelay    \* the delay instead of any other

ASSUME NotifierAssumption ==
    /\ Unlocked \notin Senders
    /\ Spacing \in Nat \ {0}
    /\ RetryDelays \subseteq Nat
    /\ MaxDelay \in Nat /\ DefaultDelay \in 1..MaxDelay

VARIABLES
    pc,             \* where each goroutine is
    mu,             \* who holds the mutex
    sleep,          \* time left of each one's sleep
    attempt,
    lastSend,       \* time since lastSend, no further than Spacing
    \* history
    lastCall,       \* time since a call was last begun, no further than Spacing
    unanswered,     \* that call failed, or was not answered in time
    hold            \* time left of the delay after a refusal

sending == <<pc, sleep, attempt>>
callHistory == <<lastCall, unanswered, hold>>
notifierVars == <<sending, mu, lastSend, callHistory>>

-----------------------------------------------------------------------------
NotifierInit ==
    /\ pc = [x \in Senders |-> "none"] /\ mu = Unlocked
    /\ sleep = [x \in Senders |-> 0] /\ attempt = [x \in Senders |-> 0]
    /\ lastSend = Spacing       \* the zero time is long ago
    /\ lastCall = Spacing /\ unanswered = FALSE /\ hold = 0

Less(n) == IF n > 0 THEN n - 1 ELSE 0
Older(n) == IF n < Spacing THEN n + 1 ELSE n

TimePasses ==
    /\ sleep' = [x \in Senders |-> Less(sleep[x])]
    /\ lastSend' = Older(lastSend) /\ lastCall' = Older(lastCall) /\ hold' = Less(hold)
    /\ UNCHANGED <<pc, attempt, mu, unanswered>>

\* A campaign is announced, a drop was claimed, or minutes are no longer credited.
Notify(x) ==
    /\ pc[x] = "none" /\ pc' = [pc EXCEPT ![x] = "waiting"]
    /\ UNCHANGED <<sleep, attempt, mu, lastSend, callHistory>>

StartsSend(x) ==
    /\ pc[x] = "waiting"
    /\ pc' = [pc EXCEPT ![x] = "sleeping"]
    /\ sleep' = [sleep EXCEPT ![x] = Spacing - lastSend]
    /\ attempt' = [attempt EXCEPT ![x] = 0]
    /\ UNCHANGED <<lastSend, callHistory>>

\* Variant: the mutex only guards lastSend.
BeginUnlocked(x) ==
    /\ StartsSend(x) /\ UNCHANGED mu

\* Send locks the mutex and looks how long ago the last answer was.
BeginSend(x) ==
    /\ mu = Unlocked /\ mu' = x
    /\ StartsSend(x)

Call(x) ==
    /\ pc[x] = "sleeping" /\ sleep[x] = 0
    /\ pc' = [pc EXCEPT ![x] = "calling"]
    /\ lastCall' = 0 /\ unanswered' = FALSE
    /\ UNCHANGED <<sleep, attempt, mu, lastSend, hold>>

Return(x) ==
    /\ pc' = [pc EXCEPT ![x] = "none"] /\ mu' = Unlocked

\* The call fails: lastSend stays what it was.
CallFails(x) ==
    /\ pc[x] = "calling" /\ Return(x)
    /\ unanswered' = TRUE
    /\ UNCHANGED <<sleep, attempt, lastSend, lastCall, hold>>

\* The answer, of whatever kind, ends the matter.
Answered(x) ==
    /\ pc[x] = "calling" /\ Return(x)
    /\ lastSend' = 0
    /\ UNCHANGED <<sleep, attempt, callHistory>>

\* The delay after a refusal: what the service named, unless it is too long.
RetryDelay(named) == IF named \in 1..MaxDelay THEN named ELSE DefaultDelay

\* Too many requests, for the first time.
Refused(x) ==
    /\ pc[x] = "calling" /\ attempt[x] = 0
    /\ lastSend' = 0
    /\ \E named \in RetryDelays :
          sleep' = [sleep EXCEPT ![x] = RetryDelay(named)] /\ hold' = RetryDelay(named)
    /\ attempt' = [attempt EXCEPT ![x] = 1]
    /\ pc' = [pc EXCEPT ![x] = "sleeping"]
    /\ UNCHANGED <<mu, lastCall, unanswered>>

-----------------------------------------------------------------------------
NotifierNext ==
    \/ TimePasses
    \/ \E x \in Senders :
          Notify(x) \/ BeginSend(x) \/ Call(x) \/ CallFails(x) \/ Answered(x) \/ Refused(x)

NotifierSpec == NotifierInit /\ [][NotifierNext]_notifierVars

-----------------------------------------------------------------------------
(* Properties                                                                *)

\* Every variable keeps its type.
NotifierTypeOK ==
    /\ pc \in [Senders -> {"none", "waiting", "sleeping", "calling"}]
    /\ mu \in Senders \cup {Unlocked}
    /\ sleep \in [Senders -> 0..(IF Spacing > MaxDelay THEN Spacing ELSE MaxDelay)]
    /\ attempt \in [Senders -> {0, 1}]
    /\ {lastSend, lastCall} \subseteq 0..Spacing
    /\ unanswered \in BOOLEAN /\ hold \in 0..MaxDelay

Calls(x) == pc[x] # "calling" /\ pc'[x] = "calling"

\* Two calls are begun at least Spacing apart, and none before the delay is over that
\* follows a refused first attempt (the one the service named, or the default where
\* that is too long), whoever sends; except that nothing holds back the call after one
\* that went unanswered, and only that delay the second attempt (discord.go:73-139).
CallsSpaced ==
    [][ \A x \in Senders : Calls(x) =>
          /\ hold = 0
          /\ lastCall = Spacing \/ unanswered \/ attempt[x] = 1 ]_notifierVars
=============================================================================
