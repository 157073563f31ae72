----------------------------- MODULE CreditWatch -----------------------------
(***************************************************************************)
(* The watchdog over the credit (checkWatchCreditWatchdog, app.go:1054-1162): *)
(* each inventory poll tells whether the service still credits minutes; when  *)
(* it has not for Threshold, although a drop streamer is being watched, the   *)
(* user is warned once and the auxiliary watch is switched off.               *)
(*                                                                          *)
(* A poll asks the service and looks at the answer later; in between, as      *)
(* between two polls, minutes are credited, drops are claimed, enter and      *)
(* leave the inventory, and the engine turns to other streamers.              *)
(***************************************************************************)
EXTENDS DropProgress

CONSTANT
    Threshold       \* watchCreditStallThreshold

ASSUME CreditAssumption == Threshold \in Nat \ {0}

VARIABLES
    \* the engine and the lists
    watching,       \* activeDropStreamer finds one
    \* the poll
    asked,          \* the request is under way
    answer,         \* the drops it will bring, with their minutes
    \* App
    known,          \* watchCreditProgress
    baseline,       \* it is not nil
    age,            \* time since lastWatchCreditAt, no further than Threshold
    alerted,        \* watchCreditAlerted
    disabled,       \* auxiliaryWatchDisabled, as this watchdog set it
    \* history, ages no further than Threshold
    creditAge,      \* time since a minute of each drop was credited
    unseen,         \* drops that were credited or entered the inventory since the
                    \* service was asked, or that its answer leaves out
    idleAge,        \* time since a poll last found nobody watched
    quiet           \* since the last warning no drop was unseen and no poll found
                    \* nobody watched

poll == <<asked, answer>>
watchdog == <<known, baseline, age, alerted, disabled>>
creditHistory == <<creditAge, unseen, idleAge, quiet>>
creditVars == <<inventory, watching, poll, watchdog, creditHistory>>

Empty == [d \in {} |-> 0]

-----------------------------------------------------------------------------
CreditInit ==
    /\ InventoryInit
    /\ watching = FALSE
    /\ asked = FALSE /\ answer = Empty
    /\ known = Empty /\ baseline = FALSE
    /\ age = Threshold      \* the zero time is long ago
    /\ alerted = FALSE /\ disabled = FALSE
    /\ creditAge = [d \in Drops |-> Threshold]
    /\ unseen = {} /\ idleAge = Threshold /\ quiet = FALSE

Credit(d) ==
    /\ MinuteCredited(d)
    /\ creditAge' = [creditAge EXCEPT ![d] = 0]
    /\ unseen' = unseen \cup {d} /\ quiet' = FALSE
    /\ UNCHANGED <<watching, poll, watchdog, idleAge>>

Enter(d) ==
    /\ DropEnters(d)
    /\ unseen' = unseen \cup {d} /\ quiet' = FALSE
    /\ UNCHANGED <<watching, poll, watchdog, creditAge, idleAge>>

Withdraw(d) ==
    /\ DropLeaves(d)
    /\ UNCHANGED <<watching, poll, watchdog, creditHistory>>

Reschedule ==
    /\ watching' = ~watching
    /\ UNCHANGED <<inventory, poll, watchdog, creditHistory>>

Aged(n) == IF n < Threshold THEN n + 1 ELSE n

ClockAdvances ==
    /\ age' = Aged(age) /\ idleAge' = Aged(idleAge)
    /\ creditAge' = [d \in Drops |-> Aged(creditAge[d])]
    /\ UNCHANGED <<inventory, watching, poll, known, baseline, alerted, disabled,
                   unseen, quiet>>

-----------------------------------------------------------------------------
\* GetInventory is called and answered by the service; without a user, with nothing.
Ask ==
    /\ ~asked /\ asked' = TRUE
    /\ \/ answer' = [d \in shown |-> minutes[d]] /\ unseen' = {} /\ quiet' = quiet
       \/ answer' = Empty /\ unseen' = shown /\ quiet' = (quiet /\ shown = {})
    /\ UNCHANGED <<inventory, watching, watchdog, creditAge, idleAge>>

\* The answer is lost, or the request fails.
Fail ==
    /\ asked /\ asked' = FALSE /\ answer' = Empty
    /\ UNCHANGED <<inventory, watching, watchdog, creditHistory>>

\* Variant: only a drop that was tracked before can show credit.
UnchangedIfTracked ==
    \A d \in DOMAIN answer \cap DOMAIN known : answer[d] <= known[d]

\* No drop in the answer has more minutes than before, or is new in the inventory.
Unchanged == \A d \in DOMAIN answer : d \in DOMAIN known /\ answer[d] <= known[d]

\* The first poll only sets the baseline.
Credited == ~(baseline /\ Unchanged)

Look ==
    /\ asked /\ asked' = FALSE /\ answer' = Empty
    /\ known' = answer /\ baseline' = TRUE
    /\ idleAge' = IF watching THEN idleAge ELSE 0
    /\ UNCHANGED <<inventory, watching, creditAge, unseen>>

LookContent ==
    /\ Look
    /\ Credited \/ ~watching
    /\ age' = 0 /\ alerted' = FALSE
    /\ quiet' = (quiet /\ watching)
    /\ UNCHANGED disabled

LookPatient ==
    /\ Look
    /\ ~Credited /\ watching
    /\ age < Threshold
    /\ UNCHANGED <<age, alerted, disabled, quiet>>

\* The auxiliary watch is switched off every time; the user is warned the first.
LookAlarmed ==
    /\ Look
    /\ ~Credited /\ watching
    /\ age >= Threshold
    /\ alerted' = TRUE /\ disabled' = TRUE
    /\ quiet' = IF alerted THEN quiet ELSE unseen = {}
    /\ UNCHANGED age

-----------------------------------------------------------------------------
CreditNext ==
    \/ \E d \in Drops : Credit(d) \/ Enter(d) \/ Withdraw(d)
    \/ Reschedule \/ ClockAdvances
    \/ Ask \/ Fail \/ LookContent \/ LookPatient \/ LookAlarmed

CreditSpec == CreditInit /\ [][CreditNext]_creditVars

-----------------------------------------------------------------------------
(* Properties                                                                *)

\* Every variable keeps its type.
CreditTypeOK ==
    /\ InventoryTypeOK
    /\ {watching, asked, baseline, alerted, disabled, quiet} \subseteq BOOLEAN
    /\ DOMAIN answer \subseteq Drops /\ \A d \in DOMAIN answer : answer[d] \in Nat
    /\ DOMAIN known \subseteq Drops /\ \A d \in DOMAIN known : known[d] \in Nat
    /\ {age, idleAge} \subseteq 0..Threshold
    /\ creditAge \in [Drops -> 0..Threshold] /\ unseen \subseteq Drops

Warned == alerted' /\ ~alerted

\* The user is warned only if, for a whole Threshold, no drop in the answer was
\* credited a minute the service could have told of, and no poll found nobody watched;
\* and not a second time before a minute is credited, a drop enters the inventory or is
\* left out of an answer, or a poll finds nobody watched (app.go:1086-1119).
NoFalseAlarm ==
    [][ Warned =>
          /\ \A d \in DOMAIN answer \ unseen : creditAge[d] = Threshold
          /\ idleAge = Threshold
          /\ ~quiet ]_creditVars
=============================================================================
