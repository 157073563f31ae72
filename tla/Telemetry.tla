------------------------------ MODULE Telemetry ------------------------------
(***************************************************************************)
(* The watch telemetry (internal/app/app.go): one goroutine that reports, at *)
(* every tick, the minutes watched of the primary streamer, and in between   *)
(* the presence on an auxiliary one; and the drops goroutine, which may      *)
(* switch the auxiliary watch off while a request of it is in flight.        *)
(*                                                                          *)
(* The engine, the list of active games and the static streamers change     *)
(* under the goroutine, so that each tick finds what it finds.  A session is *)
(* a streamer with its broadcast and game.  Instants are kept as the time    *)
(* left to them; what is due stays at 0.                                    *)
(***************************************************************************)
EXTENDS Integers

CONSTANTS
    Statics,        \* the configured streamers
    Position,       \* their places in the configuration
    Sessions,       \* what streamers may be doing
    Owner,          \* the streamer of a session
    GameOf,         \* its game
    Games,
    None,           \* no session
    Tick,           \* watchTelemetryTick
    PulseTimes,     \* intervals between reports
    AuxTimes,       \* intervals between presences
    Offset,         \* auxiliaryPulseOffset
    Margin,         \* primaryPulseSafetyMargin
    MinWindow,      \* minimumAuxiliaryWindow
    Lease,          \* AuxiliaryLeaseMinutes
    Pulses,         \* primaryPulsesBeforeAux
    MaxFailures,    \* maxAuxiliaryFailures
    Backoff         \* auxiliaryFailureBackoff

ASSUME SessionAssumption ==
    /\ GameOf \in [Sessions -> Games] /\ None \notin Sessions
    /\ Position \in [Statics -> Nat]
ASSUME TimesAssumption ==
    /\ PulseTimes \subseteq Nat \ {0} /\ AuxTimes \subseteq Nat
    /\ {Tick, Lease, Pulses, MaxFailures} \subseteq Nat \ {0}
    /\ {Offset, Margin, MinWindow, Backoff} \subseteq Nat

VARIABLES
    \* what the goroutine reads
    streams,        \* the session of each static streamer, or None
    activeGames,
    \* watchTelemetryState
    session,        \* primarySession
    pulses,         \* primarySuccessfulPulses, no further than Pulses
    pulseIn,        \* time to nextPrimaryPulse
    aux,            \* auxiliaryLogin and auxiliarySession; None when paused
    auxAge,         \* time since auxiliaryLeaseStarted
    auxIn,          \* time to nextAuxiliaryPulse
    failures,       \* auxiliaryFailures
    since,          \* lastAuxiliaryWatch: whose watch ended after each one's
    backoff,        \* time left of each auxiliaryBackoff
    \* the goroutine and its ticker
    pc,
    spent,          \* time since the tick it works on, no further than Horizon
    ticked,         \* a tick waits in the channel
    tickIn,
    \* guarded by watchCreditMu
    disabled,       \* auxiliaryWatchDisabled
    cancelSet,      \* auxiliaryWatchCancel is not nil
    \* the request's context, and the drops goroutine
    cancelled,
    taken,          \* a cancel function taken by disableAuxiliaryWatch, not called yet
    \* history
    late,           \* how long a report is overdue with no report in flight
    passed          \* selections of one streamer while another could have been

primaryVars == <<session, pulses, pulseIn>>
auxVars == <<aux, auxAge, auxIn, failures, since, backoff>>
tickVars == <<pc, spent, ticked, tickIn>>
switchVars == <<disabled, cancelSet, cancelled, taken>>
worldVars == <<streams, activeGames>>
telemetryVars ==
    <<worldVars, primaryVars, auxVars, tickVars, switchVars, late, passed>>

TelemetryPCs == {"waiting", "pulsing", "beginning", "present"}

MaxOf(S) == CHOOSE m \in S : \A n \in S : n <= m
Larger(a, b) == IF a >= b THEN a ELSE b
Left(n) == IF n = 0 THEN 0 ELSE n - 1
Horizon == Offset + MaxOf(PulseTimes)
LateCap == 2 * Tick

TelemetryInit ==
    /\ streams = [s \in Statics |-> None]
    /\ activeGames = {}
    /\ session = None /\ pulses = 0 /\ pulseIn = 0
    /\ aux = None /\ auxAge = 0 /\ auxIn = 0 /\ failures = 0
    /\ since = [s \in Statics |-> {}]
    /\ backoff = [s \in Statics |-> 0]
    /\ pc = "waiting" /\ spent = 0 /\ ticked = TRUE /\ tickIn = Tick
    /\ disabled = FALSE /\ cancelSet = FALSE /\ cancelled = FALSE /\ taken = FALSE
    /\ late = 0
    /\ passed = [s \in Statics |-> [t \in Statics |-> 0]]

-----------------------------------------------------------------------------
(* The world                                                                 *)

\* A static streamer goes on or off the air or starts another broadcast or game.
StreamChanges ==
    /\ \E s \in Statics : \E x \in {y \in Sessions : Owner[y] = s} \cup {None} :
          streams' = [streams EXCEPT ![s] = x]
    /\ UNCHANGED <<activeGames, primaryVars, auxVars, tickVars, switchVars, late, passed>>

GamesChange ==
    /\ \E games \in SUBSET Games : activeGames' = games
    /\ UNCHANGED <<streams, primaryVars, auxVars, tickVars, switchVars, late, passed>>

\* activeDropStreamer: the engine may watch anyone live in an active game.
Primaries ==
    {x \in Sessions : /\ GameOf[x] \in activeGames
                      /\ Owner[x] \in Statics => streams[Owner[x]] = x} \cup {None}

\* Variant: the request is given no deadline.
NoDeadline == FALSE

\* The context of a presence request ends it before the next report.
DeadlinePassed == pc = "present" /\ pulseIn <= Margin

\* The goroutine takes a tick at once; only a request takes time.
TimePasses ==
    /\ pc \in {"pulsing", "present"} \/ (pc = "waiting" /\ ~ticked)
    /\ ~DeadlinePassed
    /\ tickIn' = IF tickIn = 1 THEN Tick ELSE tickIn - 1
    /\ ticked' = (ticked \/ tickIn = 1)
    /\ pulseIn' = Left(pulseIn)
    /\ auxIn' = Left(auxIn)
    /\ auxAge' = IF aux = None \/ auxAge = Lease THEN auxAge ELSE auxAge + 1
    /\ backoff' = [s \in Statics |-> Left(backoff[s])]
    /\ spent' = IF pc = "waiting" \/ spent = Horizon THEN spent ELSE spent + 1
    /\ late' = IF session # None /\ pulseIn = 0 /\ pc # "pulsing" /\ late < LateCap
               THEN late + 1
               ELSE late
    /\ UNCHANGED <<worldVars, session, pulses, aux, failures, since, pc, switchVars, passed>>

-----------------------------------------------------------------------------
(* processWatchTelemetry up to its request, for the primary p                *)

Wakes(p) ==
    /\ pc = "waiting" /\ ticked /\ p \in Primaries
    /\ ticked' = FALSE
    /\ UNCHANGED <<worldVars, tickIn, backoff, switchVars>>

\* Variant: the end of a watch is not recorded.
EndForgotten == since

\* lastAuxiliaryWatch once the present watch has ended.
SinceEnd ==
    IF aux = None
    THEN since
    ELSE [t \in Statics |-> IF t = Owner[aux] THEN {} ELSE since[t] \cup {Owner[aux]}]

\* pauseAuxiliaryWatch
Pause ==
    /\ aux' = None /\ auxAge' = 0 /\ auxIn' = 0 /\ failures' = 0
    /\ since' = SinceEnd

KeepAux == UNCHANGED <<aux, auxAge, auxIn, failures, since>>

\* A new primary, or its next report is due.
Pulse(p) ==
    /\ Wakes(p)
    /\ p # None /\ (p # session \/ pulseIn = 0)
    /\ session' = p
    /\ pulses' = IF p = session THEN pulses ELSE 0
    /\ pulseIn' \in PulseTimes
    /\ IF p = session THEN KeepAux ELSE Pause
    /\ pc' = "pulsing" /\ spent' = 0 /\ late' = 0
    /\ UNCHANGED passed

\* Nobody to report, too few reports, or switched off.
NotSafe(p) ==
    /\ Wakes(p)
    /\ p = None \/ (p = session /\ pulseIn > 0 /\ (disabled \/ pulses < Pulses))
    /\ session' = p
    /\ IF p = session
       THEN UNCHANGED <<pulses, pulseIn, late>>
       ELSE pulses' = 0 /\ pulseIn' = 0 /\ late' = 0
    /\ Pause
    /\ UNCHANGED <<pc, spent, passed>>

Safe(p) ==
    /\ Wakes(p)
    /\ p # None /\ p = session /\ pulseIn > 0 /\ ~disabled /\ pulses = Pulses
    /\ UNCHANGED <<primaryVars, spent, late>>

\* The auxiliary streamer is still live as it was selected, within its lease.
Kept(p) ==
    /\ aux # None
    /\ streams[Owner[aux]] = aux /\ Owner[aux] # Owner[p]
    /\ auxAge < Lease

Candidates(p) ==
    {s \in Statics : /\ streams[s] # None /\ GameOf[streams[s]] \notin activeGames
                     /\ s # Owner[p] /\ backoff[s] = 0}

\* s was watched less recently than t; of two never watched, the first configured.
Precedes(s, t) ==
    \/ t \in SinceEnd[s]
    \/ s \notin SinceEnd[t] /\ Position[s] < Position[t]

\* selectAuxiliaryStreamer, if there is anybody.
Select(p) ==
    /\ Safe(p) /\ ~Kept(p)
    /\ IF Candidates(p) = {}
       THEN Pause /\ UNCHANGED passed
       ELSE \E s \in Candidates(p) :
               /\ \A t \in Candidates(p) \ {s} : Precedes(s, t)
               /\ aux' = streams[s] /\ auxAge' = 0 /\ auxIn' = Offset /\ failures' = 0
               /\ since' = SinceEnd
               /\ passed' = [t \in Statics |-> [u \in Statics |->
                                IF u = s THEN 0
                                ELSE IF t = s /\ u \in Candidates(p) /\ passed[t][u] < 2
                                THEN passed[t][u] + 1
                                ELSE passed[t][u]]]
    /\ UNCHANGED pc

Room == pulseIn >= Margin + MinWindow

\* Its presence is not due, or the next report is too near.
Rest(p) ==
    /\ Safe(p) /\ Kept(p)
    /\ auxIn > 0 \/ ~Room
    /\ KeepAux
    /\ UNCHANGED <<pc, passed>>

Choose(p) ==
    /\ Safe(p) /\ Kept(p)
    /\ auxIn = 0 /\ Room
    /\ pc' = "beginning"
    /\ KeepAux
    /\ UNCHANGED passed

-----------------------------------------------------------------------------
(* Its requests                                                              *)

Returns ==
    /\ pc' = "waiting" /\ spent' = 0
    /\ UNCHANGED <<worldVars, session, pulseIn, ticked, tickIn, disabled, taken,
                   late, passed>>

\* The presence is put off from the time of the tick, not of the answer.
PulseSent ==
    /\ pc = "pulsing"
    /\ pulses' = IF pulses < Pulses THEN pulses + 1 ELSE Pulses
    /\ auxIn' = IF aux # None /\ Offset > spent THEN Larger(auxIn, Offset - spent) ELSE auxIn
    /\ Returns
    /\ UNCHANGED <<aux, auxAge, failures, since, backoff, cancelSet, cancelled>>

\* Variant: the auxiliary watch goes on.
PulseFailedAlone ==
    /\ pc = "pulsing"
    /\ pulses' = 0
    /\ Returns
    /\ UNCHANGED <<auxVars, cancelSet, cancelled>>

PulseFailed ==
    /\ pc = "pulsing"
    /\ pulses' = 0
    /\ Pause
    /\ Returns
    /\ UNCHANGED <<backoff, cancelSet, cancelled>>

\* Variant: the switch is not looked at again.
BeginUnchecked ==
    /\ pc = "beginning"
    /\ pc' = "present" /\ auxIn' \in AuxTimes
    /\ cancelSet' = TRUE /\ cancelled' = FALSE /\ spent' = 0
    /\ UNCHANGED <<worldVars, primaryVars, aux, auxAge, failures, since, backoff,
                   ticked, tickIn, disabled, taken, late, passed>>

\* beginAuxiliaryRequest, under the mutex.
Begin ==
    /\ pc = "beginning"
    /\ IF disabled
       THEN pc' = "waiting" /\ Pause /\ UNCHANGED <<cancelSet, cancelled>>
       ELSE /\ pc' = "present" /\ auxIn' \in AuxTimes
            /\ cancelSet' = TRUE /\ cancelled' = FALSE
            /\ UNCHANGED <<aux, auxAge, failures, since>>
    /\ spent' = 0
    /\ UNCHANGED <<worldVars, primaryVars, backoff, ticked, tickIn, disabled, taken,
                   late, passed>>

\* The request ends, by itself or by its context, and finishRequest runs.
Finish ==
    /\ pc = "present"
    /\ cancelSet' = FALSE /\ cancelled' = FALSE
    /\ Returns
    /\ UNCHANGED pulses

PresenceSent ==
    /\ Finish
    /\ failures' = 0
    /\ UNCHANGED <<aux, auxAge, auxIn, since, backoff>>

\* Variant: one failure too many is borne.
PresenceFailedOnceMore ==
    /\ Finish
    /\ IF failures < MaxFailures
       THEN failures' = failures + 1 /\ UNCHANGED <<aux, auxAge, auxIn, since, backoff>>
       ELSE /\ backoff' = [backoff EXCEPT ![Owner[aux]] =
                              IF Backoff > spent THEN Backoff - spent ELSE 0]
            /\ Pause

PresenceFailed ==
    /\ Finish
    /\ IF failures + 1 < MaxFailures
       THEN failures' = failures + 1 /\ UNCHANGED <<aux, auxAge, auxIn, since, backoff>>
       ELSE /\ backoff' = [backoff EXCEPT ![Owner[aux]] =
                              IF Backoff > spent THEN Backoff - spent ELSE 0]
            /\ Pause

-----------------------------------------------------------------------------
(* The drops goroutine                                                       *)

Switched(cancels) ==
    /\ disabled' = TRUE /\ cancelSet' = FALSE
    /\ cancelled' = (cancelled \/ cancels)
    /\ UNCHANGED <<worldVars, primaryVars, auxVars, tickVars, late, passed>>

\* disableAuxiliaryWatch when a streamer stalls: the cancel function is taken
\* under the mutex and called after it.
TakeCancel == ~taken /\ taken' = cancelSet /\ Switched(FALSE)

\* The function ends the request it was made for, if that is still in flight.
CallCancel == taken /\ taken' = FALSE /\ Switched(pc = "present")

\* checkWatchCreditWatchdog finds that nothing was credited for too long.
Watchdog == ~taken /\ UNCHANGED taken /\ Switched(cancelSet)

TelemetryNext ==
    \/ StreamChanges \/ GamesChange \/ TimePasses
    \/ \E p \in Sessions \cup {None} :
          Pulse(p) \/ NotSafe(p) \/ Select(p) \/ Rest(p) \/ Choose(p)
    \/ PulseSent \/ PulseFailed \/ Begin \/ PresenceSent \/ PresenceFailed
    \/ TakeCancel \/ CallCancel \/ Watchdog

TelemetrySpec == TelemetryInit /\ [][TelemetryNext]_telemetryVars

-----------------------------------------------------------------------------
(* Properties                                                                *)

\* Every variable holds a value of its type.
TelemetryTypeOK ==
    /\ streams \in [Statics -> Sessions \cup {None}]
    /\ activeGames \subseteq Games
    /\ session \in Sessions \cup {None} /\ aux \in Sessions \cup {None}
    /\ pulses \in 0..Pulses /\ failures \in 0..(MaxFailures - 1)
    /\ {pulseIn, auxIn, auxAge, spent, tickIn, late} \subseteq Nat
    /\ since \in [Statics -> SUBSET Statics]
    /\ backoff \in [Statics -> Nat]
    /\ pc \in TelemetryPCs
    /\ {ticked, disabled, cancelSet, cancelled, taken} \subseteq BOOLEAN
    /\ passed \in [Statics -> [Statics -> 0..2]]

\* Somebody is watched on the side only while the reports of the primary are well
\* received, is a configured streamer other than the primary, and is not one whose
\* presence kept failing (app.go:1567-1674).
AuxiliaryBehindPrimary ==
    aux # None =>
        /\ session # None /\ pulses = Pulses
        /\ Owner[aux] \in Statics \ {Owner[session]}
        /\ backoff[Owner[aux]] = 0

\* Once the auxiliary watch is switched off no presence request is in flight that
\* was not cancelled, or is about to be, wherever the switch found the goroutine
\* (app.go:1766-1797, 1117-1123).
NoPresenceOnceDisabled ==
    disabled /\ pc = "present" => cancelled \/ taken

\* A report of the primary goes out before another tick is over, whatever the
\* presence requests and the ticks they miss (app.go:1642-1646).
ReportOnTime == late < Tick

\* Nobody is selected twice while another who could have been waits: the choice is
\* the least recently watched (app.go:1719-1758).
NobodyPassedOver == \A s, t \in Statics : passed[s][t] <= 1
=============================================================================
