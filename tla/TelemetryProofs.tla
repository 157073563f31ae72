-------------------------- MODULE TelemetryProofs --------------------------
(* Theorems about Telemetry, for any streamers, sessions, games and times.   *)
EXTENDS Telemetry, TLAPS

\* A static streamer is only in sessions of its own.
StreamsOwned == \A s \in Statics : streams[s] # None => Owner[streams[s]] = s

\* The request in flight can be reached by whoever switches off: its cancel
\* function is set until the switch is thrown.  It is taken only with the switch.
SwitchHeld ==
    /\ pc = "present" /\ ~disabled => cancelSet
    /\ taken => disabled

TelemetryInv ==
    /\ TelemetryTypeOK
    /\ tickIn # 0
    /\ StreamsOwned
    /\ AuxiliaryBehindPrimary
    /\ SwitchHeld
    /\ NoPresenceOnceDisabled

-----------------------------------------------------------------------------
LEMMA InitTelemetry == TelemetryInit => TelemetryInv
<1> SUFFICES ASSUME TelemetryInit PROVE TelemetryInv
  OBVIOUS
<1> USE TimesAssumption DEF TelemetryInit
<1>1. TelemetryTypeOK
  <2>1. /\ pulses \in 0..Pulses /\ failures \in 0..(MaxFailures - 1)
        /\ {pulseIn, auxIn, auxAge, spent, tickIn, late} \subseteq Nat
    OBVIOUS
  <2>2. passed \in [Statics -> [Statics -> 0..2]]
    OBVIOUS
  <2> QED
    BY <2>1, <2>2 DEF TelemetryTypeOK, TelemetryPCs
<1>2. tickIn # 0 /\ StreamsOwned /\ AuxiliaryBehindPrimary
  BY DEF StreamsOwned, AuxiliaryBehindPrimary
<1>3. SwitchHeld /\ NoPresenceOnceDisabled
  BY DEF SwitchHeld, NoPresenceOnceDisabled
<1> QED
  BY <1>1, <1>2, <1>3 DEF TelemetryInv

\* Whoever has just been watched is a configured streamer, so that the order of the
\* watches keeps its type.
LEMMA SinceTyped ==
    ASSUME TelemetryTypeOK, AuxiliaryBehindPrimary
    PROVE  SinceEnd \in [Statics -> SUBSET Statics]
BY DEF SinceEnd, TelemetryTypeOK, AuxiliaryBehindPrimary

\* A step that pauses the auxiliary watch: what is left to show.
LEMMA Paused ==
    ASSUME TelemetryTypeOK, AuxiliaryBehindPrimary, Pause
    PROVE  /\ aux' \in Sessions \cup {None} /\ auxAge' \in Nat /\ auxIn' \in Nat
           /\ failures' \in 0..(MaxFailures - 1)
           /\ since' \in [Statics -> SUBSET Statics]
           /\ AuxiliaryBehindPrimary'
BY SinceTyped, TimesAssumption DEF Pause, AuxiliaryBehindPrimary

LEMMA WorldStep ==
    ASSUME TelemetryInv, StreamChanges \/ GamesChange
    PROVE  TelemetryInv'
<1> USE DEF TelemetryInv, StreamChanges, GamesChange, primaryVars, auxVars, tickVars, switchVars
<1>1. TelemetryTypeOK'
  BY DEF TelemetryTypeOK
<1>2. StreamsOwned'
  BY DEF StreamsOwned, TelemetryTypeOK
<1>3. AuxiliaryBehindPrimary' /\ SwitchHeld' /\ NoPresenceOnceDisabled' /\ tickIn' # 0
  BY DEF AuxiliaryBehindPrimary, SwitchHeld, NoPresenceOnceDisabled
<1> QED
  BY <1>1, <1>2, <1>3

LEMMA TimeStep ==
    ASSUME TelemetryInv, TimePasses
    PROVE  TelemetryInv'
<1> USE TimesAssumption DEF TelemetryInv, TimePasses, Left, worldVars, switchVars
<1>1. {pulseIn, auxIn, auxAge, spent, tickIn, late}' \subseteq Nat /\ tickIn' # 0
  BY DEF TelemetryTypeOK
<1>2. backoff' \in [Statics -> Nat] /\ ticked' \in BOOLEAN
  BY DEF TelemetryTypeOK
<1>3. TelemetryTypeOK'
  BY <1>1, <1>2 DEF TelemetryTypeOK
<1>4. AuxiliaryBehindPrimary'
  BY DEF AuxiliaryBehindPrimary
<1>5. StreamsOwned' /\ SwitchHeld' /\ NoPresenceOnceDisabled'
  BY DEF StreamsOwned, SwitchHeld, NoPresenceOnceDisabled
<1> QED
  BY <1>1, <1>3, <1>4, <1>5

LEMMA WakeStep ==
    ASSUME TelemetryInv, NEW p \in Sessions \cup {None},
           Pulse(p) \/ NotSafe(p) \/ Select(p) \/ Rest(p) \/ Choose(p)
    PROVE  TelemetryInv'
<1>0. /\ TelemetryTypeOK /\ AuxiliaryBehindPrimary /\ StreamsOwned
      /\ SwitchHeld /\ NoPresenceOnceDisabled /\ tickIn # 0
  BY DEF TelemetryInv
<1>1. /\ pc = "waiting" /\ ticked' = FALSE
      /\ UNCHANGED <<streams, activeGames, tickIn, backoff, disabled, cancelSet, cancelled, taken>>
  BY DEF Pulse, NotSafe, Select, Rest, Choose, Safe, Wakes, worldVars, switchVars
<1>2. StreamsOwned' /\ tickIn' # 0
  BY <1>0, <1>1 DEF StreamsOwned
<1>3. pc' \in {"waiting", "pulsing", "beginning"}
  BY <1>1 DEF Pulse, NotSafe, Select, Rest, Choose
<1>4. SwitchHeld' /\ NoPresenceOnceDisabled'
  BY <1>0, <1>1, <1>3 DEF SwitchHeld, NoPresenceOnceDisabled
<1>5. AuxiliaryBehindPrimary'
  <2>1. CASE Pulse(p)
    <3>1. CASE p = session
      BY <1>0, <1>1, <2>1, <3>1 DEF Pulse, KeepAux, AuxiliaryBehindPrimary
    <3>2. CASE p # session
      BY <1>0, <2>1, <3>2, Paused DEF Pulse
    <3> QED
      BY <3>1, <3>2
  <2>2. CASE NotSafe(p)
    BY <1>0, <2>2, Paused DEF NotSafe
  <2>3. CASE Select(p)
    <3>1. CASE Candidates(p) = {}
      BY <1>0, <2>3, <3>1, Paused DEF Select
    <3>2. CASE Candidates(p) # {}
      <4>1. PICK s \in Candidates(p) : aux' = streams[s]
        BY <2>3, <3>2 DEF Select
      <4>2. session' = session /\ session = p /\ p # None /\ pulses' = pulses /\ pulses = Pulses
        BY <2>3 DEF Select, Safe, primaryVars
      <4>3. s \in Statics /\ streams[s] # None /\ s # Owner[p] /\ backoff[s] = 0
        BY DEF Candidates
      <4>4. Owner[aux'] = s
        BY <1>0, <4>1, <4>3 DEF StreamsOwned
      <4> QED
        BY <1>1, <4>2, <4>3, <4>4 DEF AuxiliaryBehindPrimary
    <3> QED
      BY <3>1, <3>2
  <2>4. CASE Rest(p) \/ Choose(p)
    BY <1>0, <1>1, <2>4 DEF Rest, Choose, Safe, KeepAux, primaryVars, AuxiliaryBehindPrimary
  <2> QED
    BY <2>1, <2>2, <2>3, <2>4
<1>6. TelemetryTypeOK'
  <2>1. /\ streams' \in [Statics -> Sessions \cup {None}] /\ activeGames' \subseteq Games
        /\ backoff' \in [Statics -> Nat] /\ pc' \in TelemetryPCs
        /\ {ticked, disabled, cancelSet, cancelled, taken}' \subseteq BOOLEAN
        /\ tickIn' \in Nat
    BY <1>0, <1>1, <1>3 DEF TelemetryTypeOK, TelemetryPCs
  <2>2. /\ session' \in Sessions \cup {None} /\ pulses' \in 0..Pulses
        /\ {pulseIn, spent, late}' \subseteq Nat
    <3>1. CASE Pulse(p) \/ NotSafe(p)
      <4>1. pulses' = pulses \/ pulses' = 0
        BY <3>1 DEF Pulse, NotSafe
      <4>2. pulses' \in 0..Pulses
        BY <1>0, <4>1, TimesAssumption DEF TelemetryTypeOK
      <4>3. {pulseIn, spent, late}' \subseteq Nat
        <5>1. pulseIn \in Nat /\ spent \in Nat /\ late \in Nat
          BY <1>0 DEF TelemetryTypeOK
        <5>2. CASE Pulse(p)
          BY <5>2, TimesAssumption DEF Pulse
        <5>3. CASE NotSafe(p)
          BY <5>1, <5>3 DEF NotSafe
        <5> QED
          BY <3>1, <5>2, <5>3
      <4> QED
        BY <3>1, <4>2, <4>3 DEF Pulse, NotSafe
    <3>2. CASE Select(p) \/ Rest(p) \/ Choose(p)
      BY <1>0, <3>2 DEF Select, Rest, Choose, Safe, primaryVars, TelemetryTypeOK
    <3> QED
      BY <3>1, <3>2
  <2>3. /\ aux' \in Sessions \cup {None} /\ {auxAge, auxIn}' \subseteq Nat
        /\ failures' \in 0..(MaxFailures - 1)
        /\ since' \in [Statics -> SUBSET Statics]
    <3>1. CASE Pause
      BY <1>0, <3>1, Paused
    <3>2. CASE KeepAux
      BY <1>0, <3>2 DEF KeepAux, TelemetryTypeOK
    <3>3. CASE \E s \in Candidates(p) :
                  /\ aux' = streams[s] /\ auxAge' = 0 /\ auxIn' = Offset /\ failures' = 0
                  /\ since' = SinceEnd
      BY <1>0, <3>3, SinceTyped, TimesAssumption DEF Candidates, TelemetryTypeOK
    <3> QED
      BY <3>1, <3>2, <3>3 DEF Pulse, NotSafe, Select, Rest, Choose
  <2>4. passed' \in [Statics -> [Statics -> 0..2]]
    <3>1. CASE UNCHANGED passed
      BY <1>0, <3>1 DEF TelemetryTypeOK
    <3>2. CASE Select(p) /\ Candidates(p) # {}
      <4>1. PICK s \in Candidates(p) :
                passed' = [t \in Statics |-> [u \in Statics |->
                              IF u = s THEN 0
                              ELSE IF t = s /\ u \in Candidates(p) /\ passed[t][u] < 2
                              THEN passed[t][u] + 1
                              ELSE passed[t][u]]]
        BY <3>2 DEF Select
      <4>2. \A t, u \in Statics : passed[t][u] \in 0..2
        BY <1>0 DEF TelemetryTypeOK
      <4> QED
        BY <4>1, <4>2
    <3> QED
      BY <3>1, <3>2 DEF Pulse, NotSafe, Select, Rest, Choose
  <2> QED
    BY <2>1, <2>2, <2>3, <2>4 DEF TelemetryTypeOK
<1> QED
  BY <1>2, <1>4, <1>5, <1>6 DEF TelemetryInv

LEMMA PulseEnds ==
    ASSUME TelemetryInv, PulseSent \/ PulseFailed
    PROVE  TelemetryInv'
<1>0. /\ TelemetryTypeOK /\ AuxiliaryBehindPrimary /\ StreamsOwned
      /\ SwitchHeld /\ NoPresenceOnceDisabled /\ tickIn # 0
  BY DEF TelemetryInv
<1>1. /\ pc' = "waiting" /\ spent' = 0
      /\ UNCHANGED <<streams, activeGames, session, pulseIn, ticked, tickIn, disabled,
                     taken, late, passed, backoff, cancelSet, cancelled>>
  BY DEF PulseSent, PulseFailed, Returns, worldVars
<1>2. pulses' \in 0..Pulses
  <2>1. pulses' \in {0, Pulses} \/ (pulses < Pulses /\ pulses' = pulses + 1)
    BY DEF PulseSent, PulseFailed
  <2> QED
    BY <1>0, <2>1, TimesAssumption DEF TelemetryTypeOK
<1>3. /\ aux' \in Sessions \cup {None} /\ auxAge' \in Nat /\ auxIn' \in Nat
      /\ failures' \in 0..(MaxFailures - 1)
      /\ since' \in [Statics -> SUBSET Statics]
      /\ AuxiliaryBehindPrimary'
  <2>1. CASE PulseSent
    <3>1. aux' = aux /\ auxAge' = auxAge /\ failures' = failures /\ since' = since
      BY <2>1 DEF PulseSent
    <3>2. auxIn' \in Nat
      <4>1. auxIn \in Nat /\ spent \in Nat /\ Offset \in Nat
        BY <1>0, TimesAssumption DEF TelemetryTypeOK
      <4> QED
        BY <2>1, <4>1 DEF PulseSent, Larger
    <3>3. AuxiliaryBehindPrimary'
      <4>1. pulses = Pulses => pulses' = Pulses
        BY <2>1, <1>0, TimesAssumption DEF PulseSent, TelemetryTypeOK
      <4> QED
        BY <1>0, <1>1, <3>1, <4>1 DEF AuxiliaryBehindPrimary
    <3> QED
      BY <1>0, <3>1, <3>2, <3>3 DEF TelemetryTypeOK
  <2>2. CASE PulseFailed
    BY <1>0, <2>2, Paused DEF PulseFailed
  <2> QED
    BY <2>1, <2>2
<1>4. TelemetryTypeOK'
  BY <1>0, <1>1, <1>2, <1>3 DEF TelemetryTypeOK, TelemetryPCs
<1>5. StreamsOwned' /\ SwitchHeld' /\ NoPresenceOnceDisabled'
  BY <1>0, <1>1 DEF StreamsOwned, SwitchHeld, NoPresenceOnceDisabled
<1> QED
  BY <1>0, <1>1, <1>3, <1>4, <1>5 DEF TelemetryInv

\* The types of the state after a step, gathered from those of its parts.
SwitchTyped == {ticked, disabled, cancelSet, cancelled, taken} \subseteq BOOLEAN

AuxTyped ==
    /\ aux \in Sessions \cup {None} /\ auxAge \in Nat /\ auxIn \in Nat
    /\ failures \in 0..(MaxFailures - 1)
    /\ since \in [Statics -> SUBSET Statics]
    /\ backoff \in [Statics -> Nat]

LEMMA Gathered ==
    ASSUME TelemetryTypeOK, AuxTyped', SwitchTyped', pc' \in TelemetryPCs, spent' \in Nat,
           UNCHANGED <<streams, activeGames, session, pulses, pulseIn, tickIn, late, passed>>
    PROVE  TelemetryTypeOK'
BY DEF TelemetryTypeOK, AuxTyped, SwitchTyped

LEMMA BeginStep ==
    ASSUME TelemetryInv, Begin
    PROVE  TelemetryInv'
<1>0. /\ TelemetryTypeOK /\ AuxiliaryBehindPrimary /\ StreamsOwned
      /\ SwitchHeld /\ NoPresenceOnceDisabled /\ tickIn # 0
  BY DEF TelemetryInv
<1>1. /\ spent' = 0
      /\ UNCHANGED <<streams, activeGames, session, pulses, pulseIn, backoff, ticked,
                     tickIn, disabled, taken, late, passed>>
  BY DEF Begin, worldVars, primaryVars
<1>2. CASE disabled
  <2>1. Pause /\ pc' = "waiting" /\ UNCHANGED <<cancelSet, cancelled>>
    BY <1>2 DEF Begin
  <2>20. SwitchTyped'
    BY <1>0, <1>1, <2>1 DEF TelemetryTypeOK, SwitchTyped
  <2>21. AuxTyped' /\ AuxiliaryBehindPrimary'
    BY <1>0, <1>1, <2>1, Paused DEF TelemetryTypeOK, AuxTyped
  <2>2. TelemetryTypeOK' /\ AuxiliaryBehindPrimary'
    BY <1>0, <1>1, <2>1, <2>20, <2>21, Gathered DEF TelemetryPCs
  <2>3. StreamsOwned' /\ SwitchHeld' /\ NoPresenceOnceDisabled'
    BY <1>0, <1>1, <2>1 DEF StreamsOwned, SwitchHeld, NoPresenceOnceDisabled
  <2> QED
    BY <1>0, <1>1, <2>2, <2>3 DEF TelemetryInv
<1>3. CASE ~disabled
  <2>1. /\ pc' = "present" /\ auxIn' \in Nat /\ cancelSet' = TRUE /\ cancelled' = FALSE
        /\ UNCHANGED <<aux, auxAge, failures, since>>
    BY <1>3, TimesAssumption DEF Begin
  <2>2. TelemetryTypeOK'
    <3>1. AuxTyped'
      BY <1>0, <1>1, <2>1 DEF TelemetryTypeOK, AuxTyped
    <3>2. SwitchTyped'
      BY <1>0, <1>1, <2>1 DEF TelemetryTypeOK, SwitchTyped
    <3> QED
      BY <1>0, <1>1, <2>1, <3>1, <3>2, Gathered DEF TelemetryPCs
  <2>3. AuxiliaryBehindPrimary' /\ StreamsOwned'
    BY <1>0, <1>1, <2>1 DEF AuxiliaryBehindPrimary, StreamsOwned
  <2>4. SwitchHeld' /\ NoPresenceOnceDisabled'
    BY <1>0, <1>1, <1>3, <2>1 DEF SwitchHeld, NoPresenceOnceDisabled
  <2> QED
    BY <1>0, <1>1, <2>2, <2>3, <2>4 DEF TelemetryInv
<1> QED
  BY <1>2, <1>3

LEMMA PresenceEnds ==
    ASSUME TelemetryInv, PresenceSent \/ PresenceFailed
    PROVE  TelemetryInv'
<1>0. /\ TelemetryTypeOK /\ AuxiliaryBehindPrimary /\ StreamsOwned
      /\ SwitchHeld /\ NoPresenceOnceDisabled /\ tickIn # 0
  BY DEF TelemetryInv
<1>1. /\ pc' = "waiting" /\ spent' = 0 /\ cancelSet' = FALSE /\ cancelled' = FALSE
      /\ UNCHANGED <<streams, activeGames, session, pulses, pulseIn, ticked, tickIn,
                     disabled, taken, late, passed>>
  BY DEF PresenceSent, PresenceFailed, Finish, Returns, worldVars
<1>2. StreamsOwned' /\ SwitchHeld' /\ NoPresenceOnceDisabled' /\ tickIn' # 0
  BY <1>0, <1>1 DEF StreamsOwned, SwitchHeld, NoPresenceOnceDisabled
<1>21. SwitchTyped'
  BY <1>0, <1>1 DEF TelemetryTypeOK, SwitchTyped
<1>3. CASE UNCHANGED <<aux, auxAge, auxIn, since, backoff>>
           /\ failures' \in 0..(MaxFailures - 1)
  <2>0. AuxTyped'
    BY <1>0, <1>3 DEF TelemetryTypeOK, AuxTyped
  <2>1. TelemetryTypeOK'
    BY <1>0, <1>1, <1>21, <2>0, Gathered DEF TelemetryPCs
  <2>2. AuxiliaryBehindPrimary'
    BY <1>0, <1>1, <1>3 DEF AuxiliaryBehindPrimary
  <2> QED
    BY <1>2, <2>1, <2>2 DEF TelemetryInv
<1>4. CASE Pause /\ backoff' \in [Statics -> Nat]
  <2>0. AuxTyped' /\ AuxiliaryBehindPrimary'
    BY <1>0, <1>4, Paused DEF AuxTyped
  <2>1. TelemetryTypeOK' /\ AuxiliaryBehindPrimary'
    BY <1>0, <1>1, <1>21, <2>0, Gathered DEF TelemetryPCs
  <2> QED
    BY <1>2, <2>1 DEF TelemetryInv
<1>5. CASE PresenceSent
  BY <1>3, <1>5, TimesAssumption DEF PresenceSent
<1>6. CASE PresenceFailed
  <2>1. CASE failures + 1 < MaxFailures
    <3>1. failures' = failures + 1 /\ UNCHANGED <<aux, auxAge, auxIn, since, backoff>>
      BY <1>6, <2>1 DEF PresenceFailed
    <3>2. failures' \in 0..(MaxFailures - 1)
      BY <1>0, <2>1, <3>1, TimesAssumption DEF TelemetryTypeOK
    <3> QED
      BY <1>3, <3>1, <3>2
  <2>2. CASE ~(failures + 1 < MaxFailures)
    <3>1. Pause /\ backoff' = [backoff EXCEPT ![Owner[aux]] =
                                 IF Backoff > spent THEN Backoff - spent ELSE 0]
      BY <1>6, <2>2 DEF PresenceFailed
    <3>2. (IF Backoff > spent THEN Backoff - spent ELSE 0) \in Nat
      BY <1>0, TimesAssumption DEF TelemetryTypeOK
    <3>3. backoff' \in [Statics -> Nat]
      BY <1>0, <3>1, <3>2 DEF TelemetryTypeOK
    <3> QED
      BY <1>4, <3>1, <3>3
  <2> QED
    BY <2>1, <2>2
<1> QED
  BY <1>5, <1>6

LEMMA SwitchStep ==
    ASSUME TelemetryInv, TakeCancel \/ CallCancel \/ Watchdog
    PROVE  TelemetryInv'
<1>0. /\ TelemetryTypeOK /\ AuxiliaryBehindPrimary /\ StreamsOwned
      /\ SwitchHeld /\ NoPresenceOnceDisabled /\ tickIn # 0
  BY DEF TelemetryInv
<1>1. /\ disabled' = TRUE /\ cancelSet' = FALSE
      /\ UNCHANGED <<streams, activeGames, session, pulses, pulseIn, aux, auxAge, auxIn,
                     failures, since, backoff, pc, spent, ticked, tickIn, late, passed>>
  BY DEF TakeCancel, CallCancel, Watchdog, Switched, worldVars, primaryVars, auxVars, tickVars
<1>2. taken' \in BOOLEAN /\ cancelled' \in BOOLEAN
  <2>1. cancelled \in BOOLEAN /\ cancelSet \in BOOLEAN /\ taken \in BOOLEAN
    BY <1>0 DEF TelemetryTypeOK
  <2> QED
    BY <2>1, Zenon DEF TakeCancel, CallCancel, Watchdog, Switched
<1>3. TelemetryTypeOK'
  BY <1>0, <1>1, <1>2 DEF TelemetryTypeOK
<1>4. AuxiliaryBehindPrimary' /\ StreamsOwned' /\ SwitchHeld'
  BY <1>0, <1>1 DEF AuxiliaryBehindPrimary, StreamsOwned, SwitchHeld
<1>5. NoPresenceOnceDisabled'
  <2> SUFFICES ASSUME pc = "present" PROVE cancelled' \/ taken'
    BY <1>1 DEF NoPresenceOnceDisabled
  <2>1. cancelSet \/ cancelled \/ taken
    BY <1>0 DEF SwitchHeld, NoPresenceOnceDisabled
  <2>2. CASE TakeCancel
    BY <2>1, <2>2, Zenon DEF TakeCancel, Switched
  <2>3. CASE CallCancel
    BY <2>3, Zenon DEF CallCancel, Switched
  <2>4. CASE Watchdog
    BY <2>1, <2>4, Zenon DEF Watchdog, Switched
  <2> QED
    BY <2>2, <2>3, <2>4
<1> QED
  BY <1>0, <1>1, <1>3, <1>4, <1>5 DEF TelemetryInv

LEMMA NextTelemetry == TelemetryInv /\ [TelemetryNext]_telemetryVars => TelemetryInv'
<1> SUFFICES ASSUME TelemetryInv, [TelemetryNext]_telemetryVars PROVE TelemetryInv'
  OBVIOUS
<1>1. CASE UNCHANGED telemetryVars
  BY <1>1 DEF telemetryVars, worldVars, primaryVars, auxVars, tickVars, switchVars,
     TelemetryInv, TelemetryTypeOK, StreamsOwned, AuxiliaryBehindPrimary, SwitchHeld,
     NoPresenceOnceDisabled
<1>2. CASE TelemetryNext
  BY <1>2, WorldStep, TimeStep, WakeStep, PulseEnds, BeginStep, PresenceEnds, SwitchStep
     DEF TelemetryNext
<1> QED
  BY <1>1, <1>2

\* TelemetryInv holds in every reachable state.
THEOREM TelemetryInvariance == TelemetrySpec => []TelemetryInv
BY InitTelemetry, NextTelemetry, PTL DEF TelemetrySpec

\* The state of the telemetry keeps its types.
THEOREM TelemetryTyped == TelemetrySpec => []TelemetryTypeOK
<1>1. TelemetryInv => TelemetryTypeOK
  BY DEF TelemetryInv
<1> QED
  BY <1>1, TelemetryInvariance, PTL

\* Nobody is watched on the side unless the primary is well established
\* (app.go:1567-1674).
THEOREM TelemetryPrimaryFirst == TelemetrySpec => []AuxiliaryBehindPrimary
<1>1. TelemetryInv => AuxiliaryBehindPrimary
  BY DEF TelemetryInv
<1> QED
  BY <1>1, TelemetryInvariance, PTL

\* The switch reaches the request in flight, wherever it finds the goroutine
\* (app.go:1766-1797).
THEOREM TelemetrySwitchedOff == TelemetrySpec => []NoPresenceOnceDisabled
<1>1. TelemetryInv => NoPresenceOnceDisabled
  BY DEF TelemetryInv
<1> QED
  BY <1>1, TelemetryInvariance, PTL

-----------------------------------------------------------------------------
\* A report is overdue only while a tick is on its way, and by no more than has
\* passed of it; a request, either kind, leaves nothing overdue.
OnTime ==
    /\ tickIn <= Tick
    /\ late < Tick
    /\ session = None \/ pulseIn > 0 \/ pc = "pulsing" => late = 0
    /\ session # None /\ pulseIn = 0 /\ ~ticked => late + tickIn < Tick
    /\ pc \in {"beginning", "present"} => late = 0

LEMMA OnTimeInit == TelemetryInit => OnTime
BY TimesAssumption DEF TelemetryInit, OnTime

\* A unit less to the tick makes up for a unit of delay.
LEMMA TickArithmetic ==
    ASSUME NEW l \in Nat, NEW n \in Nat, NEW k \in Nat, NEW m \in Int, NEW t \in Int,
           l + t < n, m = l \/ m = l + 1, k = t - 1
    PROVE  m + k < n
OBVIOUS

LEMMA OnTimePasses ==
    ASSUME TelemetryTypeOK, tickIn # 0, OnTime, TimePasses
    PROVE  OnTime'
<1>0. /\ pulseIn \in Nat /\ late \in Nat /\ tickIn \in Nat /\ tickIn # 0
      /\ Tick \in Nat /\ Tick # 0 /\ Margin \in Nat
  BY TimesAssumption DEF TelemetryTypeOK
<1>1. /\ UNCHANGED <<session, pc>>
      /\ tickIn' = IF tickIn = 1 THEN Tick ELSE tickIn - 1
      /\ ticked' = (ticked \/ tickIn = 1)
      /\ pulseIn' = IF pulseIn = 0 THEN 0 ELSE pulseIn - 1
      /\ late' = IF session # None /\ pulseIn = 0 /\ pc # "pulsing" /\ late < LateCap
                 THEN late + 1
                 ELSE late
  BY DEF TimePasses, Left
<1>2. pc = "pulsing" \/ (pc = "present" /\ pulseIn > Margin) \/ (pc = "waiting" /\ ~ticked)
  BY <1>0 DEF TimePasses, DeadlinePassed
<1>21. ~ticked' => tickIn' = tickIn - 1
  <2>1. ASSUME ~ticked' PROVE tickIn # 1
    BY <1>1, <2>1, Zenon
  <2> QED
    BY <1>1, <2>1
<1>22. tickIn' <= Tick /\ tickIn <= Tick
  BY <1>0, <1>1 DEF OnTime
<1>3. CASE session # None /\ pulseIn = 0 /\ pc # "pulsing"
  <2>1. pc = "waiting" /\ ~ticked
    BY <1>0, <1>2, <1>3
  <2>2. late + tickIn < Tick
    BY <1>3, <2>1 DEF OnTime
  <2>3. late' \in {late, late + 1} /\ pulseIn' = 0
    BY <1>1, <1>3
  <2>4. late' < Tick /\ tickIn' <= Tick
    BY <1>0, <1>1, <2>2, <2>3
  <2>5. ASSUME ~ticked' PROVE late' + tickIn' < Tick
    <3>1. tickIn' = tickIn - 1 /\ tickIn' \in Nat /\ late' \in Int
      BY <1>0, <1>21, <2>3, <2>5
    <3>2. late' = late \/ late' = late + 1
      BY <2>3
    <3> DEFINE k == tickIn'
    <3> DEFINE m == late'
    <3>3. k \in Nat /\ m \in Int /\ k = tickIn - 1 /\ (m = late \/ m = late + 1)
      BY <3>1, <3>2
    <3> HIDE DEF k, m
    <3>4. m + k < Tick
      BY ONLY <1>0, <2>2, <3>3, TickArithmetic
    <3> QED
      BY <3>4 DEF k, m
  <2> QED
    BY <1>1, <1>3, <2>1, <2>3, <2>4, <2>5 DEF OnTime
<1>4. CASE ~(session # None /\ pulseIn = 0 /\ pc # "pulsing")
  <2>1. late' = late /\ late = 0
    BY <1>0, <1>1, <1>4 DEF OnTime
  <2>2. ASSUME ~ticked' PROVE tickIn' < Tick
    BY ONLY <1>0, <1>21, <1>22, <2>2
  <2>3. late' = 0 /\ late' < Tick
    BY <1>0, <2>1
  <2>4. ASSUME ~ticked' PROVE late' + tickIn' < Tick
    <3>1. tickIn' \in Nat /\ tickIn' < Tick
      BY <1>0, <1>21, <2>2, <2>4
    <3> DEFINE t == tickIn'
    <3>2. t \in Nat /\ t < Tick
      BY <3>1
    <3> HIDE DEF t
    <3>3. 0 + t < Tick
      BY ONLY <1>0, <3>2
    <3> QED
      BY <2>3, <3>3 DEF t
  <2> QED
    BY <1>22, <2>3, <2>4 DEF OnTime
<1> QED
  BY <1>3, <1>4

LEMMA OnTimeWakes ==
    ASSUME TelemetryTypeOK, OnTime, NEW p \in Sessions \cup {None},
           Pulse(p) \/ NotSafe(p) \/ Select(p) \/ Rest(p) \/ Choose(p)
    PROVE  OnTime'
<1>0. /\ pulseIn \in Nat /\ late \in Nat /\ tickIn \in Nat /\ tickIn' = tickIn
      /\ Tick \in Nat /\ Tick # 0 /\ PulseTimes \subseteq Nat \ {0} /\ pc = "waiting"
  BY TimesAssumption
     DEF TelemetryTypeOK, Pulse, NotSafe, Select, Rest, Choose, Safe, Wakes
<1>1. CASE Pulse(p)
  <2>1. late' = 0 /\ pulseIn' \in Nat /\ pulseIn' > 0
    BY <1>0, <1>1 DEF Pulse
  <2> QED
    BY <1>0, <2>1 DEF OnTime
<1>2. CASE NotSafe(p) /\ p # session
  <2>1. late' = 0 /\ session' = None
    BY <1>2 DEF NotSafe
  <2> QED
    BY <1>0, <2>1 DEF OnTime
<1>3. CASE (NotSafe(p) /\ p = session) \/ Select(p) \/ Rest(p) \/ Choose(p)
  <2>1. UNCHANGED <<session, pulseIn, late>> /\ (session = None \/ pulseIn > 0)
    BY <1>3 DEF NotSafe, Select, Rest, Choose, Safe, primaryVars
  <2>2. late = 0
    BY <2>1 DEF OnTime
  <2> QED
    BY <1>0, <2>1, <2>2 DEF OnTime
<1> QED
  BY <1>1, <1>2, <1>3

LEMMA OnTimeElse ==
    ASSUME OnTime, UNCHANGED <<session, pulseIn, ticked, tickIn, late>>,
           pc' = pc \/ pc' = "waiting" \/ pc = "beginning"
    PROVE  OnTime'
BY DEF OnTime

\* A report goes out before another tick is over, for any intervals, offsets and
\* margins (app.go:1642-1646).
THEOREM TelemetryOnTime == TelemetrySpec => []ReportOnTime
<1>1. TelemetryInv /\ OnTime /\ [TelemetryNext]_telemetryVars => OnTime'
  <2> SUFFICES ASSUME TelemetryInv, OnTime, [TelemetryNext]_telemetryVars PROVE OnTime'
    OBVIOUS
  <2>0. TelemetryTypeOK /\ tickIn # 0
    BY DEF TelemetryInv
  <2>1. CASE StreamChanges \/ GamesChange \/ TakeCancel \/ CallCancel \/ Watchdog
    BY <2>1, OnTimeElse DEF StreamChanges, GamesChange, TakeCancel, CallCancel, Watchdog,
       Switched, primaryVars, tickVars
  <2>2. CASE TimePasses
    BY <2>0, <2>2, OnTimePasses
  <2>3. ASSUME NEW p \in Sessions \cup {None},
               Pulse(p) \/ NotSafe(p) \/ Select(p) \/ Rest(p) \/ Choose(p)
        PROVE  OnTime'
    BY <2>0, <2>3, OnTimeWakes
  <2>4. CASE PulseSent \/ PulseFailed \/ PresenceSent \/ PresenceFailed
    BY <2>4, OnTimeElse DEF PulseSent, PulseFailed, PresenceSent, PresenceFailed, Finish, Returns
  <2>5. CASE Begin
    BY <2>5, OnTimeElse DEF Begin, primaryVars
  <2>6. CASE UNCHANGED telemetryVars
    BY <2>6, OnTimeElse DEF telemetryVars, primaryVars, tickVars
  <2> QED
    BY <2>1, <2>2, <2>3, <2>4, <2>5, <2>6 DEF TelemetryNext
<1>2. OnTime => ReportOnTime
  BY DEF OnTime, ReportOnTime
<1> QED
  BY <1>1, <1>2, OnTimeInit, TelemetryInvariance, PTL DEF TelemetrySpec

-----------------------------------------------------------------------------
\* Whoever was selected while another could have been has been watched since that
\* one's last watch, and that one not since its own: it is next of the two.
Outwaited ==
    \A s, t \in Statics :
        /\ passed[s][s] = 0
        /\ s # t /\ passed[s][t] # 0 =>
               passed[s][t] = 1 /\ s \in SinceEnd[t] /\ t \notin SinceEnd[s]

LEMMA OutwaitedKept ==
    ASSUME Outwaited, passed' = passed, SinceEnd' = SinceEnd
    PROVE  Outwaited'
BY DEF Outwaited

\* The order of the watches is the same whether the present watch has been ended or
\* is still to end.
LEMMA SameOrder ==
    ASSUME Pause \/ UNCHANGED <<aux, since>>
    PROVE  SinceEnd' = SinceEnd
<1>1. CASE Pause
  BY <1>1 DEF Pause, SinceEnd
<1>2. CASE UNCHANGED <<aux, since>>
  BY <1>2 DEF SinceEnd
<1> QED
  BY <1>1, <1>2

\* A selection: the one selected is now the most recently watched, and nobody it
\* was preferred to had been passed over for it before.
LEMMA OutwaitedSelects ==
    ASSUME TelemetryInv, Outwaited, NEW p \in Sessions \cup {None}, Select(p),
           Candidates(p) # {}
    PROVE  Outwaited'
<1>1. PICK s \in Candidates(p) :
          /\ \A t \in Candidates(p) \ {s} : Precedes(s, t)
          /\ aux' = streams[s]
          /\ since' = SinceEnd
          /\ passed' = [t \in Statics |-> [u \in Statics |->
                           IF u = s THEN 0
                           ELSE IF t = s /\ u \in Candidates(p) /\ passed[t][u] < 2
                           THEN passed[t][u] + 1
                           ELSE passed[t][u]]]
  BY DEF Select
<1>2. s \in Statics /\ streams[s] # None /\ Candidates(p) \subseteq Statics
  BY DEF Candidates
<1>3. aux' # None /\ Owner[aux'] = s
  BY <1>1, <1>2 DEF TelemetryInv, StreamsOwned
<1>4. \A t \in Statics : SinceEnd'[t] = IF t = s THEN {} ELSE SinceEnd[t] \cup {s}
  BY <1>1, <1>3 DEF SinceEnd
<1>5. \A t, u \in Statics :
          passed'[t][u] = IF u = s THEN 0
                          ELSE IF t = s /\ u \in Candidates(p) /\ passed[t][u] < 2
                          THEN passed[t][u] + 1
                          ELSE passed[t][u]
  BY <1>1
<1>6. ASSUME NEW t \in Candidates(p), t # s
      PROVE  passed[s][t] = 0
  <2>1. Precedes(s, t) /\ t \in Statics
    BY <1>1, <1>2, <1>6
  <2>2. ~(s \in SinceEnd[t] /\ t \notin SinceEnd[s])
    BY <2>1 DEF Precedes
  <2> QED
    BY <1>2, <1>6, <2>1, <2>2 DEF Outwaited
<1>7. ASSUME NEW t \in Statics, NEW u \in Statics, t # u, passed'[t][u] # 0
      PROVE  passed'[t][u] = 1 /\ t \in SinceEnd'[u] /\ u \notin SinceEnd'[t]
  <2>1. u # s
    BY <1>5, <1>7
  <2>2. CASE t = s
    <3>1. t \in SinceEnd'[u] /\ u \notin SinceEnd'[t]
      BY <1>4, <2>1, <2>2
    <3>2. CASE u \in Candidates(p)
      <4>1. passed[t][u] = 0
        BY <1>6, <2>1, <2>2, <3>2
      <4> QED
        BY <1>5, <2>1, <2>2, <3>1, <3>2, <4>1
    <3>3. CASE u \notin Candidates(p)
      <4>1. passed'[t][u] = passed[t][u]
        BY <1>5, <2>1, <3>3
      <4> QED
        BY <1>7, <3>1, <4>1 DEF Outwaited
    <3> QED
      BY <3>2, <3>3
  <2>3. CASE t # s
    <3>1. passed'[t][u] = passed[t][u]
      BY <1>5, <2>1, <2>3
    <3>2. passed[t][u] = 1 /\ t \in SinceEnd[u] /\ u \notin SinceEnd[t]
      BY <1>7, <3>1 DEF Outwaited
    <3> QED
      BY <1>4, <2>1, <2>3, <3>1, <3>2
  <2> QED
    BY <2>2, <2>3
<1>8. ASSUME NEW t \in Statics
      PROVE  passed'[t][t] = 0
  <2>1. CASE t = s
    BY <1>5, <2>1
  <2>2. CASE t # s
    BY <1>5, <2>2 DEF Outwaited
  <2> QED
    BY <2>1, <2>2
<1> QED
  BY <1>7, <1>8 DEF Outwaited

\* The side watch goes round: nobody is selected twice while another who could have
\* been waits, for any streamers, leases and failures (app.go:1719-1758).
THEOREM TelemetryFair == TelemetrySpec => []NobodyPassedOver
<1>1. TelemetryInit => Outwaited
  BY DEF TelemetryInit, Outwaited
<1>2. TelemetryInv /\ Outwaited /\ [TelemetryNext]_telemetryVars => Outwaited'
  <2> SUFFICES ASSUME TelemetryInv, Outwaited, [TelemetryNext]_telemetryVars
               PROVE  Outwaited'
    OBVIOUS
  <2>1. CASE StreamChanges \/ GamesChange \/ TimePasses \/ TakeCancel \/ CallCancel \/ Watchdog
    BY <2>1, SameOrder, OutwaitedKept DEF StreamChanges, GamesChange, TimePasses,
       TakeCancel, CallCancel, Watchdog, Switched, auxVars
  <2>2. CASE PulseSent \/ PulseFailed \/ Begin \/ PresenceSent \/ PresenceFailed
    <3>1. passed' = passed
      BY <2>2 DEF PulseSent, PulseFailed, Begin, PresenceSent, PresenceFailed, Finish, Returns
    <3>2. Pause \/ UNCHANGED <<aux, since>>
      BY <2>2 DEF PulseSent, PulseFailed, Begin, PresenceSent, PresenceFailed
    <3> QED
      BY <3>1, <3>2, SameOrder, OutwaitedKept
  <2>3. ASSUME NEW p \in Sessions \cup {None},
               Pulse(p) \/ NotSafe(p) \/ Select(p) \/ Rest(p) \/ Choose(p)
        PROVE  Outwaited'
    <3>1. CASE Select(p) /\ Candidates(p) # {}
      BY <3>1, OutwaitedSelects
    <3>2. CASE ~(Select(p) /\ Candidates(p) # {})
      <4>1. passed' = passed
        BY <2>3, <3>2 DEF Pulse, NotSafe, Select, Rest, Choose
      <4>2. Pause \/ UNCHANGED <<aux, since>>
        BY <2>3, <3>2 DEF Pulse, NotSafe, Select, Rest, Choose, KeepAux
      <4> QED
        BY <4>1, <4>2, SameOrder, OutwaitedKept
    <3> QED
      BY <3>1, <3>2
  <2>4. CASE UNCHANGED telemetryVars
    BY <2>4, SameOrder, OutwaitedKept DEF telemetryVars, auxVars
  <2> QED
    BY <2>1, <2>2, <2>3, <2>4 DEF TelemetryNext
<1>3. TelemetryInv /\ Outwaited => NobodyPassedOver
  <2> SUFFICES ASSUME TelemetryInv, Outwaited, NEW s \in Statics, NEW t \in Statics
               PROVE  passed[s][t] <= 1
    BY DEF NobodyPassedOver
  <2>1. passed[s][t] = 0 \/ passed[s][t] = 1
    BY DEF Outwaited
  <2> QED
    BY <2>1
<1> QED
  BY <1>1, <1>2, <1>3, TelemetryInvariance, PTL DEF TelemetrySpec
=============================================================================
