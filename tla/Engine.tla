------------------------------- MODULE Engine -------------------------------
(***************************************************************************)
(* The watch engine of internal/engine: one goroutine that receives events  *)
(* from every poller, keeps the state of the known streamers, decides which *)
(* channels to watch, and reports each change on an output channel.         *)
(*                                                                          *)
(* A streamer list is a function from its logins to their entries: logins   *)
(* are unique in it, and the field "priority" is the position in the list   *)
(* (engine.go:63, 283, 293), so nothing of the slice is lost.               *)
(*                                                                          *)
(* IsStatic is not a field: engine.go:57-70 and 274-281 compute it from the *)
(* configured logins each time, so it is membership of StaticLogins.        *)
(* Game names are taken up to gameKey (priority.go:112), which is how they  *)
(* are compared.                                                            *)
(***************************************************************************)
EXTENDS Integers, Sequences, FiniteSets

CONSTANTS
    Logins,         \* channel logins that can ever be listed
    StaticLogins,   \* those named in the configuration
    Games,          \* game names
    InitialRoster,  \* the list the process starts with
    Rosters,        \* streamer lists a producer may send
    GameLists,      \* active-game lists a producer may send
    Claims,         \* channel-point bonus claim ids
    ClaimLogin,     \* the channel each claim belongs to
    BonusPoints,    \* points of one bonus (50 in channelpoints/gql.go:57)
    Balances,       \* balances a poll may load
    PointGains,     \* amounts of "points" events
    MaxPoints,      \* bound: no "points" event is sent past this total
    ClaimDrops,     \* features.claim_drops
    ClaimBonuses,   \* features.claim_bonuses
    DryRun,         \* features.dry_run
    EventCap,       \* capacity of the input channel  (1024 in the code)
    OutCap          \* capacity of the output channel (1024 in the code)

Entries == [priority : Nat, game : Games]

ASSUME LoginsAssumption == StaticLogins \subseteq Logins
ASSUME RostersAssumption ==
    \A r \in Rosters \cup {InitialRoster} :
        /\ DOMAIN r \subseteq Logins
        /\ r \in [DOMAIN r -> Entries]
        /\ \A l, k \in DOMAIN r : r[l].priority = r[k].priority => l = k
ASSUME GameListsAssumption == \A gs \in GameLists : gs \in Seq(Games)
ASSUME BonusAssumption ==
    /\ ClaimLogin \in [Claims -> Logins]
    /\ BonusPoints \in Nat \ {0}
ASSUME AmountsAssumption == Balances \subseteq Int /\ PointGains \subseteq Nat
ASSUME FlagsAssumption ==
    ClaimDrops \in BOOLEAN /\ ClaimBonuses \in BOOLEAN /\ DryRun \in BOOLEAN
ASSUME CapsAssumption == EventCap \in Nat \ {0} /\ OutCap \in Nat \ {0}

VARIABLES
    \* the engine goroutine
    pc,             \* where it is: see PCs
    streamers,      \* Engine.streamers
    activeGames,    \* Engine.activeGames
    target,         \* reschedule's local "active", not yet published
    starts, stops,  \* reschedule's "added" and "removed" not yet emitted
    claiming,       \* the bonus event ClaimBonus is blocked on, or nothing
    \* shared with other goroutines
    active,         \* Engine.active (under activeMu)
    events,         \* Engine.events
    eventsOut,      \* Engine.eventsOut
    cancelled,      \* ctx.Done() is closed
    \* outside the process
    stored,         \* what StateStore has recorded, per login
    redeemed,       \* claims the points service has honoured
    \* history
    view,           \* logins the consumer of eventsOut has seen started
    dropped         \* an output event was lost to a full channel

scheduling == <<target, starts, stops>>
environment == <<cancelled, stored, redeemed>>
history == <<view, dropped>>
vars == <<pc, streamers, activeGames, target, starts, stops, claiming, active,
          events, eventsOut, cancelled, stored, redeemed, view, dropped>>

PCs == {"starting", "waiting", "rescheduling", "claiming", "stopped"}

StreamerState == [priority : Nat, game : Games, online : BOOLEAN,
                  streakReady : BOOLEAN, watching : BOOLEAN, points : Int]

LoginEvents(types) == [type : types, login : Logins]

BonusEvents == [type : {"bonus_available"}, login : Logins, claim : Claims]

InEvents ==
         LoginEvents({"offline", "streak", "drop_claimed", "chat_mention"})
    \cup [type : {"online"}, login : Logins, game : Games]
    \cup [type : {"points", "balance"}, login : Logins, amount : Int]
    \cup BonusEvents
    \cup [type : {"update_streamers"}, roster : Rosters]
    \cup [type : {"active_games"}, games : GameLists]

OutTypes == {"watch_start", "watch_stop", "bonus_claimed", "drop_claimed", "chat_mention"}

-----------------------------------------------------------------------------
(* priority.go: which channels to watch.                                     *)

\* Variant: a streak outranks the channel already watched.
OutranksStreakFirst(a, b) ==
    IF a.streakReady # b.streakReady THEN a.streakReady
    ELSE IF a.watching # b.watching THEN a.watching
    ELSE a.priority < b.priority

\* byStreamerRank, with the position as the last key: already watched
\* streamers first, then those with a streak to collect.
Outranks(a, b) ==
    IF a.watching # b.watching THEN a.watching
    ELSE IF a.streakReady # b.streakReady THEN a.streakReady
    ELSE a.priority < b.priority

\* rankStreamers(S)[0], as a set: empty when S is.
Tops(st, S) == {l \in S : \A k \in S \ {l} : Outranks(st[l], st[k])}

StaticOnline(st) == {l \in DOMAIN st : l \in StaticLogins /\ st[l].online}

GamesIn(games) == {games[i] : i \in DOMAIN games}

DynamicOnline(st, games) ==
    {l \in DOMAIN st : /\ l \notin StaticLogins
                       /\ st[l].online
                       /\ ClaimDrops => st[l].game \in GamesIn(games)}

Group(st, games, g) == {l \in DynamicOnline(st, games) : st[l].game = g}

\* The best streamer of each game that has one.
BestPerGame(st, games) == UNION {Tops(st, Group(st, games, g)) : g \in Games}

\* The games of the list that have a dynamic streamer online, best one first.
FirstServed(st, games) ==
    {i \in DOMAIN games : /\ Group(st, games, games[i]) # {}
                          /\ \A j \in DOMAIN games :
                                j < i => Group(st, games, games[j]) = {}}

\* The dynamic streamer that may be selected. There is a choice only among the
\* games outside a non-empty list, which the code visits in map order.
Picks(st, games) ==
    IF games = <<>> THEN Tops(st, BestPerGame(st, games))
    ELSE IF FirstServed(st, games) # {}
         THEN UNION {Tops(st, Group(st, games, games[i])) : i \in FirstServed(st, games)}
         ELSE BestPerGame(st, games)

\* Variant: no limit on the dynamic channels.
SelectionsUnlimited(st, games) == {StaticOnline(st) \cup BestPerGame(st, games)}

\* selectActive: every static channel that is online, and at most one other.
Selections(st, games) ==
    IF Picks(st, games) = {} THEN {StaticOnline(st)}
    ELSE {StaticOnline(st) \cup {l} : l \in Picks(st, games)}

-----------------------------------------------------------------------------
\* Variant: positions counted from minus one.
NewStateShifted(entry, online) ==
    [priority |-> entry.priority - 1, game |-> entry.game, online |-> online,
     streakReady |-> FALSE, watching |-> FALSE, points |-> 0]

NewState(entry, online) ==
    [priority |-> entry.priority, game |-> entry.game, online |-> online,
     streakReady |-> FALSE, watching |-> FALSE, points |-> 0]

\* New (engine.go:55): the list is offline until a poll says otherwise.
Init ==
    /\ pc = "starting"
    /\ streamers = [l \in DOMAIN InitialRoster |-> NewState(InitialRoster[l], FALSE)]
    /\ activeGames = <<>>
    /\ target = {} /\ starts = {} /\ stops = {}
    /\ claiming = {}
    /\ active = {}
    /\ events = <<>> /\ eventsOut = <<>>
    /\ cancelled = FALSE
    /\ stored = [l \in Logins |-> [points |-> 0, bonusClaims |-> 0]]
    /\ redeemed = {}
    /\ view = {} /\ dropped = FALSE

-----------------------------------------------------------------------------
(* Producers: every other goroutine calls SendEvent, which never blocks.     *)

SendEvent(e) ==
    /\ events' = IF Len(events) < EventCap THEN Append(events, e) ELSE events
    /\ UNCHANGED <<pc, streamers, activeGames, scheduling, claiming, active,
                   eventsOut, environment, history>>

\* pollOnlineStatus (app.go:1495-1512)
SendOnlineStatus ==
    \E l \in Logins :
        \/ \E g \in Games : SendEvent([type |-> "online", login |-> l, game |-> g])
        \/ SendEvent([type |-> "offline", login |-> l])

\* pollGameStreams and rotateStalledDropStreamerIfNeeded (app.go:1047, 1411)
SendUpdateStreamers ==
    \E r \in Rosters : SendEvent([type |-> "update_streamers", roster |-> r])

\* Run and checkAndClaimDropsWithCampaignRefresh send it only with drops enabled
SendActiveGames ==
    /\ ClaimDrops
    /\ \E gs \in GameLists : SendEvent([type |-> "active_games", games |-> gs])

\* loadChannelPointEvents (app.go:1869-1881)
SendChannelPoints ==
    \/ \E l \in Logins, b \in Balances :
          SendEvent([type |-> "balance", login |-> l, amount |-> b])
    \/ \E c \in Claims :
          SendEvent([type |-> "bonus_available", login |-> ClaimLogin[c], claim |-> c])

\* The engine's own input API, exercised by engine_test.go:32-80
SendStreak == \E l \in Logins : SendEvent([type |-> "streak", login |-> l])

SendPoints ==
    \E l \in Logins, a \in PointGains :
        /\ stored[l].points < MaxPoints
        /\ l \in DOMAIN streamers => streamers[l].points < MaxPoints
        /\ SendEvent([type |-> "points", login |-> l, amount |-> a])

\* Events the engine only passes on: a claimed drop, a chat mention
SendNotice ==
    \E l \in Logins, t \in {"drop_claimed", "chat_mention"} :
        SendEvent([type |-> t, login |-> l])

Cancel ==
    /\ ~cancelled
    /\ cancelled' = TRUE
    /\ UNCHANGED <<pc, streamers, activeGames, scheduling, claiming, active,
                   events, eventsOut, stored, redeemed, history>>

-----------------------------------------------------------------------------
(* The output channel.                                                       *)

\* emit: a full channel loses the event.
Emit(e) ==
    IF Len(eventsOut) < OutCap
    THEN eventsOut' = Append(eventsOut, e) /\ dropped' = dropped
    ELSE eventsOut' = eventsOut /\ dropped' = TRUE

Seen(v, e) ==
    CASE e.type = "watch_start" -> v \cup {e.login}
      [] e.type = "watch_stop"  -> v \ {e.login}
      [] OTHER                  -> v

\* The consumer in App.Run (app.go:455-581); view is what it has been told.
Consume ==
    /\ eventsOut # <<>>
    /\ view' = Seen(view, Head(eventsOut))
    /\ eventsOut' = Tail(eventsOut)
    /\ UNCHANGED <<pc, streamers, activeGames, scheduling, claiming, active,
                   events, environment, dropped>>

-----------------------------------------------------------------------------
(* reschedule, in the order other goroutines can observe: the starts are     *)
(* emitted, then the stops, each in map order, and only then is the new      *)
(* active set published.                                                     *)

\* Variant: every channel selected is reported.
RescheduleStartsAll(st, games) ==
    /\ pc' = "rescheduling"
    /\ streamers' = st
    /\ activeGames' = games
    /\ \E selected \in Selections(st, games) :
          /\ target' = selected
          /\ starts' = selected
          /\ stops' = active \ selected

\* Variant: the channels dropped from the set are not reported.
RescheduleStartsOnly(st, games) ==
    /\ pc' = "rescheduling"
    /\ streamers' = st
    /\ activeGames' = games
    /\ \E selected \in Selections(st, games) :
          target' = selected /\ starts' = selected \ active
    /\ stops' = {}

Reschedule(st, games) ==
    /\ pc' = "rescheduling"
    /\ streamers' = st
    /\ activeGames' = games
    /\ \E selected \in Selections(st, games) :
          /\ target' = selected
          /\ starts' = selected \ active
          /\ stops' = active \ selected

EmitStart ==
    /\ pc = "rescheduling"
    /\ \E l \in starts :
          /\ Emit([type |-> "watch_start", login |-> l])
          /\ starts' = starts \ {l}
    /\ UNCHANGED <<pc, streamers, activeGames, target, stops, claiming, active,
                   events, environment, view>>

EmitStop ==
    /\ pc = "rescheduling" /\ starts = {}
    /\ \E l \in stops :
          /\ Emit([type |-> "watch_stop", login |-> l])
          /\ stops' = stops \ {l}
    /\ UNCHANGED <<pc, streamers, activeGames, target, starts, claiming, active,
                   events, environment, view>>

\* Variant: the Watching flag is set and never cleared.
PublishSetsOnly ==
    /\ pc = "rescheduling" /\ starts = {} /\ stops = {}
    /\ pc' = "waiting"
    /\ active' = target
    /\ streamers' = [l \in DOMAIN streamers |->
                        [streamers[l] EXCEPT !.watching = @ \/ l \in target]]
    /\ UNCHANGED <<activeGames, scheduling, claiming, events, eventsOut,
                   environment, history>>

Publish ==
    /\ pc = "rescheduling" /\ starts = {} /\ stops = {}
    /\ pc' = "waiting"
    /\ active' = target
    /\ streamers' = [l \in DOMAIN streamers |->
                        [streamers[l] EXCEPT !.watching = l \in target]]
    /\ UNCHANGED <<activeGames, scheduling, claiming, events, eventsOut,
                   environment, history>>

-----------------------------------------------------------------------------
(* Run: the first reschedule, then the select loop and handleEvent.          *)

Start ==
    /\ pc = "starting"
    /\ Reschedule(streamers, activeGames)
    /\ UNCHANGED <<claiming, active, events, eventsOut, environment, history>>

\* The ticker case
Tick ==
    /\ pc = "waiting"
    /\ Reschedule(streamers, activeGames)
    /\ UNCHANGED <<claiming, active, events, eventsOut, environment, history>>

\* Variant: the queue is drained before the engine stops.
StopWhenDrained ==
    /\ pc = "waiting" /\ cancelled /\ events = <<>>
    /\ pc' = "stopped"
    /\ UNCHANGED <<streamers, activeGames, scheduling, claiming, active, events,
                   eventsOut, environment, history>>

\* The ctx.Done() case; the deferred close(eventsOut) ends the consumer's loop.
Stop ==
    /\ pc = "waiting" /\ cancelled
    /\ pc' = "stopped"
    /\ UNCHANGED <<streamers, activeGames, scheduling, claiming, active, events,
                   eventsOut, environment, history>>

Receive(types) ==
    /\ pc = "waiting"
    /\ events # <<>>
    /\ Head(events).type \in types
    /\ events' = Tail(events)

StreamerEvents == {"online", "offline", "streak", "points", "balance"}

Known(login) == login \in DOMAIN streamers

\* An event for a login that is no longer listed is discarded.
HandleUnknown ==
    /\ Receive(StreamerEvents)
    /\ ~Known(Head(events).login)
    /\ UNCHANGED <<pc, streamers, activeGames, scheduling, claiming, active,
                   eventsOut, environment, history>>

HandleOnline ==
    /\ Receive({"online"})
    /\ LET e == Head(events)
       IN  /\ Known(e.login)
           /\ Reschedule([streamers EXCEPT ![e.login].online = TRUE,
                                           ![e.login].game = e.game], activeGames)
    /\ UNCHANGED <<claiming, active, eventsOut, environment, history>>

\* Variant: the channel is marked offline and the next tick left to notice.
HandleOfflineLazily ==
    /\ Receive({"offline"})
    /\ LET l == Head(events).login
       IN  /\ Known(l)
           /\ streamers' = [streamers EXCEPT ![l].online = FALSE]
    /\ UNCHANGED <<pc, activeGames, scheduling, claiming, active, eventsOut,
                   environment, history>>

HandleOffline ==
    /\ Receive({"offline"})
    /\ LET l == Head(events).login
       IN  /\ Known(l)
           /\ Reschedule([streamers EXCEPT ![l].online = FALSE,
                                           ![l].streakReady = FALSE], activeGames)
    /\ UNCHANGED <<claiming, active, eventsOut, environment, history>>

HandleStreak ==
    /\ Receive({"streak"})
    /\ LET l == Head(events).login
       IN  /\ Known(l)
           /\ Reschedule([streamers EXCEPT ![l].streakReady = TRUE], activeGames)
    /\ UNCHANGED <<claiming, active, eventsOut, environment, history>>

\* RecordPointGain as the engine uses it: its failure is only logged.
Record(login, amount, claims) ==
    \/ stored' = [stored EXCEPT ![login].points = @ + amount,
                                ![login].bonusClaims = @ + claims]
    \/ stored' = stored

HandlePoints ==
    /\ Receive({"points"})
    /\ LET e == Head(events)
       IN  /\ Known(e.login)
           /\ Record(e.login, e.amount, 0)
           /\ Reschedule([streamers EXCEPT ![e.login].points = @ + e.amount],
                         activeGames)
    /\ UNCHANGED <<claiming, active, eventsOut, cancelled, redeemed, history>>

HandleBalance ==
    /\ Receive({"balance"})
    /\ LET e == Head(events)
       IN  /\ Known(e.login)
           /\ Reschedule([streamers EXCEPT ![e.login].points = e.amount], activeGames)
    /\ UNCHANGED <<claiming, active, eventsOut, environment, history>>

\* handleUpdateStreamers: a listed login keeps its state under its new entry, a
\* new one "was discovered as live".
HandleUpdateStreamers ==
    /\ Receive({"update_streamers"})
    /\ LET r == Head(events).roster
       IN  Reschedule(
             [l \in DOMAIN r |->
                IF Known(l)
                THEN [streamers[l] EXCEPT !.priority = r[l].priority, !.game = r[l].game]
                ELSE NewState(r[l], TRUE)],
             activeGames)
    /\ UNCHANGED <<claiming, active, eventsOut, environment, history>>

\* Variant: the list is stored and no selection made.
HandleActiveGamesLazily ==
    /\ Receive({"active_games"})
    /\ activeGames' = Head(events).games
    /\ UNCHANGED <<pc, streamers, scheduling, claiming, active, eventsOut,
                   environment, history>>

HandleActiveGames ==
    /\ Receive({"active_games"})
    /\ Reschedule(streamers, Head(events).games)
    /\ UNCHANGED <<claiming, active, eventsOut, environment, history>>

HandleNotice ==
    /\ Receive({"drop_claimed", "chat_mention"})
    /\ Emit(Head(events))
    /\ UNCHANGED <<pc, streamers, activeGames, scheduling, claiming, active,
                   environment, view>>

\* handleBonusAvailable up to its call of ClaimBonus.
HandleBonusAvailable ==
    /\ Receive({"bonus_available"})
    /\ \/ /\ ~ClaimBonuses
          /\ UNCHANGED <<pc, claiming, eventsOut, dropped>>
       \/ /\ ClaimBonuses /\ DryRun
          /\ Emit([type |-> "bonus_claimed", login |-> Head(events).login])
          /\ UNCHANGED <<pc, claiming>>
       \/ /\ ClaimBonuses /\ ~DryRun
          /\ pc' = "claiming"
          /\ claiming' = {Head(events)}
          /\ UNCHANGED <<eventsOut, dropped>>
    /\ UNCHANGED <<streamers, activeGames, scheduling, active, environment, view>>

\* ClaimBonus succeeds: the service honours a claim id at most once. The gain is
\* applied to the streamer if it is listed and recorded either way; nothing is
\* rescheduled. What the claimer returns without an error is claimed
\* (channelpoints/gql.go:62-69), so the test of result.Claimed always succeeds.
BonusClaimed ==
    /\ pc = "claiming"
    /\ \E e \in claiming :
          /\ e.claim \notin redeemed
          /\ redeemed' = redeemed \cup {e.claim}
          /\ Record(e.login, BonusPoints, 1)
          /\ streamers' = [l \in DOMAIN streamers |->
                IF l = e.login
                THEN [streamers[l] EXCEPT !.points = @ + BonusPoints]
                ELSE streamers[l]]
          /\ Emit([type |-> "bonus_claimed", login |-> e.login])
    /\ pc' = "waiting" /\ claiming' = {}
    /\ UNCHANGED <<activeGames, scheduling, active, events, cancelled, view>>

\* Variant: the gain is recorded although the call failed.
BonusFailedRecorded ==
    /\ pc = "claiming"
    /\ redeemed' = redeemed
    /\ \E e \in claiming : Record(e.login, BonusPoints, 1)
    /\ pc' = "waiting" /\ claiming' = {}
    /\ UNCHANGED <<streamers, activeGames, scheduling, active, events, eventsOut,
                   cancelled, history>>

\* ClaimBonus returns an error: the claim was refused, or honoured but the
\* answer was lost.
BonusFailed ==
    /\ pc = "claiming"
    /\ \/ redeemed' = redeemed
       \/ redeemed' = redeemed \cup {e.claim : e \in claiming}
    /\ pc' = "waiting" /\ claiming' = {}
    /\ UNCHANGED <<streamers, activeGames, scheduling, active, events, eventsOut,
                   cancelled, stored, history>>

HandleEvent ==
    \/ HandleUnknown \/ HandleOnline \/ HandleOffline \/ HandleStreak
    \/ HandlePoints \/ HandleBalance \/ HandleUpdateStreamers
    \/ HandleActiveGames \/ HandleNotice \/ HandleBonusAvailable

Produce ==
    \/ SendOnlineStatus \/ SendUpdateStreamers \/ SendActiveGames
    \/ SendChannelPoints \/ SendStreak \/ SendPoints \/ SendNotice

Engine ==
    \/ Start \/ Tick \/ Stop \/ HandleEvent
    \/ EmitStart \/ EmitStop \/ Publish
    \/ BonusClaimed \/ BonusFailed

Next == Produce \/ Cancel \/ Consume \/ Engine

Spec == Init /\ [][Next]_vars

\* The goroutine runs, ClaimBonus returns (its HTTP client has a timeout), and
\* Go's select chooses at random among the ready cases, so that none which is
\* ready again and again is passed over for ever.
Fairness ==
    /\ WF_vars(Start \/ EmitStart \/ EmitStop \/ Publish)
    /\ WF_vars(BonusClaimed \/ BonusFailed)
    /\ SF_vars(HandleEvent)
    /\ SF_vars(Stop)
    /\ WF_vars(Consume)

FairSpec == Spec /\ Fairness

-----------------------------------------------------------------------------
(* Properties                                                                *)

\* Every variable holds a value of its type.
TypeOK ==
    /\ pc \in PCs
    /\ DOMAIN streamers \subseteq Logins
    /\ streamers \in [DOMAIN streamers -> StreamerState]
    /\ activeGames \in Seq(Games)
    /\ target \subseteq Logins /\ starts \subseteq Logins /\ stops \subseteq Logins
    /\ active \subseteq Logins
    /\ claiming \subseteq BonusEvents
    /\ events \in Seq(InEvents)
    /\ eventsOut \in Seq(LoginEvents(OutTypes))
    /\ cancelled \in BOOLEAN
    /\ stored \in [Logins -> [points : Int, bonusClaims : Nat]]
    /\ redeemed \subseteq Claims
    /\ view \subseteq Logins
    /\ dropped \in BOOLEAN

\* Twitch credits drops on one channel at a time: whatever events arrive in
\* whatever order, the published set and the one being published hold at most
\* one channel that is not a configured one (priority.go:102-108).
OneDynamic ==
    /\ \A a, b \in active \ StaticLogins : a = b
    /\ \A a, b \in target \ StaticLogins : a = b

\* Between two events the three records of what is watched agree: the active
\* set, the Watching flags (engine.go:154-164) and what a fresh selection over
\* the present streamers would choose again. In particular a tick with nothing
\* new changes nothing, although the flags it ranks by have changed.
SelectionStable ==
    pc = "waiting" =>
        /\ active \in Selections(streamers, activeGames)
        /\ active = {l \in DOMAIN streamers : streamers[l].watching}

\* The type of the last event of a queue that is about l and of one of these types,
\* if there is one.
LastWord(queue, l, types) ==
    {queue[i].type : i \in
        {i \in DOMAIN queue :
            /\ queue[i].type \in types /\ queue[i].login = l
            /\ \A j \in DOMAIN queue :
                  (queue[j].type \in types /\ queue[j].login = l) => j <= i}}

\* The logins the consumer will hold as watched once it has read everything
\* that has been emitted.
Reported ==
    {l \in Logins : LET word == LastWord(eventsOut, l, {"watch_start", "watch_stop"})
                    IN  word = {"watch_start"} \/ (word = {} /\ l \in view)}

\* As long as no output event was lost, the reports add up to the active set,
\* at every point of a reschedule: what is still to be emitted is exactly the
\* difference (engine.go:117-152).
ReportsAddUp ==
    ~dropped => Reported = ((active \cup (target \ active)) \ starts)
                              \ ((active \ target) \ stops)

\* The consumer is not told what it knows: as long as no output event was lost, a start
\* it reads is of a channel that it did not hold as watched, a stop of one that it did
\* (engine.go:117-152).
ReportsAlternate ==
    [][ (/\ Consume /\ ~dropped
         /\ Head(eventsOut).type \in {"watch_start", "watch_stop"})
           => view' # view ]_vars

\* A watched streamer is not exchanged for another of the same game while it
\* stays listed and online: progress on a drop is not scattered by a streak or
\* a better list position (priority.go:19-30 ranks Watching first).
SameGameKept ==
    [][ \A l \in active \ StaticLogins, k \in active' \ StaticLogins :
          (l # k /\ Known(l) /\ streamers[l].online)
            => streamers[k].game # streamers[l].game ]_active

\* With drops enabled the watched dynamic channel plays the first of the active
\* games that anyone listed is live on (priority.go:70-81).
BestGameServed ==
    (pc = "waiting" /\ ClaimDrops) =>
        \A i \in DOMAIN activeGames, l \in DOMAIN streamers :
            (/\ l \notin StaticLogins
             /\ streamers[l].online
             /\ streamers[l].game = activeGames[i])
              => \E k \in active \ StaticLogins, j \in DOMAIN activeGames :
                    j <= i /\ streamers[k].game = activeGames[j]

\* The store never holds a bonus the service did not honour, however often the
\* same claim id is queued; and a dry run claims and records none
\* (engine.go:328-337, 366-379).
BonusesBacked ==
    /\ \A l \in Logins :
          stored[l].bonusClaims <= Cardinality({c \in redeemed : ClaimLogin[c] = l})
    /\ DryRun => redeemed = {}

\* Once the context is cancelled the engine stops.
CancelStops == cancelled ~> pc = "stopped"

\* An offline event at the head of the queue ends the watching of its channel.
OfflineUnwatched ==
    \A l \in Logins :
        (events # <<>> /\ Head(events) = [type |-> "offline", login |-> l])
            ~> (l \notin active \/ pc = "stopped")

\* The engine acts on what it is told, even in the middle of a reschedule or blocked
\* in a claim, and with events still queued (engine.go:104-152, 210-240, 307-379).
EngineAnswers == CancelStops /\ OfflineUnwatched
=============================================================================
