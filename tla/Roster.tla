------------------------------- MODULE Roster -------------------------------
(***************************************************************************)
(* The App's list of streamers and the three goroutines that change it or   *)
(* report on it to the engine (internal/app/app.go):                        *)
(*                                                                          *)
(*   pollOnlineStatus  asks Twitch who is live and reports the edges;       *)
(*   pollGameStreams   replaces the discovered part of the list;            *)
(*   pollDrops         rotates away from a streamer whose drop progress has *)
(*                     stalled (when it has is left open here).             *)
(*                                                                          *)
(* It is composed with the engine, which does the rest: its producers are   *)
(* replaced by these goroutines.  Each critical section of streamersMu is   *)
(* one action, except the one in pollOnlineStatus, which sends an event per *)
(* streamer with the lock held and is one action per streamer.              *)
(*                                                                          *)
(* What the consumer of the engine's output does is left out: emit never    *)
(* blocks, and nothing here reads that channel.                             *)
(***************************************************************************)
EXTENDS Engine

CONSTANTS
    StaticOrder,    \* the configured logins, in the order of the configuration
    Ranking,        \* App.activeGames, or the configured priority games
    NoGame,         \* the empty game name of a streamer never seen live
    Offline,        \* what the service knows of a channel that is not live
    InitialDynamic, \* the streamers Run's own discovery found, as a sequence
    MaxChanges,     \* bound: how often channels go live, offline or change game
    MaxRotations    \* bound: how often a stalled streamer is rotated away

\* A discovered streamer, and the lists of them: a pass takes each login once.
Found == [login : Logins \ StaticLogins, game : Games]

Lists == {list \in UNION {[1..n -> Found] : n \in 0..Cardinality(Logins \ StaticLogins)} :
             \A i, j \in DOMAIN list : list[i].login = list[j].login => i = j}

DynamicLogins(list) == {list[i].login : i \in DOMAIN list}

\* The list of the configured streamers, playing the games g, and the discovered.
CombinedOf(g, list) ==
    [l \in StaticLogins \cup DynamicLogins(list) |->
        IF l \in StaticLogins
        THEN LET i == CHOOSE i \in DOMAIN StaticOrder : StaticOrder[i] = l
             IN  [priority |-> i - 1, game |-> g[l]]
        ELSE LET i == CHOOSE i \in DOMAIN list : list[i].login = l
             IN  [priority |-> Len(StaticOrder) + i - 1, game |-> list[i].game]]

ASSUME StaticOrderAssumption ==
    /\ StaticOrder \in Seq(StaticLogins)
    /\ \A l \in StaticLogins : \E i \in DOMAIN StaticOrder : StaticOrder[i] = l
    /\ \A i, j \in DOMAIN StaticOrder : StaticOrder[i] = StaticOrder[j] => i = j
ASSUME RankingAssumption ==
    Ranking \in Seq(Games \ {NoGame}) /\ Ranking \in GameLists
ASSUME NamesAssumption == NoGame \in Games /\ Offline \notin Games
ASSUME InitialDynamicAssumption ==
    /\ InitialDynamic \in Lists
    /\ \A i \in DOMAIN InitialDynamic : InitialDynamic[i].game # NoGame
    /\ DOMAIN InitialRoster =
          StaticLogins \cup DynamicLogins(InitialDynamic)
ASSUME LoginsFinite == IsFiniteSet(Logins)
ASSUME RostersComplete ==
    \A g \in [StaticLogins -> Games], list \in Lists : CombinedOf(g, list) \in Rosters
ASSUME BoundsAssumption == MaxChanges \in Nat /\ MaxRotations \in Nat

VARIABLES
    changes,        \* bounded counters: broadcasts so far,
    rotations,      \*   rotations so far
    live,           \* the service: the game each channel is live on, or Offline
    booted,         \* Run has sent its initial events
    staticGame,     \* GameName of each entry of App.staticStreamers
    dynamic,        \* App.dynamicStreamers
    cooldown,       \* logins whose entry of rotatedStreamerCooldowns holds
    online,         \* pollOnlineStatus' local map
    poll,           \* pollOnlineStatus: where it is, with its locals
    disc,           \* pollGameStreams: where it is, with its locals
    rot,            \* rotateStalledDropStreamerIfNeeded: where it is
    raced,          \* history: rotated while the pass that lists them was on
    lost            \* history: an input event was lost to a full channel

counters == <<changes, rotations>>
appVars == <<changes, rotations, live, booted, staticGame, dynamic, cooldown, online,
             poll, disc, rot, raced, lost>>
engineVars == vars
rosterVars == <<vars, appVars>>

-----------------------------------------------------------------------------
(* The list.                                                                 *)

\* Variant: the discovered streamers are numbered from the front again.
CombinedRenumbered ==
    [l \in StaticLogins \cup DynamicLogins(dynamic) |->
        IF l \in StaticLogins THEN CombinedOf(staticGame, dynamic)[l]
        ELSE [CombinedOf(staticGame, dynamic)[l] EXCEPT !.priority = @ - Len(StaticOrder)]]

\* getCombinedStreamers, as the engine reads it: configured streamers first.
Combined == CombinedOf(staticGame, dynamic)

\* The logins of the list, in its order.
Listing == StaticOrder \o [i \in DOMAIN dynamic |-> dynamic[i].login]

\* streamersMu is free: only pollOnlineStatus keeps it from one action to another.
LockFree == poll.at # "applying"

Send(e) ==
    /\ SendEvent(e)
    /\ lost' = (lost \/ Len(events) >= EventCap)

SendRoster(roster) == Send([type |-> "update_streamers", roster |-> roster])

-----------------------------------------------------------------------------
Idle == [at |-> "idle"]

RosterInit ==
    /\ Init
    /\ changes = 0 /\ rotations = 0
    /\ live = [l \in Logins |->
                 IF \E i \in DOMAIN InitialDynamic : InitialDynamic[i].login = l
                 THEN InitialDynamic[CHOOSE i \in DOMAIN InitialDynamic :
                                       InitialDynamic[i].login = l].game
                 ELSE Offline]
    /\ booted = FALSE
    /\ staticGame = [l \in StaticLogins |-> NoGame]
    /\ dynamic = InitialDynamic
    /\ cooldown = {}
    /\ online = [l \in Logins |-> FALSE]
    /\ poll = Idle /\ disc = Idle /\ rot = Idle
    /\ raced = {} /\ lost = FALSE

\* Run's initial ActiveGames event precedes every goroutine (app.go:394-400); only
\* with drops enabled is there a list to send.
Boot ==
    /\ ~booted
    /\ booted' = TRUE
    /\ IF ClaimDrops /\ Ranking # <<>>
       THEN Send([type |-> "active_games", games |-> Ranking])
       ELSE UNCHANGED <<lost, engineVars>>
    /\ UNCHANGED <<counters, live, staticGame, dynamic, cooldown, online, poll, disc, rot, raced>>

\* A channel goes live, changes its game or goes offline.
Broadcast ==
    /\ booted
    /\ changes < MaxChanges /\ changes' = changes + 1
    /\ \E l \in Logins, g \in (Games \ {NoGame}) \cup {Offline} :
          live[l] # g /\ live' = [live EXCEPT ![l] = g]
    /\ UNCHANGED <<rotations, booted, staticGame, dynamic, cooldown, online, poll, disc, rot,
                   raced, lost, engineVars>>

-----------------------------------------------------------------------------
(* pollOnlineStatus                                                          *)

PollStart ==
    /\ booted /\ poll = Idle /\ Listing # <<>>
    /\ poll' = [at |-> "asking", todo |-> Listing]
    /\ UNCHANGED <<counters, live, booted, staticGame, dynamic, cooldown, online, disc, rot,
                   raced, lost, engineVars>>

\* GetAllStreams answers for the streamers of the snapshot.
PollAnswer ==
    /\ poll.at = "asking"
    /\ poll' = [at |-> "answered", todo |-> poll.todo, streams |-> live]
    /\ UNCHANGED <<counters, live, booted, staticGame, dynamic, cooldown, online, disc, rot,
                   raced, lost, engineVars>>

\* It fails: the previous online state is kept.
PollFail ==
    /\ poll.at = "asking"
    /\ poll' = Idle
    /\ UNCHANGED <<counters, live, booted, staticGame, dynamic, cooldown, online, disc, rot,
                   raced, lost, engineVars>>

\* Variant: the edge is taken against the engine's published selection.
ReportEdgeOfActive(l, was, game) ==
    CASE game # Offline /\ l \notin active -> Send([type |-> "online", login |-> l, game |-> game])
      [] game = Offline /\ l \in active -> Send([type |-> "offline", login |-> l])
      [] OTHER -> UNCHANGED <<lost, engineVars>>

\* The edge between the last poll and this one, if there is one.
ReportEdge(l, was, game) ==
    CASE game # Offline /\ ~was -> Send([type |-> "online", login |-> l, game |-> game])
      [] game = Offline /\ was  -> Send([type |-> "offline", login |-> l])
      [] OTHER                  -> UNCHANGED <<lost, engineVars>>

\* One round of the loop over the snapshot, with streamersMu held: the entry of
\* that login is updated in either list if it is still there, the map always is.
PollApply ==
    /\ poll.at \in {"answered", "applying"}
    /\ LET l == Head(poll.todo)
           game == poll.streams[l]
       IN  /\ online' = [online EXCEPT ![l] = game # Offline]
           /\ IF game = Offline THEN UNCHANGED <<staticGame, dynamic>>
              ELSE /\ staticGame' = [k \in StaticLogins |->
                                        IF k = l THEN game ELSE staticGame[k]]
                   /\ dynamic' = [i \in DOMAIN dynamic |->
                                    IF dynamic[i].login = l
                                    THEN [dynamic[i] EXCEPT !.game = game]
                                    ELSE dynamic[i]]
           /\ ReportEdge(l, online[l], game)
    /\ poll' = IF Len(poll.todo) = 1 THEN Idle
               ELSE [poll EXCEPT !.at = "applying", !.todo = Tail(@)]
    /\ UNCHANGED <<counters, live, booted, cooldown, disc, rot, raced>>

-----------------------------------------------------------------------------
(* pollGameStreams and discoverGamesStreamers                                *)

\* A pass starts, unless the current target is still valid and the last pass is
\* not 30 minutes old: time is not modelled, so it may start or not.
DiscoverStart ==
    /\ booted /\ disc = Idle /\ LockFree
    /\ disc' = [at |-> "searching", todo |-> Ranking, failed |-> FALSE, raced |-> {}]
    /\ UNCHANGED <<counters, live, booted, staticGame, dynamic, cooldown, online, poll, rot,
                   raced, lost, engineVars>>

\* Variant: the rotation cooldown is not consulted.
EligibleDespiteCooldown(l) == l \notin StaticLogins

\* A stream of a game is taken unless its channel is configured or cooling down.
Eligible(l) == l \notin StaticLogins /\ l \notin cooldown

\* The search for the next game answers with some of its live streams, in some
\* order; the first game with an eligible one ends the search.
DiscoverGame ==
    /\ disc.at = "searching" /\ disc.todo # <<>>
    /\ LET g == Head(disc.todo)
       IN  \E found \in SUBSET {l \in Logins : live[l] = g} :
             LET targets == {l \in found : Eligible(l)}
             IN  IF targets = {}
                 THEN disc' = [disc EXCEPT !.todo = Tail(@)]
                 ELSE \E order \in {f \in [1..Cardinality(targets) -> targets] :
                                       \A i, j \in DOMAIN f : f[i] = f[j] => i = j} :
                        disc' = [at |-> "found", raced |-> disc.raced,
                                 list |-> [i \in DOMAIN order |->
                                             [login |-> order[i], game |-> g]]]
    /\ UNCHANGED <<counters, live, booted, staticGame, dynamic, cooldown, online, poll, rot,
                   raced, lost, engineVars>>

\* A search fails: the error is remembered and the next game tried, unless the
\* persisted query is gone, which ends the pass.
DiscoverFail ==
    /\ disc.at = "searching" /\ disc.todo # <<>>
    /\ \/ disc' = [disc EXCEPT !.todo = Tail(@), !.failed = TRUE]
       \/ disc' = Idle
    /\ UNCHANGED <<counters, live, booted, staticGame, dynamic, cooldown, online, poll, rot,
                   raced, lost, engineVars>>

\* Variant: a pass that finds nothing keeps the list.
DiscoverNothingKeeps ==
    /\ disc.at = "searching" /\ disc.todo = <<>>
    /\ disc' = Idle
    /\ UNCHANGED <<counters, live, booted, staticGame, dynamic, cooldown, online, poll, rot,
                   raced, lost, engineVars>>

\* No game had a target: an error keeps the list, an answer empties it.
DiscoverNothing ==
    /\ disc.at = "searching" /\ disc.todo = <<>>
    /\ disc' = IF disc.failed THEN Idle
               ELSE [at |-> "found", raced |-> disc.raced, list |-> <<>>]
    /\ UNCHANGED <<counters, live, booted, staticGame, dynamic, cooldown, online, poll, rot,
                   raced, lost, engineVars>>

DiscoverApply ==
    /\ disc.at = "found" /\ LockFree
    /\ dynamic' = disc.list
    /\ raced' = disc.raced
    /\ disc' = [at |-> "applied"]
    /\ UNCHANGED <<counters, live, booted, staticGame, cooldown, online, poll, rot, lost, engineVars>>

DiscoverList ==
    /\ disc.at = "applied" /\ LockFree
    /\ disc' = [at |-> "listed", roster |-> Combined]
    /\ UNCHANGED <<counters, live, booted, staticGame, dynamic, cooldown, online, poll, rot,
                   raced, lost, engineVars>>

DiscoverSend ==
    /\ disc.at = "listed"
    /\ SendRoster(disc.roster)
    /\ disc' = Idle
    /\ UNCHANGED <<counters, live, booted, staticGame, dynamic, cooldown, online, poll, rot, raced>>

-----------------------------------------------------------------------------
(* rotateStalledDropStreamerIfNeeded, once it has decided to rotate          *)

\* activeDynamicDropStreamer: the first discovered streamer that is watched.
Watched == {i \in DOMAIN dynamic : /\ dynamic[i].login \in active
                                   /\ dynamic[i].game # NoGame
                                   /\ \A j \in DOMAIN dynamic :
                                        j < i => dynamic[j].login \notin active}

\* The streamer is read under the lock; what is done about it is done after.
RotatePick ==
    /\ booted /\ rot = Idle /\ LockFree
    /\ rotations < MaxRotations /\ rotations' = rotations + 1
    /\ \E i \in Watched : rot' = [at |-> "picked", login |-> dynamic[i].login]
    /\ UNCHANGED <<changes, live, booted, staticGame, dynamic, cooldown, online, poll, disc,
                   raced, lost, engineVars>>

\* markStreamerRotationCooldown, whether or not the list still has the streamer.
RotateMark ==
    /\ rot.at = "picked" /\ LockFree
    /\ cooldown' = cooldown \cup {rot.login}
    /\ rot' = [at |-> "marked", login |-> rot.login]
    /\ disc' = IF disc.at \in {"searching", "found"}
               THEN [disc EXCEPT !.raced = @ \cup {rot.login}] ELSE disc
    /\ UNCHANGED <<counters, live, booted, staticGame, dynamic, online, poll, raced, lost,
                   engineVars>>

\* The list without the first entry of this login, if it has one.
Without(list, login) ==
    IF login \notin DynamicLogins(list) THEN list
    ELSE LET k == CHOOSE k \in DOMAIN list :
                    /\ list[k].login = login
                    /\ \A i \in DOMAIN list : list[i].login = login => k <= i
         IN  [i \in 1..(Len(list) - 1) |-> IF i < k THEN list[i] ELSE list[i + 1]]

\* removeDynamicStreamer; if the list no longer has it, the engine is not told.
RotateRemove ==
    /\ rot.at = "marked" /\ LockFree
    /\ dynamic' = Without(dynamic, rot.login)
    /\ rot' = IF rot.login \in DynamicLogins(dynamic) THEN [at |-> "removed"] ELSE Idle
    /\ UNCHANGED <<counters, live, booted, staticGame, cooldown, online, poll, disc, raced,
                   lost, engineVars>>

RotateList ==
    /\ rot.at = "removed" /\ LockFree
    /\ rot' = [at |-> "listed", roster |-> Combined]
    /\ UNCHANGED <<counters, live, booted, staticGame, dynamic, cooldown, online, poll, disc,
                   raced, lost, engineVars>>

RotateSend ==
    /\ rot.at = "listed"
    /\ SendRoster(rot.roster)
    /\ rot' = Idle
    /\ UNCHANGED <<counters, live, booted, staticGame, dynamic, cooldown, online, poll, disc, raced>>

\* The 90 minutes are over.
CooldownEnds ==
    /\ \E l \in cooldown : cooldown' = cooldown \ {l}
    /\ UNCHANGED <<counters, live, booted, staticGame, dynamic, online, poll, disc, rot, raced,
                   lost, engineVars>>

-----------------------------------------------------------------------------
PollOnlineStatus == PollStart \/ PollAnswer \/ PollFail \/ PollApply

PollGameStreams ==
    \/ DiscoverStart \/ DiscoverGame \/ DiscoverFail \/ DiscoverNothing
    \/ DiscoverApply \/ DiscoverList \/ DiscoverSend

Rotate == RotatePick \/ RotateMark \/ RotateRemove \/ RotateList \/ RotateSend

EngineStep == booted /\ Engine /\ UNCHANGED appVars

RosterNext ==
    \/ Boot \/ Broadcast \/ CooldownEnds
    \/ PollOnlineStatus \/ PollGameStreams \/ Rotate
    \/ EngineStep

RosterSpec == RosterInit /\ [][RosterNext]_rosterVars

\* The pollers loop for ever, their requests do not fail for ever, and the lock is
\* granted to whoever goes on asking (Go's mutexes do not starve a waiter); the
\* engine runs, and its select serves the event channel again and again.
RosterFairness ==
    /\ WF_rosterVars(Boot)
    /\ WF_rosterVars(PollStart \/ PollApply)
    /\ SF_rosterVars(PollAnswer)
    /\ SF_rosterVars(DiscoverStart \/ DiscoverNothing \/ DiscoverApply
                        \/ DiscoverList \/ DiscoverSend)
    /\ SF_rosterVars(DiscoverGame)
    /\ SF_rosterVars(RotateMark \/ RotateRemove \/ RotateList \/ RotateSend)
    /\ WF_rosterVars(booted /\ (Start \/ EmitStart \/ EmitStop \/ Publish)
                        /\ UNCHANGED appVars)
    /\ SF_rosterVars(booted /\ HandleEvent /\ UNCHANGED appVars)

RosterFairSpec == RosterSpec /\ RosterFairness

-----------------------------------------------------------------------------
(* Properties                                                                *)

\* Whether the engine will hold l as online once it has read all its events.
WillBeOnline(l) ==
    LET word == LastWord(events, l, {"online", "offline"})
    IN  word = {"online"} \/ (word = {} /\ Known(l) /\ streamers[l].online)

\* As long as no event is lost, the engine's idea of a configured channel
\* follows the poller's exactly, although only edges are sent and the streamer
\* lists sent in between come from other goroutines (app.go:1455-1512,
\* engine.go:255-303).
StaticTracked ==
    ~lost => \A l \in StaticLogins : WillBeOnline(l) <=> online[l]

\* A streamer on rotation cooldown is in the list only if the pass that found it
\* was already under way when it was rotated, or while the rotation has
\* marked it and not yet removed it (app.go:1034-1045, 1352).
RotatedStaysOut ==
    \A l \in cooldown \cap DynamicLogins(dynamic) :
        l \in raced \/ (rot.at = "marked" /\ rot.login = l)

\* What app.go:124-125 says of the cooldown: a rotated streamer is kept out
\* until another was picked, instead of being added again.
RotatedIsNotReadded ==
    [][ \A l \in cooldown \cap cooldown' :
          l \in DynamicLogins(dynamic') => l \in DynamicLogins(dynamic) ]_rosterVars

\* These goroutines use the engine the way its specification allows.
EngineSpec == Spec

\* A channel that goes offline for good is not watched for ever, configured or
\* discovered, as long as no event is lost and the requests succeed again and
\* again (the offline edge, or the next discovery pass, takes it away).
OfflineLeaves ==
    \A l \in Logins : (<>[](live[l] = Offline) /\ []~lost) => []<>(l \notin active)
=============================================================================
