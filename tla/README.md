# A verification development of TDropFarmer

TDropFarmer watches Twitch channels for one account: it keeps a list of
configured and discovered channels, decides which of them to watch, sends the
watch telemetry, claims drops and channel-point bonuses, and reports what it
does. It is one Go process with a handful of goroutines. This directory holds
TLA+ models of its parts, their TLC configurations, and theorems about them
checked by TLAPS. `PROJECT.json` lists the runs, the code line(s) each
definition stands for, the hazards of the code and the properties about them.

Paths below are relative to `src/internal`. `app.go` is `app/app.go`.

## 1. The system

| component | state | operations | talks to |
|---|---|---|---|
| **Watch engine** `engine/` | streamers with flags, list of games, active set (mutex), two bounded channels | `handleEvent` per event type, ticker, `reschedule`, `ClaimBonus` | fed by every poller through `SendEvent` (never blocks, may discard); reports through `emit` (likewise) to the output consumer; claims through GraphQL; records in the state file |
| **Streamer list** `app.go` 807-993, 1296-1522 | `staticStreamers`, `dynamicStreamers`, cooldowns (one RWMutex); the poller's local online map | `pollOnlineStatus`, `pollGameStreams`, rotation | sends online/offline edges and whole lists to the engine; reads the engine's active set |
| **Drops goroutine** `app.go` 590-782 | marks on instances and games, last inventory, list of games, time of the next scan | inventory poll, claim, escalation to a scan, list of games to the engine | inventory service; ranking; the watchdogs |
| **Ranking** `app.go` 1960-2321 | none | `sortActiveGames`, `stabilizeCurrentFarmingGame`, `canKeepCurrentFarmingGame` | called by the drops goroutine and by discovery |
| **Drop watchdogs** `app.go` 1002-1202 | stall counters, watch-credit snapshot, alert flag | at the end of each drops poll | rotation, auxiliary watch, notifier |
| **Watch telemetry** `app.go` 1532-1797, `twitch/playback` | playback sessions, auxiliary watch on/off and its cancel function (mutex) | minute-watched of the primary and of one auxiliary channel | engine's active set; switched off by the drops goroutine |
| **GraphQL client** `twitch/gql` | the shared limiter's stamps | `Do` with retries, `Wait` | used by every poller and by the engine |
| **Sign-in** `auth/`, `store/token_store.go` | the token file, its backup, temporary files | `ValidToken`, refresh, device login, `Save` | before anything else in `run`; the whole of `login` |
| **Channel points** `app.go` 1799-1885, `twitch/channelpoints` | none | points poll: balances and bonus claims to the engine | engine |
| **Output consumer** `app.go` 455-581 | none of its own | starts and stops chat, notifies | engine's output, chat, notifier |
| **Chat** `app.go` 1895-1952, `twitch/chat` | clients by login (mutex) | start, stop, deferred deletion | engine (mentions) |
| **Notifier** `notify/` | time of the last message (mutex held while sleeping) | `Send` with spacing and one retry | |
| **State file** `store/state_store.go` | points and claims per channel | `RecordPointGain` | engine |
| Discovery, inventory, helix `twitch/` | none | queries and decoding | GraphQL |
| Configuration, command line, logging, proxy, profile | read once or stateless | | |

What is hard in it, and what makes each part correct:

- *Goroutines that report differences.* The online poller sends edges only,
  computed before a request is answered and against its own map, while two other
  goroutines replace the list the engine applies them to. Correct: the engine's
  idea of a configured channel never drifts (`StaticTracked`), and no channel
  that is gone stays watched (`OfflineLeaves`).
- *A selection fed back into itself.* The ranking prefers what is already
  watched. Correct: a reschedule with nothing new changes nothing
  (`SelectionStable`), at most one discovered channel (`OneDynamic`), no
  pointless exchange (`SameGameKept`), the best game (`BestGameServed`).
- *Bounded channels that discard.* Correct: as long as none is lost the reports add
  up (`ReportsAddUp`) and none repeats what is known (`ReportsAlternate`).
- *One decision carried out by three parties.* The engine chooses, the consumer hears of
  it later and starts or stops a chat, the client joins or leaves in its own time.
  Correct: who has heard everything has a client in the chats of the chosen channels
  and in no other, as far as connections allow (`ChatFollows`); and when the context is
  cancelled, at whatever point, all of it ends (`AllEnds`).
- *Claims that fail half-way.* Correct: a drop is claimed at most once and announced
  only with its claim (`ImplementsLife`), every completed drop is attended to
  (`CompletedIsAttended`), unlinked games are left alone (`ConnectedOnly`), a
  recorded bonus was honoured (`BonusesBacked`).
- *Rotation against discovery.* Correct: a rotated streamer comes back only by a
  pass that was under way (`RotatedStaysOut`).
- *Rates, retries, cancellation.* Correct: requests are spaced (`Spaced`), no
  caller sleeps for ever (`SleepBounded`), a cancelled call stops (`LateOnce`),
  the engine stops, and a channel that is off is no longer watched (`EngineAnswers`).
- *Watchdogs over somebody else's counters.* Between two polls minutes are
  credited, drops appear, complete and vanish, the farmer turns to other games, and
  an answer may be empty or lost. Correct: a streamer is rotated away when and only
  when a row of polls of its game showed no credit (`RotatedIfStill`); the user is
  warned of a stall that is one, and once (`NoFalseAlarm`).
- *Goroutines that clean up after themselves.* A chat client deletes its channel's
  entry whosever it is by then. Correct: who stays in a chat can be told to leave,
  and who is to be present is (`PresenceKept`, with the exception it names).
- *A mutex held while sleeping.* Correct: webhook calls keep their distance and obey
  the delay that follows a refusal, whoever sends (`CallsSpaced`).
- *Two uses of one goroutine, and a switch from another.* Correct: the presence on
  an auxiliary channel never holds up the report of the primary (`ReportOnTime`),
  is only sent while those are well received (`AuxiliaryBehindPrimary`), goes round
  (`NobodyPassedOver`), and ends when it is switched off (`NoPresenceOnceDisabled`).
- *One-time refresh tokens, file replacement, crashes.* Correct: the user is
  asked again only for something that went wrong, or for a change of the configured
  client (`AskedPerMishap`), no single
  failure destroys the last copy (`TokenOnDisk`), the client ID matches the token
  (`ClientMatches`), sign-in ends (`SignInEnds`).

## 2. Modules

    Engine <---- Roster <---+               Requests  <-- RequestsProofs
      ^  ^                  |               Telemetry <-- TelemetryProofs
      |  +-- EngineProofs   |               Auth      <-- AuthProofs
      |           ^         |
      |           |         |               Ranking <-- Drops <-- DropsProofs
    Output <--- CompositionProofs                         |
      |           |                                       v implements
      v           v                                    DropLife
     Chat <--- ChatProofs
      ^           ^
      |           |
    Alerts <--- AlertsProofs
      |
      +--> Notifier, StallWatch --> DropProgress, CreditWatch --> DropProgress

An arrow points to what is extended. Roster is Engine with its producers replaced by the
App's goroutines, Output is Engine with its consumer and the chat clients; Drops
implements DropLife under a refinement mapping. Alerts only runs four parts side by
side that have nothing in common but the inventory. How the parts that are apart here
meet in the program: StallWatch decides the rotations that Roster carries out at any
moment, and both watchdogs throw the switch that Telemetry lets be thrown at any moment;
what Output hears makes Notifier act. Each of them is checked against every order of
those signals, so that none rests on an assumption about the sender.

`MC*` modules give constants their values for TLC.

**Engine.** One goroutine, the channels `events` and `eventsOut` with their
capacities, the mutex-guarded `active`, and everybody else as producers that may
send any event at any time. Handling one event is one action up to its call of
`reschedule`; `reschedule` itself is taken apart where other goroutines can look:
one `EmitStart`/`EmitStop` per report, then `Publish`. A bonus claim blocks the
engine between two actions while events pile up. `stored` and `redeemed` are the
state file and the points service. Map iteration order in `selectActive` is a
choice.

**Roster** extends Engine and replaces its producers by `pollOnlineStatus`,
`pollGameStreams` and the rotation, each with its locals (`poll`, `disc`, `rot`).
Each critical section of `streamersMu` is an action; the one of the online poll,
which sends an event per streamer while holding the lock, is one action per
streamer, and the others wait for it. A rotation is picked in one critical section and
marked, removed and listed in three more. Which channels are live changes at any
moment. `EngineSpec` says that the composition uses the engine only as Engine's
specification allows: the engine with producers that can send anything is the
abstract specification, and Roster implements it (checked and proved). At its start
`Boot` sends the list of games only with drops enabled, as `Run` does, and a list of
discovered streamers names each login once.

**Ranking** is the list of games: tiers (in progress or available, with or
without priority), urgency by margin to a deadline, and the game being farmed
moved to the front of its rank. A stable sort is `InOrder`, a set put in the order of
how many members are ahead of each, and a filtering loop is `Only`, a recursive
function; both say what the loops compute in a form that can be reasoned about.
`RankedInOrder` compares the result with the order the comments promise, written
independently of the sorts (`Ahead`). **Drops** is `pollDrops` with
`checkAndClaimDropsWithCampaignRefresh`: a poll fetches the inventory, handles
each drop in turn (a claim is honoured, refused for a missing link or another reason
taken for that, or fails),
and ranks the games after a scan that works, fails or is partial. Before its first poll
the process fetches and ranks an inventory of which nothing is claimed, or fails to
(`InitialFetch`, `InitialFetchFails`). Between any
two requests the service may credit minutes, links may change and time may pass,
and the process may be started again at any point, with nothing remembered.

**DropLife** is what all that comes to for one drop: it is open, complete or claimed;
it is attended to at most once, not while open; and it is announced only in the step
in which its claim is honoured (or pretended, in a dry run). A failed or refused claim
is a `Miss`, a restart a `Forget`. Drops implements it (`ImplementsLife`) with the
minutes and claims of the service as the progress (`Progress`) and the marks on
instances as what was attended to: `claimedInstances` is a set in memory, which is
why a restart may claim again, and why an announcement must hang on the answer of the
claim and not on the mark.

**DropProgress** is what the watchdogs look at: minutes per drop, and which drops an
inventory answer shows. **StallWatch** is `rotateStalledDropStreamerIfNeeded`: per
game a streamer, a snapshot and a count. Its history records, for each game, the row
of polls with one streamer that showed no credit (`still`) and the one before which
nothing at all happened (`frozen`); the count must lie between the two. **CreditWatch**
is `checkWatchCreditWatchdog`: asking and looking at the answer are two steps, and
ages are kept up to the threshold.

**Chat** is `startChat`, `stopChat` and each client's goroutine with its deferred
deletion; starts and stops come in any order, because the engine may discard either.
**Output** says where they come from. Reading one report is a step of the engine's
consumer and of Chat at once (`ReadStart`, `ReadStop`); the two have one context
(`CancelAll`), so that a client started from a report read after the cancellation is
told at birth. `joins` are the channels whose chat is joined (`shouldJoinChat`), fixed
by the configuration. The producers are Engine's, and a mention in a chat is one of the
events that may come at any time.
**Notifier** is `Discord.Send`: the goroutines, the mutex, the sleeps and the answers; a
`Retry-After` that is absent, unusable or too long gives way to the default
(`RetryDelay`).

**Requests** is `Client.Do` and the limiter. A caller reads the clock, takes the
lock some time later (at most `MaxDelay`), is granted a request or sleeps,
and retries after transient failures. `grants` records when requests were
allowed, `late` how many of them after the call's context was done.

**Telemetry** is `processWatchTelemetry`: at a tick the goroutine looks at the
engine's streamer and the configured ones and does one thing - report the primary,
pause, select, or begin a presence. What it looks at may have changed since the
last tick; it looks once, at one instant. Only its requests take time. Instants are
kept as the time left to them, so that time needs no bound. The test of the switch
and `beginAuxiliaryRequest` are two steps, and so are the two halves of
`disableAuxiliaryWatch`, with the mutex between; when the drops goroutine wants to
switch off is left open. `since` is `lastAuxiliaryWatch` reduced to its order.

**Auth** is signing in, over processes started one after the other, each with the
configuration of its own time (`Start`, `Lost`): every
request and every file operation is a step that may fail, and a crash may follow
any step. `mishaps` counts what went wrong, so that properties can say what may
be blamed on it. Tokens are numbers; a refresh token is good for one exchange.
`Add` and `WithDefaults` build the clients a refresh is tried with, in order.

### Correspondence

Actions and helpers have the names of the functions they stand for, or of the
branch of one; `PROJECT.json` `map` gives the lines of each. Comments starting
"Variant:" mark altered forms of a definition, used to see that a property
notices the alteration (`mutants`); no specification uses them.

## 3. What is checked

| run | instance | shows |
|---|---|---|
| `engine_watch` | 1 configured and 2 discovered channels, 2 games, 4 lists, 2 lists of games, 1 bonus, points | `TypeOK`, `OneDynamic`, `SelectionStable`, `BestGameServed`, `SameGameKept`, with every event in every order |
| `output` | 1 discovered channel, its chat joined or not, 2 clients, 1 bonus, points, both channels of capacity 1 | `ReportsAddUp`, `BonusesBacked`, `ReportsAlternate`, `ChatFollows`; under fairness `EngineAnswers` (it stops when cancelled, and ends the watching of a channel that is off) and `AllEnds` |
| `roster_status` | 1 configured, 1 discovered channel, a few broadcasts | `StaticTracked`, and Roster implements `EngineSpec` |
| `roster_rotation` | 1 discovered channel, rotations and broadcasts | `RotatedStaysOut`; `OfflineLeaves` under fairness |
| `roster_readded` | as above | **violated**: a streamer on cooldown is added again (finding) |
| `drops` | 2 games, 2 drops, one that expires, links that change, restarts, with and without dry run | `DropsTypeOK`, `ConnectedOnly`, `KeptIsFirst`, `RankedInOrder`, and Drops implements DropLife (`ImplementsLife`); `CompletedIsAttended` under fairness |
| `drops_marked` | as `drops` | **violated**: a failed claim is never tried again (finding) |
| `drops_escalated` | as `drops` | **violated**: a failed escalated scan is not retried (finding) |
| `requests` | 2 callers, capacity 2, window 3, clocks up to 1 old, 2 attempts | `RequestsTypeOK`, `Spaced`, `SleepBounded`, `LateOnce` |
| `telemetry` | 2 configured channels, one with two broadcasts, 1 discovered, 2 games, tick 2, reports every 4 or 5, lease 8, back-off 6 | `TelemetryTypeOK`, `AuxiliaryBehindPrimary`, `NoPresenceOnceDisabled`, `ReportOnTime`, `NobodyPassedOver` |
| `alerts` | stall: 2 drops of one game, 2 games, 2 streamers, 3 polls; credit: 2 drops, threshold 3; chat: 2 channels, 3 clients; webhook: 3 senders, spacing 2, delays named 1, 3 and 4, of which 4 is too long | `AlertsTypeOK`, `RotatedIfStill`, `NoFalseAlarm`, `PresenceKept`, `CallsSpaced` |
| `sign_in` | 2 processes, 3 client IDs, 2 mishaps | `AuthTypeOK`, `AskedPerMishap`, `ClientMatches`, `TokenOnDisk`; `SignInEnds` under fairness |

**Bounds.** Each is a constant with `bound:` in its comment. Two discovered channels
and two games are what a tie, an exchange and a change of the best game need; capacity
1 makes a full channel a common case. `MaxPoints`, `MaxChanges`, `MaxRotations`,
`MaxNow`, `MaxTime`, `MaxGrants`, `MaxStarts` and `MaxMishaps` limit how often the
environment acts, not what the program may do about it. In `engine_watch` and
`roster_status` a `VIEW` leaves out the output channel and the history, which nothing
the checked properties read depends on. `engine_watch` leaves out points and what was
claimed as well, so that `MaxPoints` is never reached there, and with its
`SchedulingSpec` the steps that its view does not show: the consumer's, and sends to a
full channel. `telemetry` keeps the proportions of the code's times (a unit is about
two and a half seconds) except for the lease and the back-off, which are long enough
for two presences and for a lease of somebody else; two failures stand for three.
`requests` uses the symmetry of the callers, for invariants only. Two processes
suffice for what one leaves to the next; the invariants are proved for any number. `alerts` runs four parts that share nothing side by
side: the variable `part` is chosen at the start and only that part moves, so that
their state spaces add up instead of multiplying. The stall watchdog's five polls are
three there (`StallPolls`, the least with a poll that is neither the first nor the
last of a row); the drops need two minutes and one, so that one can complete while the
other is credited; the second game has no drop. Three chat clients are one ending, its
successor, and a third that finds the entry gone; three senders one calling and two
that wait, with one delay below and one above the spacing. `output` has two clients,
one that ends and its successor, and looks at one question at a time (`Apart`): with
no chat joined the engine hears of everything but mentions; with a chat joined it
hears of the games, the channel going on and off, and lists, which is all that starts
or stops a chat. Points and claims do not move a selection. In `drops`, `MaxChanges`
allows one change of a link or one restart, and `MaxNow` lets the expiring drop's
margin run out.

**Fairness.** The engine goroutine runs, and a claim returns (its HTTP client has a
timeout): weak fairness. Its `select` chooses at random among the ready cases, so a
case that is ready again and again is taken again and again: strong fairness of
handling an event and of stopping. In Output the consumer reads on, and a client whose
context is done leaves and its goroutine ends (weak fairness: dial and handshake are
bound to the context, and a write to a connection is taken to return; `Run` does not
wait for the clients, and when the process exits first they end with it). Nothing is
assumed of cancellations or of a connection succeeding. In Roster the pollers are
timer loops that come round again (weak fairness), requests do not fail for ever
(strong fairness of the answer), and whoever asks for `streamersMu` again and again
gets it, since Go's mutexes do not starve a waiter (strong fairness of the steps that
need it); nothing is assumed of the channels or of a rotation starting. In Drops the process
starts, polls come round and the inventory does not fail for ever; nothing is assumed of claims,
links or scans. In Auth the process takes its steps and the device code runs out;
nothing is assumed of the user or the service.

**Deadlock** is checked in `output`: while the engine is blocked in a claim, or has
stopped, senders and the consumer still go on; in `telemetry`, where time
can always pass or a request return; in `alerts`, where each environment can always
act; and in `drops`, where polls go on. In the other instances the bounds on the
environment end some behaviours (in `engine_watch`, the engine stops and its channel is
full), and the check is off.

**Findings.** Three comments of the source are contradicted by what the code
does; `PROJECT.json` `findings` quotes them. The same model without that
disagreement is what the passing runs check: `RotatedStaysOut` states exactly
when a rotated streamer can be back, `CompletedIsAttended` what holds of claims
in spite of the marks.

Three properties of `alerts` are as weak as the code makes them, and a reader should
know where:

- A chat client that ends deletes the entry of its channel even if a newer client has
  taken it (app.go:1919-1924). The newer one stays in the chat and can no longer be
  told to leave before the process stops; the next start adds another. `PresenceKept`
  calls such a client `robbed`. It takes a stop and a start before the old goroutine
  has ended.
- "At least 1 second between webhook calls" (notify/discord.go:76) is what the code
  does after an answer. A call that failed or timed out leaves `lastSend` as it was,
  the second attempt waits for the delay the service names only, and a second refusal
  names a delay that nobody waits for. `CallsSpaced` says exactly this.
- The snapshot of the stall watchdog takes a drop it has not seen for one at 0 minutes
  (app.go:1192-1202), so that one drop replaced by another at 0 is no change; a game
  keeps its count while other games are farmed; an empty answer counts as an unchanged
  one or resets, as the snapshot before was empty or not. For the watch-credit
  watchdog the answer after an empty one always shows credit, and a minute on a drop
  that is claimed before the next poll is never seen.

## 4. What is proved

Every safety property of the passing runs - each invariant, each action property and
both refinements - is proved for all values of the constants. The inductive
invariants below say why each holds.

`EngineProofs`, for every set of channels, list, list of games and capacity:

- `TypeCorrect`: `Spec => []TypeOK`; `AtMostOneDynamic`: `Spec => []OneDynamic`;
  `StableSelection`: `Spec => []SelectionStable`; `BestGameFirst`:
  `Spec => []BestGameServed`; `GameOfWatchedKept`: `Spec => SameGameKept`.
- The inductive invariant `EngineInv` adds what these rest on: while a reschedule
  is under way, the set to be published is a selection over the *present*
  streamers and games; while the engine waits, or is blocked in a claim, the
  published set is one too and agrees with the flags (`Settled`, which is
  `SelectionStable` carried through the claim, where it is not inductive by
  itself); positions in the list are distinct, so that ranking has a first element
  (`TopExists`, by well-foundedness of the naturals). The step that matters is
  `Publish`: `SelectionSurvivesFlags` shows that marking the selected channels as
  watched can only confirm the selection. That lemma is the reason the farmer
  does not flip between channels from tick to tick. `BestGameServed` needs the list of
  games to have a first one somebody is live on (`FirstGameServed`), and
  `SameGameKept` that a watched channel outranks whoever else plays its game
  (`GameKept`).
- `ReportsComplete`: `Spec => []ReportsAddUp`. `ReportInv` adds that what is still to
  be emitted is part of the difference between the old set and the new (`Pending`),
  and that the flags are those of the old set until the new one is published
  (`Flagged`). What a queue says of a channel is the last word in it about that
  channel (`LastWord`); `LastWordAppend` and `LastWordTail` say how sending and
  receiving change it, and `ReportInv` needs no more of queues.
- `ReportsAreNews`: `Spec => ReportsAlternate`. `AlternateInv` says it of the queue: each
  report in it is news to who has read those before it (`Alternating`, by what is held
  as watched after a part of the queue, `Holds`). That what is emitted is news to who
  reads it last needs `ReportInv`: the engine compares with what it published, not with
  what it reported.
- `BonusesHonoured`: `Spec => []BonusesBacked`. `BonusInv` adds that a claim is queued
  under the channel it belongs to, that at most one is in hand, and that a dry run
  never has one.

`CompositionProofs`, for every configuration, discovery, broadcast and interleaving of the
App's goroutines:

- `PollersUseEngine`: `RosterSpec => EngineSpec`. By it every theorem above holds of
  the engine with its real producers. It rests on `RosterTypeOK`, in particular that
  the lists in the hands of a goroutine (`Sendable`) are well formed and name every
  configured streamer.
- `ConfiguredTracked`: `RosterSpec => []StaticTracked`. `TrackInv` adds that the engine
  lists every configured streamer and so does every list on its way
  (`ConfiguredKnown`): a list then keeps the flag of a configured streamer, so that
  only the poller's edges change it and an edge once sent is never needed again.
- `RotatedKeptOut`: `RosterSpec => []RotatedStaysOut`. `KeptOut` adds that what a pass
  has found holds a rotated streamer only if the rotation came after
  the pass had tested it: nothing tests it again. `ReaddedByRace` says the same of steps:
  the one that brings a streamer on cooldown back, where the comment quoted in the
  finding has it that none does, is a pass under way at the rotation putting its list in
  place.

And for every choice of chats, clients and capacities:

- `OutputUsesBoth`: `OutputSpec => Spec /\ ChatSpec`: what is proved of the engine and of
  the chats holds of the two together. It is proved with the invariant `OutputInv`,
  their invariants and `JoinInv`: the contexts are one, the channels the consumer read as
  started and joins are those Chat holds as watched, and an entry belongs to one of them.
- `ChatFollowsChoice`: `OutputSpec => []ChatFollows`. `HeardIsChosen` turns `ReportsAddUp`
  into an equation of what was heard and what is chosen; Chat's invariant says who is
  then present (`Joined`), and who else may be (`Unlisted`).
- `StartsBegin`: a start that is read begins a client, as long as no report was lost. It
  follows from the reports being news, and shows what the look for an existing entry
  (app.go:1899) is there for: lost reports, and nothing else.

`DropsProofs`, for any drops, games, priorities, deadlines, preconditions and bounds:

- `Drops_ImplementsLife`: `DropsSpec => ImplementsLife`; `Drops_AnnouncedOnce`, from
  it and the invariant of DropLife.
- `DropsInv` is the one fact the refinement rests on, besides types: a copy of the
  inventory may be out of date in everything, but a drop that is claimable in it is
  complete (`CopiesTrue`), since minutes are not taken back (`Credit_Inv`) and the
  loop only makes copies less claimable (`Continue_Copies`). Each kind of step then
  has its lemma saying which step of DropLife it is: `Claim_Step`, `Skip_Step`,
  `Service_Step`, `Poll_Step`, `Restart_Step`.
- `Drops_RankedInOrder`: `DropsSpec => RankedInOrder`, the correctness of
  `sortActiveGames` on any inventory and scan. `InOrderIs` shows that a sort is in
  the order of a relation of which exactly one direction holds between two members and
  which is transitive; `UrgencyIs` and `PositionIs` that the two comparisons
  are of that kind; `PriorityTier` and `UrgentTier` what this makes of each tier;
  `ArrangedJoin` that one tier after the other stays in order; `OnlyElements` and
  `ArrangedOnly` that the filter keeps it; `StabilizeIs` and
  `StabilizedOrder` that moving the farmed game disturbs no other; `SortedIs` is the whole.
- `Drops_ConnectedOnly`: `DropsSpec => []ConnectedOnly`. `ListedConnected` says when the
  list avoids the games known to be unconnected: at all times except after a refused
  claim until the refresh it asks for, and after a refresh that had no scan.
- `Drops_KeptIsFirst`: `DropsSpec => []KeptIsFirst`, which holds of every list and
  inventory (`KeptFirst`).
- `Drops_TypesKept`: `DropsSpec => []DropsTypeOK`; `TypeInv` adds that the copy is no
  longer than the inventory.

`AlertsProofs`, for any drops, games, streamers, `StallPolls` and `Threshold`:

- `Stall_TypeOK`, `Stall_RotatedIfStill`.
  `StallInv`: the minutes remembered are behind those of every drop with an unseen
  credit (`Behind`), equal to what an answer shows while nothing happens (`UpToDate`),
  a game has a state exactly while its last poll kept the streamer (`Followed`), and
  then `frozen <= unchangedPolls + 1 <= still` (`Counted`).
- `Credit_TypeOK`, `Credit_NoFalseAlarm`.
  `CreditInv`: an answer under way lacks and misstates only what is unseen
  (`Truthful`), a credit that was seen is no younger than the last content look
  (`Dated`), and in the quiet after a warning no answer would show a credit
  (`Silent`).
- For any senders, spacing and delays `Notifier_TypeOK`, `Notifier_CallsSpaced`;
  `NotifierInv` adds to mutual exclusion (`Locked`) that a sleep outlasts what it waits
  for (`Waits`, `Obeyed`), and that no call was begun after the last answer unless it is
  under way or failed (`Ordered`).
- `Alerts_TypeOK`: `AlertsSpec => []AlertsTypeOK`, from the invariants of the four parts.

`TelemetryProofs`, for any streamers, sessions, games and times:

- `TelemetryTyped`, `TelemetryPrimaryFirst`, `TelemetrySwitchedOff`,
  `TelemetryOnTime`, `TelemetryFair`.
- `TelemetryInv` adds that a streamer is in sessions of its own, and that until the
  switch is thrown a request in flight has its cancel function set (`SwitchHeld`),
  so that whoever throws it finds it. `OnTime` says how late a report can be: by
  what has passed of the present tick (`late + tickIn < Tick`), because a deadline
  leaves a presence request before the report is due and a missed tick waits in
  the ticker's channel. It needs that reports are some time apart
  (`TimesAssumption`; `watchTelemetryMinInterval` is 18 seconds). `Outwaited` says of a
  streamer that was selected while another could have been that it has been watched
  since that one was, and that one not since: the other is next of the two
  (`NobodyPassedOver`).

`RequestsProofs`, for any number of callers, capacity, window and delay:

- `RequestsTyped`, `RequestsSpaced`, `SleepsBounded`, `OneLateRequest`.
- `RequestsInv` ties the limiter to the history of grants: its stamps are those
  of the last grants (`Suffix`), whatever it has dropped had expired
  (`Expired`), and a stamp is at most `MaxDelay` older than its grant
  (`Stamped`). Stamps need not be sorted, so the trimmed prefix is not all that
  has expired; spacing follows all the same, because with room for one more the
  grant `Capacity` places back must have been dropped (`GrantStep`).

`AuthProofs`, for any clients and any number of processes and mishaps:

- `SignInTypes`, `ClientOfToken` (`ClientMatches`), `TokenStays` (`TokenOnDisk`),
  `AskedOncePerMishap` (`AskedPerMishap`).
- `AuthInv` says what a process holds where it is (`Holdings`, `Stages`), that after a
  device login everything belongs to the configured client (`SecondRound`), and how many
  tokens a process may still be issued (`Left`), so that `Ids` suffices (`Counts`). For
  the disk: the token is in its file, except between the two renames, when the backup
  and the temporary file both have one (`Kept`). For the user: whoever is on the way to
  asking has either a mishap or change nobody has been asked for (`Credit`), or a session that
  carries on, whose refresh token is good for a client that will be tried
  (`Usable`, `Accounted`). That the right client is always among those tried is
  `CandidatesCover`, whatever the file says of its client; that a refused candidate
  cannot be the right one is `AnotherCandidate`.

`ChatProofs`, for any channels and clients: `Chat_TypeOK`, `Chat_PresenceKept`;
`ChatInv` says whose an entry may be (`Owned`) and why a client that runs may have
none (`Unlisted`). `Chat_RobbedByOlder` bounds the exception of `PresenceKept`: a client
loses its entry only in the step in which another client of its channel ends, and that
one had been told to leave or had lost its own entry before. Without a stop and a start
in quick succession there is no first one.

**Assumptions** are the modules' named `ASSUME`s, which every run evaluates. Most give
constants their types. Those that say more: configured logins are named once
(`StaticOrderAssumption`; config/validate.go:43), and so are the priority games
(`PriorityAssumption`; repeating one is allowed but plays no part in the ranking:
`priorityGameIndex` takes the first place and app.go:2283-2292 adds no game twice, so
`Priority` is the list without repetitions); a list of streamers names each login with
a position of its own (`RostersAssumption`; positions are indices, engine.go:255-303);
there are finitely many channels (`LoginsFinite`); the lists the engine may be sent
include every one that the App can put together (`RostersComplete`); the list of games
has no empty name (`RankingAssumption`); the first list is that of the configured
streamers and of what `Run` has discovered (`InitialDynamicAssumption`); chats are of
channels the engine may list (`ChannelsAssumption`).

**Only model-checked**: liveness (`EngineAnswers`, `AllEnds`, `OfflineLeaves`,
`CompletedIsAttended`, `SignInEnds`), which needs fairness and ENABLED; and the three
runs that show a violation.

## 5. What is not modelled

- *What an announcement says*: the campaign named in it (app.go:1205-1289), and the
  pointer into the list it is taken from (app.go:469), which a rotation in between may
  make point to another streamer. Nothing but the text depends on it.
- *The queries of discovery and of the inventory*: what they answer is a choice
  (Roster, Drops), and so is whether discovery checked the campaigns of a channel or
  fell back to any with drops (twitch/discovery).
- *Playback* (twitch/playback): a chain of requests without state; Telemetry keeps its
  duration and outcome.
- *The points poll's schedule*: its back-off decides when events are sent, which
  Engine leaves open.
- *Time in Roster and Drops* beyond the order of events: a timer that is due may
  fire or not. The age of a cooldown or a discovery pass is a choice.
- *Contents*: titles, GraphQL documents and decoding, playback requests, IRC
  lines, log records, messages. None of them decides a transition kept here
  except by the outcome, which is a choice.
- *Two processes at once* on one data directory: the program does not expect it.
- *Polling intervals* of the device login, and refresh answers without a refresh
  token.
- *Configuration, logging, proxy, user agent*: stateless or read once. Their
  values are constants.

After a device login `run` validates again and keeps the token of the login even
if that validation has refreshed it (app.go:276); Auth does the same
(`Valid`). It matters only for tokens issued with less than a minute to live.

## 6. Plan

Done: Engine, Roster, Ranking, Drops, Requests, Telemetry, Auth, in the order of
what the program is for: which channel is watched, what is claimed, then what
carries it; then the watchdogs, the outputs and their composition with the engine, and
the abstract life of a drop; and the proofs of every safety property the runs check,
with the two exceptions they name (`raced`, `robbed`) proved to be what they stand for.

What would come next:

1. **Composition**: StallWatch's decision in place of Roster's free rotations, with the
   cooldown as the only memory of the pair.
2. **A token session** as an abstract specification that Auth implements.
