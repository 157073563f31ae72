-------------------------------- MODULE Drops --------------------------------
(***************************************************************************)
(* The drops goroutine, pollDrops (app.go:590-782): it polls the inventory, *)
(* claims what is claimable, keeps the list of games worth farming, and     *)
(* decides when the campaign directory is scanned again.                    *)
(*                                                                          *)
(* The service is modelled by what its answers depend on: the minutes       *)
(* credited, the claims honoured and the linked game accounts.  One         *)
(* campaign per game: the drops of a game are the drops of its campaign.    *)
(* Every request is a point where the service may change.  What the poll    *)
(* does about stalled progress is in other modules; the streamer being      *)
(* farmed appears here only as the sticky game of a ranking.                *)
(***************************************************************************)
EXTENDS Ranking

CONSTANTS
    DropIds,
    DropOrder,      \* the order in which the inventory lists them
    GameOf,         \* the game of each drop
    Required,       \* its requiredMinutesWatched
    EndsAt,         \* its earliest deadline
    Needs,          \* drops that must be claimed before it (hasPreconditionsMet)
    GameOrder,      \* the order of the campaign directory
    InitialLinked,  \* games whose account is connected at the start
    AutoStart,      \* watch.auto_start_campaigns
    DryRuns,        \* the values of features.dry_run considered
    MaxNow,         \* bound: how long time passes
    MaxChanges      \* bound: how often an account is linked or unlinked, or the
                    \* process is started again

ASSUME DropsAssumption ==
    /\ DropOrder \in Seq(DropIds)
    /\ GameOf \in [DropIds -> Games]
    /\ Required \in [DropIds -> Nat \ {0}]
    /\ EndsAt \in [DropIds -> Nat \cup {NoDeadline}]
    /\ Needs \in [DropIds -> SUBSET DropIds]
    /\ GameOrder \in Seq(Games)
    /\ InitialLinked \subseteq Games
ASSUME DropsFlags == AutoStart \in BOOLEAN /\ DryRuns \subseteq BOOLEAN
ASSUME DropsBounds == MaxNow \in Nat /\ MaxChanges \in Nat

VARIABLES
    dryRun,             \* features.dry_run, never changed
    \* the service
    now,
    minutes,            \* minutes credited to each drop
    honoured,           \* drops claimed
    linked,             \* games whose account is connected
    changes,            \* bounded counter of changes to linked and of restarts
    \* App
    claimedInstances,   \* drops whose instance is marked as claimed
    unconnectedGames,
    lastDrops,
    activeGames,
    scanDue,            \* nextCampaignScanAt has passed
    \* the poll
    pc,
    drops,              \* its copy of the inventory
    index,              \* the drop the loop is at
    refresh,            \* refreshActiveGames
    sticky,             \* the game farmed when the ranking starts
    \* history
    announced,          \* DropClaimed events sent for each drop
    refused,            \* drops given up because their account is not connected
    failed              \* the last refresh had no successful scan

service == <<now, minutes, honoured, linked, changes>>
knowledge == <<claimedInstances, unconnectedGames>>
ranked == <<lastDrops, activeGames, scanDue, failed>>
local == <<pc, drops, index, refresh, sticky>>
history == <<announced, refused>>
dropsVars == <<dryRun, service, knowledge, ranked, local, history>>

-----------------------------------------------------------------------------
(* The service's answers.                                                    *)

Open(d) == EndsAt[d] = NoDeadline \/ now < EndsAt[d]

PreconditionsMet(d) == Needs[d] \subseteq honoured

\* One drop of GetInventory: it has an instance once its minutes are complete.
InventoryDrop(d) ==
    LET drop == [id |-> d, game |-> GameOf[d], required |-> Required[d],
                 current |-> minutes[d], claimed |-> d \in honoured,
                 claimable |-> d \notin honoured /\ minutes[d] >= Required[d],
                 earnable |-> FALSE, endsAt |-> EndsAt[d]]
    IN  [drop EXCEPT !.earnable =
            ~drop.claimed /\ PreconditionsMet(d) /\ Open(d) /\ Completable(drop, now)]

\* GetInventory lists the drops of the campaigns in progress.
Inventory ==
    LET begun == {d \in DropIds : \E e \in DropIds : GameOf[e] = GameOf[d] /\ minutes[e] > 0}
    IN  Only([i \in DOMAIN DropOrder |-> InventoryDrop(DropOrder[i])],
             {InventoryDrop(d) : d \in begun})

\* A drop as the campaign directory shows it: no progress, and claimed only if the
\* claimed benefits could be fetched.
DirectoryDrop(d, benefits) ==
    [id |-> d, game |-> GameOf[d], required |-> Required[d], current |-> 0,
     claimed |-> benefits /\ d \in honoured, claimable |-> FALSE,
     earnable |-> TRUE, endsAt |-> EndsAt[d]]

\* campaignDetailEarnable
CampaignEarnable(g, benefits) ==
    \E d \in DropIds : /\ GameOf[d] = g
                       /\ ~DirectoryDrop(d, benefits).claimed
                       /\ PreconditionsMet(d) /\ Open(d)
                       /\ Completable(DirectoryDrop(d, benefits), now)

\* GetActiveCampaignGames, over the campaigns whose details could be fetched.
Directory(fetched, benefits) ==
    LET earnable == {g \in fetched : CampaignEarnable(g, benefits)}
        shown    == Only(DropOrder, {d \in DropIds :
                        /\ GameOf[d] \in linked \cap earnable
                        /\ Completable(DirectoryDrop(d, benefits), now)})
    IN  [connected |-> Only(GameOrder, linked \cap earnable),
         unconnected |-> Only(GameOrder, earnable \ linked),
         drops |-> [i \in DOMAIN shown |-> DirectoryDrop(shown[i], benefits)]]

-----------------------------------------------------------------------------
\* A process that has just been started: nothing is known, and a scan is due.
DropsInit ==
    /\ dryRun \in DryRuns
    /\ now = 0
    /\ minutes = [d \in DropIds |-> 0]
    /\ honoured = {}
    /\ linked = InitialLinked /\ changes = 0
    /\ claimedInstances = {} /\ unconnectedGames = {}
    /\ lastDrops = <<>> /\ activeGames = <<>>
    /\ scanDue = TRUE /\ failed = TRUE
    /\ pc = "starting" /\ drops = <<>> /\ index = 1 /\ refresh = FALSE
    /\ sticky = NoGame
    /\ announced = [d \in DropIds |-> 0]
    /\ refused = {}

(* The service, on its own.                                                  *)

Credit ==
    /\ \E d \in DropIds :
          /\ d \notin honoured /\ Open(d) /\ minutes[d] < Required[d]
          /\ minutes' = [minutes EXCEPT ![d] = @ + 1]
    /\ UNCHANGED <<now, honoured, linked, changes, knowledge, ranked, local, history>>

\* The user claims on the web site.
ClaimElsewhere ==
    /\ \E d \in DropIds : /\ minutes[d] >= Required[d] /\ d \notin honoured
                          /\ GameOf[d] \in linked
                          /\ honoured' = honoured \cup {d}
    /\ UNCHANGED <<now, minutes, linked, changes, knowledge, ranked, local, history>>

Link ==
    /\ changes < MaxChanges /\ changes' = changes + 1
    /\ \E g \in Games : linked' = (linked \cup {g}) \ (linked \cap {g})
    /\ UNCHANGED <<now, minutes, honoured, knowledge, ranked, local, history>>

TimePasses ==
    /\ now < MaxNow /\ now' = now + 1
    /\ UNCHANGED <<minutes, honoured, linked, changes, knowledge, ranked, local, history>>

-----------------------------------------------------------------------------
(* Run, before the goroutine starts                                          *)

\* What GetInventory returns: an answer without currentUser is an empty inventory,
\* not an error.
Answers == {Inventory, <<>>}

\* The first inventory is ranked, with a scan, and nothing of it claimed.
InitialFetch ==
    /\ pc = "starting"
    /\ drops' \in Answers /\ lastDrops' = drops'
    /\ pc' = "ranking"
    /\ UNCHANGED <<service, knowledge, activeGames, scanDue, failed, index, refresh, sticky,
                   history>>

\* It fails: the first poll wants a scan.
InitialFetchFails ==
    /\ pc = "starting"
    /\ pc' = "idle"
    /\ UNCHANGED <<service, knowledge, ranked, drops, index, refresh, sticky, history>>

-----------------------------------------------------------------------------
(* pollDrops                                                                 *)

\* nextCampaignScanAt is reached.
ScanFallsDue ==
    /\ ~scanDue /\ scanDue' = TRUE
    /\ UNCHANGED <<service, knowledge, lastDrops, activeGames, failed, local, history>>

\* The inventory timer fires, and the inventory answers; wantScan is read before.
Poll ==
    /\ pc = "idle"
    /\ pc' = "fetching" /\ refresh' = scanDue
    /\ UNCHANGED <<service, knowledge, ranked, drops, index, sticky, history>>

FetchFails ==
    /\ pc = "fetching"
    /\ pc' = "idle" /\ refresh' = FALSE
    /\ UNCHANGED <<service, knowledge, ranked, drops, index, sticky, history>>

Fetch ==
    /\ pc = "fetching"
    /\ pc' = "claiming" /\ drops' = Inventory /\ index' = 1
    /\ UNCHANGED <<service, knowledge, ranked, refresh, sticky, history>>

FetchNothing ==
    /\ pc = "fetching"
    /\ pc' = "claiming" /\ drops' = <<>> /\ index' = 1
    /\ UNCHANGED <<service, knowledge, ranked, refresh, sticky, history>>

\* The loop is at the copy of a drop.
At(d) == pc = "claiming" /\ index \in DOMAIN drops /\ drops[index].id = d

Continue(copy) ==
    /\ drops' = [drops EXCEPT ![index] = copy]
    /\ index' = index + 1

Copy == drops[index]
Unclaimable == [Copy EXCEPT !.claimable = FALSE, !.earnable = FALSE]
AsClaimed == [Unclaimable EXCEPT !.claimed = TRUE]

\* Variant: a drop of an unconnected game is passed over, and no more.
PassUnconnected(d) ==
    /\ At(d) /\ GameOf[d] \in unconnectedGames
    /\ Continue(Unclaimable)
    /\ UNCHANGED <<service, knowledge, ranked, pc, refresh, sticky, history>>

\* A drop of an unconnected game is ignored, and if it is claimable, for good.
SkipUnconnected(d) ==
    /\ At(d) /\ GameOf[d] \in unconnectedGames
    /\ LET given == IF Copy.claimable THEN {d} ELSE {}
       IN  /\ claimedInstances' = claimedInstances \cup given
           /\ refused' = refused \cup given
    /\ Continue(Unclaimable)
    /\ UNCHANGED <<service, unconnectedGames, ranked, pc, refresh, sticky, announced>>

SkipUnclaimable(d) ==
    /\ At(d) /\ GameOf[d] \notin unconnectedGames /\ ~Copy.claimable
    /\ Continue(Copy)
    /\ UNCHANGED <<service, knowledge, ranked, pc, refresh, sticky, history>>

\* An instance marked as claimed is taken for claimed, whatever Twitch says.
SkipMarked(d) ==
    /\ At(d) /\ GameOf[d] \notin unconnectedGames /\ Copy.claimable
    /\ d \in claimedInstances
    /\ Continue(AsClaimed)
    /\ UNCHANGED <<service, knowledge, ranked, pc, refresh, sticky, history>>

Claimable(d) ==
    /\ At(d) /\ GameOf[d] \notin unconnectedGames /\ Copy.claimable
    /\ d \notin claimedInstances

Announce(d) == announced' = [announced EXCEPT ![d] = @ + 1]

\* markDropInstanceClaimed follows the claim whatever its result.
Mark(d) == claimedInstances' = claimedInstances \cup {d}

ClaimDry(d) ==
    /\ Claimable(d) /\ dryRun
    /\ Announce(d) /\ Mark(d) /\ Continue(Copy)
    /\ UNCHANGED <<service, unconnectedGames, ranked, pc, refresh, sticky, refused>>

ClaimSucceeds(d) ==
    /\ Claimable(d) /\ ~dryRun
    /\ d \notin honoured /\ GameOf[d] \in linked
    /\ honoured' = honoured \cup {d}
    /\ Announce(d) /\ Mark(d) /\ Continue(AsClaimed)
    /\ refresh' = TRUE
    /\ UNCHANGED <<now, minutes, linked, changes, unconnectedGames, ranked, pc, sticky, refused>>

ClaimAlreadyDone(d) ==
    /\ Claimable(d) /\ ~dryRun
    /\ d \in honoured
    /\ Mark(d) /\ Continue(AsClaimed)
    /\ refresh' = TRUE
    /\ UNCHANGED <<service, unconnectedGames, ranked, pc, sticky, history>>

\* The account is not connected, or the service gives one of the other reasons that
\* are taken for that: its game is not farmed until a scan says otherwise.
NotConnected(d) ==
    /\ Claimable(d) /\ ~dryRun
    /\ d \notin honoured
    /\ Mark(d) /\ unconnectedGames' = unconnectedGames \cup {GameOf[d]}
    /\ refused' = refused \cup {d}
    /\ Continue(Unclaimable)

\* Variant: a refusal leaves the list as it is until the next scan.
NotConnectedQuietly(d) ==
    /\ NotConnected(d)
    /\ UNCHANGED <<service, ranked, pc, refresh, sticky, announced>>

ClaimNotConnected(d) ==
    /\ NotConnected(d)
    /\ refresh' = TRUE
    /\ UNCHANGED <<service, ranked, pc, sticky, announced>>

Fails(d) ==
    /\ Claimable(d) /\ ~dryRun
    /\ \/ honoured' = honoured
       \/ GameOf[d] \in linked /\ honoured' = honoured \cup {d}
    /\ Mark(d) /\ Continue(Copy)

\* Variant: the event is sent before the error is looked at.
ClaimFailsAnnounced(d) ==
    /\ Fails(d) /\ Announce(d)
    /\ UNCHANGED <<now, minutes, linked, changes, unconnectedGames, ranked, pc, refresh,
                   sticky, refused>>

\* Any other error, before or after the service honoured the claim.
ClaimFails(d) ==
    /\ Fails(d)
    /\ UNCHANGED <<now, minutes, linked, changes, unconnectedGames, ranked, pc, refresh,
                   sticky, history>>

\* activeDynamicDropGame: the streamer in the engine's target, any game as far as
\* this module knows.
StickyGames == Games \cup {NoGame}

\* The end of the loop: lastDrops is replaced; without a reason to refresh the
\* poll is over.
Settle ==
    /\ pc = "claiming" /\ index \notin DOMAIN drops
    /\ lastDrops' = drops
    /\ pc' = IF refresh THEN "ranking" ELSE "idle"
    /\ index' = 1
    /\ drops' = IF refresh THEN drops ELSE <<>>
    /\ sticky' \in IF refresh THEN StickyGames ELSE {NoGame}
    /\ UNCHANGED <<service, knowledge, activeGames, scanDue, failed, refresh, history>>

-----------------------------------------------------------------------------
(* The refresh: sortActiveGames with its scan, the new list, the next scan.  *)

\* What a scan returns, perhaps without some campaigns or without the claimed
\* benefits; with AutoStartCampaigns off there is none.
Scans == IF AutoStart THEN {Directory(fetched, benefits) :
                               fetched \in SUBSET Games, benefits \in BOOLEAN}
         ELSE {NothingScanned}

EndRefresh ==
    /\ pc' = "idle" /\ drops' = <<>> /\ refresh' = FALSE /\ sticky' = NoGame
    /\ UNCHANGED <<service, lastDrops, claimedInstances, index, history>>

\* The scan succeeds.
RankScanned ==
    /\ pc = "ranking" /\ EndRefresh
    /\ \E scan \in Scans :
          /\ activeGames' = SortActiveGames(drops, unconnectedGames, scan, sticky, now)
          /\ unconnectedGames' = AfterScan(unconnectedGames, scan)
    /\ scanDue' = FALSE /\ failed' = FALSE

\* The scan fails: the previous list is kept, or if there is none, the games in
\* progress are listed; the refresh reports failure.
RankUnscanned ==
    /\ pc = "ranking" /\ AutoStart /\ EndRefresh
    /\ activeGames' = IF activeGames # <<>> THEN activeGames
                      ELSE SortActiveGames(drops, unconnectedGames, NothingScanned, sticky, now)
    /\ failed' = TRUE
    /\ UNCHANGED <<scanDue, unconnectedGames>>

-----------------------------------------------------------------------------
Service == Credit \/ ClaimElsewhere \/ Link \/ TimePasses

ClaimLoop ==
    \E d \in DropIds :
        \/ SkipUnconnected(d) \/ SkipUnclaimable(d) \/ SkipMarked(d)
        \/ ClaimDry(d) \/ ClaimSucceeds(d) \/ ClaimAlreadyDone(d)
        \/ ClaimNotConnected(d) \/ ClaimFails(d)

DropsStep ==
    \/ Service \/ ScanFallsDue
    \/ InitialFetch \/ InitialFetchFails
    \/ Poll \/ FetchFails \/ Fetch \/ FetchNothing \/ ClaimLoop \/ Settle
    \/ RankScanned \/ RankUnscanned

\* The process is started again, wherever it was: what it knew is gone.
Restart ==
    /\ changes < MaxChanges /\ changes' = changes + 1
    /\ claimedInstances' = {} /\ unconnectedGames' = {}
    /\ lastDrops' = <<>> /\ activeGames' = <<>>
    /\ scanDue' = TRUE /\ failed' = TRUE
    /\ pc' = "starting" /\ drops' = <<>> /\ index' = 1 /\ refresh' = FALSE
    /\ sticky' = NoGame
    /\ UNCHANGED <<dryRun, now, minutes, honoured, linked, history>>

DropsNext == Restart \/ (DropsStep /\ UNCHANGED dryRun)

DropsSpec == DropsInit /\ [][DropsNext]_dropsVars

\* The process starts, the poll goes on for ever; the inventory does not fail for ever.
DropsFairSpec ==
    /\ DropsSpec
    /\ WF_pc(pc = "starting" /\ pc' \in {"idle", "ranking"})
    /\ WF_dropsVars(Poll /\ UNCHANGED dryRun) /\ SF_dropsVars(Fetch /\ UNCHANGED dryRun)
    /\ WF_dropsVars((ClaimLoop \/ Settle) /\ UNCHANGED dryRun)
    /\ WF_pc(pc = "ranking" /\ pc' = "idle")

-----------------------------------------------------------------------------
(* Properties                                                                *)

\* Every variable keeps its type.
DropsTypeOK ==
    /\ now \in 0..MaxNow /\ changes \in 0..MaxChanges
    /\ minutes \in [DropIds -> Nat]
    /\ honoured \subseteq DropIds /\ linked \subseteq Games
    /\ claimedInstances \subseteq DropIds /\ unconnectedGames \subseteq Games
    /\ lastDrops \in Seq(DropRecords(DropIds)) /\ drops \in Seq(DropRecords(DropIds))
    /\ activeGames \in Seq(Games)
    /\ pc \in {"starting", "idle", "fetching", "claiming", "ranking"}
    /\ index \in 1..(Len(DropOrder) + 1)
    /\ {scanDue, refresh, failed} \subseteq BOOLEAN /\ sticky \in StickyGames
    /\ announced \in [DropIds -> Nat] /\ refused \subseteq DropIds

\* Where each drop is, by the minutes and the claims of the service.
Progress == [d \in DropIds |-> IF d \in honoured THEN "claimed"
                               ELSE IF minutes[d] >= Required[d] THEN "complete" ELSE "open"]

Life == INSTANCE DropLife WITH progress <- Progress, attended <- claimedInstances

\* Drops implements DropLife, with the marks on instances as what was attended to
\* (app.go:628-762).  So a drop is claimed once at most, on a copy of the inventory
\* that may be out of date, and announced once at most, whatever fails, is claimed
\* elsewhere or is polled again.
ImplementsLife == Life!LifeSpec

\* Outside a dry run a drop is announced at most once, and only if the service has
\* honoured its claim (app.go:683-751); this follows from ImplementsLife.
AnnouncedOnce == Life!OnceAndClaimed

\* Between polls, if the last refresh had its scan, no game known to be unconnected
\* is in the list to farm, whether the scan or a refused claim said so
\* (app.go:704-706, 2207-2217, 2296-2305).
ConnectedOnly ==
    pc = "idle" /\ ~failed => ToSet(activeGames) \cap unconnectedGames = {}

\* Discovery is skipped for the game being farmed only if the next ranking, too,
\* would put it first: two functions of two snapshots agree (app.go:1397,
\* 1989-2027, 2067-2087).
KeptIsFirst ==
    \A g \in Games :
        CanKeep(lastDrops, activeGames, g) =>
            Head(Stabilize(activeGames, SnapshotRanks(lastDrops), g)) = g

\* Of two games of one rank the first: among priority games one that has a drop in
\* progress or a campaign, then the configured order; among the others not the one
\* with the larger margin.
Ahead(g, h, offered, spares) ==
    \/ IsPriority(g) /\ g \in offered /\ h \notin offered
    \/ /\ IsPriority(g) /\ (g \in offered <=> h \in offered)
       /\ IndexIn(Priority, g) < IndexIn(Priority, h)
    \/ ~IsPriority(g) /\ ~MoreUrgent(spares, h, g)

\* The order the comments of app.go:2219-2237 promise: better ranks first, within its
\* rank the game being farmed before all, and no game twice.
Ordered(list, scan) ==
    LET inProgress == InProgress(drops, unconnectedGames)
        offered    == inProgress \cup ToSet(scan.connected)
        rank(g)    == Rank(g, inProgress)
        spares     == [g \in Games |->
                         Spares(Considered(drops, unconnectedGames) \cup ToSet(scan.drops),
                                now, g)]
        before(g, h) ==
            \/ rank(g) < rank(h)
            \/ /\ rank(g) = rank(h) /\ g # h
               /\ g = sticky \/ (h # sticky /\ Ahead(g, h, offered, spares))
    IN  \A i, j \in DOMAIN list : i < j => before(list[i], list[j])

RankedInOrder ==
    [][ pc = "ranking" /\ pc' = "idle" /\ ~failed' =>
          \E scan \in Scans :
             /\ unconnectedGames' = AfterScan(unconnectedGames, scan)
             /\ Ordered(activeGames', scan) ]_dropsVars

\* A completed drop does not stay unattended: it is claimed, or its instance is
\* marked, whatever else happens to claims, links and scans (app.go:636-762).  Drops
\* stay completed, claimed and marked, so it is enough that time and again none that
\* is completed is unattended.
CompletedIsAttended ==
    []<>(\A d \in DropIds :
            minutes[d] >= Required[d] => d \in honoured \cup claimedInstances)

\* What inventory.go:252-253 and 261-263 leave to the account error alone: a drop
\* is not tried again only if it was claimed or its account is not connected.
MarkedIsSettled ==
    ~dryRun => claimedInstances \subseteq honoured \cup refused

\* What app.go:606-608 says: a failed scan leaves nextCampaignScanAt in the past so
\* the next poll retries it.
FailedScanIsRetried == pc = "idle" /\ failed => scanDue
=============================================================================
