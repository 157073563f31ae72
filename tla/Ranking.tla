------------------------------- MODULE Ranking -------------------------------
(***************************************************************************)
(* Which games to farm, and in which order: sortActiveGames and the two     *)
(* decisions about the game being farmed (app.go:1960-2321), with what they *)
(* need of inventory.Drop.  These are functions of what the app knows; the  *)
(* module has no state.                                                     *)
(*                                                                          *)
(* A drop is a record; times are minutes.  Games are taken up to gameKey,   *)
(* and the order of a list of games is all that is kept of it.              *)
(***************************************************************************)
EXTENDS Integers, Sequences, SequencesExt

CONSTANTS
    Games,          \* game names
    NoGame,         \* the empty name
    Priority,       \* watch.priority_games, in the configured order
    FallbackAll,    \* watch.fallback_all_campaigns, with drops enabled
    Buffer          \* dropCompletionSafetyBuffer

ASSUME GamesAssumption == NoGame \notin Games
\* A priority game named twice counts at its first place only.
ASSUME PriorityAssumption ==
    /\ Priority \in Seq(Games)
    /\ \A i, j \in DOMAIN Priority : Priority[i] = Priority[j] => i = j
ASSUME RankingFlags == FallbackAll \in BOOLEAN /\ Buffer \in Nat

\* A drop without a known deadline.
NoDeadline == -1

DropRecords(ids) ==
    [id : ids, game : Games, required : Nat, current : Nat, claimed : BOOLEAN,
     claimable : BOOLEAN, earnable : BOOLEAN, endsAt : Nat \cup {NoDeadline}]

-----------------------------------------------------------------------------
(* inventory.Drop                                                            *)

\* The minutes still needed fit before the deadline.
Completable(d, now) ==
    \/ d.endsAt = NoDeadline
    \/ d.required <= d.current
    \/ d.endsAt - now >= d.required - d.current + Buffer

-----------------------------------------------------------------------------
(* The order.                                                                *)

\* The members of a finite set, each after those that are ahead of it.
InOrder(S, ahead) ==
    [k \in 1..Cardinality(S) |-> CHOOSE x \in S : Cardinality(ahead[x]) = k - 1]

\* What is in S of a list.
Only(list, S) ==
    LET upTo[n \in 0..Len(list)] ==
            IF n = 0 THEN <<>>
            ELSE IF list[n] \in S THEN Append(upTo[n - 1], list[n]) ELSE upTo[n - 1]
    IN  upTo[Len(list)]

IsPriority(g) == g \in ToSet(Priority)

IndexIn(list, g) == SelectInSeq(list, LAMBDA x : x = g)

\* noteSpare: the margins of the unclaimed drops of a game that have a deadline.
Spares(drops, now, g) ==
    {d.endsAt - now - Max({d.required - d.current, 0}) :
        d \in {d \in drops : /\ d.game = g /\ ~d.claimed
                             /\ d.endsAt # NoDeadline /\ d.required > 0}}

\* byUrgency: the smaller margin first, games without a deadline last.
MoreUrgent(spares, g, h) ==
    /\ spares[g] # {}
    /\ spares[h] # {} => Min(spares[g]) < Min(spares[h])

\* Variant: the order in which the games were met.
ByMeeting(S, spares, met) ==
    InOrder(S, [g \in S |-> {h \in S : IndexIn(met, h) < IndexIn(met, g)}])

\* A tier of games outside the priority list; the sort is stable, so the order in
\* which the games were met decides among equals.
ByUrgency(S, spares, met) ==
    InOrder(S, [g \in S |-> {h \in S : \/ MoreUrgent(spares, h, g)
                                      \/ /\ ~MoreUrgent(spares, g, h)
                                         /\ IndexIn(met, h) < IndexIn(met, g)}])

\* A tier of priority games; their configured positions are distinct, so that the
\* urgency never has to decide.
ByPosition(S) == Only(Priority, S)

\* The four ranks of app.go:1973-1978.
Rank(g, inProgress) ==
    IF IsPriority(g) THEN (IF g \in inProgress THEN 0 ELSE 1)
    ELSE (IF g \in inProgress THEN 2 ELSE 3)

\* Variant: the sticky game goes first, listed or not.
StabilizeBlindly(list, rank, sticky) ==
    <<sticky>> \o Only(list, Games \ {sticky})

\* stabilizeCurrentFarmingGame: the game being farmed moves to the front of those
\* of its rank.
Stabilize(list, rank, sticky) ==
    LET current == IndexIn(list, sticky)
        insert  == SelectInSeq(list, LAMBDA g : rank[g] >= rank[sticky])
    IN  IF current = 0 \/ insert >= current THEN list
        ELSE SubSeq(list, 1, insert - 1) \o <<sticky>>
               \o SubSeq(list, insert, current - 1)
               \o SubSeq(list, current + 1, Len(list))

-----------------------------------------------------------------------------
(* sortActiveGames                                                           *)

\* What a campaign scan returns; the one of a run without AutoStartCampaigns, or
\* of one that failed, is empty.
NothingScanned == [connected |-> <<>>, unconnected |-> <<>>, drops |-> <<>>]

\* markGameConnected and markGameUnconnected for what the scan found.
AfterScan(unconnected, scan) ==
    (unconnected \ ToSet(scan.connected)) \cup ToSet(scan.unconnected)

\* The drops the ranking looks at: not those of games unconnected before the scan.
Considered(drops, unconnected) == {d \in ToSet(drops) : d.game \notin unconnected}

InProgress(drops, unconnected) ==
    {d.game : d \in {d \in Considered(drops, unconnected) : d.earnable /\ ~d.claimed}}

\* Games that have drops, none of which is worth farming.
Spent(drops, unconnected, scan, now) ==
    LET seen == Considered(drops, unconnected)
    IN  {d.game : d \in seen}
          \ ( {d.game : d \in {d \in seen : ~d.claimed /\ Completable(d, now)}}
              \cup {d.game : d \in {d \in ToSet(scan.drops) :
                                      d.earnable /\ ~d.claimed /\ d.required > 0}} )

\* The list, best game first.  (In the drops of an inventory no drop is both
\* claimed and earnable, so a game is in one tier only.)
SortActiveGames(drops, unconnected, scan, sticky, now) ==
    LET still      == AfterScan(unconnected, scan)
        inProgress == InProgress(drops, unconnected)
        available  == ToSet(scan.connected) \ inProgress
        met        == [i \in DOMAIN drops |-> drops[i].game] \o scan.connected
        spares     == [g \in Games |->
                         Spares(Considered(drops, unconnected) \cup ToSet(scan.drops), now, g)]
        others     == {g \in Games : ~IsPriority(g)}
        tiers      ==
            ByPosition(inProgress \ still) \o ByPosition(available)
              \o IF FallbackAll
                 THEN ByUrgency((inProgress \ still) \cap others, spares, met)
                        \o ByUrgency(available \cap others, spares, met)
                 ELSE ByPosition(ToSet(Priority) \ (inProgress \cup available))
        excluded   == still \cup Spent(drops, unconnected, scan, now)
    IN  Stabilize(Only(tiers, Games \ excluded),
                  [g \in Games |-> Rank(g, inProgress)], sticky)

-----------------------------------------------------------------------------
(* The game being farmed.                                                    *)

\* activeGameRanksSnapshot
SnapshotRanks(lastDrops) ==
    LET inProgress == {d.game : d \in {d \in ToSet(lastDrops) : d.earnable /\ ~d.claimed}}
    IN  [g \in Games |-> Rank(g, inProgress)]

\* Variant: a listed game is kept.
CanKeepListed(lastDrops, list, sticky) == sticky \in ToSet(list)

\* canKeepCurrentFarmingGame: no listed game has a better rank.
CanKeep(lastDrops, list, sticky) ==
    /\ sticky \in ToSet(list)
    /\ \A g \in ToSet(list) :
          SnapshotRanks(lastDrops)[g] >= SnapshotRanks(lastDrops)[sticky]
=============================================================================
