---------------------------- MODULE EngineProofs ----------------------------
(* Theorems about Engine, for every roster, game list and channel capacity.  *)
EXTENDS Engine, TLAPS, WellFoundedInduction, FiniteSetTheorems

-----------------------------------------------------------------------------
(* Selection.                                                                *)

\* A non-empty set of naturals has a least element.
LEMMA LeastNatural ==
    ASSUME NEW T, T \subseteq Nat, T # {}
    PROVE  \E x \in T : \A y \in T : x <= y
<1> DEFINE R == OpToRel(<, Nat)
<1>1. IsWellFoundedOn(R, Nat)
  BY NatLessThanWellFounded
<1>2. PICK x \in T : \A y \in T : ~ (<<y, x>> \in R)
  BY <1>1, WFMin
<1>3. \A y \in T : y < x => <<y, x>> \in R
  BY DEF OpToRel
<1> HIDE DEF R
<1>4. ASSUME NEW y \in T PROVE x <= y
  <2> x \in Nat /\ y \in Nat
    OBVIOUS
  <2>1. ~ (y < x)
    BY <1>2, <1>3
  <2> QED BY <2>1
<1> QED
  BY <1>4

\* A non-empty set of positions has a greatest one.
LEMMA GreatestPosition ==
    ASSUME NEW n \in Nat, NEW T, T \subseteq 1..n, T # {}
    PROVE  \E x \in T : \A y \in T : y <= x
<1> DEFINE D == {n - x : x \in T}
<1>1. D \subseteq Nat /\ D # {}
  <2>1. \A x \in T : n - x \in Nat
    OBVIOUS
  <2> QED BY <2>1
<1>2. PICK d \in D : \A c \in D : d <= c
  BY <1>1, LeastNatural
<1>3. PICK x \in T : d = n - x
  OBVIOUS
<1>4. ASSUME NEW y \in T PROVE y <= x
  <2>1. n - x <= n - y
    BY <1>2, <1>3
  <2> QED BY <2>1
<1> QED
  BY <1>4

\* A state in which the streamer list is well formed: typed, and the positions
\* of a list are those of distinct elements.
Listed(st) ==
    /\ st \in [DOMAIN st -> StreamerState]
    /\ \A l, k \in DOMAIN st : st[l].priority = st[k].priority => l = k

\* Ranking a non-empty set of listed streamers yields a first one
\* (rankStreamers never returns an empty slice for a non-empty one).
LEMMA TopExists ==
    ASSUME NEW st, Listed(st), NEW S, S \subseteq DOMAIN st, S # {}
    PROVE  Tops(st, S) # {}
<1> DEFINE W == {l \in S : st[l].watching}
           A == IF W = {} THEN S ELSE W
           K == {l \in A : st[l].streakReady}
           B == IF K = {} THEN A ELSE K
           P == {st[l].priority : l \in B}
<1>1. B # {} /\ B \subseteq S
  OBVIOUS
<1>2. P \subseteq Nat /\ P # {}
  BY <1>1 DEF Listed, StreamerState
<1>3. PICK p \in P : \A q \in P : p <= q
  BY <1>2, LeastNatural
<1>4. PICK b \in B : st[b].priority = p
  OBVIOUS
<1>5. ASSUME NEW k \in S \ {b}
      PROVE  Outranks(st[b], st[k])
  <2> /\ b \in S /\ b # k
      /\ st[b] \in StreamerState /\ st[k] \in StreamerState
      /\ st[b].priority # st[k].priority
    BY <1>1, <1>5 DEF Listed
  <2> /\ st[b].watching \in BOOLEAN /\ st[k].watching \in BOOLEAN
      /\ st[b].streakReady \in BOOLEAN /\ st[k].streakReady \in BOOLEAN
    BY DEF StreamerState
  <2>0. \A l, m \in A : st[l].watching <=> st[m].watching
    OBVIOUS
  <2>1. CASE k \in B
    <3>1. /\ st[b].watching = st[k].watching
          /\ st[b].streakReady = st[k].streakReady
      <4>1. st[b].watching <=> st[k].watching
        BY <2>0, <2>1
      <4>2. st[b].streakReady <=> st[k].streakReady
        BY <2>1
      <4> QED BY <4>1, <4>2
    <3>2. st[b].priority < st[k].priority
      <4>1. st[k].priority \in P
        BY <2>1
      <4>2. st[b].priority <= st[k].priority
        BY <4>1, <1>3, <1>4
      <4>3. st[b].priority \in Nat /\ st[k].priority \in Nat
        BY DEF StreamerState
      <4> QED BY <4>2, <4>3
    <3> QED BY <3>1, <3>2 DEF Outranks
  <2>2. CASE k \notin A
    BY <2>2 DEF Outranks, StreamerState
  <2>3. CASE k \in A /\ k \notin B
    <3>1. st[b].watching = st[k].watching
      <4>1. st[b].watching <=> st[k].watching
        BY <2>0, <2>3
      <4> QED BY <4>1
    <3>2. st[b].streakReady /\ ~st[k].streakReady
      BY <2>3 DEF StreamerState
    <3> QED BY <3>1, <3>2 DEF Outranks
  <2> QED BY <2>1, <2>2, <2>3
<1> QED
  BY <1>1, <1>5 DEF Tops

\* Marking a set of logins as watched (the two loops at engine.go:154-164).
Flag(st, t) == [l \in DOMAIN st |-> [st[l] EXCEPT !.watching = l \in t]]

\* A selected set is still selected after the ranking sees it watched: marking
\* the winner can only confirm it, whatever the streaks and positions.
LEMMA SelectionSurvivesFlags ==
    ASSUME NEW st, Listed(st), NEW games \in Seq(Games),
           NEW t \in Selections(st, games)
    PROVE  t \in Selections(Flag(st, t), games)
<1> DEFINE nst == Flag(st, t)
<1>1. /\ DOMAIN nst = DOMAIN st
      /\ \A l \in DOMAIN st : /\ nst[l].online = st[l].online
                              /\ nst[l].game = st[l].game
                              /\ nst[l].streakReady = st[l].streakReady
                              /\ nst[l].priority = st[l].priority
                              /\ nst[l].watching = (l \in t)
  BY DEF Flag, Listed, StreamerState
<1> HIDE DEF nst
<1>2. StaticOnline(nst) = StaticOnline(st)
  BY <1>1 DEF StaticOnline
<1>3. DynamicOnline(nst, games) = DynamicOnline(st, games)
  BY <1>1 DEF DynamicOnline
<1>4. \A g : Group(nst, games, g) = Group(st, games, g)
  BY <1>1, <1>3 DEF Group, DynamicOnline
<1>5. FirstServed(nst, games) = FirstServed(st, games)
  BY <1>4 DEF FirstServed
<1>6. \A g : Group(st, games, g) \subseteq DynamicOnline(st, games)
  BY DEF Group
<1>7. DynamicOnline(st, games) \subseteq DOMAIN st \ StaticLogins
  BY DEF DynamicOnline
<1>8. BestPerGame(st, games) \subseteq DynamicOnline(st, games)
  BY <1>6 DEF BestPerGame, Tops
<1>9. \A l \in DynamicOnline(st, games) : st[l].game \in Games
  BY <1>7 DEF Listed, StreamerState
<1>10. CASE Picks(st, games) = {}
  \* Only an empty set of candidates yields no pick, and the flags do not
  \* change the candidates.
  <2>1. t = StaticOnline(st)
    BY <1>10 DEF Selections
  <2>2. DynamicOnline(st, games) = {}
    <3> SUFFICES ASSUME NEW d \in DynamicOnline(st, games) PROVE FALSE
      OBVIOUS
    <3>1. BestPerGame(st, games) # {}
      <4>1. d \in Group(st, games, st[d].game)
        BY DEF Group
      <4>2. Tops(st, Group(st, games, st[d].game)) # {}
        BY <4>1, <1>6, <1>7, TopExists
      <4> QED BY <4>2, <1>9 DEF BestPerGame
    <3>2. CASE games = <<>>
      <4>1. Tops(st, BestPerGame(st, games)) # {}
        BY <3>1, <1>8, <1>7, TopExists
      <4> QED BY <4>1, <3>2, <1>10 DEF Picks
    <3>3. CASE games # <<>> /\ FirstServed(st, games) # {}
      <4>1. PICK i \in FirstServed(st, games) : TRUE
        BY <3>3
      <4>2. Tops(st, Group(st, games, games[i])) # {}
        BY <4>1, <1>6, <1>7, TopExists DEF FirstServed
      <4> QED BY <4>1, <4>2, <3>3, <1>10 DEF Picks
    <3>4. CASE games # <<>> /\ FirstServed(st, games) = {}
      BY <3>4, <3>1, <1>10 DEF Picks
    <3> QED BY <3>2, <3>3, <3>4
  <2>3. Picks(nst, games) = {}
    <3>1. \A g : Group(nst, games, g) = {}
      BY <2>2, <1>4, <1>6
    <3>2. BestPerGame(nst, games) = {}
      BY <3>1 DEF BestPerGame, Tops
    <3>3. FirstServed(nst, games) = {}
      BY <3>1 DEF FirstServed
    <3> QED BY <3>2, <3>3 DEF Picks, Tops
  <2> QED BY <2>1, <2>3, <1>2 DEF Selections, nst
<1>11. CASE Picks(st, games) # {}
  \* The pick is the only candidate marked as watched, so it now ranks first.
  <2>1. PICK p \in Picks(st, games) : t = StaticOnline(st) \cup {p}
    BY <1>11 DEF Selections
  <2>2. p \in DynamicOnline(st, games)
    BY <1>6, <1>8 DEF Picks, Tops
  <2>3. \A l \in DynamicOnline(st, games) \ {p} : ~nst[l].watching
    BY <1>1, <1>7, <2>1 DEF StaticOnline
  <2>4. nst[p].watching
    BY <1>1, <1>7, <2>1, <2>2
  <2>5. \A S : (S \subseteq DynamicOnline(st, games) /\ p \in S) => p \in Tops(nst, S)
    BY <2>3, <2>4 DEF Tops, Outranks
  <2>6. p \in BestPerGame(nst, games)
    <3>1. p \in Group(nst, games, st[p].game)
      BY <2>2, <1>4 DEF Group
    <3>2. p \in Tops(nst, Group(nst, games, st[p].game))
      BY <3>1, <2>5, <1>4, <1>6
    <3> QED BY <3>2, <2>2, <1>9 DEF BestPerGame
  <2>7. p \in Picks(nst, games)
    <3>1. CASE games = <<>>
      <4>1. BestPerGame(nst, games) \subseteq DynamicOnline(st, games)
        BY <1>4, <1>6 DEF BestPerGame, Tops
      <4> QED BY <3>1, <4>1, <2>5, <2>6 DEF Picks
    <3>2. CASE games # <<>> /\ FirstServed(st, games) # {}
      <4>1. PICK i \in FirstServed(st, games) : p \in Tops(st, Group(st, games, games[i]))
        BY <3>2 DEF Picks
      <4>2. p \in Tops(nst, Group(nst, games, games[i]))
        BY <4>1, <2>5, <1>4, <1>6 DEF Tops
      <4> QED BY <4>1, <4>2, <3>2, <1>5 DEF Picks
    <3>3. CASE games # <<>> /\ FirstServed(st, games) = {}
      BY <3>3, <2>6, <1>5 DEF Picks
    <3> QED BY <3>1, <3>2, <3>3
  <2> QED BY <2>1, <2>7, <1>2 DEF Selections, nst
<1> QED
  BY <1>10, <1>11

\* Every selected set lies in the list and has at most one dynamic channel.
LEMMA SelectionShape ==
    ASSUME NEW st, NEW games, NEW t \in Selections(st, games)
    PROVE  /\ t \subseteq DOMAIN st
           /\ \A a, b \in t \ StaticLogins : a = b
<1>1. StaticOnline(st) \subseteq DOMAIN st /\ StaticOnline(st) \subseteq StaticLogins
  BY DEF StaticOnline
<1>2. \A g : Group(st, games, g) \subseteq DOMAIN st
  BY DEF Group, DynamicOnline
<1>3. Picks(st, games) \subseteq DOMAIN st
  BY <1>2 DEF Picks, BestPerGame, Tops
<1> QED
  BY <1>1, <1>3 DEF Selections

\* Points play no part in a selection (priority.go never reads Points).
LEMMA SelectionIgnoresPoints ==
    ASSUME NEW st, NEW nst, NEW games,
           DOMAIN nst = DOMAIN st,
           \A l \in DOMAIN st : /\ nst[l].online = st[l].online
                                /\ nst[l].game = st[l].game
                                /\ nst[l].streakReady = st[l].streakReady
                                /\ nst[l].priority = st[l].priority
                                /\ nst[l].watching = st[l].watching
    PROVE  Selections(nst, games) = Selections(st, games)
<1>1. StaticOnline(nst) = StaticOnline(st)
  BY DEF StaticOnline
<1>2. \A g : Group(nst, games, g) = Group(st, games, g)
  BY DEF Group, DynamicOnline
<1>3. \A g : Group(st, games, g) \subseteq DOMAIN st
  BY DEF Group, DynamicOnline
<1>4. \A S : S \subseteq DOMAIN st => Tops(nst, S) = Tops(st, S)
  BY DEF Tops, Outranks
<1>5. BestPerGame(nst, games) = BestPerGame(st, games)
  <2>1. \A g \in Games : Tops(nst, Group(nst, games, g)) = Tops(st, Group(st, games, g))
    BY <1>2, <1>3, <1>4
  <2> QED BY <2>1 DEF BestPerGame
<1>6. BestPerGame(st, games) \subseteq DOMAIN st
  BY <1>3 DEF BestPerGame, Tops
<1>7. FirstServed(nst, games) = FirstServed(st, games)
  BY <1>2 DEF FirstServed
<1>8. Picks(nst, games) = Picks(st, games)
  <2>1. Tops(nst, BestPerGame(nst, games)) = Tops(st, BestPerGame(st, games))
    BY <1>4, <1>5, <1>6
  <2>2. \A i \in FirstServed(st, games) :
          Tops(nst, Group(nst, games, games[i])) = Tops(st, Group(st, games, games[i]))
    BY <1>2, <1>3, <1>4
  <2>3. UNION {Tops(nst, Group(nst, games, games[i])) : i \in FirstServed(st, games)}
          = UNION {Tops(st, Group(st, games, games[i])) : i \in FirstServed(st, games)}
    BY <2>2
  <2> QED BY <2>1, <2>3, <1>5, <1>7 DEF Picks
<1> QED
  BY <1>1, <1>8 DEF Selections

-----------------------------------------------------------------------------
(* The inductive invariant.                                                  *)

Positions == \A l, k \in DOMAIN streamers :
                streamers[l].priority = streamers[k].priority => l = k

\* What is watched, outside a reschedule: SelectionStable carried through the
\* blocking call of a claim.
Settled == /\ active \in Selections(streamers, activeGames)
           /\ active = {l \in DOMAIN streamers : streamers[l].watching}

EngineInv ==
    /\ TypeOK
    /\ OneDynamic
    /\ Positions
    /\ pc \in {"waiting", "claiming"} => Settled
    /\ pc = "rescheduling" => target \in Selections(streamers, activeGames)

\* What each kind of event carries.
LEMMA EventFields ==
    ASSUME NEW e \in InEvents
    PROVE  /\ e.type \in StreamerEvents => e.login \in Logins
           /\ e.type = "online" => e.game \in Games
           /\ e.type \in {"points", "balance"} => e.amount \in Int
           /\ e.type = "update_streamers" => e.roster \in Rosters
           /\ e.type = "active_games" => e.games \in GameLists
           /\ e.type \in {"drop_claimed", "chat_mention"}
                => e \in LoginEvents({"drop_claimed", "chat_mention"})
           /\ e.type = "bonus_available" => e \in BonusEvents
BY DEF InEvents, LoginEvents, BonusEvents, StreamerEvents

\* Taking the head of the queue leaves it typed.
LEMMA ReceiveTyped ==
    ASSUME TypeOK, NEW types, Receive(types)
    PROVE  /\ Head(events) \in InEvents
           /\ Head(events).type \in types
           /\ pc = "waiting"
           /\ events' \in Seq(InEvents)
BY DEF TypeOK, Receive

\* Emitting keeps the output typed and touches nothing else.
LEMMA EmitTyped ==
    ASSUME TypeOK, NEW e \in LoginEvents(OutTypes), Emit(e)
    PROVE  eventsOut' \in Seq(LoginEvents(OutTypes)) /\ dropped' \in BOOLEAN
<1> DEFINE O == LoginEvents(OutTypes)
<1>1. eventsOut \in Seq(O) /\ dropped \in BOOLEAN /\ e \in O
  BY DEF TypeOK
<1> HIDE DEF O
<1>2. Len(eventsOut) < OutCap => eventsOut' \in Seq(O) /\ dropped' \in BOOLEAN
  BY <1>1 DEF Emit
<1>3. ~(Len(eventsOut) < OutCap) => eventsOut' \in Seq(O) /\ dropped' \in BOOLEAN
  BY <1>1 DEF Emit
<1>4. eventsOut' \in Seq(O) /\ dropped' \in BOOLEAN
  BY <1>2, <1>3
<1> QED
  BY <1>4 DEF O

\* A reschedule over a well-formed list and game list leads to a state in which
\* its target is a selection for the state it leaves.
LEMMA RescheduleStep ==
    ASSUME EngineInv, NEW st, NEW games, Reschedule(st, games),
           Listed(st), DOMAIN st \subseteq Logins, games \in Seq(Games),
           active' = active, events' \in Seq(InEvents),
           eventsOut' = eventsOut, claiming' = claiming, cancelled' = cancelled,
           stored' \in [Logins -> [points : Int, bonusClaims : Nat]],
           redeemed' = redeemed, view' = view, dropped' = dropped
    PROVE  EngineInv'
<1>1. PICK t \in Selections(st, games) :
        target' = t /\ starts' = t \ active /\ stops' = active \ t
  BY DEF Reschedule
<1>2. t \subseteq DOMAIN st /\ \A a, b \in t \ StaticLogins : a = b
  BY SelectionShape
<1>3. pc' = "rescheduling" /\ streamers' = st /\ activeGames' = games
  BY DEF Reschedule
<1>4. TypeOK'
  BY <1>1, <1>2, <1>3 DEF EngineInv, TypeOK, PCs, Listed
<1>5. OneDynamic'
  BY <1>1, <1>2 DEF EngineInv, OneDynamic
<1>6. Positions'
  BY <1>3 DEF Positions, Listed
<1> QED
  BY <1>1, <1>3, <1>4, <1>5, <1>6 DEF EngineInv

-----------------------------------------------------------------------------
(* Initially.                                                                *)

LEMMA InitInv == Init => EngineInv
<1> SUFFICES ASSUME Init PROVE EngineInv
  OBVIOUS
<1>1. /\ DOMAIN InitialRoster \subseteq Logins
      /\ \A l \in DOMAIN InitialRoster : InitialRoster[l] \in Entries
      /\ \A l, k \in DOMAIN InitialRoster :
            InitialRoster[l].priority = InitialRoster[k].priority => l = k
  BY RostersAssumption
<1>2. /\ DOMAIN streamers = DOMAIN InitialRoster
      /\ streamers \in [DOMAIN streamers -> StreamerState]
      /\ \A l \in DOMAIN streamers : streamers[l].priority = InitialRoster[l].priority
  BY <1>1 DEF Init, NewState, StreamerState, Entries
<1>3. events \in Seq(InEvents) /\ eventsOut \in Seq(LoginEvents(OutTypes))
  <2>1. \A S : <<>> \in Seq(S)
    OBVIOUS
  <2> QED BY <2>1 DEF Init
<1>4. activeGames \in Seq(Games)
  BY DEF Init
<1>5. stored \in [Logins -> [points : Int, bonusClaims : Nat]]
  BY DEF Init
<1>6. TypeOK
  BY <1>1, <1>2, <1>3, <1>4, <1>5 DEF Init, TypeOK, PCs
<1>7. Positions
  BY <1>1, <1>2 DEF Positions
<1> QED
  BY <1>6, <1>7 DEF Init, EngineInv, OneDynamic

-----------------------------------------------------------------------------
(* Steps that take no decision.                                              *)

\* What EngineInv says besides the channels, the store and the history is
\* untouched by a step that leaves these alone.
LEMMA QuietStep ==
    ASSUME EngineInv,
           pc' = pc, streamers' = streamers, activeGames' = activeGames,
           UNCHANGED scheduling, active' = active,
           claiming' \subseteq BonusEvents,
           events' \in Seq(InEvents),
           eventsOut' \in Seq(LoginEvents(OutTypes)), cancelled' \in BOOLEAN,
           stored' \in [Logins -> [points : Int, bonusClaims : Nat]],
           redeemed' \subseteq Claims, view' \subseteq Logins, dropped' \in BOOLEAN
    PROVE  EngineInv'
<1>1. TypeOK'
  BY DEF EngineInv, TypeOK, scheduling
<1>2. OneDynamic' /\ Positions' /\ (Settled' <=> Settled)
  BY DEF EngineInv, OneDynamic, Positions, Settled, scheduling
<1>3. Selections(streamers, activeGames)' = Selections(streamers, activeGames)
  OBVIOUS
<1> QED
  BY <1>1, <1>2, <1>3 DEF EngineInv, scheduling

\* Sending a well-formed event disturbs nothing the engine relies on.
LEMMA SendStep ==
    ASSUME EngineInv, NEW e \in InEvents, SendEvent(e)
    PROVE  EngineInv'
<1> DEFINE I == InEvents
<1>1. events \in Seq(I) /\ e \in I
  BY DEF EngineInv, TypeOK
<1> HIDE DEF I
<1>2. events' \in Seq(I)
  BY <1>1 DEF SendEvent
<1>3. events' \in Seq(InEvents)
  BY <1>2 DEF I
<1> QED
  BY <1>3, QuietStep DEF SendEvent, environment, history, EngineInv, TypeOK

\* Every producer sends well-formed events only.
LEMMA ProduceStep ==
    ASSUME EngineInv, Produce
    PROVE  EngineInv'
<1>1. CASE SendOnlineStatus
  <2>1. PICK l \in Logins :
          \/ \E g \in Games : SendEvent([type |-> "online", login |-> l, game |-> g])
          \/ SendEvent([type |-> "offline", login |-> l])
    BY <1>1 DEF SendOnlineStatus
  <2>2. \A g \in Games : [type |-> "online", login |-> l, game |-> g] \in InEvents
    BY DEF InEvents
  <2>3. [type |-> "offline", login |-> l] \in InEvents
    BY DEF InEvents, LoginEvents
  <2> QED BY <2>1, <2>2, <2>3, SendStep
<1>2. CASE SendUpdateStreamers
  <2>1. \A r \in Rosters : [type |-> "update_streamers", roster |-> r] \in InEvents
    BY DEF InEvents
  <2> QED BY <1>2, <2>1, SendStep DEF SendUpdateStreamers
<1>3. CASE SendActiveGames
  <2>1. \A gs \in GameLists : [type |-> "active_games", games |-> gs] \in InEvents
    BY DEF InEvents
  <2> QED BY <1>3, <2>1, SendStep DEF SendActiveGames
<1>4. CASE SendChannelPoints
  <2>1. \A l \in Logins, b \in Balances :
          [type |-> "balance", login |-> l, amount |-> b] \in InEvents
    BY AmountsAssumption DEF InEvents
  <2>2. \A c \in Claims :
          [type |-> "bonus_available", login |-> ClaimLogin[c], claim |-> c] \in InEvents
    BY BonusAssumption DEF InEvents, BonusEvents
  <2> QED BY <1>4, <2>1, <2>2, SendStep DEF SendChannelPoints
<1>5. CASE SendStreak
  <2>1. \A l \in Logins : [type |-> "streak", login |-> l] \in InEvents
    BY DEF InEvents, LoginEvents
  <2> QED BY <1>5, <2>1, SendStep DEF SendStreak
<1>6. CASE SendPoints
  <2> PointGains \subseteq Int
    BY AmountsAssumption
  <2>1. \A l \in Logins, a \in PointGains :
          [type |-> "points", login |-> l, amount |-> a] \in InEvents
    BY DEF InEvents
  <2> QED BY <1>6, <2>1, SendStep DEF SendPoints
<1>7. CASE SendNotice
  <2>1. \A l \in Logins, t \in {"drop_claimed", "chat_mention"} :
          [type |-> t, login |-> l] \in InEvents
    BY DEF InEvents, LoginEvents
  <2> QED BY <1>7, <2>1, SendStep DEF SendNotice
<1> QED
  BY <1>1, <1>2, <1>3, <1>4, <1>5, <1>6, <1>7 DEF Produce

\* The consumer's reading changes only the output channel and its view.
LEMMA ConsumeStep ==
    ASSUME EngineInv, Consume
    PROVE  EngineInv'
<1> DEFINE O == LoginEvents(OutTypes)
<1>1. eventsOut \in Seq(O) /\ eventsOut # <<>>
  BY DEF EngineInv, TypeOK, Consume
<1>2. \A e \in O : e.login \in Logins
  BY DEF LoginEvents
<1> HIDE DEF O
<1>3. Head(eventsOut) \in O /\ Tail(eventsOut) \in Seq(O)
  BY <1>1
<1>4. eventsOut' \in Seq(LoginEvents(OutTypes))
  BY <1>3 DEF O, Consume
<1>5. view' \subseteq Logins
  BY <1>2, <1>3 DEF Consume, Seen, EngineInv, TypeOK
<1> QED
  BY <1>4, <1>5, QuietStep DEF Consume, environment, EngineInv, TypeOK

-----------------------------------------------------------------------------
(* Steps of the engine.                                                      *)

\* A change of one listed streamer that leaves its position alone keeps the
\* list well formed.
LEMMA ListedExcept ==
    ASSUME EngineInv, NEW st,
           DOMAIN st = DOMAIN streamers,
           \A l \in DOMAIN streamers : st[l] \in StreamerState,
           st = [l \in DOMAIN streamers |-> st[l]],
           \A l \in DOMAIN streamers : st[l].priority = streamers[l].priority
    PROVE  Listed(st) /\ DOMAIN st \subseteq Logins
BY DEF EngineInv, TypeOK, Positions, Listed

\* Handling an event that changes fields of one listed streamer.
LEMMA ExceptStep ==
    ASSUME EngineInv, NEW l \in DOMAIN streamers, NEW new \in StreamerState,
           new.priority = streamers[l].priority,
           Reschedule([streamers EXCEPT ![l] = new], activeGames),
           events' \in Seq(InEvents),
           UNCHANGED <<claiming, active, eventsOut, environment, history>>
    PROVE  EngineInv'
<1> DEFINE st == [streamers EXCEPT ![l] = new]
<1>1. /\ DOMAIN st = DOMAIN streamers
      /\ \A k \in DOMAIN streamers : st[k] \in StreamerState
      /\ st = [k \in DOMAIN streamers |-> st[k]]
      /\ \A k \in DOMAIN streamers : st[k].priority = streamers[k].priority
  BY DEF EngineInv, TypeOK
<1>2. Reschedule(st, activeGames)
  OBVIOUS
<1> HIDE DEF st
<1>3. Listed(st) /\ DOMAIN st \subseteq Logins
  BY <1>1, ListedExcept
<1> QED
  BY <1>2, <1>3, RescheduleStep DEF EngineInv, TypeOK, environment, history

\* As it is.
LEMMA SameStep ==
    ASSUME EngineInv, Reschedule(streamers, activeGames), events' \in Seq(InEvents),
           UNCHANGED <<claiming, active, eventsOut, environment, history>>
    PROVE  EngineInv'
<1>1. Listed(streamers) /\ DOMAIN streamers \subseteq Logins
  BY DEF EngineInv, TypeOK, Positions, Listed
<1> QED
  BY <1>1, RescheduleStep DEF EngineInv, TypeOK, environment, history

LEMMA OnlineStep ==
    ASSUME EngineInv, HandleOnline
    PROVE  EngineInv'
<1> DEFINE e == Head(events)
           new == [streamers[e.login] EXCEPT !.online = TRUE, !.game = e.game]
<1>1. e \in InEvents /\ e.type = "online" /\ events' \in Seq(InEvents)
  BY ReceiveTyped DEF HandleOnline, EngineInv
<1>2. e.login \in DOMAIN streamers /\ e.game \in Games
  BY <1>1, EventFields DEF HandleOnline, Known
<1>3. [streamers EXCEPT ![e.login].online = TRUE, ![e.login].game = e.game]
        = [streamers EXCEPT ![e.login] = new]
  BY <1>2 DEF EngineInv, TypeOK
<1>4. new \in StreamerState /\ new.priority = streamers[e.login].priority
  BY <1>2 DEF EngineInv, TypeOK, StreamerState
<1>5. /\ Reschedule([streamers EXCEPT ![e.login] = new], activeGames)
      /\ UNCHANGED <<claiming, active, eventsOut, environment, history>>
  BY <1>3 DEF HandleOnline
<1> HIDE DEF new
<1> QED
  BY <1>1, <1>2, <1>4, <1>5, ExceptStep

LEMMA OfflineStep ==
    ASSUME EngineInv, HandleOffline
    PROVE  EngineInv'
<1> DEFINE l == Head(events).login
           new == [streamers[l] EXCEPT !.online = FALSE, !.streakReady = FALSE]
<1>1. l \in DOMAIN streamers /\ events' \in Seq(InEvents)
  BY ReceiveTyped DEF HandleOffline, EngineInv, Known
<1>2. [streamers EXCEPT ![l].online = FALSE, ![l].streakReady = FALSE]
        = [streamers EXCEPT ![l] = new]
  BY <1>1 DEF EngineInv, TypeOK
<1>3. new \in StreamerState /\ new.priority = streamers[l].priority
  <2>1. streamers[l] \in StreamerState
    BY <1>1 DEF EngineInv, TypeOK
  <2> QED
    BY <2>1 DEF StreamerState
<1>4. /\ Reschedule([streamers EXCEPT ![l] = new], activeGames)
      /\ UNCHANGED <<claiming, active, eventsOut, environment, history>>
  BY <1>2 DEF HandleOffline
<1> HIDE DEF new
<1> QED
  BY <1>1, <1>3, <1>4, ExceptStep

LEMMA StreakStep ==
    ASSUME EngineInv, HandleStreak
    PROVE  EngineInv'
<1> DEFINE l == Head(events).login
           new == [streamers[l] EXCEPT !.streakReady = TRUE]
<1>1. l \in DOMAIN streamers /\ events' \in Seq(InEvents)
  BY ReceiveTyped DEF HandleStreak, EngineInv, Known
<1>2. [streamers EXCEPT ![l].streakReady = TRUE] = [streamers EXCEPT ![l] = new]
  BY <1>1 DEF EngineInv, TypeOK
<1>3. new \in StreamerState /\ new.priority = streamers[l].priority
  BY <1>1 DEF EngineInv, TypeOK, StreamerState
<1>4. /\ Reschedule([streamers EXCEPT ![l] = new], activeGames)
      /\ UNCHANGED <<claiming, active, eventsOut, environment, history>>
  BY <1>2 DEF HandleStreak
<1> HIDE DEF new
<1> QED
  BY <1>1, <1>3, <1>4, ExceptStep

LEMMA BalanceStep ==
    ASSUME EngineInv, HandleBalance
    PROVE  EngineInv'
<1> DEFINE e == Head(events)
           new == [streamers[e.login] EXCEPT !.points = e.amount]
<1>1. e \in InEvents /\ e.type = "balance" /\ events' \in Seq(InEvents)
  BY ReceiveTyped DEF HandleBalance, EngineInv
<1>2. e.login \in DOMAIN streamers /\ e.amount \in Int
  BY <1>1, EventFields DEF HandleBalance, Known
<1>3. [streamers EXCEPT ![e.login].points = e.amount]
        = [streamers EXCEPT ![e.login] = new]
  BY <1>2 DEF EngineInv, TypeOK
<1>4. new \in StreamerState /\ new.priority = streamers[e.login].priority
  BY <1>2 DEF EngineInv, TypeOK, StreamerState
<1>5. /\ Reschedule([streamers EXCEPT ![e.login] = new], activeGames)
      /\ UNCHANGED <<claiming, active, eventsOut, environment, history>>
  BY <1>3 DEF HandleBalance
<1> HIDE DEF new
<1> QED
  BY <1>1, <1>2, <1>4, <1>5, ExceptStep

\* RecordPointGain keeps the store typed, whether it succeeds or not.
LEMMA RecordTyped ==
    ASSUME stored \in [Logins -> [points : Int, bonusClaims : Nat]],
           NEW l \in Logins, NEW a \in Int, NEW n \in Nat, Record(l, a, n)
    PROVE  stored' \in [Logins -> [points : Int, bonusClaims : Nat]]
BY DEF Record

LEMMA PointsStep ==
    ASSUME EngineInv, HandlePoints
    PROVE  EngineInv'
<1> DEFINE e == Head(events)
           st == [streamers EXCEPT ![e.login].points = @ + e.amount]
<1>1. e \in InEvents /\ e.type = "points" /\ events' \in Seq(InEvents)
  BY ReceiveTyped DEF HandlePoints, EngineInv
<1>2. e.login \in DOMAIN streamers /\ e.login \in Logins /\ e.amount \in Int
  BY <1>1, EventFields DEF HandlePoints, Known, StreamerEvents
<1>3. /\ DOMAIN st = DOMAIN streamers
      /\ \A k \in DOMAIN streamers : st[k] \in StreamerState
      /\ st = [k \in DOMAIN streamers |-> st[k]]
      /\ \A k \in DOMAIN streamers : st[k].priority = streamers[k].priority
  <2>1. \A k \in DOMAIN streamers : streamers[k] \in StreamerState
    BY DEF EngineInv, TypeOK
  <2>2. /\ DOMAIN st = DOMAIN streamers
        /\ st = [k \in DOMAIN streamers |-> st[k]]
        /\ \A k \in DOMAIN streamers : k # e.login => st[k] = streamers[k]
        /\ st[e.login] = [streamers[e.login] EXCEPT
                            !.points = streamers[e.login].points + e.amount]
    BY <1>2 DEF EngineInv, TypeOK
  <2>3. streamers[e.login].points + e.amount \in Int
    BY <1>2, <2>1 DEF StreamerState
  <2> HIDE DEF st
  <2>4. st[e.login] \in StreamerState /\ st[e.login].priority = streamers[e.login].priority
    BY <1>2, <2>1, <2>2, <2>3 DEF StreamerState
  <2> QED BY <2>1, <2>2, <2>4
<1>4. stored' \in [Logins -> [points : Int, bonusClaims : Nat]]
  BY <1>2, RecordTyped DEF HandlePoints, EngineInv, TypeOK
<1>5. /\ Reschedule(st, activeGames)
      /\ UNCHANGED <<claiming, active, eventsOut, cancelled, redeemed, history>>
  BY DEF HandlePoints
<1> HIDE DEF st
<1>6. Listed(st) /\ DOMAIN st \subseteq Logins
  BY <1>3, ListedExcept
<1> QED
  BY <1>1, <1>4, <1>5, <1>6, RescheduleStep DEF EngineInv, TypeOK, history

\* A new list keeps the state of the logins it still names and adds the others
\* as online; its positions are distinct because it is a list.
LEMMA UpdateStreamersStep ==
    ASSUME EngineInv, HandleUpdateStreamers
    PROVE  EngineInv'
<1> DEFINE r == Head(events).roster
           st == [l \in DOMAIN r |->
                    IF Known(l)
                    THEN [streamers[l] EXCEPT !.priority = r[l].priority,
                                              !.game = r[l].game]
                    ELSE NewState(r[l], TRUE)]
<1>1. r \in Rosters /\ events' \in Seq(InEvents)
  <2>1. Receive({"update_streamers"}) /\ TypeOK
    BY DEF HandleUpdateStreamers, EngineInv
  <2>2. /\ Head(events) \in InEvents
        /\ Head(events).type = "update_streamers"
        /\ events' \in Seq(InEvents)
    BY <2>1, ReceiveTyped
  <2> QED BY <2>2, EventFields
<1>2. /\ DOMAIN r \subseteq Logins
      /\ \A l \in DOMAIN r : r[l] \in Entries
      /\ \A l, k \in DOMAIN r : r[l].priority = r[k].priority => l = k
  BY <1>1, RostersAssumption
<1>3. \A l \in DOMAIN r : st[l] \in StreamerState /\ st[l].priority = r[l].priority
  <2> SUFFICES ASSUME NEW l \in DOMAIN r
               PROVE  st[l] \in StreamerState /\ st[l].priority = r[l].priority
    OBVIOUS
  <2>1. r[l].priority \in Nat /\ r[l].game \in Games
    BY <1>2 DEF Entries
  <2>2. CASE Known(l)
    <3>1. streamers[l] \in StreamerState
      BY <2>2 DEF EngineInv, TypeOK, Known
    <3>2. st[l] = [streamers[l] EXCEPT !.priority = r[l].priority, !.game = r[l].game]
      BY <2>2
    <3> HIDE DEF st
    <3> QED BY <2>1, <3>1, <3>2 DEF StreamerState
  <2>3. CASE ~Known(l)
    <3>1. st[l] = NewState(r[l], TRUE)
      BY <2>3
    <3> HIDE DEF st
    <3> QED BY <2>1, <3>1 DEF NewState, StreamerState
  <2> QED BY <2>2, <2>3
<1>4. /\ Reschedule(st, activeGames)
      /\ UNCHANGED <<claiming, active, eventsOut, environment, history>>
  BY DEF HandleUpdateStreamers
<1>5. DOMAIN st = DOMAIN r /\ st = [l \in DOMAIN st |-> st[l]]
  OBVIOUS
<1> HIDE DEF st
<1>6. Listed(st) /\ DOMAIN st \subseteq Logins
  BY <1>2, <1>3, <1>5 DEF Listed
<1> QED
  BY <1>1, <1>4, <1>6, RescheduleStep DEF EngineInv, TypeOK, environment, history

LEMMA ActiveGamesStep ==
    ASSUME EngineInv, HandleActiveGames
    PROVE  EngineInv'
<1> DEFINE gs == Head(events).games
<1>1. gs \in Seq(Games) /\ events' \in Seq(InEvents)
  BY ReceiveTyped, EventFields, GameListsAssumption DEF HandleActiveGames, EngineInv
<1>2. Listed(streamers) /\ DOMAIN streamers \subseteq Logins
  BY DEF EngineInv, TypeOK, Positions, Listed
<1>3. /\ Reschedule(streamers, gs)
      /\ UNCHANGED <<claiming, active, eventsOut, environment, history>>
  BY DEF HandleActiveGames
<1> QED
  BY <1>1, <1>2, <1>3, RescheduleStep DEF EngineInv, TypeOK, environment, history

LEMMA NoticeStep ==
    ASSUME EngineInv, HandleNotice
    PROVE  EngineInv'
<1>1. /\ Head(events) \in LoginEvents({"drop_claimed", "chat_mention"})
      /\ events' \in Seq(InEvents)
  BY ReceiveTyped, EventFields DEF HandleNotice, EngineInv
<1>2. Head(events) \in LoginEvents(OutTypes)
  BY <1>1 DEF LoginEvents, OutTypes
<1>3. eventsOut' \in Seq(LoginEvents(OutTypes)) /\ dropped' \in BOOLEAN
  BY <1>2, EmitTyped DEF HandleNotice, EngineInv
<1> QED
  BY <1>1, <1>3, QuietStep DEF HandleNotice, environment, EngineInv, TypeOK

LEMMA BonusAvailableStep ==
    ASSUME EngineInv, HandleBonusAvailable
    PROVE  EngineInv'
<1> DEFINE e == Head(events)
<1>1. e \in InEvents /\ e.type = "bonus_available" /\ events' \in Seq(InEvents)
      /\ pc = "waiting"
  BY ReceiveTyped DEF HandleBonusAvailable, EngineInv
<1>2. e \in BonusEvents /\ e.login \in Logins
  BY <1>1, EventFields DEF BonusEvents
<1>3. CASE ~ClaimBonuses /\ UNCHANGED <<pc, claiming, eventsOut, dropped>>
  BY <1>1, <1>3, QuietStep DEF HandleBonusAvailable, environment, EngineInv, TypeOK
<1>4. CASE /\ Emit([type |-> "bonus_claimed", login |-> e.login])
           /\ UNCHANGED <<pc, claiming>>
  <2>1. [type |-> "bonus_claimed", login |-> e.login] \in LoginEvents(OutTypes)
    BY <1>2 DEF LoginEvents, OutTypes
  <2>2. eventsOut' \in Seq(LoginEvents(OutTypes)) /\ dropped' \in BOOLEAN
    BY <1>4, <2>1, EmitTyped DEF EngineInv
  <2> QED
    BY <1>1, <1>4, <2>2, QuietStep DEF HandleBonusAvailable, environment, EngineInv, TypeOK
<1>5. CASE /\ pc' = "claiming" /\ claiming' = {e}
           /\ UNCHANGED <<eventsOut, dropped>>
  \* The engine blocks; what it watches is not touched.
  <2>1. UNCHANGED <<streamers, activeGames, scheduling, active, environment, view>>
    BY DEF HandleBonusAvailable
  <2>2. TypeOK'
    BY <1>1, <1>2, <1>5, <2>1 DEF EngineInv, TypeOK, scheduling, environment, PCs
  <2>3. OneDynamic' /\ Positions' /\ Settled'
    BY <1>1, <2>1 DEF EngineInv, OneDynamic, Positions, Settled, scheduling
  <2> QED
    BY <1>5, <2>2, <2>3 DEF EngineInv
<1> QED
  BY <1>3, <1>4, <1>5 DEF HandleBonusAvailable

\* The claim is answered: points and the store change, the selection does not.
LEMMA BonusClaimedStep ==
    ASSUME EngineInv, BonusClaimed
    PROVE  EngineInv'
<1>1. PICK e \in claiming :
        /\ redeemed' = redeemed \cup {e.claim}
        /\ Record(e.login, BonusPoints, 1)
        /\ streamers' = [l \in DOMAIN streamers |->
              IF l = e.login
              THEN [streamers[l] EXCEPT !.points = @ + BonusPoints]
              ELSE streamers[l]]
        /\ Emit([type |-> "bonus_claimed", login |-> e.login])
  BY DEF BonusClaimed
<1>2. e.login \in Logins /\ e.claim \in Claims
  BY DEF EngineInv, TypeOK, BonusEvents
<1>3. BonusPoints \in Int /\ 1 \in Nat
  BY BonusAssumption
<1>4. /\ pc = "claiming" /\ pc' = "waiting" /\ claiming' = {}
      /\ UNCHANGED <<activeGames, scheduling, active, events, cancelled, view>>
  BY DEF BonusClaimed
<1>5. stored' \in [Logins -> [points : Int, bonusClaims : Nat]]
  BY <1>1, <1>2, <1>3, RecordTyped DEF EngineInv, TypeOK
<1>6. eventsOut' \in Seq(LoginEvents(OutTypes)) /\ dropped' \in BOOLEAN
  <2>1. [type |-> "bonus_claimed", login |-> e.login] \in LoginEvents(OutTypes)
    BY <1>2 DEF LoginEvents, OutTypes
  <2> QED BY <1>1, <2>1, EmitTyped DEF EngineInv
<1>7. /\ DOMAIN streamers' = DOMAIN streamers
      /\ streamers' \in [DOMAIN streamers -> StreamerState]
      /\ \A l \in DOMAIN streamers :
            /\ streamers'[l].online = streamers[l].online
            /\ streamers'[l].game = streamers[l].game
            /\ streamers'[l].streakReady = streamers[l].streakReady
            /\ streamers'[l].priority = streamers[l].priority
            /\ streamers'[l].watching = streamers[l].watching
  <2> SUFFICES ASSUME NEW l \in DOMAIN streamers
               PROVE  /\ streamers'[l] \in StreamerState
                      /\ streamers'[l].online = streamers[l].online
                      /\ streamers'[l].game = streamers[l].game
                      /\ streamers'[l].streakReady = streamers[l].streakReady
                      /\ streamers'[l].priority = streamers[l].priority
                      /\ streamers'[l].watching = streamers[l].watching
    BY <1>1
  <2>1. streamers[l] \in StreamerState
    BY DEF EngineInv, TypeOK
  <2>2. streamers[l].points + BonusPoints \in Int
    BY <1>3, <2>1 DEF StreamerState
  <2>3. \/ streamers'[l] = [streamers[l] EXCEPT
                              !.points = streamers[l].points + BonusPoints]
        \/ streamers'[l] = streamers[l]
    BY <1>1, <2>1 DEF StreamerState
  <2> QED BY <2>1, <2>2, <2>3 DEF StreamerState
<1>8. TypeOK'
  BY <1>1, <1>2, <1>4, <1>5, <1>6, <1>7 DEF EngineInv, TypeOK, scheduling, PCs
<1>9. Selections(streamers', activeGames) = Selections(streamers, activeGames)
  BY <1>7, SelectionIgnoresPoints
<1>10. Settled'
  <2>1. Settled
    BY <1>4 DEF EngineInv
  <2>2. {l \in DOMAIN streamers' : streamers'[l].watching}
          = {l \in DOMAIN streamers : streamers[l].watching}
    BY <1>7
  <2> QED BY <1>4, <1>9, <2>1, <2>2 DEF Settled
<1>11. OneDynamic' /\ Positions'
  BY <1>4, <1>7 DEF EngineInv, OneDynamic, Positions, scheduling
<1> QED
  BY <1>4, <1>8, <1>10, <1>11 DEF EngineInv

LEMMA BonusFailedStep ==
    ASSUME EngineInv, BonusFailed
    PROVE  EngineInv'
<1>1. redeemed' \subseteq Claims
  BY DEF BonusFailed, EngineInv, TypeOK, BonusEvents
<1>2. /\ pc = "claiming" /\ pc' = "waiting" /\ claiming' = {}
      /\ UNCHANGED <<streamers, activeGames, scheduling, active, events, eventsOut,
                     cancelled, stored, history>>
  BY DEF BonusFailed
<1>3. TypeOK'
  BY <1>1, <1>2 DEF EngineInv, TypeOK, scheduling, history, PCs
<1>4. OneDynamic' /\ Positions' /\ Settled'
  BY <1>2 DEF EngineInv, OneDynamic, Positions, Settled, scheduling
<1> QED
  BY <1>2, <1>3, <1>4 DEF EngineInv

\* The reports of a reschedule leave its target alone.
LEMMA EmitReportStep ==
    ASSUME EngineInv, EmitStart \/ EmitStop
    PROVE  EngineInv'
<1>1. PICK e \in LoginEvents(OutTypes) : Emit(e)
  <2>1. \A l \in Logins : /\ [type |-> "watch_start", login |-> l] \in LoginEvents(OutTypes)
                           /\ [type |-> "watch_stop", login |-> l] \in LoginEvents(OutTypes)
    BY DEF LoginEvents, OutTypes
  <2>2. starts \subseteq Logins /\ stops \subseteq Logins
    BY DEF EngineInv, TypeOK
  <2> QED BY <2>1, <2>2 DEF EmitStart, EmitStop
<1>2. eventsOut' \in Seq(LoginEvents(OutTypes)) /\ dropped' \in BOOLEAN
  BY <1>1, EmitTyped DEF EngineInv
<1>3. /\ starts' \subseteq Logins /\ stops' \subseteq Logins
      /\ pc = "rescheduling"
      /\ UNCHANGED <<pc, streamers, activeGames, target, claiming, active, events,
                     environment, view>>
  BY DEF EmitStart, EmitStop, EngineInv, TypeOK
<1>4. TypeOK'
  BY <1>2, <1>3 DEF EngineInv, TypeOK, environment
<1>5. OneDynamic' /\ Positions'
  BY <1>3 DEF EngineInv, OneDynamic, Positions
<1> QED
  BY <1>3, <1>4, <1>5 DEF EngineInv

\* Setting the Watching flag of a streamer.
LEMMA WatchingField ==
    ASSUME NEW x \in StreamerState, NEW w
    PROVE  /\ [x EXCEPT !.watching = w].priority = x.priority
           /\ [x EXCEPT !.watching = w].watching = w
           /\ w \in BOOLEAN => [x EXCEPT !.watching = w] \in StreamerState
BY DEF StreamerState

\* Publishing makes the target the active set and sets the flags from it; by
\* SelectionSurvivesFlags it is a selection of the state that results.
LEMMA PublishStep ==
    ASSUME EngineInv, Publish
    PROVE  EngineInv'
<1>1. /\ pc' = "waiting" /\ active' = target
      /\ streamers' = Flag(streamers, target)
      /\ UNCHANGED <<activeGames, scheduling, claiming, events, eventsOut,
                     environment, history>>
  BY DEF Publish, Flag
<1>2. Listed(streamers) /\ activeGames \in Seq(Games)
  BY DEF EngineInv, TypeOK, Positions, Listed
<1>3. target \in Selections(streamers, activeGames)
  BY DEF EngineInv, Publish
<1>4. target \in Selections(Flag(streamers, target), activeGames)
  BY <1>2, <1>3, SelectionSurvivesFlags
<1>5. target \subseteq DOMAIN streamers
  BY <1>3, SelectionShape
<1>6. /\ DOMAIN streamers' = DOMAIN streamers
      /\ streamers' \in [DOMAIN streamers -> StreamerState]
      /\ \A l \in DOMAIN streamers : /\ streamers'[l].priority = streamers[l].priority
                                     /\ streamers'[l].watching <=> l \in target
  <2>1. \A l \in DOMAIN streamers : streamers[l] \in StreamerState
    BY <1>2 DEF Listed
  <2>2. /\ DOMAIN streamers' = DOMAIN streamers
        /\ streamers' = [l \in DOMAIN streamers |-> streamers'[l]]
        /\ \A l \in DOMAIN streamers :
              streamers'[l] = [streamers[l] EXCEPT !.watching = l \in target]
    BY <1>1 DEF Flag
  <2>3. \A l \in DOMAIN streamers : /\ streamers'[l] \in StreamerState
                                    /\ streamers'[l].priority = streamers[l].priority
                                    /\ streamers'[l].watching <=> l \in target
    <3> SUFFICES ASSUME NEW l \in DOMAIN streamers
                 PROVE  /\ streamers'[l] \in StreamerState
                        /\ streamers'[l].priority = streamers[l].priority
                        /\ streamers'[l].watching <=> l \in target
      OBVIOUS
    <3>1. PICK w \in BOOLEAN : w <=> l \in target
      OBVIOUS
    <3>2. w = (l \in target)
      BY <3>1, Zenon
    <3>3. streamers'[l] = [streamers[l] EXCEPT !.watching = w]
      BY <2>2, <3>2, Zenon
    <3>4. streamers[l] \in StreamerState
      BY <2>1
    <3>5. /\ streamers'[l] \in StreamerState
          /\ streamers'[l].priority = streamers[l].priority
          /\ streamers'[l].watching = w
      BY <3>3, <3>4, WatchingField
    <3> QED BY <3>1, <3>5
  <2> QED BY <2>2, <2>3
<1>7. TypeOK'
  BY <1>1, <1>6 DEF EngineInv, TypeOK, scheduling, environment, history, PCs
<1>8. OneDynamic' /\ Positions'
  BY <1>1, <1>6 DEF EngineInv, OneDynamic, Positions, scheduling
<1>9. Settled'
  BY <1>1, <1>4, <1>5, <1>6 DEF Settled
<1> QED
  BY <1>1, <1>7, <1>8, <1>9 DEF EngineInv

-----------------------------------------------------------------------------
(* The theorems.                                                             *)

\* Every step of the engine and of the goroutines around it keeps EngineInv.
LEMMA NextInv == EngineInv /\ [Next]_vars => EngineInv'
<1> SUFFICES ASSUME EngineInv, [Next]_vars PROVE EngineInv'
  OBVIOUS
<1>1. CASE Produce
  BY <1>1, ProduceStep
<1>2. CASE Cancel
  BY <1>2, QuietStep DEF Cancel, history, EngineInv, TypeOK
<1>3. CASE Consume
  BY <1>3, ConsumeStep
<1>4. CASE Start \/ Tick
  BY <1>4, SameStep DEF Start, Tick, EngineInv, TypeOK
<1>5. CASE Stop
  <2>1. /\ pc' = "stopped"
        /\ UNCHANGED <<streamers, activeGames, scheduling, claiming, active, events,
                       eventsOut, environment, history>>
    BY <1>5 DEF Stop
  <2>2. TypeOK'
    BY <2>1 DEF EngineInv, TypeOK, scheduling, environment, history, PCs
  <2>3. OneDynamic' /\ Positions'
    BY <2>1 DEF EngineInv, OneDynamic, Positions, scheduling
  <2> QED BY <2>1, <2>2, <2>3 DEF EngineInv
<1>6. CASE HandleEvent
  <2>1. CASE HandleUnknown
    <3>1. events' \in Seq(InEvents)
      BY <2>1, ReceiveTyped DEF HandleUnknown, EngineInv
    <3> QED BY <2>1, <3>1, QuietStep
            DEF HandleUnknown, environment, history, EngineInv, TypeOK
  <2> QED BY <1>6, <2>1, OnlineStep, OfflineStep, StreakStep, PointsStep, BalanceStep,
             UpdateStreamersStep, ActiveGamesStep, NoticeStep, BonusAvailableStep
          DEF HandleEvent
<1>7. CASE EmitStart \/ EmitStop
  BY <1>7, EmitReportStep
<1>8. CASE Publish
  BY <1>8, PublishStep
<1>9. CASE BonusClaimed
  BY <1>9, BonusClaimedStep
<1>10. CASE BonusFailed
  BY <1>10, BonusFailedStep
<1>11. CASE UNCHANGED vars
  BY <1>11, QuietStep DEF vars, scheduling, EngineInv, TypeOK
<1> QED
  BY <1>1, <1>2, <1>3, <1>4, <1>5, <1>6, <1>7, <1>8, <1>9, <1>10, <1>11
     DEF Next, Engine

\* EngineInv holds in every reachable state.
THEOREM Invariance == Spec => []EngineInv
BY InitInv, NextInv, PTL DEF Spec

\* Every variable of the engine keeps its type, for every roster, game list,
\* amount and channel capacity.
THEOREM TypeCorrect == Spec => []TypeOK
<1>1. EngineInv => TypeOK
  BY DEF EngineInv
<1> QED
  BY <1>1, Invariance, PTL

\* At most one channel that is not configured is watched, or about to be, in
\* every reachable state: drops are credited on one channel at a time
\* (priority.go:102-108).
THEOREM AtMostOneDynamic == Spec => []OneDynamic
<1>1. EngineInv => OneDynamic
  BY DEF EngineInv
<1> QED
  BY <1>1, Invariance, PTL

\* Whenever the engine waits for an event, the active set, the Watching flags
\* and a fresh selection agree (engine.go:108-165): a tick never moves the
\* farmer to another channel by itself.
THEOREM StableSelection == Spec => []SelectionStable
<1>1. EngineInv => SelectionStable
  BY DEF EngineInv, SelectionStable, Settled
<1> QED
  BY <1>1, Invariance, PTL

-----------------------------------------------------------------------------
(* The best game.                                                            *)

\* With drops enabled, the selection serves the first of the active games that
\* anybody is live on (priority.go:70-81).
LEMMA FirstGameServed == EngineInv => BestGameServed
<1> SUFFICES ASSUME EngineInv, pc = "waiting", ClaimDrops,
                    NEW i \in DOMAIN activeGames, NEW l \in DOMAIN streamers,
                    l \notin StaticLogins, streamers[l].online,
                    streamers[l].game = activeGames[i]
             PROVE  \E k \in active \ StaticLogins, j \in DOMAIN activeGames :
                       j <= i /\ streamers[k].game = activeGames[j]
  BY DEF BestGameServed
<1> DEFINE G(j) == Group(streamers, activeGames, activeGames[j])
           T == {j \in DOMAIN activeGames : G(j) # {}}
<1>1. /\ active \in Selections(streamers, activeGames)
      /\ Listed(streamers) /\ activeGames \in Seq(Games)
  BY DEF EngineInv, Settled, TypeOK, Positions, Listed
<1>2. i \in T /\ T \subseteq Nat
  BY <1>1 DEF Group, DynamicOnline, GamesIn
<1>3. PICK m \in T : \A j \in T : m <= j
  BY <1>2, LeastNatural
<1>4. FirstServed(streamers, activeGames) = {m}
  <2>1. \A j \in DOMAIN activeGames : j \in Nat
    BY <1>1
  <2>2. m \in FirstServed(streamers, activeGames)
    BY <1>2, <1>3, <2>1 DEF FirstServed
  <2>3. ASSUME NEW j \in FirstServed(streamers, activeGames) PROVE j = m
    <3>1. j \in T /\ ~(m < j)
      BY <1>3, <2>3 DEF FirstServed
    <3> QED BY <1>2, <1>3, <3>1
  <2> QED BY <2>2, <2>3
<1>5. activeGames # <<>>
  BY <1>2
<1>6. Picks(streamers, activeGames) = Tops(streamers, G(m))
  BY <1>4, <1>5 DEF Picks
<1>7. /\ G(m) \subseteq DOMAIN streamers /\ G(m) # {}
      /\ \A k \in G(m) : k \notin StaticLogins /\ streamers[k].game = activeGames[m]
  BY <1>3 DEF Group, DynamicOnline
<1>8. Picks(streamers, activeGames) # {}
  BY <1>1, <1>6, <1>7, TopExists
<1>9. PICK k \in Picks(streamers, activeGames) : k \in active
  BY <1>1, <1>8 DEF Selections
<1>10. k \in G(m)
  BY <1>6, <1>9 DEF Tops
<1> QED
  BY <1>2, <1>3, <1>7, <1>9, <1>10

\* With drops enabled, whenever the engine waits, the channel it watches besides the
\* configured ones plays the first of the active games that any listed channel is
\* live on, for every list and every order of the games (priority.go:70-81).
THEOREM BestGameFirst == Spec => []BestGameServed
BY Invariance, FirstGameServed, PTL

-----------------------------------------------------------------------------
(* Queues.                                                                   *)

\* An event put at the end of a queue has the last word, if it is about l.
LEMMA LastWordAppend ==
    ASSUME NEW S, NEW q \in Seq(S), NEW e \in S, NEW l, NEW types
    PROVE  LastWord(Append(q, e), l, types) =
              IF e.type \in types /\ e.login = l THEN {e.type} ELSE LastWord(q, l, types)
<1> DEFINE p == Append(q, e)
           About(x) == x.type \in types /\ x.login = l
           Last(s) == {i \in DOMAIN s : /\ About(s[i])
                                        /\ \A j \in DOMAIN s : About(s[j]) => j <= i}
<1>1. LastWord(p, l, types) = {p[i].type : i \in Last(p)}
  BY DEF LastWord
<1>2. LastWord(q, l, types) = {q[i].type : i \in Last(q)}
  BY DEF LastWord
<1>3. /\ DOMAIN p = 1..(Len(q) + 1) /\ DOMAIN q = 1..Len(q) /\ Len(q) \in Nat
      /\ \A i \in DOMAIN q : p[i] = q[i]
      /\ p[Len(q) + 1] = e
  OBVIOUS
<1> HIDE DEF p, About
<1>4. CASE About(e)
  <2>1. Last(p) = {Len(q) + 1}
    BY <1>3, <1>4
  <2> QED BY <1>1, <1>3, <1>4, <2>1 DEF About, p
<1>5. CASE ~About(e)
  <2>1. Last(p) = Last(q)
    BY <1>3, <1>5
  <2>2. \A i \in Last(q) : i \in DOMAIN q
    OBVIOUS
  <2>3. {p[i].type : i \in Last(p)} = {q[i].type : i \in Last(q)}
    BY <1>3, <2>1, <2>2
  <2> QED BY <1>1, <1>2, <1>5, <2>3 DEF About, p
<1> QED
  BY <1>4, <1>5

\* Taking the head of a queue changes the last word only when nothing else in it
\* is about l.
LEMMA LastWordTail ==
    ASSUME NEW S, NEW q \in Seq(S), q # <<>>, NEW l, NEW types
    PROVE  LastWord(q, l, types) =
              IF LastWord(Tail(q), l, types) # {} THEN LastWord(Tail(q), l, types)
              ELSE IF Head(q).type \in types /\ Head(q).login = l THEN {Head(q).type}
              ELSE {}
<1> DEFINE t == Tail(q)
           About(x) == x.type \in types /\ x.login = l
           Last(s) == {i \in DOMAIN s : /\ About(s[i])
                                        /\ \A j \in DOMAIN s : About(s[j]) => j <= i}
<1>1. LastWord(q, l, types) = {q[i].type : i \in Last(q)}
  BY DEF LastWord
<1>2. LastWord(t, l, types) = {t[i].type : i \in Last(t)}
  BY DEF LastWord
<1>3. PICK n \in Nat : n + 1 = Len(q)
  OBVIOUS
<1>4. /\ DOMAIN q = 1..(n + 1) /\ DOMAIN t = 1..n
      /\ \A i \in 1..n : t[i] = q[i + 1]
      /\ Head(q) = q[1]
  BY <1>3
<1> HIDE DEF t, About
<1>5. CASE \E i \in 1..n : About(t[i])
  <2> DEFINE A == {i \in 1..n : About(t[i])}
  <2>1. PICK x \in A : \A y \in A : y <= x
    BY <1>5, GreatestPosition
  <2>2. Last(t) = {x}
    <3>1. x \in Last(t)
      BY <1>4, <2>1
    <3>2. ASSUME NEW i \in Last(t) PROVE i = x
      <4>1. i \in A /\ x \in DOMAIN t /\ About(t[x])
        BY <1>4, <2>1
      <4>2. i <= x /\ x <= i
        BY <4>1, <2>1
      <4> QED BY <4>1, <4>2
    <3> QED BY <3>1, <3>2
  <2>3. Last(q) = {x + 1}
    <3>1. x + 1 \in Last(q)
      <4>1. x + 1 \in DOMAIN q /\ About(q[x + 1])
        BY <1>4, <2>1
      <4>2. ASSUME NEW j \in DOMAIN q, About(q[j]) PROVE j <= x + 1
        <5>1. CASE j = 1
          BY <5>1, <2>1
        <5>2. CASE j # 1
          <6>1. j - 1 \in 1..n /\ q[j] = t[j - 1]
            BY <1>4, <5>2, <4>2
          <6> QED BY <6>1, <2>1, <4>2
        <5> QED BY <5>1, <5>2
      <4> QED BY <4>1, <4>2
    <3>2. ASSUME NEW i \in Last(q) PROVE i = x + 1
      BY <1>4, <2>1, <3>1, <3>2
    <3> QED BY <3>1, <3>2
  <2>4. LastWord(t, l, types) = {t[x].type} /\ LastWord(q, l, types) = {q[x + 1].type}
    BY <1>1, <1>2, <2>2, <2>3
  <2>5. t[x] = q[x + 1]
    BY <1>4, <2>1
  <2> QED BY <2>4, <2>5 DEF t
<1>6. CASE ~ \E i \in 1..n : About(t[i])
  <2>1. Last(t) = {}
    BY <1>4, <1>6
  <2>2. \A i \in DOMAIN q : About(q[i]) => i = 1
    <3> SUFFICES ASSUME NEW i \in DOMAIN q, i # 1 PROVE ~About(q[i])
      OBVIOUS
    <3>1. i - 1 \in 1..n /\ q[i] = t[i - 1]
      BY <1>4
    <3> QED BY <3>1, <1>6
  <2>3. Last(q) = IF About(Head(q)) THEN {1} ELSE {}
    BY <1>4, <2>2
  <2>4. LastWord(t, l, types) = {}
    BY <1>2, <2>1
  <2> QED BY <1>1, <1>4, <2>3, <2>4 DEF t, About
<1> QED
  BY <1>5, <1>6

-----------------------------------------------------------------------------
(* What a step does to the flags of the listed streamers.                    *)

\* A listed streamer keeps its flags.
SameFlags(l) == /\ streamers'[l].watching = streamers[l].watching
                /\ streamers'[l].online = streamers[l].online

\* The list keeps its streamers and their flags.
Unchanging == DOMAIN streamers' = DOMAIN streamers /\ \A l \in DOMAIN streamers : SameFlags(l)

\* One streamer is marked online or offline.
Marking(types, flag) ==
    /\ Receive(types) /\ Known(Head(events).login)
    /\ DOMAIN streamers' = DOMAIN streamers
    /\ \A l \in DOMAIN streamers :
          /\ streamers'[l].watching = streamers[l].watching
          /\ streamers'[l].online =
                IF l = Head(events).login THEN flag ELSE streamers[l].online

\* The list is replaced.
Replacing ==
    /\ Receive({"update_streamers"})
    /\ DOMAIN streamers' = DOMAIN Head(events).roster
    /\ \A l \in DOMAIN streamers' :
          IF Known(l) THEN SameFlags(l)
          ELSE streamers'[l].watching = FALSE /\ streamers'[l].online = TRUE

\* The active set is published in the flags.
Publishing ==
    /\ Publish
    /\ DOMAIN streamers' = DOMAIN streamers
    /\ \A l \in DOMAIN streamers : /\ streamers'[l].watching <=> l \in target
                                   /\ streamers'[l].online = streamers[l].online

\* Every step does one of these.
LEMMA ListStep ==
    ASSUME EngineInv, [Next]_vars
    PROVE  \/ Unchanging /\ ~Publish /\ ~HandleOnline /\ ~HandleOffline
           \/ Marking({"online"}, TRUE) /\ HandleOnline
           \/ Marking({"offline"}, FALSE) /\ HandleOffline
           \/ Replacing /\ HandleUpdateStreamers
           \/ Publishing
<1> USE DEF SameFlags
<1>0. \A l \in DOMAIN streamers : streamers[l] \in StreamerState
  BY DEF EngineInv, TypeOK
<1>1. CASE HandleOnline
  <2> DEFINE e == Head(events)
  <2>1. /\ Receive({"online"}) /\ Known(e.login)
        /\ streamers' = [streamers EXCEPT ![e.login].online = TRUE,
                                          ![e.login].game = e.game]
    BY <1>1 DEF HandleOnline, Reschedule
  <2>2. /\ DOMAIN streamers' = DOMAIN streamers
        /\ \A l \in DOMAIN streamers :
              streamers'[l] = IF l = e.login
                              THEN [streamers[l] EXCEPT !.online = TRUE, !.game = e.game]
                              ELSE streamers[l]
    BY <2>1 DEF Known
  <2>3. \A l \in DOMAIN streamers :
          /\ streamers'[l].watching = streamers[l].watching
          /\ streamers'[l].online = IF l = e.login THEN TRUE ELSE streamers[l].online
    BY <1>0, <2>2 DEF StreamerState
  <2> QED BY <1>1, <2>1, <2>2, <2>3 DEF Marking
<1>2. CASE HandleOffline
  <2> DEFINE k == Head(events).login
  <2>1. /\ Receive({"offline"}) /\ Known(k)
        /\ streamers' = [streamers EXCEPT ![k].online = FALSE, ![k].streakReady = FALSE]
    BY <1>2 DEF HandleOffline, Reschedule
  <2>2. /\ DOMAIN streamers' = DOMAIN streamers
        /\ \A l \in DOMAIN streamers :
              streamers'[l] = IF l = k
                              THEN [streamers[l] EXCEPT !.online = FALSE,
                                                        !.streakReady = FALSE]
                              ELSE streamers[l]
    BY <2>1 DEF Known
  <2>3. \A l \in DOMAIN streamers :
          /\ streamers'[l].watching = streamers[l].watching
          /\ streamers'[l].online = IF l = k THEN FALSE ELSE streamers[l].online
    BY <1>0, <2>2 DEF StreamerState
  <2> QED BY <1>2, <2>1, <2>2, <2>3 DEF Marking
<1>3. CASE HandleUpdateStreamers
  <2> DEFINE r == Head(events).roster
  <2>1. /\ Receive({"update_streamers"})
        /\ streamers' = [l \in DOMAIN r |->
                           IF Known(l)
                           THEN [streamers[l] EXCEPT !.priority = r[l].priority,
                                                     !.game = r[l].game]
                           ELSE NewState(r[l], TRUE)]
    BY <1>3 DEF HandleUpdateStreamers, Reschedule
  <2>2. \A l \in DOMAIN r : Known(l) => SameFlags(l)
    BY <1>0, <2>1 DEF StreamerState, Known
  <2>3. \A l \in DOMAIN r :
          ~Known(l) => streamers'[l].watching = FALSE /\ streamers'[l].online = TRUE
    BY <2>1 DEF NewState
  <2> QED BY <1>3, <2>1, <2>2, <2>3 DEF Replacing
<1>4. CASE Publish
  <2>1. /\ DOMAIN streamers' = DOMAIN streamers
        /\ \A l \in DOMAIN streamers :
              streamers'[l] = [streamers[l] EXCEPT !.watching = l \in target]
    BY <1>4 DEF Publish
  <2> SUFFICES ASSUME NEW l \in DOMAIN streamers
               PROVE  /\ streamers'[l].watching <=> l \in target
                      /\ streamers'[l].online = streamers[l].online
    BY <1>4, <2>1 DEF Publishing
  <2>2. PICK w \in BOOLEAN : w <=> l \in target
    OBVIOUS
  <2>3. w = (l \in target)
    BY <2>2, Zenon
  <2>4. streamers'[l] = [streamers[l] EXCEPT !.watching = w]
    BY <2>1, <2>3, Zenon
  <2>5. streamers'[l].watching = w /\ streamers'[l].online = streamers[l].online
    BY <1>0, <2>4 DEF StreamerState
  <2> QED BY <2>2, <2>5
<1>5. CASE ~Publish /\ ~HandleOnline /\ ~HandleOffline /\ ~HandleUpdateStreamers
  <2> SUFFICES Unchanging
    BY <1>5
  <2>1. CASE HandleStreak
    <3> DEFINE k == Head(events).login
    <3>1. Known(k) /\ streamers' = [streamers EXCEPT ![k].streakReady = TRUE]
      BY <2>1 DEF HandleStreak, Reschedule
    <3>2. /\ DOMAIN streamers' = DOMAIN streamers
          /\ \A l \in DOMAIN streamers :
                streamers'[l] = IF l = k THEN [streamers[l] EXCEPT !.streakReady = TRUE]
                                ELSE streamers[l]
      BY <3>1 DEF Known
    <3> QED BY <1>0, <3>2 DEF StreamerState, Unchanging
  <2>2. CASE HandlePoints
    <3> DEFINE e == Head(events)
    <3>1. /\ Known(e.login)
          /\ streamers' = [streamers EXCEPT ![e.login].points = @ + e.amount]
      BY <2>2 DEF HandlePoints, Reschedule
    <3>2. /\ DOMAIN streamers' = DOMAIN streamers
          /\ \A l \in DOMAIN streamers :
                streamers'[l] = IF l = e.login
                                THEN [streamers[l] EXCEPT
                                        !.points = streamers[l].points + e.amount]
                                ELSE streamers[l]
      BY <3>1 DEF Known
    <3> QED BY <1>0, <3>2 DEF StreamerState, Unchanging
  <2>3. CASE HandleBalance
    <3> DEFINE e == Head(events)
    <3>1. Known(e.login) /\ streamers' = [streamers EXCEPT ![e.login].points = e.amount]
      BY <2>3 DEF HandleBalance, Reschedule
    <3>2. /\ DOMAIN streamers' = DOMAIN streamers
          /\ \A l \in DOMAIN streamers :
                streamers'[l] = IF l = e.login
                                THEN [streamers[l] EXCEPT !.points = e.amount]
                                ELSE streamers[l]
      BY <3>1 DEF Known
    <3> QED BY <1>0, <3>2 DEF StreamerState, Unchanging
  <2>4. CASE BonusClaimed
    <3>1. PICK e \in claiming :
            streamers' = [l \in DOMAIN streamers |->
                            IF l = e.login
                            THEN [streamers[l] EXCEPT !.points = @ + BonusPoints]
                            ELSE streamers[l]]
      BY <2>4 DEF BonusClaimed
    <3>2. /\ DOMAIN streamers' = DOMAIN streamers
          /\ \A l \in DOMAIN streamers :
                streamers'[l] = IF l = e.login
                                THEN [streamers[l] EXCEPT
                                        !.points = streamers[l].points + BonusPoints]
                                ELSE streamers[l]
      BY <1>0, <3>1
    <3> QED BY <1>0, <3>2 DEF StreamerState, Unchanging
  <2>5. CASE streamers' = streamers
    BY <2>5 DEF Unchanging
  <2>6. CASE Produce
    BY <2>5, <2>6 DEF Produce, SendOnlineStatus, SendUpdateStreamers, SendActiveGames,
          SendChannelPoints, SendStreak, SendPoints, SendNotice, SendEvent
  <2>7. CASE Cancel \/ Consume \/ UNCHANGED vars
    BY <2>5, <2>7 DEF Cancel, Consume, vars
  <2>8. CASE Start \/ Tick \/ Stop \/ EmitStart \/ EmitStop \/ BonusFailed
    BY <2>5, <2>8 DEF Start, Tick, Stop, EmitStart, EmitStop, BonusFailed, Reschedule
  <2>9. CASE HandleUnknown \/ HandleActiveGames \/ HandleNotice \/ HandleBonusAvailable
    BY <2>5, <2>9 DEF HandleUnknown, HandleActiveGames, HandleNotice,
          HandleBonusAvailable, Reschedule
  <2> QED
    BY <1>5, <2>1, <2>2, <2>3, <2>4, <2>6, <2>7, <2>8, <2>9
       DEF Next, Engine, HandleEvent
<1> QED
  BY <1>1, <1>2, <1>3, <1>4, <1>5

-----------------------------------------------------------------------------
(* Reports.                                                                  *)

\* What an event that is emitted, and not lost, adds to what is reported.
LEMMA EmitReported ==
    ASSUME EngineInv, NEW e \in LoginEvents(OutTypes), Emit(e), view' = view, ~dropped'
    PROVE  /\ ~dropped
           /\ e.type = "watch_start" => Reported' = Reported \cup {e.login}
           /\ e.type = "watch_stop" => Reported' = Reported \ {e.login}
           /\ e.type \notin {"watch_start", "watch_stop"} => Reported' = Reported
<1> DEFINE O == LoginEvents(OutTypes)
           W == {"watch_start", "watch_stop"}
           Word(l) == LastWord(eventsOut, l, W)
<1>1. ~dropped /\ eventsOut' = Append(eventsOut, e)
  BY DEF Emit, EngineInv, TypeOK
<1>2. eventsOut \in Seq(O) /\ e \in O /\ e.login \in Logins
  BY DEF EngineInv, TypeOK, LoginEvents
<1>3. \A l : LastWord(eventsOut', l, W) =
                IF e.type \in W /\ e.login = l THEN {e.type} ELSE Word(l)
  <2> HIDE DEF O, W
  <2> QED BY <1>1, <1>2, LastWordAppend
<1>4. Reported = {l \in Logins : Word(l) = {"watch_start"} \/ (Word(l) = {} /\ l \in view)}
  BY DEF Reported
<1>5. Reported' = {l \in Logins :
                      LET word == IF e.type \in W /\ e.login = l THEN {e.type} ELSE Word(l)
                      IN  word = {"watch_start"} \/ (word = {} /\ l \in view)}
  BY <1>3 DEF Reported
<1> HIDE DEF Word
<1>6. ASSUME e.type = "watch_start" PROVE Reported' = Reported \cup {e.login}
  BY <1>2, <1>4, <1>5, <1>6
<1>7. ASSUME e.type = "watch_stop" PROVE Reported' = Reported \ {e.login}
  BY <1>2, <1>4, <1>5, <1>7
<1>8. ASSUME e.type \notin W PROVE Reported' = Reported
  BY <1>4, <1>5, <1>8
<1> QED
  BY <1>1, <1>6, <1>7, <1>8

\* What a consumer that held v as watched holds once it has read the queue q.
Holds(q, v) ==
    {l \in Logins : LET word == LastWord(q, l, {"watch_start", "watch_stop"})
                    IN  word = {"watch_start"} \/ (word = {} /\ l \in v)}

\* Reading an event moves it from the queue to what has been seen.
LEMMA HoldsTail ==
    ASSUME NEW q \in Seq(LoginEvents(OutTypes)), q # <<>>, NEW v
    PROVE  Holds(Tail(q), Seen(v, Head(q))) = Holds(q, v)
<1> DEFINE O == LoginEvents(OutTypes)
           W == {"watch_start", "watch_stop"}
           h == Head(q)
           Rest(l) == LastWord(Tail(q), l, W)
<1>1. \A l : LastWord(q, l, W) =
                IF Rest(l) # {} THEN Rest(l)
                ELSE IF h.type \in W /\ h.login = l THEN {h.type} ELSE {}
  <2> HIDE DEF O, W
  <2> QED BY LastWordTail
<1>2. Holds(Tail(q), Seen(v, h)) =
         {l \in Logins : Rest(l) = {"watch_start"} \/ (Rest(l) = {} /\ l \in Seen(v, h))}
  BY DEF Holds
<1>3. Holds(q, v) =
         {l \in Logins : LET word == IF Rest(l) # {} THEN Rest(l)
                                     ELSE IF h.type \in W /\ h.login = l THEN {h.type} ELSE {}
                         IN  word = {"watch_start"} \/ (word = {} /\ l \in v)}
  BY <1>1 DEF Holds
<1> SUFFICES Holds(Tail(q), Seen(v, h)) = Holds(q, v)
  OBVIOUS
<1> HIDE DEF Rest, h
<1>4. CASE h.type = "watch_start"
  BY <1>2, <1>3, <1>4 DEF Seen
<1>5. CASE h.type = "watch_stop"
  BY <1>2, <1>3, <1>5 DEF Seen
<1>6. CASE h.type \notin W
  BY <1>2, <1>3, <1>6 DEF Seen
<1> QED
  BY <1>4, <1>5, <1>6

LEMMA ConsumeReported ==
    ASSUME EngineInv, Consume
    PROVE  Reported' = Reported
<1>1. Reported = Holds(eventsOut, view) /\ Reported' = Holds(eventsOut', view')
  BY DEF Reported, Holds
<1> QED
  BY <1>1, HoldsTail DEF Consume, EngineInv, TypeOK

\* What is still to be reported of a reschedule is the difference it makes.
Pending ==
    /\ starts \subseteq target \ active
    /\ stops \subseteq active \ target
    /\ pc # "rescheduling" => target = active /\ starts = {} /\ stops = {}

\* The Watching flags are those of the active set, also during a reschedule.
Flagged == \A l \in DOMAIN streamers : streamers[l].watching <=> l \in active

ReportInv == Pending /\ Flagged /\ ReportsAddUp

LEMMA InitReports == Init => ReportInv
<1> SUFFICES ASSUME Init PROVE ReportInv
  OBVIOUS
<1>1. Pending /\ view = {} /\ active = {} /\ target = {} /\ starts = {} /\ stops = {}
  BY DEF Init, Pending
<1>2. Flagged
  BY DEF Init, Flagged, NewState
<1>3. \A l : LastWord(eventsOut, l, {"watch_start", "watch_stop"}) = {}
  BY DEF Init, LastWord
<1>4. Reported = {}
  BY <1>1, <1>3 DEF Reported
<1> QED
  BY <1>1, <1>2, <1>4 DEF ReportInv, ReportsAddUp

\* A reschedule begins with everything still to be reported.
LEMMA RescheduleReports ==
    ASSUME ReportInv, pc # "rescheduling", NEW st, NEW games, Reschedule(st, games),
           active' = active, eventsOut' = eventsOut, UNCHANGED history
    PROVE  Pending' /\ ReportsAddUp'
<1>1. PICK selected \in Selections(st, games) :
        /\ target' = selected
        /\ starts' = selected \ active /\ stops' = active \ selected
  BY DEF Reschedule
<1>2. Reported' = Reported
  BY DEF Reported, history
<1>3. pc' = "rescheduling"
  BY DEF Reschedule
<1>4. ReportsAddUp'
  BY <1>1, <1>2 DEF ReportInv, Pending, ReportsAddUp, history
<1> QED
  BY <1>1, <1>3, <1>4 DEF Pending

\* A step that leaves the scheduling alone and reports no change.
LEMMA QuietReports ==
    ASSUME ReportInv, pc = "rescheduling" => pc' = "rescheduling",
           UNCHANGED <<scheduling, active>>,
           ~dropped' => (~dropped /\ Reported' = Reported)
    PROVE  Pending' /\ ReportsAddUp'
BY DEF ReportInv, Pending, ReportsAddUp, scheduling

LEMMA NextReports == EngineInv /\ EngineInv' /\ ReportInv /\ [Next]_vars => ReportInv'
<1> SUFFICES ASSUME EngineInv, EngineInv', ReportInv, [Next]_vars PROVE ReportInv'
  OBVIOUS
<1>1. Flagged'
  <2>1. CASE Unchanging /\ ~Publish
    <3>1. active' = active
      BY <2>1 DEF Next, Produce, SendOnlineStatus, SendUpdateStreamers, SendActiveGames,
            SendChannelPoints, SendStreak, SendPoints, SendNotice, SendEvent,
            Cancel, Consume, Engine, Start, Tick, Stop, HandleEvent, HandleUnknown,
            HandleOnline, HandleOffline, HandleStreak, HandlePoints, HandleBalance,
            HandleUpdateStreamers, HandleActiveGames, HandleNotice, HandleBonusAvailable,
            EmitStart, EmitStop, BonusClaimed, BonusFailed, vars
    <3> QED BY <2>1, <3>1 DEF Unchanging, SameFlags, ReportInv, Flagged
  <2>2. CASE (Marking({"online"}, TRUE) /\ HandleOnline)
               \/ (Marking({"offline"}, FALSE) /\ HandleOffline)
    BY <2>2 DEF Marking, HandleOnline, HandleOffline, ReportInv, Flagged
  <2>3. CASE Replacing /\ HandleUpdateStreamers
    <3>1. active' = active /\ pc = "waiting"
      BY <2>3 DEF HandleUpdateStreamers, Receive
    <3>2. \A l : ~Known(l) => l \notin active
      BY <3>1 DEF EngineInv, Settled, Known
    <3> QED BY <2>3, <3>1, <3>2 DEF Replacing, SameFlags, Known, ReportInv, Flagged
  <2>4. CASE Publishing
    BY <2>4 DEF Publishing, Publish, Flagged
  <2> QED BY <2>1, <2>2, <2>3, <2>4, ListStep
<1>2. CASE Produce \/ Cancel \/ UNCHANGED vars
  <2>1. UNCHANGED <<pc, scheduling, active, eventsOut, history>>
    BY <1>2 DEF Produce, SendOnlineStatus, SendUpdateStreamers, SendActiveGames,
          SendChannelPoints, SendStreak, SendPoints, SendNotice, SendEvent, Cancel,
          vars, scheduling, history
  <2>2. Reported' = Reported
    BY <2>1 DEF Reported, history
  <2> QED BY <1>1, <2>1, <2>2, QuietReports DEF ReportInv, history
<1>3. CASE Consume
  BY <1>1, <1>3, ConsumeReported, QuietReports DEF Consume, ReportInv
<1>4. CASE \/ Start \/ Tick \/ HandleOnline \/ HandleOffline \/ HandleStreak
           \/ HandlePoints \/ HandleBalance \/ HandleUpdateStreamers \/ HandleActiveGames
  <2>1. /\ pc # "rescheduling" /\ active' = active /\ eventsOut' = eventsOut
        /\ UNCHANGED history
    BY <1>4 DEF Start, Tick, Receive, HandleOnline, HandleOffline, HandleStreak,
          HandlePoints, HandleBalance, HandleUpdateStreamers, HandleActiveGames
  <2>2. \E st, games : Reschedule(st, games)
    BY <1>4 DEF Start, Tick, HandleOnline, HandleOffline, HandleStreak,
          HandlePoints, HandleBalance, HandleUpdateStreamers, HandleActiveGames
  <2> QED BY <1>1, <2>1, <2>2, RescheduleReports DEF ReportInv
<1>5. CASE EmitStart
  <2>1. PICK l \in starts : /\ Emit([type |-> "watch_start", login |-> l])
                            /\ starts' = starts \ {l}
    BY <1>5 DEF EmitStart
  <2>2. /\ pc = "rescheduling" /\ pc' = pc
        /\ UNCHANGED <<target, stops, active, view>>
    BY <1>5 DEF EmitStart
  <2>3. l \in Logins /\ l \in target /\ l \notin active
    BY DEF EngineInv, TypeOK, ReportInv, Pending
  <2>4. [type |-> "watch_start", login |-> l] \in LoginEvents(OutTypes)
    BY <2>3 DEF LoginEvents, OutTypes
  <2>5. ~dropped' => ~dropped /\ Reported' = Reported \cup {l}
    BY <2>1, <2>2, <2>4, EmitReported
  <2>6. ReportsAddUp'
    BY <2>1, <2>2, <2>3, <2>5 DEF ReportInv, Pending, ReportsAddUp
  <2>7. Pending'
    BY <2>1, <2>2 DEF ReportInv, Pending
  <2> QED BY <1>1, <2>6, <2>7 DEF ReportInv
<1>6. CASE EmitStop
  <2>1. PICK l \in stops : /\ Emit([type |-> "watch_stop", login |-> l])
                           /\ stops' = stops \ {l}
    BY <1>6 DEF EmitStop
  <2>2. /\ pc = "rescheduling" /\ pc' = pc
        /\ UNCHANGED <<target, starts, active, view>>
    BY <1>6 DEF EmitStop
  <2>3. l \in Logins /\ l \in active /\ l \notin target
    BY DEF EngineInv, TypeOK, ReportInv, Pending
  <2>4. [type |-> "watch_stop", login |-> l] \in LoginEvents(OutTypes)
    BY <2>3 DEF LoginEvents, OutTypes
  <2>5. ~dropped' => ~dropped /\ Reported' = Reported \ {l}
    BY <2>1, <2>2, <2>4, EmitReported
  <2>6. ReportsAddUp'
    BY <2>1, <2>2, <2>3, <2>5 DEF ReportInv, Pending, ReportsAddUp
  <2>7. Pending'
    BY <2>1, <2>2 DEF ReportInv, Pending
  <2> QED BY <1>1, <2>6, <2>7 DEF ReportInv
<1>7. CASE Publish
  <2>1. /\ starts = {} /\ stops = {} /\ active' = target /\ pc' = "waiting"
        /\ UNCHANGED <<scheduling, eventsOut, history>>
    BY <1>7 DEF Publish
  <2>2. Reported' = Reported
    BY <2>1 DEF Reported, history
  <2>3. ReportsAddUp'
    BY <2>1, <2>2 DEF ReportInv, ReportsAddUp, scheduling, history
  <2>4. Pending'
    BY <2>1 DEF Pending, scheduling
  <2> QED BY <1>1, <2>3, <2>4 DEF ReportInv
<1>8. CASE HandleUnknown \/ Stop \/ BonusFailed
  <2>1. /\ pc # "rescheduling" /\ pc' # "rescheduling"
        /\ UNCHANGED <<scheduling, active, eventsOut, history>>
    BY <1>8 DEF HandleUnknown, Receive, Stop, BonusFailed
  <2>2. Reported' = Reported
    BY <2>1 DEF Reported, history
  <2> QED BY <1>1, <2>1, <2>2, QuietReports DEF ReportInv, history
<1>9. CASE HandleNotice
  <2> DEFINE e == Head(events)
  <2>1. e \in InEvents /\ e.type \in {"drop_claimed", "chat_mention"}
    BY <1>9, ReceiveTyped DEF HandleNotice, EngineInv
  <2>2. e \in LoginEvents(OutTypes)
    BY <2>1, EventFields DEF LoginEvents, OutTypes
  <2>3. /\ Emit(e) /\ pc # "rescheduling"
        /\ UNCHANGED <<pc, scheduling, active, view>>
    BY <1>9 DEF HandleNotice, Receive
  <2>4. ~dropped' => ~dropped /\ Reported' = Reported
    BY <2>1, <2>2, <2>3, EmitReported
  <2> QED BY <1>1, <2>3, <2>4, QuietReports DEF ReportInv
<1>10. CASE HandleBonusAvailable
  <2> DEFINE e == Head(events)
  <2>1. /\ pc # "rescheduling" /\ pc' # "rescheduling"
        /\ UNCHANGED <<scheduling, active, view>>
        /\ \/ UNCHANGED <<eventsOut, dropped>>
           \/ Emit([type |-> "bonus_claimed", login |-> e.login])
    BY <1>10 DEF HandleBonusAvailable, Receive
  <2>2. e \in InEvents /\ e.type = "bonus_available"
    BY <1>10, ReceiveTyped DEF HandleBonusAvailable, EngineInv
  <2>3. e \in BonusEvents
    BY <2>2, EventFields
  <2>4. [type |-> "bonus_claimed", login |-> e.login] \in LoginEvents(OutTypes)
    BY <2>3 DEF BonusEvents, LoginEvents, OutTypes
  <2>5. CASE UNCHANGED <<eventsOut, dropped>>
    <3>1. Reported' = Reported
      BY <2>1, <2>5 DEF Reported
    <3> QED BY <1>1, <2>1, <2>5, <3>1, QuietReports DEF ReportInv
  <2>6. CASE Emit([type |-> "bonus_claimed", login |-> e.login])
    <3>1. ~dropped' => ~dropped /\ Reported' = Reported
      BY <2>1, <2>4, <2>6, EmitReported
    <3> QED BY <1>1, <2>1, <3>1, QuietReports DEF ReportInv
  <2> QED BY <2>1, <2>5, <2>6
<1>11. CASE BonusClaimed
  <2>1. PICK e \in claiming : Emit([type |-> "bonus_claimed", login |-> e.login])
    BY <1>11 DEF BonusClaimed
  <2>2. [type |-> "bonus_claimed", login |-> e.login] \in LoginEvents(OutTypes)
    BY DEF EngineInv, TypeOK, BonusEvents, LoginEvents, OutTypes
  <2>3. pc # "rescheduling" /\ pc' # "rescheduling" /\ UNCHANGED <<scheduling, active, view>>
    BY <1>11 DEF BonusClaimed
  <2>4. ~dropped' => ~dropped /\ Reported' = Reported
    BY <2>1, <2>2, <2>3, EmitReported
  <2> QED BY <1>1, <2>3, <2>4, QuietReports DEF ReportInv
<1> QED
  BY <1>2, <1>3, <1>4, <1>5, <1>6, <1>7, <1>8, <1>9, <1>10, <1>11
     DEF Next, Engine, HandleEvent

\* ReportInv holds in every reachable state.
LEMMA Reports == Spec => []ReportInv
BY Invariance, InitReports, NextReports, PTL DEF Spec

\* As long as none was lost to a full channel, the reports of starts and stops add
\* up to the active set, at every point of a reschedule and however far behind the
\* consumer is (engine.go:117-152).
THEOREM ReportsComplete == Spec => []ReportsAddUp
<1>1. ReportInv => ReportsAddUp
  BY DEF ReportInv
<1> QED
  BY <1>1, Reports, PTL

-----------------------------------------------------------------------------
(* The reports about a channel are alternately starts and stops.             *)

\* Each report in the queue is news to a consumer that held v and has read what is
\* before it.
Alternating(q, v) ==
    \A j \in 1..Len(q) :
        q[j].type \in {"watch_start", "watch_stop"} =>
            (q[j].type = "watch_start" <=> q[j].login \notin Holds(SubSeq(q, 1, j - 1), v))

LEMMA AlternatingAppend ==
    ASSUME NEW q \in Seq(LoginEvents(OutTypes)), NEW v, Alternating(q, v),
           NEW e \in LoginEvents(OutTypes),
           e.type \in {"watch_start", "watch_stop"} =>
               (e.type = "watch_start" <=> e.login \notin Holds(q, v))
    PROVE  Alternating(Append(q, e), v)
<1> DEFINE p == Append(q, e)
<1>1. Len(p) = Len(q) + 1 /\ Len(q) \in Nat
  OBVIOUS
<1>2. ASSUME NEW j \in 1..Len(q)
      PROVE  p[j] = q[j] /\ SubSeq(p, 1, j - 1) = SubSeq(q, 1, j - 1)
  OBVIOUS
<1>3. p[Len(q) + 1] = e /\ SubSeq(p, 1, Len(q)) = q
  OBVIOUS
<1> HIDE DEF p
<1>4. \A j \in 1..Len(p) : j \in 1..Len(q) \/ (j = Len(q) + 1 /\ j - 1 = Len(q))
  BY <1>1
<1>5. Alternating(p, v)
  BY <1>2, <1>3, <1>4 DEF Alternating
<1> QED
  BY <1>5 DEF p

LEMMA AlternatingTail ==
    ASSUME NEW q \in Seq(LoginEvents(OutTypes)), q # <<>>, NEW v, Alternating(q, v)
    PROVE  Alternating(Tail(q), Seen(v, Head(q)))
<1> DEFINE t == Tail(q)
<1> SUFFICES ASSUME NEW j \in 1..Len(t), t[j].type \in {"watch_start", "watch_stop"}
             PROVE  t[j].type = "watch_start" <=>
                        t[j].login \notin Holds(SubSeq(t, 1, j - 1), Seen(v, Head(q)))
  BY DEF Alternating
<1> DEFINE p == SubSeq(q, 1, j)
<1>1. j + 1 \in 1..Len(q) /\ j \in 1..Len(q) /\ t[j] = q[j + 1]
  OBVIOUS
<1>2. p \in Seq(LoginEvents(OutTypes)) /\ Len(p) = j /\ p # <<>> /\ Head(p) = Head(q)
  BY <1>1
<1>3. Tail(p) = SubSeq(t, 1, j - 1)
  <2>1. Len(Tail(p)) = j - 1 /\ Len(SubSeq(t, 1, j - 1)) = j - 1
    BY <1>1, <1>2
  <2>2. ASSUME NEW i \in 1..(j - 1) PROVE Tail(p)[i] = SubSeq(t, 1, j - 1)[i]
    <3>1. i + 1 \in 1..j /\ j \in Nat
      BY <1>1
    <3>2. Tail(p)[i] = p[i + 1]
      BY <1>2
    <3>3. p[i + 1] = q[i + 1]
      BY <1>1, <3>1
    <3>4. SubSeq(t, 1, j - 1)[i] = t[i] /\ t[i] = q[i + 1]
      BY <1>1
    <3> QED BY <3>2, <3>3, <3>4
  <2>3. Tail(p) \in Seq(LoginEvents(OutTypes))
    BY <1>2
  <2>4. SubSeq(t, 1, j - 1) \in Seq(LoginEvents(OutTypes))
    <3>1. t \in Seq(LoginEvents(OutTypes)) /\ j - 1 <= Len(t)
      OBVIOUS
    <3> QED BY <3>1
  <2> QED BY <2>1, <2>2, <2>3, <2>4
<1>4. Holds(SubSeq(t, 1, j - 1), Seen(v, Head(q))) = Holds(p, v)
  BY <1>2, <1>3, HoldsTail
<1> HIDE DEF t, p
<1>5. (q[j + 1].type = "watch_start") <=> q[j + 1].login \notin Holds(p, v)
  BY <1>1, (j + 1) - 1 = j DEF Alternating, p
<1> QED
  BY <1>1, <1>4, <1>5

AlternateInv == ~dropped => Alternating(eventsOut, view)

LEMMA InitAlternates == Init => AlternateInv
BY DEF Init, AlternateInv, Alternating

\* A step that emits: what is emitted is no report, or news by the reports before.
LEMMA EmitAlternates ==
    ASSUME EngineInv, AlternateInv, NEW e \in LoginEvents(OutTypes), Emit(e), view' = view,
           (e.type \in {"watch_start", "watch_stop"} /\ ~dropped) =>
               (e.type = "watch_start" <=> e.login \notin Reported)
    PROVE  AlternateInv'
<1> SUFFICES ASSUME ~dropped' PROVE Alternating(eventsOut', view)
  BY DEF AlternateInv
<1>1. ~dropped /\ eventsOut' = Append(eventsOut, e)
  BY DEF Emit, EngineInv, TypeOK
<1>2. Reported = Holds(eventsOut, view)
  BY DEF Reported, Holds
<1> QED
  BY <1>1, <1>2, AlternatingAppend DEF AlternateInv, EngineInv, TypeOK

LEMMA NextAlternates == EngineInv /\ ReportInv /\ AlternateInv /\ [Next]_vars => AlternateInv'
<1> SUFFICES ASSUME EngineInv, ReportInv, AlternateInv, [Next]_vars PROVE AlternateInv'
  OBVIOUS
<1>1. CASE UNCHANGED <<eventsOut, history>>
  BY <1>1 DEF AlternateInv, history
<1>2. CASE Consume
  BY <1>2, AlternatingTail DEF Consume, AlternateInv, EngineInv, TypeOK
<1>3. CASE EmitStart
  <2>1. PICK l \in starts : Emit([type |-> "watch_start", login |-> l])
    BY <1>3 DEF EmitStart
  <2>2. l \in Logins /\ l \in target /\ l \notin active
    BY DEF EngineInv, TypeOK, ReportInv, Pending
  <2>3. ~dropped => l \notin Reported
    BY <2>1, <2>2 DEF ReportInv, ReportsAddUp
  <2> QED BY <1>3, <2>1, <2>2, <2>3, EmitAlternates DEF EmitStart, LoginEvents, OutTypes
<1>4. CASE EmitStop
  <2>1. PICK l \in stops : Emit([type |-> "watch_stop", login |-> l])
    BY <1>4 DEF EmitStop
  <2>2. l \in Logins /\ l \in active /\ l \notin target
    BY DEF EngineInv, TypeOK, ReportInv, Pending
  <2>3. ~dropped => l \in Reported
    BY <1>4, <2>1, <2>2 DEF EmitStop, ReportInv, ReportsAddUp
  <2> QED BY <1>4, <2>1, <2>2, <2>3, EmitAlternates DEF EmitStop, LoginEvents, OutTypes
<1>5. CASE HandleNotice
  <2>1. Head(events) \in InEvents /\ Head(events).type \in {"drop_claimed", "chat_mention"}
    BY <1>5, ReceiveTyped DEF HandleNotice, EngineInv
  <2>2. Head(events) \in LoginEvents(OutTypes)
    BY <2>1, EventFields DEF LoginEvents, OutTypes
  <2> QED BY <1>5, <2>1, <2>2, EmitAlternates DEF HandleNotice
<1>6. CASE HandleBonusAvailable
  <2>1. Head(events) \in InEvents /\ Head(events).type = "bonus_available"
    BY <1>6, ReceiveTyped DEF HandleBonusAvailable, EngineInv
  <2>2. Head(events) \in BonusEvents
    BY <2>1, EventFields
  <2>3. [type |-> "bonus_claimed", login |-> Head(events).login] \in LoginEvents(OutTypes)
    BY <2>2 DEF BonusEvents, LoginEvents, OutTypes
  <2>4. /\ view' = view
        /\ \/ UNCHANGED <<eventsOut, dropped>>
           \/ Emit([type |-> "bonus_claimed", login |-> Head(events).login])
    BY <1>6 DEF HandleBonusAvailable
  <2> QED BY <2>3, <2>4, EmitAlternates DEF AlternateInv
<1>7. CASE BonusClaimed
  <2>1. PICK e \in claiming : Emit([type |-> "bonus_claimed", login |-> e.login])
    BY <1>7 DEF BonusClaimed
  <2>2. [type |-> "bonus_claimed", login |-> e.login] \in LoginEvents(OutTypes)
    BY DEF EngineInv, TypeOK, BonusEvents, LoginEvents, OutTypes
  <2> QED BY <1>7, <2>1, <2>2, EmitAlternates DEF BonusClaimed
<1>8. CASE Produce \/ Cancel \/ UNCHANGED vars
  <2>1. UNCHANGED <<eventsOut, history>>
    BY <1>8 DEF Produce, SendOnlineStatus, SendUpdateStreamers, SendActiveGames,
          SendChannelPoints, SendStreak, SendPoints, SendNotice, SendEvent, Cancel,
          vars, history
  <2> QED BY <2>1, <1>1
<1>9. CASE \/ Start \/ Tick \/ Stop \/ HandleUnknown \/ HandleOnline \/ HandleOffline
           \/ HandleStreak \/ HandlePoints \/ HandleBalance \/ HandleUpdateStreamers
           \/ HandleActiveGames \/ Publish \/ BonusFailed
  <2>1. UNCHANGED <<eventsOut, history>>
    BY <1>9 DEF Start, Tick, Stop, HandleUnknown, HandleOnline, HandleOffline,
          HandleStreak, HandlePoints, HandleBalance, HandleUpdateStreamers,
          HandleActiveGames, Publish, BonusFailed
  <2> QED BY <2>1, <1>1
<1> QED
  BY <1>2, <1>3, <1>4, <1>5, <1>6, <1>7, <1>8, <1>9 DEF Next, Engine, HandleEvent

LEMMA HeadIsNews ==
    ASSUME EngineInv, AlternateInv, Consume, ~dropped,
           Head(eventsOut).type \in {"watch_start", "watch_stop"}
    PROVE  view' # view
<1> DEFINE h == Head(eventsOut)
<1> DEFINE O == LoginEvents(OutTypes)
<1>1. /\ 1 \in 1..Len(eventsOut) /\ h = eventsOut[1] /\ h \in O
      /\ SubSeq(eventsOut, 1, 1 - 1) = <<>>
  <2>1. eventsOut \in Seq(O) /\ eventsOut # <<>>
    BY DEF Consume, EngineInv, TypeOK
  <2> HIDE DEF O
  <2> QED BY <2>1
<1>2. h.login \in Logins
  BY <1>1 DEF LoginEvents
<1>3. \A l : LastWord(<<>>, l, {"watch_start", "watch_stop"}) = {}
  BY DEF LastWord
<1>4. Holds(<<>>, view) = {l \in Logins : l \in view}
  BY <1>3 DEF Holds
<1>5. view' = Seen(view, h)
  BY DEF Consume
<1> HIDE DEF h
<1>6. h.type \in {"watch_start", "watch_stop"}
  BY DEF h
<1>7. h.type = "watch_start" <=> h.login \notin Holds(<<>>, view)
  BY <1>1, <1>6 DEF AlternateInv, Alternating
<1> QED
  BY <1>2, <1>4, <1>5, <1>6, <1>7 DEF Seen

\* As long as none was lost, every report the consumer reads is news to it: it is never
\* told to start what it has started or to stop what it has not (engine.go:117-152),
\* however far behind it is.
THEOREM ReportsAreNews == Spec => ReportsAlternate
<1> DEFINE News == (/\ Consume /\ ~dropped
                    /\ Head(eventsOut).type \in {"watch_start", "watch_stop"}) => view' # view
<1>1. EngineInv /\ AlternateInv /\ [Next]_vars => [News]_vars
  BY HeadIsNews
<1>2. Spec => []AlternateInv
  BY InitAlternates, NextAlternates, Invariance, Reports, PTL DEF Spec
<1> QED
  BY <1>1, <1>2, Invariance, PTL DEF Spec, ReportsAlternate

\* The step that publishes a new set: a channel of the same game that is watched
\* already outranks the one chosen, unless it is that one.
LEMMA GameKept ==
    ASSUME EngineInv, ReportInv, [Next]_vars,
           NEW l \in active \ StaticLogins, NEW k \in active' \ StaticLogins,
           l # k, Known(l), streamers[l].online
    PROVE  streamers[k].game # streamers[l].game
<1>1. active' # active
  BY DEF EngineInv, OneDynamic
<1>2. Publish
  BY <1>1 DEF Next, Produce, SendOnlineStatus, SendUpdateStreamers, SendActiveGames,
            SendChannelPoints, SendStreak, SendPoints, SendNotice, SendEvent,
            Cancel, Consume, Engine, Start, Tick, Stop, HandleEvent, HandleUnknown,
            HandleOnline, HandleOffline, HandleStreak, HandlePoints, HandleBalance,
            HandleUpdateStreamers, HandleActiveGames, HandleNotice, HandleBonusAvailable,
            EmitStart, EmitStop, BonusClaimed, BonusFailed, vars
<1>3. active' = target /\ target \in Selections(streamers, activeGames)
  BY <1>2 DEF Publish, EngineInv
<1>4. k \in Picks(streamers, activeGames)
  BY <1>3 DEF Selections, StaticOnline
<1>5. SUFFICES ASSUME streamers[k].game = streamers[l].game PROVE FALSE
  OBVIOUS
<1> DEFINE G(g) == Group(streamers, activeGames, g)
<1>6. PICK g : k \in Tops(streamers, G(g))
  BY <1>4 DEF Picks, Tops, BestPerGame
<1>7. k \in G(g) /\ \A j \in G(g) \ {k} : Outranks(streamers[k], streamers[j])
  BY <1>6 DEF Tops
<1>8. k \in DOMAIN streamers /\ streamers[k].game = g
  BY <1>7 DEF Group, DynamicOnline
<1>9. l \in G(g)
  BY <1>5, <1>7 DEF Group, DynamicOnline, Known
<1>10. streamers[l].watching /\ ~streamers[k].watching
  <2>1. k \notin active
    BY DEF EngineInv, OneDynamic
  <2> QED BY <1>8, <2>1 DEF ReportInv, Flagged, Known
<1>11. Outranks(streamers[k], streamers[l])
  BY <1>7, <1>9
<1> QED
  BY <1>10, <1>11 DEF Outranks

\* A watched channel that stays listed and online is never exchanged for another of
\* its game, whatever streaks, balances and lists arrive: Watching ranks first
\* (priority.go:19-30).
THEOREM GameOfWatchedKept == Spec => SameGameKept
<1> DEFINE Kept == \A l \in active \ StaticLogins, k \in active' \ StaticLogins :
                      (l # k /\ Known(l) /\ streamers[l].online)
                         => streamers[k].game # streamers[l].game
<1>1. EngineInv /\ ReportInv /\ [Next]_vars => [Kept]_active
  BY GameKept
<1> QED
  BY <1>1, Invariance, Reports, PTL DEF Spec, SameGameKept

-----------------------------------------------------------------------------
(* Bonuses.                                                                  *)

\* The claims honoured for l.
Honoured(l) == {c \in redeemed : ClaimLogin[c] = l}

\* A claim id is queued, and being claimed, under the channel it belongs to.
Labelled(e) == e.type = "bonus_available" => e.login = ClaimLogin[e.claim]

BonusInv ==
    /\ BonusesBacked
    /\ IsFiniteSet(redeemed)
    /\ \A i \in DOMAIN events : Labelled(events[i])
    /\ \A e \in claiming : Labelled(e)
    /\ claiming = {} \/ \E e : claiming = {e}
    /\ DryRun => pc # "claiming"

LEMMA InitBonuses == Init => BonusInv
<1> SUFFICES ASSUME Init PROVE BonusInv
  OBVIOUS
<1>1. \A l \in Logins : {c \in redeemed : ClaimLogin[c] = l} = {}
  BY DEF Init
<1>2. BonusesBacked
  BY <1>1, FS_EmptySet DEF Init, BonusesBacked
<1> QED
  BY <1>2, FS_EmptySet DEF Init, BonusInv

\* The queue after an event is added or taken.
LEMMA QueueLabelled ==
    ASSUME EngineInv, \A i \in DOMAIN events : Labelled(events[i]),
           \/ events' = events
           \/ events # <<>> /\ events' = Tail(events)
           \/ \E e \in InEvents : Labelled(e) /\ SendEvent(e)
    PROVE  \A i \in DOMAIN events' : Labelled(events'[i])
<1> DEFINE I == InEvents
<1>1. events \in Seq(I)
  BY DEF EngineInv, TypeOK
<1>2. CASE events' = events
  BY <1>2
<1>3. CASE events # <<>> /\ events' = Tail(events)
  <2> HIDE DEF I
  <2> SUFFICES ASSUME NEW i \in DOMAIN events' PROVE Labelled(events'[i])
    OBVIOUS
  <2>1. i + 1 \in DOMAIN events /\ events'[i] = events[i + 1]
    BY <1>1, <1>3
  <2> QED BY <2>1
<1>4. CASE \E e \in I : Labelled(e) /\ SendEvent(e)
  <2>1. PICK e \in I : Labelled(e) /\ SendEvent(e)
    BY <1>4
  <2> HIDE DEF I
  <2>2. CASE events' = events
    BY <2>2
  <2>3. CASE events' = Append(events, e)
    <3> SUFFICES ASSUME NEW i \in DOMAIN events' PROVE Labelled(events'[i])
      OBVIOUS
    <3>1. \/ i \in DOMAIN events /\ events'[i] = events[i]
          \/ events'[i] = e
      BY <1>1, <2>3
    <3> QED BY <2>1, <3>1
  <2> QED BY <2>1, <2>2, <2>3 DEF SendEvent
<1> QED
  BY <1>2, <1>3, <1>4

\* Everything sent is labelled.
LEMMA ProduceLabelled ==
    ASSUME Produce
    PROVE  \E e \in InEvents : Labelled(e) /\ SendEvent(e)
<1>1. CASE SendOnlineStatus
  <2>1. \A l \in Logins, g \in Games :
          /\ [type |-> "online", login |-> l, game |-> g] \in InEvents
          /\ Labelled([type |-> "online", login |-> l, game |-> g])
    BY DEF InEvents, Labelled
  <2>2. \A l \in Logins : /\ [type |-> "offline", login |-> l] \in InEvents
                          /\ Labelled([type |-> "offline", login |-> l])
    BY DEF InEvents, LoginEvents, Labelled
  <2> QED BY <1>1, <2>1, <2>2 DEF SendOnlineStatus
<1>2. CASE SendUpdateStreamers
  <2>1. \A r \in Rosters : /\ [type |-> "update_streamers", roster |-> r] \in InEvents
                           /\ Labelled([type |-> "update_streamers", roster |-> r])
    BY DEF InEvents, Labelled
  <2> QED BY <1>2, <2>1 DEF SendUpdateStreamers
<1>3. CASE SendActiveGames
  <2>1. \A gs \in GameLists : /\ [type |-> "active_games", games |-> gs] \in InEvents
                              /\ Labelled([type |-> "active_games", games |-> gs])
    BY DEF InEvents, Labelled
  <2> QED BY <1>3, <2>1 DEF SendActiveGames
<1>4. CASE SendChannelPoints
  <2>1. \A l \in Logins, b \in Balances :
          /\ [type |-> "balance", login |-> l, amount |-> b] \in InEvents
          /\ Labelled([type |-> "balance", login |-> l, amount |-> b])
    BY AmountsAssumption DEF InEvents, Labelled
  <2>2. \A c \in Claims :
          /\ [type |-> "bonus_available", login |-> ClaimLogin[c], claim |-> c] \in InEvents
          /\ Labelled([type |-> "bonus_available", login |-> ClaimLogin[c], claim |-> c])
    BY BonusAssumption DEF InEvents, BonusEvents, Labelled
  <2> QED BY <1>4, <2>1, <2>2 DEF SendChannelPoints
<1>5. CASE SendStreak
  <2>1. \A l \in Logins : /\ [type |-> "streak", login |-> l] \in InEvents
                          /\ Labelled([type |-> "streak", login |-> l])
    BY DEF InEvents, LoginEvents, Labelled
  <2> QED BY <1>5, <2>1 DEF SendStreak
<1>6. CASE SendPoints
  <2> PointGains \subseteq Int
    BY AmountsAssumption
  <2>1. \A l \in Logins, a \in PointGains :
          /\ [type |-> "points", login |-> l, amount |-> a] \in InEvents
          /\ Labelled([type |-> "points", login |-> l, amount |-> a])
    BY DEF InEvents, Labelled
  <2> QED BY <1>6, <2>1 DEF SendPoints
<1>7. CASE SendNotice
  <2>1. \A l \in Logins, t \in {"drop_claimed", "chat_mention"} :
          /\ [type |-> t, login |-> l] \in InEvents
          /\ Labelled([type |-> t, login |-> l])
    BY DEF InEvents, LoginEvents, Labelled
  <2> QED BY <1>7, <2>1 DEF SendNotice
<1> QED
  BY <1>1, <1>2, <1>3, <1>4, <1>5, <1>6, <1>7 DEF Produce

\* Redeeming one more claim backs one more bonus of its channel, and takes none away
\* from the others.
LEMMA RedeemBacks ==
    ASSUME IsFiniteSet(redeemed), NEW c, redeemed' = redeemed \cup {c}
    PROVE  /\ IsFiniteSet(redeemed')
           /\ \A l : /\ Cardinality(Honoured(l)) \in Nat
                     /\ Cardinality(Honoured(l)') \in Nat
                     /\ Cardinality(Honoured(l)) <= Cardinality(Honoured(l)')
                     /\ (c \notin redeemed /\ ClaimLogin[c] = l)
                          => Cardinality(Honoured(l)') = Cardinality(Honoured(l)) + 1
<1>1. IsFiniteSet(redeemed')
  BY FS_AddElement
<1> SUFFICES ASSUME NEW l
             PROVE  /\ Cardinality(Honoured(l)) \in Nat
                    /\ Cardinality(Honoured(l)') \in Nat
                    /\ Cardinality(Honoured(l)) <= Cardinality(Honoured(l)')
                    /\ (c \notin redeemed /\ ClaimLogin[c] = l)
                         => Cardinality(Honoured(l)') = Cardinality(Honoured(l)) + 1
  BY <1>1
<1>2. /\ Honoured(l) \subseteq redeemed /\ Honoured(l)' \subseteq redeemed'
      /\ Honoured(l) \subseteq Honoured(l)'
  BY DEF Honoured
<1>3. IsFiniteSet(Honoured(l)) /\ IsFiniteSet(Honoured(l)')
  BY <1>1, <1>2, FS_Subset
<1>4. /\ Cardinality(Honoured(l)) \in Nat /\ Cardinality(Honoured(l)') \in Nat
      /\ Cardinality(Honoured(l)) <= Cardinality(Honoured(l)')
  BY <1>2, <1>3, FS_CardinalityType, FS_Subset
<1>5. ASSUME c \notin redeemed, ClaimLogin[c] = l
      PROVE  Cardinality(Honoured(l)') = Cardinality(Honoured(l)) + 1
  <2>1. Honoured(l)' = Honoured(l) \cup {c} /\ c \notin Honoured(l)
    BY <1>5 DEF Honoured
  <2> QED BY <1>3, <2>1, FS_AddElement
<1> QED
  BY <1>4, <1>5

\* A record adds to the bonuses of its channel at most what it is told to.
LEMMA RecordCounts ==
    ASSUME stored \in [Logins -> [points : Int, bonusClaims : Nat]],
           NEW l \in Logins, NEW a \in Int, NEW n \in Nat, Record(l, a, n)
    PROVE  \A k \in Logins : stored'[k].bonusClaims <=
                               stored[k].bonusClaims + (IF k = l THEN n ELSE 0)
BY DEF Record

LEMMA NextBonuses == EngineInv /\ EngineInv' /\ BonusInv /\ [Next]_vars => BonusInv'
<1> SUFFICES ASSUME EngineInv, EngineInv', BonusInv, [Next]_vars PROVE BonusInv'
  OBVIOUS
<1>1. CASE BonusClaimed
  <2>1. PICK e \in claiming :
          /\ e.claim \notin redeemed
          /\ redeemed' = redeemed \cup {e.claim}
          /\ Record(e.login, BonusPoints, 1)
    BY <1>1 DEF BonusClaimed
  <2>2. pc = "claiming" /\ pc' = "waiting" /\ claiming' = {} /\ events' = events
    BY <1>1 DEF BonusClaimed
  <2>3. /\ e \in BonusEvents /\ e.login = ClaimLogin[e.claim] /\ e.login \in Logins
        /\ ~DryRun
    BY <2>2 DEF EngineInv, TypeOK, BonusInv, Labelled, BonusEvents
  <2>4. \A l \in Logins :
          stored'[l].bonusClaims <= stored[l].bonusClaims + (IF l = e.login THEN 1 ELSE 0)
    <3>1. BonusPoints \in Int /\ stored \in [Logins -> [points : Int, bonusClaims : Nat]]
      BY BonusAssumption DEF EngineInv, TypeOK
    <3> QED BY <2>1, <2>3, <3>1, RecordCounts
  <2>5. /\ IsFiniteSet(redeemed')
        /\ \A l \in Logins : /\ Cardinality(Honoured(l)) \in Nat
                  /\ Cardinality(Honoured(l)') \in Nat
                  /\ Cardinality(Honoured(l)') >=
                        Cardinality(Honoured(l)) + (IF l = e.login THEN 1 ELSE 0)
    BY <2>1, <2>3, RedeemBacks DEF BonusInv
  <2>6. BonusesBacked'
    <3> SUFFICES ASSUME NEW l \in Logins
                 PROVE  stored'[l].bonusClaims <= Cardinality(Honoured(l)')
      BY <2>3 DEF BonusesBacked, Honoured
    <3>1. stored[l].bonusClaims <= Cardinality(Honoured(l))
      BY DEF BonusInv, BonusesBacked, Honoured
    <3>2. stored[l].bonusClaims \in Nat /\ stored'[l].bonusClaims \in Nat
      BY DEF EngineInv, TypeOK
    <3> QED BY <2>4, <2>5, <3>1, <3>2
  <2> QED BY <2>2, <2>5, <2>6 DEF BonusInv
<1>2. CASE BonusFailed
  <2>1. /\ pc = "claiming" /\ pc' = "waiting" /\ claiming' = {}
        /\ UNCHANGED <<events, stored>>
    BY <1>2 DEF BonusFailed
  <2>2. ~DryRun
    BY <2>1 DEF BonusInv
  <2>3. redeemed' = redeemed \/ \E e : redeemed' = redeemed \cup {e.claim}
    <3>1. redeemed' = redeemed \/ redeemed' = redeemed \cup {e.claim : e \in claiming}
      BY <1>2 DEF BonusFailed
    <3>2. CASE claiming = {}
      <4>1. {x.claim : x \in claiming} = {}
        BY <3>2
      <4> QED BY <3>1, <4>1
    <3>3. CASE \E e : claiming = {e}
      <4>1. PICK e : claiming = {e}
        BY <3>3
      <4>2. {x.claim : x \in claiming} = {e.claim}
        BY <4>1
      <4> QED BY <3>1, <4>2
    <3> QED BY <3>2, <3>3 DEF BonusInv
  <2>4. CASE redeemed' = redeemed
    BY <2>1, <2>4 DEF BonusInv, BonusesBacked
  <2>5. CASE redeemed' # redeemed
    <3>1. PICK c : redeemed' = redeemed \cup {c}
      BY <2>3, <2>5
    <3>2. IsFiniteSet(redeemed')
      BY <3>1, RedeemBacks DEF BonusInv
    <3>3. BonusesBacked'
      <4> SUFFICES ASSUME NEW l \in Logins
                   PROVE  stored[l].bonusClaims <= Cardinality(Honoured(l)')
        BY <2>1, <2>2 DEF BonusesBacked, Honoured
      <4>1. stored[l].bonusClaims <= Cardinality(Honoured(l))
        BY DEF BonusInv, BonusesBacked, Honoured
      <4>2. /\ Cardinality(Honoured(l)) \in Nat /\ Cardinality(Honoured(l)') \in Nat
            /\ Cardinality(Honoured(l)) <= Cardinality(Honoured(l)')
        BY <3>1, RedeemBacks DEF BonusInv
      <4>3. stored[l].bonusClaims \in Nat
        BY DEF EngineInv, TypeOK
      <4> QED BY <4>1, <4>2, <4>3
    <3> QED BY <2>1, <3>2, <3>3 DEF BonusInv
  <2> QED BY <2>4, <2>5
<1>3. CASE HandlePoints
  <2> DEFINE e == Head(events)
  <2>1. Record(e.login, e.amount, 0) /\ e.login \in Logins /\ e.amount \in Int
    <3>1. e \in InEvents /\ e.type = "points"
      BY <1>3, ReceiveTyped DEF HandlePoints, EngineInv
    <3> QED BY <1>3, <3>1, EventFields DEF HandlePoints, StreamerEvents
  <2>2. \A l \in Logins : stored'[l].bonusClaims <= stored[l].bonusClaims
    <3>1. \A l \in Logins : stored[l].bonusClaims \in Nat
      BY DEF EngineInv, TypeOK
    <3>2. stored \in [Logins -> [points : Int, bonusClaims : Nat]]
      BY DEF EngineInv, TypeOK
    <3>3. \A l \in Logins : stored'[l].bonusClaims <=
                              stored[l].bonusClaims + (IF l = e.login THEN 0 ELSE 0)
      <4> HIDE DEF e
      <4> QED BY <2>1, <3>2, RecordCounts
    <3> QED BY <3>1, <3>3
  <2>3. /\ events # <<>> /\ events' = Tail(events) /\ pc' = "rescheduling"
        /\ UNCHANGED <<redeemed, claiming>>
    BY <1>3 DEF HandlePoints, Receive, Reschedule
  <2>4. BonusesBacked'
    <3> SUFFICES ASSUME NEW l \in Logins
                 PROVE  stored'[l].bonusClaims <= Cardinality(Honoured(l))
      BY <2>3 DEF BonusInv, BonusesBacked, Honoured
    <3>1. stored[l].bonusClaims <= Cardinality(Honoured(l))
      BY DEF BonusInv, BonusesBacked, Honoured
    <3>2. Cardinality(Honoured(l)) \in Nat
      BY FS_Subset, FS_CardinalityType DEF BonusInv, Honoured
    <3>3. stored[l].bonusClaims \in Nat /\ stored'[l].bonusClaims \in Nat
      BY DEF EngineInv, TypeOK
    <3> QED BY <2>2, <3>1, <3>2, <3>3
  <2>5. \A i \in DOMAIN events' : Labelled(events'[i])
    BY <2>3, QueueLabelled DEF BonusInv
  <2> QED BY <2>3, <2>4, <2>5 DEF BonusInv
<1>4. CASE HandleBonusAvailable
  <2> DEFINE e == Head(events)
  <2>1. /\ events # <<>> /\ events' = Tail(events) /\ UNCHANGED <<redeemed, stored>>
        /\ \/ UNCHANGED <<pc, claiming>>
           \/ pc' = "claiming" /\ claiming' = {e} /\ ~DryRun
    BY <1>4 DEF HandleBonusAvailable, Receive, environment
  <2>2. Labelled(e)
    <3>1. e = events[1] /\ 1 \in DOMAIN events
      BY <2>1 DEF EngineInv, TypeOK
    <3> QED BY <3>1 DEF BonusInv
  <2>3. \A i \in DOMAIN events' : Labelled(events'[i])
    BY <2>1, QueueLabelled DEF BonusInv
  <2>4. BonusesBacked'
    BY <2>1 DEF BonusInv, BonusesBacked
  <2> QED BY <2>1, <2>2, <2>3, <2>4 DEF BonusInv
<1>5. CASE Produce
  <2>1. UNCHANGED <<pc, claiming, stored, redeemed>>
    BY <1>5 DEF Produce, SendOnlineStatus, SendUpdateStreamers, SendActiveGames,
          SendChannelPoints, SendStreak, SendPoints, SendNotice, SendEvent, environment
  <2>2. \A i \in DOMAIN events' : Labelled(events'[i])
    BY <1>5, ProduceLabelled, QueueLabelled DEF BonusInv
  <2> QED BY <2>1, <2>2 DEF BonusInv, BonusesBacked
<1>6. CASE \/ HandleUnknown \/ HandleOnline \/ HandleOffline \/ HandleStreak
           \/ HandleBalance \/ HandleUpdateStreamers \/ HandleActiveGames \/ HandleNotice
  <2>1. /\ events # <<>> /\ events' = Tail(events) /\ pc' # "claiming"
        /\ UNCHANGED <<claiming, stored, redeemed>>
    BY <1>6 DEF HandleUnknown, HandleOnline, HandleOffline, HandleStreak, HandleBalance,
          HandleUpdateStreamers, HandleActiveGames, HandleNotice, Receive, Reschedule,
          environment
  <2>2. \A i \in DOMAIN events' : Labelled(events'[i])
    BY <2>1, QueueLabelled DEF BonusInv
  <2> QED BY <2>1, <2>2 DEF BonusInv, BonusesBacked
<1>7. CASE \/ Cancel \/ Consume \/ Start \/ Tick \/ Stop \/ EmitStart \/ EmitStop
           \/ Publish \/ UNCHANGED vars
  <2>1. /\ pc' = "claiming" => pc = "claiming"
        /\ UNCHANGED <<events, claiming, stored, redeemed>>
    BY <1>7 DEF Cancel, Consume, Start, Tick, Stop, EmitStart, EmitStop, Publish,
          Reschedule, environment, vars
  <2> QED BY <2>1 DEF BonusInv, BonusesBacked
<1> QED
  BY <1>1, <1>2, <1>3, <1>4, <1>5, <1>6, <1>7 DEF Next, Engine, HandleEvent

\* The store never holds more bonuses of a channel than the service has honoured, for
\* any queue of repeated claim ids and any failures of the claim or of the store; a
\* dry run claims none (engine.go:328-337, 366-379).
THEOREM BonusesHonoured == Spec => []BonusesBacked
<1>1. BonusInv => BonusesBacked
  BY DEF BonusInv
<1> QED
  BY <1>1, Invariance, InitBonuses, NextBonuses, PTL DEF Spec
=============================================================================
