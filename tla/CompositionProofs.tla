-------------------------- MODULE CompositionProofs --------------------------
(***************************************************************************)
(* Theorems about what the engine is composed with.  Roster: the three        *)
(* goroutines use the engine the way its specification allows, so that all    *)
(* that is proved about the engine holds of the composition; and what the     *)
(* list and the engine know of each other.  Output: the same for the consumer  *)
(* and the chat clients, and that the presence in chats follows the choice.   *)
(***************************************************************************)
EXTENDS Roster, Output, EngineProofs, ChatProofs

-----------------------------------------------------------------------------
(* Lists of discovered streamers.                                            *)

LEMMA MostFound == Cardinality(Logins \ StaticLogins) \in Nat
<1>1. IsFiniteSet(Logins \ StaticLogins)
  BY LoginsFinite, FS_Subset
<1> QED
  BY <1>1, FS_CardinalityType

LEMMA ListFields ==
    ASSUME NEW list \in Lists
    PROVE  /\ list \in Seq(Found)
           /\ Len(list) \in 0..Cardinality(Logins \ StaticLogins)
           /\ \A i, j \in 1..Len(list) : list[i].login = list[j].login => i = j
           /\ DynamicLogins(list) \subseteq Logins \ StaticLogins
<1>1. PICK n \in 0..Cardinality(Logins \ StaticLogins) : list \in [1..n -> Found]
  BY DEF Lists
<1>2. n \in Nat
  BY <1>1, MostFound
<1>3. list \in Seq(Found) /\ Len(list) = n
  BY <1>1, <1>2
<1>4. \A i \in DOMAIN list : list[i].login \in Logins \ StaticLogins
  BY <1>1 DEF Found
<1> QED
  BY <1>1, <1>3, <1>4 DEF Lists, DynamicLogins

\* Removing the entry of a login removes the login (removeDynamicStreamer).
LEMMA WithoutLogin ==
    ASSUME NEW list \in Lists, NEW l
    PROVE  /\ Without(list, l) \in Lists
           /\ DynamicLogins(Without(list, l)) = DynamicLogins(list) \ {l}
<1>1. CASE l \notin DynamicLogins(list)
  BY <1>1 DEF Without
<1>2. CASE l \in DynamicLogins(list)
  <2> DEFINE n == Len(list)
             First(k) == /\ list[k].login = l
                         /\ \A i \in DOMAIN list : list[i].login = l => k <= i
             k == CHOOSE k \in DOMAIN list : First(k)
             w == [i \in 1..(n - 1) |-> IF i < k THEN list[i] ELSE list[i + 1]]
  <2>1. /\ n \in Nat /\ n <= Cardinality(Logins \ StaticLogins) /\ DOMAIN list = 1..n
        /\ \A i \in 1..n : list[i] \in Found
        /\ \A i, j \in 1..n : list[i].login = list[j].login => i = j
    <3>1. /\ list \in Seq(Found)
          /\ n \in 0..Cardinality(Logins \ StaticLogins)
          /\ \A i, j \in 1..n : list[i].login = list[j].login => i = j
      BY ListFields
    <3> QED BY <3>1, MostFound
  <2>2. PICK p \in DOMAIN list : list[p].login = l
    BY <1>2 DEF DynamicLogins
  <2>3. First(p)
    BY <2>1, <2>2
  <2>4. k \in DOMAIN list /\ First(k)
    BY <2>2, <2>3
  <2>5. Without(list, l) = w
    BY <1>2 DEF Without
  <2> HIDE DEF k
  <2>6. k \in 1..n /\ list[k].login = l
    BY <2>1, <2>4
  <2>7. /\ w \in [1..(n - 1) -> Found] /\ n - 1 \in 0..Cardinality(Logins \ StaticLogins)
        /\ \A i \in 1..(n - 1) : w[i] = IF i < k THEN list[i] ELSE list[i + 1]
    BY <2>1, <2>6, MostFound
  <2> HIDE DEF w
  <2>8. ASSUME NEW i \in 1..(n - 1), NEW j \in 1..(n - 1), w[i].login = w[j].login
        PROVE  i = j
    BY <2>1, <2>6, <2>7, <2>8
  <2>9. w \in Lists
    <3>1. DOMAIN w = 1..(n - 1)
      BY <2>7
    <3> QED BY <2>7, <2>8, <3>1 DEF Lists
  <2>10. ASSUME NEW m \in DynamicLogins(list), m # l PROVE m \in DynamicLogins(w)
    <3>1. PICK i \in 1..n : list[i].login = m
      BY <2>1 DEF DynamicLogins
    <3>2. CASE i < k
      <4>1. i \in 1..(n - 1) /\ w[i] = list[i]
        BY <2>1, <2>6, <2>7, <3>1, <3>2
      <4> QED BY <2>7, <3>1, <4>1 DEF DynamicLogins
    <3>3. CASE i > k
      <4>1. i - 1 \in 1..(n - 1) /\ w[i - 1] = list[i]
        BY <2>1, <2>6, <2>7, <3>1, <3>3
      <4> QED BY <2>7, <3>1, <4>1 DEF DynamicLogins
    <3> QED BY <2>6, <2>10, <3>1, <3>2, <3>3, <2>1
  <2>11. ASSUME NEW m \in DynamicLogins(w) PROVE m \in DynamicLogins(list) \ {l}
    <3>1. PICK i \in 1..(n - 1) : w[i].login = m
      BY <2>7 DEF DynamicLogins
    <3>2. PICK j \in 1..n : j # k /\ w[i] = list[j]
      BY <2>1, <2>6, <2>7, <3>1
    <3> QED BY <2>1, <2>6, <3>1, <3>2 DEF DynamicLogins
  <2> QED BY <2>5, <2>9, <2>10, <2>11
<1> QED
  BY <1>1, <1>2

\* A list keeps its logins when its entries keep theirs.
LEMMA SameEntries ==
    ASSUME NEW list \in Lists, NEW new \in [DOMAIN list -> Found],
           \A i \in DOMAIN list : new[i].login = list[i].login
    PROVE  new \in Lists /\ DynamicLogins(new) = DynamicLogins(list)
<1>1. PICK n \in 0..Cardinality(Logins \ StaticLogins) : list \in [1..n -> Found]
  BY DEF Lists
<1>2. DOMAIN new = 1..n /\ DOMAIN list = 1..n /\ new \in [1..n -> Found]
  BY <1>1
<1>3. new \in Lists
  BY <1>1, <1>2 DEF Lists
<1>4. DynamicLogins(new) = DynamicLogins(list)
  BY <1>2 DEF DynamicLogins
<1> QED
  BY <1>3, <1>4

LEMMA TailLeft ==
    ASSUME NEW S, NEW q \in Seq(S), q # <<>>, Len(q) # 1
    PROVE  Tail(q) \in Seq(S) \ {<<>>}
<1>1. PICK n \in Nat : n + 1 = Len(q)
  OBVIOUS
<1> DEFINE t == Tail(q)
<1>2. t \in Seq(S) /\ Len(t) = Len(q) - 1
  OBVIOUS
<1> HIDE DEF t
<1>3. n # 0
  BY <1>1
<1>4. t # <<>>
  BY <1>1, <1>2, <1>3
<1> QED
  BY <1>2, <1>4 DEF t

\* What targets of a search make a list: each once, in some order.
LEMMA OrderedTargets ==
    ASSUME NEW T, T \subseteq Logins \ StaticLogins,
           NEW order \in [1..Cardinality(T) -> T],
           \A i, j \in DOMAIN order : order[i] = order[j] => i = j,
           NEW list \in [DOMAIN order -> Found],
           \A i \in DOMAIN order : list[i].login = order[i]
    PROVE  list \in Lists /\ DynamicLogins(list) \subseteq T
<1>1. IsFiniteSet(Logins \ StaticLogins)
  BY LoginsFinite, FS_Subset
<1>2. /\ Cardinality(T) <= Cardinality(Logins \ StaticLogins)
      /\ Cardinality(T) \in Nat
  BY <1>1, FS_Subset, FS_CardinalityType
<1>3. Cardinality(T) \in 0..Cardinality(Logins \ StaticLogins)
  BY <1>2, MostFound
<1>4. list \in [1..Cardinality(T) -> Found] /\ DOMAIN list = DOMAIN order
  OBVIOUS
<1>5. list \in Lists
  BY <1>3, <1>4 DEF Lists
<1>6. DynamicLogins(list) \subseteq T
  BY <1>4 DEF DynamicLogins
<1> QED
  BY <1>5, <1>6

-----------------------------------------------------------------------------
(* Types.                                                                    *)

\* Lists the engine may be sent that name every configured streamer.
Sendable == {r \in Rosters : StaticLogins \subseteq DOMAIN r}

Polls ==
    {Idle} \cup [at : {"asking"}, todo : Seq(Logins) \ {<<>>}]
           \cup [at : {"answered", "applying"}, todo : Seq(Logins) \ {<<>>},
                 streams : [Logins -> Games \cup {Offline}]]

Passes ==
    {Idle} \cup [at : {"searching"}, todo : Seq(Games \ {NoGame}), failed : BOOLEAN,
                 raced : SUBSET Logins]
           \cup [at : {"found"}, raced : SUBSET Logins, list : Lists]
           \cup [at : {"applied"}]
           \cup [at : {"listed"}, roster : Sendable]

Rotating ==
    {Idle} \cup [at : {"picked", "marked"}, login : Logins \ StaticLogins]
           \cup [at : {"removed"}]
           \cup [at : {"listed"}, roster : Sendable]

RosterTypeOK ==
    /\ changes \in Nat /\ rotations \in Nat
    /\ live \in [Logins -> Games \cup {Offline}]
    /\ booted \in BOOLEAN
    /\ staticGame \in [StaticLogins -> Games]
    /\ dynamic \in Lists
    /\ cooldown \subseteq Logins \ StaticLogins
    /\ online \in [Logins -> BOOLEAN]
    /\ poll \in Polls /\ disc \in Passes /\ rot \in Rotating
    /\ raced \subseteq Logins
    /\ lost \in BOOLEAN

LEMMA CombinedSendable == RosterTypeOK => Combined \in Sendable
<1> SUFFICES ASSUME RosterTypeOK PROVE Combined \in Sendable
  OBVIOUS
<1>1. Combined \in Rosters
  BY RostersComplete DEF RosterTypeOK, Combined
<1>2. DOMAIN Combined = StaticLogins \cup DynamicLogins(dynamic)
  BY DEF Combined, CombinedOf
<1> QED
  BY <1>1, <1>2 DEF Sendable

LEMMA ListingTyped == RosterTypeOK => Listing \in Seq(Logins)
<1> SUFFICES ASSUME RosterTypeOK PROVE Listing \in Seq(Logins)
  OBVIOUS
<1>1. /\ dynamic \in Seq(Found)
      /\ \A i \in DOMAIN dynamic : dynamic[i].login \in Logins
  BY ListFields DEF RosterTypeOK, DynamicLogins
<1>2. [i \in DOMAIN dynamic |-> dynamic[i].login] \in Seq(Logins)
  BY <1>1
<1>3. StaticOrder \in Seq(Logins)
  BY StaticOrderAssumption, LoginsAssumption
<1> QED
  BY <1>2, <1>3 DEF Listing

LEMMA RosterInitTyped == RosterInit => RosterTypeOK
<1> SUFFICES ASSUME RosterInit PROVE RosterTypeOK
  OBVIOUS
<1> USE DEF RosterInit
<1>1. InitialDynamic \in Lists
  BY InitialDynamicAssumption
<1>2. \A i \in DOMAIN InitialDynamic : InitialDynamic[i].game \in Games
  <2>1. InitialDynamic \in Seq(Found)
    BY <1>1, ListFields
  <2>2. \A i \in DOMAIN InitialDynamic : InitialDynamic[i] \in Found
    BY <2>1
  <2> QED BY <2>2 DEF Found
<1>3. live \in [Logins -> Games \cup {Offline}]
  <2> SUFFICES ASSUME NEW l \in Logins PROVE live[l] \in Games \cup {Offline}
    OBVIOUS
  <2> DEFINE At(i) == InitialDynamic[i].login = l
  <2>1. CASE \E i \in DOMAIN InitialDynamic : At(i)
    <3>1. (CHOOSE i \in DOMAIN InitialDynamic : At(i)) \in DOMAIN InitialDynamic
      BY <2>1
    <3> QED BY <1>2, <2>1, <3>1
  <2>2. CASE ~ \E i \in DOMAIN InitialDynamic : At(i)
    BY <2>2
  <2> QED BY <2>1, <2>2
<1>4. staticGame \in [StaticLogins -> Games]
  BY NamesAssumption
<1>5. poll \in Polls /\ disc \in Passes /\ rot \in Rotating
  BY DEF Polls, Passes, Rotating
<1> QED
  BY <1>1, <1>3, <1>4, <1>5 DEF RosterTypeOK

\* What each action hands to the engine is something the engine expects.
LEMMA SendIsProduced ==
    ASSUME NEW e, Send(e),
           \/ \E l \in Logins, g \in Games :
                 e = [type |-> "online", login |-> l, game |-> g]
           \/ \E l \in Logins : e = [type |-> "offline", login |-> l]
           \/ \E r \in Rosters : e = [type |-> "update_streamers", roster |-> r]
           \/ ClaimDrops /\ \E gs \in GameLists : e = [type |-> "active_games", games |-> gs]
    PROVE  Produce
  BY DEF Send, Produce, SendOnlineStatus, SendUpdateStreamers, SendActiveGames

LEMMA LostTyped == ASSUME NEW e, Send(e), lost \in BOOLEAN PROVE lost' \in BOOLEAN
  BY DEF Send

\* The poller gives entries another game and leaves their logins alone.
LEMMA PollKeepsLogins ==
    ASSUME RosterTypeOK, PollApply
    PROVE  dynamic' \in Lists /\ DynamicLogins(dynamic') = DynamicLogins(dynamic)
<1> DEFINE l == Head(poll.todo)
           game == poll.streams[l]
<1>1. /\ poll.todo \in Seq(Logins) \ {<<>>}
      /\ poll.streams \in [Logins -> Games \cup {Offline}]
  BY DEF PollApply, RosterTypeOK, Polls, Idle
<1>2. dynamic \in Lists
  BY DEF RosterTypeOK
<1>3. CASE game = Offline
  BY <1>2, <1>3 DEF PollApply
<1>4. CASE game # Offline
  <2>1. game \in Games
    BY <1>1, <1>4
  <2>2. dynamic' = [i \in DOMAIN dynamic |->
                      IF dynamic[i].login = l THEN [dynamic[i] EXCEPT !.game = game]
                      ELSE dynamic[i]]
    BY <1>4 DEF PollApply
  <2>3. \A i \in DOMAIN dynamic : dynamic[i] \in Found
    <3>1. dynamic \in Seq(Found)
      BY <1>2, ListFields
    <3> QED BY <3>1
  <2> HIDE DEF l, game
  <2>4. dynamic' \in [DOMAIN dynamic -> Found]
    BY <2>1, <2>2, <2>3 DEF Found
  <2>5. \A i \in DOMAIN dynamic : dynamic'[i].login = dynamic[i].login
    BY <2>1, <2>2, <2>3 DEF Found
  <2> QED BY <1>2, <2>4, <2>5, SameEntries
<1> QED
  BY <1>3, <1>4

\* Every step of the composition is a step of the engine's specification or
\* leaves the engine alone, and keeps the types.
LEMMA RosterStep == RosterTypeOK /\ [RosterNext]_rosterVars => RosterTypeOK' /\ [Next]_vars
<1> SUFFICES ASSUME RosterTypeOK, [RosterNext]_rosterVars
             PROVE  RosterTypeOK' /\ [Next]_vars
  OBVIOUS
<1> USE DEF engineVars, counters
<1>1. CASE Boot
  <2>1. UNCHANGED <<changes, rotations, live, staticGame, dynamic, cooldown, online, poll,
                    disc, rot, raced>> /\ booted' \in BOOLEAN
    BY <1>1 DEF Boot
  <2>2. CASE ClaimDrops /\ Ranking # <<>>
    <3>1. Send([type |-> "active_games", games |-> Ranking])
      BY <1>1, <2>2 DEF Boot
    <3>2. Produce
      BY <2>2, <3>1, SendIsProduced, RankingAssumption
    <3>3. lost' \in BOOLEAN
      BY <3>1, LostTyped DEF RosterTypeOK
    <3> QED BY <2>1, <3>2, <3>3 DEF RosterTypeOK, Next
  <2>3. CASE ~ (ClaimDrops /\ Ranking # <<>>)
    <3>1. UNCHANGED <<lost, vars>>
      BY <1>1, <2>3 DEF Boot
    <3> QED BY <2>1, <3>1 DEF RosterTypeOK
  <2> QED BY <2>2, <2>3
<1>2. CASE Broadcast
  <2>1. live' \in [Logins -> Games \cup {Offline}] /\ changes' \in Nat
    BY <1>2 DEF Broadcast, RosterTypeOK
  <2> QED BY <1>2, <2>1 DEF Broadcast, RosterTypeOK
<1>3. CASE CooldownEnds
  BY <1>3 DEF CooldownEnds, RosterTypeOK
<1>4. CASE PollStart
  <2>1. poll' \in Polls
    BY <1>4, ListingTyped DEF PollStart, Polls
  <2> QED BY <1>4, <2>1 DEF PollStart, RosterTypeOK
<1>5. CASE PollAnswer
  <2>1. poll' \in Polls
    BY <1>5 DEF PollAnswer, Polls, RosterTypeOK, Idle
  <2> QED BY <1>5, <2>1 DEF PollAnswer, RosterTypeOK
<1>6. CASE PollFail
  BY <1>6 DEF PollFail, RosterTypeOK, Polls
<1>7. CASE PollApply
  <2> DEFINE l == Head(poll.todo)
             game == poll.streams[l]
  <2>1. /\ poll \in [at : {"answered", "applying"}, todo : Seq(Logins) \ {<<>>},
                     streams : [Logins -> Games \cup {Offline}]]
        /\ UNCHANGED <<changes, rotations, live, booted, cooldown, disc, rot, raced>>
    BY <1>7 DEF PollApply, RosterTypeOK, Polls, Idle
  <2>2. /\ poll.todo \in Seq(Logins) /\ poll.todo # <<>>
        /\ l \in Logins /\ game \in Games \cup {Offline}
    <3>1. poll.todo \in Seq(Logins) \ {<<>>} /\ poll.streams \in [Logins -> Games \cup {Offline}]
      BY <2>1
    <3> QED BY <3>1
  <2>3. poll' \in Polls
    <3>1. CASE Len(poll.todo) = 1
      BY <1>7, <3>1 DEF PollApply, Polls
    <3>2. CASE Len(poll.todo) # 1
      <4>1. Tail(poll.todo) \in Seq(Logins) \ {<<>>}
        BY <2>2, <3>2, TailLeft
      <4>2. poll' = [poll EXCEPT !.at = "applying", !.todo = Tail(@)]
        BY <1>7, <3>2 DEF PollApply
      <4>3. poll' \in [at : {"answered", "applying"}, todo : Seq(Logins) \ {<<>>},
                       streams : [Logins -> Games \cup {Offline}]]
        BY <2>1, <4>1, <4>2
      <4> QED BY <4>3 DEF Polls
    <3> QED BY <3>1, <3>2
  <2>4. staticGame' \in [StaticLogins -> Games] /\ dynamic' \in Lists
    <3>1. CASE game = Offline
      BY <1>7, <3>1 DEF PollApply, RosterTypeOK
    <3>2. CASE game # Offline
      <4>1. game \in Games
        BY <2>2, <3>2
      <4>2. staticGame' = [k \in StaticLogins |-> IF k = l THEN game ELSE staticGame[k]]
        BY <1>7, <3>2 DEF PollApply
      <4> QED BY <1>7, <4>1, <4>2, PollKeepsLogins DEF RosterTypeOK
    <3> QED BY <3>1, <3>2
  <2>5. online' \in [Logins -> BOOLEAN]
    <3>1. online' = [online EXCEPT ![l] = game # Offline]
      BY <1>7 DEF PollApply
    <3> QED BY <3>1 DEF RosterTypeOK
  <2>6. lost' \in BOOLEAN /\ [Next]_vars
    <3>1. ReportEdge(l, online[l], game)
      BY <1>7 DEF PollApply
    <3>2. CASE game # Offline /\ ~online[l]
      <4>1. Send([type |-> "online", login |-> l, game |-> game]) /\ game \in Games
        BY <2>2, <3>1, <3>2 DEF ReportEdge
      <4>2. Produce
        BY <2>2, <4>1, SendIsProduced
      <4> QED BY <4>1, <4>2, LostTyped DEF RosterTypeOK, Next
    <3>3. CASE game = Offline /\ online[l]
      <4>1. Send([type |-> "offline", login |-> l])
        BY <3>1, <3>3 DEF ReportEdge
      <4>2. Produce
        BY <2>2, <4>1, SendIsProduced
      <4> QED BY <4>1, <4>2, LostTyped DEF RosterTypeOK, Next
    <3>4. CASE ~ (game # Offline /\ ~online[l]) /\ ~ (game = Offline /\ online[l])
      BY <3>1, <3>4 DEF ReportEdge, RosterTypeOK
    <3> QED BY <3>2, <3>3, <3>4
  <2> QED BY <2>1, <2>3, <2>4, <2>5, <2>6 DEF RosterTypeOK
<1>8. CASE DiscoverStart
  <2>1. disc' \in Passes
    BY <1>8, RankingAssumption DEF DiscoverStart, Passes
  <2> QED BY <1>8, <2>1 DEF DiscoverStart, RosterTypeOK
<1>9. CASE DiscoverGame
  <2>1. /\ disc \in [at : {"searching"}, todo : Seq(Games \ {NoGame}), failed : BOOLEAN,
                     raced : SUBSET Logins]
        /\ disc.todo # <<>>
    BY <1>9 DEF DiscoverGame, RosterTypeOK, Passes, Idle
  <2> DEFINE g == Head(disc.todo)
             Targets(found) == {l \in found : Eligible(l)}
  <2>2. g \in Games /\ Tail(disc.todo) \in Seq(Games \ {NoGame})
    BY <2>1
  <2>3. PICK found \in SUBSET {l \in Logins : live[l] = g} :
          IF Targets(found) = {} THEN disc' = [disc EXCEPT !.todo = Tail(@)]
          ELSE \E order \in {f \in [1..Cardinality(Targets(found)) -> Targets(found)] :
                               \A i, j \in DOMAIN f : f[i] = f[j] => i = j} :
                 disc' = [at |-> "found", raced |-> disc.raced,
                          list |-> [i \in DOMAIN order |-> [login |-> order[i], game |-> g]]]
    BY <1>9 DEF DiscoverGame
  <2>4. disc' \in Passes
    <3>1. CASE Targets(found) = {}
      <4>1. disc' = [disc EXCEPT !.todo = Tail(@)]
        BY <2>3, <3>1
      <4> QED BY <2>1, <2>2, <4>1 DEF Passes
    <3>2. CASE Targets(found) # {}
      <4>1. PICK order \in {f \in [1..Cardinality(Targets(found)) -> Targets(found)] :
                               \A i, j \in DOMAIN f : f[i] = f[j] => i = j} :
              disc' = [at |-> "found", raced |-> disc.raced,
                       list |-> [i \in DOMAIN order |-> [login |-> order[i], game |-> g]]]
        BY <2>3, <3>2
      <4>2. Targets(found) \subseteq Logins \ StaticLogins
        BY DEF Eligible
      <4>3. [i \in DOMAIN order |-> [login |-> order[i], game |-> g]] \in Lists
        <5> DEFINE T == Targets(found)
                   list == [i \in DOMAIN order |-> [login |-> order[i], game |-> g]]
        <5>1. /\ order \in [1..Cardinality(T) -> T]
              /\ \A i, j \in DOMAIN order : order[i] = order[j] => i = j
              /\ T \subseteq Logins \ StaticLogins
          BY <4>2
        <5>2. /\ list \in [DOMAIN order -> Found]
              /\ \A i \in DOMAIN order : list[i].login = order[i]
          BY <2>2, <5>1 DEF Found
        <5> HIDE DEF T, list, g
        <5>3. list \in Lists
          BY <5>1, <5>2, OrderedTargets
        <5> QED BY <5>3 DEF list
      <4> QED BY <2>1, <4>1, <4>3 DEF Passes
    <3> QED BY <3>1, <3>2
  <2> QED BY <1>9, <2>4 DEF DiscoverGame, RosterTypeOK
<1>10. CASE DiscoverFail
  <2>1. /\ disc \in [at : {"searching"}, todo : Seq(Games \ {NoGame}), failed : BOOLEAN,
                     raced : SUBSET Logins]
        /\ disc.todo # <<>>
    BY <1>10 DEF DiscoverFail, RosterTypeOK, Passes, Idle
  <2>2. Tail(disc.todo) \in Seq(Games \ {NoGame})
    BY <2>1
  <2>3. disc' \in Passes
    BY <1>10, <2>1, <2>2 DEF DiscoverFail, Passes
  <2> QED BY <1>10, <2>3 DEF DiscoverFail, RosterTypeOK
<1>11. CASE DiscoverNothing
  <2>1. disc \in [at : {"searching"}, todo : Seq(Games \ {NoGame}), failed : BOOLEAN,
                  raced : SUBSET Logins]
    BY <1>11 DEF DiscoverNothing, RosterTypeOK, Passes, Idle
  <2>2. <<>> \in Lists
    BY MostFound DEF Lists
  <2>3. disc' \in Passes
    BY <1>11, <2>1, <2>2 DEF DiscoverNothing, Passes
  <2> QED BY <1>11, <2>3 DEF DiscoverNothing, RosterTypeOK
<1>12. CASE DiscoverApply
  <2>1. disc.list \in Lists /\ disc.raced \subseteq Logins /\ disc' \in Passes
    BY <1>12 DEF DiscoverApply, RosterTypeOK, Passes, Idle
  <2> QED BY <1>12, <2>1 DEF DiscoverApply, RosterTypeOK
<1>13. CASE DiscoverList
  <2>1. disc' \in Passes
    BY <1>13, CombinedSendable DEF DiscoverList, Passes
  <2> QED BY <1>13, <2>1 DEF DiscoverList, RosterTypeOK
<1>14. CASE DiscoverSend
  <2>1. Send([type |-> "update_streamers", roster |-> disc.roster]) /\ disc.roster \in Rosters
    BY <1>14 DEF DiscoverSend, SendRoster, RosterTypeOK, Passes, Sendable, Idle
  <2>2. Produce
    BY <2>1, SendIsProduced
  <2>3. lost' \in BOOLEAN
    BY <2>1, LostTyped DEF RosterTypeOK
  <2> QED BY <1>14, <2>2, <2>3 DEF DiscoverSend, RosterTypeOK, Passes, Next
<1>15. CASE RotatePick \/ RotateMark
  <2>1. CASE RotatePick
    <3>1. PICK i \in Watched : rot' = [at |-> "picked", login |-> dynamic[i].login]
      BY <2>1 DEF RotatePick
    <3>2. dynamic[i].login \in DynamicLogins(dynamic)
      BY DEF Watched, DynamicLogins
    <3>3. rot' \in Rotating
      BY <3>1, <3>2, ListFields DEF RosterTypeOK, Rotating
    <3> QED BY <2>1, <3>3 DEF RotatePick, RosterTypeOK
  <2>2. CASE RotateMark
    <3>1. rot \in [at : {"picked"}, login : Logins \ StaticLogins]
      BY <2>2 DEF RotateMark, RosterTypeOK, Rotating, Idle
    <3>2. disc' \in Passes
      <4>1. CASE disc.at = "searching"
        <5>1. /\ disc \in [at : {"searching"}, todo : Seq(Games \ {NoGame}), failed : BOOLEAN,
                           raced : SUBSET Logins]
              /\ disc' = [disc EXCEPT !.raced = @ \cup {rot.login}]
          BY <2>2, <4>1 DEF RotateMark, RosterTypeOK, Passes, Idle
        <5> QED BY <3>1, <5>1 DEF Passes
      <4>2. CASE disc.at = "found"
        <5>1. /\ disc \in [at : {"found"}, raced : SUBSET Logins, list : Lists]
              /\ disc' = [disc EXCEPT !.raced = @ \cup {rot.login}]
          BY <2>2, <4>2 DEF RotateMark, RosterTypeOK, Passes, Idle
        <5> QED BY <3>1, <5>1 DEF Passes
      <4> QED BY <2>2, <4>1, <4>2 DEF RotateMark, RosterTypeOK
    <3>3. rot' \in Rotating /\ cooldown' \subseteq Logins \ StaticLogins
      BY <2>2, <3>1 DEF RotateMark, Rotating, RosterTypeOK
    <3> QED BY <2>2, <3>2, <3>3 DEF RotateMark, RosterTypeOK
  <2> QED BY <1>15, <2>1, <2>2
<1>16. CASE RotateRemove
  <2>1. dynamic' \in Lists /\ rot' \in Rotating
    BY <1>16, WithoutLogin DEF RotateRemove, RosterTypeOK, Rotating
  <2> QED BY <1>16, <2>1 DEF RotateRemove, RosterTypeOK
<1>17. CASE RotateList
  <2>1. rot' \in Rotating
    BY <1>17, CombinedSendable DEF RotateList, Rotating
  <2> QED BY <1>17, <2>1 DEF RotateList, RosterTypeOK
<1>18. CASE RotateSend
  <2>1. Send([type |-> "update_streamers", roster |-> rot.roster]) /\ rot.roster \in Rosters
    BY <1>18 DEF RotateSend, SendRoster, RosterTypeOK, Rotating, Sendable, Idle
  <2>2. Produce
    BY <2>1, SendIsProduced
  <2>3. lost' \in BOOLEAN
    BY <2>1, LostTyped DEF RosterTypeOK
  <2> QED BY <1>18, <2>2, <2>3 DEF RotateSend, RosterTypeOK, Rotating, Next
<1>19. CASE EngineStep
  BY <1>19 DEF EngineStep, appVars, RosterTypeOK, Next
<1>20. CASE UNCHANGED rosterVars
  BY <1>20 DEF rosterVars, appVars, RosterTypeOK
<1> QED
  BY <1>1, <1>2, <1>3, <1>4, <1>5, <1>6, <1>7, <1>8, <1>9, <1>10, <1>11, <1>12, <1>13,
     <1>14, <1>15, <1>16, <1>17, <1>18, <1>19, <1>20
     DEF RosterNext, PollOnlineStatus, PollGameStreams, Rotate

LEMMA RosterTyped == RosterSpec => []RosterTypeOK
<1>1. RosterTypeOK /\ [RosterNext]_rosterVars => RosterTypeOK'
  BY RosterStep
<1> QED
  BY RosterInitTyped, <1>1, PTL DEF RosterSpec

\* The pollers and the rotation use the engine the way its specification allows
\* (the lists they send name each login once and number them apart, and the first
\* list of games is sent only with drops enabled), so that every theorem about the
\* engine holds of the program they make up together (app.go:394-400, 1047-1051,
\* 1409-1415, 1495-1512).
THEOREM PollersUseEngine == RosterSpec => EngineSpec
<1>1. RosterInit => Init
  BY DEF RosterInit
<1>2. RosterTypeOK /\ [RosterNext]_rosterVars => [Next]_vars
  BY RosterStep
<1> QED
  BY <1>1, <1>2, RosterTyped, PTL DEF RosterSpec, EngineSpec, Spec

-----------------------------------------------------------------------------
(* The rotation cooldown.                                                    *)

\* What a pass has found is checked against the cooldown as it is found, so it can
\* hold a rotated streamer only if the rotation came after.
KeptOut ==
    /\ RotatedStaysOut
    /\ disc.at = "found" => cooldown \cap DynamicLogins(disc.list) \subseteq disc.raced

LEMMA InitKeptOut == RosterInit => KeptOut
  BY DEF RosterInit, KeptOut, RotatedStaysOut, Idle

LEMMA NextKeptOut == RosterTypeOK /\ KeptOut /\ [RosterNext]_rosterVars => KeptOut'
<1> SUFFICES ASSUME RosterTypeOK, KeptOut, [RosterNext]_rosterVars PROVE KeptOut'
  OBVIOUS
<1> USE DEF KeptOut, RotatedStaysOut
<1>1. CASE /\ UNCHANGED <<cooldown, dynamic, raced, rot>>
           /\ disc' = disc \/ disc'.at # "found"
  BY <1>1
<1>2. CASE Boot \/ Broadcast \/ EngineStep \/ PollStart \/ PollAnswer \/ PollFail
           \/ UNCHANGED rosterVars
  BY <1>1, <1>2 DEF Boot, Broadcast, EngineStep, PollStart, PollAnswer, PollFail,
        appVars, rosterVars
<1>3. CASE DiscoverStart \/ DiscoverFail \/ DiscoverList \/ DiscoverSend
  <2>1. disc'.at # "found"
    <3>1. CASE DiscoverFail
      <4>1. disc \in [at : {"searching"}, todo : Seq(Games \ {NoGame}), failed : BOOLEAN,
                      raced : SUBSET Logins]
        BY <3>1 DEF DiscoverFail, RosterTypeOK, Passes, Idle
      <4>2. Tail(disc.todo) \in Seq(Games \ {NoGame})
        BY <3>1, <4>1 DEF DiscoverFail
      <4>3. disc' = Idle \/ disc' \in [at : {"searching"}, todo : Seq(Games \ {NoGame}),
                                       failed : BOOLEAN, raced : SUBSET Logins]
        BY <3>1, <4>1, <4>2 DEF DiscoverFail
      <4> QED BY <4>3 DEF Idle
    <3> QED BY <1>3, <3>1 DEF DiscoverStart, DiscoverList, DiscoverSend, Idle
  <2> QED BY <1>1, <1>3, <2>1 DEF DiscoverStart, DiscoverFail, DiscoverList, DiscoverSend
<1>4. CASE DiscoverNothing
  <2>1. /\ UNCHANGED <<cooldown, dynamic, raced, rot>>
        /\ disc' = Idle \/ disc' = [at |-> "found", raced |-> disc.raced, list |-> <<>>]
    BY <1>4 DEF DiscoverNothing
  <2>2. DynamicLogins(<<>>) = {}
    BY DEF DynamicLogins
  <2> QED BY <2>1, <2>2 DEF Idle
<1>5. CASE CooldownEnds
  BY <1>5 DEF CooldownEnds
<1>6. CASE PollApply
  <2>1. UNCHANGED <<cooldown, raced, rot, disc>>
    BY <1>6 DEF PollApply
  <2>2. DynamicLogins(dynamic') = DynamicLogins(dynamic)
    BY <1>6, PollKeepsLogins
  <2> QED BY <2>1, <2>2
<1>7. CASE DiscoverGame
  <2>1. UNCHANGED <<cooldown, dynamic, raced, rot>>
    BY <1>7 DEF DiscoverGame
  <2>2. CASE disc'.at # "found"
    BY <2>1, <2>2
  <2>3. CASE disc'.at = "found"
    <3> DEFINE g == Head(disc.todo)
               Targets(found) == {l \in found : Eligible(l)}
    <3>1. disc \in [at : {"searching"}, todo : Seq(Games \ {NoGame}), failed : BOOLEAN,
                    raced : SUBSET Logins]
      BY <1>7 DEF DiscoverGame, RosterTypeOK, Passes, Idle
    <3>2. disc' # [disc EXCEPT !.todo = Tail(@)]
      BY <2>3, <3>1
    <3>3. PICK found \in SUBSET {l \in Logins : live[l] = g} :
            \E order \in {f \in [1..Cardinality(Targets(found)) -> Targets(found)] :
                              \A i, j \in DOMAIN f : f[i] = f[j] => i = j} :
              disc' = [at |-> "found", raced |-> disc.raced,
                       list |-> [i \in DOMAIN order |-> [login |-> order[i], game |-> g]]]
      BY <1>7, <3>2 DEF DiscoverGame
    <3>4. PICK order \in [1..Cardinality(Targets(found)) -> Targets(found)] :
            disc' = [at |-> "found", raced |-> disc.raced,
                     list |-> [i \in DOMAIN order |-> [login |-> order[i], game |-> g]]]
      BY <3>3
    <3>5. \A i \in DOMAIN order : disc'.list[i].login \notin cooldown
      BY <3>4 DEF Eligible
    <3>6. DOMAIN disc'.list = DOMAIN order
      BY <3>4
    <3>7. cooldown \cap DynamicLogins(disc'.list) = {}
      BY <3>5, <3>6 DEF DynamicLogins
    <3> QED BY <2>1, <3>7
  <2> QED BY <2>2, <2>3
<1>8. CASE DiscoverApply
  BY <1>8 DEF DiscoverApply
<1>9. CASE RotateMark
  <2>1. /\ cooldown' = cooldown \cup {rot.login}
        /\ rot' = [at |-> "marked", login |-> rot.login]
        /\ disc' = IF disc.at \in {"searching", "found"}
                   THEN [disc EXCEPT !.raced = @ \cup {rot.login}] ELSE disc
    BY <1>9 DEF RotateMark
  <2>2. rot.at = "picked" /\ UNCHANGED <<dynamic, raced>>
    BY <1>9 DEF RotateMark
  <2>3. CASE disc.at = "found"
    <3>1. disc \in [at : {"found"}, raced : SUBSET Logins, list : Lists]
      BY <2>3 DEF RosterTypeOK, Passes, Idle
    <3>2. disc'.list = disc.list /\ disc'.raced = disc.raced \cup {rot.login}
      BY <2>1, <2>3, <3>1
    <3> QED BY <2>1, <2>2, <2>3, <3>2
  <2>4. CASE disc.at # "found"
    <3>1. disc'.at # "found"
      <4>1. CASE disc.at = "searching"
        <5>1. disc \in [at : {"searching"}, todo : Seq(Games \ {NoGame}), failed : BOOLEAN,
                        raced : SUBSET Logins]
          BY <4>1 DEF RosterTypeOK, Passes, Idle
        <5> QED BY <2>1, <4>1, <5>1
      <4> QED BY <2>1, <2>4, <4>1
    <3> QED BY <2>1, <2>2, <3>1
  <2> QED BY <2>3, <2>4
<1>10. CASE RotateRemove
  <2>1. DynamicLogins(dynamic') = DynamicLogins(dynamic) \ {rot.login}
    BY <1>10, WithoutLogin DEF RotateRemove, RosterTypeOK
  <2> QED BY <1>10, <2>1 DEF RotateRemove
<1>11. CASE RotatePick \/ RotateList \/ RotateSend
  BY <1>11 DEF RotatePick, RotateList, RotateSend, Idle
<1> QED
  BY <1>2, <1>3, <1>4, <1>5, <1>6, <1>7, <1>8, <1>9, <1>10, <1>11
     DEF RosterNext, PollOnlineStatus, PollGameStreams, Rotate

\* A streamer on rotation cooldown is in the list only if the pass that found it
\* was under way when it was rotated, or while its removal is pending: the pass
\* checks the cooldown before it has the lock, and nothing checks it again
\* (app.go:1034-1045, 1352, 1402-1406).
THEOREM RotatedKeptOut == RosterSpec => []RotatedStaysOut
<1>1. RosterTypeOK /\ KeptOut /\ [RosterNext]_rosterVars => KeptOut'
  BY NextKeptOut
<1>2. KeptOut => RotatedStaysOut
  BY DEF KeptOut
<1> QED
  BY InitKeptOut, <1>1, <1>2, RosterTyped, PTL DEF RosterSpec

\* The step that brings a streamer on cooldown back, where RotatedIsNotReadded fails: a
\* pass that was under way at the rotation puts its list in place, and no other step
\* (app.go:1034-1045, 1352, 1402-1406).
THEOREM ReaddedByRace ==
    RosterSpec =>
        [][ \A l \in cooldown :
              (l \in DynamicLogins(dynamic') /\ l \notin DynamicLogins(dynamic))
                => DiscoverApply /\ l \in disc.raced ]_rosterVars
<1> DEFINE Race == \A l \in cooldown :
                     (l \in DynamicLogins(dynamic') /\ l \notin DynamicLogins(dynamic))
                       => DiscoverApply /\ l \in disc.raced
<1>1. ASSUME RosterTypeOK, KeptOut, [RosterNext]_rosterVars PROVE Race
  <2>1. CASE DiscoverApply
    BY <1>1, <2>1 DEF DiscoverApply, KeptOut
  <2>2. CASE PollApply
    BY <1>1, <2>2, PollKeepsLogins
  <2>3. CASE RotateRemove
    <3>1. DynamicLogins(dynamic') = DynamicLogins(dynamic) \ {rot.login}
      BY <1>1, <2>3, WithoutLogin DEF RotateRemove, RosterTypeOK
    <3> QED BY <3>1
  <2>4. CASE dynamic' = dynamic
    BY <2>4
  <2>5. DiscoverApply \/ PollApply \/ RotateRemove \/ dynamic' = dynamic
    BY <1>1 DEF RosterNext, PollOnlineStatus, PollGameStreams, Rotate, Boot, Broadcast,
       CooldownEnds, PollStart, PollAnswer, PollFail, DiscoverStart, DiscoverGame,
       DiscoverFail, DiscoverNothing, DiscoverList, DiscoverSend, RotatePick, RotateMark,
       RotateList, RotateSend, EngineStep, rosterVars, appVars
  <2> QED BY <2>1, <2>2, <2>3, <2>4, <2>5
<1>2. RosterTypeOK /\ KeptOut /\ [RosterNext]_rosterVars => [Race]_rosterVars
  BY <1>1
<1>3. RosterTypeOK /\ KeptOut /\ [RosterNext]_rosterVars => KeptOut'
  BY NextKeptOut
<1> QED
  BY InitKeptOut, <1>2, <1>3, RosterTyped, PTL DEF RosterSpec

-----------------------------------------------------------------------------
(* What the engine knows of the configured channels.                         *)

\* The engine lists every configured streamer, and goes on doing so with every
\* list that is on its way.
ConfiguredKnown ==
    /\ StaticLogins \subseteq DOMAIN streamers
    /\ \A i \in DOMAIN events :
          events[i].type = "update_streamers" => StaticLogins \subseteq DOMAIN events[i].roster

TrackInv == ConfiguredKnown /\ StaticTracked

StatusWords == {"online", "offline"}

LEMMA InitTracked == RosterInit => TrackInv
<1> SUFFICES ASSUME RosterInit PROVE TrackInv
  OBVIOUS
<1>1. /\ events = <<>> /\ DOMAIN streamers = DOMAIN InitialRoster
      /\ \A l \in DOMAIN streamers : streamers[l].online = FALSE
  BY DEF RosterInit, Init, NewState
<1>2. ConfiguredKnown
  BY <1>1, InitialDynamicAssumption DEF ConfiguredKnown
<1>3. \A l : LastWord(events, l, StatusWords) = {}
  BY <1>1 DEF LastWord
<1>4. \A l \in StaticLogins : ~WillBeOnline(l) /\ ~online[l]
  BY <1>1, <1>2, <1>3, LoginsAssumption
     DEF WillBeOnline, StatusWords, RosterInit, ConfiguredKnown
<1> QED
  BY <1>2, <1>4 DEF TrackInv, StaticTracked

\* An event that is sent and not lost becomes the last word on its login.
LEMMA SendTracked ==
    ASSUME EngineInv, ConfiguredKnown, NEW e \in InEvents, Send(e),
           e.type = "update_streamers" => StaticLogins \subseteq DOMAIN e.roster
    PROVE  /\ ConfiguredKnown'
           /\ ~lost' =>
                 /\ ~lost
                 /\ \A l \in StaticLogins :
                       WillBeOnline(l)' <=> IF e.type \in StatusWords /\ e.login = l
                                            THEN e.type = "online" ELSE WillBeOnline(l)
<1>1. /\ events' = IF Len(events) < EventCap THEN Append(events, e) ELSE events
      /\ streamers' = streamers
      /\ ~lost' => ~lost /\ ~ (Len(events) >= EventCap)
      /\ events \in Seq(InEvents)
  BY DEF Send, SendEvent, EngineInv, TypeOK
<1> DEFINE q == Append(events, e)
<1>2. \A i \in DOMAIN q : q[i] = e \/ (i \in DOMAIN events /\ q[i] = events[i])
  BY <1>1
<1>3. ConfiguredKnown'
  <2>1. \A i \in DOMAIN events' :
          events'[i].type = "update_streamers" => StaticLogins \subseteq DOMAIN events'[i].roster
    BY <1>1, <1>2 DEF ConfiguredKnown
  <2> QED BY <1>1, <2>1 DEF ConfiguredKnown
<1>4. ASSUME ~lost'
      PROVE  /\ ~lost
             /\ \A l \in StaticLogins :
                   WillBeOnline(l)' <=> IF e.type \in StatusWords /\ e.login = l
                                        THEN e.type = "online" ELSE WillBeOnline(l)
  <2>1. Len(events) \in Nat /\ EventCap \in Nat
    BY <1>1, CapsAssumption
  <2>2. ~lost /\ events' = q
    BY <1>1, <1>4, <2>1
  <2> SUFFICES ASSUME NEW l \in StaticLogins
               PROVE  WillBeOnline(l)' <=> IF e.type \in StatusWords /\ e.login = l
                                           THEN e.type = "online" ELSE WillBeOnline(l)
    BY <2>2
  <2> DEFINE word == LastWord(events, l, StatusWords)
             word1 == LastWord(events', l, StatusWords)
             on == streamers[l].online
  <2>3. word1 = IF e.type \in StatusWords /\ e.login = l THEN {e.type} ELSE word
    <3>1. LastWord(q, l, StatusWords) =
            IF e.type \in StatusWords /\ e.login = l THEN {e.type} ELSE word
      BY <1>1, LastWordAppend
    <3> QED BY <2>2, <3>1
  <2>4. WillBeOnline(l) <=> (word = {"online"} \/ (word = {} /\ Known(l) /\ on))
    BY DEF WillBeOnline, StatusWords
  <2>5. WillBeOnline(l)' <=> (word1 = {"online"} \/ (word1 = {} /\ Known(l) /\ on))
    BY <1>1 DEF WillBeOnline, StatusWords, Known
  <2> HIDE DEF word, word1, on
  <2> QED BY <2>3, <2>4, <2>5 DEF StatusWords
<1> QED
  BY <1>3, <1>4

\* What the engine does with its queue: a status is read only by the handler that
\* applies it, or passed over because its login is not listed.
LEMMA QueueStep ==
    ASSUME Engine
    PROVE  \/ events' = events
           \/ /\ events # <<>> /\ events' = Tail(events)
              /\ Head(events).type \in StatusWords
                   => HandleOnline \/ HandleOffline \/ ~Known(Head(events).login)
<1>1. CASE HandleEvent
  BY <1>1 DEF HandleEvent, HandleUnknown, HandleOnline, HandleOffline, HandleStreak,
     HandlePoints, HandleBalance, HandleUpdateStreamers, HandleActiveGames, HandleNotice,
     HandleBonusAvailable, Receive, StatusWords
<1>2. CASE Start \/ Tick \/ Stop \/ EmitStart \/ EmitStop \/ Publish
           \/ BonusClaimed \/ BonusFailed
  BY <1>2 DEF Start, Tick, Stop, EmitStart, EmitStop, Publish, BonusClaimed, BonusFailed
<1> QED
  BY <1>1, <1>2 DEF Engine

\* A step of the engine leaves alone what it will hold of a configured channel once
\* it has read everything.
LEMMA EngineTracks ==
    ASSUME EngineInv, ConfiguredKnown, Engine
    PROVE  ConfiguredKnown' /\ \A l \in StaticLogins : WillBeOnline(l)' <=> WillBeOnline(l)
<1>0. /\ events \in Seq(InEvents)
      /\ \A l \in DOMAIN streamers : streamers[l] \in StreamerState
  BY DEF EngineInv, TypeOK
<1>1. \/ Unchanging /\ ~Publish /\ ~HandleOnline /\ ~HandleOffline
      \/ Marking({"online"}, TRUE) /\ HandleOnline
      \/ Marking({"offline"}, FALSE) /\ HandleOffline
      \/ Replacing /\ HandleUpdateStreamers
      \/ Publishing
  BY ListStep DEF Next
<1>2. StaticLogins \subseteq DOMAIN streamers'
  <2>1. CASE Replacing
    <3>1. 1 \in DOMAIN events /\ Head(events) = events[1]
      BY <1>0, <2>1 DEF Replacing, Receive
    <3> QED BY <2>1, <3>1 DEF Replacing, Receive, ConfiguredKnown
  <2> QED BY <1>1, <2>1 DEF Unchanging, Marking, Publishing, ConfiguredKnown
<1>3. \A i \in DOMAIN events' :
        events'[i].type = "update_streamers" => StaticLogins \subseteq DOMAIN events'[i].roster
  <2>1. CASE events # <<>> /\ events' = Tail(events)
    <3>1. \A i \in DOMAIN events' : i + 1 \in DOMAIN events /\ events'[i] = events[i + 1]
      BY <1>0, <2>1
    <3> QED BY <3>1 DEF ConfiguredKnown
  <2> QED BY <2>1, QueueStep DEF ConfiguredKnown
<1>4. ASSUME NEW l \in StaticLogins
      PROVE  WillBeOnline(l)' <=> WillBeOnline(l)
  <2>1. Known(l) /\ Known(l)'
    BY <1>2 DEF ConfiguredKnown, Known
  <2> DEFINE word == LastWord(events, l, StatusWords)
             word1 == LastWord(events', l, StatusWords)
             e == Head(events)
             on == streamers[l].online
             on1 == streamers'[l].online
  <2>2. WillBeOnline(l) <=> (word = {"online"} \/ (word = {} /\ on))
    BY <2>1 DEF WillBeOnline, StatusWords
  <2>3. WillBeOnline(l)' <=> (word1 = {"online"} \/ (word1 = {} /\ on1))
    BY <2>1 DEF WillBeOnline, StatusWords
  <2>4. (events # <<>> /\ events' = Tail(events)) =>
          word = IF word1 # {} THEN word1
                 ELSE IF e.type \in StatusWords /\ e.login = l THEN {e.type} ELSE {}
    BY <1>0, LastWordTail
  <2>5. events' = events => word1 = word
    OBVIOUS
  <2> HIDE DEF word, word1
  <2>6. CASE Marking({"online"}, TRUE) /\ HandleOnline
    <3>1. /\ events # <<>> /\ events' = Tail(events) /\ e.type = "online"
          /\ streamers'[l].online = IF l = e.login THEN TRUE ELSE streamers[l].online
      BY <2>1, <2>6 DEF Marking, Receive, Known
    <3> QED BY <2>2, <2>3, <2>4, <3>1 DEF StatusWords
  <2>7. CASE Marking({"offline"}, FALSE) /\ HandleOffline
    <3>1. /\ events # <<>> /\ events' = Tail(events) /\ e.type = "offline"
          /\ streamers'[l].online = IF l = e.login THEN FALSE ELSE streamers[l].online
      BY <2>1, <2>7 DEF Marking, Receive, Known
    <3> QED BY <2>2, <2>3, <2>4, <3>1 DEF StatusWords
  <2>8. CASE ~HandleOnline /\ ~HandleOffline
    <3>1. streamers'[l].online = streamers[l].online
      BY <1>1, <2>1, <2>8 DEF Unchanging, Replacing, Publishing, SameFlags, Known
    <3>2. word1 = word
      <4>1. CASE events # <<>> /\ events' = Tail(events)
        <5>1. ~ (e.type \in StatusWords /\ e.login = l) \/ events' = events
          BY <2>1, <2>8, QueueStep
        <5> QED BY <2>4, <2>5, <4>1, <5>1
      <4> QED BY <2>5, <4>1, QueueStep
    <3> QED BY <2>2, <2>3, <3>1, <3>2
  <2>9. CASE Publishing
    <3>1. events' = events /\ streamers'[l].online = streamers[l].online
      BY <2>1, <2>9 DEF Publishing, Publish, Known
    <3> QED BY <2>2, <2>3, <2>5, <3>1
  <2> QED BY <1>1, <2>6, <2>7, <2>8, <2>9 DEF Replacing, HandleUpdateStreamers,
            HandleOnline, HandleOffline, Receive
<1> QED
  BY <1>2, <1>3, <1>4 DEF ConfiguredKnown

LEMMA NextTracked ==
    EngineInv /\ RosterTypeOK /\ TrackInv /\ [RosterNext]_rosterVars => TrackInv'
<1> SUFFICES ASSUME EngineInv, RosterTypeOK, TrackInv, [RosterNext]_rosterVars
             PROVE  TrackInv'
  OBVIOUS
<1> USE DEF TrackInv, engineVars
<1>1. CASE UNCHANGED <<vars, online, lost>>
  BY <1>1 DEF ConfiguredKnown, StaticTracked, WillBeOnline, Known, vars
<1>2. ASSUME NEW e \in InEvents, Send(e), e.type \notin StatusWords, online' = online,
             e.type = "update_streamers" => StaticLogins \subseteq DOMAIN e.roster
      PROVE  TrackInv'
  BY <1>2, SendTracked DEF StaticTracked
<1>3. CASE Boot
  <2> DEFINE e == [type |-> "active_games", games |-> Ranking]
  <2>1. CASE Send(e)
    <3>1. e \in InEvents /\ e.type = "active_games"
      BY RankingAssumption DEF InEvents
    <3> QED BY <1>2, <1>3, <2>1, <3>1 DEF Boot, StatusWords
  <2> QED BY <1>1, <1>3, <2>1 DEF Boot
<1>4. CASE DiscoverSend \/ RotateSend
  <2>1. PICK r \in Sendable : SendRoster(r)
    BY <1>4 DEF DiscoverSend, RotateSend, RosterTypeOK, Passes, Rotating, Idle
  <2> DEFINE e == [type |-> "update_streamers", roster |-> r]
  <2>2. e \in InEvents /\ e.type = "update_streamers" /\ StaticLogins \subseteq DOMAIN e.roster
    BY DEF InEvents, Sendable
  <2>3. Send(e) /\ online' = online
    BY <1>4, <2>1 DEF SendRoster, DiscoverSend, RotateSend
  <2> QED BY <1>2, <2>2, <2>3 DEF StatusWords
<1>5. CASE PollApply
  <2> DEFINE l == Head(poll.todo)
             game == poll.streams[l]
  <2>1. l \in Logins /\ game \in Games \cup {Offline}
    <3>1. /\ poll.todo \in Seq(Logins) \ {<<>>}
          /\ poll.streams \in [Logins -> Games \cup {Offline}]
      BY <1>5 DEF PollApply, RosterTypeOK, Polls, Idle
    <3> QED BY <3>1
  <2>2. /\ online' = [online EXCEPT ![l] = game # Offline]
        /\ ReportEdge(l, online[l], game)
    BY <1>5 DEF PollApply
  <2>3. \A k \in Logins : online'[k] <=> IF k = l THEN game # Offline ELSE online[k]
    BY <2>1, <2>2 DEF RosterTypeOK
  <2> HIDE DEF l, game
  <2>4. CASE game # Offline /\ ~online[l]
    <3> DEFINE e == [type |-> "online", login |-> l, game |-> game]
    <3>1. e \in InEvents /\ e.type = "online" /\ e.login = l
      BY <2>1, <2>4 DEF InEvents
    <3>2. Send(e)
      BY <2>2, <2>4 DEF ReportEdge
    <3> HIDE DEF e
    <3> QED BY <2>3, <2>4, <3>1, <3>2, SendTracked, LoginsAssumption
            DEF StaticTracked, StatusWords
  <2>5. CASE game = Offline /\ online[l]
    <3> DEFINE e == [type |-> "offline", login |-> l]
    <3>1. e \in InEvents /\ e.type = "offline" /\ e.login = l
      BY <2>1, <2>5 DEF InEvents, LoginEvents
    <3>2. Send(e)
      BY <2>2, <2>5 DEF ReportEdge
    <3> HIDE DEF e
    <3> QED BY <2>3, <2>5, <3>1, <3>2, SendTracked, LoginsAssumption
            DEF StaticTracked, StatusWords
  <2>6. CASE (game # Offline) <=> online[l]
    <3>1. UNCHANGED <<lost, vars>>
      BY <2>2, <2>6 DEF ReportEdge
    <3>2. \A k \in Logins : online'[k] <=> online[k]
      BY <2>3, <2>6
    <3>3. UNCHANGED <<events, streamers>>
      BY <3>1 DEF vars
    <3> QED BY <3>1, <3>2, <3>3, LoginsAssumption
            DEF ConfiguredKnown, StaticTracked, WillBeOnline, Known
  <2> QED BY <2>4, <2>5, <2>6
<1>6. CASE EngineStep
  BY <1>6, EngineTracks DEF EngineStep, appVars, StaticTracked
<1>7. CASE \/ Broadcast \/ CooldownEnds \/ PollStart \/ PollAnswer \/ PollFail
           \/ DiscoverStart \/ DiscoverGame \/ DiscoverFail \/ DiscoverNothing
           \/ DiscoverApply \/ DiscoverList \/ RotatePick \/ RotateMark \/ RotateRemove
           \/ RotateList \/ UNCHANGED rosterVars
  BY <1>1, <1>7 DEF Broadcast, CooldownEnds, PollStart, PollAnswer, PollFail, DiscoverStart,
     DiscoverGame, DiscoverFail, DiscoverNothing, DiscoverApply, DiscoverList, RotatePick,
     RotateMark, RotateRemove, RotateList, rosterVars, appVars
<1> QED
  BY <1>3, <1>4, <1>5, <1>6, <1>7 DEF RosterNext, PollOnlineStatus, PollGameStreams, Rotate

\* As long as no input event is lost, the engine will hold a configured channel as
\* online exactly when the poller does: edges are enough, because every list that
\* is sent keeps the configured channels and a list keeps the flag of a listed one
\* (app.go:1455-1512, engine.go:255-303).
THEOREM ConfiguredTracked == RosterSpec => []StaticTracked
<1>1. EngineInv /\ RosterTypeOK /\ TrackInv /\ [RosterNext]_rosterVars => TrackInv'
  BY NextTracked
<1>2. RosterSpec => []EngineInv
  BY PollersUseEngine, Invariance, PTL DEF EngineSpec
<1>3. TrackInv => StaticTracked
  BY DEF TrackInv
<1> QED
  BY InitTracked, <1>1, <1>2, <1>3, RosterTyped, PTL DEF RosterSpec

-----------------------------------------------------------------------------
(***************************************************************************)
(* The engine and the consumer with its chat clients.  Each of the two does   *)
(* what its own specification allows, so that both invariants hold; JoinInv   *)
(* says what the two have to do with each other.                             *)
(***************************************************************************)

\* The contexts are one, the channels read as started are those the consumer holds as
\* watched, and whoever has an entry is one of them.
JoinInv ==
    /\ joins \subseteq Channels
    /\ stopped = cancelled
    /\ watched = view \cap joins
    /\ \A l \in Channels : chatCancels[l] # NoClient => l \in watched

LEMMA OutputInit_Join == OutputInit => Init /\ ChatInit /\ JoinInv
BY DEF OutputInit, Init, ChatInit, JoinInv

\* Reading a report is a step of the engine's consumer, and one of the chats or none.
LEMMA Read_Steps ==
    ASSUME joins \subseteq Channels, ReadReport
    PROVE  Consume /\ [ChatNext]_chatVars /\ UNCHANGED joins
<1>1. CASE ReadStart
  BY <1>1 DEF ReadStart, Read, ChatNext
<1>2. CASE ReadStop
  BY <1>2 DEF ReadStop, Read, ChatNext
<1>3. CASE ReadNotice
  BY <1>3 DEF ReadNotice, Read
<1> QED
  BY <1>1, <1>2, <1>3 DEF ReadReport

LEMMA Output_Steps ==
    ASSUME joins \subseteq Channels, [OutputNext]_outputVars
    PROVE  [Next]_vars /\ [ChatNext]_chatVars /\ UNCHANGED joins
<1>1. CASE ReadReport
  BY <1>1, Read_Steps DEF Next
<1>2. CASE CancelAll
  BY <1>2 DEF CancelAll, Next, ChatNext
<1>3. CASE EngineMoves
  BY <1>3 DEF EngineMoves, Elsewhere, Next
<1>4. ASSUME NEW c \in Clients, ClientMoves(c)
      PROVE  [Next]_vars /\ [ChatNext]_chatVars /\ UNCHANGED joins
  BY <1>4 DEF ClientMoves, ChatNext
<1>5. CASE UNCHANGED outputVars
  BY <1>5 DEF outputVars
<1> QED
  BY <1>1, <1>2, <1>3, <1>4, <1>5 DEF OutputNext

\* A report that is read changes what the two hold as watched alike.
LEMMA Read_Join ==
    ASSUME EngineInv, ChatTypeOK, JoinInv, ReadReport
    PROVE  JoinInv'
<1> DEFINE e == Head(eventsOut)
<1>1. /\ view' = Seen(view, e) /\ cancelled' = cancelled /\ joins' = joins
  BY Read_Steps DEF JoinInv, Consume, environment
<1>2. CASE ReadStart /\ e.login \in joins
  <2>1. /\ watched' = watched \cup {e.login} /\ stopped' = stopped
        /\ \/ \E c \in Clients : chatCancels' = [chatCancels EXCEPT ![e.login] = c]
           \/ chatCancels' = chatCancels
    BY <1>2 DEF ReadStart, StartChat, Starts, StartExisting, chatApp
  <2>2. view' = view \cup {e.login}
    BY <1>1, <1>2 DEF ReadStart, Read, Seen
  <2> QED BY <1>1, <1>2, <2>1, <2>2 DEF JoinInv, ChatTypeOK
<1>3. CASE ReadStop /\ e.login \in joins
  <2>1. /\ watched' = watched \ {e.login} /\ stopped' = stopped
        /\ chatCancels' = [chatCancels EXCEPT ![e.login] = NoClient]
    BY <1>3 DEF ReadStop, StopChat, ChatTypeOK, JoinInv
  <2>2. view' = view \ {e.login}
    BY <1>1, <1>3 DEF ReadStop, Read, Seen
  <2> QED BY <1>1, <1>3, <2>1, <2>2 DEF JoinInv, ChatTypeOK
<1>4. CASE \/ (ReadStart \/ ReadStop) /\ e.login \notin joins
           \/ ReadNotice
  <2>1. UNCHANGED chatVars
    BY <1>4 DEF ReadStart, ReadStop, ReadNotice
  <2>2. view' \cap joins = view \cap joins
    BY <1>1, <1>4 DEF ReadStart, ReadStop, ReadNotice, Read, Seen
  <2> QED BY <1>1, <2>1, <2>2 DEF JoinInv, chatVars, chatApp, chatHistory
<1> QED
  BY <1>2, <1>3, <1>4 DEF ReadReport

LEMMA Output_Next_Join ==
    ASSUME EngineInv, ChatInv, JoinInv, [OutputNext]_outputVars
    PROVE  JoinInv'
<1>1. CASE ReadReport
  BY <1>1, Read_Join DEF ChatInv
<1>2. CASE CancelAll
  BY <1>2 DEF CancelAll, Cancel, Shutdown, history, chatHistory, JoinInv
<1>3. CASE EngineMoves
  <2>1. UNCHANGED <<view, cancelled>>
    BY <1>3 DEF EngineMoves, Engine, Produce, SendOnlineStatus, SendUpdateStreamers,
          SendActiveGames, SendChannelPoints, SendStreak, SendPoints, SendNotice, SendEvent,
          Start, Tick, Stop, HandleEvent, HandleUnknown, HandleOnline, HandleOffline,
          HandleStreak, HandlePoints, HandleBalance, HandleUpdateStreamers,
          HandleActiveGames, HandleNotice, HandleBonusAvailable, EmitStart, EmitStop,
          Publish, BonusClaimed, BonusFailed, environment, history
  <2> QED BY <1>3, <2>1 DEF EngineMoves, Elsewhere, JoinInv, chatVars, chatApp, chatHistory
<1>4. ASSUME NEW c \in Clients, ClientMoves(c) PROVE JoinInv'
  <2>1. UNCHANGED <<view, cancelled, joins>>
    BY <1>4 DEF ClientMoves, vars, environment, history
  <2>2. /\ UNCHANGED <<watched, stopped>>
        /\ \/ chatCancels' = chatCancels
           \/ chatCancels' = [chatCancels EXCEPT ![channel[c]] = NoClient]
    BY <1>4 DEF ClientMoves, Join, ConnectionFails, LeaveChat, ClearEntry, chatApp, chatHistory
  <2> QED BY <2>1, <2>2 DEF JoinInv, ChatInv, ChatTypeOK
<1>5. CASE UNCHANGED outputVars
  BY <1>5 DEF outputVars, vars, environment, history, chatVars, chatApp, chatHistory, JoinInv
<1> QED
  BY <1>1, <1>2, <1>3, <1>4, <1>5 DEF OutputNext

\* What the two invariants say of each other's part.
OutputInv == EngineInv /\ ReportInv /\ AlternateInv /\ ChatInv /\ JoinInv

LEMMA OutputInvariance == OutputSpec => []OutputInv
<1>1. OutputInit => OutputInv
  BY OutputInit_Join, InitInv, InitReports, InitAlternates, ChatInit_Inv DEF OutputInv
<1>2. OutputInv /\ [OutputNext]_outputVars => OutputInv'
  <2> SUFFICES ASSUME OutputInv, [OutputNext]_outputVars PROVE OutputInv'
    OBVIOUS
  <2>1. [Next]_vars /\ [ChatNext]_chatVars
    BY Output_Steps DEF OutputInv, JoinInv
  <2>2. EngineInv'
    BY <2>1, NextInv DEF OutputInv
  <2>3. ReportInv' /\ AlternateInv'
    BY <2>1, <2>2, NextReports, NextAlternates DEF OutputInv
  <2>4. ChatInv'
    BY <2>1, Chat_Next_Inv DEF OutputInv
  <2>5. JoinInv'
    BY Output_Next_Join DEF OutputInv
  <2> QED BY <2>2, <2>3, <2>4, <2>5 DEF OutputInv
<1> QED
  BY <1>1, <1>2, PTL DEF OutputSpec

\* The consumer uses the engine's output and the chats the way their specifications
\* allow: all that is proved of either holds of the two together (app.go:455-532).
THEOREM OutputUsesBoth == OutputSpec => Spec /\ ChatSpec
<1>1. OutputInit => Init /\ ChatInit
  BY OutputInit_Join
<1>2. OutputInv /\ [OutputNext]_outputVars => [Next]_vars /\ [ChatNext]_chatVars
  BY Output_Steps DEF OutputInv, JoinInv
<1> QED
  BY <1>1, <1>2, OutputInvariance, PTL DEF OutputSpec, Spec, ChatSpec

\* Once everything about a channel has been heard the consumer holds it as watched
\* exactly if the engine has chosen it.
LEMMA HeardIsChosen ==
    ASSUME OutputInv, ~dropped, NEW l \in Logins, Heard(l)
    PROVE  l \in view <=> l \in target
<1>1. l \in Reported <=> l \in view
  BY DEF Heard, Reported
<1>2. l \in Reported <=> l \in target
  BY DEF Heard, OutputInv, ReportInv, ReportsAddUp
<1> QED
  BY <1>1, <1>2

\* From the choice to the chat: as long as no report was lost, a channel about which
\* everything has been heard has a client in its chat if it was chosen, unless one has
\* failed since or the process stops; if not, none but those an older client has
\* robbed of their entry (engine.go:104-164, app.go:455-532, 1895-1940).
THEOREM ChatFollowsChoice == OutputSpec => []ChatFollows
<1>1. OutputInv => ChatFollows
  <2> SUFFICES ASSUME OutputInv, ~dropped, NEW l \in joins, Heard(l)
               PROVE  LET present == {c \in Clients : channel[c] = l /\ Present(c)}
                      IN  IF l \in target THEN present # {} \/ l \in failed \/ cancelled
                          ELSE present \subseteq robbed
    BY DEF ChatFollows
  <2>1. l \in Channels /\ l \in Logins
    BY ChannelsAssumption DEF OutputInv, JoinInv
  <2>2. l \in watched <=> l \in target
    BY <2>1, HeardIsChosen DEF OutputInv, JoinInv
  <2>3. CASE l \in target
    BY <2>2, <2>3 DEF OutputInv, JoinInv, ChatInv, Joined
  <2>4. CASE l \notin target
    <3>1. chatCancels[l] = NoClient
      BY <2>1, <2>2, <2>4 DEF OutputInv, JoinInv
    <3>2. ASSUME NEW c \in Clients, channel[c] = l, Present(c) PROVE c \in robbed
      BY <3>1, <3>2, ChatAssumption
         DEF OutputInv, ChatInv, ChatTypeOK, Unlisted, Present, Running
    <3> QED BY <2>4, <3>2
  <2> QED BY <2>3, <2>4
<1> QED
  BY <1>1, OutputInvariance, PTL

\* As long as no report was lost a start that is read begins a client: that startChat
\* looks for an entry first (app.go:1899) matters only after a loss.
THEOREM StartsBegin ==
    OutputSpec =>
        [][ \A l \in joins :
              (/\ ReadReport /\ ~dropped
               /\ Head(eventsOut) = [type |-> "watch_start", login |-> l])
                 => StartChat(l) ]_outputVars
<1> DEFINE Begins == \A l \in joins :
                       (/\ ReadReport /\ ~dropped
                        /\ Head(eventsOut) = [type |-> "watch_start", login |-> l])
                          => StartChat(l)
<1>1. ASSUME OutputInv PROVE Begins
  <2> SUFFICES ASSUME NEW l \in joins, ReadReport, ~dropped,
                      Head(eventsOut) = [type |-> "watch_start", login |-> l]
               PROVE  StartChat(l)
    OBVIOUS
  <2>1. view' # view
    BY <1>1, Read_Steps, HeadIsNews DEF OutputInv, JoinInv
  <2>2. view' = view \cup {l}
    BY <1>1, Read_Steps DEF OutputInv, JoinInv, Consume, Seen
  <2>3. l \in Channels /\ chatCancels[l] = NoClient
    BY <1>1, <2>1, <2>2 DEF OutputInv, JoinInv
  <2> QED BY <2>3 DEF ReadReport, ReadStart, ReadStop, ReadNotice, Read, StartExisting
<1>2. OutputInv /\ [OutputNext]_outputVars => [Begins]_outputVars
  BY <1>1
<1> QED
  BY <1>2, OutputInvariance, PTL DEF OutputSpec
=============================================================================
