----------------------------- MODULE AlertsProofs -----------------------------
(***************************************************************************)
(* Theorems about the two watchdogs of the drops goroutine, one after the     *)
(* other: the stall of a streamer, and the watch credit of the account; then  *)
(* about the webhook calls, and about all of these side by side.             *)
(***************************************************************************)
EXTENDS Alerts, ChatProofs, TLAPS

-----------------------------------------------------------------------------
(***************************************************************************)
(* RotatedIfStill holds for every number of drops, games and streamers and    *)
(* every StallPolls.  The invariant ties the watchdog's state of a game to    *)
(* what happened: its minutes are behind those of every drop whose credit it  *)
(* has not seen, they are up to date while nothing has happened, and its      *)
(* count lies between the two rows of polls.                                 *)
(***************************************************************************)

\* What the watchdog remembers of a drop is never ahead of the service, and behind it
\* as long as a credit has not been shown.
Behind ==
    /\ \A g \in Games, d \in Drops : progress[g][d] <= minutes[d]
    /\ \A d \in credited : progress[GameOf[d]][d] < minutes[d]

\* There is a state exactly for the games whose last poll kept the streamer.
Followed ==
    \A g \in Games :
        /\ verdict[g] = "kept" => streamer[g] # Nobody /\ polled[g] = streamer[g]
        /\ verdict[g] # "kept" => streamer[g] = Nobody

\* While nothing happens to the drops of a game its snapshot is what an answer shows.
UpToDate ==
    \A g \in Games :
        verdict[g] = "kept" /\ g \notin touched =>
            /\ snapshot[g] = ToEarn(shown, g)
            /\ \A d \in snapshot[g] : progress[g][d] = minutes[d]

\* The count lies between the two rows.
Counted ==
    \A g \in Games :
        /\ verdict[g] = "kept" => /\ frozen[g] <= unchangedPolls[g] + 1
                                  /\ unchangedPolls[g] + 1 <= still[g]
        /\ verdict[g] = "rotated" => still[g] > StallPolls

StallInv == StallTypeOK /\ Behind /\ Followed /\ UpToDate /\ Counted

-----------------------------------------------------------------------------
LEMMA StallInit_Inv == StallInit => StallInv
<1> SUFFICES ASSUME StallInit PROVE StallInv
    OBVIOUS
<1> USE StallAssumption, RequiredAssumption DEF StallInit, InventoryInit
<1>1. StallTypeOK
    BY DEF StallTypeOK, InventoryTypeOK, Verdicts, Rows
<1>2. Behind /\ Followed /\ UpToDate /\ Counted
    BY DEF Behind, Followed, UpToDate, Counted
<1>3. QED
    BY <1>1, <1>2 DEF StallInv

\* A credited minute touches the game of its drop only.
LEMMA Minute_Inv ==
    ASSUME StallInv, NEW e \in Drops, CreditTo(e)
    PROVE  StallInv'
<1> USE StallAssumption, RequiredAssumption DEF CreditTo, MinuteCredited, stalls
<1>a. /\ minutes \in [Drops -> Nat] /\ minutes' \in [Drops -> Nat]
      /\ minutes'[e] = minutes[e] + 1
      /\ \A d \in Drops : d # e => minutes'[d] = minutes[d]
    BY DEF StallInv, StallTypeOK, InventoryTypeOK
<1>1. StallTypeOK'
    BY <1>a DEF StallInv, StallTypeOK, InventoryTypeOK
<1>2. Behind'
  <2>1. \A g \in Games, d \in Drops : progress[g][d] \in Nat /\ progress[g][d] <= minutes[d]
      BY DEF StallInv, StallTypeOK, Behind
  <2>2. \A d \in Drops : minutes[d] \in Nat /\ minutes[d] <= minutes'[d]
      BY <1>a
  <2>3. \A g \in Games, d \in Drops : progress[g][d] <= minutes'[d]
      BY <2>1, <2>2
  <2>4. \A d \in credited : d # e => progress[GameOf[d]][d] < minutes'[d]
      BY <1>a DEF StallInv, StallTypeOK, Behind
  <2>5. progress[GameOf[e]][e] < minutes'[e]
      BY <2>1, <1>a
  <2>6. QED
      BY <2>3, <2>4, <2>5 DEF Behind
<1>3. Followed' /\ Counted'
    BY DEF StallInv, Followed, Counted
<1>4. ASSUME NEW g \in Games, g \notin touched', verdict'[g] = "kept"
      PROVE  snapshot'[g] = ToEarn(shown, g)' /\ \A d \in snapshot'[g] : progress'[g][d] = minutes'[d]
  <2>1. g \notin touched /\ g # GameOf[e] /\ verdict[g] = "kept"
      BY <1>4 DEF StallInv, StallTypeOK
  <2>2. snapshot[g] = ToEarn(shown, g) /\ \A d \in snapshot[g] : progress[g][d] = minutes[d]
      BY <2>1 DEF StallInv, UpToDate
  <2>3. \A d \in Drops : GameOf[d] = g => minutes'[d] = minutes[d]
      BY <2>1 DEF StallInv, StallTypeOK, InventoryTypeOK
  <2>4. ToEarn(shown, g)' = ToEarn(shown, g)
      BY <2>3 DEF ToEarn, StallInv, StallTypeOK, InventoryTypeOK
  <2>5. QED
      BY <2>2, <2>3, <2>4 DEF ToEarn, StallInv, StallTypeOK, InventoryTypeOK
<1>5. QED
    BY <1>1, <1>2, <1>3, <1>4 DEF StallInv, UpToDate

LEMMA Offer_Inv ==
    ASSUME StallInv, NEW e \in Drops, OfferOrWithhold(e)
    PROVE  StallInv'
<1> USE StallAssumption, RequiredAssumption
        DEF OfferOrWithhold, DropEnters, DropLeaves, stalls
<1>1. StallTypeOK'
    BY DEF StallInv, StallTypeOK, InventoryTypeOK, Verdicts, Rows
<1>2. Behind'
    BY DEF StallInv, Behind
<1>3. Followed' /\ Counted'
    BY DEF StallInv, Followed, Counted
<1>4. ASSUME NEW g \in Games, g \notin touched', verdict'[g] = "kept"
      PROVE  snapshot'[g] = ToEarn(shown, g)' /\ \A d \in snapshot'[g] : progress'[g][d] = minutes'[d]
  <2>1. g \notin touched /\ g # GameOf[e] /\ verdict[g] = "kept"
      BY <1>4 DEF StallInv, StallTypeOK
  <2>2. snapshot[g] = ToEarn(shown, g) /\ \A d \in snapshot[g] : progress[g][d] = minutes[d]
      BY <2>1 DEF StallInv, UpToDate
  <2>3. ToEarn(shown, g)' = ToEarn(shown, g)
      BY <2>1 DEF ToEarn, StallInv, StallTypeOK, InventoryTypeOK
  <2>4. QED
      BY <2>2, <2>3
<1>5. QED
    BY <1>1, <1>2, <1>3, <1>4 DEF StallInv, UpToDate

-----------------------------------------------------------------------------
\* Without a change no credit to a drop in the answer is unseen.
LEMMA Unchanged_Unseen ==
    ASSUME StallInv, NEW g \in Games, NEW seen \in Answers, ~Changed(g, ToEarn(seen, g))
    PROVE  credited \cap ToEarn(seen, g) = {}
BY StallAssumption DEF StallInv, StallTypeOK, InventoryTypeOK, Behind, Changed, ToEarn, Answers

\* As long as nothing happened there is no change.
LEMMA Untouched_Unchanged ==
    ASSUME StallInv, NEW g \in Games, verdict[g] = "kept", g \notin touched
    PROVE  ~Changed(g, ToEarn(shown, g))
BY DEF StallInv, UpToDate, Changed

\* What both kinds of poll leave behind in the memory of the watchdog.
LEMMA Poll_Behind ==
    ASSUME StallInv, NEW g \in Games, NEW s, NEW seen \in Answers, NEW n,
           Record(s, g, seen), UNCHANGED inventory,
           Remember(s, g, ToEarn(seen, g), n) \/ Forget(g)
    PROVE  Behind'
<1> USE StallAssumption DEF StallInv, StallTypeOK, InventoryTypeOK, inventory
<1>1. \A h \in Games, d \in Drops :
          /\ progress'[h][d] \in {progress[h][d], 0, minutes[d]}
          /\ h = g /\ d \notin ToEarn(seen, g) => progress'[h][d] = 0
          /\ h # g => progress'[h][d] = progress[h][d]
    BY DEF Remember, Forget
<1>2. \A h \in Games, d \in Drops : progress'[h][d] <= minutes'[d]
  <2> SUFFICES ASSUME NEW h \in Games, NEW d \in Drops PROVE progress'[h][d] <= minutes'[d]
      OBVIOUS
  <2>1. minutes[d] \in Nat /\ progress[h][d] <= minutes[d] /\ minutes'[d] = minutes[d]
      BY DEF Behind
  <2>2. progress'[h][d] = progress[h][d] \/ progress'[h][d] = 0 \/ progress'[h][d] = minutes[d]
      BY <1>1
  <2>3. QED
      BY <2>1, <2>2
<1>3. \A d \in credited' : progress'[GameOf[d]][d] < minutes'[d]
  <2> SUFFICES ASSUME NEW d \in credited' PROVE progress'[GameOf[d]][d] < minutes'[d]
      OBVIOUS
  <2>1. d \in credited /\ d \notin ToEarn(seen, g) /\ d \in Drops
      BY DEF Record
  <2>2. progress[GameOf[d]][d] < minutes[d]
      BY <2>1 DEF Behind
  <2>3. progress'[GameOf[d]][d] = 0 \/ progress'[GameOf[d]][d] = progress[GameOf[d]][d]
      BY <1>1, <2>1
  <2>4. progress[GameOf[d]][d] \in Nat /\ minutes[d] \in Nat
      BY <2>1
  <2>5. QED
      BY <2>2, <2>3, <2>4
<1>4. QED
    BY <1>2, <1>3 DEF Behind

-----------------------------------------------------------------------------
LEMMA Keeps_Inv ==
    ASSUME StallInv, PollKeeps
    PROVE  StallInv'
<1>1. PICK seen \in Answers, s \in Streamers, g \in Games :
          /\ farmed = <<s, g>>
          /\ \/ /\ Restarts(s, g, ToEarn(seen, g))
                /\ Remember(s, g, ToEarn(seen, g), 0)
             \/ /\ ~Restarts(s, g, ToEarn(seen, g))
                /\ ~LimitReached(g)
                /\ Remember(s, g, ToEarn(seen, g), unchangedPolls[g] + 1)
          /\ Record(s, g, seen)
          /\ verdict' = [verdict EXCEPT ![g] = "kept"]
          /\ UNCHANGED <<inventory, farmed>>
    BY DEF PollKeeps
<1>a. s # Nobody
    BY StallAssumption
<1>b. PICK n \in 0..(StallPolls - 1) : Remember(s, g, ToEarn(seen, g), n)
    BY <1>1, StallAssumption DEF LimitReached, StallInv, StallTypeOK
<1>c. /\ streamer' = [streamer EXCEPT ![g] = s]
      /\ snapshot' = [snapshot EXCEPT ![g] = ToEarn(seen, g)]
      /\ progress' = [progress EXCEPT ![g] =
                         [d \in Drops |-> IF d \in ToEarn(seen, g) THEN minutes[d] ELSE 0]]
      /\ polled' = [polled EXCEPT ![g] = s]
      /\ minutes' = minutes /\ shown' = shown
      /\ touched' = IF seen = shown THEN touched \ {g} ELSE touched \cup {g}
      /\ ToEarn(seen, g) \subseteq Drops
    BY <1>1, <1>b DEF Remember, Record, inventory, ToEarn, Answers, StallInv, StallTypeOK,
                      InventoryTypeOK
<1>2. StallTypeOK'
  <2>1. /\ still' \in [Games -> Rows] /\ frozen' \in [Games -> Rows]
        /\ credited' \subseteq Drops
      BY <1>1, StallAssumption DEF StallInv, StallTypeOK, Record, Capped, Rows
  <2>2. /\ verdict' \in [Games -> Verdicts] /\ polled' \in [Games -> Streamers \cup {Nobody}]
        /\ streamer' \in [Games -> Streamers \cup {Nobody}]
        /\ farmed' \in Pairs \cup {Nobody} /\ touched' \subseteq Games
      BY <1>1, <1>c DEF StallInv, StallTypeOK, Verdicts
  <2>3. unchangedPolls' \in [Games -> 0..(StallPolls - 1)]
      BY <1>b DEF Remember, StallInv, StallTypeOK
  <2>4. progress' \in [Games -> [Drops -> Nat]] /\ snapshot' \in [Games -> SUBSET Drops]
      BY <1>c DEF StallInv, StallTypeOK, InventoryTypeOK
  <2>5. InventoryTypeOK'
      BY <1>c DEF StallInv, StallTypeOK, InventoryTypeOK
  <2>6. QED
      BY <2>1, <2>2, <2>3, <2>4, <2>5 DEF StallTypeOK
<1>3. Behind'
    BY <1>1, <1>b, Poll_Behind
<1>4. Followed'
    BY <1>1, <1>a, <1>c DEF StallInv, StallTypeOK, Followed
<1>5. UpToDate'
  <2> SUFFICES ASSUME NEW h \in Games, verdict'[h] = "kept", h \notin touched'
               PROVE  /\ snapshot'[h] = ToEarn(shown, h)'
                      /\ \A d \in snapshot'[h] : progress'[h][d] = minutes'[d]
      BY DEF UpToDate
  <2>1. CASE h = g
      BY <2>1, <1>c DEF StallInv, StallTypeOK, ToEarn
  <2>2. CASE h # g
    <3>1. verdict[h] = "kept" /\ h \notin touched
        BY <2>2, <1>1, <1>c DEF StallInv, StallTypeOK
    <3>2. /\ snapshot[h] = ToEarn(shown, h)
          /\ \A d \in snapshot[h] : progress[h][d] = minutes[d]
        BY <3>1 DEF StallInv, UpToDate
    <3>3. snapshot'[h] = snapshot[h] /\ progress'[h] = progress[h]
        BY <2>2, <1>c DEF StallInv, StallTypeOK
    <3>4. QED
        BY <3>2, <3>3, <1>c DEF ToEarn
  <2>3. QED
      BY <2>1, <2>2
<1>6. Counted'
  <2>1. CASE Restarts(s, g, ToEarn(seen, g))
    <3>1. unchangedPolls' = [unchangedPolls EXCEPT ![g] = 0]
        BY <1>1, <2>1 DEF Remember
    <3>2. ~(verdict[g] = "kept" /\ polled[g] = s /\ g \notin touched /\ seen = shown)
        BY <2>1, Untouched_Unchanged DEF Restarts, StallInv, Followed
    <3>3. frozen'[g] = 1 /\ still'[g] >= 1
        BY <3>2, <1>1, StallAssumption DEF Record, Capped, Rows, StallInv, StallTypeOK
    <3>4. verdict'[g] = "kept" /\ unchangedPolls'[g] = 0
        BY <3>1, <1>1 DEF StallInv, StallTypeOK
    <3>5. \A h \in Games \ {g} : /\ verdict'[h] = verdict[h] /\ frozen'[h] = frozen[h]
                                 /\ unchangedPolls'[h] = unchangedPolls[h]
                                 /\ still'[h] = still[h]
        BY <3>1, <1>1 DEF Record, StallInv, StallTypeOK
    <3>6. QED
        BY <3>3, <3>4, <3>5 DEF Counted, StallInv
  <2>2. CASE ~Restarts(s, g, ToEarn(seen, g))
    <3>1. /\ unchangedPolls' = [unchangedPolls EXCEPT ![g] = unchangedPolls[g] + 1]
          /\ unchangedPolls[g] + 1 < StallPolls
        BY <1>1, <2>2, StallAssumption DEF Remember, LimitReached, StallInv, StallTypeOK
    <3>2. verdict[g] = "kept" /\ polled[g] = s
        BY <2>2, <1>a DEF Restarts, StallInv, Followed
    <3>3. credited \cap ToEarn(seen, g) = {}
        BY <2>2, Unchanged_Unseen DEF Restarts
    <3>4. /\ still'[g] = Capped(still[g])
          /\ frozen'[g] \in {1, Capped(frozen[g])}
        BY <3>2, <3>3, <1>1 DEF Record, StallInv, StallTypeOK
    <3>5. frozen[g] <= unchangedPolls[g] + 1 /\ unchangedPolls[g] + 1 <= still[g]
        BY <3>2 DEF StallInv, Counted
    <3>6. /\ unchangedPolls[g] \in Nat /\ still[g] \in Rows /\ frozen[g] \in Rows
          /\ unchangedPolls'[g] = unchangedPolls[g] + 1
        BY <3>1 DEF StallInv, StallTypeOK
    <3>7. frozen'[g] <= unchangedPolls'[g] + 1 /\ unchangedPolls'[g] + 1 <= still'[g]
        BY <3>1, <3>4, <3>5, <3>6, StallAssumption DEF Capped, Rows
    <3>8. verdict'[g] = "kept"
        BY <1>1 DEF StallInv, StallTypeOK
    <3>9. \A h \in Games \ {g} : /\ verdict'[h] = verdict[h] /\ frozen'[h] = frozen[h]
                                 /\ unchangedPolls'[h] = unchangedPolls[h]
                                 /\ still'[h] = still[h]
        BY <3>1, <1>1 DEF Record, StallInv, StallTypeOK
    <3>10. QED
        BY <3>7, <3>8, <3>9 DEF Counted, StallInv
  <2>3. QED
      BY <2>1, <2>2
<1>7. QED
    BY <1>2, <1>3, <1>4, <1>5, <1>6 DEF StallInv

LEMMA Rotates_Inv ==
    ASSUME StallInv, PollRotates
    PROVE  StallInv'
<1>1. PICK seen \in Answers, s \in Streamers, g \in Games :
          /\ ~Restarts(s, g, ToEarn(seen, g)) /\ LimitReached(g)
          /\ Forget(g) /\ farmed' = Nobody
          /\ Record(s, g, seen)
          /\ verdict' = [verdict EXCEPT ![g] = "rotated"]
          /\ UNCHANGED inventory
    BY DEF PollRotates
<1>c. /\ streamer' = [streamer EXCEPT ![g] = Nobody]
      /\ snapshot' = [snapshot EXCEPT ![g] = {}]
      /\ progress' = [progress EXCEPT ![g] = [d \in Drops |-> 0]]
      /\ unchangedPolls' = [unchangedPolls EXCEPT ![g] = 0]
      /\ polled' = [polled EXCEPT ![g] = s]
      /\ minutes' = minutes /\ shown' = shown
      /\ touched' = IF seen = shown THEN touched \ {g} ELSE touched \cup {g}
    BY <1>1 DEF Forget, Remember, Record, inventory
<1>2. StallTypeOK'
  <2>1. /\ still' \in [Games -> Rows] /\ frozen' \in [Games -> Rows]
        /\ credited' \subseteq Drops
      BY <1>1, StallAssumption DEF StallInv, StallTypeOK, Record, Capped, Rows
  <2>2. /\ verdict' \in [Games -> Verdicts] /\ polled' \in [Games -> Streamers \cup {Nobody}]
        /\ streamer' \in [Games -> Streamers \cup {Nobody}]
        /\ farmed' \in Pairs \cup {Nobody} /\ touched' \subseteq Games
      BY <1>1, <1>c DEF StallInv, StallTypeOK, Verdicts
  <2>3. unchangedPolls' \in [Games -> 0..(StallPolls - 1)]
      BY <1>c, StallAssumption DEF StallInv, StallTypeOK
  <2>4. progress' \in [Games -> [Drops -> Nat]] /\ snapshot' \in [Games -> SUBSET Drops]
      BY <1>c DEF StallInv, StallTypeOK
  <2>5. InventoryTypeOK'
      BY <1>c DEF StallInv, StallTypeOK, InventoryTypeOK
  <2>6. QED
      BY <2>1, <2>2, <2>3, <2>4, <2>5 DEF StallTypeOK
<1>3. Behind'
    BY <1>1, Poll_Behind
<1>4. Followed'
    BY <1>1, <1>c DEF StallInv, StallTypeOK, Followed
<1>5. UpToDate'
  <2> SUFFICES ASSUME NEW h \in Games, verdict'[h] = "kept", h \notin touched'
               PROVE  /\ snapshot'[h] = ToEarn(shown, h)'
                      /\ \A d \in snapshot'[h] : progress'[h][d] = minutes'[d]
      BY DEF UpToDate
  <2>1. h # g /\ verdict[h] = "kept" /\ h \notin touched
      BY <1>1, <1>c DEF StallInv, StallTypeOK
  <2>2. /\ snapshot[h] = ToEarn(shown, h)
        /\ \A d \in snapshot[h] : progress[h][d] = minutes[d]
      BY <2>1 DEF StallInv, UpToDate
  <2>3. snapshot'[h] = snapshot[h] /\ progress'[h] = progress[h]
      BY <2>1, <1>c DEF StallInv, StallTypeOK
  <2>4. QED
      BY <2>2, <2>3, <1>c DEF ToEarn
<1>6. Counted'
  <2>1. verdict[g] = "kept" /\ polled[g] = s
      BY <1>1, StallAssumption DEF Restarts, StallInv, Followed
  <2>2. credited \cap ToEarn(seen, g) = {}
      BY <1>1, Unchanged_Unseen DEF Restarts
  <2>3. still'[g] = Capped(still[g])
      BY <2>1, <2>2, <1>1 DEF Record, StallInv, StallTypeOK
  <2>4. unchangedPolls[g] + 1 <= still[g] /\ unchangedPolls[g] + 1 >= StallPolls
      BY <2>1, <1>1 DEF StallInv, Counted, LimitReached
  <2>5. unchangedPolls[g] \in Nat /\ still[g] \in Nat
      BY StallAssumption DEF StallInv, StallTypeOK, Rows
  <2>6. still'[g] > StallPolls
      BY <2>3, <2>4, <2>5, StallAssumption DEF Capped
  <2>7. verdict'[g] = "rotated"
      BY <1>1 DEF StallInv, StallTypeOK
  <2>8. \A h \in Games \ {g} : /\ verdict'[h] = verdict[h] /\ frozen'[h] = frozen[h]
                               /\ unchangedPolls'[h] = unchangedPolls[h]
                               /\ still'[h] = still[h]
      BY <1>1, <1>c DEF Record, StallInv, StallTypeOK
  <2>9. QED
      BY <2>6, <2>7, <2>8 DEF Counted, StallInv
<1>7. QED
    BY <1>2, <1>3, <1>4, <1>5, <1>6 DEF StallInv

-----------------------------------------------------------------------------
LEMMA Stall_Next_Inv == StallInv /\ [StallNext]_stallVars => StallInv'
<1> SUFFICES ASSUME StallInv, [StallNext]_stallVars PROVE StallInv'
    OBVIOUS
<1>1. ASSUME NEW d \in Drops, CreditTo(d) PROVE StallInv'
    BY <1>1, Minute_Inv
<1>2. ASSUME NEW d \in Drops, OfferOrWithhold(d) PROVE StallInv'
    BY <1>2, Offer_Inv
<1>3. CASE TurnTo \/ UNCHANGED stallVars
  <2>1. /\ UNCHANGED <<inventory, stalls, stallHistory>>
        /\ farmed' \in Pairs \cup {Nobody}
      BY <1>3 DEF TurnTo, stallVars, StallInv, StallTypeOK
  <2>2. StallTypeOK'
      BY <2>1 DEF StallInv, StallTypeOK, InventoryTypeOK, inventory, stalls, stallHistory
  <2>3. Behind' /\ Followed' /\ UpToDate' /\ Counted'
      BY <2>1 DEF StallInv, Behind, Followed, UpToDate, Counted, ToEarn,
                  inventory, stalls, stallHistory
  <2>4. QED
      BY <2>2, <2>3 DEF StallInv
<1>4. CASE PollKeeps
    BY <1>4, Keeps_Inv
<1>5. CASE PollRotates
    BY <1>5, Rotates_Inv
<1>6. QED
    BY <1>1, <1>2, <1>3, <1>4, <1>5 DEF StallNext

THEOREM Stall_Inv == StallSpec => []StallInv
<1>1. QED
    BY StallInit_Inv, Stall_Next_Inv, PTL DEF StallSpec

\* The type invariant of StallWatch.
THEOREM Stall_TypeOK == StallSpec => []StallTypeOK
<1>1. StallInv => StallTypeOK
    BY DEF StallInv
<1>2. QED
    BY <1>1, Stall_Inv, PTL

\* Whatever the drops, games and streamers: a streamer is rotated away only after a
\* row of polls without a visible credit, and always after one without any event.
THEOREM Stall_RotatedIfStill == StallSpec => []RotatedIfStill
<1>1. StallInv => RotatedIfStill
  <2> SUFFICES ASSUME StallInv, NEW g \in Games
               PROVE  /\ verdict[g] = "rotated" => still[g] > StallPolls
                      /\ verdict[g] = "kept" => frozen[g] <= StallPolls
      BY DEF RotatedIfStill
  <2>1. /\ verdict[g] = "kept" => frozen[g] <= unchangedPolls[g] + 1
        /\ verdict[g] = "rotated" => still[g] > StallPolls
      BY DEF StallInv, Counted
  <2>2. unchangedPolls[g] \in 0..(StallPolls - 1) /\ frozen[g] \in Rows
      BY DEF StallInv, StallTypeOK
  <2>3. QED
      BY <2>1, <2>2, StallAssumption DEF Rows
<1>2. QED
    BY <1>1, Stall_Inv, PTL

-----------------------------------------------------------------------------
(***************************************************************************)
(* NoFalseAlarm holds for every set of drops and every Threshold.  The        *)
(* invariant says what the watchdog knows of the past: a credit it has seen   *)
(* is older than the last time it was content, what it has not seen shows in  *)
(* the next answer, and after a warning nothing but a change of the           *)
(* inventory makes it content again.                                         *)
(***************************************************************************)

\* Answers and the memory of them are not ahead of the service; an answer under way
\* lacks and misstates only what is unseen.
Truthful ==
    /\ \A d \in DOMAIN answer : answer[d] <= minutes[d]
    /\ \A d \in DOMAIN known : known[d] <= minutes[d]
    /\ asked => /\ shown \subseteq unseen \cup DOMAIN answer
                /\ \A d \in DOMAIN answer \ unseen : answer[d] = minutes[d]

\* A credit that was seen is at least as old as the last content look, and so is the
\* last poll that found nobody watched.
Dated ==
    /\ \A d \in DOMAIN known : known[d] = minutes[d] => age <= creditAge[d]
    /\ age <= idleAge

\* In the quiet after a warning no answer would show a credit.
Silent ==
    quiet => /\ alerted /\ baseline
             /\ \A d \in shown : d \in DOMAIN known /\ minutes[d] <= known[d]
             /\ asked => /\ Unchanged
                         /\ \A d \in shown : d \in DOMAIN answer /\ answer[d] = minutes[d]

CreditInv == CreditTypeOK /\ Truthful /\ Dated /\ Silent

-----------------------------------------------------------------------------
LEMMA CreditInit_Inv == CreditInit => CreditInv
<1> SUFFICES ASSUME CreditInit PROVE CreditInv
    OBVIOUS
<1>1. CreditTypeOK
  <2>1. InventoryTypeOK /\ creditAge \in [Drops -> 0..Threshold] /\ unseen \subseteq Drops
      BY CreditAssumption DEF CreditInit, InventoryInit, InventoryTypeOK
  <2>2. {watching, asked, baseline, alerted, disabled, quiet} \subseteq BOOLEAN
      BY DEF CreditInit
  <2>3. DOMAIN answer = {} /\ DOMAIN known = {} /\ {age, idleAge} \subseteq 0..Threshold
      BY CreditAssumption DEF CreditInit, Empty
  <2>4. QED
      BY <2>1, <2>2, <2>3 DEF CreditTypeOK
<1>2. Truthful /\ Dated /\ Silent
    BY CreditAssumption DEF CreditInit, InventoryInit, Truthful, Dated, Silent, Empty
<1>3. QED
    BY <1>1, <1>2 DEF CreditInv

LEMMA MinuteCredited_Inv ==
    ASSUME CreditInv, NEW e \in Drops, Credit(e)
    PROVE  CreditInv'
<1> USE CreditAssumption, RequiredAssumption
        DEF Credit, MinuteCredited, poll, watchdog, CreditInv
<1>1. CreditTypeOK'
  <2>1. InventoryTypeOK' /\ creditAge' \in [Drops -> 0..Threshold] /\ unseen' \subseteq Drops
      BY DEF CreditTypeOK, InventoryTypeOK
  <2>2. {watching, asked, baseline, alerted, disabled, quiet}' \subseteq BOOLEAN
      BY DEF CreditTypeOK
  <2>3. QED
      BY <2>1, <2>2 DEF CreditTypeOK
<1>2. minutes[e] \in Nat /\ minutes'[e] = minutes[e] + 1
      /\ \A d \in Drops : d # e => minutes'[d] = minutes[d] /\ creditAge'[d] = creditAge[d]
    BY DEF CreditTypeOK, InventoryTypeOK
<1>3. \A d \in Drops : minutes[d] \in Nat /\ minutes[d] <= minutes'[d]
    BY <1>2 DEF CreditTypeOK, InventoryTypeOK
<1>4. Truthful'
  <2>1. (\A d \in DOMAIN answer : answer[d] <= minutes[d])'
      BY <1>3 DEF Truthful, CreditTypeOK
  <2>2. (\A d \in DOMAIN known : known[d] <= minutes[d])'
      BY <1>3 DEF Truthful, CreditTypeOK
  <2>3. (asked => /\ shown \subseteq unseen \cup DOMAIN answer
                  /\ \A d \in DOMAIN answer \ unseen : answer[d] = minutes[d])'
      BY <1>2 DEF Truthful, CreditTypeOK
  <2>4. QED
      BY <2>1, <2>2, <2>3 DEF Truthful
<1>5. Dated'
  <2>1. ASSUME NEW d \in DOMAIN known, known[d] = minutes'[d]
        PROVE  age <= creditAge'[d]
    <3>1. d \in Drops /\ known[d] \in Nat /\ known[d] <= minutes[d]
        BY DEF Truthful, CreditTypeOK
    <3>2. d # e
        BY <3>1, <2>1, <1>2
    <3>3. QED
        BY <3>1, <3>2, <2>1, <1>2 DEF Dated
  <2>2. QED
      BY <2>1 DEF Dated
<1>6. Silent'
    BY DEF Silent
<1>7. QED
    BY <1>1, <1>4, <1>5, <1>6

LEMMA Enter_Inv ==
    ASSUME CreditInv, NEW e \in Drops, Enter(e)
    PROVE  CreditInv'
<1> USE DEF Enter, DropEnters, poll, watchdog, CreditInv
<1>1. CreditTypeOK'
    BY DEF CreditTypeOK, InventoryTypeOK
<1>2. Truthful'
    BY DEF Truthful
<1>3. Dated' /\ Silent'
    BY DEF Dated, Silent
<1>4. QED
    BY <1>1, <1>2, <1>3

LEMMA Withdraw_Inv ==
    ASSUME CreditInv, NEW e \in Drops, Withdraw(e)
    PROVE  CreditInv'
<1> USE DEF Withdraw, DropLeaves, poll, watchdog, creditHistory, CreditInv
<1>1. CreditTypeOK'
    BY DEF CreditTypeOK, InventoryTypeOK
<1>2. Truthful' /\ Dated'
    BY DEF Truthful, Dated
<1>3. Silent'
    BY DEF Silent, Unchanged
<1>4. QED
    BY <1>1, <1>2, <1>3

\* Ageing keeps the order of two ages.
LEMMA Aged_Monotone ==
    ASSUME NEW m \in 0..Threshold, NEW n \in 0..Threshold, m <= n
    PROVE  Aged(m) \in 0..Threshold /\ Aged(n) \in 0..Threshold /\ Aged(m) <= Aged(n)
BY CreditAssumption DEF Aged

LEMMA Clock_Inv ==
    ASSUME CreditInv, ClockAdvances
    PROVE  CreditInv'
<1> USE DEF ClockAdvances, poll, inventory, CreditInv
<1>1. CreditTypeOK'
  <2>1. Aged(age) \in 0..Threshold /\ Aged(idleAge) \in 0..Threshold
      BY Aged_Monotone DEF CreditTypeOK, Dated
  <2>2. \A d \in Drops : Aged(creditAge[d]) \in 0..Threshold
      BY CreditAssumption DEF CreditTypeOK, Aged
  <2>3. QED
      BY <2>1, <2>2 DEF CreditTypeOK, InventoryTypeOK
<1>2. Truthful'
    BY DEF Truthful
<1>3. Dated'
  <2>1. Aged(age) <= Aged(idleAge)
      BY Aged_Monotone DEF CreditTypeOK, Dated
  <2>2. ASSUME NEW d \in DOMAIN known, known[d] = minutes[d]
        PROVE  age' <= creditAge'[d]
    <3>1. d \in Drops /\ age <= creditAge[d]
        BY <2>2 DEF Dated, CreditTypeOK
    <3>2. age \in 0..Threshold /\ creditAge[d] \in 0..Threshold
        BY <3>1 DEF CreditTypeOK
    <3>3. Aged(age) <= Aged(creditAge[d])
        BY <3>1, <3>2, Aged_Monotone
    <3>4. QED
        BY <3>1, <3>3
  <2>3. QED
      BY <2>1, <2>2 DEF Dated
<1>4. Silent'
    BY DEF Silent, Unchanged
<1>5. QED
    BY <1>1, <1>2, <1>3, <1>4

-----------------------------------------------------------------------------
LEMMA Ask_Inv ==
    ASSUME CreditInv, Ask
    PROVE  CreditInv'
<1> USE DEF Ask, watchdog, inventory, CreditInv
<1>1. CreditTypeOK'
    BY DEF CreditTypeOK, InventoryTypeOK, Empty
<1>2. Truthful'
    BY DEF Truthful, Empty, CreditTypeOK, InventoryTypeOK
<1>3. Dated'
    BY DEF Dated
<1>4. Silent'
    BY DEF Silent, Unchanged, Empty
<1>5. QED
    BY <1>1, <1>2, <1>3, <1>4

LEMMA Fail_Inv ==
    ASSUME CreditInv, Fail
    PROVE  CreditInv'
<1> USE DEF Fail, watchdog, inventory, creditHistory, CreditInv
<1>1. CreditTypeOK'
    BY DEF CreditTypeOK, InventoryTypeOK, Empty
<1>2. Truthful' /\ Dated' /\ Silent'
    BY DEF Truthful, Dated, Silent, Empty
<1>3. QED
    BY <1>1, <1>2

\* In the quiet there is no credit to see.
LEMMA Silent_Uncredited == CreditInv /\ quiet /\ asked => ~Credited
BY DEF CreditInv, Silent, Credited

\* A drop whose answer is up to date was last credited before the last content look,
\* if the watchdog sees no credit.
LEMMA Uncredited_Old ==
    ASSUME CreditInv, asked, ~Credited, NEW d \in DOMAIN answer, answer[d] = minutes[d]
    PROVE  age <= creditAge[d]
<1>1. d \in DOMAIN known /\ answer[d] <= known[d]
    BY DEF Credited, Unchanged
<1>2. known[d] <= minutes[d]
    BY <1>1 DEF CreditInv, Truthful
<1>3. known[d] \in Nat /\ answer[d] \in Nat
    BY <1>1 DEF CreditInv, CreditTypeOK
<1>4. known[d] = minutes[d]
    BY <1>1, <1>2, <1>3
<1>5. QED
    BY <1>1, <1>4 DEF CreditInv, Dated

LEMMA Look_Truthful ==
    ASSUME CreditInv, Look
    PROVE  Truthful'
BY DEF CreditInv, Look, Truthful, inventory, Empty

LEMMA Content_Inv ==
    ASSUME CreditInv, LookContent
    PROVE  CreditInv'
<1> USE DEF CreditInv
<1>1. CreditTypeOK'
  <2>1. InventoryTypeOK' /\ creditAge' \in [Drops -> 0..Threshold] /\ unseen' \subseteq Drops
      BY DEF LookContent, Look, CreditTypeOK, InventoryTypeOK, inventory
  <2>2. {watching, asked, baseline, alerted, disabled, quiet}' \subseteq BOOLEAN
      BY DEF LookContent, Look, CreditTypeOK
  <2>3. age' = 0 /\ idleAge' \in {idleAge, 0}
      BY DEF LookContent, Look
  <2>4. {age, idleAge}' \subseteq 0..Threshold
      BY <2>3, CreditAssumption DEF CreditTypeOK
  <2>5. /\ DOMAIN answer' = {} /\ DOMAIN known' \subseteq Drops
        /\ \A d \in DOMAIN known' : known'[d] \in Nat
      BY DEF LookContent, Look, CreditTypeOK, Empty
  <2>6. QED
      BY <2>1, <2>2, <2>4, <2>5 DEF CreditTypeOK
<1>2. Truthful'
    BY Look_Truthful DEF LookContent
<1>3. Dated'
    BY DEF Dated, LookContent, Look, CreditTypeOK, inventory
<1>4. ~quiet'
    BY Silent_Uncredited DEF LookContent, Look
<1>5. QED
    BY <1>1, <1>2, <1>3, <1>4 DEF Silent

\* Looks that see no credit keep the dates.
LEMMA Uncredited_Dated ==
    ASSUME CreditInv, Look, ~Credited, watching, UNCHANGED age
    PROVE  Dated'
<1>1. \A d \in DOMAIN answer : answer[d] = minutes[d] => age <= creditAge[d]
    BY Uncredited_Old DEF Look
<1>2. QED
    BY <1>1 DEF CreditInv, Dated, Look, inventory

LEMMA Patient_Inv ==
    ASSUME CreditInv, LookPatient
    PROVE  CreditInv'
<1> USE DEF CreditInv
<1>1. CreditTypeOK'
    BY DEF LookPatient, Look, CreditTypeOK, InventoryTypeOK, inventory, Empty
<1>2. Truthful'
    BY Look_Truthful DEF LookPatient
<1>3. Dated'
    BY Uncredited_Dated DEF LookPatient
<1>4. Silent'
  <2>1. (\A d \in shown : d \in DOMAIN known /\ minutes[d] <= known[d])' \/ ~quiet
      BY DEF LookPatient, Look, Silent, inventory, CreditTypeOK, InventoryTypeOK
  <2>2. QED
      BY <2>1 DEF LookPatient, Look, Silent
<1>5. QED
    BY <1>1, <1>2, <1>3, <1>4

LEMMA Alarmed_Inv ==
    ASSUME CreditInv, LookAlarmed
    PROVE  CreditInv'
<1> USE DEF CreditInv
<1>1. CreditTypeOK'
    BY DEF LookAlarmed, Look, CreditTypeOK, InventoryTypeOK, inventory, Empty
<1>2. Truthful'
    BY Look_Truthful DEF LookAlarmed
<1>3. Dated'
    BY Uncredited_Dated DEF LookAlarmed
<1>4. Silent'
  <2> SUFFICES ASSUME quiet' PROVE Silent'
      BY DEF Silent
  <2>1. \A d \in shown : d \in DOMAIN answer /\ answer[d] = minutes[d]
    <3>1. CASE alerted
        BY <3>1 DEF LookAlarmed, Look, Silent
    <3>2. CASE ~alerted
        BY <3>2 DEF LookAlarmed, Look, Truthful
    <3>3. QED
        BY <3>1, <3>2
  <2>2. \A d \in shown : minutes[d] <= minutes[d]
      BY DEF CreditTypeOK, InventoryTypeOK
  <2>3. (\A d \in shown : d \in DOMAIN known /\ minutes[d] <= known[d])'
      BY <2>1, <2>2 DEF LookAlarmed, Look, inventory
  <2>4. QED
      BY <2>3 DEF LookAlarmed, Look, Silent
<1>5. QED
    BY <1>1, <1>2, <1>3, <1>4

-----------------------------------------------------------------------------
LEMMA Credit_Next_Inv == CreditInv /\ [CreditNext]_creditVars => CreditInv'
<1> SUFFICES ASSUME CreditInv, [CreditNext]_creditVars PROVE CreditInv'
    OBVIOUS
<1>1. ASSUME NEW d \in Drops, Credit(d) \/ Enter(d) \/ Withdraw(d) PROVE CreditInv'
    BY <1>1, MinuteCredited_Inv, Enter_Inv, Withdraw_Inv
<1>2. CASE Reschedule
  <2>1. CreditTypeOK'
      BY <1>2 DEF Reschedule, inventory, poll, watchdog, creditHistory, CreditInv,
                  CreditTypeOK, InventoryTypeOK
  <2>2. Truthful' /\ Dated' /\ Silent'
      BY <1>2 DEF Reschedule, inventory, poll, watchdog, creditHistory, CreditInv,
                  Truthful, Dated, Silent, Unchanged
  <2>3. QED
      BY <2>1, <2>2 DEF CreditInv
<1>3. CASE ClockAdvances
    BY <1>3, Clock_Inv
<1>4. CASE Ask \/ Fail
    BY <1>4, Ask_Inv, Fail_Inv
<1>5. CASE LookContent \/ LookPatient \/ LookAlarmed
    BY <1>5, Content_Inv, Patient_Inv, Alarmed_Inv
<1>6. CASE UNCHANGED creditVars
  <2>1. CreditTypeOK'
      BY <1>6 DEF creditVars, inventory, poll, watchdog, creditHistory, CreditInv,
                  CreditTypeOK, InventoryTypeOK
  <2>2. Truthful' /\ Dated' /\ Silent'
      BY <1>6 DEF creditVars, inventory, poll, watchdog, creditHistory, CreditInv,
                  Truthful, Dated, Silent, Unchanged
  <2>3. QED
      BY <2>1, <2>2 DEF CreditInv
<1>7. QED
    BY <1>1, <1>2, <1>3, <1>4, <1>5, <1>6 DEF CreditNext

THEOREM Credit_Inv == CreditSpec => []CreditInv
<1>1. QED
    BY CreditInit_Inv, Credit_Next_Inv, PTL DEF CreditSpec

\* The type invariant of CreditWatch.
THEOREM Credit_TypeOK == CreditSpec => []CreditTypeOK
<1>1. CreditInv => CreditTypeOK
    BY DEF CreditInv
<1>2. QED
    BY <1>1, Credit_Inv, PTL

\* A warning is only given by LookAlarmed.
LEMMA Warned_Alarmed ==
    ASSUME CreditTypeOK, [CreditNext]_creditVars, Warned
    PROVE  LookAlarmed
BY DEF Warned, CreditNext, creditVars, watchdog, CreditTypeOK, Credit, Enter, Withdraw,
       Reschedule, ClockAdvances, Ask, Fail, LookContent, LookPatient

\* For any drops and any Threshold the user is warned only of a real stall, and once.
THEOREM Credit_NoFalseAlarm == CreditSpec => NoFalseAlarm
<1>1. ASSUME CreditInv, [CreditNext]_creditVars, Warned
      PROVE  /\ \A d \in DOMAIN answer \ unseen : creditAge[d] = Threshold
             /\ idleAge = Threshold
             /\ ~quiet
  <2>1. LookAlarmed /\ ~alerted
      BY <1>1, Warned_Alarmed DEF CreditInv, Warned
  <2>2. age = Threshold /\ idleAge = Threshold
      BY <1>1, <2>1, CreditAssumption DEF LookAlarmed, CreditInv, CreditTypeOK, Dated
  <2>3. ASSUME NEW d \in DOMAIN answer \ unseen PROVE creditAge[d] = Threshold
    <3>1. answer[d] = minutes[d] /\ d \in Drops
        BY <1>1, <2>1 DEF LookAlarmed, Look, CreditInv, Truthful, CreditTypeOK
    <3>2. age <= creditAge[d]
        BY <1>1, <2>1, <3>1, Uncredited_Old DEF LookAlarmed, Look
    <3>3. creditAge[d] \in 0..Threshold
        BY <1>1, <3>1 DEF CreditInv, CreditTypeOK
    <3>4. QED
        BY <2>2, <3>2, <3>3, CreditAssumption
  <2>4. ~quiet
      BY <1>1, <2>1 DEF CreditInv, Silent
  <2>5. QED
      BY <2>2, <2>3, <2>4
<1>2. QED
    BY <1>1, Credit_Inv, PTL DEF CreditSpec, NoFalseAlarm

-----------------------------------------------------------------------------
(***************************************************************************)
(* CallsSpaced holds for any number of senders, any Spacing and any delays.   *)
(* The invariant says that whoever sleeps or calls holds the mutex, and that  *)
(* its sleep does not end before the times it waits for are over.            *)
(***************************************************************************)

Longest == IF Spacing > MaxDelay THEN Spacing ELSE MaxDelay

\* The mutex is held from the wait for the turn to the last answer.
Locked == \A x \in Senders : pc[x] \in {"sleeping", "calling"} <=> mu = x

\* A first attempt sleeps until Spacing after the last answer.
Waits ==
    \A x \in Senders :
        pc[x] = "sleeping" /\ attempt[x] = 0 => lastSend + sleep[x] >= Spacing

\* The delay the service named is slept through by the sender it was named to.
Obeyed ==
    hold > 0 => /\ mu \in Senders /\ pc[mu] = "sleeping" /\ attempt[mu] = 1
                /\ hold <= sleep[mu]

\* No call was begun after the last answer, unless it is under way or failed.
Ordered == lastSend <= lastCall \/ unanswered \/ \E x \in Senders : pc[x] = "calling"

NotifierInv == NotifierTypeOK /\ Locked /\ Waits /\ Obeyed /\ Ordered

-----------------------------------------------------------------------------
LEMMA NotifierInit_Inv == NotifierInit => NotifierInv
<1> SUFFICES ASSUME NotifierInit PROVE NotifierInv
    OBVIOUS
<1> USE NotifierAssumption DEF NotifierInit
<1>1. NotifierTypeOK
  <2>1. 0 \in 0..Longest /\ 0 \in 0..MaxDelay /\ Spacing \in 0..Spacing
      BY DEF Longest
  <2>2. sleep \in [Senders -> 0..Longest] /\ attempt \in [Senders -> {0, 1}]
      BY <2>1
  <2>3. QED
      BY <2>1, <2>2 DEF NotifierTypeOK, Longest
<1>2. Locked /\ Waits /\ Obeyed /\ Ordered
    BY DEF Locked, Waits, Obeyed, Ordered
<1>3. QED
    BY <1>1, <1>2 DEF NotifierInv

LEMMA Time_Inv ==
    ASSUME NotifierInv, TimePasses
    PROVE  NotifierInv'
<1> USE NotifierAssumption DEF NotifierInv, TimePasses
<1>1. /\ lastSend \in 0..Spacing /\ lastCall \in 0..Spacing /\ hold \in 0..MaxDelay
      /\ \A x \in Senders : sleep[x] \in 0..Longest
      /\ Longest \in Nat
    BY DEF NotifierTypeOK, Longest
<1>2. /\ lastSend' \in 0..Spacing /\ lastCall' \in 0..Spacing /\ hold' \in 0..MaxDelay
      /\ lastSend <= lastCall => lastSend' <= lastCall'
    BY <1>1 DEF Older, Less
<1>3. \A x \in Senders :
          /\ sleep'[x] \in 0..Longest
          /\ lastSend + sleep[x] >= Spacing => lastSend' + sleep'[x] >= Spacing
          /\ hold <= sleep[x] => hold' <= sleep'[x]
    BY <1>1 DEF Older, Less
<1>4. NotifierTypeOK'
    BY <1>2, <1>3 DEF NotifierTypeOK, Longest
<1>5. Locked' /\ Waits'
    BY <1>3 DEF Locked, Waits
<1>6. Obeyed'
  <2>1. hold' > 0 => hold > 0
      BY <1>1 DEF Less
  <2>2. QED
      BY <1>3, <2>1 DEF Obeyed
<1>7. Ordered'
    BY <1>2 DEF Ordered
<1>8. QED
    BY <1>4, <1>5, <1>6, <1>7

LEMMA Notify_Inv ==
    ASSUME NotifierInv, NEW x \in Senders, Notify(x)
    PROVE  NotifierInv'
<1> USE DEF NotifierInv, Notify, callHistory
<1>1. NotifierTypeOK'
    BY DEF NotifierTypeOK
<1>2. Locked' /\ Waits'
    BY DEF Locked, Waits, NotifierTypeOK
<1>3. Obeyed' /\ Ordered'
    BY DEF Obeyed, Ordered, NotifierTypeOK
<1>4. QED
    BY <1>1, <1>2, <1>3

LEMMA Begin_Inv ==
    ASSUME NotifierInv, NEW x \in Senders, BeginSend(x)
    PROVE  NotifierInv'
<1> USE NotifierAssumption DEF NotifierInv, BeginSend, StartsSend, callHistory
<1>1. Spacing - lastSend \in 0..Longest
    BY DEF NotifierTypeOK, Longest
<1>2. NotifierTypeOK'
    BY <1>1 DEF NotifierTypeOK, Longest
<1>3. Locked'
    BY DEF Locked, NotifierTypeOK
<1>4. Waits'
    BY DEF Waits, NotifierTypeOK
<1>5. Obeyed' /\ Ordered'
    BY DEF Obeyed, Ordered, NotifierTypeOK
<1>6. QED
    BY <1>2, <1>3, <1>4, <1>5

LEMMA Call_Inv ==
    ASSUME NotifierInv, NEW x \in Senders, Call(x)
    PROVE  NotifierInv'
<1> USE NotifierAssumption DEF NotifierInv, Call
<1>1. NotifierTypeOK'
  <2>1. {lastSend, lastCall}' \subseteq 0..Spacing /\ hold' \in 0..MaxDelay
      BY DEF NotifierTypeOK
  <2>2. pc' \in [Senders -> {"none", "waiting", "sleeping", "calling"}]
      BY DEF NotifierTypeOK
  <2>3. QED
      BY <2>1, <2>2 DEF NotifierTypeOK
<1>2. Locked' /\ Waits'
    BY DEF Locked, Waits, NotifierTypeOK
<1>3. mu = x
    BY DEF Locked
<1>4. Obeyed'
    BY <1>3 DEF Obeyed, NotifierTypeOK
<1>5. Ordered'
    BY DEF Ordered, NotifierTypeOK
<1>6. QED
    BY <1>1, <1>2, <1>4, <1>5

LEMMA Returned_Inv ==
    ASSUME NotifierInv, NEW x \in Senders, CallFails(x) \/ Answered(x)
    PROVE  NotifierInv'
<1> USE NotifierAssumption DEF NotifierInv, CallFails, Answered, Return, callHistory
<1>1. mu = x /\ \A y \in Senders : pc[y] = "calling" => y = x
    BY DEF Locked
<1>2. NotifierTypeOK'
  <2>1. {lastSend, lastCall}' \subseteq 0..Spacing /\ hold' \in 0..MaxDelay
      BY DEF NotifierTypeOK
  <2>2. pc' \in [Senders -> {"none", "waiting", "sleeping", "calling"}]
      BY DEF NotifierTypeOK
  <2>3. sleep' = sleep /\ attempt' = attempt /\ mu' = Unlocked /\ unanswered' \in BOOLEAN
      BY DEF NotifierTypeOK
  <2>4. QED
      BY <2>1, <2>2, <2>3 DEF NotifierTypeOK
<1>3. Locked'
    BY <1>1 DEF Locked, NotifierTypeOK
<1>4. Waits'
  <2>1. \A y \in Senders : pc'[y] # "sleeping"
      BY <1>1 DEF Locked, NotifierTypeOK
  <2>2. QED
      BY <2>1 DEF Waits
<1>5. Obeyed'
    BY <1>1 DEF Obeyed, NotifierTypeOK
<1>6. Ordered'
    BY DEF Ordered, NotifierTypeOK
<1>7. QED
    BY <1>2, <1>3, <1>4, <1>5, <1>6

LEMMA Refused_Inv ==
    ASSUME NotifierInv, NEW x \in Senders, Refused(x)
    PROVE  NotifierInv'
<1> USE NotifierAssumption DEF NotifierInv, Refused
<1>1. mu = x /\ \A y \in Senders : pc[y] = "sleeping" => y = x
    BY DEF Locked
<1>2. PICK delay \in 1..MaxDelay :
          sleep' = [sleep EXCEPT ![x] = delay] /\ hold' = delay
  <2>1. \A named \in RetryDelays : RetryDelay(named) \in 1..MaxDelay
      BY DEF RetryDelay
  <2>2. QED
      BY <2>1
<1>3. delay \in 0..Longest /\ delay \in 0..MaxDelay /\ delay <= delay
    BY DEF Longest
<1>4. NotifierTypeOK'
    BY <1>2, <1>3 DEF NotifierTypeOK, Longest
<1>5. Locked'
    BY DEF Locked, NotifierTypeOK
<1>6. Waits'
  <2>1. \A y \in Senders : pc'[y] = "sleeping" => attempt'[y] = 1
      BY <1>1 DEF NotifierTypeOK
  <2>2. QED
      BY <2>1 DEF Waits
<1>7. Obeyed'
    BY <1>1, <1>2, <1>3 DEF Obeyed, NotifierTypeOK
<1>8. Ordered'
    BY DEF Ordered, NotifierTypeOK
<1>9. QED
    BY <1>4, <1>5, <1>6, <1>7, <1>8

LEMMA Notifier_Next_Inv == NotifierInv /\ [NotifierNext]_notifierVars => NotifierInv'
<1> SUFFICES ASSUME NotifierInv, [NotifierNext]_notifierVars PROVE NotifierInv'
    OBVIOUS
<1>1. CASE TimePasses
    BY <1>1, Time_Inv
<1>2. ASSUME NEW x \in Senders,
             \/ Notify(x) \/ BeginSend(x) \/ Call(x)
             \/ CallFails(x) \/ Answered(x) \/ Refused(x)
      PROVE  NotifierInv'
    BY <1>2, Notify_Inv, Begin_Inv, Call_Inv, Returned_Inv, Refused_Inv
<1>3. CASE UNCHANGED notifierVars
    BY <1>3 DEF notifierVars, sending, callHistory, NotifierInv, NotifierTypeOK, Locked,
                Waits, Obeyed, Ordered
<1>4. QED
    BY <1>1, <1>2, <1>3 DEF NotifierNext

THEOREM Notifier_Inv == NotifierSpec => []NotifierInv
<1>1. QED
    BY NotifierInit_Inv, Notifier_Next_Inv, PTL DEF NotifierSpec

\* The type invariant of Notifier.
THEOREM Notifier_TypeOK == NotifierSpec => []NotifierTypeOK
<1>1. NotifierInv => NotifierTypeOK
    BY DEF NotifierInv
<1>2. QED
    BY <1>1, Notifier_Inv, PTL

-----------------------------------------------------------------------------
\* Only the action Call begins a call.
LEMMA Calls_Call ==
    ASSUME NotifierTypeOK, [NotifierNext]_notifierVars, NEW x \in Senders, Calls(x)
    PROVE  Call(x)
<1>1. CASE TimePasses \/ UNCHANGED notifierVars
    BY <1>1 DEF TimePasses, notifierVars, sending, Calls
<1>2. ASSUME NEW y \in Senders,
             Notify(y) \/ BeginSend(y) \/ CallFails(y) \/ Answered(y) \/ Refused(y)
      PROVE  FALSE
  <2>1. PICK p \in {"none", "waiting", "sleeping"} : pc' = [pc EXCEPT ![y] = p]
      BY <1>2 DEF Notify, BeginSend, StartsSend, CallFails, Answered, Refused, Return
  <2>2. QED
      BY <2>1 DEF Calls, NotifierTypeOK
<1>3. ASSUME NEW y \in Senders, Call(y) PROVE Call(x)
  <2>1. y = x
      BY <1>3 DEF Call, Calls, NotifierTypeOK
  <2>2. QED
      BY <1>3, <2>1
<1>4. QED
    BY <1>1, <1>2, <1>3 DEF NotifierNext

\* However many goroutines send, and whatever delays the service names: the calls keep
\* their distance, but for the two exceptions CallsSpaced names.
THEOREM Notifier_CallsSpaced == NotifierSpec => CallsSpaced
<1>1. ASSUME NotifierInv, [NotifierNext]_notifierVars
      PROVE  \A x \in Senders : Calls(x) =>
                /\ hold = 0
                /\ lastCall = Spacing \/ unanswered \/ attempt[x] = 1
  <2> SUFFICES ASSUME NEW x \in Senders, Calls(x)
               PROVE  hold = 0 /\ (lastCall = Spacing \/ unanswered \/ attempt[x] = 1)
      OBVIOUS
  <2>1. Call(x)
      BY <1>1, Calls_Call DEF NotifierInv
  <2>2. pc[x] = "sleeping" /\ sleep[x] = 0 /\ mu = x
      BY <1>1, <2>1 DEF Call, NotifierInv, Locked
  <2>3. /\ hold \in 0..MaxDelay /\ attempt[x] \in {0, 1}
        /\ lastSend \in 0..Spacing /\ lastCall \in 0..Spacing
      BY <1>1 DEF NotifierInv, NotifierTypeOK
  <2>4. hold = 0
      BY <1>1, <2>2, <2>3, NotifierAssumption DEF NotifierInv, Obeyed
  <2>5. ASSUME attempt[x] = 0, ~unanswered PROVE lastCall = Spacing
    <3>1. lastSend = Spacing
        BY <1>1, <2>2, <2>3, <2>5, NotifierAssumption DEF NotifierInv, Waits
    <3>2. \A y \in Senders : pc[y] # "calling"
        BY <1>1, <2>2 DEF NotifierInv, Locked
    <3>3. lastSend <= lastCall
        BY <1>1, <2>5, <3>2 DEF NotifierInv, Ordered
    <3>4. QED
        BY <2>3, <3>1, <3>3, NotifierAssumption
  <2>6. QED
      BY <2>3, <2>4, <2>5
<1>2. QED
    BY <1>1, Notifier_Inv, PTL DEF NotifierSpec, CallsSpaced

-----------------------------------------------------------------------------
(***************************************************************************)
(* Side by side.  The part that moves keeps its invariant, and the types of   *)
(* the others with it: they share nothing but the inventory, whose type both  *)
(* watchdogs keep.                                                           *)
(***************************************************************************)

AlertsInv ==
    /\ part = "stall" => StallInv
    /\ part = "credit" => CreditInv
    /\ ChatInv /\ NotifierInv
    /\ AlertsTypeOK

LEMMA AlertsInit_Inv == AlertsInit => AlertsInv
BY StallInit_Inv, CreditInit_Inv, ChatInit_Inv, NotifierInit_Inv
   DEF AlertsInit, AlertsInv, AlertsTypeOK, StallInv, CreditInv, ChatInv, NotifierInv

LEMMA Stall_Moves ==
    ASSUME AlertsInv, StallMoves, UNCHANGED part
    PROVE  AlertsInv'
<1>1. StallInv'
    BY Stall_Next_Inv DEF AlertsInv, StallMoves
<1>2. CreditTypeOK'
    BY <1>1 DEF AlertsInv, AlertsTypeOK, StallMoves, StallInv, StallTypeOK, CreditTypeOK,
                poll, watchdog, creditHistory
<1>3. ChatInv'
    BY Chat_Next_Inv DEF AlertsInv, StallMoves
<1>4. NotifierInv'
    BY Notifier_Next_Inv DEF AlertsInv, StallMoves
<1> QED
    BY <1>1, <1>2, <1>3, <1>4
       DEF StallMoves, AlertsInv, AlertsTypeOK, StallInv, ChatInv, NotifierInv

LEMMA Credit_Moves ==
    ASSUME AlertsInv, CreditMoves, UNCHANGED part
    PROVE  AlertsInv'
<1>1. CreditInv'
    BY Credit_Next_Inv DEF AlertsInv, CreditMoves
<1>2. StallTypeOK'
    BY <1>1 DEF AlertsInv, AlertsTypeOK, CreditMoves, CreditInv, StallTypeOK, CreditTypeOK,
                stalls, stallHistory
<1>3. ChatInv'
    BY Chat_Next_Inv DEF AlertsInv, CreditMoves
<1>4. NotifierInv'
    BY Notifier_Next_Inv DEF AlertsInv, CreditMoves
<1> QED
    BY <1>1, <1>2, <1>3, <1>4
       DEF CreditMoves, AlertsInv, AlertsTypeOK, CreditInv, ChatInv, NotifierInv

\* A chat client or a sender moves: the watchdogs stand still.
LEMMA Output_Moves ==
    ASSUME AlertsInv, ChatMoves \/ NotifierMoves \/ UNCHANGED alertsVars, UNCHANGED part
    PROVE  AlertsInv'
<1>1. UNCHANGED <<stallVars, creditVars>>
    BY DEF ChatMoves, NotifierMoves, alertsVars
<1>2. (part = "stall" => StallInv)' /\ StallTypeOK'
  <2>1. StallTypeOK'
      BY <1>1 DEF AlertsInv, AlertsTypeOK, StallTypeOK, InventoryTypeOK, stallVars,
                  inventory, stalls, stallHistory
  <2>2. part = "stall" => StallInv'
      BY <1>1, Stall_Next_Inv DEF AlertsInv
  <2> QED
      BY <2>1, <2>2
<1>3. (part = "credit" => CreditInv)' /\ CreditTypeOK'
  <2>1. CreditTypeOK'
      BY <1>1 DEF AlertsInv, AlertsTypeOK, CreditTypeOK, InventoryTypeOK, creditVars,
                  inventory, poll, watchdog, creditHistory
  <2>2. part = "credit" => CreditInv'
      BY <1>1, Credit_Next_Inv DEF AlertsInv
  <2> QED
      BY <2>1, <2>2
<1>4. ChatInv'
    BY Chat_Next_Inv DEF AlertsInv, ChatMoves, NotifierMoves, alertsVars
<1>5. NotifierInv'
    BY Notifier_Next_Inv DEF AlertsInv, ChatMoves, NotifierMoves, alertsVars
<1> QED
    BY <1>2, <1>3, <1>4, <1>5 DEF AlertsInv, AlertsTypeOK, ChatInv, NotifierInv

\* Whichever part moves, every variable of every part keeps its type.
THEOREM Alerts_TypeOK == AlertsSpec => []AlertsTypeOK
<1>1. AlertsInv /\ [AlertsNext]_alertsVars => AlertsInv'
  <2> SUFFICES ASSUME AlertsInv, [AlertsNext]_alertsVars PROVE AlertsInv'
      OBVIOUS
  <2>1. UNCHANGED part
      BY DEF AlertsNext, alertsVars
  <2> QED
      BY <2>1, Stall_Moves, Credit_Moves, Output_Moves DEF AlertsNext
<1>2. AlertsInv => AlertsTypeOK
    BY DEF AlertsInv
<1>3. QED
    BY AlertsInit_Inv, <1>1, <1>2, PTL DEF AlertsSpec
=============================================================================
