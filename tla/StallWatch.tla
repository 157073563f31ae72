----------------------------- MODULE StallWatch -----------------------------
(***************************************************************************)
(* The watchdog over the discovered streamer (rotateStalledDropStreamer-     *)
(* IfNeeded, app.go:1002-1052): at the end of each inventory poll it compares *)
(* the progress of the game being farmed with that of the poll before, and    *)
(* after StallPolls polls without a change takes the streamer out of the      *)
(* list.  What the rotation does to the list is in Roster, to the auxiliary   *)
(* watch in Telemetry.                                                       *)
(*                                                                          *)
(* The service credits minutes, offers and withholds drops, and the engine    *)
(* turns to other streamers, at any moment between two polls.                *)
(***************************************************************************)
EXTENDS DropProgress, FiniteSets

CONSTANTS
    Games,
    Streamers,
    GameOf,         \* the game of a drop
    Pairs,          \* streamers with the games they may be found playing
    Nobody,         \* no discovered streamer is being watched
    StallPolls      \* dropProgressStallUnchangedPolls

ASSUME StallAssumption ==
    /\ GameOf \in [Drops -> Games]
    /\ Pairs \subseteq Streamers \X Games
    /\ Nobody \notin Streamers /\ Nobody \notin Pairs
    /\ StallPolls \in Nat \ {0}

VARIABLES
    \* the engine and the list
    farmed,         \* the answer of activeDynamicDropStreamer: who, and the game
    \* App.dropProgressStalls, for each game
    streamer,       \* Nobody where there is no state
    progress,       \* minutes of each drop in the snapshot, 0 for the others
    snapshot,       \* the drops in the snapshot
    unchangedPolls,
    \* history
    credited,       \* drops credited since a poll last showed them to the watchdog
    touched,        \* games whose drops changed in any way since their last poll
    polled,         \* who was farmed at the last poll of each game
    verdict,        \* what that poll came to
    still,          \* the polls of a game in a row, with one streamer, that showed no credit
    frozen          \* the polls of a game in a row, with one streamer, before
                    \* which nothing happened to its drops

stalls == <<streamer, progress, snapshot, unchangedPolls>>
stallHistory == <<credited, touched, polled, verdict, still, frozen>>
stallVars == <<inventory, farmed, stalls, stallHistory>>

-----------------------------------------------------------------------------
StallInit ==
    /\ InventoryInit
    /\ farmed = Nobody
    /\ streamer = [g \in Games |-> Nobody]
    /\ progress = [g \in Games |-> [d \in Drops |-> 0]]
    /\ snapshot = [g \in Games |-> {}]
    /\ unchangedPolls = [g \in Games |-> 0]
    /\ credited = {} /\ touched = Games
    /\ polled = [g \in Games |-> Nobody]
    /\ verdict = [g \in Games |-> "none"]
    /\ still = [g \in Games |-> 0] /\ frozen = [g \in Games |-> 0]

CreditTo(d) ==
    /\ MinuteCredited(d)
    /\ credited' = credited \cup {d} /\ touched' = touched \cup {GameOf[d]}
    /\ UNCHANGED <<farmed, stalls, polled, verdict, still, frozen>>

OfferOrWithhold(d) ==
    /\ DropEnters(d) \/ DropLeaves(d)
    /\ touched' = touched \cup {GameOf[d]}
    /\ UNCHANGED <<farmed, stalls, credited, polled, verdict, still, frozen>>

\* The engine and the list change who is watched.
TurnTo ==
    /\ farmed' \in Pairs \cup {Nobody} /\ farmed' # farmed
    /\ UNCHANGED <<inventory, stalls, stallHistory>>

-----------------------------------------------------------------------------
(* A poll whose GetInventory was answered; one that failed changes nothing.  *)

\* dropProgressSnapshot of an answer
ToEarn(answer, g) == {d \in answer : GameOf[d] = g /\ minutes[d] < Required[d]}

\* dropProgressSnapshotAdvanced or not dropProgressSnapshotEqual: both look up the
\* drops of the new snapshot in the previous one, where a missing drop counts as 0.
Changed(g, current) ==
    \/ \E d \in current : minutes[d] # progress[g][d]
    \/ Cardinality(current) # Cardinality(snapshot[g])

\* Variant: the state of a game is kept when its streamer changes.
RestartsForProgress(s, g, current) == streamer[g] = Nobody \/ Changed(g, current)

Restarts(s, g, current) == streamer[g] # s \/ Changed(g, current)

Remember(s, g, current, polls) ==
    /\ streamer' = [streamer EXCEPT ![g] = s]
    /\ snapshot' = [snapshot EXCEPT ![g] = current]
    /\ progress' = [progress EXCEPT ![g] = [d \in Drops |-> IF d \in current THEN minutes[d] ELSE 0]]
    /\ unchangedPolls' = [unchangedPolls EXCEPT ![g] = polls]

Forget(g) == Remember(Nobody, g, {}, 0)

\* Variant: off by one.
LimitPassed(g) == unchangedPolls[g] + 1 > StallPolls

LimitReached(g) == unchangedPolls[g] + 1 >= StallPolls

Capped(n) == IF n > StallPolls THEN n ELSE n + 1

\* What happened, for the properties: a row of polls goes on if the poll before found
\* the same streamer and left it.
Record(s, g, answer) ==
    LET goesOn  == verdict[g] = "kept" /\ polled[g] = s
        current == ToEarn(answer, g)
    IN  /\ polled' = [polled EXCEPT ![g] = s]
        /\ still' = [still EXCEPT ![g] =
                        IF goesOn /\ credited \cap current = {} THEN Capped(@) ELSE 1]
        /\ frozen' = [frozen EXCEPT ![g] =
                        IF goesOn /\ g \notin touched /\ answer = shown THEN Capped(@) ELSE 1]
        /\ credited' = credited \ current
        /\ touched' = IF answer = shown THEN touched \ {g} ELSE touched \cup {g}

\* An answer without a user has no drops.
Answers == {shown, {}}

PollKeeps ==
    \E answer \in Answers, s \in Streamers, g \in Games :
        /\ farmed = <<s, g>>
        /\ LET current == ToEarn(answer, g)
           IN  \/ /\ Restarts(s, g, current)
                  /\ Remember(s, g, current, 0)
               \/ /\ ~Restarts(s, g, current)
                  /\ ~LimitReached(g)
                  /\ Remember(s, g, current, unchangedPolls[g] + 1)
        /\ Record(s, g, answer)
        /\ verdict' = [verdict EXCEPT ![g] = "kept"]
        /\ UNCHANGED <<inventory, farmed>>

\* The streamer leaves the list, so that it is no answer to who is farmed.
PollRotates ==
    \E answer \in Answers, s \in Streamers, g \in Games :
        /\ farmed = <<s, g>>
        /\ ~Restarts(s, g, ToEarn(answer, g))
        /\ LimitReached(g)
        /\ Forget(g) /\ farmed' = Nobody
        /\ Record(s, g, answer)
        /\ verdict' = [verdict EXCEPT ![g] = "rotated"]
        /\ UNCHANGED inventory

-----------------------------------------------------------------------------
StallNext ==
    \/ \E d \in Drops : CreditTo(d) \/ OfferOrWithhold(d)
    \/ TurnTo \/ PollKeeps \/ PollRotates

StallSpec == StallInit /\ [][StallNext]_stallVars

-----------------------------------------------------------------------------
(* Properties                                                                *)

Verdicts == {"none", "kept", "rotated"}
Rows == 0..(StallPolls + 1)

\* Every variable keeps its type.
StallTypeOK ==
    /\ InventoryTypeOK
    /\ farmed \in Pairs \cup {Nobody}
    /\ streamer \in [Games -> Streamers \cup {Nobody}]
    /\ progress \in [Games -> [Drops -> Nat]]
    /\ snapshot \in [Games -> SUBSET Drops]
    /\ unchangedPolls \in [Games -> 0..(StallPolls - 1)]
    /\ credited \subseteq Drops /\ touched \subseteq Games
    /\ polled \in [Games -> Streamers \cup {Nobody}] /\ verdict \in [Games -> Verdicts]
    /\ still \in [Games -> Rows] /\ frozen \in [Games -> Rows]

\* A streamer is rotated away only when StallPolls polls after the first, all of them
\* with that streamer, showed no minute credited to a drop of the game that is still
\* to be earned; and it never outlasts so many polls between which nothing at all
\* happened to the drops of the game.  In between the farmer may have turned to other
\* streamers and games, answers may have been empty, and drops may have opened,
\* completed or gone (app.go:1002-1052, 1164-1202).
RotatedIfStill ==
    \A g \in Games :
        /\ verdict[g] = "rotated" => still[g] > StallPolls
        /\ verdict[g] = "kept" => frozen[g] <= StallPolls
=============================================================================
