------------------------------ MODULE DropLife ------------------------------
(***************************************************************************)
(* What the drops goroutine promises about each drop, whatever requests     *)
(* fail, answers get lost or links change (app.go:628-762): at most one     *)
(* claim is made for it, not before it is complete, and it is announced, if *)
(* ever, with that claim.  A restart forgets which drops were attended to,  *)
(* so another claim may follow, never a second announcement of a real one.  *)
(* Drops is shown to implement this.                                        *)
(***************************************************************************)
EXTENDS Integers

CONSTANT DropIds

VARIABLES
    dryRun,     \* nothing is claimed, only announced
    progress,   \* where each drop is, for the service
    attended,   \* drops for which the one claim was made, or given up
    announced   \* how often each was announced

life == <<dryRun, progress, attended, announced>>

Stages == {"open", "complete", "claimed"}

LifeInit ==
    /\ dryRun \in BOOLEAN
    /\ progress = [d \in DropIds |-> "open"]
    /\ attended = {}
    /\ announced = [d \in DropIds |-> 0]

\* Its last minute is credited.
Earn(d) ==
    /\ progress[d] = "open"
    /\ progress' = [progress EXCEPT ![d] = "complete"]
    /\ UNCHANGED <<dryRun, attended, announced>>

\* The user claims it.
TakenElsewhere(d) ==
    /\ progress[d] = "complete"
    /\ progress' = [progress EXCEPT ![d] = "claimed"]
    /\ UNCHANGED <<dryRun, attended, announced>>

Attend(d) ==
    /\ progress[d] # "open" /\ d \notin attended
    /\ attended' = attended \cup {d}
    /\ UNCHANGED dryRun

\* The claim is honoured, and is announced.
Claim(d) ==
    /\ Attend(d) /\ ~dryRun
    /\ progress[d] = "complete"
    /\ progress' = [progress EXCEPT ![d] = "claimed"]
    /\ announced' = [announced EXCEPT ![d] = @ + 1]

Pretend(d) ==
    /\ Attend(d) /\ dryRun
    /\ announced' = [announced EXCEPT ![d] = @ + 1]
    /\ UNCHANGED progress

\* The claim is refused, comes too late or fails, perhaps after it was honoured; or
\* the drop is given up without one.
Miss(d) ==
    /\ Attend(d)
    /\ progress' \in {progress, [progress EXCEPT ![d] = "claimed"]}
    /\ UNCHANGED announced

\* The process is started again: what was attended to lived in memory only.
Forget ==
    /\ attended' = {}
    /\ UNCHANGED <<dryRun, progress, announced>>

LifeNext ==
    \/ Forget
    \/ \E d \in DropIds : Earn(d) \/ TakenElsewhere(d) \/ Claim(d) \/ Pretend(d) \/ Miss(d)

LifeSpec == LifeInit /\ [][LifeNext]_life

-----------------------------------------------------------------------------
\* The variables keep their types.
LifeTypeOK ==
    /\ dryRun \in BOOLEAN
    /\ progress \in [DropIds -> Stages]
    /\ attended \subseteq DropIds
    /\ announced \in [DropIds -> Nat]

\* Outside a dry run no drop is announced twice, restarts or not, and only a claimed
\* one is announced.
OnceAndClaimed ==
    ~dryRun => \A d \in DropIds : /\ announced[d] <= 1
                                  /\ announced[d] = 1 => progress[d] = "claimed"
=============================================================================
