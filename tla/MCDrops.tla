------------------------------ MODULE MCDrops ------------------------------
(* Small instances of Drops: one drop in each game; g2's is about to expire.  *)
EXTENDS Drops

CONSTANTS g1, g2, d1, d2

NoPriority == <<>>

TwoDrops == <<d1, d2>>
TwoGames == <<g2, g1>>
TwoGameOf == d1 :> g1 @@ d2 :> g2
TwoRequired == d1 :> 2 @@ d2 :> 1
TwoEndsAt == d1 :> NoDeadline @@ d2 :> 2
TwoNeeds == d1 :> {} @@ d2 :> {}
=============================================================================
