---------------------------- MODULE DropProgress ----------------------------
(***************************************************************************)
(* What the two watchdogs of the inventory poll (app.go:1002-1162) look at:   *)
(* the minutes the service credits to the drops, and which drops its          *)
(* inventory shows.                                                          *)
(***************************************************************************)
EXTENDS Integers

CONSTANTS
    Drops,
    Required        \* their RequiredMinutes

ASSUME RequiredAssumption == Required \in [Drops -> Nat \ {0}]

VARIABLES
    minutes,        \* minutes credited to each drop
    shown           \* the drops in the inventory that are of interest to the
                    \* watchdog: not claimed, and for StallWatch earnable

inventory == <<minutes, shown>>

InventoryInit == minutes = [d \in Drops |-> 0] /\ shown \in SUBSET Drops

\* A minute is credited, by this process or by another device.
MinuteCredited(d) ==
    /\ d \in shown /\ minutes[d] < Required[d]
    /\ minutes' = [minutes EXCEPT ![d] = @ + 1] /\ UNCHANGED shown

\* A campaign enters the inventory, perhaps once more, or a drop opens.
DropEnters(d) == d \notin shown /\ shown' = shown \cup {d} /\ UNCHANGED minutes

\* The drop is claimed or withheld, or its campaign leaves.
DropLeaves(d) == d \in shown /\ shown' = shown \ {d} /\ UNCHANGED minutes

InventoryTypeOK == minutes \in [Drops -> Nat] /\ shown \subseteq Drops
=============================================================================
