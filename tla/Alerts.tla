------------------------------- MODULE Alerts -------------------------------
(***************************************************************************)
(* What looks after the farming and tells of it, side by side: the two        *)
(* watchdogs, the chat clients and the notifier.  Each is left to its own     *)
(* environment, and a behaviour is one of one of them; the others do not      *)
(* move.  The inventory is that of both watchdogs.                           *)
(***************************************************************************)
EXTENDS StallWatch, CreditWatch, Chat, Notifier

VARIABLE part       \* the one that moves

alertsVars == <<part, stallVars, creditVars, chatVars, notifierVars>>

AlertsInit ==
    /\ part \in {"stall", "credit", "chat", "webhook"}
    /\ StallInit /\ CreditInit /\ ChatInit /\ NotifierInit
    /\ part \in {"chat", "webhook"} => shown = {}

StallMoves ==
    /\ part = "stall" /\ StallNext
    /\ UNCHANGED <<watching, poll, watchdog, creditHistory, chatVars, notifierVars>>
CreditMoves ==
    /\ part = "credit" /\ CreditNext
    /\ UNCHANGED <<farmed, stalls, stallHistory, chatVars, notifierVars>>
ChatMoves ==
    /\ part = "chat" /\ ChatNext
    /\ UNCHANGED <<stallVars, creditVars, notifierVars>>
NotifierMoves ==
    /\ part = "webhook" /\ NotifierNext
    /\ UNCHANGED <<stallVars, creditVars, chatVars>>

AlertsNext == (StallMoves \/ CreditMoves \/ ChatMoves \/ NotifierMoves) /\ UNCHANGED part

AlertsSpec == AlertsInit /\ [][AlertsNext]_alertsVars

\* Every variable of every part keeps its type.
AlertsTypeOK == StallTypeOK /\ CreditTypeOK /\ ChatTypeOK /\ NotifierTypeOK
=============================================================================
