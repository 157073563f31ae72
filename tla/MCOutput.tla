------------------------------ MODULE MCOutput ------------------------------
(* Small instances of Output.                                                *)
EXTENDS Output, MCEngine

CONSTANTS k1, k2

\* Bound: without chats there are no mentions; with them nothing is heard but of the
\* channel and the games.
Apart ==
    \A i \in DOMAIN events' :
        IF joins = {} THEN events'[i].type # "chat_mention"
        ELSE events'[i].type \in {"active_games", "online", "offline", "update_streamers"}

MCOutputSpec == OutputInit /\ [][OutputNext /\ Apart]_outputVars /\ OutputFairness
=============================================================================
