------------------------------ MODULE MCEngine ------------------------------
(* Small instances of Engine.                                                *)
EXTENDS Engine

CONSTANTS s, d1, d2, g1, g2, c1

\* A list written in order, as the function Engine works with.
List(seq) ==
    [l \in {seq[i].login : i \in DOMAIN seq} |->
        LET i == CHOOSE i \in DOMAIN seq : seq[i].login = l
        IN  [priority |-> i - 1, game |-> seq[i].game]]

Item(l, g) == [login |-> l, game |-> g]

\* The configured channel alone.
StaticList == List(<<Item(s, g1)>>)
\* One discovered channel that comes and goes.
DynamicList == List(<<Item(d1, g1)>>)
DynamicRosters == {<<>>, DynamicList}
OneGameLists == {<<g1>>}

\* The configured channel is always listed; discovery finds both others for one
\* game, one of them for each game, or nothing.
FullList == List(<<Item(s, g1), Item(d1, g1), Item(d2, g1)>>)
MCRosters == {StaticList,
              FullList,
              List(<<Item(s, g1), Item(d2, g1), Item(d1, g1)>>),
              List(<<Item(s, g1), Item(d1, g1), Item(d2, g2)>>)}

MCGameLists == {<<g1>>, <<g2, g1>>}

MCClaimLogin == [c \in Claims |-> CHOOSE l \in Logins : TRUE]

-----------------------------------------------------------------------------
(* The run about scheduling.  What the engine schedules depends neither on     *)
(* what became of its output nor on points and claims: states that differ      *)
(* only there are identified, and the consumer is left out.  So are the sends  *)
(* to a full channel, which change nothing.                                   *)

Pointless == [l \in DOMAIN streamers |-> [streamers[l] EXCEPT !.points = 0]]

Scheduling == <<pc, Pointless, activeGames, target, starts, stops, claiming,
                active, events, cancelled>>

Deliver == Len(events) < EventCap /\ Produce

SchedulingSpec == Init /\ [][Engine \/ Deliver \/ Cancel]_vars
=============================================================================
