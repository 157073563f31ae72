------------------------------ MODULE MCRoster ------------------------------
(* Small instances of Roster.                                                *)
EXTENDS Roster

CONSTANTS s, d1, d2, g1, g2, c1

StaticSeq == <<s>>
NoStatic == <<>>
OneGame == <<g1>>

\* What initial discovery found.
NoneFound == <<>>
OneFound == <<[login |-> d1, game |-> g1]>>

\* The list the process starts with.
StartList ==
    [l \in StaticLogins \cup {InitialDynamic[i].login : i \in DOMAIN InitialDynamic} |->
        IF l \in StaticLogins THEN [priority |-> 0, game |-> NoGame]
        ELSE [priority |-> Cardinality(StaticLogins), game |-> g1]]

\* Every list these goroutines may send: the configured channel first, then the
\* discovered ones in some order, with any games.
Orders(S) == {f \in UNION {[1..n -> S] : n \in 0..Cardinality(S)} :
                 \A i, j \in DOMAIN f : f[i] = f[j] => i = j}

SentRosters ==
    UNION { { [l \in StaticLogins \cup {o[i] : i \in DOMAIN o} |->
                 [priority |-> IF l \in StaticLogins THEN 0
                               ELSE Cardinality(StaticLogins)
                                      + (CHOOSE i \in DOMAIN o : o[i] = l) - 1,
                  game |-> g[l]]] :
                g \in [Logins -> Games] } :
            o \in Orders(Logins \ StaticLogins) }

MCGameLists == {Ranking}
MCClaimLogin == [c \in Claims |-> CHOOSE l \in Logins : TRUE]

\* The engine's output and its history have no influence here.
RosterScheduling == <<pc, streamers, activeGames, target, starts, stops, active, events, appVars>>
=============================================================================
