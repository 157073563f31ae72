----------------------------- MODULE MCTelemetry -----------------------------
(* Two configured streamers and one that was discovered, who play two games.  *)
(* The unit of time is about two and a half seconds; a tick is two units.     *)
EXTENDS Telemetry

CONSTANTS s1, s2, d1, a1, b1, a2, x1, g1, g2

MCOwner == [x \in {a1, b1, a2, x1} |->
               CASE x \in {a1, b1} -> s1 [] x = a2 -> s2 [] x = x1 -> d1]
MCGameOf == [x \in {a1, b1, a2, x1} |-> IF x \in {x1, b1} THEN g1 ELSE g2]
MCPosition == [s \in {s1, s2} |-> IF s = s1 THEN 1 ELSE 2]
=============================================================================
