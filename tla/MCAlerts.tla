------------------------------ MODULE MCAlerts ------------------------------
(* Small instances of Alerts.                                                *)
EXTENDS Alerts

CONSTANTS a, b, g, h, s, t

TwoRequired == [d \in Drops |-> IF d = a THEN 2 ELSE 1]
BothOfG == [d \in Drops |-> g]
\* h has no drop in the inventory.
Found == {<<s, g>>, <<t, g>>, <<s, h>>}
=============================================================================
