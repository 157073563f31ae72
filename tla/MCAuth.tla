------------------------------- MODULE MCAuth -------------------------------
(* A configured, an older and a foreign client ID.                           *)
EXTENDS Auth

CONSTANTS tv, android, other, noClient, noToken

MCClients == {tv, android, other}
=============================================================================
