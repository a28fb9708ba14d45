---------------------------- MODULE MCPublication ----------------------------
(***************************************************************************)
(* Instance of Publication for TLC: two requests for one publication.      *)
(***************************************************************************)
EXTENDS Publication

CONSTANTS first, second

\* One of them names both optional sources, the other none.
MCPlanes == [r \in Requests |-> IF r = first THEN {"keypair", "wifi"} ELSE {}]
=============================================================================
