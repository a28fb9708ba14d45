------------------------------- MODULE MCChain -------------------------------
(***************************************************************************)
(* Instance of Chain for TLC: one request of each kind over one CA file    *)
(* and one certificate; half-second ticks.                                 *)
(***************************************************************************)
EXTENDS Chain

CONSTANTS authority, issue, verify, old, new, ssh
=============================================================================
