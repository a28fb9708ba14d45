------------------------------- MODULE MCActors -------------------------------
(***************************************************************************)
(* Instance of Actors for TLC: the asks of a Yggdrasil setup, of a server  *)
(* issuance and of a verification, side by side, and the report of a test. *)
(***************************************************************************)
EXTENDS Actors

MCTo == [a \in Asks |->
  CASE a \in {"ensure", "read"} -> "key"
    [] a \in {"issue", "verify"} -> "issuer"
    [] a = "report" -> "tracer"]
MCBefore == [a \in Asks |-> Asks \intersect
  CASE a = "read" -> {"ensure"}
    [] a = "report" -> {"ensure", "read", "issue"}
    [] OTHER -> {}]
=============================================================================
