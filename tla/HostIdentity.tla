----------------------------- MODULE HostIdentity -----------------------------
(***************************************************************************)
(* What the loud-fail policy of the issuance requests promises an          *)
(* operator: a host's TLS identity, the key pair whose certificate or      *)
(* private key survives, is never exchanged for another behind their back. *)
(* It appears, is lost (its last half was deleted or damaged), and only    *)
(* then may a new one appear; a power failure brings back all identities   *)
(* of some earlier moment.                                                 *)
(***************************************************************************)
CONSTANTS
  Hosts,   \* what has an identity
  Keys,    \* key pairs
  None     \* no identity

VARIABLES identity, stable

vars == <<identity, stable>>

Init ==
  /\ identity = [h \in Hosts |-> None]
  /\ stable = identity

Adopt(h, k) ==
  /\ identity[h] = None
  /\ identity' = [identity EXCEPT ![h] = k]
  /\ UNCHANGED stable

Lose(h) ==
  /\ identity' = [identity EXCEPT ![h] = None]
  /\ UNCHANGED stable

Flush ==
  /\ stable' = identity
  /\ UNCHANGED identity

Revert ==
  /\ identity' = stable
  /\ UNCHANGED stable

Next ==
  \/ \E h \in Hosts : (\E k \in Keys : Adopt(h, k)) \/ Lose(h)
  \/ Flush
  \/ Revert

Spec == Init /\ [][Next]_vars
=============================================================================
