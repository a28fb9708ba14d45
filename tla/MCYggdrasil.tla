----------------------------- MODULE MCYggdrasil -----------------------------
(***************************************************************************)
(* Instance of Yggdrasil for TLC: two setups and a publication's           *)
(* projection over one keypair file.                                       *)
(***************************************************************************)
EXTENDS Yggdrasil

CONSTANTS setup, again, read, k1, k2, k3, k4

MCPath == [c \in Calls |-> "keypair.json"]
=============================================================================
