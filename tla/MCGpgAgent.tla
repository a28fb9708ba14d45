----------------------------- MODULE MCGpgAgent -----------------------------
(***************************************************************************)
(* Instances of GpgAgent for TLC: a signature, and a public key that is    *)
(* read under another key while the signature is made.                     *)
(***************************************************************************)
EXTENDS GpgAgent

CONSTANTS sign, read, alpha, beta, hash

MCKey == [c \in Calls |-> IF c = sign THEN alpha ELSE beta]
MCHash == [c \in Calls |-> IF c = sign THEN hash ELSE None]
=============================================================================
