----------------------------- MODULE MCIssuance -----------------------------
(***************************************************************************)
(* Instances of Issuance for TLC: a CA, a host's server certificate, the   *)
(* same server certificate asked for twice, and a client certificate.      *)
(***************************************************************************)
EXTENDS Issuance, TLC

CONSTANTS ca, server, again, client, gpg, ssh, k1, k2, k3

MCCertificatePath == [r \in Requests |->
  CASE r = ca -> "ca.pem" [] r = client -> "client.pem" [] OTHER -> "server.pem"]
MCKeyPath == [r \in Requests |-> IF r \in {server, again} THEN "server.key" ELSE None]
MCAuthorityPath == [r \in Requests |-> IF r = ca THEN None ELSE "ca.pem"]
MCPaths == UNION {{"ca.pem", MCCertificatePath[r], MCKeyPath[r]} : r \in Requests} \ {None}
MCSubject == [r \in Requests |-> IF r = client THEN ssh ELSE gpg]

\* Contents the handlers refuse, at any path.
MCRefused == [p \in MCPaths |-> {Damaged}]
\* The same, and private keys that only look like one.
MCHollowKey == [p \in MCPaths |-> IF p = "server.key" THEN {Hollow} ELSE {Damaged}]
MCAny == [p \in MCPaths |-> {Damaged, Hollow}]

Symmetric == Permutations({k1, k2, k3})
=============================================================================
