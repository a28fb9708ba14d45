---------------------------- MODULE MCAtomicFile ----------------------------
(***************************************************************************)
(* Instances of AtomicFile for TLC.  The certificate and the private key   *)
(* share a temporary name and differ in mode, as server.pem and server.key *)
(* do; the publication has a temporary name of its own.                    *)
(***************************************************************************)
EXTENDS AtomicFile, TLC

CONSTANTS w1, w2, i1, i2, i3, i4, new, old

MCPaths == {"server.pem", "server.key"}
MCAllPaths == MCPaths \union {"publication"}
MCTmp == [p \in {"server.pem", "server.key", "publication"} |->
            IF p = "publication" THEN "publication.tmp" ELSE "server.tmp"]
MCPathMode == [p \in {"server.pem", "server.key", "publication"} |->
                 IF p = "server.key" THEN "0600" ELSE "0644"]
Symmetric ==
  Permutations(Writers) \union Permutations(Inodes) \union Permutations(Contents)

\* What the rest of a behaviour depends on: an inode that no name and no
\* descriptor refers to is reset when it is allocated again, so what it still
\* holds is left out.
Named(d) == {d[n] : n \in Names}
Live == Named(dir) \union Named(diskDir) \union {fd[w] : w \in Writers}
Visible ==
  <<dir, diskDir, writer,
    [i \in Inodes |-> IF i \in Live THEN <<bytes[i], synced[i], mode[i]>> ELSE None],
    [i \in Inodes |-> IF i \in Named(diskDir) THEN diskMode[i] ELSE None]>>
=============================================================================
