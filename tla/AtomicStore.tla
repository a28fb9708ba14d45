----------------------------- MODULE AtomicStore -----------------------------
(***************************************************************************)
(* What src/util.rs's AtomicFile promises to its callers and to every      *)
(* reader of the files it writes: a path holds no file or one complete,    *)
(* legal file, and changes from the one to the other in one step.          *)
(*                                                                         *)
(* store is what a reader finds now; stable is what it would find after a  *)
(* power failure.  A power failure takes the store back to an earlier      *)
(* state of the store, never to a file nobody wrote.                       *)
(***************************************************************************)
CONSTANTS
  Paths,   \* the paths callers write
  Legal,   \* Legal[p]: the complete files that may stand at path p
  None     \* no file

VARIABLES store, stable

vars == <<store, stable>>

Stores == {s \in [Paths -> UNION {Legal[p] : p \in Paths} \union {None}] :
             \A p \in Paths : s[p] \in Legal[p] \union {None}}

Init ==
  /\ store = [p \in Paths |-> None]
  /\ stable = store

Put(p, file) ==
  /\ store' = [store EXCEPT ![p] = file]
  /\ UNCHANGED stable

Remove(p) ==
  /\ store' = [store EXCEPT ![p] = None]
  /\ UNCHANGED stable

Flush ==
  /\ stable' = store
  /\ UNCHANGED store

Revert ==
  /\ store' = stable
  /\ UNCHANGED stable

Next ==
  \/ \E p \in Paths : (\E file \in Legal[p] : Put(p, file)) \/ Remove(p)
  \/ Flush
  \/ Revert

Spec == Init /\ [][Next]_vars
=============================================================================
