------------------------------ MODULE Yggdrasil ------------------------------
(***************************************************************************)
(* src/yggdrasil.rs behind the YggdrasilKey actor: the keypair file that   *)
(* YggdrasilKeypairSetup makes sure exists, and the projection (public key *)
(* and address) that two runs of the yggdrasil binary derive from it, for  *)
(* a setup's own answer or for a publication.                              *)
(*                                                                         *)
(* A file is the key pair in it.  Each call belongs to a process of its    *)
(* own; its blocking task may die between any two steps, and files are     *)
(* written as AtomicStore says, which AtomicFile is shown to implement for *)
(* writers that are sequenced.                                             *)
(***************************************************************************)
EXTENDS Naturals

CONSTANTS
  Calls,         \* setups, and projections read for a publication
  Setups,        \* the calls that run ensure first
  Path,          \* Path[c]: the keypair file of call c
  Paths,         \* every path of the above
  Keys,          \* key pairs
  None,          \* no file, no key pair
  Damaged,       \* contents the binary rejects
  Serial,        \* whether the caller sequences setups of one path
  MaxFaults      \* bound: deletions, damages, restorations, deaths, power failures

ASSUME CallsAssumption == Setups \subseteq Calls /\ Path \in [Calls -> Paths]
ASSUME KeysAssumption == {None, Damaged} \intersect Keys = {} /\ None # Damaged
ASSUME BoundsAssumption ==
  Serial \in BOOLEAN /\ MaxFaults \in Nat

VARIABLES
  files,      \* files[p]: the keypair file at p
  disk,       \* disk[p]: what a power failure would leave there
  pc,         \* pc[c]: the next step of call c, "idle" when it is not running
  made,       \* made[c]: the key pair it has generated and not yet written
  publicKey,  \* publicKey[c]: the key pair whose public key it has derived
  address,    \* address[c]: the key pair whose address it has derived
  answer,     \* answer[c]: how it last ended: "none", "projected", "failed"
  touched,    \* history: the calls under which the file at their path was touched
  faults      \* how many faults there have been

call == <<pc, made, publicKey, address, answer>>
vars == <<files, disk, call, touched, faults>>

Running(c) == pc[c] # "idle"

TypeOK ==
  /\ files \in [Paths -> Keys \union {None, Damaged}]
  /\ disk \in [Paths -> Keys \union {None, Damaged}]
  /\ pc \in [Calls -> {"idle", "exists", "generate", "put", "publicKey", "address"}]
  /\ made \in [Calls -> Keys \union {None}]
  /\ publicKey \in [Calls -> Keys \union {None}]
  /\ address \in [Calls -> Keys \union {None}]
  /\ answer \in [Calls -> {"none", "projected", "failed"}]
  /\ touched \subseteq Calls
  /\ faults \in 0..MaxFaults
  /\ \A c \in Calls : (pc[c] = "put") <=> (made[c] # None)
  /\ \A c \in Calls : pc[c] = "address" => publicKey[c] # None
  /\ \A c \in Calls : Running(c) => answer[c] = "none"
  /\ \A c \in Calls : pc[c] \in {"exists", "generate", "put"} => c \in Setups

Init ==
  /\ files = [p \in Paths |-> None]
  /\ disk = files
  /\ pc = [c \in Calls |-> "idle"]
  /\ made = [c \in Calls |-> None]
  /\ publicKey = made
  /\ address = made
  /\ answer = [c \in Calls |-> "none"]
  /\ touched = {}
  /\ faults = 0

Store == INSTANCE AtomicStore WITH
  Legal <- [p \in Paths |-> Keys], store <- files, stable <- disk

-----------------------------------------------------------------------------
(* The calls.                                                              *)

\* The file at p is touched under the calls that run: by the operator, the disk
\* or an editor, or by a setup that overwrites what one of those has put there.
Touch(p) == touched' = touched \union {c \in Calls : Running(c) /\ Path[c] = p}

Goto(c, step) ==
  /\ pc' = [pc EXCEPT ![c] = step]
  /\ made' = [made EXCEPT ![c] = None]
  /\ UNCHANGED <<publicKey, address, answer>>

Fails(c) ==
  /\ pc' = [pc EXCEPT ![c] = "idle"]
  /\ made' = [made EXCEPT ![c] = None]
  /\ answer' = [answer EXCEPT ![c] = "failed"]
  /\ UNCHANGED <<publicKey, address>>

\* What a setup waits for when its caller sequences setups.
Sequenced(c) ==
  Serial => \A d \in Setups \ {c} : Running(d) => Path[d] # Path[c]

\* A setup asks EnsureYggdrasilIdentity and then ReadYggdrasilProjection, a
\* publication only the second.
Ask(c) ==
  /\ ~Running(c)
  /\ c \in Setups => Sequenced(c)
  /\ pc' = [pc EXCEPT ![c] = IF c \in Setups THEN "exists" ELSE "publicKey"]
  /\ publicKey' = [publicKey EXCEPT ![c] = None]
  /\ address' = [address EXCEPT ![c] = None]
  /\ answer' = [answer EXCEPT ![c] = "none"]
  /\ touched' = touched \ {c}
  /\ UNCHANGED <<files, disk, made, faults>>

\* Mutant: a file the binary rejects counts as none.
EnsureParses(c) ==
  /\ pc[c] = "exists"
  /\ Goto(c, IF files[Path[c]] \in Keys THEN "publicKey" ELSE "generate")
  /\ UNCHANGED <<files, disk, touched, faults>>

\* Mutant: ensure always generates.
EnsureAlways(c) ==
  /\ pc[c] = "exists"
  /\ Goto(c, "generate")
  /\ UNCHANGED <<files, disk, touched, faults>>

\* ensure returns when anything stands at the path.
Ensure(c) ==
  /\ pc[c] = "exists"
  /\ Goto(c, IF files[Path[c]] # None THEN "publicKey" ELSE "generate")
  /\ UNCHANGED <<files, disk, touched, faults>>

\* No file and no other call knows key pair k.
Fresh(k) ==
  /\ \A p \in Paths : files[p] # k /\ disk[p] # k
  /\ \A d \in Calls : k \notin {made[d], publicKey[d], address[d]}

\* yggdrasil -genconf -json, and the private key extracted from its output.
Generate(c) ==
  /\ pc[c] = "generate"
  /\ \E k \in Keys : Fresh(k) /\ made' = [made EXCEPT ![c] = k]
  /\ pc' = [pc EXCEPT ![c] = "put"]
  /\ UNCHANGED <<files, disk, publicKey, address, answer, touched, faults>>

\* Mutant: the key pair is generated and never written.
PutForgotten(c) ==
  /\ pc[c] = "put"
  /\ Goto(c, "publicKey")
  /\ UNCHANGED <<files, disk, touched, faults>>

\* write_bytes renames over whatever has come to the path since the check.
Put(c) ==
  /\ pc[c] = "put"
  /\ Store!Put(Path[c], made[c])
  /\ Goto(c, "publicKey")
  /\ IF c \in touched THEN Touch(Path[c]) ELSE UNCHANGED touched
  /\ UNCHANGED faults

\* yggdrasil -useconffile -publickey; a missing or damaged file fails the run.
DerivePublicKey(c) ==
  /\ pc[c] = "publicKey"
  /\ IF files[Path[c]] \in Keys
     THEN /\ publicKey' = [publicKey EXCEPT ![c] = files[Path[c]]]
          /\ pc' = [pc EXCEPT ![c] = "address"]
          /\ UNCHANGED <<made, address, answer>>
     ELSE Fails(c)
  /\ UNCHANGED <<files, disk, touched, faults>>

\* The second run of the binary, with -address, and the answer.
DeriveAddress(c) ==
  /\ pc[c] = "address"
  /\ IF files[Path[c]] \in Keys
     THEN /\ address' = [address EXCEPT ![c] = files[Path[c]]]
          /\ pc' = [pc EXCEPT ![c] = "idle"]
          /\ answer' = [answer EXCEPT ![c] = "projected"]
          /\ UNCHANGED <<made, publicKey>>
     ELSE Fails(c)
  /\ UNCHANGED <<files, disk, touched, faults>>

Step(c) ==
  \/ Ensure(c)
  \/ Generate(c)
  \/ Put(c)
  \/ DerivePublicKey(c)
  \/ DeriveAddress(c)

-----------------------------------------------------------------------------
(* Faults, the operator and the disk.                                      *)

Fault == faults < MaxFaults /\ faults' = faults + 1

\* The binary, the disk or the blocking task fails, or the process dies.
Fail(c) ==
  /\ Running(c)
  /\ Fails(c)
  /\ Fault
  /\ UNCHANGED <<files, disk, touched>>

Remove(p) ==
  /\ files[p] # None
  /\ Store!Remove(p)
  /\ Touch(p)
  /\ Fault
  /\ UNCHANGED call

Damage(p) ==
  /\ files[p] # None
  /\ files' = [files EXCEPT ![p] = Damaged]
  /\ Touch(p)
  /\ Fault
  /\ UNCHANGED <<disk, call>>

\* The operator puts a key pair back from a backup, also between the check and
\* the write of a running setup.
Restore(p, k) ==
  /\ files[p] \notin Keys
  /\ Store!Put(p, k)
  /\ Touch(p)
  /\ Fault
  /\ UNCHANGED call

\* An operator who sees a setup fail over a damaged file deletes it.
DeleteDamaged(c) ==
  /\ c \in Setups /\ answer[c] = "failed"
  /\ files[Path[c]] = Damaged
  /\ Store!Remove(Path[c])
  /\ Touch(Path[c])
  /\ UNCHANGED <<call, faults>>

Flush == Store!Flush /\ UNCHANGED <<call, touched, faults>>

PowerLoss ==
  /\ Store!Revert
  /\ Fault
  /\ pc' = [c \in Calls |-> "idle"]
  /\ made' = [c \in Calls |-> None]
  /\ publicKey' = made'
  /\ address' = made'
  /\ answer' = [c \in Calls |-> "none"]
  /\ touched' = {}

Run == \E c \in Calls : Ask(c) \/ Step(c)

Next ==
  \/ Run
  \/ \E c \in Calls : Fail(c) \/ DeleteDamaged(c)
  \/ \E p \in Paths : Remove(p) \/ Damage(p) \/ \E k \in Keys : Restore(p, k)
  \/ Flush
  \/ PowerLoss

Spec == Init /\ [][Next]_vars

\* A process that runs gets to its next step, the caller repeats its setups,
\* and an operator who sees one fail again and again acts on it.
FairSpec ==
  /\ Spec
  /\ \A c \in Setups :
       WF_vars(Step(c)) /\ WF_vars(Ask(c)) /\ SF_vars(DeleteDamaged(c))

-----------------------------------------------------------------------------
(* Properties.                                                             *)

\* Re-running preserves the keypair file: a call changes a file that stands at
\* its path, even one the binary rejects, which may still hold a secret somebody
\* can recover, in one case only: a setup writes after somebody has touched the
\* path since it began, for it checks once and then renames over what has come.
RerunPreserves ==
  [][Run => \A p \in Paths : files[p] # None /\ files'[p] # files[p] =>
       \E c \in touched : pc[c] = "put" /\ Path[c] = p]_vars

\* The public key and the address a call answers with, derived by two runs of
\* the binary with the file open to every other call in between, are of one
\* key pair, unless the file was touched while the call ran: from outside, or
\* by a setup that overwrote what had been put there under it.
ProjectionWhole ==
  \A c \in Calls \ touched :
    answer[c] = "projected" => publicKey[c] # None /\ publicKey[c] = address[c]

\* Once nothing goes wrong any more, repeated setups and an operator who
\* deletes what the binary rejects give every path a key pair for good.
Recovers == <>[](\A c \in Setups : files[Path[c]] \in Keys)

-----------------------------------------------------------------------------
(* Why the safety properties hold when setups of one path are sequenced.   *)

\* Setups that run together write different files.
Exclusive ==
  \A c, d \in Setups : c # d /\ Running(c) /\ Running(d) => Path[c] # Path[d]

\* What a setup found absent is absent until it writes it, unless touched.
StillAbsent ==
  \A c \in Calls \ touched : pc[c] \in {"generate", "put"} => files[Path[c]] = None

\* Between the two runs of the binary the file is the one the first run read,
\* unless it was touched.
StillRead ==
  \A c \in Calls \ touched : pc[c] = "address" => files[Path[c]] = publicKey[c]

IInv ==
  /\ TypeOK
  /\ Exclusive
  /\ StillAbsent
  /\ StillRead
  /\ ProjectionWhole
=============================================================================
