------------------------------- MODULE Issuance -------------------------------
(***************************************************************************)
(* The three issuance requests of src/request.rs over the files they read  *)
(* and write: CertificateAuthorityIssuance, ServerCertificateIssuance and  *)
(* ClientCertificateIssuance, each run by a process of its own that may    *)
(* die between any two steps, with an operator who deletes files and a     *)
(* disk that damages them.                                                 *)
(*                                                                         *)
(* A file is the key pair it belongs to: a certificate the one it binds, a *)
(* private key the one it is half of.  Damaged stands for contents the     *)
(* handlers refuse, Hollow for contents they take for a certificate or a   *)
(* key without looking inside: a PEM envelope labelled CERTIFICATE around  *)
(* no certificate, or text that holds the three private-key markers.       *)
(* Writes are those of AtomicStore, which AtomicFile is shown to implement *)
(* for writers that are sequenced.                                         *)
(***************************************************************************)
EXTENDS Naturals

CONSTANTS
  Requests,         \* the requests a caller makes, again and again
  CertificatePath,  \* CertificatePath[r]: the certificate it writes
  KeyPath,          \* KeyPath[r]: the private key it writes, None but for a server
  AuthorityPath,    \* AuthorityPath[r]: the CA certificate it reads, None for a CA
  Paths,            \* every path of the above
  Keys,             \* key pairs
  Subject,          \* Subject[r]: the key pair a CA or client certificate binds
  None,             \* no path, no file, no key
  Damaged, Hollow,  \* see above
  Damages,          \* Damages[p]: how the contents of p may be damaged
  Serial,           \* whether the caller sequences requests that share an output
  Interference,     \* whether others may touch the files of a running request
  Foreign,          \* the paths at which others put certificates, no server's among them
  MaxFaults         \* bound: deletions, damages, certificates of others, deaths, power failures

Outputs(r) == {CertificatePath[r], KeyPath[r]} \ {None}
IsServer(r) == KeyPath[r] # None
Files == Keys \union {Damaged, Hollow, None}
Intact(file) == file \in Keys

\* Two requests write the same outputs or none in common.
SameOutputs(q, r) == CertificatePath[q] = CertificatePath[r] /\ KeyPath[q] = KeyPath[r]

ASSUME PathsAssumption ==
  /\ CertificatePath \in [Requests -> Paths]
  /\ KeyPath \in [Requests -> Paths \union {None}]
  /\ AuthorityPath \in [Requests -> Paths \union {None}]
  /\ None \notin Paths
  /\ \A r \in Requests : CertificatePath[r] # KeyPath[r]
  /\ \A q, r \in Requests : SameOutputs(q, r) \/ Outputs(q) \intersect Outputs(r) = {}
  /\ Foreign \subseteq Paths
  /\ \A r \in Requests : IsServer(r) => Outputs(r) \intersect Foreign = {}
ASSUME FilesAssumption ==
  /\ Subject \in [Requests -> Keys]
  /\ {None, Damaged, Hollow} \intersect Keys = {}
  /\ None \notin {Damaged, Hollow}
  /\ Damages \in [Paths -> SUBSET {Damaged, Hollow}]
ASSUME BoundsAssumption ==
  Serial \in BOOLEAN /\ Interference \in BOOLEAN /\ MaxFaults \in Nat

VARIABLES
  files,   \* files[p]: the file at p
  disk,    \* disk[p]: the file a power failure would leave at p
  pc,      \* pc[r]: the next step of request r, "idle" when it is not running
  seen,    \* seen[r]: what a server's first check saw, "none" outside its checks
  made,    \* made[r]: the key pair it has issued a certificate for
  answer,  \* answer[r]: how it last ended: "none", "written", "refused", "failed"
  supplied,  \* history: the running requests whose certificate another has put there
  faults   \* how many faults there have been

request == <<pc, seen, made, answer, supplied>>
vars == <<files, disk, request, faults>>

Running(r) == pc[r] # "idle"

TypeOK ==
  /\ files \in [Paths -> Files]
  /\ disk \in [Paths -> Files]
  /\ pc \in [Requests -> {"idle", "certificate", "key", "load", "sign",
                          "putCertificate", "putKey"}]
  /\ seen \in [Requests -> {"none", "absent", "valid", "unparseable"}]
  /\ made \in [Requests -> Keys \union {None}]
  /\ answer \in [Requests -> {"none", "written", "refused", "failed"}]
  /\ faults \in 0..MaxFaults
  /\ supplied \subseteq {r \in Requests : Running(r) /\ ~IsServer(r)}
  /\ \A r \in Requests :
       /\ pc[r] \in {"key", "putKey"} => IsServer(r)
       /\ seen[r] # "none" <=> pc[r] = "key"
       /\ made[r] # None <=> pc[r] \in {"putCertificate", "putKey"}

Init ==
  /\ files = [p \in Paths |-> None]
  /\ disk = files
  /\ pc = [r \in Requests |-> "idle"]
  /\ seen = [r \in Requests |-> "none"]
  /\ made = [r \in Requests |-> None]
  /\ answer = [r \in Requests |-> "none"]
  /\ supplied = {}
  /\ faults = 0

Store == INSTANCE AtomicStore WITH
  Legal <- [p \in Paths |-> Keys], store <- files, stable <- disk

-----------------------------------------------------------------------------
(* The handlers.                                                           *)

Goto(r, step) ==
  /\ pc' = [pc EXCEPT ![r] = step]
  /\ seen' = [seen EXCEPT ![r] = "none"]
  /\ UNCHANGED <<made, answer, supplied>>

Finish(r, how) ==
  /\ pc' = [pc EXCEPT ![r] = "idle"]
  /\ seen' = [seen EXCEPT ![r] = "none"]
  /\ made' = [made EXCEPT ![r] = None]
  /\ answer' = [answer EXCEPT ![r] = how]
  /\ supplied' = supplied \ {r}

\* What a request waits for when its caller sequences requests.
Sequenced(r) ==
  Serial => \A q \in Requests \ {r} : Running(q) => Outputs(q) \intersect Outputs(r) = {}

Start(r) ==
  /\ ~Running(r)
  /\ Sequenced(r)
  /\ pc' = [pc EXCEPT ![r] = "certificate"]
  /\ answer' = [answer EXCEPT ![r] = "none"]
  /\ UNCHANGED <<files, disk, seen, made, supplied, faults>>

\* Mutant: whatever exists counts as valid.
SeenTrusting(file) == IF file = None THEN "absent" ELSE "valid"

\* What existing_certificate_file and existing_private_key_file tell of a
\* file: neither looks inside the envelope.
Seen(file) ==
  IF file = None THEN "absent" ELSE IF file = Damaged THEN "unparseable" ELSE "valid"

\* Mutant: an unparseable file counts as absent.
DecideOverUnparseable(r, certificate, key) ==
  \/ certificate = "valid" /\ key = "valid" /\ Finish(r, "written")
  \/ certificate # "valid" /\ key # "valid" /\ Goto(r, "load")
  \/ certificate # key /\ "valid" \in {certificate, key} /\ Finish(r, "refused")

\* Mutant: a pair without its private key is issued anew.
DecideHalf(r, certificate, key) ==
  \/ certificate = "valid" /\ key = "valid" /\ Finish(r, "written")
  \/ key = "absent" /\ Goto(r, "load")
  \/ /\ key # "absent"
     /\ "unparseable" \in {certificate, key} \/ certificate # key
     /\ Finish(r, "refused")

\* Mutant: one valid half is enough.
DecideOnEither(r, certificate, key) ==
  \/ "valid" \in {certificate, key} /\ Finish(r, "written")
  \/ certificate = "absent" /\ key = "absent" /\ Goto(r, "load")
  \/ /\ "unparseable" \in {certificate, key} /\ "valid" \notin {certificate, key}
     /\ Finish(r, "refused")

\* The match on what the checks saw: skip when every output is valid, issue
\* when every output is absent, and refuse everything else.
Decide(r, certificate, key) ==
  \/ certificate = "valid" /\ key = "valid" /\ Finish(r, "written")
  \/ certificate = "absent" /\ key = "absent" /\ Goto(r, "load")
  \/ /\ "unparseable" \in {certificate, key} \/ certificate # key
     /\ Finish(r, "refused")

\* A CA or a client decides on its certificate; a server remembers what it saw
\* of it and goes on to its private key.
CheckCertificate(r) ==
  /\ pc[r] = "certificate"
  /\ LET certificate == Seen(files[CertificatePath[r]]) IN
       IF IsServer(r)
       THEN /\ pc' = [pc EXCEPT ![r] = "key"]
            /\ seen' = [seen EXCEPT ![r] = certificate]
            /\ UNCHANGED <<made, answer, supplied>>
       ELSE Decide(r, certificate, certificate)
  /\ UNCHANGED <<files, disk, faults>>

\* Mutant: the private key is not looked at.
CheckKeyUnread(r) ==
  /\ pc[r] = "key"
  /\ Decide(r, seen[r], seen[r])
  /\ UNCHANGED <<files, disk, faults>>

CheckKey(r) ==
  /\ pc[r] = "key"
  /\ Decide(r, seen[r], Seen(files[KeyPath[r]]))
  /\ UNCHANGED <<files, disk, faults>>

\* A CA asks the agent for its public key; the others read the CA certificate,
\* and fail here or in the issuer when it is missing or does not parse.
Load(r) ==
  /\ pc[r] = "load"
  /\ IF AuthorityPath[r] = None \/ Intact(files[AuthorityPath[r]])
     THEN Goto(r, "sign")
     ELSE Finish(r, "failed")
  /\ UNCHANGED <<files, disk, faults>>

\* No file, answer or other request knows key pair k.
Fresh(k) ==
  /\ \A p \in Paths : files[p] # k /\ disk[p] # k
  /\ \A q \in Requests : made[q] # k /\ Subject[q] # k

\* The key pair the certificate binds: one generated for a server, the
\* agent's own for a CA and the host's SSH key for a client.
KeyPairs(r) == IF IsServer(r) THEN {k \in Keys : Fresh(k)} ELSE {Subject[r]}

\* The CertificateIssuer actor builds the certificate and the agent signs it.
Sign(r) ==
  /\ pc[r] = "sign"
  /\ \E k \in KeyPairs(r) : made' = [made EXCEPT ![r] = k]
  /\ pc' = [pc EXCEPT ![r] = "putCertificate"]
  /\ UNCHANGED <<files, disk, seen, answer, supplied, faults>>

PutCertificate(r) ==
  /\ pc[r] = "putCertificate"
  /\ Store!Put(CertificatePath[r], made[r])
  /\ IF IsServer(r) THEN Goto(r, "putKey") ELSE Finish(r, "written")
  /\ UNCHANGED faults

PutKey(r) ==
  /\ pc[r] = "putKey"
  /\ Store!Put(KeyPath[r], made[r])
  /\ Finish(r, "written")
  /\ UNCHANGED faults

Step(r) ==
  \/ CheckCertificate(r)
  \/ CheckKey(r)
  \/ Load(r)
  \/ Sign(r)
  \/ PutCertificate(r)
  \/ PutKey(r)

-----------------------------------------------------------------------------
(* Faults, the operator and the disk.                                      *)

Fault == faults < MaxFaults /\ faults' = faults + 1

\* Whether p may be touched while requests run.
Touchable(p) == Interference \/ \A r \in Requests : Running(r) => p \notin Outputs(r)

\* A step of the request fails (the agent, the disk, a malformed argument), or
\* its process dies; what it has written stays.
Fail(r) ==
  /\ Running(r)
  /\ Finish(r, "failed")
  /\ Fault
  /\ UNCHANGED <<files, disk>>

\* Somebody deletes a file.
Remove(p) ==
  /\ files[p] # None
  /\ Touchable(p)
  /\ Store!Remove(p)
  /\ Fault
  /\ UNCHANGED request

\* A file is overwritten with something else by hand or by a failing disk.
Damage(p, how) ==
  /\ files[p] # None
  /\ Touchable(p)
  /\ files' = [files EXCEPT ![p] = how]
  /\ Fault
  /\ UNCHANGED <<disk, request>>

\* Somebody else puts a certificate where there is none, a copy from another
\* machine or from a backup.
Supply(p, k) ==
  /\ p \in Foreign /\ files[p] = None
  /\ Touchable(p)
  /\ Store!Put(p, k)
  /\ supplied' = supplied \union {r \in Requests : Running(r) /\ CertificatePath[r] = p}
  /\ Fault
  /\ UNCHANGED <<pc, seen, made, answer>>

\* The operator does what the refusal says: delete every output and run again.
FollowAdvice(r) ==
  /\ answer[r] = "refused"
  /\ \A p \in Outputs(r) : Touchable(p)
  /\ files' = [p \in Paths |-> IF p \in Outputs(r) THEN None ELSE files[p]]
  /\ answer' = [answer EXCEPT ![r] = "none"]
  /\ UNCHANGED <<disk, pc, seen, made, supplied, faults>>

Flush == Store!Flush /\ UNCHANGED <<request, faults>>

\* The machine loses power and comes back: every request is gone.
PowerLoss ==
  /\ Store!Revert
  /\ Fault
  /\ pc' = [r \in Requests |-> "idle"]
  /\ seen' = [r \in Requests |-> "none"]
  /\ made' = [r \in Requests |-> None]
  /\ answer' = [r \in Requests |-> "none"]
  /\ supplied' = {}

Run == \E r \in Requests : Start(r) \/ Step(r)

Next ==
  \/ Run
  \/ \E r \in Requests : Fail(r) \/ FollowAdvice(r)
  \/ \E p \in Paths : Remove(p) \/ \E how \in Damages[p] : Damage(p, how)
  \/ \E p \in Paths, k \in Keys : Supply(p, k)
  \/ Flush
  \/ PowerLoss

Spec == Init /\ [][Next]_vars

\* A process that runs gets to its next step; the caller makes each request
\* again; an operator who is told again and again what to delete does so.
Fairness ==
  \A r \in Requests :
    /\ WF_vars(Step(r))
    /\ WF_vars(Start(r))
    /\ SF_vars(FollowAdvice(r))

FairSpec == Spec /\ Fairness

-----------------------------------------------------------------------------
(* Properties.                                                             *)

\* The certificate and the private key that a server finds are halves of one
\* key pair, now and after a power failure, whatever died, was deleted or was
\* damaged between the two writes.
Matches(f, r) ==
  LET c == f[CertificatePath[r]]
      k == f[KeyPath[r]]
  IN  IsServer(r) /\ Intact(c) /\ Intact(k) => c = k

PairMatches == \A r \in Requests : Matches(files, r) /\ Matches(disk, r)

\* A request changes a file that exists, intact, damaged or half of a pair,
\* in one case only: somebody else has put a certificate there while the request
\* ran, which checks once and then renames over whatever has come since.
OverwritesOnlySupplied ==
  [][Run => \A p \in Paths : files[p] # None /\ files'[p] # files[p] =>
       \E r \in supplied : pc[r] = "putCertificate" /\ p = CertificatePath[r]]_vars

\* A request that answers that its outputs are written leaves each of them a
\* certificate or a private key that parses.
AnswersTruthfully ==
  [][\A r \in Requests :
       answer'[r] = "written" /\ answer[r] # "written" =>
         \A p \in Outputs(r) : Intact(files'[p])]_vars

\* Once nothing goes wrong any more, repeated requests and the advice in their
\* refusals bring every output back: no half-written pair, damaged file or
\* missing CA wedges a host for good.
Recovers == <>[](\A r \in Requests : \A p \in Outputs(r) : Intact(files[p]))

\* The identity of each certificate and key that belong together: the key
\* pair of which at least one half survives.
Servers == {<<CertificatePath[r], KeyPath[r]>> : r \in {q \in Requests : IsServer(q)}}
IdentityIn(f, pair) ==
  IF Intact(f[pair[1]]) THEN f[pair[1]] ELSE IF Intact(f[pair[2]]) THEN f[pair[2]] ELSE None

IdentityNow == [pair \in Servers |-> IdentityIn(files, pair)]
IdentityOnDisk == [pair \in Servers |-> IdentityIn(disk, pair)]

Identity == INSTANCE HostIdentity WITH
  Hosts <- Servers, identity <- IdentityNow, stable <- IdentityOnDisk

\* The requests implement the loud-fail policy: while a half of a host's key
\* pair survives no request replaces it by half of another, so that an identity
\* goes only by a deletion, a damaged file or a power failure.
KeepsIdentity == Identity!Spec

-----------------------------------------------------------------------------
(* Why they hold when requests that share an output are sequenced: the     *)
(* inductive invariant of IssuanceProofs.                                  *)

\* Requests that run together write different outputs.
Exclusive ==
  \A q, r \in Requests : q # r /\ Running(q) /\ Running(r) => Outputs(q) \intersect Outputs(r) = {}

\* What a request found absent is absent until it writes it, unless somebody
\* else has put it there.
StillAbsent ==
  \A r \in Requests :
    /\ \/ pc[r] \in {"load", "sign", "putCertificate"}
       \/ pc[r] = "key" /\ seen[r] = "absent"
       => files[CertificatePath[r]] = None \/ r \in supplied
    /\ pc[r] \in {"load", "sign", "putCertificate", "putKey"} /\ IsServer(r)
       => files[KeyPath[r]] = None

\* Between its two writes, a server's certificate is the one it has just put
\* there, if it is intact at all.
HalfWritten ==
  \A r \in Requests :
    pc[r] = "putKey" /\ Intact(files[CertificatePath[r]]) => files[CertificatePath[r]] = made[r]

\* Everything sequenced requests keep between two steps.
IInv ==
  /\ TypeOK
  /\ Exclusive
  /\ StillAbsent
  /\ HalfWritten
  /\ PairMatches

\* What AnswersTruthfully needs besides, where nobody touches the outputs of a
\* running request and no damage is hollow: no file is hollow, and a server's
\* certificate that was found valid or has just been written parses until the
\* request has looked at the private key or written it.
AsFound ==
  /\ \A p \in Paths : files[p] # Hollow /\ disk[p] # Hollow
  /\ \A r \in Requests :
       pc[r] = "putKey" \/ (pc[r] = "key" /\ seen[r] = "valid")
       => Intact(files[CertificatePath[r]])
=============================================================================
