----------------------------- MODULE Publication -----------------------------
(***************************************************************************)
(* PublicKeyPublicationWriting of src/request.rs: publication.datom is     *)
(* assembled from sshd's public key, the Yggdrasil projection (two runs of *)
(* the binary, see Yggdrasil) and the WiFi client certificate, read one    *)
(* after another while their owners replace them, and then written with    *)
(* AtomicFile::write_bytes.  There is no skip: every request assembles it  *)
(* anew.                                                                   *)
(*                                                                         *)
(* Requests for one publication share one temporary file.  Where two of    *)
(* them run side by side File::create empties what the other has written,  *)
(* a rename publishes a file that somebody still writes, and the second    *)
(* rename finds no file.  The module AtomicFile has the rest of            *)
(* write_bytes: modes, fsync, power failures.                              *)
(*                                                                         *)
(* A source is the number of times its owner has replaced it, a published  *)
(* field the version it was derived from, and a text two parts, each of    *)
(* the record it was written from.                                         *)
(***************************************************************************)
EXTENDS Naturals

CONSTANTS
  Requests,    \* the requests callers make for one publication, again and again
  Planes,      \* Planes[r]: the optional sources request r names
  None,        \* no field, no file
  MaxVersion,  \* bound: how often a source is replaced
  MaxFaults    \* bound: deaths and failures

Sources == {"ssh", "keypair", "wifi"}
Fields == {"ssh", "publicKey", "address", "wifi"}
SourceOf == [ssh |-> "ssh", publicKey |-> "keypair", address |-> "keypair", wifi |-> "wifi"]
Versions == 0..MaxVersion

\* A record, and a text in two parts, where Blank stands for nothing; a text
\* that shows no optional field is as long as the first part.
Records == [Fields -> Versions \union {None}]
Texts == [head : Records, tail : Records]
Blank == [f \in Fields |-> None]
Empty == [head |-> Blank, tail |-> Blank]
Long(record) == \E f \in Fields \ {"ssh"} : record[f] # None
TextOf(record) == [head |-> record, tail |-> IF Long(record) THEN record ELSE Blank]

ASSUME PlanesAssumption == Planes \in [Requests -> SUBSET {"keypair", "wifi"}]
ASSUME NoneAssumption == None \notin Nat /\ None \notin Texts
ASSUME BoundsAssumption == MaxVersion \in Nat /\ MaxFaults \in Nat

VARIABLES
  version,      \* version[s]: how often source s has been replaced
  readable,     \* readable[s]: whether its file is there and parses
  temporary,    \* the text of publication.tmp
  publication,  \* the text of publication.datom
  pc,           \* pc[r]: the field request r reads next, its step of write_bytes or "idle"
  copy,         \* copy[r]: the fields it has read
  handle,       \* handle[r]: where the file it writes is now
  begun,        \* begun[r]: the versions of the sources when it began
  beside,       \* history: the running requests that have run beside another one
  mixed,        \* history: whether requests ran side by side since one last wrote alone
  floor,        \* history: the versions of the sources when that one began
  faults        \* how many faults there have been

request == <<pc, copy, handle, begun>>
history == <<beside, mixed, floor>>
vars == <<version, readable, temporary, publication, request, history, faults>>

Running(r) == pc[r] # "idle"

TypeOK ==
  /\ version \in [Sources -> Versions]
  /\ readable \in [Sources -> BOOLEAN]
  /\ \A s \in Sources : ~readable[s] => version[s] < MaxVersion
  /\ temporary \in Texts \union {None}
  /\ publication \in Texts \union {None}
  /\ pc \in [Requests -> Fields \union {"create", "head", "tail", "rename", "idle"}]
  /\ copy \in [Requests -> Records]
  /\ handle \in [Requests -> {"temporary", "publication", "nowhere", "closed"}]
  /\ begun \in [Requests -> [Sources -> Versions]]
  /\ beside \subseteq Requests
  /\ mixed \in BOOLEAN
  /\ floor \in [Sources -> Versions]
  /\ faults \in 0..MaxFaults
  /\ \A r \in Requests :
       /\ ~Running(r) => copy[r] = Blank /\ r \notin beside
       /\ handle[r] # "closed" <=> pc[r] \in {"head", "tail"}
       /\ handle[r] = "temporary" => temporary # None
       /\ handle[r] = "publication" => publication # None

Init ==
  /\ version = [s \in Sources |-> 0]
  /\ readable = [s \in Sources |-> TRUE]
  /\ temporary = None
  /\ publication = None
  /\ pc = [r \in Requests |-> "idle"]
  /\ copy = [r \in Requests |-> Blank]
  /\ handle = [r \in Requests |-> "closed"]
  /\ begun = [r \in Requests |-> version]
  /\ beside = {}
  /\ mixed = FALSE
  /\ floor = version
  /\ faults = 0

-----------------------------------------------------------------------------
(* Assembling the record.                                                  *)

Others(r) == {q \in Requests \ {r} : Running(q)}

\* Request r is over; what has become of its files is up to its caller.
Ends(r) ==
  /\ pc' = [pc EXCEPT ![r] = "idle"]
  /\ copy' = [copy EXCEPT ![r] = Blank]
  /\ handle' = [handle EXCEPT ![r] = "closed"]
  /\ begun' = [begun EXCEPT ![r] = [s \in Sources |-> 0]]
  /\ beside' = beside \ {r}

\* Mutant: a request whose publication exists skips, as the issuances do.
BeginSkips(r) ==
  /\ ~Running(r)
  /\ IF publication = None
     THEN /\ pc' = [pc EXCEPT ![r] = "ssh"]
          /\ begun' = [begun EXCEPT ![r] = version]
          /\ beside' = IF Others(r) = {} THEN beside ELSE beside \union Others(r) \union {r}
          /\ mixed' = (mixed \/ Others(r) # {})
          /\ UNCHANGED floor
     ELSE /\ floor' = IF Others(r) = {} THEN version ELSE floor
          /\ UNCHANGED <<pc, begun, beside, mixed>>
  /\ UNCHANGED <<version, readable, temporary, publication, copy, handle, faults>>

Begin(r) ==
  /\ ~Running(r)
  /\ pc' = [pc EXCEPT ![r] = "ssh"]
  /\ begun' = [begun EXCEPT ![r] = version]
  /\ beside' = IF Others(r) = {} THEN beside ELSE beside \union Others(r) \union {r}
  /\ mixed' = (mixed \/ Others(r) # {})
  /\ UNCHANGED <<version, readable, temporary, publication, copy, handle, floor, faults>>

\* Whether request r shows field f at all: the SSH key always, the optional
\* planes when it names their source.
Shows(r, f) == f = "ssh" \/ SourceOf[f] \in Planes[r]

\* What execute does after it has read field f.
After(r, f) ==
  IF f = "ssh" /\ Shows(r, "publicKey") THEN "publicKey"
  ELSE IF f = "publicKey" THEN "address"
  ELSE IF f # "wifi" /\ Shows(r, "wifi") THEN "wifi"
  ELSE "create"

\* read_open_ssh_public_key, one of the two runs of the yggdrasil binary, or
\* the read of the client certificate.
Read(r) ==
  LET f == pc[r] IN
  /\ f \in Fields
  /\ IF readable[SourceOf[f]]
     THEN /\ copy' = [copy EXCEPT ![r][f] = version[SourceOf[f]]]
          /\ pc' = [pc EXCEPT ![r] = After(r, f)]
          /\ UNCHANGED <<handle, begun, beside>>
     ELSE Ends(r)
  /\ UNCHANGED <<version, readable, temporary, publication, mixed, floor, faults>>

-----------------------------------------------------------------------------
(* write_bytes, on the one temporary file of all requests.                 *)

\* Mutant: the publication itself is opened and written.
CreateInPlace(r) ==
  /\ pc[r] = "create"
  /\ publication' = Empty
  /\ handle' = [handle EXCEPT ![r] = "publication"]
  /\ pc' = [pc EXCEPT ![r] = "head"]
  /\ UNCHANGED <<version, readable, temporary, copy, begun, history, faults>>

\* Mutant: a temporary file that is there is opened without being truncated.
CreateOver(r) ==
  /\ pc[r] = "create"
  /\ temporary' = IF temporary = None THEN Empty ELSE temporary
  /\ handle' = [handle EXCEPT ![r] = "temporary"]
  /\ pc' = [pc EXCEPT ![r] = "head"]
  /\ UNCHANGED <<version, readable, publication, copy, begun, history, faults>>

\* File::create makes publication.tmp or truncates the one that is there, a
\* dead request's or one that another request writes.
Create(r) ==
  /\ pc[r] = "create"
  /\ temporary' = Empty
  /\ handle' = [handle EXCEPT ![r] = "temporary"]
  /\ pc' = [pc EXCEPT ![r] = "head"]
  /\ UNCHANGED <<version, readable, publication, copy, begun, history, faults>>

\* write_all writes to the file that was opened, whatever its name is by now;
\* after the last part it is synced and closed.
Write(r) ==
  LET part == pc[r]
      more == part = "head" /\ Long(copy[r])
  IN
  /\ part \in {"head", "tail"}
  /\ temporary' = IF handle[r] = "temporary"
                  THEN [temporary EXCEPT ![part] = copy[r]] ELSE temporary
  /\ publication' = IF handle[r] = "publication"
                    THEN [publication EXCEPT ![part] = copy[r]] ELSE publication
  /\ pc' = [pc EXCEPT ![r] = IF more THEN "tail" ELSE "rename"]
  /\ handle' = IF more THEN handle ELSE [handle EXCEPT ![r] = "closed"]
  /\ UNCHANGED <<version, readable, copy, begun, history, faults>>

\* Where an open file is once publication.tmp has been renamed.
Moved(place) ==
  CASE place = "temporary" -> "publication"
    [] place = "publication" -> "nowhere"
    [] OTHER -> place

\* set_permissions and rename, both of whatever publication.tmp is now; both
\* fail when another request has renamed it away.  The answer is "written".
Rename(r) ==
  /\ pc[r] = "rename" /\ temporary # None
  /\ publication' = temporary
  /\ temporary' = None
  /\ pc' = [pc EXCEPT ![r] = "idle"]
  /\ copy' = [copy EXCEPT ![r] = Blank]
  /\ handle' = [q \in Requests |-> Moved(handle[q])]
  /\ begun' = [begun EXCEPT ![r] = [s \in Sources |-> 0]]
  /\ beside' = beside \ {r}
  /\ mixed' = (mixed /\ r \in beside)
  /\ floor' = IF r \in beside THEN floor ELSE begun[r]
  /\ UNCHANGED <<version, readable, faults>>

RenameFails(r) ==
  /\ pc[r] = "rename" /\ temporary = None
  /\ Ends(r)
  /\ UNCHANGED <<version, readable, temporary, publication, mixed, floor, faults>>

Step(r) == Read(r) \/ Create(r) \/ Write(r) \/ Rename(r) \/ RenameFails(r)

\* A step fails for a reason of its own, or the process dies; publication.tmp
\* stays as it is.
Fail(r) ==
  /\ Running(r)
  /\ Ends(r)
  /\ faults < MaxFaults /\ faults' = faults + 1
  /\ UNCHANGED <<version, readable, temporary, publication, mixed, floor>>

-----------------------------------------------------------------------------
(* The owners of the sources.                                              *)

\* sshd's key, the keypair file or the client certificate is deleted (or is
\* being rewritten) in order to be replaced.
Retire(s) ==
  /\ readable[s] /\ version[s] < MaxVersion
  /\ readable' = [readable EXCEPT ![s] = FALSE]
  /\ UNCHANGED <<version, temporary, publication, request, history, faults>>

\* sshd, YggdrasilKeypairSetup or ClientCertificateIssuance puts a new one there.
Renew(s) ==
  /\ ~readable[s]
  /\ version' = [version EXCEPT ![s] = @ + 1]
  /\ readable' = [readable EXCEPT ![s] = TRUE]
  /\ UNCHANGED <<temporary, publication, request, history, faults>>

Next ==
  \/ \E r \in Requests : Begin(r) \/ Step(r) \/ Fail(r)
  \/ \E s \in Sources : Retire(s) \/ Renew(s)

Spec == Init /\ [][Next]_vars

\* A process that runs gets to its next step, callers repeat their requests
\* and the owner of a source that it has taken away puts a new one there.
FairSpec ==
  /\ Spec
  /\ \A r \in Requests : WF_vars(Begin(r)) /\ WF_vars(Step(r))
  /\ \A s \in Sources : WF_vars(Renew(s))

-----------------------------------------------------------------------------
(* Properties.                                                             *)

\* What a text shows is at least as new as floor.
AtLeast(text, versions) ==
  text # None => \A part \in {"head", "tail"}, f \in Fields :
    text[part][f] # None => versions[SourceOf[f]] <= text[part][f]

\* A request that runs beside no other and answers "written" picks up every
\* rotation that came before it: from then on no part of the publication, whole
\* or torn, shows a version older than its source had when that request began,
\* however later requests write over one another's files.
PicksUp == AtLeast(publication, floor)

\* A record that shows what request r shows, and a text of one such record.
Complete(r, record) == \A f \in Fields : record[f] # None <=> Shows(r, f)
Whole(text) == text = TextOf(text.head) /\ \E r \in Requests : Complete(r, text.head)

\* A reader finds the publication absent or whole, all that one request shows,
\* unless requests have run side by side since one last wrote alone: deaths
\* in the middle of write_bytes and the temporary files they leave do no harm,
\* and one request that runs alone repairs whatever a race has left.
WholeUnlessMixed == ~mixed => publication = None \/ Whole(publication)

\* The record that request r would publish of the sources as they are.
Current(r) == [f \in Fields |-> IF Shows(r, f) THEN version[SourceOf[f]] ELSE None]

\* Once callers sequence their requests, the sources rest and nothing fails any
\* more, the publication is for good a whole record of the sources as they are,
\* whatever races went before.
Converges ==
  <>[](beside = {}) => <>[](\E r \in Requests : publication = TextOf(Current(r)))

-----------------------------------------------------------------------------
(* Why the safety properties hold.                                         *)

\* What a request has read is no older than its beginning.
CopyRecent ==
  \A r \in Requests, f \in Fields :
    copy[r][f] # None => begun[r][SourceOf[f]] <= copy[r][f]

\* It has read what it shows, in the order of execute.
Position == [ssh |-> 1, publicKey |-> 2, address |-> 3, wifi |-> 4]
CopySoFar ==
  \A r \in Requests :
    /\ pc[r] \in Fields =>
         /\ Shows(r, pc[r])
         /\ \A f \in Fields :
              copy[r][f] # None <=> Shows(r, f) /\ Position[f] < Position[pc[r]]
    /\ pc[r] \in {"create", "head", "tail", "rename"} => Complete(r, copy[r])

\* A request that has run beside no other runs alone.
RunsAlone ==
  \A q, r \in Requests : q # r /\ Running(q) /\ Running(r) => r \in beside

\* Whatever runs began after the last request that wrote alone, and no
\* beginning is in the future.
BegunBetween ==
  /\ \A r \in Requests, s \in Sources : Running(r) => floor[s] <= begun[r][s]
  /\ \A r \in Requests, s \in Sources : begun[r][s] <= version[s]
  /\ \A s \in Sources : floor[s] <= version[s]

\* A request that runs alone writes publication.tmp, and nobody else does.
WritesAlone ==
  \A r \in Requests \ beside :
    /\ handle[r] \in {"temporary", "closed"}
    /\ pc[r] = "head" => temporary = Empty
    /\ pc[r] = "tail" => temporary = [head |-> copy[r], tail |-> Blank] /\ Long(copy[r])
    /\ pc[r] = "rename" => temporary = TextOf(copy[r])

IInv ==
  /\ TypeOK
  /\ CopyRecent
  /\ CopySoFar
  /\ RunsAlone
  /\ BegunBetween
  /\ WritesAlone
  /\ (beside # {} => mixed)
  /\ AtLeast(temporary, floor)
  /\ PicksUp
  /\ WholeUnlessMixed
=============================================================================
