# ClaviFaber in TLA+

ClaviFaber is a command-line program that issues X.509 certificates through
gpg-agent, sets up a host's Yggdrasil key pair and publishes its public keys.
Each invocation takes one request, runs it and exits; everything it remembers is
in files. What makes it hard is not inside one run but between runs: a process
dies half way through a pair of files, a machine loses power, two invocations
meet, an operator deletes or restores something, a CA is rotated, the agent hangs
up. These modules state what the program promises through all of that, check it
with TLC on small instances, and prove the safety part for all instances with
TLAPS.

## Inventory

| Component | State | Operations | What must hold | Modelled in |
|---|---|---|---|---|
| `AtomicFile` (`util.rs`) | names, inodes, modes, the disk | create, write, sync, chmod, rename; each may fail | a target is absent or complete, in its mode, also after a power failure | `AtomicFile` |
| Issuance requests (`request.rs`) | output files, CA certificate | check outputs, load CA, issue, write one or two files | never overwrite what a check could see, never mix key pairs, never wedge, answer the truth | `Issuance` |
| Certificates (`x509.rs`), chain verification (`request.rs`, `certificate_issuer.rs`) | CA certificate, certificate, clock | self-sign, issue, verify in three checks | what is issued chains until it expires; no false alarm; a rotation is recovered from | `Chain` |
| gpg-agent client (`gpg_agent.rs`) | one socket | connect, sign, readkey | lock step, whole replies, termination | `GpgAgent` |
| S-expressions and Assuan lines (`gpg_agent.rs`, `util.rs`) | bytes | strip, decode, search, cut out | the caller gets the agent's bytes | `SignatureAnswer` |
| `GpgAgentSession` actor | its mailbox, blocking tasks | `SignSha256Hash`, `ReadEd25519PublicKey` | responsive mailbox, calls do not interfere | `GpgAgent`, `Actors` |
| `CertificateIssuer` actor | its mailbox | three issuances, chain verification | answers each once, whatever the session does | `Actors`, `Chain` |
| `YggdrasilKey` actor, `yggdrasil.rs` | keypair file | ensure, projection | re-running preserves the file; a projection is of one key pair | `Yggdrasil`, `Actors` |
| Publication (`request.rs`, `publication.rs`) | `publication.datom`, three sources | read, read, read, write | the next run picks up every rotation and leaves a whole file, also after a race for `publication.tmp` | `Publication` |
| `RuntimeRoot`, `TraceRecorder` | four actors, the trace | spawn, ask, tell, report | nobody waits on everybody; the trace tells what happened in order | `Actors` |
| OpenSSH key text (`ssh_key.rs`) | none | parse | formatting | a flag of a source in `Publication` |
| Command line, errors, text, generated types | none | parse, print | formatting | left out |

Interactions: a request handler asks `CertificateIssuer` (which asks
`GpgAgentSession`) or `YggdrasilKey`, and waits; `GpgAgentSession` talks to
gpg-agent over one socket per call; handlers write through `AtomicFile`; the
three of them tell `TraceRecorder` what they have received and replied;
invocations meet only in the file system and in the agent.

## Modules

    AtomicStore   <-- implemented by --  AtomicFile       (AtomicFileProofs)
        ^ used by
    HostIdentity  <-- implemented by --  Issuance         (IssuanceProofs)
                                         Yggdrasil        (YggdrasilProofs)
                                         Publication      (PublicationProofs)
                                         Chain            (ChainProofs)
                                         GpgAgent         (GpgAgentProofs)
                                         SignatureAnswer  (SignatureAnswerProofs)
                                         Actors           (ActorsProofs)

Each of them but the abstract two has an `MC` module that instantiates it for TLC.

**AtomicStore** is what `AtomicFile` promises: a map from paths to complete
files, changed one path at a time; a power failure takes the whole map back to an
earlier one. **AtomicFile** is `write_bytes` at the level of system calls. `Begin`
is `File::create` (`O_CREAT|O_TRUNC`), `WriteChunk` one `write(2)` of
`write_all`, `Sync` `sync_all` and the drop of the descriptor, `SetPermissions`
and `Rename` act by name, `Abort` is an error return or the death of the process
and leaves the temporary file behind. The temporary name replaces the target's
extension, so `server.pem` and `server.key` share `server.tmp`.

The file system is external and assumed to be a journaling one: names and modes
reach the disk together in commits (`Commit`), bytes at the latest with
`sync_all`, and after a power failure (`PowerLoss`) each chunk that was not synced
holds what was last synced or what was last written. An inode is allocated again
only when no name, committed name or descriptor refers to it. The directory is
never synced by the code, so a reported write may be lost by a power failure;
`AtomicStore!Revert` says so.

**Issuance** runs the CA, server and client requests as processes over such a
store (`Store!Put` of `AtomicStore`, for sequenced writers). A file is represented by the key pair it
belongs to. `CheckCertificate` and `CheckKey` are the existence and parse checks,
`Decide` the `match` on them, `Load` the read of the CA certificate (or the question
for the agent's public key), `Sign` the issuer, `PutCertificate` and `PutKey` the two
writes. `files` and `disk` are the store now and after a power failure. `Damaged`
stands for text the handlers refuse; `Hollow` for text they take for valid because
they look only at the PEM label (certificates) or at three markers (private
keys). Around the requests: `Fail` (a step fails or the process dies), `Remove`,
`Damage`, `PowerLoss`, the operator's `FollowAdvice`, which deletes what a
refusal names, and `Supply`, by which somebody else puts a certificate at a path of
`Foreign` where there is none, also between the check and the write of a request.
`supplied` is a history variable: the requests whose certificate has come in that way. **HostIdentity** is the loud-fail policy of `skills.md` as a
specification: the identity of a host, the key pair of which its certificate or its
private key survives, appears or is lost, and is never exchanged.

**Yggdrasil** is `YggdrasilKeypairSetup` and the projection a publication reads.
`Ensure` is the existence check of `ensure`, `Generate` the run of
`yggdrasil -genconf`, `Put` the write, and `DerivePublicKey` and `DeriveAddress` the
two runs of the binary over the file, which is open to everybody in between. A
file is the key pair in it. The binary refuses a damaged or missing file, and
`ensure` does not look; only an operator who deletes what it refuses
(`DeleteDamaged`) leads out. `Restore` puts a key pair back at any moment, also
between the check and the write of a setup. `touched` is a history variable: the
calls under which the file was touched, from outside or by a setup that overwrote what
had been restored under it.

**Publication** is `PublicKeyPublicationWriting`: `Read` takes the SSH key, the
public key, the address and the WiFi certificate in this order, each of a source
that its owner may `Retire` and `Renew` between any two reads. A source is the number
of times it was replaced, a field the version it was derived from; the optional
planes that a request does not name are published as absent.

Requests for one publication may overlap, and then the store is no map of complete
files: they share `publication.tmp`. `Create`, `Write`, `Rename` and `RenameFails` are
therefore the steps of `write_bytes` on that one file. `Create` truncates whatever is
there; `Write` writes to the file that was opened, wherever it is by now (`handle`:
still temporary, renamed to the publication, or replaced); `Rename` publishes
whatever the name leads to and fails when another request has renamed it away. A
text has two parts, so that it can be partial or of two requests. Two histories tell
races from sequences: `beside` (the running requests that have run beside another
one) and `mixed` (requests have run side by side since one last wrote alone);
`floor` has the versions of the sources when that one began. Modes, `sync_all` and
power failures are in `AtomicFile` only.

**Chain** has certificates as records (subject, issuer, bound key, signing key,
window). `SelfSigned` and `Issued` are what `x509.rs` builds; `Verdict` is
`verify_with_clock` with its checks in their order; `Whole` is the loss of the
fraction of a second in a certificate's times, against a verifier's clock that
keeps it. `Check` skips any certificate that parses, `Load` and `ReadCertificate` are
the reads of the two files, at different moments. Around them: a clock that
advances and is set back, a CA deleted and issued again, under another key or
another name, and an operator who deletes a certificate that a verification has
rejected (`Reissue`). `rotated` is a history variable: another key or name than
the first has been used, or the clock was set back.

**GpgAgent** is the mailbox of `GpgAgentSession` (`Ask`, `Handle`), its blocking
tasks (`Export`, `Connect`, `ExpectOk`, `ReadData`) and the agent at the other end
(`Serve`, `Work`, `Refuses`, `Noise`, `HangUp`), connected by two queues of lines.
A reply is a sequence of `Parts` D lines that carry the key and the hash they
were computed from, so that a mixed or partial reply can be told from a whole one.
`ReadData` turns without effect at the end of the stream, as the loop of
`read_data_response` does; a socket whose agent left a command unread gives an
error instead (`Reset`), and a command written to an agent that is gone fails.

**SignatureAnswer** is one such reply in bytes: the agent encodes an S-expression,
escapes it and cuts it into lines (`SendLine`); `ReadLine` strips the end of a line
and decodes its escapes, `ReadOk` searches for the tags and cuts the components out.
What the expression holds around the components (names, algorithm, curve) is a
constant that spells none of the tags searched for. The loops of the code over
bytes are recursive functions, for the decoder one `Turn` at a time.

**Actors** composes the four actors by their messages. `Take` and `Handle` are an
actor's loop and its handlers, step by step: the event told to the recorder, the
work, the question to the next actor, the event, the reply. The issuer answers
inside its handler (`Holds`), the other two from a spawned task. What a task does in
detail is `GpgAgent` and `Yggdrasil`; here it succeeds, fails, or never ends
(`Work` has no fairness). Mailboxes are
bounded and a sender waits for room.

Operators named in a comment that starts with "Mutant" are faulty versions of
the operator after them, kept to show that the properties can fail.

## Runs

Bounds are named in the modules. "Faults" are deletions, damages, deaths and
power failures together.

| Run | Instance | Checks and shows |
|---|---|---|
| `AtomicFileSerial.cfg` | 1 writer, `server.pem` and `server.key`, 2 contents of 2 chunks, 3 inodes | `TypeOK`, `TargetWhole`, `TargetMode`, `PublishedStable`, `ImplementsStore` |
| `AtomicFileDisjoint.cfg` | 2 writers, 2 temporary names, 3 inodes | `IInv` with two calls in flight |
| `IssuanceFaults.cfg` | a CA whose certificate others may supply, one server pair requested twice, 3 faults, also under running requests | `IInv`, `PairMatches`, `OverwritesOnlySupplied`, `KeepsIdentity` |
| `IssuanceRecovery.cfg` | CA, server, client, 2 faults, fair | `AsFound`, `AnswersTruthfully`, `Recovers` |
| `Yggdrasil.cfg` | 2 setups and a publication's read of one file, 4 key pairs, 2 faults, fair | `IInv`, `ProjectionWhole`, `RerunPreserves`, `Recovers` |
| `Publication.cfg` | 2 requests with and without the optional planes, each source replaced once, 1 fault, fair | `IInv`, `PicksUp`, `WholeUnlessMixed`, `Converges` |
| `Chain.cfg` | a CA request, an issuance, a verification, 2 keys, 2 names, half-second ticks, 2 faults, fair | `IInv`, `Chains`, `NoFalseAlarm`, `Rechains` |
| `GpgAgent.cfg` | a signature and a read under different keys, 2 connections, 2 D lines, 2 interruptions each, hang-ups | `TypeOK`, `IInv`, `LockStep`, `AnswersAsked`, `FailsForCause`, `Responsive`, `AnsweredUnlessClosed` |
| `SignatureAnswerLines.cfg` | components of up to 4 bytes and one of 11, keys of 2, heads that end in the start of a tag, lines of 1, 4 and 7 bytes | `IInv`, `AnswerRead` |
| `Actors.cfg` | a Yggdrasil setup, an issuance, a verification and a report, mailboxes of 1 | `TypeOK`, `IInv`, `TraceOrdered`, `Answered` |
| `IssuanceHollow.cfg` | 1 fault, which may leave a hollow private key | violates `AnswersTruthfully` |
| `GpgAgentHangUp.cfg` | a signature, an agent that may hang up | violates `Answered` |

Why the bounds are enough.

* *AtomicFile*: two chunks make a partial file, two targets with different modes
  and one temporary name make the shared-name cases, and three inodes hold a
  target, its committed predecessor and a temporary file.
* *Issuance*: three faults are enough for a death between the two writes, a
  deletion of a half and a power failure in one behaviour; three server key pairs
  (besides the CA's and the client's) allow an old, a new and a mixed identity. The
  recovery run forbids touching the outputs of a running request, because a file
  deleted right after it was checked makes any answer false; the safety run allows
  it.
* *Yggdrasil*: the file may be replaced once between the two runs of the binary and
  once more afterwards; four key pairs are two on disk, one in a call and a fresh
  one.
* *Publication*: one rotation of each source gives every order of two reads
  around it; two requests are all that it takes to write out of order and into one
  another's file, and the one with the longer text leaves the tail of the other when
  a file is not truncated. Torn, mixed and empty publications and failed renames are
  all reached (1.3 million states).
* *Chain*: with two ticks a second and a lifetime of one second the clock reaches
  both ends of a window and passes the end within its four values; the CA outlives
  the clock, because the code does not look at the CA's window.
* *GpgAgent*: two connections are enough to mix two calls, two D lines to have a
  partial reply. The read may be answered by `gpg --export-ssh-key`, too.
* *SignatureAnswer*: the bytes are those that are escaped, that spell an escape
  and that spell a tag, each in every place of a component; lengths have one digit
  and two.
* *Actors*: mailboxes of one message are the hardest for senders that wait; the
  asks include each kind of handler and the only one that asks another actor.

Symmetry and views. The constants that are permuted (inodes, contents, writers,
server key pairs) appear in no constant function, and the runs with symmetry check
safety only. `Visible` of `MCAtomicFile` leaves out the bytes and modes of inodes
that no name and no descriptor refers to; no action or property reads them before
`Creates` resets them. Deadlock is checked except in `GpgAgent`, `SignatureAnswer` and
`Actors`, whose calls are made once each: the system stops when all are answered.

`Serial` (in `AtomicFile`, `Issuance` and `Yggdrasil`) says that the caller sequences
the requests that share an output: "sequencing them belongs to the caller"
(`ARCHITECTURE.md`, line 14). With `Serial = FALSE`, TLC refutes
`TargetWhole`, `KeepsIdentity` and `RerunPreserves` in a few seconds; see Limits.
`Publication` has no such constant: there overlapping requests are part of the model.

Fairness.

* `Issuance`, `Yggdrasil`, `Chain`, `Publication`: a process that runs reaches its next
  step (weak); the caller makes each request again and again (weak), as the
  deployment unit described in `skills.md` does on every activation; an operator who
  sees the same refusal again and again acts on it (strong, because the next
  request clears the answer); the owner of a source that it took away puts a new
  one there (weak). Nothing is assumed of faults, and `MaxFaults` makes them stop.
* `GpgAgent!RuntimeSpec`: the runtime runs the actor and its tasks, and nothing is
  assumed of the agent. `AnsweredUnlessClosed` names what it needs of the agent
  (`AgentServes`) in its own premise: a passphrase prompt that nobody answers keeps
  a task waiting, as there is no timeout in the code. `GpgAgentHangUp.cfg` assumes
  both.
* `Converges` states its premise itself: from some moment on requests for the
  publication run in turn. Without it the code gives no such promise, as two requests
  that keep truncating one another's `publication.tmp` may publish a torn file again
  and again.
* `Actors!FairSpec`: weak for taking a message; strong for what the runtime does with a
  handler or task (`Proceed`), because the room it waits for comes and goes: tokio admits the senders that wait
  for a bounded mailbox in their order, so none is passed over for ever. Nothing is
  assumed of a task's work: gpg-agent and the yggdrasil binary have no timeout, and the
  loop of `read_data_response` may spin. `Answered` names the asks that may then wait
  for ever: the task's own, and those queued at the issuer behind a signature.

## Findings

* **Markers are not a key** (`IssuanceHollow`). The private-key check looks for
  three substrings; a damaged key that keeps them is skipped and reported written.
* **Hang-up in a data response** (`GpgAgentHangUp`). `read_data_response` does not
  notice the end of the stream and spins.

## Limits

What the code leaves to its callers, seen while modelling:

* Concurrent writers of one stem share `<stem>.tmp`; one truncates what the other
  has synced, and the second rename fails. `AtomicFile` implements `AtomicStore` for
  writers that are sequenced (`AtomicFileDisjoint.cfg` checks that writers of different
  temporary names do not disturb one another), and `Issuance` and `Yggdrasil` use the
  store under that premise. `Publication` has the race itself: while
  requests overlap, a reader may find an empty, partial or mixed file, and the
  one that read its sources earlier may publish later. What remains is that nothing in
  it is older than what the last request that ran alone has seen (`PicksUp`), that one
  request that runs alone repairs it (`WholeUnlessMixed`), and that it is whole and
  current in the end if requests come to run in turn (`Converges`).
* Concurrent requests for one pair, and concurrent setups of one path, check before a
  key generation or a signature and not again before they write: what has come since
  is renamed over. `OverwritesOnlySupplied` and `RerunPreserves` state this as their one
  exception, for a certificate that others supply and for a key pair that is restored
  (both overwrites are reached in the runs). Outputs of a server that others supply
  under a running request are left out, as are unsequenced requests: either may leave
  halves of two key pairs.
* One signature that never comes holds the issuer up: asks of it that are queued
  behind, also a verification that needs no agent, are not answered (`Answered`).
* An issuance skips whatever certificate parses, also one of a retired CA or one
  that has expired. Only a verification notices; `Rechains` includes it and the
  operator who deletes what it rejects. Its clock stops at `MaxClock`: "in the end" is
  up to that bound, and says nothing of renewals without end.
* The keygrip and the CA certificate of an issuance are not compared. `Passes`
  assumes that the caller names the key of the CA of the day; the CA may still
  change between that and `Load`.
* The search for the tag of `s` sees the bytes of `r`; an `r` that contains the four
  bytes `(1:s` is misread. `AnswerRead` excludes it and holds of all others.
* A reported write may be taken back by a power failure, since directories are
  not synced.

## Proofs

Every theorem holds for every value of the constants that satisfies the named
assumptions of its module. Those of `AtomicFile`, `Issuance` and `Yggdrasil`, but
`TypeCorrect`, assume `Serial`; `AsFoundHolds` and `AnswersAreTrue` of `Issuance` have
two conditions more, named below; those of the other modules assume nothing more.

* *AtomicFile.* `TargetWhole` is not inductive: what is renamed must have been
  synced, through a descriptor that nothing else could truncate. `IInv` adds that
  calls in flight use different temporary names (`Exclusive`), that an open inode is
  private to its call (`DescriptorPrivate`), that there are no hard links
  (`Injective`), that an inode under a temporary name is no committed target
  (`TmpUncommitted`: else the truncation of a leftover file would destroy
  what a power failure brings back), and how far each call has got (`Progress`).
  `TargetsWhole`, `TargetsMode`, `PublishedIsStable` follow, and `StoreImplemented`
  shows that every system call is a `Put`, `Remove`, `Flush`, `Revert` or a stutter of
  `AtomicStore`. `TmpAssumption` says that no caller writes a target that itself
  ends in `.tmp`; such a target would be its own temporary file.
* *Issuance.* `PairMatches` alone does not survive a write. `IInv` adds that
  running requests write different outputs (`Exclusive`), that what was found absent
  is absent until it is written or supplied (`StillAbsent`), also when files are deleted
  or damaged meanwhile, and that between the two writes the certificate, if it is
  intact, is the one just put there (`HalfWritten`). `PairsMatch`,
  `OverwriteIsOfSupplied` follow, and `IdentityKept` shows that the requests implement
  `HostIdentity`: a server's put finds its paths empty, so it gives an identity to a host that
  had none, and a deletion leaves the same identity or none because the two halves
  are one key pair. `AnswersTruthfully` is false of the program when a damage may be
  hollow, and when somebody deletes the outputs of a request that has just checked
  them. Without the two (`AnswersAreTrue`), what remains to show is that what a check
  has found is still so at the answer: `AsFound` says it of the certificate while the
  private key is checked or about to be written, and the other outputs are decided
  by the step that answers.
* *Yggdrasil.* `RerunPreserves` is about one step and needs `StillAbsent` for the write.
  `ProjectionWhole` needs `StillRead`: between the two runs of the binary the file is
  the one the first run read, unless it was touched; an untouched setup's write
  cannot come in between because it finds its path empty, and the first run found a
  file there. A touched setup's write touches the file under all.
* *Publication.* `PicksUp` has to survive what later requests write into one another's
  files: nothing written is older than the beginning of its request (`CopyRecent`),
  which is no earlier than `floor` (`BegunBetween`, where `RunsAlone` gives that whatever
  still runs when a request ends alone began after it), so nothing in `publication.tmp`
  is older either. `WholeUnlessMixed` needs to know what a request that runs beside no
  other finds there at each of its steps (`WritesAlone`): its own file, empty, half
  written, whole, whatever dead requests and races have left. There is no assumption
  on sequencing.
* *Chain.* `OneAuthority` says of every certificate on disk or in a request that it is
  of the first key and the first name, and not from the future; the last is where
  `Whole` matters: dropping the fraction of a second can only move a window back.
* *GpgAgent.* `AnswersAsked` needs to know whom every line, command and register is
  about: a connection belongs to one task (`Private`), and its sockets and the agent
  behind it know that task's call alone (`IsAbout`), so the data it collects is
  its own and so is what the parsers find in it. `FailsForCause` needs more, that no
  line is missing, extra or early. `LockStep` says it by position: unless the agent
  has failed, the unread lines end in what the task is waiting for (`InStep`,
  `AtPoint`), an inquiry is answered before the agent goes on, and the parts of a
  reply that are collected, unread and unsent are all its parts, once each and in
  order. A task that reads the end of a reply therefore has the whole of it, which
  parses, so that an error has its cause at the agent.
* *Actors.* A report is a prefix of what is told, so `TraceOrdered` is about messages
  that are under way. `IInv` follows each ask by the one message or job it is at that
  moment (`Once`): what it has been through is in the trace or waits at the
  recorder, before what is told later (`MessageTold`, `JobTold`), and a report that
  waits in the recorder's mailbox has all it must tell in front of it (`ReportsTell`).
  A step only appends to what is told, or moves its boundary, so that what was in
  order stays in order.
* *SignatureAnswer.* `IInv` cuts the expression in three: decoded, on the line, unsent.
  `ReadLine` keeps it because decoding inverts escaping for every sequence of bytes
  (`DecodesEscaped`, `StripsEnd`): each turn of the decoder consumes the
  escape of one byte (`Cuts`, `TurnDecodes`), and no escape contains the bytes that
  stripping removes. At the end the data is the expression, and the search
  finds the first field of its tag (`Extracts`), as neither a head nor the field of
  `r` spells the tag of another one, also not across their ends (`NoneBefore`,
  `FieldPlaces`). Induction over the bytes is done on sets: a set of numbers that is
  not empty has a least element (`Least`, from `NatLessThanWellFounded`), so a set of
  counterexamples is empty; `Iteration` gives the existence of the recursive functions.

What stays with TLC: liveness (`Recovers`, `Converges`, `Rechains`, `Answered`,
`Responsive`, `AnsweredUnlessClosed`), which TLAPS does not reach. Every
safety property of a passing run is a theorem.
That `Issuance` and `Yggdrasil` use `AtomicStore` in place of `AtomicFile` is justified
by `StoreImplemented`; the composition is not a theorem of its own.

## Not modelled

* Binary damage (not UTF-8): the checks return an I/O error without advice instead
  of a refusal. `path.exists()` answers "absent" also for errors such as a
  directory that may not be searched.
* "Restore the missing one from backup", the other advice of a refusal; and
  `mv` instead of `rm`. `Yggdrasil` has the restoration, at any moment.
* A hollow CA certificate, which fails only in the issuer, fails in `Load`.
* The other way out of a refusal in `skills.md` ("`rm` the offending file"), which
  for a server pair leads to the half-existence refusal and from there to the advice
  modelled here.
* Serial numbers, extensions and the DER of certificates; the validity of the CA's
  own certificate, which the code does not check.
* The yggdrasil binary, which is external: a file without a private key is one it
  refuses.
* `RuntimeRootSupervisor`, which no request spawns. The limit of tokio's blocking
  threads (512), far above what an invocation uses.
* Decoding and printing of Datoms, error texts, OpenSSH key text, the generated
  types, the Nix build and the scripts.

## Plan

`Issuance` and `Yggdrasil` over `AtomicFile` directly: a theorem that the store they
use, implemented by system calls, keeps their invariants.
