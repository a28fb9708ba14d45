-------------------------------- MODULE Chain --------------------------------
(***************************************************************************)
(* Certificates and what makes them chain: the issuing of src/x509.rs, the *)
(* CertificateChainVerification request, and the two files they meet in, a *)
(* CA certificate and a certificate issued under it, while the operator    *)
(* rotates the CA, the clock moves and other requests run.                 *)
(*                                                                         *)
(* A certificate is a record: the names, the key it binds, the key that    *)
(* signed it (a signature verifies under that key alone) and its validity  *)
(* window.  The clock counts ticks, of which a second has several: a       *)
(* certificate keeps whole seconds, the verifier's clock does not.         *)
(***************************************************************************)
EXTENDS Naturals

CONSTANTS
  Authorities,    \* CertificateAuthorityIssuance requests
  Issuances,      \* server and client issuances, all of one output
  Verifications,  \* CertificateChainVerification requests
  Grips,          \* the agent's keys, which keygrips name
  Names,          \* common names a CA may be given
  FirstGrip,      \* the keygrip and the common name the cluster starts with
  FirstName,
  HostKey,        \* the key the issued certificate binds
  HostName,       \* its common name
  None,           \* no file, no certificate
  Second,         \* ticks of a second
  AuthorityLife,  \* CertificateLifetime::years(10), in ticks
  LeafLife,       \* CertificateLifetime::years(2), in ticks
  MaxClock,       \* bound: the last tick
  MaxFaults       \* bound: deletions, failures, clock corrections

Requests == Authorities \union Issuances \union Verifications
Issuing == Authorities \union Issuances
Clocks == 0..MaxClock

ASSUME RequestsAssumption ==
  /\ Authorities \intersect Issuances = {}
  /\ Verifications \intersect Issuing = {}
ASSUME TimeAssumption ==
  /\ Second \in Nat \ {0}
  /\ AuthorityLife \in Nat /\ LeafLife \in Nat
  /\ MaxClock \in Nat /\ MaxFaults \in Nat
ASSUME FirstAssumption == FirstGrip \in Grips /\ FirstName \in Names

\* CA certificates, and certificates of the host issued under one.
Roots == [subject : Names, issuer : Names, key : Grips, signer : Grips, from : Nat, to : Nat]
Leaves ==
  [subject : {HostName}, issuer : Names, key : {HostKey}, signer : Grips, from : Nat, to : Nat]
Certificates == Roots \union Leaves

ASSUME NoneAssumption == None \notin Certificates \union Grips \union Names

Verdicts == {"issuer", "window", "signature", "verified"}

VARIABLES
  ca,      \* the CA certificate file
  leaf,    \* the certificate issued under it
  clock,   \* the host's clock
  pc,      \* pc[r]: the next step of request r, "idle" when it is not running
  grip,    \* grip[r]: the keygrip of an issuing request, None outside one
  name,    \* name[r]: the common name of a CA request, None outside one
  loaded,  \* loaded[r]: the CA certificate it has read
  made,    \* made[r]: the certificate it has issued, or read in order to verify it
  answer,  \* answer[r]: how it last ended: "none", "written", "failed" or a verdict
  rotated, \* history: another key or name was used, or the clock was set back
  faults   \* how many faults there have been

request == <<pc, grip, name, loaded, made, answer>>
vars == <<ca, leaf, clock, request, rotated, faults>>

Running(r) == pc[r] # "idle"

TypeOK ==
  /\ ca \in Roots \union {None}
  /\ leaf \in Leaves \union {None}
  /\ clock \in Clocks
  /\ pc \in [Requests -> {"idle", "check", "load", "build", "put", "read", "verify"}]
  /\ grip \in [Requests -> Grips \union {None}]
  /\ name \in [Requests -> Names \union {None}]
  /\ loaded \in [Requests -> Roots \union {None}]
  /\ made \in [Requests -> Certificates \union {None}]
  /\ answer \in [Requests -> {"none", "written", "failed"} \union Verdicts]
  /\ rotated \in BOOLEAN
  /\ faults \in 0..MaxFaults
  /\ \A r \in Requests :
       /\ made[r] # None => made[r] \in (IF r \in Authorities THEN Roots ELSE Leaves)
       /\ pc[r] \in {"check", "build", "put"} => r \in Issuing /\ grip[r] # None
       /\ pc[r] \in {"check", "build"} /\ r \in Authorities => name[r] # None
       /\ pc[r] = "load" => r \in Issuances \union Verifications
       /\ pc[r] = "load" /\ r \in Issuances => grip[r] # None
       /\ pc[r] = "build" /\ r \in Issuances => loaded[r] # None
       /\ pc[r] = "put" => made[r] # None
       /\ pc[r] \in {"read", "verify"} => r \in Verifications /\ loaded[r] # None
       /\ pc[r] = "verify" => made[r] # None

Init ==
  /\ ca = None
  /\ leaf = None
  /\ clock = 0
  /\ pc = [r \in Requests |-> "idle"]
  /\ grip = [r \in Requests |-> None]
  /\ name = grip
  /\ loaded = grip
  /\ made = grip
  /\ answer = [r \in Requests |-> "none"]
  /\ rotated = FALSE
  /\ faults = 0

-----------------------------------------------------------------------------
(* Certificates.                                                           *)

\* Mutant: Time rounds a started second up.
WholeUp(t) == t + ((Second - (t % Second)) % Second)

\* Time::try_from drops the fraction of a second.
Whole(t) == t - (t % Second)

\* A CA certificate for the agent's key g: the subject is its own issuer.
SelfSigned(g, n) ==
  [subject |-> n, issuer |-> n, key |-> g, signer |-> g,
   from |-> Whole(clock), to |-> Whole(clock + AuthorityLife)]

\* A certificate under CA certificate a, which gives its subject's name and
\* nothing else: the key that signs is the one the keygrip g names.
Issued(g, a) ==
  [subject |-> HostName, issuer |-> a.subject, key |-> HostKey, signer |-> g,
   from |-> Whole(clock), to |-> Whole(clock + LeafLife)]

\* The name of a's subject is the one c gives its issuer.
NamesIssuer(a, c) == c.issuer = a.subject

\* assert_includes: both ends of the window are in it.
Includes(c, now) == c.from <= now /\ now <= c.to

\* CertificateSignature: c's signature verifies under the key a binds.
SignedUnder(a, c) == c.signer = a.key

\* Mutant: the signature is not checked.
VerdictUnsigned(a, c, now) ==
  IF ~NamesIssuer(a, c) THEN "issuer" ELSE IF ~Includes(c, now) THEN "window" ELSE "verified"

\* Mutant: the window is taken without its ends.
VerdictOpen(a, c, now) ==
  IF ~NamesIssuer(a, c) THEN "issuer"
  ELSE IF now <= c.from \/ now >= c.to THEN "window"
  ELSE IF ~SignedUnder(a, c) THEN "signature"
  ELSE "verified"

\* verify_with_clock: the first check that fails names the verdict.
Verdict(a, c, now) ==
  IF ~NamesIssuer(a, c) THEN "issuer"
  ELSE IF ~Includes(c, now) THEN "window"
  ELSE IF ~SignedUnder(a, c) THEN "signature"
  ELSE "verified"

-----------------------------------------------------------------------------
(* The requests.                                                           *)

Ends(r, how) ==
  /\ pc' = [pc EXCEPT ![r] = "idle"]
  /\ grip' = [grip EXCEPT ![r] = None]
  /\ name' = [name EXCEPT ![r] = None]
  /\ loaded' = [loaded EXCEPT ![r] = None]
  /\ made' = [made EXCEPT ![r] = None]
  /\ answer' = [answer EXCEPT ![r] = how]

\* A caller passes an issuance the keygrip of the CA of now.
Passes(r, g) == r \in Issuances /\ ca # None => g = ca.key

Start(r) ==
  /\ ~Running(r)
  /\ IF r \in Issuing
     THEN /\ \E g \in Grips : Passes(r, g) /\ grip' = [grip EXCEPT ![r] = g]
          /\ pc' = [pc EXCEPT ![r] = "check"]
     ELSE pc' = [pc EXCEPT ![r] = "load"] /\ UNCHANGED grip
  /\ IF r \in Authorities
     THEN \E n \in Names : name' = [name EXCEPT ![r] = n]
     ELSE UNCHANGED name
  /\ answer' = [answer EXCEPT ![r] = "none"]
  /\ rotated' = (\/ rotated
                 \/ grip'[r] \notin {FirstGrip, None}
                 \/ name'[r] \notin {FirstName, None})
  /\ UNCHANGED <<ca, leaf, clock, loaded, made, faults>>

Goto(r, step) == pc' = [pc EXCEPT ![r] = step] /\ UNCHANGED <<grip, name, answer>>

\* What a request's check does with its certificate: one that parses is skipped,
\* and neither its issuer nor its window is looked at.  Issuance has the rest of
\* the checks, a server's private key and the refusals.
Check(r) ==
  /\ pc[r] = "check"
  /\ IF (IF r \in Authorities THEN ca ELSE leaf) # None
     THEN Ends(r, "written")
     ELSE Goto(r, IF r \in Authorities THEN "build" ELSE "load") /\ UNCHANGED <<loaded, made>>
  /\ UNCHANGED <<ca, leaf, clock, rotated, faults>>

\* read_certificate of the CA, by an issuance or a verification.
Load(r) ==
  /\ pc[r] = "load"
  /\ IF ca = None
     THEN Ends(r, "failed")
     ELSE /\ loaded' = [loaded EXCEPT ![r] = ca]
          /\ Goto(r, IF r \in Issuances THEN "build" ELSE "read")
          /\ UNCHANGED made
  /\ UNCHANGED <<ca, leaf, clock, rotated, faults>>

\* The certificate is built with the clock of now; the agent signs it later,
\* which changes nothing but the time.
Build(r) ==
  /\ pc[r] = "build"
  /\ made' = [made EXCEPT ![r] =
       IF r \in Authorities THEN SelfSigned(grip[r], name[r]) ELSE Issued(grip[r], loaded[r])]
  /\ Goto(r, "put")
  /\ UNCHANGED <<ca, leaf, clock, loaded, rotated, faults>>

Put(r) ==
  /\ pc[r] = "put"
  /\ IF r \in Authorities
     THEN ca' = made[r] /\ UNCHANGED leaf
     ELSE leaf' = made[r] /\ UNCHANGED ca
  /\ Ends(r, "written")
  /\ UNCHANGED <<clock, rotated, faults>>

\* The verification reads the certificate, after the CA.
ReadCertificate(r) ==
  /\ pc[r] = "read"
  /\ IF leaf = None
     THEN Ends(r, "failed")
     ELSE /\ made' = [made EXCEPT ![r] = leaf]
          /\ Goto(r, "verify")
          /\ UNCHANGED loaded
  /\ UNCHANGED <<ca, leaf, clock, rotated, faults>>

\* The CertificateIssuer actor verifies what it was sent.
Verify(r) ==
  /\ pc[r] = "verify"
  /\ Ends(r, Verdict(loaded[r], made[r], clock))
  /\ UNCHANGED <<ca, leaf, clock, rotated, faults>>

Step(r) ==
  \/ Check(r)
  \/ Load(r)
  \/ Build(r)
  \/ Put(r)
  \/ ReadCertificate(r)
  \/ Verify(r)

-----------------------------------------------------------------------------
(* The clock, the operator and failures.                                   *)

Tick ==
  /\ clock < MaxClock
  /\ clock' = clock + 1
  /\ UNCHANGED <<ca, leaf, request, rotated, faults>>

Fault == faults < MaxFaults /\ faults' = faults + 1

\* The clock is corrected backwards.
SetBack(t) ==
  /\ t < clock
  /\ clock' = t
  /\ rotated' = TRUE
  /\ Fault
  /\ UNCHANGED <<ca, leaf, request>>

\* The operator retires the CA, or deletes the certificate, to force a new one.
Retire ==
  /\ \/ ca # None /\ ca' = None /\ UNCHANGED leaf
     \/ leaf # None /\ leaf' = None /\ UNCHANGED ca
  /\ Fault
  /\ UNCHANGED <<clock, request, rotated>>

Fail(r) ==
  /\ Running(r)
  /\ Ends(r, "failed")
  /\ Fault
  /\ UNCHANGED <<ca, leaf, clock, rotated>>

\* The operator deletes the certificate that a verification has rejected.
Reissue(r) ==
  /\ answer[r] \in Verdicts \ {"verified"}
  /\ leaf' = None
  /\ answer' = [answer EXCEPT ![r] = "none"]
  /\ UNCHANGED <<ca, clock, pc, grip, name, loaded, made, rotated, faults>>

Next ==
  \/ \E r \in Requests : Start(r) \/ Step(r) \/ Fail(r) \/ Reissue(r)
  \/ Tick
  \/ \E t \in Clocks : SetBack(t)
  \/ Retire

Spec == Init /\ [][Next]_vars

\* A process that runs gets to its next step, the caller repeats its requests,
\* and an operator who sees a certificate rejected again and again deletes it.
FairSpec ==
  /\ Spec
  /\ \A r \in Requests : WF_vars(Start(r)) /\ WF_vars(Step(r)) /\ SF_vars(Reissue(r))

-----------------------------------------------------------------------------
(* Properties.                                                             *)

\* What a relying party may believe of certificate c under CA certificate a.
Trusted(a, c, now) ==
  /\ c.signer = a.key
  /\ c.issuer = a.subject
  /\ now \in c.from..c.to

\* While every request has used one key and one CA name and the clock has only
\* advanced: whatever CA certificate stands at the path, also one issued again
\* after the certificate was, and whichever request is half way through, the
\* certificate is trusted under it from the tick it is written until it expires.
Chains ==
  ~rotated /\ ca # None /\ leaf # None /\ clock <= leaf.to => Trusted(ca, leaf, clock)

\* In those circumstances a verification rejects only what has expired, also
\* when CA or certificate is issued again between its two reads.
NoFalseAlarm ==
  [][\A r \in Verifications :
       ~rotated /\ answer'[r] \in Verdicts \ {"verified"} /\ answer[r] # answer'[r]
         => clock > made[r].to]_vars

\* Once the CA rests and the clock is no longer corrected, verifying and
\* re-issuing what is rejected end in a certificate that is trusted under the
\* CA of the day, whatever a rotation half way through an issuance or an
\* expiry has left behind.  The clock stops at MaxClock: the certificate meant is
\* the one that is valid then, not one after another without end.
Rechains == <>[](ca # None /\ leaf # None /\ Trusted(ca, leaf, clock))

-----------------------------------------------------------------------------
(* Why Chains holds while nothing has been rotated.                        *)

\* Certificate c binds the first key to the first name.
Root(c) == c # None => c.key = FirstGrip /\ c.subject = FirstName

\* Certificate c is signed with the first key under the first name, and is not
\* from the future.
Sound(c) == c # None => c.signer = FirstGrip /\ c.issuer = FirstName /\ c.from <= clock

OneAuthority ==
  /\ Root(ca) /\ Sound(leaf)
  /\ \A r \in Requests :
       /\ grip[r] \in {FirstGrip, None} /\ name[r] \in {FirstName, None}
       /\ Root(loaded[r]) /\ Sound(made[r])
       /\ r \in Authorities => Root(made[r])

IInv == TypeOK /\ (~rotated => OneAuthority)
=============================================================================
