------------------------------ MODULE ChainProofs ------------------------------
(***************************************************************************)
(* What Chain keeps for any number of requests, any lifetimes, any clock   *)
(* and any number of faults: while one key and one name are used and the   *)
(* clock only advances, what stands on disk chains.                        *)
(***************************************************************************)
EXTENDS Chain, TLAPS

\* The kinds of values and of requests are told apart.
LEMMA Facts ==
  /\ None \notin Roots /\ None \notin Leaves /\ None \notin Grips /\ None \notin Names
  /\ Authorities \subseteq Requests /\ Issuances \subseteq Requests
  /\ Verifications \subseteq Requests
  /\ \A r \in Authorities : r \notin Issuances /\ r \in Issuing
  /\ \A r \in Verifications : r \notin Issuing /\ r \notin Authorities /\ r \notin Issuances
  /\ \A r \in Issuances : r \in Issuing
  /\ \A r \in Requests : r \in Issuing \/ r \in Verifications
  /\ \A r \in Issuing : r \in Authorities \/ r \in Issuances
BY NoneAssumption, RequestsAssumption DEF Certificates, Requests, Issuing

\* Whole seconds are times, and no later ones.
LEMMA WholeTyped == \A t \in Nat : Whole(t) \in Nat /\ Whole(t) <= t
<1> SUFFICES ASSUME NEW t \in Nat PROVE Whole(t) \in Nat /\ Whole(t) <= t
  OBVIOUS
<1>1. Second \in Nat /\ Second > 0
  BY TimeAssumption
<1>2. t % Second \in 0..(Second - 1)
  BY <1>1
<1>3. t % Second <= t
  BY <1>1
<1>4. QED
  BY <1>2, <1>3 DEF Whole

\* What is built is a certificate of its kind, not from the future.
LEMMA SelfSignedTyped ==
  ASSUME clock \in Nat, NEW g \in Grips, NEW n \in Names
  PROVE  /\ SelfSigned(g, n) \in Roots
         /\ SelfSigned(g, n).key = g /\ SelfSigned(g, n).subject = n
         /\ SelfSigned(g, n).signer = g /\ SelfSigned(g, n).issuer = n
         /\ SelfSigned(g, n).from <= clock
<1>1. Whole(clock) \in Nat /\ Whole(clock + AuthorityLife) \in Nat /\ Whole(clock) <= clock
  BY WholeTyped, TimeAssumption
<1>2. QED
  BY <1>1 DEF SelfSigned, Roots

\* The same of a certificate issued under a CA.
LEMMA IssuedTyped ==
  ASSUME clock \in Nat, NEW g \in Grips, NEW a \in Roots
  PROVE  /\ Issued(g, a) \in Leaves
         /\ Issued(g, a).signer = g /\ Issued(g, a).issuer = a.subject
         /\ Issued(g, a).from <= clock
<1>1. Whole(clock) \in Nat /\ Whole(clock + LeafLife) \in Nat /\ Whole(clock) <= clock
  BY WholeTyped, TimeAssumption
<1>2. a.subject \in Names
  BY DEF Roots
<1>3. QED
  BY <1>1, <1>2 DEF Issued, Leaves

-----------------------------------------------------------------------------
(* Types.                                                                  *)

\* The initial state is well typed.
LEMMA TypeInit == Init => TypeOK
<1> SUFFICES ASSUME Init PROVE TypeOK
  OBVIOUS
<1>1. clock \in Clocks /\ faults \in 0..MaxFaults
  BY TimeAssumption DEF Init, Clocks
<1>2. rotated \in BOOLEAN
  BY DEF Init
<1>3. \A r \in Requests : pc[r] = "idle" /\ made[r] = None
  BY DEF Init
<1>4. QED
  BY <1>1, <1>2, <1>3 DEF Init, TypeOK

\* Every step of a request keeps the types.
LEMMA TypeRequest ==
  ASSUME TypeOK, NEW r \in Requests, Start(r) \/ Step(r) \/ Fail(r)
  PROVE  TypeOK'
<1> USE Facts
<1>1. CASE Start(r)
  <2>1. CASE r \in Issuing
    <3>1. PICK g \in Grips : grip' = [grip EXCEPT ![r] = g]
      BY <1>1, <2>1 DEF Start
    <3>2. CASE r \in Authorities
      <4>1. PICK n \in Names : name' = [name EXCEPT ![r] = n]
        BY <1>1, <3>2 DEF Start
      <4>2. QED
        BY <1>1, <2>1, <3>1, <3>2, <4>1 DEF Start, TypeOK
    <3>3. CASE r \notin Authorities
      BY <1>1, <2>1, <3>1, <3>3 DEF Start, TypeOK
    <3>4. QED
      BY <3>2, <3>3
  <2>2. CASE r \notin Issuing
    BY <1>1, <2>2 DEF Start, TypeOK
  <2>3. QED
    BY <2>1, <2>2
<1>2. CASE Check(r)
  BY <1>2 DEF Check, Ends, Goto, TypeOK
<1>3. CASE Load(r)
  BY <1>3 DEF Load, Ends, Goto, TypeOK
<1>4. CASE Build(r)
  <2>1. clock \in Nat /\ grip[r] \in Grips
    BY <1>4 DEF Build, TypeOK, Clocks
  <2>2. ASSUME r \in Authorities
        PROVE  SelfSigned(grip[r], name[r]) \in Roots
    BY <1>4, <2>1, <2>2, SelfSignedTyped DEF Build, TypeOK
  <2>3. ASSUME r \notin Authorities
        PROVE  Issued(grip[r], loaded[r]) \in Leaves
    BY <1>4, <2>1, <2>3, IssuedTyped DEF Build, TypeOK
  <2>4. \E c \in Certificates : /\ made' = [made EXCEPT ![r] = c]
                                /\ c \in IF r \in Authorities THEN Roots ELSE Leaves
    BY <1>4, <2>2, <2>3 DEF Build, Certificates
  <2>5. QED
    BY <1>4, <2>4 DEF Build, Goto, TypeOK, Certificates
<1>5. CASE Put(r)
  BY <1>5 DEF Put, Ends, TypeOK
<1>6. CASE ReadCertificate(r)
  BY <1>6 DEF ReadCertificate, Ends, Goto, TypeOK, Certificates
<1>7. CASE Verify(r)
  <2>1. Verdict(loaded[r], made[r], clock) \in Verdicts
    BY DEF Verdict, Verdicts
  <2>2. QED
    BY <1>7, <2>1 DEF Verify, Ends, TypeOK
<1>8. CASE Fail(r)
  <2>1. faults' \in 0..MaxFaults
    BY <1>8, TimeAssumption DEF Fail, Fault, TypeOK
  <2>2. QED
    BY <1>8, <2>1 DEF Fail, Ends, TypeOK
<1>9. QED
  BY <1>1, <1>2, <1>3, <1>4, <1>5, <1>6, <1>7, <1>8 DEF Step

\* Every step keeps the types.
LEMMA TypeStep ==
  ASSUME TypeOK, [Next]_vars
  PROVE  TypeOK'
<1> USE Facts
<1>1. ASSUME NEW r \in Requests, Start(r) \/ Step(r) \/ Fail(r)
      PROVE  TypeOK'
  BY <1>1, TypeRequest
<1>2. ASSUME NEW r \in Requests, Reissue(r)
      PROVE  TypeOK'
  BY <1>2 DEF Reissue, TypeOK
<1>3. CASE Tick
  <2>1. clock' \in Clocks
    BY <1>3, TimeAssumption DEF Tick, TypeOK, Clocks
  <2>2. QED
    BY <1>3, <2>1 DEF Tick, TypeOK, request
<1>4. ASSUME Fault
      PROVE  faults' \in 0..MaxFaults
  BY <1>4, TimeAssumption DEF Fault, TypeOK
<1>5. ASSUME NEW t \in Clocks, SetBack(t)
      PROVE  TypeOK'
  BY <1>4, <1>5 DEF SetBack, TypeOK, request
<1>6. CASE Retire
  BY <1>4, <1>6 DEF Retire, TypeOK, request
<1>7. CASE UNCHANGED vars
  BY <1>7 DEF vars, request, TypeOK
<1>8. QED
  BY <1>1, <1>2, <1>3, <1>5, <1>6, <1>7 DEF Next

\* TypeOK, of every run.
THEOREM TypeCorrect == Spec => []TypeOK
BY TypeInit, TypeStep, PTL DEF Spec

-----------------------------------------------------------------------------
(* One authority.                                                          *)

\* Every step of a request keeps to the first key and name, or rotates.
LEMMA OneAuthorityRequest ==
  ASSUME TypeOK, OneAuthority, NEW r \in Requests, Start(r) \/ Step(r) \/ Fail(r), ~rotated'
  PROVE  OneAuthority'
<1> USE Facts DEF OneAuthority, TypeOK, Root, Sound
<1>1. CASE Start(r)
  BY <1>1 DEF Start
<1>2. CASE Check(r)
  BY <1>2 DEF Check, Ends, Goto
<1>3. CASE Load(r)
  BY <1>3 DEF Load, Ends, Goto
<1>4. CASE Build(r)
  <2>1. clock \in Nat /\ grip[r] = FirstGrip /\ FirstGrip \in Grips
    BY <1>4, FirstAssumption DEF Build, Clocks
  <2>2. ASSUME r \in Authorities
        PROVE  Root(SelfSigned(grip[r], name[r])) /\ Sound(SelfSigned(grip[r], name[r]))
    BY <1>4, <2>1, <2>2, FirstAssumption, SelfSignedTyped DEF Build
  <2>3. ASSUME r \notin Authorities
        PROVE  Sound(Issued(grip[r], loaded[r]))
    BY <1>4, <2>1, <2>3, IssuedTyped DEF Build
  <2>4. \A q \in Requests \ {r} : made'[q] = made[q]
    BY <1>4 DEF Build
  <2>5. Sound(made'[r]) /\ (r \in Authorities => Root(made'[r]))
    BY <1>4, <2>2, <2>3 DEF Build
  <2>6. QED
    BY <1>4, <2>4, <2>5 DEF Build, Goto
<1>5. CASE Put(r)
  BY <1>5 DEF Put, Ends
<1>6. CASE ReadCertificate(r)
  BY <1>6 DEF ReadCertificate, Ends, Goto
<1>7. CASE Verify(r)
  BY <1>7 DEF Verify, Ends
<1>8. CASE Fail(r)
  BY <1>8 DEF Fail, Ends
<1>9. QED
  BY <1>1, <1>2, <1>3, <1>4, <1>5, <1>6, <1>7, <1>8 DEF Step

\* No certificate comes from the future as the clock advances.
LEMMA OneAuthorityStep ==
  ASSUME TypeOK, OneAuthority, [Next]_vars, ~rotated'
  PROVE  OneAuthority'
<1>1. ASSUME NEW r \in Requests, Start(r) \/ Step(r) \/ Fail(r)
      PROVE  OneAuthority'
  BY <1>1, OneAuthorityRequest
<1>2. ASSUME NEW r \in Requests, Reissue(r)
      PROVE  OneAuthority'
  BY <1>2 DEF Reissue, OneAuthority, Root, Sound
<1>3. CASE Tick
  <2>1. ASSUME NEW c \in Certificates \union {None}, Sound(c)
        PROVE  Sound(c)'
    <3>1. CASE c = None
      BY <3>1 DEF Sound
    <3>2. CASE c # None
      <4>1. c.from \in Nat /\ clock \in Nat
        BY <3>2 DEF TypeOK, Clocks, Certificates, Roots, Leaves
      <4>2. QED
        BY <1>3, <2>1, <3>2, <4>1 DEF Sound, Tick
    <3>3. QED
      BY <3>1, <3>2
  <2>2. QED
    BY <1>3, <2>1 DEF Tick, request, OneAuthority, Root, TypeOK, Certificates
<1>4. ASSUME NEW t \in Clocks, SetBack(t)
      PROVE  FALSE
  BY <1>4 DEF SetBack
<1>5. CASE Retire
  BY <1>5 DEF Retire, request, OneAuthority, Root, Sound
<1>6. CASE UNCHANGED vars
  BY <1>6 DEF vars, request, OneAuthority, Root, Sound
<1>7. QED
  BY <1>1, <1>2, <1>3, <1>4, <1>5, <1>6 DEF Next

\* Nothing undoes a rotation.
LEMMA RotatedStays ==
  ASSUME [Next]_vars, rotated
  PROVE  rotated'
BY DEF Next, Start, Step, Check, Load, Build, Put, ReadCertificate, Verify, Fail, Reissue,
       Tick, SetBack, Retire, vars

\* There is no certificate.
LEMMA InvInit == Init => IInv
BY TypeInit DEF Init, IInv, OneAuthority, Root, Sound

\* Every step keeps the invariant.
LEMMA InvStep ==
  ASSUME IInv, [Next]_vars
  PROVE  IInv'
<1>1. TypeOK'
  BY TypeStep DEF IInv
<1>2. ASSUME ~rotated'
      PROVE  OneAuthority'
  BY <1>2, RotatedStays, OneAuthorityStep DEF IInv
<1>3. QED
  BY <1>1, <1>2 DEF IInv

\* The invariant, of every run.
THEOREM InvariantHolds == Spec => []IInv
BY InvInit, InvStep, PTL DEF Spec

\* Whatever CA certificate and certificate stand on disk, and whoever is half
\* way through issuing another, the one chains to the other until it expires.
THEOREM ChainsHold == Spec => []Chains
<1>1. IInv => Chains
  <2> SUFFICES ASSUME IInv, ~rotated, ca # None, leaf # None, clock <= leaf.to
               PROVE  Trusted(ca, leaf, clock)
    BY DEF Chains
  <2>1. TypeOK /\ OneAuthority
    BY DEF IInv
  <2>2. ca.key = FirstGrip /\ ca.subject = FirstName
    BY <2>1 DEF OneAuthority, Root
  <2>3. leaf.signer = FirstGrip /\ leaf.issuer = FirstName /\ leaf.from <= clock
    BY <2>1 DEF OneAuthority, Sound
  <2>4. leaf.from \in Nat /\ leaf.to \in Nat /\ clock \in Nat
    BY <2>1 DEF TypeOK, Leaves, Clocks
  <2>5. QED
    BY <2>2, <2>3, <2>4 DEF Trusted
<1>2. QED
  BY <1>1, InvariantHolds, PTL

\* What is sound chains to what is a root: only an expiry is rejected.
LEMMA OnlyExpiry ==
  ASSUME NEW a \in Roots, NEW c \in Leaves, Root(a), Sound(c), clock \in Nat,
         Verdict(a, c, clock) # "verified"
  PROVE  clock > c.to
<1>1. a # None /\ c # None
  BY Facts
<1>2. NamesIssuer(a, c) /\ SignedUnder(a, c) /\ c.from <= clock
  BY <1>1 DEF Root, Sound, NamesIssuer, SignedUnder
<1>3. ~(clock <= c.to)
  BY <1>2 DEF Verdict, Includes
<1>4. c.to \in Nat
  BY DEF Leaves
<1>5. QED
  BY <1>3, <1>4

\* A verification raises no false alarm, whatever is issued again between its
\* two reads.
THEOREM NoFalseAlarms == Spec => NoFalseAlarm
<1>1. ASSUME IInv, [Next]_vars, NEW r \in Verifications, ~rotated,
             answer'[r] \in Verdicts \ {"verified"}, answer[r] # answer'[r]
      PROVE  clock > made[r].to
  <2>1. TypeOK /\ OneAuthority /\ r \in Requests
    BY <1>1, Facts DEF IInv
  <2>2. CASE Verify(r)
    <3>1. loaded[r] \in Roots /\ made[r] \in Leaves /\ clock \in Nat
      BY <2>1, <2>2, Facts DEF Verify, TypeOK, Clocks
    <3>2. answer'[r] = Verdict(loaded[r], made[r], clock)
      BY <2>1, <2>2 DEF Verify, Ends, TypeOK
    <3>3. Root(loaded[r]) /\ Sound(made[r])
      BY <2>1 DEF OneAuthority
    <3>4. QED
      BY <1>1, <3>1, <3>2, <3>3, OnlyExpiry
  <2>3. CASE ~Verify(r)
    <3>1. ASSUME NEW q \in Requests \ {r}, Start(q) \/ Step(q) \/ Fail(q) \/ Reissue(q)
          PROVE  answer'[r] = answer[r]
      BY <2>1, <3>1 DEF Start, Step, Check, Load, Build, Put, ReadCertificate, Verify, Fail,
                        Reissue, Ends, Goto, TypeOK
    <3>2. ASSUME Start(r) \/ Step(r) \/ Fail(r) \/ Reissue(r)
          PROVE  answer'[r] \in {"none", "written", "failed", answer[r]}
      BY <2>1, <2>3, <3>2 DEF Start, Step, Check, Load, Build, Put, ReadCertificate, Fail,
                              Reissue, Ends, Goto, TypeOK
    <3>3. answer'[r] \in {"none", "written", "failed", answer[r]}
      BY <1>1, <2>1, <3>1, <3>2 DEF Next, Tick, SetBack, Retire, vars, request
    <3>4. QED
      BY <1>1, <3>3 DEF Verdicts
  <2>4. QED
    BY <2>2, <2>3
<1>2. IInv /\ [Next]_vars =>
        [\A r \in Verifications :
           ~rotated /\ answer'[r] \in Verdicts \ {"verified"} /\ answer[r] # answer'[r]
             => clock > made[r].to]_vars
  BY <1>1
<1>3. QED
  BY <1>2, InvariantHolds, PTL DEF Spec, NoFalseAlarm
=============================================================================
