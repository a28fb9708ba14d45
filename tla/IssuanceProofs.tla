---------------------------- MODULE IssuanceProofs ----------------------------
(***************************************************************************)
(* What Issuance keeps for any number of requests, paths and key pairs and *)
(* any number of faults.  Types need no assumption; everything else needs  *)
(* Serial, that the caller sequences the requests that share an output;    *)
(* what a request answers needs two conditions more, stated with it.       *)
(***************************************************************************)
EXTENDS Issuance, TLAPS

\* What the outputs of a request are.
LEMMA OutputsFacts ==
  ASSUME NEW r \in Requests
  PROVE  /\ CertificatePath[r] \in Paths /\ CertificatePath[r] \in Outputs(r)
         /\ IsServer(r) => /\ KeyPath[r] \in Paths /\ KeyPath[r] \in Outputs(r)
                           /\ KeyPath[r] # CertificatePath[r]
         /\ \A p \in Outputs(r) :
              p \in Paths /\ (p = CertificatePath[r] \/ (IsServer(r) /\ p = KeyPath[r]))
<1>1. /\ CertificatePath[r] \in Paths /\ KeyPath[r] \in Paths \union {None}
      /\ None \notin Paths /\ CertificatePath[r] # KeyPath[r]
  BY PathsAssumption
<1>2. \A p : p \in Outputs(r) <=> (p = CertificatePath[r] \/ p = KeyPath[r]) /\ p # None
  BY DEF Outputs
<1>3. QED
  BY <1>1, <1>2 DEF IsServer

\* The kinds of contents are told apart.
LEMMA FilesFacts ==
  /\ ~Intact(None) /\ ~Intact(Damaged) /\ ~Intact(Hollow)
  /\ \A r \in Requests : Subject[r] \in Keys
  /\ \A p \in Paths : \A how \in Damages[p] : how \in Files /\ ~Intact(how) /\ how # None
BY FilesAssumption DEF Intact, Files

\* A check that tells "absent" has found no file.
LEMMA SeenFacts ==
  ASSUME NEW f
  PROVE  /\ Seen(f) \in {"absent", "valid", "unparseable"}
         /\ Seen(f) = "absent" <=> f = None
BY DEF Seen

\* Going on leaves the locals typed.
LEMMA GotoType ==
  ASSUME TypeOK, NEW r \in Requests, Running(r),
         NEW s \in {"load", "sign", "putKey"},
         Goto(r, s), (s = "putKey") => IsServer(r),
         (s = "putKey") <=> (made[r] # None)
  PROVE  /\ pc' \in [Requests -> {"idle", "certificate", "key", "load", "sign",
                                  "putCertificate", "putKey"}]
         /\ seen' \in [Requests -> {"none", "absent", "valid", "unparseable"}]
         /\ made' \in [Requests -> Keys \union {None}]
         /\ answer' \in [Requests -> {"none", "written", "refused", "failed"}]
         /\ supplied' \subseteq {q \in Requests : Running(q)' /\ ~IsServer(q)}
         /\ \A q \in Requests :
              /\ pc'[q] \in {"key", "putKey"} => IsServer(q)
              /\ seen'[q] # "none" <=> pc'[q] = "key"
              /\ made'[q] # None <=> pc'[q] \in {"putCertificate", "putKey"}
BY DEF TypeOK, Goto, Running

\* Ending leaves the locals typed.
LEMMA FinishType ==
  ASSUME TypeOK, NEW r \in Requests, NEW how \in {"written", "refused", "failed"},
         Finish(r, how)
  PROVE  /\ pc' \in [Requests -> {"idle", "certificate", "key", "load", "sign",
                                  "putCertificate", "putKey"}]
         /\ seen' \in [Requests -> {"none", "absent", "valid", "unparseable"}]
         /\ made' \in [Requests -> Keys \union {None}]
         /\ answer' \in [Requests -> {"none", "written", "refused", "failed"}]
         /\ supplied' \subseteq {q \in Requests : Running(q)' /\ ~IsServer(q)}
         /\ \A q \in Requests :
              /\ pc'[q] \in {"key", "putKey"} => IsServer(q)
              /\ seen'[q] # "none" <=> pc'[q] = "key"
              /\ made'[q] # None <=> pc'[q] \in {"putCertificate", "putKey"}
BY DEF TypeOK, Finish, Running

\* Nobody else puts an output of a server there.
LEMMA ForeignFacts ==
  ASSUME NEW r \in Requests, NEW p \in Foreign
  PROVE  p \in Paths /\ (CertificatePath[r] = p => ~IsServer(r)) /\ (IsServer(r) => KeyPath[r] # p)
BY PathsAssumption, OutputsFacts

\* The initial state is well typed.
LEMMA TypeInit == Init => TypeOK
BY BoundsAssumption DEF Init, TypeOK, Files, Running

\* Every step of a request keeps the types.
LEMMA TypeRequest ==
  ASSUME TypeOK, NEW r \in Requests, Start(r) \/ Step(r) \/ Fail(r)
  PROVE  TypeOK'
<1>1. CASE Start(r)
  BY <1>1 DEF Start, TypeOK, Running
<1>2. CASE CheckCertificate(r)
  <2>1. CASE IsServer(r)
    BY <1>2, <2>1, SeenFacts DEF CheckCertificate, TypeOK, Running
  <2>2. CASE ~IsServer(r)
    BY <1>2, <2>2, GotoType, FinishType DEF CheckCertificate, Decide, TypeOK, Running
  <2>3. QED
    BY <2>1, <2>2
<1>3. CASE CheckKey(r)
  BY <1>3, GotoType, FinishType DEF CheckKey, Decide, TypeOK, Running
<1>4. CASE Load(r)
  BY <1>4, GotoType, FinishType DEF Load, TypeOK, Running
<1>5. CASE Sign(r)
  BY <1>5, FilesFacts, FilesAssumption DEF Sign, KeyPairs, TypeOK, Running
<1>6. CASE PutCertificate(r)
  <2>1. made[r] \in Keys /\ CertificatePath[r] \in Paths
    BY <1>6, OutputsFacts DEF PutCertificate, TypeOK
  <2>2. files' \in [Paths -> Files] /\ disk' = disk
    BY <1>6, <2>1 DEF PutCertificate, Store!Put, TypeOK, Files
  <2>3. QED
    BY <1>6, <2>2, GotoType, FinishType DEF PutCertificate, TypeOK, Running
<1>7. CASE PutKey(r)
  <2>1. made[r] \in Keys /\ KeyPath[r] \in Paths
    BY <1>7, OutputsFacts DEF PutKey, TypeOK
  <2>2. files' \in [Paths -> Files] /\ disk' = disk
    BY <1>7, <2>1 DEF PutKey, Store!Put, TypeOK, Files
  <2>3. QED
    BY <1>7, <2>2, FinishType DEF PutKey, TypeOK
<1>8. CASE Fail(r)
  <2>1. faults' \in 0..MaxFaults
    BY <1>8, BoundsAssumption DEF Fail, Fault, TypeOK
  <2>2. QED
    BY <1>8, <2>1, FinishType DEF Fail, TypeOK
<1>9. QED
  BY <1>1, <1>2, <1>3, <1>4, <1>5, <1>6, <1>7, <1>8 DEF Step

\* Every step keeps the types.
LEMMA TypeStep ==
  ASSUME TypeOK, [Next]_vars
  PROVE  TypeOK'
<1>1. ASSUME NEW r \in Requests, Start(r) \/ Step(r) \/ Fail(r)
      PROVE  TypeOK'
  BY <1>1, TypeRequest
<1>2. ASSUME NEW r \in Requests, FollowAdvice(r)
      PROVE  TypeOK'
  BY <1>2 DEF FollowAdvice, TypeOK, Files, Running
<1>3. ASSUME Fault
      PROVE  faults' \in 0..MaxFaults
  BY <1>3, BoundsAssumption DEF Fault, TypeOK
<1>4. ASSUME NEW p \in Paths, Remove(p)
      PROVE  TypeOK'
  BY <1>3, <1>4 DEF Remove, Store!Remove, TypeOK, Files, request, Running
<1>5. ASSUME NEW p \in Paths, NEW how \in Damages[p], Damage(p, how)
      PROVE  TypeOK'
  BY <1>3, <1>5, FilesFacts DEF Damage, TypeOK, request, Running
<1>6. ASSUME NEW p \in Paths, NEW k \in Keys, Supply(p, k)
      PROVE  TypeOK'
  <2>1. files' \in [Paths -> Files] /\ disk' = disk
    BY <1>6 DEF Supply, Store!Put, TypeOK, Files
  <2>2. supplied' \subseteq {r \in Requests : Running(r)' /\ ~IsServer(r)}
    BY <1>6, ForeignFacts DEF Supply, TypeOK, Running
  <2>3. QED
    BY <1>3, <1>6, <2>1, <2>2 DEF Supply, TypeOK, Running
<1>7. CASE Flush
  BY <1>7 DEF Flush, Store!Flush, TypeOK, request, Running
<1>8. CASE PowerLoss
  BY <1>3, <1>8 DEF PowerLoss, Store!Revert, TypeOK, Running
<1>9. CASE UNCHANGED vars
  BY <1>9 DEF vars, request, TypeOK, Running
<1>10. QED
  BY <1>1, <1>2, <1>4, <1>5, <1>6, <1>7, <1>8, <1>9 DEF Next, Run

\* Every variable keeps its type; a request holds a key pair exactly while it
\* writes.
THEOREM TypeCorrect == Spec => []TypeOK
BY TypeInit, TypeStep, PTL DEF Spec

-----------------------------------------------------------------------------
(* The inductive invariant.                                                *)

\* With no file and no request there is nothing to break.
LEMMA InvInit == Init => IInv
<1> SUFFICES ASSUME Init PROVE IInv
  OBVIOUS
<1>1. /\ \A p \in Paths : files[p] = None /\ disk[p] = None
      /\ \A r \in Requests : pc[r] = "idle"
  BY DEF Init
<1>2. QED
  BY <1>1, TypeInit, OutputsFacts, FilesFacts
  DEF IInv, Exclusive, StillAbsent, HalfWritten, PairMatches, Matches, Running

\* What a step of request r leaves alone: the locals of the others.
Others(r) ==
  /\ \A q \in Requests : q # r => pc'[q] = pc[q] /\ seen'[q] = seen[q] /\ made'[q] = made[q]
  /\ supplied' \in {supplied, supplied \ {r}}

\* Requests that run together have no output in common, and neither is a path
\* of the other.
LEMMA Apart ==
  ASSUME IInv, NEW q \in Requests, NEW r \in Requests, q # r, Running(q), Running(r)
  PROVE  /\ CertificatePath[q] # CertificatePath[r]
         /\ IsServer(q) => KeyPath[q] # CertificatePath[r]
         /\ IsServer(r) => CertificatePath[q] # KeyPath[r]
         /\ IsServer(q) /\ IsServer(r) => KeyPath[q] # KeyPath[r]
<1>1. Outputs(q) \intersect Outputs(r) = {}
  BY DEF IInv, Exclusive
<1>2. QED
  BY <1>1, OutputsFacts

\* A running request stays exclusive as long as no other one starts.
LEMMA ExclusiveStep ==
  ASSUME IInv, NEW r \in Requests, Running(r), Others(r)
  PROVE  Exclusive'
BY DEF IInv, Exclusive, Running, Others

\* A step that only moves request r keeps the invariant when what it found
\* absent is absent.
LEMMA InvMove ==
  ASSUME Serial, IInv, TypeOK', Exclusive', NEW r \in Requests, Others(r),
         files' = files, disk' = disk, pc'[r] # "putKey",
         \/ pc'[r] \in {"load", "sign", "putCertificate"}
         \/ pc'[r] = "key" /\ seen'[r] = "absent"
         => files[CertificatePath[r]] = None \/ r \in supplied',
         pc'[r] \in {"load", "sign", "putCertificate"} /\ IsServer(r)
         => files[KeyPath[r]] = None
  PROVE  IInv'
<1>1. StillAbsent'
  BY DEF IInv, StillAbsent, Others
<1>2. HalfWritten'
  BY DEF IInv, HalfWritten, Others
<1>3. PairMatches'
  BY DEF IInv, PairMatches, Matches
<1>4. QED
  BY <1>1, <1>2, <1>3 DEF IInv

\* A request starts only when no other one that runs has an output of its own.
LEMMA InvStart ==
  ASSUME Serial, IInv, NEW r \in Requests, Start(r)
  PROVE  IInv'
<1>1. TypeOK /\ TypeOK'
  BY TypeRequest DEF IInv
<1>2. Others(r) /\ pc'[r] = "certificate" /\ files' = files /\ disk' = disk
  BY <1>1 DEF Start, TypeOK, Others
<1>3. Exclusive'
  BY <1>2 DEF IInv, Exclusive, Running, Others, Start, Sequenced
<1>4. QED
  BY <1>1, <1>2, <1>3, InvMove

\* The checks go on only when they found nothing.
LEMMA InvCheck ==
  ASSUME Serial, IInv, NEW r \in Requests, CheckCertificate(r) \/ CheckKey(r)
  PROVE  IInv'
<1>1. TypeOK /\ TypeOK'
  BY TypeRequest DEF IInv, Step
<1>2. Running(r) /\ files' = files /\ disk' = disk
  BY DEF CheckCertificate, CheckKey, Running
<1>3. Others(r)
  BY <1>1 DEF CheckCertificate, CheckKey, Decide, Goto, Finish, TypeOK, Others
<1>4. Exclusive'
  BY <1>2, <1>3, ExclusiveStep
<1>5. CASE CheckCertificate(r) /\ IsServer(r)
  <2>1. pc'[r] = "key" /\ seen'[r] = Seen(files[CertificatePath[r]])
    BY <1>1, <1>5 DEF CheckCertificate, TypeOK
  <2>2. seen'[r] = "absent" => files[CertificatePath[r]] = None
    BY <2>1, SeenFacts
  <2>3. QED
    BY <1>1, <1>2, <1>3, <1>4, <2>1, <2>2, InvMove
<1>6. CASE CheckCertificate(r) /\ ~IsServer(r)
  <2>1. \/ pc'[r] = "idle"
        \/ pc'[r] = "load" /\ Seen(files[CertificatePath[r]]) = "absent"
    BY <1>1, <1>6 DEF CheckCertificate, Decide, Goto, Finish, TypeOK
  <2>2. pc'[r] = "load" => files[CertificatePath[r]] = None
    BY <2>1, SeenFacts
  <2>3. QED
    BY <1>1, <1>2, <1>3, <1>4, <1>6, <2>1, <2>2, InvMove
<1>7. CASE CheckKey(r)
  <2>1. \/ pc'[r] = "idle"
        \/ pc'[r] = "load" /\ seen[r] = "absent" /\ Seen(files[KeyPath[r]]) = "absent"
    BY <1>1, <1>7 DEF CheckKey, Decide, Goto, Finish, TypeOK
  <2>2. r \notin supplied
    BY <1>1, <1>7 DEF CheckKey, TypeOK
  <2>3. pc'[r] = "load" => files[CertificatePath[r]] = None /\ files[KeyPath[r]] = None
    BY <1>7, <2>1, <2>2, SeenFacts DEF CheckKey, IInv, StillAbsent
  <2>4. QED
    BY <1>1, <1>2, <1>3, <1>4, <2>1, <2>3, InvMove
<1>8. QED
  BY <1>5, <1>6, <1>7

\* Reading the CA, signing and failing touch no file.
LEMMA InvWork ==
  ASSUME Serial, IInv, NEW r \in Requests, Load(r) \/ Sign(r) \/ Fail(r)
  PROVE  IInv'
<1>1. TypeOK /\ TypeOK'
  BY TypeRequest DEF IInv, Step
<1>2. Running(r) /\ files' = files /\ disk' = disk
  BY DEF Load, Sign, Fail, Running
<1>3. Others(r)
  BY <1>1 DEF Load, Sign, Fail, Goto, Finish, TypeOK, Others
<1>4. Exclusive'
  BY <1>2, <1>3, ExclusiveStep
<1>5. \/ pc'[r] = "idle"
      \/ /\ pc[r] \in {"load", "sign"} /\ pc'[r] \in {"sign", "putCertificate"}
         /\ supplied' = supplied
  BY <1>1 DEF Load, Sign, Fail, Goto, Finish, TypeOK
<1>6. CASE pc'[r] = "idle"
  BY <1>1, <1>2, <1>3, <1>4, <1>6, InvMove
<1>7. CASE pc'[r] # "idle"
  <2>1. pc[r] \in {"load", "sign"} /\ pc'[r] \in {"sign", "putCertificate"} /\ supplied' = supplied
    BY <1>5, <1>7
  <2>2. files[CertificatePath[r]] = None \/ r \in supplied'
    BY <2>1 DEF IInv, StillAbsent
  <2>3. IsServer(r) => files[KeyPath[r]] = None
    BY <2>1 DEF IInv, StillAbsent
  <2>4. QED
    BY <1>1, <1>2, <1>3, <1>4, <2>1, <2>2, <2>3, InvMove
<1>8. QED
  BY <1>6, <1>7

\* The certificate is put where there was none, beside no key.
LEMMA InvPutCertificate ==
  ASSUME Serial, IInv, NEW r \in Requests, PutCertificate(r)
  PROVE  IInv'
<1>1. TypeOK /\ TypeOK'
  BY TypeRequest DEF IInv, Step
<1>2. /\ Running(r) /\ pc[r] = "putCertificate" /\ disk' = disk
      /\ \A p \in Paths : files'[p] = IF p = CertificatePath[r] THEN made[r] ELSE files[p]
  BY <1>1 DEF PutCertificate, Store!Put, TypeOK, Running
<1>3. Others(r)
  BY <1>1 DEF PutCertificate, Goto, Finish, TypeOK, Others
<1>4. Exclusive'
  BY <1>2, <1>3, ExclusiveStep
<1>5. IF IsServer(r) THEN pc'[r] = "putKey" /\ made'[r] = made[r] ELSE pc'[r] = "idle"
  BY <1>1 DEF PutCertificate, Goto, Finish, TypeOK
<1>6. IsServer(r) => files[KeyPath[r]] = None /\ files'[KeyPath[r]] = None
  BY <1>2, OutputsFacts DEF IInv, StillAbsent
<1>7. \A q \in Requests : q # r /\ Running(q) =>
        /\ files'[CertificatePath[q]] = files[CertificatePath[q]]
        /\ IsServer(q) => files'[KeyPath[q]] = files[KeyPath[q]]
  BY <1>2, Apart, OutputsFacts
<1>8. StillAbsent'
  BY <1>3, <1>5, <1>6, <1>7 DEF IInv, StillAbsent, Others, Running
<1>9. HalfWritten'
  BY <1>2, <1>3, <1>5, <1>7, OutputsFacts DEF IInv, HalfWritten, Others, Running
<1>10. PairMatches'
  <2>1. ASSUME NEW q \in Requests, IsServer(q)
        PROVE  Matches(files, q)'
    <3>1. CASE SameOutputs(q, r)
      BY <1>6, <2>1, <3>1, FilesFacts DEF Matches, SameOutputs, IsServer
    <3>2. CASE ~SameOutputs(q, r)
      <4>1. Outputs(q) \intersect Outputs(r) = {}
        BY <3>2, PathsAssumption
      <4>2. CertificatePath[q] # CertificatePath[r] /\ KeyPath[q] # CertificatePath[r]
        BY <2>1, <4>1, OutputsFacts
      <4>3. QED
        BY <1>2, <2>1, <4>2, OutputsFacts DEF Matches, IInv, PairMatches
    <3>3. QED
      BY <3>1, <3>2
  <2>2. \A q \in Requests : Matches(disk, q)'
    BY <1>2 DEF IInv, PairMatches, Matches
  <2>3. \A q \in Requests : ~IsServer(q) => Matches(files, q)'
    BY DEF Matches
  <2>4. QED
    BY <2>1, <2>2, <2>3 DEF PairMatches
<1>11. QED
  BY <1>1, <1>4, <1>8, <1>9, <1>10 DEF IInv

\* The key is put where there was none, beside its own certificate or none.
LEMMA InvPutKey ==
  ASSUME Serial, IInv, NEW r \in Requests, PutKey(r)
  PROVE  IInv'
<1>1. TypeOK /\ TypeOK'
  BY TypeRequest DEF IInv, Step
<1>2. /\ Running(r) /\ pc[r] = "putKey" /\ IsServer(r) /\ disk' = disk
      /\ \A p \in Paths : files'[p] = IF p = KeyPath[r] THEN made[r] ELSE files[p]
  BY <1>1 DEF PutKey, Store!Put, TypeOK, Running
<1>3. Others(r) /\ pc'[r] = "idle"
  BY <1>1 DEF PutKey, Finish, TypeOK, Others
<1>4. Exclusive'
  BY <1>2, <1>3, ExclusiveStep
<1>5. \A q \in Requests : q # r /\ Running(q) =>
        /\ files'[CertificatePath[q]] = files[CertificatePath[q]]
        /\ IsServer(q) => files'[KeyPath[q]] = files[KeyPath[q]]
  BY <1>2, Apart, OutputsFacts
<1>6. StillAbsent'
  BY <1>3, <1>5 DEF IInv, StillAbsent, Others, Running
<1>7. HalfWritten'
  BY <1>3, <1>5 DEF IInv, HalfWritten, Others, Running
<1>8. PairMatches'
  <2>1. ASSUME NEW q \in Requests, IsServer(q)
        PROVE  Matches(files, q)'
    <3>1. CASE SameOutputs(q, r)
      <4>1. files'[CertificatePath[r]] = files[CertificatePath[r]] /\ files'[KeyPath[r]] = made[r]
        BY <1>2, OutputsFacts
      <4>2. Intact(files[CertificatePath[r]]) => files[CertificatePath[r]] = made[r]
        BY <1>2 DEF IInv, HalfWritten
      <4>3. QED
        BY <3>1, <4>1, <4>2 DEF Matches, SameOutputs
    <3>2. CASE ~SameOutputs(q, r)
      <4>1. Outputs(q) \intersect Outputs(r) = {}
        BY <3>2, PathsAssumption
      <4>2. CertificatePath[q] # KeyPath[r] /\ KeyPath[q] # KeyPath[r]
        BY <1>2, <2>1, <4>1, OutputsFacts
      <4>3. QED
        BY <1>2, <2>1, <4>2, OutputsFacts DEF Matches, IInv, PairMatches
    <3>3. QED
      BY <3>1, <3>2
  <2>2. \A q \in Requests : Matches(disk, q)'
    BY <1>2 DEF IInv, PairMatches, Matches
  <2>3. \A q \in Requests : ~IsServer(q) => Matches(files, q)'
    BY DEF Matches
  <2>4. QED
    BY <2>1, <2>2, <2>3 DEF PairMatches
<1>9. QED
  BY <1>1, <1>4, <1>6, <1>7, <1>8 DEF IInv

\* A step that only takes intact files away keeps the invariant.
LEMMA InvSpoil ==
  ASSUME Serial, IInv, TypeOK', UNCHANGED <<pc, seen, made, supplied, disk>>,
         \A p \in Paths :
           /\ files[p] = None => files'[p] = None
           /\ Intact(files'[p]) => files'[p] = files[p]
  PROVE  IInv'
<1>1. Exclusive'
  BY DEF IInv, Exclusive, Running
<1>2. StillAbsent'
  BY OutputsFacts DEF IInv, StillAbsent
<1>3. HalfWritten'
  BY OutputsFacts DEF IInv, HalfWritten
<1>4. PairMatches'
  <2>1. ASSUME NEW q \in Requests
        PROVE  Matches(files, q)' /\ Matches(disk, q)'
    BY OutputsFacts DEF IInv, PairMatches, Matches
  <2>2. QED
    BY <2>1 DEF PairMatches
<1>5. QED
  BY <1>1, <1>2, <1>3, <1>4 DEF IInv

\* Deleting and damaging files only takes intact files away.
LEMMA Spoils ==
  ASSUME TypeOK,
         \/ \E r \in Requests : FollowAdvice(r)
         \/ \E p \in Paths : Remove(p)
         \/ \E p \in Paths : \E how \in Damages[p] : Damage(p, how)
  PROVE  /\ UNCHANGED <<pc, seen, made, supplied, disk>>
         /\ \A p \in Paths :
              /\ files[p] = None => files'[p] = None
              /\ Intact(files'[p]) => files'[p] = files[p]
<1>1. CASE \E r \in Requests : FollowAdvice(r)
  BY <1>1, FilesFacts DEF FollowAdvice
<1>2. CASE \E p \in Paths : Remove(p)
  BY <1>2, FilesFacts DEF Remove, Store!Remove, TypeOK, request
<1>3. ASSUME NEW p \in Paths, NEW how \in Damages[p], Damage(p, how)
      PROVE  /\ UNCHANGED <<pc, seen, made, supplied, disk>>
             /\ \A q \in Paths :
                  /\ files[q] = None => files'[q] = None
                  /\ Intact(files'[q]) => files'[q] = files[q]
  BY <1>3, FilesFacts DEF Damage, TypeOK, request
<1>4. QED
  BY <1>1, <1>2, <1>3

\* What somebody else puts there belongs to no server's pair, and the requests
\* that write it are marked.
LEMMA InvSupply ==
  ASSUME Serial, IInv, NEW p \in Paths, NEW k \in Keys, Supply(p, k)
  PROVE  IInv'
<1>1. TypeOK /\ TypeOK'
  BY TypeStep DEF IInv, Next
<1>2. /\ pc' = pc /\ seen' = seen /\ made' = made /\ disk' = disk /\ p \in Foreign
      /\ \A q \in Paths \ {p} : files'[q] = files[q]
      /\ \A r \in Requests : Running(r) /\ CertificatePath[r] = p => r \in supplied'
      /\ supplied \subseteq supplied'
  BY <1>1 DEF Supply, Store!Put, TypeOK
<1>3. ASSUME NEW r \in Requests, IsServer(r)
      PROVE  /\ files'[CertificatePath[r]] = files[CertificatePath[r]]
             /\ files'[KeyPath[r]] = files[KeyPath[r]]
  BY <1>2, <1>3, ForeignFacts, OutputsFacts
<1>4. Exclusive'
  BY <1>2 DEF IInv, Exclusive, Running
<1>5. StillAbsent'
  <2>1. ASSUME NEW r \in Requests, Running(r), r \notin supplied'
        PROVE  files'[CertificatePath[r]] = files[CertificatePath[r]] /\ r \notin supplied
    BY <1>2, <2>1, OutputsFacts
  <2>2. QED
    BY <1>2, <1>3, <2>1 DEF IInv, StillAbsent, Running
<1>6. HalfWritten' /\ PairMatches'
  BY <1>1, <1>2, <1>3 DEF IInv, HalfWritten, PairMatches, Matches, TypeOK
<1>7. QED
  BY <1>1, <1>4, <1>5, <1>6 DEF IInv

\* Flushing and losing power exchange what two snapshots of the files hold.
LEMMA InvSnapshot ==
  ASSUME Serial, IInv, Flush \/ PowerLoss
  PROVE  IInv'
<1>1. TypeOK'
  BY TypeStep DEF IInv, Next
<1>2. CASE Flush
  BY <1>1, <1>2 DEF Flush, Store!Flush, request, IInv, Exclusive, Running, StillAbsent,
     HalfWritten, PairMatches, Matches
<1>3. CASE PowerLoss
  <2>1. files' = disk /\ disk' = disk /\ \A r \in Requests : pc'[r] = "idle"
    BY <1>3 DEF PowerLoss, Store!Revert
  <2>2. QED
    BY <1>1, <2>1 DEF IInv, Exclusive, Running, StillAbsent, HalfWritten, PairMatches, Matches
<1>4. QED
  BY <1>2, <1>3

\* Every step keeps the invariant.
LEMMA InvStep ==
  ASSUME Serial, IInv, [Next]_vars
  PROVE  IInv'
<1>1. TypeOK /\ TypeOK'
  BY TypeStep DEF IInv
<1>2. ASSUME NEW r \in Requests, Start(r) \/ Step(r) \/ Fail(r)
      PROVE  IInv'
  BY <1>2, InvStart, InvCheck, InvWork, InvPutCertificate, InvPutKey DEF Step
<1>3. CASE \/ \E r \in Requests : FollowAdvice(r)
           \/ \E p \in Paths : Remove(p)
           \/ \E p \in Paths : \E how \in Damages[p] : Damage(p, how)
  BY <1>1, <1>3, Spoils, InvSpoil
<1>4. ASSUME NEW p \in Paths, NEW k \in Keys, Supply(p, k)
      PROVE  IInv'
  BY <1>4, InvSupply
<1>5. CASE Flush \/ PowerLoss
  BY <1>5, InvSnapshot
<1>6. CASE UNCHANGED vars
  BY <1>1, <1>6, InvSpoil DEF vars, request
<1>7. QED
  BY <1>2, <1>3, <1>4, <1>5, <1>6 DEF Next, Run

\* When requests that share an output are sequenced, the invariant holds.
THEOREM InvariantHolds ==
  ASSUME Serial
  PROVE  Spec => []IInv
BY InvInit, InvStep, PTL DEF Spec

-----------------------------------------------------------------------------
(* What follows from it.                                                   *)

\* A certificate never stands beside the private key of another key pair, now
\* or after a power failure.
THEOREM PairsMatch ==
  ASSUME Serial
  PROVE  Spec => []PairMatches
<1>1. IInv => PairMatches
  BY DEF IInv
<1>2. QED
  BY <1>1, InvariantHolds, PTL

\* A request writes only where there is no file or somebody else's.
LEMMA RunWrites ==
  ASSUME Serial, IInv, Run, NEW p \in Paths, files[p] # None, files'[p] # files[p]
  PROVE  \E r \in supplied : pc[r] = "putCertificate" /\ p = CertificatePath[r]
<1>1. PICK r \in Requests : Start(r) \/ Step(r)
  BY DEF Run
<1>2. TypeOK
  BY DEF IInv
<1>3. CASE PutCertificate(r)
  <2>1. p = CertificatePath[r] /\ pc[r] = "putCertificate"
    BY <1>2, <1>3 DEF PutCertificate, Store!Put, TypeOK
  <2>2. r \in supplied
    BY <2>1 DEF IInv, StillAbsent
  <2>3. QED
    BY <2>1, <2>2
<1>4. CASE PutKey(r)
  <2>1. files[KeyPath[r]] = None
    BY <1>2, <1>4 DEF PutKey, IInv, StillAbsent, TypeOK
  <2>2. QED
    BY <1>2, <1>4, <2>1 DEF PutKey, Store!Put, TypeOK
<1>5. CASE Start(r) \/ CheckCertificate(r) \/ CheckKey(r) \/ Load(r) \/ Sign(r)
  BY <1>5 DEF Start, CheckCertificate, CheckKey, Load, Sign
<1>6. QED
  BY <1>1, <1>3, <1>4, <1>5 DEF Step

\* No request overwrites a file, however long it takes from its check to its
\* write, but for a certificate that somebody else has put there meanwhile.
THEOREM OverwriteIsOfSupplied ==
  ASSUME Serial
  PROVE  Spec => OverwritesOnlySupplied
<1>1. IInv /\ [Next]_vars =>
        [Run => \A p \in Paths : files[p] # None /\ files'[p] # files[p] =>
           \E r \in supplied : pc[r] = "putCertificate" /\ p = CertificatePath[r]]_vars
  BY RunWrites
<1>2. QED
  BY <1>1, InvariantHolds, PTL DEF Spec, OverwritesOnlySupplied

-----------------------------------------------------------------------------
(* The requests implement HostIdentity.                                    *)

\* A host is the certificate and key paths of a server request.
LEMMA ServersFacts ==
  ASSUME NEW h \in Servers
  PROVE  \E r \in Requests :
           /\ IsServer(r) /\ h[1] = CertificatePath[r] /\ h[2] = KeyPath[r]
           /\ h[1] \in Paths /\ h[2] \in Paths /\ Outputs(r) = {h[1], h[2]}
<1>1. PICK r \in Requests : IsServer(r) /\ h = <<CertificatePath[r], KeyPath[r]>>
  BY DEF Servers
<1>2. h[1] = CertificatePath[r] /\ h[2] = KeyPath[r]
  BY <1>1
<1>3. \A p : p \in Outputs(r) <=> p \in {h[1], h[2]}
  BY <1>1, <1>2, OutputsFacts
<1>4. QED
  BY <1>1, <1>2, <1>3, OutputsFacts

\* Two hosts have no path in common.
LEMMA HostsApart ==
  ASSUME NEW g \in Servers, NEW h \in Servers, g # h
  PROVE  {g[1], g[2]} \intersect {h[1], h[2]} = {}
<1>1. PICK q \in Requests : IsServer(q) /\ g = <<CertificatePath[q], KeyPath[q]>>
  BY DEF Servers
<1>2. PICK r \in Requests : IsServer(r) /\ h = <<CertificatePath[r], KeyPath[r]>>
  BY DEF Servers
<1>3. ~SameOutputs(q, r)
  BY <1>1, <1>2 DEF SameOutputs
<1>4. Outputs(q) \intersect Outputs(r) = {}
  BY <1>3, PathsAssumption
<1>5. g[1] = CertificatePath[q] /\ g[2] = KeyPath[q] /\ h[1] = CertificatePath[r] /\ h[2] = KeyPath[r]
  BY <1>1, <1>2
<1>6. QED
  BY <1>1, <1>2, <1>4, <1>5, OutputsFacts

\* A step that leaves the paths of every host but one alone, and takes that
\* one's identity away, keeps it, or gives it one it did not have.
LEMMA OneHost ==
  ASSUME disk' = disk, NEW h \in Servers,
         \A g \in Servers : g # h => files'[g[1]] = files[g[1]] /\ files'[g[2]] = files[g[2]],
         \/ IdentityIn(files, h)' \in {None, IdentityIn(files, h)}
         \/ IdentityIn(files, h) = None /\ IdentityIn(files, h)' \in Keys
  PROVE  [Identity!Next]_(Identity!vars)
<1>1. \A g \in Servers : g # h => IdentityIn(files, g)' = IdentityIn(files, g)
  BY DEF IdentityIn
<1>2. IdentityNow' = [IdentityNow EXCEPT ![h] = IdentityIn(files, h)']
  BY <1>1 DEF IdentityNow
<1>3. IdentityNow[h] = IdentityIn(files, h)
  BY DEF IdentityNow
<1>4. IdentityOnDisk' = IdentityOnDisk
  BY DEF IdentityOnDisk, IdentityIn
<1>5. CASE IdentityIn(files, h)' = None
  BY <1>2, <1>4, <1>5 DEF Identity!Next, Identity!Lose
<1>6. CASE IdentityIn(files, h)' = IdentityIn(files, h)
  <2>1. IdentityNow' = IdentityNow
    BY <1>2, <1>3, <1>6 DEF IdentityNow
  <2>2. QED
    BY <1>4, <2>1 DEF Identity!vars
<1>7. CASE IdentityIn(files, h) = None /\ IdentityIn(files, h)' \in Keys
  BY <1>2, <1>3, <1>4, <1>7 DEF Identity!Next, Identity!Adopt
<1>8. QED
  BY <1>5, <1>6, <1>7

\* A step that touches the paths of no host changes no identity.
LEMMA NoHost ==
  ASSUME disk' = disk,
         \A h \in Servers : files'[h[1]] = files[h[1]] /\ files'[h[2]] = files[h[2]]
  PROVE  [Identity!Next]_(Identity!vars)
<1>1. IdentityNow' = IdentityNow /\ IdentityOnDisk' = IdentityOnDisk
  BY DEF IdentityNow, IdentityOnDisk, IdentityIn
<1>2. QED
  BY <1>1 DEF Identity!vars

\* Taking away intact files of one path, or of the outputs of one request,
\* takes at most one host's identity away: a half that survives is a half of
\* the same key pair.
LEMMA SpoilsOne ==
  ASSUME TypeOK, PairMatches, disk' = disk, NEW S,
         (\E p \in Paths : S = {p}) \/ (\E r \in Requests : S = Outputs(r)),
         \A p \in Paths : Intact(files'[p]) => files'[p] = files[p],
         \A p \in Paths : p \notin S => files'[p] = files[p]
  PROVE  [Identity!Next]_(Identity!vars)
<1>1. CASE \E h \in Servers : {h[1], h[2]} \intersect S # {}
  <2>1. PICK h \in Servers : {h[1], h[2]} \intersect S # {}
    BY <1>1
  <2>2. PICK r \in Requests :
          /\ IsServer(r) /\ h[1] = CertificatePath[r] /\ h[2] = KeyPath[r]
          /\ h[1] \in Paths /\ h[2] \in Paths /\ Outputs(r) = {h[1], h[2]}
    BY ServersFacts
  <2>3. S \subseteq {h[1], h[2]}
    BY <2>1, <2>2, PathsAssumption, OutputsFacts DEF SameOutputs, Outputs
  <2>4. IdentityIn(files, h)' \in {None, IdentityIn(files, h)}
    <3>1. Intact(files[h[1]]) /\ Intact(files[h[2]]) => files[h[1]] = files[h[2]]
      BY <2>2 DEF PairMatches, Matches
    <3>2. \A i \in {1, 2} : Intact(files'[h[i]]) => files'[h[i]] = files[h[i]]
      BY <2>2
    <3>3. QED
      BY <3>1, <3>2 DEF IdentityIn
  <2>5. \A g \in Servers : g # h => files'[g[1]] = files[g[1]] /\ files'[g[2]] = files[g[2]]
    BY <2>3, HostsApart, ServersFacts
  <2>6. QED
    BY <2>4, <2>5, OneHost
<1>2. CASE \A h \in Servers : {h[1], h[2]} \intersect S = {}
  <2>1. \A h \in Servers : files'[h[1]] = files[h[1]] /\ files'[h[2]] = files[h[2]]
    BY <1>2, ServersFacts
  <2>2. QED
    BY <2>1, NoHost
<1>3. QED
  BY <1>1, <1>2

\* A put writes where nothing is and its other half, if it is there, is the
\* same key pair's: it gives a host its identity or changes none.
LEMMA PutsAdopt ==
  ASSUME Serial, IInv, NEW r \in Requests, PutCertificate(r) \/ PutKey(r)
  PROVE  [Identity!Next]_(Identity!vars)
<1>1. TypeOK
  BY DEF IInv
<1>2. disk' = disk
  BY DEF PutCertificate, PutKey, Store!Put
<1>3. \A p \in Paths : p \notin Outputs(r) => files'[p] = files[p]
  BY <1>1, OutputsFacts DEF PutCertificate, PutKey, Store!Put, TypeOK
<1>4. CASE IsServer(r)
  <2> DEFINE h == <<CertificatePath[r], KeyPath[r]>>
  <2>1. h \in Servers /\ h[1] = CertificatePath[r] /\ h[2] = KeyPath[r]
    BY <1>4 DEF Servers
  <2>2. ASSUME NEW g \in Servers, g # h
        PROVE  files'[g[1]] = files[g[1]] /\ files'[g[2]] = files[g[2]]
    <3>1. g[1] \in Paths /\ g[2] \in Paths
      BY ServersFacts
    <3>2. {g[1], g[2]} \intersect {h[1], h[2]} = {}
      BY <2>1, <2>2, HostsApart
    <3>3. g[1] \notin Outputs(r) /\ g[2] \notin Outputs(r)
      BY <2>1, <3>2, OutputsFacts
    <3>4. QED
      BY <1>3, <3>1, <3>3
  <2>3. made[r] \in Keys
    BY <1>1 DEF PutCertificate, PutKey, TypeOK
  <2>4. \/ IdentityIn(files, h)' = IdentityIn(files, h)
        \/ IdentityIn(files, h) = None /\ IdentityIn(files, h)' \in Keys
    <3>1. CASE PutCertificate(r)
      <4>1. /\ files[CertificatePath[r]] = None /\ files[KeyPath[r]] = None
            /\ files'[CertificatePath[r]] = made[r]
        BY <1>1, <1>4, <3>1, OutputsFacts
        DEF PutCertificate, Store!Put, TypeOK, IInv, StillAbsent
      <4>2. QED
        BY <2>1, <2>3, <4>1, FilesFacts DEF IdentityIn, Intact
    <3>2. CASE PutKey(r)
      <4>1. /\ files[KeyPath[r]] = None /\ files'[KeyPath[r]] = made[r]
            /\ files'[CertificatePath[r]] = files[CertificatePath[r]]
            /\ Intact(files[CertificatePath[r]]) => files[CertificatePath[r]] = made[r]
        BY <1>1, <1>4, <3>2, OutputsFacts
        DEF PutKey, Store!Put, TypeOK, IInv, StillAbsent, HalfWritten
      <4>2. QED
        BY <2>1, <2>3, <4>1, FilesFacts DEF IdentityIn, Intact
    <3>3. QED
      BY <3>1, <3>2
  <2>5. QED
    BY <1>2, <2>1, <2>2, <2>4, OneHost
<1>5. CASE ~IsServer(r)
  <2>1. ASSUME NEW g \in Servers
        PROVE  files'[g[1]] = files[g[1]] /\ files'[g[2]] = files[g[2]]
    <3>1. PICK q \in Requests :
            /\ IsServer(q) /\ g[1] = CertificatePath[q] /\ g[2] = KeyPath[q]
            /\ g[1] \in Paths /\ g[2] \in Paths /\ Outputs(q) = {g[1], g[2]}
      BY ServersFacts
    <3>2. Outputs(q) \intersect Outputs(r) = {}
      BY <1>5, <3>1, PathsAssumption DEF SameOutputs, IsServer
    <3>3. QED
      BY <1>3, <3>1, <3>2
  <2>2. QED
    BY <1>2, <2>1, NoHost
<1>6. QED
  BY <1>4, <1>5

\* Every step exchanges no identity for another.
LEMMA IdentityStep ==
  ASSUME Serial, IInv, [Next]_vars
  PROVE  [Identity!Next]_(Identity!vars)
<1>1. TypeOK /\ PairMatches
  BY DEF IInv
<1>2. CASE files' = files /\ disk' = disk
  BY <1>2 DEF Identity!vars, IdentityNow, IdentityOnDisk, IdentityIn
<1>3. ASSUME NEW r \in Requests, Start(r) \/ Step(r) \/ Fail(r)
      PROVE  [Identity!Next]_(Identity!vars)
  <2>1. CASE PutCertificate(r) \/ PutKey(r)
    BY <2>1, PutsAdopt
  <2>2. CASE ~(PutCertificate(r) \/ PutKey(r))
    <3>1. files' = files /\ disk' = disk
      BY <1>3, <2>2 DEF Start, Step, CheckCertificate, CheckKey, Load, Sign, Fail
    <3>2. QED
      BY <1>2, <3>1
  <2>3. QED
    BY <2>1, <2>2
<1>4. ASSUME NEW r \in Requests, FollowAdvice(r)
      PROVE  [Identity!Next]_(Identity!vars)
  <2>1. /\ disk' = disk
        /\ \A p \in Paths : Intact(files'[p]) => files'[p] = files[p]
        /\ \A p \in Paths : p \notin Outputs(r) => files'[p] = files[p]
    BY <1>1, <1>4, Spoils DEF FollowAdvice
  <2>2. QED
    BY <1>1, <2>1, SpoilsOne
<1>5. ASSUME NEW p \in Paths, Remove(p) \/ \E how \in Damages[p] : Damage(p, how)
      PROVE  [Identity!Next]_(Identity!vars)
  <2>1. /\ disk' = disk
        /\ \A q \in Paths : Intact(files'[q]) => files'[q] = files[q]
        /\ \A q \in Paths : q \notin {p} => files'[q] = files[q]
    BY <1>1, <1>5, Spoils DEF Remove, Store!Remove, Damage, TypeOK
  <2>2. QED
    BY <1>1, <2>1, SpoilsOne
<1>6. ASSUME NEW p \in Paths, NEW k \in Keys, Supply(p, k)
      PROVE  [Identity!Next]_(Identity!vars)
  <2>1. disk' = disk /\ p \in Foreign /\ \A q \in Paths \ {p} : files'[q] = files[q]
    BY <1>1, <1>6 DEF Supply, Store!Put, TypeOK
  <2>2. \A h \in Servers : files'[h[1]] = files[h[1]] /\ files'[h[2]] = files[h[2]]
    BY <2>1, ServersFacts, ForeignFacts
  <2>3. QED
    BY <2>1, <2>2, NoHost
<1>7. CASE Flush
  <2>1. IdentityNow' = IdentityNow /\ IdentityOnDisk' = IdentityNow
    BY <1>7 DEF Flush, Store!Flush, IdentityNow, IdentityOnDisk, IdentityIn
  <2>2. QED
    BY <2>1 DEF Identity!Next, Identity!Flush
<1>8. CASE PowerLoss
  <2>1. IdentityNow' = IdentityOnDisk /\ IdentityOnDisk' = IdentityOnDisk
    BY <1>8 DEF PowerLoss, Store!Revert, IdentityNow, IdentityOnDisk, IdentityIn
  <2>2. QED
    BY <2>1 DEF Identity!Next, Identity!Revert
<1>9. CASE UNCHANGED vars
  BY <1>2, <1>9 DEF vars
<1>10. QED
  BY <1>3, <1>4, <1>5, <1>6, <1>7, <1>8, <1>9 DEF Next, Run

\* The loud-fail policy: whatever is deleted, damaged or dies, a host's
\* identity is lost before another takes its place.
THEOREM IdentityKept ==
  ASSUME Serial
  PROVE  Spec => KeepsIdentity
<1>1. Init => Identity!Init
  <2> SUFFICES ASSUME Init PROVE Identity!Init
    OBVIOUS
  <2>1. \A h \in Servers : IdentityIn(files, h) = None /\ IdentityIn(disk, h) = None
    BY ServersFacts, FilesFacts DEF Init, IdentityIn
  <2>2. QED
    BY <2>1 DEF Identity!Init, IdentityNow, IdentityOnDisk
<1>2. IInv /\ [Next]_vars => [Identity!Next]_(Identity!vars)
  BY IdentityStep
<1>3. QED
  BY <1>1, <1>2, InvariantHolds, PTL DEF Spec, KeepsIdentity, Identity!Spec

-----------------------------------------------------------------------------
(* The answers.  They are true where nobody touches the outputs of a       *)
(* running request and no damage is hollow; IssuanceHollow shows what      *)
(* hollow contents do to them.                                             *)

\* Found valid and not hollow is intact.
LEMMA SeenValid ==
  ASSUME NEW f \in Files, f # Hollow, Seen(f) = "valid"
  PROVE  Intact(f)
BY DEF Seen, Files, Intact

\* A decision to answer "written" has found every output valid; one to go on
\* starts neither the check of the key nor its write.
LEMMA DecideFacts ==
  ASSUME TypeOK, NEW r \in Requests, NEW c, NEW k, Decide(r, c, k)
  PROVE  /\ \A q \in Requests : q # r => answer'[q] = answer[q]
         /\ answer'[r] = "written" /\ answer[r] # "written" => c = "valid" /\ k = "valid"
         /\ pc'[r] \in {"idle", "load"}
<1>1. CASE c = "valid" /\ k = "valid" /\ Finish(r, "written")
  BY <1>1 DEF Finish, TypeOK
<1>2. CASE Goto(r, "load")
  BY <1>2 DEF Goto, TypeOK
<1>3. CASE Finish(r, "refused")
  BY <1>3 DEF Finish, TypeOK
<1>4. QED
  BY <1>1, <1>2, <1>3 DEF Decide

\* With no file and no request there is nothing to find.
LEMMA AsFoundInit == Init => AsFound
BY FilesAssumption DEF Init, AsFound

\* Writes put key pairs there, and nobody touches a certificate that a running
\* request relies on.
LEMMA AsFoundRequest ==
  ASSUME IInv, AsFound, NEW r \in Requests, Start(r) \/ Step(r) \/ Fail(r)
  PROVE  AsFound'
<1>1. TypeOK /\ TypeOK'
  BY TypeRequest DEF IInv
<1>2. ASSUME files' = files, disk' = disk, Others(r), pc'[r] # "putKey",
             pc'[r] = "key" /\ seen'[r] = "valid" => Intact(files[CertificatePath[r]])
      PROVE  AsFound'
  BY <1>2 DEF AsFound, Others
<1>3. CASE Start(r)
  BY <1>1, <1>2, <1>3 DEF Start, Others, TypeOK
<1>4. CASE CheckCertificate(r)
  <2>1. files' = files /\ disk' = disk /\ Others(r)
    BY <1>1, <1>4 DEF CheckCertificate, Decide, Goto, Finish, Others, TypeOK
  <2>2. CASE IsServer(r)
    <3>1. pc'[r] = "key" /\ seen'[r] = Seen(files[CertificatePath[r]])
      BY <1>1, <1>4, <2>2 DEF CheckCertificate, TypeOK
    <3>2. files[CertificatePath[r]] \in Files /\ files[CertificatePath[r]] # Hollow
      BY <1>1, OutputsFacts DEF AsFound, TypeOK
    <3>3. QED
      BY <1>2, <2>1, <3>1, <3>2, SeenValid
  <2>3. CASE ~IsServer(r)
    <3>1. pc'[r] \in {"idle", "load"}
      BY <1>1, <1>4, <2>3, DecideFacts DEF CheckCertificate
    <3>2. QED
      BY <1>2, <2>1, <3>1
  <2>4. QED
    BY <2>2, <2>3
<1>5. CASE CheckKey(r)
  <2>1. files' = files /\ disk' = disk /\ Others(r)
    BY <1>1, <1>5 DEF CheckKey, Decide, Goto, Finish, Others, TypeOK
  <2>2. pc'[r] \in {"idle", "load"}
    BY <1>1, <1>5, DecideFacts DEF CheckKey
  <2>3. QED
    BY <1>2, <2>1, <2>2
<1>6. CASE Load(r) \/ Sign(r) \/ Fail(r)
  BY <1>1, <1>2, <1>6 DEF Load, Sign, Fail, Goto, Finish, Others, TypeOK
<1>7. CASE PutCertificate(r)
  <2>1. /\ made[r] \in Keys /\ disk' = disk /\ Running(r) /\ Others(r)
        /\ \A p \in Paths : files'[p] = IF p = CertificatePath[r] THEN made[r] ELSE files[p]
        /\ pc'[r] # "key"
    BY <1>1, <1>7, OutputsFacts, FilesAssumption
    DEF PutCertificate, Store!Put, Goto, Finish, Others, Running, TypeOK
  <2>2. \A p \in Paths : files'[p] # Hollow /\ disk'[p] # Hollow
    BY <2>1, FilesFacts DEF AsFound, Intact
  <2>3. Intact(files'[CertificatePath[r]])
    BY <2>1, OutputsFacts DEF Intact
  <2>4. ASSUME NEW q \in Requests, q # r, Running(q)
        PROVE  files'[CertificatePath[q]] = files[CertificatePath[q]]
    BY <2>1, <2>4, Apart, OutputsFacts
  <2>5. QED
    BY <2>1, <2>2, <2>3, <2>4 DEF AsFound, Others, Running
<1>8. CASE PutKey(r)
  <2>1. /\ made[r] \in Keys /\ disk' = disk /\ Running(r) /\ Others(r) /\ IsServer(r)
        /\ \A p \in Paths : files'[p] = IF p = KeyPath[r] THEN made[r] ELSE files[p]
        /\ pc'[r] = "idle"
    BY <1>1, <1>8, OutputsFacts DEF PutKey, Store!Put, Finish, Others, Running, TypeOK
  <2>2. \A p \in Paths : files'[p] # Hollow /\ disk'[p] # Hollow
    BY <2>1, FilesFacts DEF AsFound, Intact
  <2>3. ASSUME NEW q \in Requests, q # r, Running(q)
        PROVE  files'[CertificatePath[q]] = files[CertificatePath[q]]
    BY <2>1, <2>3, Apart, OutputsFacts
  <2>4. QED
    BY <2>1, <2>2, <2>3 DEF AsFound, Others, Running
<1>9. QED
  BY <1>3, <1>4, <1>5, <1>6, <1>7, <1>8 DEF Step

\* Nothing that is done to the files touches what a running request relies on.
LEMMA AsFoundSpoil ==
  ASSUME ~Interference, \A p \in Paths : Hollow \notin Damages[p], IInv, AsFound,
         \/ \E r \in Requests : FollowAdvice(r)
         \/ \E p \in Paths : Remove(p)
         \/ \E p \in Paths : \E how \in Damages[p] : Damage(p, how)
  PROVE  AsFound'
<1>1. TypeOK
  BY DEF IInv
<1>2. pc' = pc /\ seen' = seen /\ disk' = disk
  BY <1>1, Spoils
<1>3. PICK P \in SUBSET Paths :
        /\ \A p \in P : Touchable(p) /\ files'[p] # Hollow
        /\ \A p \in Paths \ P : files'[p] = files[p]
  <2>1. CASE \E r \in Requests : FollowAdvice(r)
    <3>1. PICK r \in Requests : FollowAdvice(r)
      BY <2>1
    <3>2. Outputs(r) \in SUBSET Paths
      BY OutputsFacts
    <3>3. \A p \in Outputs(r) : Touchable(p) /\ files'[p] # Hollow
      BY <3>1, <3>2, FilesAssumption DEF FollowAdvice
    <3>4. \A p \in Paths \ Outputs(r) : files'[p] = files[p]
      BY <3>1 DEF FollowAdvice
    <3>5. QED
      BY <3>2, <3>3, <3>4
  <2>2. CASE \E p \in Paths : Remove(p)
    <3>1. PICK p \in Paths : Remove(p)
      BY <2>2
    <3>2. /\ Touchable(p) /\ files'[p] # Hollow
          /\ \A q \in Paths \ {p} : files'[q] = files[q]
      BY <1>1, <3>1, FilesAssumption DEF Remove, Store!Remove, TypeOK
    <3>3. QED
      BY <3>2
  <2>3. CASE \E p \in Paths : \E how \in Damages[p] : Damage(p, how)
    <3>1. PICK p \in Paths : \E how \in Damages[p] : Damage(p, how)
      BY <2>3
    <3>2. /\ Touchable(p) /\ files'[p] # Hollow
          /\ \A q \in Paths \ {p} : files'[q] = files[q]
      BY <1>1, <3>1 DEF Damage, TypeOK
    <3>3. QED
      BY <3>2
  <2>4. QED
    BY <2>1, <2>2, <2>3
<1>4. \A p \in Paths : files'[p] # Hollow /\ disk'[p] # Hollow
  BY <1>2, <1>3 DEF AsFound
<1>5. ASSUME NEW r \in Requests, Running(r)
      PROVE  files'[CertificatePath[r]] = files[CertificatePath[r]]
  BY <1>3, <1>5, OutputsFacts DEF Touchable
<1>6. QED
  BY <1>2, <1>4, <1>5 DEF AsFound, Running

\* A certificate of somebody else is intact, and put there under no request.
LEMMA AsFoundSupply ==
  ASSUME ~Interference, IInv, AsFound, NEW p \in Paths, NEW k \in Keys, Supply(p, k)
  PROVE  AsFound'
<1>1. /\ pc' = pc /\ seen' = seen /\ disk' = disk /\ k # Hollow /\ files'[p] = k
      /\ \A q \in Paths \ {p} : files'[q] = files[q]
      /\ \A r \in Requests : Running(r) => p \notin Outputs(r)
  BY FilesAssumption DEF Supply, Store!Put, Touchable, IInv, TypeOK
<1>2. \A r \in Requests : Running(r) => files'[CertificatePath[r]] = files[CertificatePath[r]]
  BY <1>1, OutputsFacts
<1>3. QED
  BY <1>1, <1>2 DEF AsFound, Running

\* Every step keeps it.
LEMMA AsFoundStep ==
  ASSUME ~Interference, \A p \in Paths : Hollow \notin Damages[p], IInv, AsFound,
         [Next]_vars
  PROVE  AsFound'
<1>1. CASE Flush
  BY <1>1 DEF Flush, Store!Flush, request, AsFound
<1>2. CASE PowerLoss
  BY <1>2 DEF PowerLoss, Store!Revert, AsFound
<1>3. CASE UNCHANGED vars
  BY <1>3 DEF vars, request, AsFound
<1>4. QED
  BY <1>1, <1>2, <1>3, AsFoundRequest, AsFoundSpoil, AsFoundSupply DEF Next, Run

\* A request answers "written" when it has found every output valid or has just
\* written the last of them.
LEMMA AnswerStep ==
  ASSUME IInv, AsFound, [Next]_vars,
         NEW r \in Requests, answer'[r] = "written", answer[r] # "written"
  PROVE  \A p \in Outputs(r) : Intact(files'[p])
<1>1. TypeOK
  BY DEF IInv
<1>2. \A p \in Outputs(r) : p \in Paths /\ files[p] \in Files /\ files[p] # Hollow
  BY <1>1, OutputsFacts DEF AsFound, TypeOK
<1>3. Step(r)
  <2>1. ASSUME NEW q \in Requests, Start(q) \/ Fail(q) \/ FollowAdvice(q)
        PROVE  answer'[r] # "written" \/ answer'[r] = answer[r]
    BY <1>1, <2>1 DEF Start, Fail, Finish, FollowAdvice, TypeOK
  <2>2. ASSUME NEW q \in Requests, q # r, Step(q)
        PROVE  answer'[r] = answer[r]
    BY <1>1, <2>2 DEF Step, CheckCertificate, CheckKey, Decide, Load, Sign,
      PutCertificate, PutKey, Goto, Finish, TypeOK
  <2>3. ASSUME \/ \E p \in Paths : Remove(p) \/ \E how \in Damages[p] : Damage(p, how)
               \/ \E p \in Paths, k \in Keys : Supply(p, k)
               \/ Flush
               \/ UNCHANGED vars
        PROVE  answer' = answer
    BY <2>3 DEF Remove, Damage, Supply, Flush, vars, request
  <2>4. ASSUME PowerLoss
        PROVE  answer'[r] = "none"
    BY <2>4 DEF PowerLoss
  <2>5. QED
    BY <2>1, <2>2, <2>3, <2>4 DEF Next, Run
<1>4. CASE CheckCertificate(r)
  <2>1. ~IsServer(r) /\ files' = files
    BY <1>4 DEF CheckCertificate
  <2>2. Seen(files[CertificatePath[r]]) = "valid"
    BY <1>1, <1>4, <2>1, DecideFacts DEF CheckCertificate
  <2>3. QED
    BY <1>2, <2>1, <2>2, OutputsFacts, SeenValid
<1>5. CASE CheckKey(r)
  <2>1. files' = files /\ pc[r] = "key" /\ IsServer(r)
    BY <1>1, <1>5 DEF CheckKey, TypeOK
  <2>2. seen[r] = "valid" /\ Seen(files[KeyPath[r]]) = "valid"
    BY <1>1, <1>5, DecideFacts DEF CheckKey
  <2>3. Intact(files[CertificatePath[r]])
    BY <2>1, <2>2 DEF AsFound
  <2>4. QED
    BY <1>2, <2>1, <2>2, <2>3, OutputsFacts, SeenValid
<1>6. CASE Load(r) \/ Sign(r)
  BY <1>1, <1>6 DEF Load, Sign, Goto, Finish, TypeOK
<1>7. CASE PutCertificate(r)
  <2>1. ~IsServer(r)
    BY <1>1, <1>7 DEF PutCertificate, Goto
  <2>2. files'[CertificatePath[r]] = made[r] /\ made[r] \in Keys
    BY <1>1, <1>7, OutputsFacts DEF PutCertificate, Store!Put, TypeOK
  <2>3. QED
    BY <2>1, <2>2, OutputsFacts DEF Intact
<1>8. CASE PutKey(r)
  <2>1. /\ IsServer(r) /\ made[r] \in Keys /\ files'[KeyPath[r]] = made[r]
        /\ files'[CertificatePath[r]] = files[CertificatePath[r]]
    BY <1>1, <1>8, OutputsFacts DEF PutKey, Store!Put, TypeOK
  <2>2. Intact(files[CertificatePath[r]])
    BY <1>8 DEF PutKey, AsFound
  <2>3. QED
    BY <2>1, <2>2, OutputsFacts DEF Intact
<1>9. QED
  BY <1>3, <1>4, <1>5, <1>6, <1>7, <1>8 DEF Step

\* What the checks rely on, where files are only damaged beyond recognition and
\* never under a running request.
THEOREM AsFoundHolds ==
  ASSUME Serial, ~Interference, \A p \in Paths : Hollow \notin Damages[p]
  PROVE  Spec => []AsFound
<1>1. IInv /\ AsFound /\ [Next]_vars => AsFound'
  BY AsFoundStep
<1>2. QED
  BY <1>1, AsFoundInit, InvariantHolds, PTL DEF Spec

\* Under the same conditions a request that answers that its outputs are
\* written leaves each of them a certificate or a private key that parses.
THEOREM AnswersAreTrue ==
  ASSUME Serial, ~Interference, \A p \in Paths : Hollow \notin Damages[p]
  PROVE  Spec => AnswersTruthfully
<1>1. IInv /\ AsFound /\ [Next]_vars =>
        [\A r \in Requests :
           answer'[r] = "written" /\ answer[r] # "written" =>
             \A p \in Outputs(r) : Intact(files'[p])]_vars
  BY AnswerStep
<1>2. QED
  BY <1>1, AsFoundHolds, InvariantHolds, PTL DEF Spec, AnswersTruthfully
=============================================================================
