---------------------------- MODULE YggdrasilProofs ----------------------------
(***************************************************************************)
(* What Yggdrasil keeps for any number of calls, paths and key pairs and   *)
(* any number of faults.  Types need no assumption; the rest needs setups  *)
(* of one path to be sequenced.                                            *)
(***************************************************************************)
EXTENDS Yggdrasil, TLAPS

\* The kinds of contents are told apart, and every call has a path.
LEMMA Facts ==
  /\ None \notin Keys /\ Damaged \notin Keys /\ None # Damaged
  /\ \A c \in Calls : Path[c] \in Paths
  /\ Setups \subseteq Calls
BY CallsAssumption, KeysAssumption

\* The initial state is well typed.
LEMMA TypeInit == Init => TypeOK
BY BoundsAssumption DEF Init, TypeOK, Running

\* Every step of a call keeps the types.
LEMMA TypeCall ==
  ASSUME TypeOK, NEW c \in Calls, Ask(c) \/ Step(c) \/ Fail(c)
  PROVE  TypeOK'
<1> USE Facts
<1>1. CASE Ask(c)
  BY <1>1 DEF Ask, TypeOK, Running
<1>2. CASE Ensure(c)
  BY <1>2 DEF Ensure, Goto, TypeOK, Running
<1>3. CASE Generate(c)
  BY <1>3 DEF Generate, TypeOK, Running
<1>4. CASE Put(c)
  <2>1. files' \in [Paths -> Keys \union {None, Damaged}] /\ disk' = disk
    BY <1>4 DEF Put, Store!Put, TypeOK
  <2>2. QED
    BY <1>4, <2>1 DEF Put, Goto, Touch, TypeOK, Running
<1>5. CASE DerivePublicKey(c)
  BY <1>5 DEF DerivePublicKey, Fails, TypeOK, Running
<1>6. CASE DeriveAddress(c)
  BY <1>6 DEF DeriveAddress, Fails, TypeOK, Running
<1>7. CASE Fail(c)
  <2>1. faults' \in 0..MaxFaults
    BY <1>7, BoundsAssumption DEF Fail, Fault, TypeOK
  <2>2. QED
    BY <1>7, <2>1 DEF Fail, Fails, TypeOK, Running
<1>8. QED
  BY <1>1, <1>2, <1>3, <1>4, <1>5, <1>6, <1>7 DEF Step

\* Every step keeps the types.
LEMMA TypeStep ==
  ASSUME TypeOK, [Next]_vars
  PROVE  TypeOK'
<1> USE Facts
<1>1. ASSUME NEW c \in Calls, Ask(c) \/ Step(c) \/ Fail(c)
      PROVE  TypeOK'
  BY <1>1, TypeCall
<1>2. ASSUME NEW c \in Calls, DeleteDamaged(c)
      PROVE  TypeOK'
  BY <1>2 DEF DeleteDamaged, Store!Remove, Touch, TypeOK, call, Running
<1>3. ASSUME Fault
      PROVE  faults' \in 0..MaxFaults
  BY <1>3, BoundsAssumption DEF Fault, TypeOK
<1>4. ASSUME NEW p \in Paths, Remove(p) \/ Damage(p)
      PROVE  TypeOK'
  BY <1>3, <1>4 DEF Remove, Damage, Store!Remove, Touch, TypeOK, call, Running
<1>5. ASSUME NEW p \in Paths, NEW k \in Keys, Restore(p, k)
      PROVE  TypeOK'
  BY <1>3, <1>5 DEF Restore, Store!Put, Touch, TypeOK, call, Running
<1>6. CASE Flush
  BY <1>6 DEF Flush, Store!Flush, TypeOK, call, Running
<1>7. CASE PowerLoss
  BY <1>3, <1>7 DEF PowerLoss, Store!Revert, TypeOK, Running
<1>8. CASE UNCHANGED vars
  BY <1>8 DEF vars, call, TypeOK, Running
<1>9. QED
  BY <1>1, <1>2, <1>4, <1>5, <1>6, <1>7, <1>8 DEF Next, Run

\* TypeOK, of every run.
THEOREM TypeCorrect == Spec => []TypeOK
BY TypeInit, TypeStep, PTL DEF Spec

-----------------------------------------------------------------------------
(* What the steps of a call do to the program counters and the files.      *)

\* A step of call c moves c alone; only Ask starts it, and only Put writes, and
\* touches the file under all when it was touched under c.
LEMMA CallMoves ==
  ASSUME TypeOK, NEW c \in Calls, Step(c) \/ Fail(c)
  PROVE  /\ Running(c)
         /\ \A d \in Calls \ {c} :
              /\ pc'[d] = pc[d] /\ publicKey'[d] = publicKey[d]
              /\ address'[d] = address[d] /\ answer'[d] = answer[d]
         /\ touched \subseteq touched'
         /\ \A p \in Paths : files'[p] # files[p] =>
              /\ pc[c] = "put" /\ p = Path[c]
              /\ c \in touched => \A d \in Calls : Running(d) /\ Path[d] = p => d \in touched'
<1> USE Facts DEF Running, TypeOK
<1>1. CASE Ensure(c)
  BY <1>1 DEF Ensure, Goto
<1>2. CASE Generate(c)
  BY <1>2 DEF Generate
<1>3. CASE Put(c)
  <2>1. /\ pc[c] = "put" /\ pc' = [pc EXCEPT ![c] = "publicKey"]
        /\ UNCHANGED <<publicKey, address, answer>>
        /\ files' = [files EXCEPT ![Path[c]] = made[c]]
    BY <1>3 DEF Put, Goto, Store!Put
  <2>2. /\ touched \subseteq touched'
        /\ c \in touched => \A d \in Calls : Running(d) /\ Path[d] = Path[c] => d \in touched'
    BY <1>3 DEF Put, Touch
  <2>3. QED
    BY <2>1, <2>2
<1>4. CASE DerivePublicKey(c)
  BY <1>4 DEF DerivePublicKey, Fails
<1>5. CASE DeriveAddress(c)
  BY <1>5 DEF DeriveAddress, Fails
<1>6. CASE Fail(c)
  BY <1>6 DEF Fail, Fails
<1>7. QED
  BY <1>1, <1>2, <1>3, <1>4, <1>5, <1>6 DEF Step

\* What is no step of a call leaves the calls alone or ends them all.
LEMMA OtherSteps ==
  ASSUME TypeOK, [Next]_vars
  PROVE  \/ \E c \in Calls : Ask(c) \/ Step(c) \/ Fail(c)
         \/ UNCHANGED call /\ touched \subseteq touched'
         \/ /\ \A c \in Calls : ~Running(c)'
            /\ \A c \in Calls : answer'[c] = "none"
<1>1. ASSUME PowerLoss
      PROVE  \A c \in Calls : ~Running(c)' /\ answer'[c] = "none"
  BY <1>1 DEF PowerLoss, Running
<1>2. QED
  BY <1>1 DEF Next, Run, DeleteDamaged, Remove, Damage, Restore, Flush, Touch, vars

\* Setups that run together still write different files.
LEMMA ExclusiveStep ==
  ASSUME Serial, TypeOK, Exclusive, [Next]_vars
  PROVE  Exclusive'
<1> USE Facts
<1>1. ASSUME NEW c \in Calls, Ask(c)
      PROVE  Exclusive'
  <2>1. \A d \in Calls \ {c} : pc'[d] = pc[d]
    BY <1>1 DEF Ask, TypeOK
  <2>2. c \in Setups => \A d \in Setups \ {c} : Running(d) => Path[d] # Path[c]
    BY <1>1 DEF Ask, Sequenced
  <2>3. QED
    BY <2>1, <2>2 DEF Exclusive, Running
<1>2. ASSUME NEW c \in Calls, Step(c) \/ Fail(c)
      PROVE  Exclusive'
  BY <1>2, CallMoves DEF Exclusive, Running
<1>3. CASE UNCHANGED call
  BY <1>3 DEF Exclusive, Running, call
<1>4. CASE \A c \in Calls : ~Running(c)'
  BY <1>4 DEF Exclusive
<1>5. QED
  BY <1>1, <1>2, <1>3, <1>4, OtherSteps

\* What a setup found absent still is, untouched: of the calls only setups put
\* a file there, and those are sequenced.
LEMMA StillAbsentStep ==
  ASSUME TypeOK, Exclusive, StillAbsent, [Next]_vars
  PROVE  StillAbsent'
<1> USE Facts
<1>1. ASSUME NEW c \in Calls, Ask(c)
      PROVE  StillAbsent'
  BY <1>1 DEF Ask, TypeOK, StillAbsent
<1>2. ASSUME NEW c \in Calls, Step(c) \/ Fail(c)
      PROVE  StillAbsent'
  <2> SUFFICES ASSUME NEW d \in Calls \ touched, pc'[d] \in {"generate", "put"}
               PROVE  files'[Path[d]] = None
    BY <1>2, CallMoves DEF StillAbsent
  <2>1. CASE d # c
    <3>1. pc[d] \in {"generate", "put"} /\ files[Path[d]] = None
      BY <1>2, <2>1, CallMoves DEF StillAbsent
    <3>2. d \in Setups /\ Running(d) /\ (pc[c] = "put" => c \in Setups /\ Running(c))
      BY <3>1 DEF TypeOK, Running
    <3>3. QED
      BY <1>2, <2>1, <3>1, <3>2, CallMoves DEF Exclusive
  <2>2. CASE d = c /\ Ensure(c)
    BY <2>2 DEF Ensure, Goto, TypeOK
  <2>3. CASE d = c /\ Generate(c)
    BY <2>3 DEF Generate, StillAbsent
  <2>4. CASE d = c /\ ~Ensure(c) /\ ~Generate(c)
    BY <1>2, <2>4 DEF Step, Put, DerivePublicKey, DeriveAddress, Fail, Goto, Fails, TypeOK
  <2>5. QED
    BY <2>1, <2>2, <2>3, <2>4
<1>3. ASSUME NEW p \in Paths, NEW k \in Keys, Restore(p, k)
      PROVE  StillAbsent'
  <2> SUFFICES ASSUME NEW d \in Calls \ touched', pc'[d] \in {"generate", "put"}
               PROVE  files'[Path[d]] = None
    BY DEF StillAbsent
  <2>1. d \notin touched /\ Running(d) /\ pc[d] \in {"generate", "put"} /\ Path[d] # p
    BY <1>3 DEF Restore, Touch, Running, call
  <2>2. QED
    BY <1>3, <2>1 DEF Restore, Store!Put, TypeOK, StillAbsent
<1>4. ASSUME NEW p \in Paths, Remove(p) \/ Damage(p)
      PROVE  StillAbsent'
  BY <1>4 DEF Remove, Damage, Store!Remove, Touch, TypeOK, StillAbsent, call
<1>5. ASSUME NEW c \in Calls, DeleteDamaged(c)
      PROVE  StillAbsent'
  BY <1>5 DEF DeleteDamaged, Store!Remove, Touch, TypeOK, StillAbsent, call
<1>6. CASE PowerLoss
  BY <1>6 DEF PowerLoss, StillAbsent
<1>7. CASE Flush \/ UNCHANGED vars
  BY <1>7 DEF Flush, Store!Flush, StillAbsent, vars, call
<1>8. QED
  BY <1>1, <1>2, <1>3, <1>4, <1>5, <1>6, <1>7 DEF Next, Run

\* The file a call has read is the file that stands there, unless somebody has
\* touched it since: an untouched setup writes only where there is none, and a
\* touched one touches the file under all.
LEMMA StillReadStep ==
  ASSUME TypeOK, Exclusive, StillAbsent, StillRead, [Next]_vars
  PROVE  StillRead'
<1> USE Facts
<1>1. ASSUME NEW c \in Calls, Ask(c)
      PROVE  StillRead'
  BY <1>1 DEF Ask, TypeOK, StillRead
<1>2. ASSUME NEW c \in Calls, Step(c) \/ Fail(c)
      PROVE  StillRead'
  <2> SUFFICES ASSUME NEW d \in Calls \ touched', d \notin touched, pc'[d] = "address"
               PROVE  files'[Path[d]] = publicKey'[d]
    BY <1>2, CallMoves DEF StillRead
  <2>1. CASE d # c
    <3>1. pc[d] = "address" /\ publicKey'[d] = publicKey[d] /\ files[Path[d]] = publicKey[d]
      BY <1>2, <2>1, CallMoves DEF StillRead
    <3>2. publicKey[d] # None
      BY <3>1 DEF TypeOK
    <3>3. CASE c \in touched
      BY <1>2, <3>1, <3>3, CallMoves DEF Running
    <3>4. CASE c \notin touched
      BY <1>2, <3>1, <3>2, <3>4, CallMoves DEF StillAbsent
    <3>5. QED
      BY <3>3, <3>4
  <2>2. CASE d = c /\ DerivePublicKey(c)
    BY <2>2 DEF DerivePublicKey, Fails, TypeOK
  <2>3. CASE d = c /\ ~DerivePublicKey(c)
    BY <1>2, <2>3 DEF Step, Ensure, Generate, Put, DeriveAddress, Fail, Goto, Fails, TypeOK
  <2>4. QED
    BY <2>1, <2>2, <2>3
<1>3. ASSUME NEW p \in Paths, UNCHANGED call,
             \A q \in Paths \ {p} : files'[q] = files[q],
             \A d \in Calls : Running(d) /\ Path[d] = p => d \in touched',
             touched \subseteq touched'
      PROVE  StillRead'
  BY <1>3 DEF StillRead, Running, call
<1>4. ASSUME NEW p \in Paths, Remove(p) \/ Damage(p)
      PROVE  StillRead'
  BY <1>3, <1>4 DEF Remove, Damage, Store!Remove, Touch, TypeOK
<1>5. ASSUME NEW p \in Paths, NEW k \in Keys, Restore(p, k)
      PROVE  StillRead'
  BY <1>3, <1>5 DEF Restore, Store!Put, Touch, TypeOK
<1>6. ASSUME NEW c \in Calls, DeleteDamaged(c)
      PROVE  StillRead'
  BY <1>3, <1>6 DEF DeleteDamaged, Store!Remove, Touch, TypeOK
<1>7. CASE PowerLoss
  BY <1>7 DEF PowerLoss, StillRead
<1>8. CASE Flush \/ UNCHANGED vars
  BY <1>8 DEF Flush, Store!Flush, StillRead, vars, call
<1>9. QED
  BY <1>1, <1>2, <1>4, <1>5, <1>6, <1>7, <1>8 DEF Next, Run

\* A projection that is answered is whole: the second run of the binary reads
\* the file the first has read.
LEMMA WholeStep ==
  ASSUME TypeOK, StillRead, ProjectionWhole, [Next]_vars
  PROVE  ProjectionWhole'
<1> USE Facts
<1>1. ASSUME NEW c \in Calls, Ask(c)
      PROVE  ProjectionWhole'
  BY <1>1 DEF Ask, TypeOK, ProjectionWhole
<1>2. ASSUME NEW c \in Calls, Step(c) \/ Fail(c)
      PROVE  ProjectionWhole'
  <2> SUFFICES ASSUME NEW d \in Calls \ touched, answer'[d] = "projected"
               PROVE  publicKey'[d] # None /\ publicKey'[d] = address'[d]
    BY <1>2, CallMoves DEF ProjectionWhole
  <2>1. CASE d # c
    BY <1>2, <2>1, CallMoves DEF ProjectionWhole
  <2>2. CASE d = c /\ DeriveAddress(c)
    BY <2>2 DEF DeriveAddress, Fails, TypeOK, StillRead
  <2>3. CASE d = c /\ ~DeriveAddress(c)
    <3>1. answer[c] = "none"
      BY <1>2, CallMoves DEF TypeOK
    <3>2. QED
      BY <1>2, <2>3, <3>1
         DEF Step, Ensure, Generate, Put, DerivePublicKey, Fail, Goto, Fails, TypeOK
  <2>4. QED
    BY <2>1, <2>2, <2>3
<1>3. CASE UNCHANGED call /\ touched \subseteq touched'
  BY <1>3 DEF ProjectionWhole, call
<1>4. CASE \A c \in Calls : answer'[c] = "none"
  BY <1>4 DEF ProjectionWhole
<1>5. QED
  BY <1>1, <1>2, <1>3, <1>4, OtherSteps

-----------------------------------------------------------------------------
(* The inductive invariant and what follows from it.                       *)

\* No call runs and none has answered.
LEMMA InvInit == Init => IInv
<1> SUFFICES ASSUME Init PROVE IInv
  OBVIOUS
<1>1. \A c \in Calls : pc[c] = "idle" /\ answer[c] = "none"
  BY DEF Init
<1>2. QED
  BY <1>1, TypeInit, Facts
     DEF IInv, Exclusive, StillAbsent, StillRead, ProjectionWhole, Running

\* Every step keeps the invariant.
LEMMA InvStep ==
  ASSUME Serial, IInv, [Next]_vars
  PROVE  IInv'
<1>1. TypeOK /\ Exclusive /\ StillAbsent /\ StillRead /\ ProjectionWhole
  BY DEF IInv
<1>2. TypeOK' /\ Exclusive' /\ StillAbsent'
  BY <1>1, TypeStep, ExclusiveStep, StillAbsentStep
<1>3. StillRead' /\ ProjectionWhole'
  BY <1>1, StillReadStep, WholeStep
<1>4. QED
  BY <1>2, <1>3 DEF IInv

\* The invariant, of every run whose setups of one path are sequenced.
THEOREM InvariantHolds ==
  ASSUME Serial
  PROVE  Spec => []IInv
BY InvInit, InvStep, PTL DEF Spec

\* A call changes a file only when it puts its own over it, touched.
LEMMA RunWrites ==
  ASSUME IInv, [Next]_vars, Run
  PROVE  \A p \in Paths : files[p] # None /\ files'[p] # files[p] =>
           \E c \in touched : pc[c] = "put" /\ Path[c] = p
<1>1. PICK c \in Calls : Ask(c) \/ Step(c)
  BY DEF Run
<1>2. TypeOK /\ StillAbsent
  BY DEF IInv
<1>3. CASE Ask(c)
  BY <1>3 DEF Ask
<1>4. CASE Step(c)
  <2> SUFFICES ASSUME NEW p \in Paths, files[p] # None, files'[p] # files[p]
               PROVE  c \in touched /\ pc[c] = "put" /\ Path[c] = p
    OBVIOUS
  <2>1. pc[c] = "put" /\ p = Path[c]
    BY <1>2, <1>4, CallMoves
  <2>2. c \in touched
    BY <1>2, <2>1 DEF StillAbsent
  <2>3. QED
    BY <2>1, <2>2
<1>5. QED
  BY <1>1, <1>3, <1>4

\* Re-running preserves the keypair file, also when files are deleted, damaged
\* and restored under running calls: sequenced setups change a file that is
\* there only when the path was touched since they began, for any number of
\* calls, paths and faults.
THEOREM RerunIsPreserving ==
  ASSUME Serial
  PROVE  Spec => RerunPreserves
<1>1. IInv /\ [Next]_vars =>
        [Run => \A p \in Paths : files[p] # None /\ files'[p] # files[p] =>
           \E c \in touched : pc[c] = "put" /\ Path[c] = p]_vars
  BY RunWrites
<1>2. QED
  BY <1>1, InvariantHolds, PTL DEF Spec, RerunPreserves

\* The public key and the address of an answered projection are of one key
\* pair when setups are sequenced, unless the file was touched meanwhile.
THEOREM ProjectionsWhole ==
  ASSUME Serial
  PROVE  Spec => []ProjectionWhole
<1>1. IInv => ProjectionWhole
  BY DEF IInv
<1>2. QED
  BY <1>1, InvariantHolds, PTL
=============================================================================
