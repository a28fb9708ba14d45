--------------------------- MODULE PublicationProofs ---------------------------
(***************************************************************************)
(* What Publication keeps for any number of requests, with any planes, any *)
(* number of rotations and of faults, and with the writers of one          *)
(* publication.tmp interleaved in every way: what a request that ran       *)
(* beside no other has picked up is never taken back, and a publication is *)
(* torn only by requests that run side by side.                            *)
(***************************************************************************)
EXTENDS Publication, TLAPS

\* Every field has a source, and versions are numbers.
LEMMA Facts ==
  /\ \A f \in Fields : SourceOf[f] \in Sources
  /\ "ssh" \in Fields
  /\ Versions \subseteq Nat /\ None \notin Versions /\ 0 \in Versions
BY BoundsAssumption, NoneAssumption DEF Fields, SourceOf, Sources, Versions

\* The fields are read in the order of execute.
LEMMA AfterFacts ==
  ASSUME NEW r \in Requests, NEW f \in Fields
  PROVE  /\ After(r, f) \in Fields \union {"create"}
         /\ After(r, f) \in Fields /\ Shows(r, f) => Shows(r, After(r, f))
<1>1. f \in {"ssh", "publicKey", "address", "wifi"} /\ "create" \notin Fields
  BY DEF Fields
<1>2. Shows(r, "publicKey") => Shows(r, "address")
  BY DEF Shows, SourceOf
<1>3. CASE f = "publicKey"
  BY <1>2, <1>3 DEF After, Fields
<1>4. CASE f # "publicKey"
  BY <1>1, <1>4 DEF After, Fields
<1>5. QED
  BY <1>3, <1>4

\* What has been read is what comes before the next field.
LEMMA AfterOrder ==
  ASSUME NEW r \in Requests, NEW f \in Fields, Shows(r, f), NEW g \in Fields
  PROVE  /\ After(r, f) \in Fields =>
              ((Shows(r, g) /\ Position[g] < Position[After(r, f)])
                 <=> (g = f \/ (Shows(r, g) /\ Position[g] < Position[f])))
         /\ After(r, f) = "create" =>
              (Shows(r, g) <=> (g = f \/ (Shows(r, g) /\ Position[g] < Position[f])))
<1>1. f \in {"ssh", "publicKey", "address", "wifi"} /\ g \in {"ssh", "publicKey", "address", "wifi"}
  BY DEF Fields
<1>2. /\ Shows(r, "ssh")
      /\ Shows(r, "publicKey") <=> Shows(r, "address")
  BY DEF Shows, SourceOf
<1>3. CASE f = "ssh"
  BY <1>1, <1>2, <1>3 DEF After, Position, Fields
<1>4. CASE f = "publicKey"
  BY <1>1, <1>2, <1>4 DEF After, Position, Fields
<1>5. CASE f = "address"
  BY <1>1, <1>2, <1>5 DEF After, Position, Fields
<1>6. CASE f = "wifi"
  BY <1>1, <1>2, <1>6 DEF After, Position, Fields
<1>7. QED
  BY <1>1, <1>3, <1>4, <1>5, <1>6

\* Records and the texts written from them.
LEMMA TextFacts ==
  /\ Blank \in Records /\ \A f \in Fields : Blank[f] = None
  /\ Empty \in Texts /\ Empty.head = Blank /\ Empty.tail = Blank
  /\ \A record \in Records :
       /\ TextOf(record) \in Texts
       /\ TextOf(record).head = record
       /\ Long(record) => TextOf(record) = [head |-> record, tail |-> record]
       /\ ~Long(record) => TextOf(record) = [head |-> record, tail |-> Blank]
<1>1. Blank \in Records /\ \A f \in Fields : Blank[f] = None
  BY DEF Blank, Records
<1>2. QED
  BY <1>1 DEF Empty, Texts, TextOf

\* Versions are compared source by source.
LEMMA Transitive ==
  ASSUME NEW a \in [Sources -> Versions], NEW b \in [Sources -> Versions],
         \A s \in Sources : a[s] <= b[s],
         NEW text \in Texts \union {None}, AtLeast(text, b)
  PROVE  AtLeast(text, a)
<1> SUFFICES ASSUME text # None, NEW part \in {"head", "tail"}, NEW f \in Fields,
                    text[part][f] # None
             PROVE  a[SourceOf[f]] <= text[part][f]
  BY DEF AtLeast
<1>1. text[part] \in Records
  BY DEF Texts
<1>2. text[part][f] \in Nat
  BY <1>1, Facts DEF Records
<1>3. a[SourceOf[f]] \in Nat /\ b[SourceOf[f]] \in Nat
  BY Facts
<1>4. a[SourceOf[f]] <= b[SourceOf[f]] /\ b[SourceOf[f]] <= text[part][f]
  BY Facts DEF AtLeast
<1>5. QED
  BY <1>2, <1>3, <1>4

\* The text of a recent record is recent.
LEMMA RecentText ==
  ASSUME NEW record \in Records, NEW versions,
         \A f \in Fields : record[f] # None => versions[SourceOf[f]] <= record[f]
  PROVE  AtLeast(TextOf(record), versions) /\ AtLeast(Empty, versions)
<1>1. \A f \in Fields : Blank[f] = None
  BY TextFacts
<1>2. QED
  BY <1>1 DEF AtLeast, TextOf, Empty

\* What a request has read is at least as new as floor.
LEMMA CopyAboveFloor ==
  ASSUME TypeOK, CopyRecent, BegunBetween, NEW r \in Requests, NEW f \in Fields,
         copy[r][f] # None
  PROVE  floor[SourceOf[f]] <= copy[r][f]
<1>1. copy[r] \in Records /\ begun[r] \in [Sources -> Versions] /\ floor \in [Sources -> Versions]
  BY DEF TypeOK
<1>2. copy[r][f] \in Nat /\ begun[r][SourceOf[f]] \in Nat /\ floor[SourceOf[f]] \in Nat
  BY <1>1, Facts DEF Records
<1>3. Running(r)
  BY TextFacts DEF TypeOK
<1>4. floor[SourceOf[f]] <= begun[r][SourceOf[f]]
  BY <1>3, Facts DEF BegunBetween
<1>5. begun[r][SourceOf[f]] <= copy[r][f]
  BY DEF CopyRecent
<1>6. QED
  BY <1>2, <1>4, <1>5

\* The initial state satisfies the invariant: nothing is written or read.
LEMMA InvInit == Init => IInv
<1> SUFFICES ASSUME Init PROVE IInv
  OBVIOUS
<1>1. version \in [Sources -> Versions] /\ \A s \in Sources : version[s] = 0
  BY Facts DEF Init
<1>2. TypeOK
  <2>1. /\ pc \in [Requests -> Fields \union {"create", "head", "tail", "rename", "idle"}]
        /\ handle \in [Requests -> {"temporary", "publication", "nowhere", "closed"}]
    BY DEF Init
  <2>2. copy \in [Requests -> Records] /\ begun \in [Requests -> [Sources -> Versions]]
    BY <1>1, TextFacts DEF Init
  <2>3. readable \in [Sources -> BOOLEAN] /\ faults \in 0..MaxFaults
    BY BoundsAssumption DEF Init
  <2>4. QED
    BY <1>1, <2>1, <2>2, <2>3 DEF Init, TypeOK, Running
<1>3. \A r \in Requests : pc[r] = "idle" /\ copy[r] = Blank /\ handle[r] = "closed" /\ begun[r] = version
  BY DEF Init
<1>4. CopyRecent /\ RunsAlone /\ WritesAlone
  BY <1>3, TextFacts DEF CopyRecent, RunsAlone, WritesAlone, Running
<1>5. CopySoFar
  BY <1>3 DEF CopySoFar, Fields
<1>6. BegunBetween
  BY <1>1, <1>3 DEF BegunBetween, Running, Init
<1>7. QED
  BY <1>2, <1>4, <1>5, <1>6 DEF IInv, AtLeast, PicksUp, WholeUnlessMixed, Init

\* A text stays one, and as recent, when a part is written from a recent record.
LEMMA Overwritten ==
  ASSUME NEW text \in Texts, NEW record \in Records, NEW part \in {"head", "tail"},
         NEW versions, AtLeast(text, versions),
         \A f \in Fields : record[f] # None => versions[SourceOf[f]] <= record[f]
  PROVE  /\ [text EXCEPT ![part] = record] \in Texts
         /\ AtLeast([text EXCEPT ![part] = record], versions)
<1> DEFINE new == [text EXCEPT ![part] = record]
<1>1. PICK h \in Records, t \in Records : text = [head |-> h, tail |-> t]
  BY DEF Texts
<1>2. new = IF part = "head" THEN [head |-> record, tail |-> t] ELSE [head |-> h, tail |-> record]
  <2>1. CASE part = "head"
    BY <1>1, <2>1
  <2>2. CASE part = "tail"
    BY <1>1, <2>2
  <2>3. QED
    BY <2>1, <2>2
<1>3. new \in Texts
  BY <1>1, <1>2 DEF Texts
<1>4. text # None
  BY NoneAssumption
<1>5. \A p \in {"head", "tail"} : new[p] \in {record, text[p]}
  BY <1>1, <1>2
<1>6. AtLeast(new, versions)
  BY <1>4, <1>5 DEF AtLeast
<1>7. QED
  BY <1>3, <1>6

-----------------------------------------------------------------------------
(* The steps of a request.                                                 *)

\* Request r begins, with the versions of now; beside others it marks them all.
LEMMA BeginKeeps ==
  ASSUME IInv, NEW r \in Requests, Begin(r)
  PROVE  IInv'
<1> USE DEF IInv
<1>1. /\ pc[r] = "idle" /\ copy[r] = Blank /\ handle[r] = "closed"
      /\ pc' = [pc EXCEPT ![r] = "ssh"] /\ begun' = [begun EXCEPT ![r] = version]
      /\ UNCHANGED <<version, readable, temporary, publication, copy, handle, floor, faults>>
  BY DEF Begin, Running, TypeOK
<1>2. beside \subseteq beside' /\ beside' \subseteq Requests
  BY DEF Begin, Others, TypeOK
<1>3. pc'[r] = "ssh" /\ begun'[r] = version
  BY <1>1 DEF TypeOK
<1>4. \A q \in Requests \ {r} : pc'[q] = pc[q] /\ begun'[q] = begun[q]
  BY <1>1 DEF TypeOK
<1>5. \A q \in beside' : Running(q)'
  BY <1>3, <1>4 DEF Begin, Others, Running, TypeOK
<1>6. TypeOK'
  <2>1. pc' \in [Requests -> Fields \union {"create", "head", "tail", "rename", "idle"}]
    BY <1>1, Facts DEF TypeOK
  <2>2. begun' \in [Requests -> [Sources -> Versions]]
    BY <1>1 DEF TypeOK
  <2>3. mixed' \in BOOLEAN
    BY DEF Begin
  <2>4. \A q \in Requests :
          /\ ~Running(q)' => copy'[q] = Blank /\ q \notin beside'
          /\ handle'[q] # "closed" <=> pc'[q] \in {"head", "tail"}
          /\ handle'[q] = "temporary" => temporary' # None
          /\ handle'[q] = "publication" => publication' # None
    BY <1>1, <1>3, <1>4, <1>5 DEF TypeOK, Running
  <2>5. QED
    BY <1>1, <1>2, <2>1, <2>2, <2>3, <2>4 DEF TypeOK
<1>7. CopyRecent'
  BY <1>1, <1>3, <1>4, TextFacts DEF CopyRecent
<1>8. CopySoFar'
  <2>1. \A f \in Fields : ~(Position[f] < Position["ssh"])
    BY DEF Position, Fields
  <2>2. Shows(r, "ssh")
    BY DEF Shows
  <2>3. QED
    BY <1>1, <1>3, <1>4, <2>1, <2>2, TextFacts DEF CopySoFar, Fields
<1>9. RunsAlone'
  <2>1. CASE Others(r) = {}
    BY <1>2, <1>4, <2>1 DEF RunsAlone, Running, Others
  <2>2. CASE Others(r) # {}
    BY <1>4, <2>2 DEF RunsAlone, Running, Others, Begin
  <2>3. QED
    BY <2>1, <2>2
<1>10. BegunBetween'
  <2>9. \A s \in Sources : version[s] \in Nat
    BY Facts DEF TypeOK
  <2>1. \A s \in Sources : version[s] <= version[s]
    BY <2>9
  <2>2. QED
    BY <1>1, <1>3, <1>4, <2>1 DEF BegunBetween, Running
<1>11. WritesAlone'
  BY <1>1, <1>2, <1>3, <1>4 DEF WritesAlone
<1>12. (beside # {} => mixed)' /\ (mixed => mixed')
  BY DEF Begin
<1>13. AtLeast(temporary, floor)' /\ PicksUp'
  BY <1>1 DEF PicksUp
<1>14. WholeUnlessMixed'
  BY <1>1, <1>12 DEF WholeUnlessMixed
<1>15. QED
  BY <1>6, <1>7, <1>8, <1>9, <1>10, <1>11, <1>12, <1>13, <1>14

\* Request r ends without having published anything.
LEMMA EndsKeeps ==
  ASSUME IInv, NEW r \in Requests, Ends(r),
         UNCHANGED <<version, readable, temporary, publication, mixed, floor>>,
         faults' \in 0..MaxFaults
  PROVE  IInv'
<1> USE DEF IInv
<1>1. /\ pc'[r] = "idle" /\ copy'[r] = Blank /\ handle'[r] = "closed"
      /\ begun'[r] = [s \in Sources |-> 0] /\ beside' = beside \ {r}
  BY DEF Ends, TypeOK
<1>2. \A q \in Requests \ {r} : /\ pc'[q] = pc[q] /\ copy'[q] = copy[q]
                                /\ handle'[q] = handle[q] /\ begun'[q] = begun[q]
  BY DEF Ends, TypeOK
<1>3. TypeOK'
  <2>1. [s \in Sources |-> 0] \in [Sources -> Versions]
    BY Facts
  <2>2. /\ pc' \in [Requests -> Fields \union {"create", "head", "tail", "rename", "idle"}]
        /\ copy' \in [Requests -> Records]
        /\ handle' \in [Requests -> {"temporary", "publication", "nowhere", "closed"}]
        /\ begun' \in [Requests -> [Sources -> Versions]]
        /\ beside' \subseteq Requests
    BY <2>1, TextFacts DEF Ends, TypeOK
  <2>3. \A q \in Requests :
          /\ ~Running(q)' => copy'[q] = Blank /\ q \notin beside'
          /\ handle'[q] # "closed" <=> pc'[q] \in {"head", "tail"}
          /\ handle'[q] = "temporary" => temporary' # None
          /\ handle'[q] = "publication" => publication' # None
    BY <1>1, <1>2 DEF TypeOK, Running
  <2>4. QED
    BY <2>2, <2>3 DEF TypeOK
<1>4. CopyRecent'
  BY <1>1, <1>2, TextFacts DEF CopyRecent
<1>5. CopySoFar'
  BY <1>1, <1>2 DEF CopySoFar, Fields
<1>6. RunsAlone'
  BY <1>1, <1>2 DEF RunsAlone, Running
<1>7. BegunBetween'
  <2>9. \A s \in Sources : version[s] \in Nat
    BY Facts DEF TypeOK
  <2>1. \A s \in Sources : 0 <= version[s] /\ begun'[r][s] = 0
    BY <1>1, <2>9
  <2>2. QED
    BY <1>1, <1>2, <2>1 DEF BegunBetween, Running
<1>8. WritesAlone'
  BY <1>1, <1>2 DEF WritesAlone
<1>9. (beside # {} => mixed)' /\ AtLeast(temporary, floor)' /\ PicksUp' /\ WholeUnlessMixed'
  BY <1>1 DEF PicksUp, WholeUnlessMixed
<1>10. QED
  BY <1>3, <1>4, <1>5, <1>6, <1>7, <1>8, <1>9

\* Request r reads its next field, as new as its source.
LEMMA ReadKeeps ==
  ASSUME IInv, NEW r \in Requests, Read(r), readable[SourceOf[pc[r]]]
  PROVE  IInv'
<1> USE DEF IInv
<1> DEFINE f == pc[r]
           now == version[SourceOf[f]]
<1>1. /\ f \in Fields /\ now \in Versions /\ now # None
      /\ copy' = [copy EXCEPT ![r][f] = now] /\ pc' = [pc EXCEPT ![r] = After(r, f)]
      /\ UNCHANGED <<version, readable, temporary, publication, handle, begun, history, faults>>
  BY Facts DEF Read, TypeOK, history
<1>2. Shows(r, f)
  BY <1>1 DEF CopySoFar
<1>3. \A q \in Requests \ {r} : pc'[q] = pc[q] /\ copy'[q] = copy[q]
  BY <1>1 DEF TypeOK
<1>4. /\ pc'[r] = After(r, f)
      /\ copy'[r] = [copy[r] EXCEPT ![f] = now]
  BY <1>1 DEF TypeOK
<1>5. copy[r] \in Records /\ copy'[r] \in Records
  BY <1>1, <1>4 DEF TypeOK, Records
<1>6. /\ copy'[r][f] = now
      /\ \A g \in Fields \ {f} : copy'[r][g] = copy[r][g]
  BY <1>1, <1>4, <1>5 DEF Records
<1>7. /\ pc'[r] \in Fields \union {"create"}
      /\ pc'[r] \in Fields => Shows(r, pc'[r])
  BY <1>1, <1>2, <1>4, AfterFacts
<1>8. /\ pc'[r] \notin {"idle", "head", "tail", "rename"}
      /\ pc[r] \notin {"idle", "head", "tail", "rename", "create"}
  BY <1>1, <1>7 DEF Fields
<1>9. TypeOK'
  <2>1. /\ pc' \in [Requests -> Fields \union {"create", "head", "tail", "rename", "idle"}]
        /\ copy' \in [Requests -> Records]
    BY <1>1, <1>4, <1>5, <1>7 DEF TypeOK
  <2>2. \A q \in Requests :
          /\ ~Running(q)' => copy'[q] = Blank /\ q \notin beside'
          /\ handle'[q] # "closed" <=> pc'[q] \in {"head", "tail"}
          /\ handle'[q] = "temporary" => temporary' # None
          /\ handle'[q] = "publication" => publication' # None
    BY <1>1, <1>3, <1>8 DEF TypeOK, Running, history
  <2>3. QED
    BY <1>1, <2>1, <2>2 DEF TypeOK, history
<1>10. CopyRecent'
  <2>1. begun[r][SourceOf[f]] <= now
    BY <1>1, Facts DEF BegunBetween
  <2>2. QED
    BY <1>1, <1>3, <1>6, <2>1 DEF CopyRecent
<1>11. CopySoFar'
  <2>1. \A g \in Fields : copy'[r][g] # None <=>
                           (g = f \/ (Shows(r, g) /\ Position[g] < Position[f]))
    BY <1>1, <1>6 DEF CopySoFar
  <2>2. pc'[r] \in Fields => \A g \in Fields :
          copy'[r][g] # None <=> (Shows(r, g) /\ Position[g] < Position[pc'[r]])
    BY <1>1, <1>2, <1>4, <2>1, AfterOrder
  <2>3. pc'[r] = "create" => Complete(r, copy'[r])
    BY <1>1, <1>2, <1>4, <2>1, AfterOrder DEF Complete
  <2>4. QED
    BY <1>3, <1>7, <1>8, <2>2, <2>3 DEF CopySoFar
<1>12. RunsAlone' /\ BegunBetween'
  BY <1>1, <1>3, <1>8 DEF RunsAlone, BegunBetween, Running, history
<1>13. WritesAlone'
  BY <1>1, <1>3, <1>8 DEF WritesAlone, history
<1>14. (beside # {} => mixed)' /\ AtLeast(temporary, floor)' /\ PicksUp' /\ WholeUnlessMixed'
  BY <1>1 DEF PicksUp, WholeUnlessMixed, history
<1>15. QED
  BY <1>9, <1>10, <1>11, <1>12, <1>13, <1>14

\* Request r opens publication.tmp empty; where it runs alone nobody else
\* writes it.
LEMMA CreateKeeps ==
  ASSUME IInv, NEW r \in Requests, Create(r)
  PROVE  IInv'
<1> USE DEF IInv
<1>1. /\ pc[r] = "create" /\ pc'[r] = "head" /\ handle'[r] = "temporary" /\ temporary' = Empty
      /\ UNCHANGED <<version, readable, publication, copy, begun, history, faults>>
  BY DEF Create, TypeOK
<1>2. \A q \in Requests \ {r} : pc'[q] = pc[q] /\ handle'[q] = handle[q]
  BY DEF Create, TypeOK
<1>3. Empty \in Texts /\ Empty # None
  BY TextFacts, NoneAssumption
<1>4. TypeOK'
  <2>1. /\ pc' \in [Requests -> Fields \union {"create", "head", "tail", "rename", "idle"}]
        /\ handle' \in [Requests -> {"temporary", "publication", "nowhere", "closed"}]
    BY DEF Create, TypeOK
  <2>2. \A q \in Requests :
          /\ ~Running(q)' => copy'[q] = Blank /\ q \notin beside'
          /\ handle'[q] # "closed" <=> pc'[q] \in {"head", "tail"}
          /\ handle'[q] = "temporary" => temporary' # None
          /\ handle'[q] = "publication" => publication' # None
    BY <1>1, <1>2, <1>3 DEF TypeOK, Running, history
  <2>3. QED
    BY <1>1, <1>3, <2>1, <2>2 DEF TypeOK, history
<1>5. CopyRecent' /\ RunsAlone' /\ BegunBetween'
  BY <1>1, <1>2 DEF CopyRecent, RunsAlone, BegunBetween, Running, history
<1>6. CopySoFar'
  BY <1>1, <1>2 DEF CopySoFar, Fields
<1>7. WritesAlone'
  <2>1. \A q \in Requests \ beside : q # r => ~Running(q)
    BY <1>1 DEF RunsAlone, Running
  <2>2. \A q \in Requests \ beside : q # r => pc'[q] = "idle" /\ handle'[q] = "closed"
    BY <1>2, <2>1 DEF Running, TypeOK
  <2>3. QED
    BY <1>1, <2>2 DEF WritesAlone, history
<1>8. AtLeast(temporary, floor)'
  <2>1. \A f \in Fields : Blank[f] = None
    BY TextFacts
  <2>2. QED
    BY <1>1, <2>1 DEF AtLeast, Empty
<1>9. (beside # {} => mixed)' /\ PicksUp' /\ WholeUnlessMixed'
  BY <1>1 DEF PicksUp, WholeUnlessMixed, history
<1>10. QED
  BY <1>4, <1>5, <1>6, <1>7, <1>8, <1>9

\* Request r writes a part to the file it has opened: its own where it runs
\* alone, wherever that file is by now where it does not.
LEMMA WriteKeeps ==
  ASSUME IInv, NEW r \in Requests, Write(r)
  PROVE  IInv'
<1> USE DEF IInv
<1> DEFINE part == pc[r]
           more == part = "head" /\ Long(copy[r])
<1>1. /\ part \in {"head", "tail"} /\ Running(r) /\ handle[r] # "closed"
      /\ copy[r] \in Records
      /\ UNCHANGED <<version, readable, copy, begun, history, faults>>
  BY DEF Write, TypeOK, Running
<1>2. /\ pc'[r] = (IF more THEN "tail" ELSE "rename")
      /\ handle'[r] = (IF more THEN handle[r] ELSE "closed")
  BY DEF Write, TypeOK
<1>3. \A q \in Requests \ {r} : pc'[q] = pc[q] /\ handle'[q] = handle[q]
  BY DEF Write, TypeOK
<1>4. \A f \in Fields : copy[r][f] # None => floor[SourceOf[f]] <= copy[r][f]
  BY CopyAboveFloor
<1>5. /\ handle[r] = "temporary" =>
           temporary \in Texts /\ temporary' = [temporary EXCEPT ![part] = copy[r]]
      /\ handle[r] # "temporary" => temporary' = temporary
      /\ handle[r] = "publication" =>
           publication \in Texts /\ publication' = [publication EXCEPT ![part] = copy[r]]
      /\ handle[r] # "publication" => publication' = publication
  BY DEF Write, TypeOK
<1>6. /\ temporary' \in Texts \union {None} /\ AtLeast(temporary', floor)
      /\ temporary # None => temporary' # None
  <2>1. CASE handle[r] = "temporary"
    <3>1. temporary \in Texts /\ AtLeast(temporary, floor)
      BY <1>5, <2>1
    <3>2. /\ [temporary EXCEPT ![part] = copy[r]] \in Texts
          /\ AtLeast([temporary EXCEPT ![part] = copy[r]], floor)
      BY <1>1, <1>4, <3>1, Overwritten
    <3>3. QED
      BY <1>5, <2>1, <3>2, NoneAssumption
  <2>2. CASE handle[r] # "temporary"
    BY <1>5, <2>2 DEF TypeOK
  <2>3. QED
    BY <2>1, <2>2
<1>7. /\ publication' \in Texts \union {None} /\ AtLeast(publication', floor)
      /\ publication # None => publication' # None
  <2>1. CASE handle[r] = "publication"
    <3>1. publication \in Texts /\ AtLeast(publication, floor)
      BY <1>5, <2>1 DEF PicksUp
    <3>2. /\ [publication EXCEPT ![part] = copy[r]] \in Texts
          /\ AtLeast([publication EXCEPT ![part] = copy[r]], floor)
      BY <1>1, <1>4, <3>1, Overwritten
    <3>3. QED
      BY <1>5, <2>1, <3>2, NoneAssumption
  <2>2. CASE handle[r] # "publication"
    BY <1>5, <2>2 DEF TypeOK, PicksUp
  <2>3. QED
    BY <2>1, <2>2
<1>8. TypeOK'
  <2>1. /\ pc' \in [Requests -> Fields \union {"create", "head", "tail", "rename", "idle"}]
        /\ handle' \in [Requests -> {"temporary", "publication", "nowhere", "closed"}]
    BY DEF Write, TypeOK
  <2>2. \A q \in Requests :
          /\ ~Running(q)' => copy'[q] = Blank /\ q \notin beside'
          /\ handle'[q] # "closed" <=> pc'[q] \in {"head", "tail"}
          /\ handle'[q] = "temporary" => temporary' # None
          /\ handle'[q] = "publication" => publication' # None
    BY <1>1, <1>2, <1>3, <1>6, <1>7 DEF TypeOK, Running, history
  <2>3. QED
    BY <1>1, <1>6, <1>7, <2>1, <2>2 DEF TypeOK, history
<1>9. CopyRecent' /\ RunsAlone' /\ BegunBetween'
  BY <1>1, <1>2, <1>3 DEF CopyRecent, RunsAlone, BegunBetween, Running, history
<1>10. CopySoFar'
  BY <1>1, <1>2, <1>3 DEF CopySoFar, Fields
<1>11. r \notin beside => handle[r] = "temporary"
  BY <1>1 DEF WritesAlone
<1>12. WritesAlone'
  <2>1. \A q \in Requests \ beside : q # r => ~Running(q)
    BY <1>1 DEF RunsAlone
  <2>2. \A q \in Requests \ beside : q # r => pc'[q] = "idle" /\ handle'[q] = "closed"
    BY <1>3, <2>1 DEF Running, TypeOK
  <2>3. ASSUME r \notin beside
        PROVE  /\ handle'[r] \in {"temporary", "closed"}
               /\ pc'[r] \in {"tail", "rename"}
               /\ pc'[r] = "tail" =>
                    temporary' = [head |-> copy[r], tail |-> Blank] /\ Long(copy[r])
               /\ pc'[r] = "rename" => temporary' = TextOf(copy[r])
    <3>1. handle[r] = "temporary" /\ temporary' = [temporary EXCEPT ![part] = copy[r]]
      BY <1>5, <1>11, <2>3
    <3>2. CASE part = "head"
      <4>1. temporary = [head |-> Blank, tail |-> Blank]
        BY <2>3, <3>2 DEF WritesAlone, Empty
      <4>2. temporary' = [head |-> copy[r], tail |-> Blank]
        BY <3>1, <3>2, <4>1
      <4>3. QED
        BY <1>1, <1>2, <3>1, <3>2, <4>2, TextFacts
    <3>3. CASE part = "tail"
      <4>1. temporary = [head |-> copy[r], tail |-> Blank] /\ Long(copy[r])
        BY <2>3, <3>3 DEF WritesAlone
      <4>2. temporary' = [head |-> copy[r], tail |-> copy[r]]
        BY <3>1, <3>3, <4>1
      <4>3. QED
        BY <1>1, <1>2, <3>1, <3>3, <4>1, <4>2, TextFacts
    <3>4. QED
      BY <1>1, <3>2, <3>3
  <2>4. QED
    BY <1>1, <2>2, <2>3 DEF WritesAlone, history
<1>13. WholeUnlessMixed'
  BY <1>1, <1>5, <1>11 DEF WholeUnlessMixed, history
<1>14. (beside # {} => mixed)' /\ AtLeast(temporary, floor)' /\ PicksUp'
  BY <1>1, <1>6, <1>7 DEF PicksUp, history
<1>15. QED
  BY <1>8, <1>9, <1>10, <1>12, <1>13, <1>14

\* Request r publishes publication.tmp: what it has read itself where it runs
\* alone, and then nobody else has a file open.
LEMMA RenameKeeps ==
  ASSUME IInv, NEW r \in Requests, Rename(r)
  PROVE  IInv'
<1> USE DEF IInv
<1>1. /\ pc[r] = "rename" /\ Running(r) /\ temporary # None
      /\ publication' = temporary /\ temporary' = None
      /\ pc'[r] = "idle" /\ copy'[r] = Blank /\ begun'[r] = [s \in Sources |-> 0]
      /\ beside' = beside \ {r}
      /\ UNCHANGED <<version, readable, faults>>
  BY DEF Rename, TypeOK, Running
<1>2. \A q \in Requests \ {r} : pc'[q] = pc[q] /\ copy'[q] = copy[q] /\ begun'[q] = begun[q]
  BY DEF Rename, TypeOK
<1>3. \A q \in Requests :
        /\ handle'[q] \in {"publication", "nowhere", "closed"}
        /\ handle'[q] = "closed" <=> handle[q] = "closed"
  BY DEF Rename, Moved, TypeOK
<1>4. r \notin beside => \A q \in Requests \ {r} : ~Running(q)
  BY <1>1 DEF RunsAlone
<1>5. \A q \in Requests \ beside : q # r => ~Running(q)
  BY <1>1 DEF RunsAlone
<1>6. floor' \in [Sources -> Versions] /\ begun[r] \in [Sources -> Versions]
  BY DEF Rename, TypeOK
<1>7. TypeOK'
  <2>1. [s \in Sources |-> 0] \in [Sources -> Versions]
    BY Facts
  <2>2. /\ pc' \in [Requests -> Fields \union {"create", "head", "tail", "rename", "idle"}]
        /\ copy' \in [Requests -> Records]
        /\ begun' \in [Requests -> [Sources -> Versions]]
        /\ mixed' \in BOOLEAN
    BY <2>1, TextFacts DEF Rename, TypeOK
  <2>3. handle' \in [Requests -> {"temporary", "publication", "nowhere", "closed"}]
    BY <1>3 DEF Rename
  <2>4. \A q \in Requests :
          /\ ~Running(q)' => copy'[q] = Blank /\ q \notin beside'
          /\ handle'[q] # "closed" <=> pc'[q] \in {"head", "tail"}
          /\ handle'[q] = "temporary" => temporary' # None
          /\ handle'[q] = "publication" => publication' # None
    BY <1>1, <1>2, <1>3 DEF TypeOK, Running
  <2>5. QED
    BY <1>1, <1>6, <2>2, <2>3, <2>4 DEF TypeOK
<1>8. CopyRecent'
  BY <1>1, <1>2, TextFacts DEF CopyRecent
<1>9. CopySoFar'
  BY <1>1, <1>2 DEF CopySoFar, Fields
<1>10. RunsAlone'
  BY <1>1, <1>2 DEF RunsAlone, Running
<1>11. BegunBetween'
  <2>1. \A s \in Sources : version[s] \in Nat
    BY Facts DEF TypeOK
  <2>2. \A s \in Sources : 0 <= version[s] /\ begun'[r][s] = 0
    BY <1>1, <2>1
  <2>3. CASE r \in beside
    BY <1>1, <1>2, <2>2, <2>3 DEF BegunBetween, Running, Rename
  <2>4. CASE r \notin beside
    <3>1. floor' = begun[r] /\ \A q \in Requests : ~Running(q)'
      BY <1>1, <1>2, <1>4, <2>4 DEF Rename, Running
    <3>2. QED
      BY <1>1, <1>2, <2>2, <3>1 DEF BegunBetween
  <2>5. QED
    BY <2>3, <2>4
<1>12. WritesAlone'
  <2>1. \A q \in Requests \ beside' : pc'[q] = "idle"
    BY <1>1, <1>2, <1>5 DEF Running
  <2>2. \A q \in Requests \ beside' : handle'[q] = "closed"
    BY <1>7, <2>1 DEF TypeOK
  <2>3. QED
    BY <2>1, <2>2 DEF WritesAlone
<1>13. (beside # {} => mixed)' /\ AtLeast(temporary, floor)'
  <2>1. r \notin beside => beside' = {}
    BY <1>1, <1>4 DEF TypeOK
  <2>2. QED
    BY <1>1, <2>1 DEF Rename, AtLeast
<1>14. PicksUp' /\ WholeUnlessMixed'
  <2>1. CASE r \in beside
    BY <1>1, <2>1 DEF Rename, PicksUp, WholeUnlessMixed
  <2>2. CASE r \notin beside
    <3>1. publication' = TextOf(copy[r]) /\ floor' = begun[r] /\ copy[r] \in Records
      BY <1>1, <2>2 DEF Rename, WritesAlone, TypeOK
    <3>2. AtLeast(TextOf(copy[r]), begun[r])
      BY <3>1, RecentText DEF CopyRecent
    <3>3. TextOf(copy[r]).head = copy[r] /\ Complete(r, copy[r])
      BY <1>1, <3>1, TextFacts DEF CopySoFar
    <3>4. Whole(TextOf(copy[r]))
      BY <3>3 DEF Whole
    <3>5. QED
      BY <3>1, <3>2, <3>4 DEF PicksUp, WholeUnlessMixed
  <2>3. QED
    BY <2>1, <2>2
<1>15. QED
  BY <1>7, <1>8, <1>9, <1>10, <1>11, <1>12, <1>13, <1>14

\* The owner of a source takes it away, or puts a newer one there.
LEMMA SourceKeeps ==
  ASSUME IInv, NEW s \in Sources, Retire(s) \/ Renew(s)
  PROVE  IInv'
<1> USE DEF IInv
<1>1. UNCHANGED <<temporary, publication, pc, copy, handle, begun, beside, mixed, floor, faults>>
  BY DEF Retire, Renew, request, history
<1>2. /\ version' \in [Sources -> Versions]
      /\ \A t \in Sources : version[t] <= version'[t]
      /\ readable' \in [Sources -> BOOLEAN]
      /\ \A t \in Sources : ~readable'[t] => version'[t] < MaxVersion
  <2>1. \A t \in Sources : version[t] \in Nat
    BY Facts DEF TypeOK
  <2>2. CASE Retire(s)
    BY <2>1, <2>2 DEF Retire, TypeOK
  <2>3. CASE Renew(s)
    <3>1. version[s] \in 0..MaxVersion /\ version[s] < MaxVersion
      BY <2>3 DEF Renew, TypeOK, Versions
    <3>2. version[s] + 1 \in Versions /\ version[s] <= version[s] + 1
      BY <3>1, BoundsAssumption DEF Versions
    <3>3. \A t \in Sources : version'[t] = IF t = s THEN version[s] + 1 ELSE version[t]
      BY <2>3 DEF Renew, TypeOK
    <3>4. \A t \in Sources : readable'[t] = IF t = s THEN TRUE ELSE readable[t]
      BY <2>3 DEF Renew, TypeOK
    <3>5. version' \in [Sources -> Versions] /\ readable' \in [Sources -> BOOLEAN]
      BY <2>3, <3>2 DEF Renew, TypeOK
    <3>6. \A t \in Sources : version[t] <= version[t]
      BY <2>1
    <3>7. QED
      BY <3>2, <3>3, <3>4, <3>5, <3>6 DEF TypeOK
  <2>4. QED
    BY <2>2, <2>3
<1>3. TypeOK'
  BY <1>1, <1>2 DEF TypeOK, Running
<1>4. BegunBetween'
  <2>1. \A r \in Requests, t \in Sources :
          begun[r][t] \in Nat /\ floor[t] \in Nat /\ version[t] \in Nat /\ version'[t] \in Nat
    BY <1>2, Facts DEF TypeOK
  <2>2. \A r \in Requests, t \in Sources : begun[r][t] <= version'[t]
    BY <1>2, <2>1 DEF BegunBetween
  <2>3. \A t \in Sources : floor[t] \in Nat /\ version[t] \in Nat /\ version'[t] \in Nat
    BY <1>2, Facts DEF TypeOK
  <2>4. \A t \in Sources : floor[t] <= version'[t]
    BY <1>2, <2>3 DEF BegunBetween
  <2>5. QED
    BY <1>1, <2>2, <2>4 DEF BegunBetween, Running
<1>5. CopyRecent' /\ CopySoFar' /\ RunsAlone' /\ WritesAlone'
  BY <1>1 DEF CopyRecent, CopySoFar, RunsAlone, WritesAlone, Running
<1>6. (beside # {} => mixed)' /\ AtLeast(temporary, floor)' /\ PicksUp' /\ WholeUnlessMixed'
  BY <1>1 DEF PicksUp, WholeUnlessMixed
<1>7. QED
  BY <1>3, <1>4, <1>5, <1>6

-----------------------------------------------------------------------------
(* The inductive invariant and what follows from it.                       *)

\* Every step keeps the invariant.
LEMMA InvStep ==
  ASSUME IInv, [Next]_vars
  PROVE  IInv'
<1>1. ASSUME NEW r \in Requests, Begin(r)
      PROVE  IInv'
  BY <1>1, BeginKeeps
<1>2. ASSUME NEW r \in Requests, Step(r)
      PROVE  IInv'
  <2>1. CASE Read(r)
    <3>1. CASE readable[SourceOf[pc[r]]]
      BY <2>1, <3>1, ReadKeeps
    <3>2. CASE ~readable[SourceOf[pc[r]]]
      <4>1. /\ Ends(r) /\ faults' \in 0..MaxFaults
            /\ UNCHANGED <<version, readable, temporary, publication, mixed, floor>>
        BY <2>1, <3>2 DEF Read, IInv, TypeOK
      <4>2. QED
        BY <4>1, EndsKeeps
    <3>3. QED
      BY <3>1, <3>2
  <2>2. CASE Create(r)
    BY <2>2, CreateKeeps
  <2>3. CASE Write(r)
    BY <2>3, WriteKeeps
  <2>4. CASE Rename(r)
    BY <2>4, RenameKeeps
  <2>5. CASE RenameFails(r)
    <3>1. /\ Ends(r) /\ faults' \in 0..MaxFaults
          /\ UNCHANGED <<version, readable, temporary, publication, mixed, floor>>
      BY <2>5 DEF RenameFails, IInv, TypeOK
    <3>2. QED
      BY <3>1, EndsKeeps
  <2>6. QED
    BY <1>2, <2>1, <2>2, <2>3, <2>4, <2>5 DEF Step
<1>3. ASSUME NEW r \in Requests, Fail(r)
      PROVE  IInv'
  <2>1. faults' \in 0..MaxFaults
    BY <1>3, BoundsAssumption DEF Fail, IInv, TypeOK
  <2>2. QED
    BY <1>3, <2>1, EndsKeeps DEF Fail
<1>4. ASSUME NEW s \in Sources, Retire(s) \/ Renew(s)
      PROVE  IInv'
  BY <1>4, SourceKeeps
<1>5. CASE UNCHANGED vars
  <2>1. UNCHANGED <<version, readable, temporary, publication, pc, copy, handle, begun,
                    beside, mixed, floor, faults>>
    BY <1>5 DEF vars, request, history
  <2>2. TypeOK' /\ CopyRecent' /\ CopySoFar' /\ RunsAlone'
    BY <2>1 DEF IInv, TypeOK, CopyRecent, CopySoFar, RunsAlone, Running
  <2>3. BegunBetween' /\ WritesAlone' /\ PicksUp' /\ WholeUnlessMixed'
    BY <2>1 DEF IInv, BegunBetween, WritesAlone, PicksUp, WholeUnlessMixed, Running
  <2>4. (beside # {} => mixed)' /\ AtLeast(temporary, floor)'
    BY <2>1 DEF IInv
  <2>5. QED
    BY <2>2, <2>3, <2>4 DEF IInv
<1>6. QED
  BY <1>1, <1>2, <1>3, <1>4, <1>5 DEF Next

\* The invariant, of every run.
THEOREM InvariantHolds == Spec => []IInv
BY InvInit, InvStep, PTL DEF Spec

\* A request that runs beside no other publishes, and every later one keeps
\* however it races with others, at least the versions its sources had when it
\* began.
THEOREM PicksUpHolds == Spec => []PicksUp
<1>1. IInv => PicksUp
  BY DEF IInv
<1>2. QED
  BY <1>1, InvariantHolds, PTL

\* Only requests that run side by side tear a publication, and one that runs
\* alone mends it.
THEOREM WholeHolds == Spec => []WholeUnlessMixed
<1>1. IInv => WholeUnlessMixed
  BY DEF IInv
<1>2. QED
  BY <1>1, InvariantHolds, PTL
=============================================================================
