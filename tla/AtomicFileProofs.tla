--------------------------- MODULE AtomicFileProofs ---------------------------
(***************************************************************************)
(* What AtomicFile keeps for any number of writers, targets, inodes and    *)
(* chunks.  Types need no assumption; everything else needs Serial, that   *)
(* the caller sequences the calls that share a temporary name.             *)
(***************************************************************************)
EXTENDS AtomicFile, TLAPS

\* Targets and temporary names are names, and no name is both.
LEMMA NamesFacts ==
  /\ Paths \subseteq Names
  /\ TmpNames \subseteq Names
  /\ \A p \in Paths : Tmp[p] \in TmpNames /\ Tmp[p] \in Names /\ Tmp[p] \notin Paths
  /\ \A n \in TmpNames : n \notin Paths
  /\ \A n \in Names : n \in Paths \/ n \in TmpNames
BY TmpAssumption DEF Names, TmpNames

\* The empty file and a complete file are byte strings.
LEMMA BytesFacts ==
  /\ Empty \in Bytes
  /\ \A c \in Contents : Whole(c) \in Bytes
  /\ 1 \in 1..Chunks
BY ChunksAssumption DEF Empty, Whole, Bytes

\* A call in flight has a target, so its temporary name is one of the names.
LEMMA TmpOfFacts ==
  ASSUME TypeOK, NEW w \in Writers, Active(w)
  PROVE  /\ path[w] \in Paths
         /\ content[w] \in Contents
         /\ TmpOf(w) \in TmpNames
         /\ TmpOf(w) \in Names
         /\ TmpOf(w) \notin Paths
BY NamesFacts DEF TypeOK, TmpOf

\* After a power failure every chunk is the one last read or the one last
\* synced, so an inode whose bytes were synced keeps them.
LEMMA PowerLossBytes ==
  ASSUME TypeOK, PowerLoss
  PROVE  /\ bytes' \in [Inodes -> Bytes]
         /\ \A i \in Inodes : synced[i] = bytes[i] => bytes'[i] = bytes[i]
<1>1. PICK lost :
        bytes' = [i \in Inodes |-> [k \in 1..Chunks |->
                    IF <<i, k>> \in lost THEN synced[i][k] ELSE bytes[i][k]]]
  BY DEF PowerLoss
<1>2. ASSUME NEW i \in Inodes
      PROVE  /\ bytes'[i] \in Bytes
             /\ synced[i] = bytes[i] => bytes'[i] = bytes[i]
  <2>1. bytes'[i] = [k \in 1..Chunks |-> IF <<i, k>> \in lost THEN synced[i][k] ELSE bytes[i][k]]
    BY <1>1
  <2>2. bytes[i] \in [1..Chunks -> Contents \union {None}]
    BY DEF TypeOK, Bytes
  <2>3. synced[i] \in [1..Chunks -> Contents \union {None}]
    BY DEF TypeOK, Bytes
  <2>4. QED
    BY <2>1, <2>2, <2>3 DEF Bytes
<1>3. QED
  BY <1>1, <1>2

\* The initial state is well typed.
LEMMA TypeInit == Init => TypeOK
BY BytesFacts, NoneAssumption DEF Init, TypeOK, Modes, Active, Open

\* Every system call, fault and journal commit keeps the types.
LEMMA TypeStep ==
  ASSUME TypeOK, [Next]_vars
  PROVE  TypeOK'
<1>1. ASSUME NEW w \in Writers, NEW p \in Paths, NEW c \in Contents, NEW i \in Inodes,
             Begin(w, p, c, i)
      PROVE  TypeOK'
  <2>1. dir' \in [Names -> Inodes \union {None}] /\ bytes' \in [Inodes -> Bytes]
    BY <1>1, NamesFacts, BytesFacts DEF TypeOK, Begin
  <2>2. mode' \in [Inodes -> Modes] /\ synced' \in [Inodes -> Bytes]
    BY <1>1, BytesFacts DEF TypeOK, Begin, Creates, Modes
  <2>3. QED
    BY <1>1, <2>1, <2>2, BytesFacts, NoneAssumption DEF TypeOK, Begin, Active, Open, disk
<1>2. ASSUME NEW w \in Writers, WriteChunk(w)
      PROVE  TypeOK'
  <2>1. fd[w] \in Inodes /\ at[w] \in 1..Chunks /\ content[w] \in Contents
    BY <1>2 DEF TypeOK, WriteChunk, Active, Open
  <2>2. bytes' \in [Inodes -> Bytes]
    BY <1>2, <2>1 DEF TypeOK, WriteChunk, Bytes
  <2>3. at' \in [Writers -> 1..Chunks]
    BY <1>2, <2>1, ChunksAssumption DEF TypeOK, WriteChunk
  <2>4. QED
    BY <1>2, <2>2, <2>3 DEF TypeOK, WriteChunk, Active, Open, disk
<1>3. ASSUME NEW w \in Writers, Sync(w)
      PROVE  TypeOK'
  BY <1>3 DEF TypeOK, Sync, Active, Open, disk
<1>4. ASSUME NEW w \in Writers, SetPermissions(w)
      PROVE  TypeOK'
  <2>1. path[w] \in Paths /\ dir[TmpOf(w)] \in Inodes
    BY <1>4, TmpOfFacts DEF TypeOK, SetPermissions, Active
  <2>2. mode' \in [Inodes -> Modes]
    BY <1>4, <2>1 DEF TypeOK, SetPermissions, Modes
  <2>3. QED
    BY <1>4, <2>2 DEF TypeOK, SetPermissions, Active, Open, disk
<1>5. ASSUME NEW w \in Writers, Return(w)
      PROVE  /\ pc' \in [Writers -> {"idle", "write", "sync", "chmod", "rename"}]
             /\ path' \in [Writers -> Paths \union {None}]
             /\ content' \in [Writers -> Contents \union {None}]
             /\ fd' \in [Writers -> Inodes \union {None}]
             /\ at' \in [Writers -> 1..Chunks]
             /\ \A v \in Writers : Active(v)' => path'[v] # None /\ content'[v] # None
             /\ \A v \in Writers : Open(v)' <=> pc'[v] \in {"write", "sync"}
  BY <1>5, BytesFacts DEF TypeOK, Return, Active, Open
<1>6. ASSUME NEW w \in Writers, Rename(w)
      PROVE  TypeOK'
  <2>1. dir' \in [Names -> Inodes \union {None}]
    BY <1>6, TmpOfFacts, NamesFacts DEF TypeOK, Rename, Active
  <2>2. QED
    BY <1>5, <1>6, <2>1 DEF TypeOK, Rename, disk
<1>7. ASSUME NEW w \in Writers, Abort(w)
      PROVE  TypeOK'
  BY <1>5, <1>7 DEF TypeOK, Abort, disk
<1>8. ASSUME NEW n \in Names, Remove(n)
      PROVE  TypeOK'
  BY <1>8 DEF TypeOK, Remove, Active, Open, disk, writer
<1>9. ASSUME Commit
      PROVE  TypeOK'
  BY <1>9 DEF TypeOK, Commit, Active, Open, writer
<1>10. ASSUME PowerLoss
       PROVE  TypeOK'
  <2>1. bytes' \in [Inodes -> Bytes]
    BY <1>10, PowerLossBytes
  <2>2. QED
    BY <1>10, <2>1, BytesFacts DEF TypeOK, PowerLoss, Active, Open, disk
<1>11. CASE UNCHANGED vars
  BY <1>11 DEF TypeOK, vars, disk, writer, Active, Open
<1>12. QED
  BY <1>1, <1>2, <1>3, <1>4, <1>6, <1>7, <1>8, <1>9, <1>10, <1>11 DEF Next, Step

\* Every variable keeps its type, and a call in flight has its locals.
THEOREM TypeCorrect == Spec => []TypeOK
BY TypeInit, TypeStep, PTL DEF Spec

-----------------------------------------------------------------------------
(* The inductive invariant, one lemma per action.                          *)

\* With no file and no call there is nothing to break.
LEMMA InvInit == Init => IInv
<1> SUFFICES ASSUME Init PROVE IInv
  OBVIOUS
<1>1. /\ \A n \in Names : dir[n] = None /\ diskDir[n] = None
      /\ \A w \in Writers : pc[w] = "idle" /\ fd[w] = None
  BY DEF Init
<1>2. QED
  BY <1>1, TypeInit, NamesFacts DEF IInv, Exclusive, DescriptorPrivate, Injective,
     TmpUncommitted, TargetsGood, Progress, Active, Open

\* The inode File::create opens is private: no open descriptor, no other name
\* and no committed target has it.
LEMMA CreatedPrivate ==
  ASSUME Serial, IInv, NEW w \in Writers, NEW p \in Paths, NEW c \in Contents,
         NEW i \in Inodes, Begin(w, p, c, i)
  PROVE  /\ \A v \in Writers : Open(v) => fd[v] # i
         /\ \A n \in Names : dir[n] = i => n = Tmp[p]
         /\ \A q \in Paths : diskDir[q] # i
         /\ \A v \in Writers \ {w} : Active(v) => TmpOf(v) # Tmp[p]
<1>1. \A v \in Writers \ {w} : Active(v) => TmpOf(v) # Tmp[p]
  BY DEF Begin, Sequenced
<1>2. CASE dir[Tmp[p]] = None
  BY <1>1, <1>2, NamesFacts DEF Begin, Creates, Free
<1>3. CASE dir[Tmp[p]] # None
  <2>1. i = dir[Tmp[p]]
    BY <1>3 DEF Begin, Creates
  <2>2. \A v \in Writers : Open(v) => Active(v) /\ v # w
    BY DEF IInv, TypeOK, Active, Begin
  <2>3. \A v \in Writers : Open(v) => fd[v] # i
    BY <1>1, <2>1, <2>2, NamesFacts DEF IInv, DescriptorPrivate
  <2>4. QED
    BY <1>1, <1>3, <2>1, <2>3, NamesFacts DEF IInv, Injective, TmpUncommitted
<1>4. QED
  BY <1>2, <1>3

\* File::create opens a private inode, so it truncates no target and disturbs
\* no other call.
LEMMA InvBegin ==
  ASSUME Serial, IInv, NEW w \in Writers, NEW p \in Paths, NEW c \in Contents,
         NEW i \in Inodes, Begin(w, p, c, i)
  PROVE  IInv'
<1>1. TypeOK /\ TypeOK'
  BY TypeStep DEF IInv, Next, Step
<1>2. /\ \A v \in Writers : Open(v) => fd[v] # i
      /\ \A n \in Names : dir[n] = i => n = Tmp[p]
      /\ \A q \in Paths : diskDir[q] # i
      /\ \A v \in Writers \ {w} : Active(v) => TmpOf(v) # Tmp[p]
  BY CreatedPrivate
<1>3. /\ \A n \in Names : dir'[n] = IF n = Tmp[p] THEN i ELSE dir[n]
      /\ \A v \in Writers : v # w =>
           /\ pc'[v] = pc[v] /\ path'[v] = path[v] /\ content'[v] = content[v]
           /\ fd'[v] = fd[v] /\ at'[v] = at[v]
      /\ pc'[w] = "write" /\ path'[w] = p /\ fd'[w] = i /\ at'[w] = 1
      /\ diskDir' = diskDir /\ diskMode' = diskMode
      /\ \A j \in Inodes : j # i =>
           bytes'[j] = bytes[j] /\ synced'[j] = synced[j] /\ mode'[j] = mode[j]
  BY <1>1, NamesFacts DEF Begin, Creates, TypeOK, disk
<1>4. \A n \in Names : dir[n] # None => dir[n] \in Inodes
  BY <1>1 DEF TypeOK
<1>5. \A v \in Writers : Active(v) => TmpOf(v) \in TmpNames /\ TmpOf(v) \in Names
  BY <1>1, TmpOfFacts
<1>6. i # None
  BY NoneAssumption
<1>7. Exclusive'
  BY <1>2, <1>3 DEF IInv, Exclusive, Active, TmpOf
<1>8. DescriptorPrivate'
  <2>1. \A v \in Writers : Open(v) => Active(v)
    BY <1>1 DEF TypeOK, Active
  <2>2. \A v \in Writers : v # w => (Open(v)' <=> Open(v)) /\ TmpOf(v)' = TmpOf(v)
    BY <1>3 DEF Open, TmpOf
  <2>3. TmpOf(w)' = Tmp[p]
    BY <1>3 DEF TmpOf
  <2>4. ASSUME NEW u \in Writers, NEW v \in Writers, u # v, Open(u)'
        PROVE  fd'[u] # fd'[v]
    BY <1>2, <1>3, <1>6, <2>2, <2>4 DEF IInv, DescriptorPrivate, Open
  <2>5. ASSUME NEW v \in Writers, Open(v)'
        PROVE  /\ dir'[TmpOf(v)'] \in {fd'[v], None}
               /\ \A n \in Names : dir'[n] = fd'[v] => n = TmpOf(v)'
               /\ \A q \in Paths : diskDir'[q] # fd'[v]
    <3>1. CASE v = w
      BY <1>2, <1>3, <2>3, <3>1, NamesFacts
    <3>2. CASE v # w
      BY <1>2, <1>3, <1>5, <2>1, <2>2, <2>5, <3>2 DEF IInv, DescriptorPrivate
    <3>3. QED
      BY <3>1, <3>2
  <2>6. QED
    BY <2>4, <2>5 DEF DescriptorPrivate
<1>9. Injective(dir)' /\ Injective(diskDir)'
  BY <1>2, <1>3 DEF IInv, Injective
<1>10. TmpUncommitted'
  BY <1>2, <1>3, NamesFacts DEF IInv, TmpUncommitted
<1>11. TargetsGood'
  <2>1. \A q \in Paths : dir'[q] = dir[q] /\ dir[q] # i /\ diskDir[q] # i
    BY <1>2, <1>3, NamesFacts
  <2>2. \A q \in Paths : diskDir[q] # None => diskDir[q] \in Inodes
    BY <1>1, NamesFacts DEF TypeOK
  <2>3. QED
    BY <1>3, <1>4, <2>1, <2>2, NamesFacts DEF IInv, TargetsGood, Good
<1>12. Progress'
  <2>1. ASSUME NEW v \in Writers, v # w
        PROVE  /\ pc'[v] \in {"write", "sync"} => bytes'[fd'[v]] = bytes[fd[v]]
               /\ pc'[v] \in {"chmod", "rename"} =>
                    dir'[TmpOf(v)'] = dir[TmpOf(v)] /\ dir[TmpOf(v)] # i
    <3>1. TmpOf(v)' = TmpOf(v)
      BY <1>3, <2>1 DEF TmpOf
    <3>2. pc[v] \in {"write", "sync"} => fd[v] \in Inodes /\ fd[v] # i
      BY <1>1, <1>2 DEF TypeOK, Open
    <3>3. QED
      BY <1>2, <1>3, <1>5, <2>1, <3>1, <3>2 DEF Active
  <2>2. \A k \in 1..Chunks : ~(k < at'[w])
    BY <1>3, ChunksAssumption
  <2>3. \A v \in Writers : v # w => TmpOf(v)' = TmpOf(v)
    BY <1>3 DEF TmpOf
  <2>4. \A v \in Writers : pc[v] \in {"chmod", "rename"} => TmpOf(v) \in Names
    BY <1>5 DEF Active
  <2>5. QED
    BY <1>3, <1>4, <2>1, <2>2, <2>3, <2>4 DEF IInv, Progress
<1>13. QED
  BY <1>1, <1>7, <1>8, <1>9, <1>10, <1>11, <1>12 DEF IInv

\* A chunk is written to an inode no target has; the last one completes it.
LEMMA InvWriteChunk ==
  ASSUME Serial, IInv, NEW w \in Writers, WriteChunk(w)
  PROVE  IInv'
<1>1. TypeOK /\ TypeOK'
  BY TypeStep DEF IInv, Next, Step
<1>2. /\ pc[w] = "write" /\ Active(w) /\ Open(w)
      /\ fd[w] \in Inodes /\ at[w] \in 1..Chunks
  BY <1>1 DEF WriteChunk, TypeOK, Active, Open
<1>3. /\ dir' = dir /\ mode' = mode /\ synced' = synced /\ diskDir' = diskDir
      /\ diskMode' = diskMode /\ path' = path /\ content' = content /\ fd' = fd
      /\ \A v \in Writers : v # w => pc'[v] = pc[v] /\ at'[v] = at[v]
      /\ \A j \in Inodes : j # fd[w] => bytes'[j] = bytes[j]
      /\ pc'[w] \in {"write", "sync"}
  BY <1>1, <1>2 DEF WriteChunk, TypeOK, disk
<1>4. /\ \A n \in Names : dir[n] = fd[w] => n = TmpOf(w)
      /\ \A p \in Paths : diskDir[p] # fd[w] /\ dir[p] # fd[w]
  BY <1>1, <1>2, TmpOfFacts, NamesFacts DEF IInv, DescriptorPrivate
<1>5. Exclusive'
  BY <1>2, <1>3 DEF IInv, Exclusive, Active, TmpOf
<1>6. DescriptorPrivate'
  BY <1>2, <1>3 DEF IInv, DescriptorPrivate, Open, TmpOf
<1>7. Injective(dir)' /\ Injective(diskDir)' /\ TmpUncommitted'
  BY <1>3 DEF IInv, Injective, TmpUncommitted
<1>8. TargetsGood'
  <2>1. \A p \in Paths : /\ dir[p] # None => dir[p] \in Inodes
                         /\ diskDir[p] # None => diskDir[p] \in Inodes
    BY <1>1, NamesFacts DEF TypeOK
  <2>2. QED
    BY <1>3, <1>4, <2>1 DEF IInv, TargetsGood, Good
<1>9. Progress'
  <2>1. ASSUME NEW v \in Writers, v # w
        PROVE  /\ pc[v] \in {"write", "sync"} => bytes'[fd[v]] = bytes[fd[v]]
               /\ pc[v] \in {"chmod", "rename"} /\ dir[TmpOf(v)] # None =>
                    bytes'[dir[TmpOf(v)]] = bytes[dir[TmpOf(v)]]
    <3>1. pc[v] \in {"write", "sync"} => fd[v] \in Inodes /\ fd[v] # fd[w]
      BY <1>1, <1>2, <2>1 DEF TypeOK, IInv, DescriptorPrivate, Open
    <3>2. pc[v] \in {"chmod", "rename"} /\ dir[TmpOf(v)] # None =>
            dir[TmpOf(v)] \in Inodes /\ dir[TmpOf(v)] # fd[w]
      BY <1>1, <1>2, <1>4, <2>1, TmpOfFacts DEF TypeOK, IInv, Exclusive, Active
    <3>3. QED
      BY <1>3, <3>1, <3>2
  <2>2. bytes'[fd[w]] = [bytes[fd[w]] EXCEPT ![at[w]] = content[w]]
    BY <1>1, <1>2 DEF WriteChunk, TypeOK
  <2>3. bytes[fd[w]] \in [1..Chunks -> Contents \union {None}]
    BY <1>1, <1>2 DEF TypeOK, Bytes
  <2>4. \A k \in 1..Chunks : k < at[w] => bytes[fd[w]][k] = content[w]
    BY <1>2 DEF IInv, Progress
  <2>5. pc'[w] = "write" => at[w] # Chunks /\ at'[w] = at[w] + 1
    BY <1>1, <1>2 DEF WriteChunk, TypeOK
  <2>6. pc'[w] = "sync" => at[w] = Chunks
    BY <1>1, <1>2 DEF WriteChunk, TypeOK
  <2>7. pc'[w] = "write" => \A k \in 1..Chunks : k < at'[w] => bytes'[fd[w]][k] = content[w]
    BY <1>2, <2>2, <2>3, <2>4, <2>5, ChunksAssumption
  <2>8. pc'[w] = "sync" => bytes'[fd[w]] = Whole(content[w])
    <3>1. ASSUME pc'[w] = "sync", NEW k \in 1..Chunks
          PROVE  bytes'[fd[w]][k] = content[w]
      BY <1>2, <2>2, <2>3, <2>4, <2>6, <3>1, ChunksAssumption
    <3>2. bytes'[fd[w]] \in [1..Chunks -> Contents \union {None}]
      BY <1>1, <1>2 DEF TypeOK, Bytes
    <3>3. QED
      BY <3>1, <3>2 DEF Whole
  <2>9. QED
    BY <1>3, <2>1, <2>7, <2>8 DEF IInv, Progress, TmpOf
<1>10. QED
  BY <1>1, <1>5, <1>6, <1>7, <1>8, <1>9 DEF IInv

\* Syncing touches only what the disk holds of the call's own inode.
LEMMA InvSync ==
  ASSUME Serial, IInv, NEW w \in Writers, Sync(w)
  PROVE  IInv'
<1>1. TypeOK /\ TypeOK'
  BY TypeStep DEF IInv, Next, Step
<1>2. pc[w] = "sync" /\ Active(w) /\ Open(w) /\ fd[w] \in Inodes
  BY <1>1 DEF Sync, TypeOK, Active, Open
<1>3. /\ dir' = dir /\ mode' = mode /\ bytes' = bytes /\ diskDir' = diskDir
      /\ diskMode' = diskMode /\ path' = path /\ content' = content /\ at' = at
      /\ \A v \in Writers : v # w => pc'[v] = pc[v] /\ fd'[v] = fd[v]
      /\ \A j \in Inodes : synced'[j] = IF j = fd[w] THEN bytes[j] ELSE synced[j]
      /\ pc'[w] = "chmod" /\ fd'[w] = None
  BY <1>1, <1>2 DEF Sync, TypeOK, disk
<1>4. /\ dir[TmpOf(w)] \in {fd[w], None}
      /\ \A n \in Names : dir[n] = fd[w] => n = TmpOf(w)
      /\ \A p \in Paths : diskDir[p] # fd[w] /\ dir[p] # fd[w]
  BY <1>1, <1>2, TmpOfFacts, NamesFacts DEF IInv, DescriptorPrivate
<1>5. Exclusive'
  BY <1>2, <1>3 DEF IInv, Exclusive, Active, TmpOf
<1>6. DescriptorPrivate'
  <2>1. ASSUME NEW u \in Writers, NEW v \in Writers, u # v, Open(u)'
        PROVE  fd'[u] # fd'[v]
    BY <1>3, <2>1 DEF IInv, DescriptorPrivate, Open
  <2>2. ASSUME NEW v \in Writers, Open(v)'
        PROVE  /\ dir'[TmpOf(v)'] \in {fd'[v], None}
               /\ \A n \in Names : dir'[n] = fd'[v] => n = TmpOf(v)'
               /\ \A q \in Paths : diskDir'[q] # fd'[v]
    BY <1>3, <2>2 DEF IInv, DescriptorPrivate, Open, TmpOf
  <2>3. QED
    BY <2>1, <2>2 DEF DescriptorPrivate
<1>7. Injective(dir)' /\ Injective(diskDir)' /\ TmpUncommitted'
  BY <1>3 DEF IInv, Injective, TmpUncommitted
<1>8. TargetsGood'
  <2>1. \A p \in Paths : /\ dir[p] # None => dir[p] \in Inodes
                         /\ diskDir[p] # None => diskDir[p] \in Inodes
    BY <1>1, NamesFacts DEF TypeOK
  <2>2. QED
    BY <1>3, <1>4, <2>1 DEF IInv, TargetsGood, Good
<1>9. Progress'
  <2>1. ASSUME NEW v \in Writers, v # w, pc[v] \in {"chmod", "rename"}, dir[TmpOf(v)] # None
        PROVE  synced'[dir[TmpOf(v)]] = synced[dir[TmpOf(v)]]
    BY <1>1, <1>2, <1>3, <1>4, <2>1, TmpOfFacts DEF TypeOK, IInv, Exclusive, Active
  <2>2. bytes[fd[w]] = Whole(content[w]) /\ synced'[fd[w]] = Whole(content[w])
    BY <1>2, <1>3 DEF IInv, Progress
  <2>3. QED
    BY <1>3, <1>4, <2>1, <2>2 DEF IInv, Progress, TmpOf
<1>10. QED
  BY <1>1, <1>5, <1>6, <1>7, <1>8, <1>9 DEF IInv

\* The permissions change on an inode only the temporary name has.
LEMMA InvSetPermissions ==
  ASSUME Serial, IInv, NEW w \in Writers, SetPermissions(w)
  PROVE  IInv'
<1>1. TypeOK /\ TypeOK'
  BY TypeStep DEF IInv, Next, Step
<1>2. /\ pc[w] = "chmod" /\ Active(w)
      /\ dir[TmpOf(w)] \in Inodes /\ dir[TmpOf(w)] # None
      /\ TmpOf(w) \in Names /\ TmpOf(w) \notin Paths
  BY <1>1, TmpOfFacts DEF SetPermissions, TypeOK, Active
<1>3. /\ dir' = dir /\ synced' = synced /\ bytes' = bytes /\ diskDir' = diskDir /\ fd' = fd
      /\ diskMode' = diskMode /\ path' = path /\ content' = content /\ at' = at
      /\ \A v \in Writers : pc'[v] = IF v = w THEN "rename" ELSE pc[v]
      /\ \A j \in Inodes :
           mode'[j] = IF j = dir[TmpOf(w)] THEN PathMode[path[w]] ELSE mode[j]
  BY <1>1, <1>2 DEF SetPermissions, TypeOK, disk
<1>4. Exclusive'
  BY <1>2, <1>3 DEF IInv, Exclusive, Active, TmpOf
<1>5. DescriptorPrivate'
  BY <1>2, <1>3 DEF IInv, DescriptorPrivate, Open, TmpOf
<1>6. Injective(dir)' /\ Injective(diskDir)' /\ TmpUncommitted'
  BY <1>3 DEF IInv, Injective, TmpUncommitted
<1>7. TargetsGood'
  <2>1. \A p \in Paths : dir[p] # None => dir[p] \in Inodes /\ dir[p] # dir[TmpOf(w)]
    BY <1>1, <1>2, NamesFacts DEF TypeOK, IInv, Injective
  <2>2. QED
    BY <1>3, <2>1 DEF IInv, TargetsGood, Good
<1>8. Progress'
  <2>1. ASSUME NEW v \in Writers, v # w, pc[v] = "rename", dir[TmpOf(v)] # None
        PROVE  mode'[dir[TmpOf(v)]] = mode[dir[TmpOf(v)]]
    BY <1>1, <1>2, <1>3, <2>1, TmpOfFacts DEF TypeOK, IInv, Exclusive, Injective, Active
  <2>2. QED
    BY <1>2, <1>3, <2>1 DEF IInv, Progress, TmpOf
<1>9. QED
  BY <1>1, <1>4, <1>5, <1>6, <1>7, <1>8 DEF IInv

\* Returning closes the call and leaves every file as it is.
LEMMA InvReturn ==
  ASSUME IInv, NEW w \in Writers, Return(w)
  PROVE  /\ \A v \in Writers : v # w =>
              /\ pc'[v] = pc[v] /\ path'[v] = path[v] /\ content'[v] = content[v]
              /\ fd'[v] = fd[v] /\ at'[v] = at[v]
         /\ pc'[w] = "idle" /\ fd'[w] = None
         /\ Exclusive'
<1>1. /\ \A v \in Writers : v # w =>
           /\ pc'[v] = pc[v] /\ path'[v] = path[v] /\ content'[v] = content[v]
           /\ fd'[v] = fd[v] /\ at'[v] = at[v]
      /\ pc'[w] = "idle" /\ fd'[w] = None
  BY DEF Return, IInv, TypeOK
<1>2. Exclusive'
  BY <1>1 DEF IInv, Exclusive, Active, TmpOf
<1>3. QED
  BY <1>1, <1>2

\* rename moves a complete, synced inode with the right mode to the target in
\* one step.
LEMMA InvRename ==
  ASSUME Serial, IInv, NEW w \in Writers, Rename(w)
  PROVE  IInv'
<1>1. TypeOK /\ TypeOK'
  BY TypeStep DEF IInv, Next, Step
<1>2. /\ pc[w] = "rename" /\ Active(w) /\ path[w] \in Paths /\ content[w] \in Contents
      /\ path[w] \in Names /\ TmpOf(w) \in Names /\ TmpOf(w) \notin Paths
      /\ dir[TmpOf(w)] # None
  BY <1>1, TmpOfFacts, NamesFacts DEF Rename, Active
<1>3. /\ mode' = mode /\ synced' = synced /\ bytes' = bytes
      /\ diskDir' = diskDir /\ diskMode' = diskMode
      /\ \A n \in Names : dir'[n] = IF n = TmpOf(w) THEN None
                                    ELSE IF n = path[w] THEN dir[TmpOf(w)] ELSE dir[n]
      /\ Return(w)
  BY <1>1, <1>2 DEF Rename, TypeOK, disk
<1>4. /\ \A v \in Writers : v # w =>
           /\ pc'[v] = pc[v] /\ path'[v] = path[v] /\ content'[v] = content[v]
           /\ fd'[v] = fd[v] /\ at'[v] = at[v]
      /\ pc'[w] = "idle" /\ fd'[w] = None
      /\ Exclusive'
  BY <1>3, InvReturn
<1>5. \A v \in Writers : v # w /\ Active(v) =>
        TmpOf(v) # TmpOf(w) /\ TmpOf(v) # path[w] /\ TmpOf(v) \in Names
  BY <1>1, <1>2, TmpOfFacts DEF IInv, Exclusive
<1>6. DescriptorPrivate'
  <2>1. ASSUME NEW u \in Writers, NEW v \in Writers, u # v, Open(u)'
        PROVE  fd'[u] # fd'[v]
    BY <1>4, <2>1 DEF IInv, DescriptorPrivate, Open
  <2>2. ASSUME NEW v \in Writers, Open(v)'
        PROVE  /\ dir'[TmpOf(v)'] \in {fd'[v], None}
               /\ \A n \in Names : dir'[n] = fd'[v] => n = TmpOf(v)'
               /\ \A q \in Paths : diskDir'[q] # fd'[v]
    <3>1. v # w /\ Open(v) /\ fd'[v] = fd[v] /\ TmpOf(v)' = TmpOf(v) /\ fd[v] # None
      BY <1>4, <2>2 DEF Open, TmpOf
    <3>2. Active(v)
      BY <1>1, <3>1 DEF TypeOK, Active
    <3>3. QED
      BY <1>2, <1>3, <1>5, <3>1, <3>2 DEF IInv, DescriptorPrivate
  <2>3. QED
    BY <2>1, <2>2 DEF DescriptorPrivate
<1>7. Injective(dir)' /\ Injective(diskDir)'
  BY <1>2, <1>3 DEF IInv, Injective
<1>8. TmpUncommitted'
  BY <1>2, <1>3, NamesFacts DEF IInv, TmpUncommitted
<1>9. TargetsGood'
  <2>1. Good(dir[TmpOf(w)], mode, path[w])
    BY <1>2 DEF IInv, Progress, Good
  <2>2. QED
    BY <1>2, <1>3, <2>1, NamesFacts DEF IInv, TargetsGood, Good
<1>10. Progress'
  <2>1. ASSUME NEW v \in Writers, v # w, pc[v] \in {"chmod", "rename"}
        PROVE  dir'[TmpOf(v)] = dir[TmpOf(v)]
    BY <1>3, <1>5, <2>1 DEF Active
  <2>2. QED
    BY <1>3, <1>4, <2>1 DEF IInv, Progress, TmpOf
<1>11. QED
  BY <1>1, <1>4, <1>6, <1>7, <1>8, <1>9, <1>10 DEF IInv

\* A call that fails leaves its temporary name behind and nothing else.
LEMMA InvAbort ==
  ASSUME Serial, IInv, NEW w \in Writers, Abort(w)
  PROVE  IInv'
<1>1. TypeOK /\ TypeOK'
  BY TypeStep DEF IInv, Next, Step
<1>2. /\ mode' = mode /\ synced' = synced /\ bytes' = bytes /\ dir' = dir
      /\ diskDir' = diskDir /\ diskMode' = diskMode /\ Return(w)
  BY DEF Abort, disk
<1>3. /\ \A v \in Writers : v # w =>
           /\ pc'[v] = pc[v] /\ path'[v] = path[v] /\ content'[v] = content[v]
           /\ fd'[v] = fd[v] /\ at'[v] = at[v]
      /\ pc'[w] = "idle" /\ fd'[w] = None
      /\ Exclusive'
  BY <1>2, InvReturn
<1>4. DescriptorPrivate'
  <2>1. ASSUME NEW u \in Writers, NEW v \in Writers, u # v, Open(u)'
        PROVE  fd'[u] # fd'[v]
    BY <1>3, <2>1 DEF IInv, DescriptorPrivate, Open
  <2>2. ASSUME NEW v \in Writers, Open(v)'
        PROVE  /\ dir'[TmpOf(v)'] \in {fd'[v], None}
               /\ \A n \in Names : dir'[n] = fd'[v] => n = TmpOf(v)'
               /\ \A q \in Paths : diskDir'[q] # fd'[v]
    BY <1>2, <1>3, <2>2 DEF IInv, DescriptorPrivate, Open, TmpOf
  <2>3. QED
    BY <2>1, <2>2 DEF DescriptorPrivate
<1>5. Injective(dir)' /\ Injective(diskDir)' /\ TmpUncommitted'
  BY <1>2 DEF IInv, Injective, TmpUncommitted
<1>6. TargetsGood'
  BY <1>2 DEF IInv, TargetsGood, Good
<1>7. Progress'
  BY <1>2, <1>3 DEF IInv, Progress, TmpOf
<1>8. QED
  BY <1>1, <1>3, <1>4, <1>5, <1>6, <1>7 DEF IInv

\* A name that is gone names nothing.
LEMMA InvRemove ==
  ASSUME Serial, IInv, NEW n \in Names, Remove(n)
  PROVE  IInv'
<1>1. TypeOK /\ TypeOK'
  BY TypeStep DEF IInv, Next
<1>2. /\ mode' = mode /\ synced' = synced /\ bytes' = bytes
      /\ diskDir' = diskDir /\ diskMode' = diskMode
      /\ pc' = pc /\ path' = path /\ content' = content /\ fd' = fd /\ at' = at
      /\ \A m \in Names : dir'[m] = IF m = n THEN None ELSE dir[m]
  BY <1>1 DEF Remove, TypeOK, disk, writer
<1>3. \A v \in Writers : Active(v) => TmpOf(v) \in Names
  BY <1>1, TmpOfFacts
<1>4. Exclusive'
  BY <1>2 DEF IInv, Exclusive, Active, TmpOf
<1>5. DescriptorPrivate'
  <2>1. \A v \in Writers : Open(v) => TmpOf(v) \in Names
    BY <1>1, <1>3 DEF TypeOK, Active
  <2>2. \A v \in Writers : Open(v) => fd[v] # None
    BY DEF Open
  <2>3. ASSUME NEW v \in Writers, Open(v)
        PROVE  /\ dir'[TmpOf(v)] \in {fd[v], None}
               /\ \A m \in Names : dir'[m] = fd[v] => m = TmpOf(v)
               /\ \A q \in Paths : diskDir[q] # fd[v]
    BY <1>2, <2>1, <2>2, <2>3 DEF IInv, DescriptorPrivate
  <2>4. QED
    BY <1>2, <2>3 DEF IInv, DescriptorPrivate, Open, TmpOf
<1>6. Injective(dir)' /\ Injective(diskDir)' /\ TmpUncommitted'
  BY <1>2, NamesFacts DEF IInv, Injective, TmpUncommitted
<1>7. TargetsGood'
  BY <1>2, NamesFacts DEF IInv, TargetsGood, Good
<1>8. Progress'
  BY <1>2, <1>3 DEF IInv, Progress, TmpOf, Active
<1>9. QED
  BY <1>1, <1>4, <1>5, <1>6, <1>7, <1>8 DEF IInv

\* What the journal commits are the names and modes the invariant already
\* vouches for, and their bytes are on the disk.
LEMMA InvCommit ==
  ASSUME Serial, IInv, Commit
  PROVE  IInv'
<1>1. TypeOK /\ TypeOK'
  BY TypeStep DEF IInv, Next
<1>2. /\ dir' = dir /\ mode' = mode /\ synced' = synced /\ bytes' = bytes
      /\ diskDir' = dir /\ diskMode' = mode
      /\ pc' = pc /\ path' = path /\ content' = content /\ fd' = fd /\ at' = at
  BY DEF Commit, writer
<1>3. \A v \in Writers : Open(v) => TmpOf(v) \notin Paths
  BY <1>1, TmpOfFacts DEF TypeOK, Active
<1>4. Exclusive'
  BY <1>2 DEF IInv, Exclusive, Active, TmpOf
<1>5. DescriptorPrivate'
  <2>1. \A v \in Writers : Open(v) => \A q \in Paths : dir[q] # fd[v]
    BY <1>3, NamesFacts DEF IInv, DescriptorPrivate
  <2>2. QED
    BY <1>2, <2>1 DEF IInv, DescriptorPrivate, Open, TmpOf
<1>6. Injective(dir)' /\ Injective(diskDir)' /\ TmpUncommitted'
  BY <1>2, NamesFacts DEF IInv, Injective, TmpUncommitted
<1>7. TargetsGood'
  BY <1>2 DEF IInv, TargetsGood, Good
<1>8. Progress'
  BY <1>2 DEF IInv, Progress, TmpOf
<1>9. QED
  BY <1>1, <1>4, <1>5, <1>6, <1>7, <1>8 DEF IInv

\* After a power failure the targets are those of the last commit, whose
\* inodes were synced before they were named.
LEMMA InvPowerLoss ==
  ASSUME Serial, IInv, PowerLoss
  PROVE  IInv'
<1>1. TypeOK /\ TypeOK'
  BY TypeStep DEF IInv, Next
<1>2. /\ dir' = diskDir /\ mode' = diskMode /\ synced' = bytes'
      /\ diskDir' = diskDir /\ diskMode' = diskMode
      /\ \A v \in Writers : pc'[v] = "idle" /\ fd'[v] = None
  BY DEF PowerLoss, disk
<1>3. \A i \in Inodes : synced[i] = bytes[i] => bytes'[i] = bytes[i]
  BY <1>1, PowerLossBytes
<1>4. Exclusive' /\ DescriptorPrivate' /\ Progress'
  BY <1>2 DEF Exclusive, DescriptorPrivate, Progress, Active, Open
<1>5. Injective(dir)' /\ Injective(diskDir)' /\ TmpUncommitted'
  BY <1>2, NamesFacts DEF IInv, Injective, TmpUncommitted
<1>6. TargetsGood'
  <2>1. \A p \in Paths : diskDir[p] # None => diskDir[p] \in Inodes
    BY <1>1, NamesFacts DEF TypeOK
  <2>2. QED
    BY <1>2, <1>3, <2>1 DEF IInv, TargetsGood, Good
<1>7. QED
  BY <1>1, <1>4, <1>5, <1>6 DEF IInv

\* Every step keeps the invariant.
LEMMA InvStep ==
  ASSUME Serial, IInv, [Next]_vars
  PROVE  IInv'
<1>1. CASE UNCHANGED vars
  BY <1>1 DEF vars, disk, writer, IInv, TypeOK, Exclusive, DescriptorPrivate, Injective,
     TmpUncommitted, TargetsGood, Good, Progress, Active, Open, TmpOf
<1>2. CASE Next
  BY <1>2, InvBegin, InvWriteChunk, InvSync, InvSetPermissions, InvRename, InvAbort,
     InvRemove, InvCommit, InvPowerLoss DEF Next, Step
<1>3. QED
  BY <1>1, <1>2

\* When calls that share a temporary name are sequenced, the invariant holds.
THEOREM InvariantHolds ==
  ASSUME Serial
  PROVE  Spec => []IInv
BY InvInit, InvStep, PTL DEF Spec

-----------------------------------------------------------------------------
(* What follows from it.                                                   *)

\* write_bytes keeps its promise to readers, across crashes and power
\* failures: a target holds one caller's complete contents or no file.
THEOREM TargetsWhole ==
  ASSUME Serial
  PROVE  Spec => []TargetWhole
<1>1. IInv => TargetWhole
  BY DEF IInv, TargetsGood, Good, TargetWhole
<1>2. QED
  BY <1>1, InvariantHolds, PTL

\* A target has the mode its caller asked for, whoever left the temporary name
\* behind.
THEOREM TargetsMode ==
  ASSUME Serial
  PROVE  Spec => []TargetMode
<1>1. IInv => TargetMode
  BY DEF IInv, TargetsGood, Good, TargetMode
<1>2. QED
  BY <1>1, InvariantHolds, PTL

\* No step changes an inode a target points at.
LEMMA StableStep ==
  ASSUME Serial, IInv, [Next]_vars
  PROVE  \A p \in Paths : dir[p] # None => bytes'[dir[p]] = bytes[dir[p]]
<1> SUFFICES ASSUME NEW p \in Paths, dir[p] # None
             PROVE  bytes'[dir[p]] = bytes[dir[p]]
  OBVIOUS
<1>1. dir[p] \in Inodes /\ bytes[dir[p]] = synced[dir[p]] /\ p \in Names /\ TypeOK
  BY NamesFacts DEF IInv, TypeOK, TargetsGood, Good
<1>2. ASSUME NEW w \in Writers, NEW q \in Paths, NEW c \in Contents, NEW i \in Inodes,
             Begin(w, q, c, i)
      PROVE  bytes'[dir[p]] = bytes[dir[p]]
  <2>1. dir[p] # i
    BY <1>2, CreatedPrivate, NamesFacts
  <2>2. QED
    BY <1>1, <1>2, <2>1 DEF Begin, TypeOK
<1>3. ASSUME NEW w \in Writers, WriteChunk(w)
      PROVE  bytes'[dir[p]] = bytes[dir[p]]
  <2>1. Active(w) /\ Open(w)
    BY <1>1, <1>3 DEF WriteChunk, TypeOK, Active
  <2>2. dir[p] # fd[w]
    BY <1>1, <2>1, TmpOfFacts, NamesFacts DEF IInv, DescriptorPrivate
  <2>3. QED
    BY <1>1, <1>3, <2>2 DEF WriteChunk, TypeOK
<1>4. CASE PowerLoss
  BY <1>1, <1>4, PowerLossBytes
<1>5. CASE bytes' = bytes
  BY <1>5
<1>6. QED
  BY <1>2, <1>3, <1>4, <1>5 DEF Next, Step, Sync, SetPermissions, Rename, Abort, Remove,
     Commit, vars

\* A reader that holds a target open never sees its bytes change.
THEOREM PublishedIsStable ==
  ASSUME Serial
  PROVE  Spec => PublishedStable
<1>1. IInv /\ [Next]_vars => [\A p \in Paths : dir[p] # None => bytes'[dir[p]] = bytes[dir[p]]]_vars
  BY StableStep
<1>2. QED
  BY <1>1, InvariantHolds, PTL DEF Spec, PublishedStable

-----------------------------------------------------------------------------
(* write_bytes implements the abstract store.                              *)

\* Both views of the files hold only complete, synced files, so the view of
\* the disk does not depend on what a power failure loses.
LEMMA FilesAre ==
  ASSUME Serial, IInv, NEW p \in Paths
  PROVE  /\ p \in Names
         /\ dir[p] # None => dir[p] \in Inodes /\ synced[dir[p]] = bytes[dir[p]]
         /\ diskDir[p] # None => diskDir[p] \in Inodes /\ synced[diskDir[p]] = bytes[diskDir[p]]
BY NamesFacts DEF IInv, TypeOK, TargetsGood, Good

\* A step that changes neither the names nor the inodes of the targets is not
\* seen in the store.
LEMMA Unseen ==
  ASSUME \A p \in Paths :
           /\ dir'[p] = dir[p] /\ diskDir'[p] = diskDir[p]
           /\ dir[p] # None => bytes'[dir[p]] = bytes[dir[p]] /\ mode'[dir[p]] = mode[dir[p]]
           /\ diskDir[p] # None => /\ synced'[diskDir[p]] = synced[diskDir[p]]
                                  /\ diskMode'[diskDir[p]] = diskMode[diskDir[p]]
  PROVE  FilesNow' = FilesNow /\ FilesOnDisk' = FilesOnDisk
BY DEF FilesNow, FilesOnDisk, File

\* Creating the temporary file is not seen.
LEMMA BeginUnseen ==
  ASSUME Serial, IInv, NEW w \in Writers, NEW q \in Paths, NEW c \in Contents,
         NEW i \in Inodes, Begin(w, q, c, i)
  PROVE  FilesNow' = FilesNow /\ FilesOnDisk' = FilesOnDisk
<1>1. TypeOK
  BY DEF IInv
<1>2. \A p \in Paths : dir[p] # i /\ diskDir[p] # i
  BY CreatedPrivate, NamesFacts
<1>3. /\ \A p \in Paths : dir'[p] = dir[p]
      /\ diskDir' = diskDir /\ diskMode' = diskMode
  BY <1>1, NamesFacts DEF Begin, TypeOK, disk
<1>4. \A j \in Inodes : j # i =>
        bytes'[j] = bytes[j] /\ mode'[j] = mode[j] /\ synced'[j] = synced[j]
  BY <1>1 DEF Begin, Creates, TypeOK
<1>5. QED
  BY <1>2, <1>3, <1>4, FilesAre, Unseen

\* Writing, syncing and setting the permissions of the temporary file are not
\* seen.
LEMMA WriteUnseen ==
  ASSUME Serial, IInv, NEW w \in Writers,
         WriteChunk(w) \/ Sync(w) \/ SetPermissions(w)
  PROVE  FilesNow' = FilesNow /\ FilesOnDisk' = FilesOnDisk
<1>1. TypeOK
  BY DEF IInv
<1>2. Active(w) /\ TmpOf(w) \in Names /\ TmpOf(w) \notin Paths
  BY <1>1, TmpOfFacts DEF WriteChunk, Sync, SetPermissions, Active
<1>3. dir' = dir /\ diskDir' = diskDir /\ diskMode' = diskMode
  BY DEF WriteChunk, Sync, SetPermissions, disk
<1>4. CASE WriteChunk(w) \/ Sync(w)
  <2>1. Open(w) /\ fd[w] \in Inodes
    BY <1>1, <1>4 DEF WriteChunk, Sync, TypeOK, Open
  <2>2. \A p \in Paths : dir[p] # fd[w] /\ diskDir[p] # fd[w]
    BY <1>2, <2>1, NamesFacts DEF IInv, DescriptorPrivate
  <2>3. /\ mode' = mode
        /\ \A j \in Inodes : j # fd[w] => bytes'[j] = bytes[j] /\ synced'[j] = synced[j]
    BY <1>1, <1>4, <2>1 DEF WriteChunk, Sync, TypeOK
  <2>4. QED
    BY <1>3, <2>2, <2>3, FilesAre, Unseen
<1>5. CASE SetPermissions(w)
  <2>1. dir[TmpOf(w)] # None /\ \A p \in Paths : dir[p] # dir[TmpOf(w)]
    BY <1>2, <1>5, NamesFacts DEF SetPermissions, IInv, Injective
  <2>2. /\ bytes' = bytes /\ synced' = synced
        /\ \A j \in Inodes : j # dir[TmpOf(w)] => mode'[j] = mode[j]
    BY <1>1, <1>5 DEF SetPermissions, TypeOK
  <2>3. QED
    BY <1>3, <2>1, <2>2, FilesAre, Unseen
<1>6. QED
  BY <1>4, <1>5

\* rename is the one step that puts a file, a complete one, at the target.
LEMMA RenamePuts ==
  ASSUME Serial, IInv, NEW w \in Writers, Rename(w)
  PROVE  \E p \in Paths : \E file \in LegalFiles[p] : Store!Put(p, file)
<1>1. TypeOK
  BY DEF IInv
<1>2. /\ path[w] \in Paths /\ path[w] \in Names /\ content[w] \in Contents
      /\ TmpOf(w) \in Names /\ TmpOf(w) \notin Paths /\ dir[TmpOf(w)] # None
  BY <1>1, TmpOfFacts, NamesFacts DEF Rename, Active
<1>3. /\ mode' = mode /\ synced' = synced /\ bytes' = bytes
      /\ diskDir' = diskDir /\ diskMode' = diskMode
      /\ \A p \in Paths : dir'[p] = IF p = path[w] THEN dir[TmpOf(w)] ELSE dir[p]
  BY <1>1, <1>2, NamesFacts DEF Rename, TypeOK, disk
<1>4. /\ bytes[dir[TmpOf(w)]] = Whole(content[w])
      /\ mode[dir[TmpOf(w)]] = PathMode[path[w]]
  BY <1>2 DEF IInv, Progress, Rename
<1> DEFINE file == [bytes |-> Whole(content[w]), mode |-> PathMode[path[w]]]
<1>5. file \in LegalFiles[path[w]]
  BY <1>2 DEF LegalFiles
<1>6. FilesNow' = [FilesNow EXCEPT ![path[w]] = file]
  BY <1>2, <1>3, <1>4 DEF FilesNow, File
<1>7. FilesOnDisk' = FilesOnDisk
  BY <1>3 DEF FilesOnDisk, File
<1>8. QED
  BY <1>2, <1>5, <1>6, <1>7 DEF Store!Put

\* Every step of write_bytes, the operator and the file system is a step of
\* the store or is not seen in it.
LEMMA StoreStep ==
  ASSUME Serial, IInv, [Next]_vars
  PROVE  [Store!Next]_(Store!vars)
<1> USE DEF Store!vars
<1>1. ASSUME NEW w \in Writers, Step(w)
      PROVE  [Store!Next]_(Store!vars)
  <2>1. ASSUME NEW p \in Paths, NEW c \in Contents, NEW i \in Inodes, Begin(w, p, c, i)
        PROVE  [Store!Next]_(Store!vars)
    BY <2>1, BeginUnseen
  <2>2. CASE WriteChunk(w) \/ Sync(w) \/ SetPermissions(w)
    BY <2>2, WriteUnseen
  <2>3. CASE Rename(w)
    BY <2>3, RenamePuts DEF Store!Next
  <2>4. CASE Abort(w)
    BY <2>4 DEF Abort, FilesNow, FilesOnDisk, File, disk
  <2>5. QED
    BY <1>1, <2>1, <2>2, <2>3, <2>4 DEF Step
<1>2. ASSUME NEW n \in Names, Remove(n)
      PROVE  [Store!Next]_(Store!vars)
  <2>1. /\ FilesOnDisk' = FilesOnDisk /\ bytes' = bytes /\ mode' = mode
        /\ \A p \in Paths : dir'[p] = IF p = n THEN None ELSE dir[p]
    BY <1>2, NamesFacts DEF Remove, IInv, TypeOK, FilesOnDisk, File, disk
  <2>2. CASE n \in Paths
    <3>1. FilesNow' = [FilesNow EXCEPT ![n] = None]
      BY <2>1, <2>2 DEF FilesNow, File
    <3>2. QED
      BY <2>1, <2>2, <3>1 DEF Store!Next, Store!Remove
  <2>3. CASE n \notin Paths
    BY <2>1, <2>3 DEF FilesNow, File
  <2>4. QED
    BY <2>2, <2>3
<1>3. CASE Commit
  <2>1. FilesNow' = FilesNow
    BY <1>3 DEF Commit, FilesNow, File
  <2>2. FilesOnDisk' = FilesNow
    BY <1>3, FilesAre DEF Commit, FilesNow, FilesOnDisk, File
  <2>3. QED
    BY <2>1, <2>2 DEF Store!Next, Store!Flush
<1>4. CASE PowerLoss
  <2>1. \A p \in Paths : diskDir[p] # None => bytes'[diskDir[p]] = synced[diskDir[p]]
    BY <1>4, FilesAre, PowerLossBytes DEF IInv
  <2>2. /\ dir' = diskDir /\ mode' = diskMode /\ synced' = bytes'
        /\ diskDir' = diskDir /\ diskMode' = diskMode
    BY <1>4 DEF PowerLoss, disk
  <2>3. FilesNow' = FilesOnDisk /\ FilesOnDisk' = FilesOnDisk
    BY <2>1, <2>2 DEF FilesNow, FilesOnDisk, File
  <2>4. QED
    BY <2>3 DEF Store!Next, Store!Revert
<1>5. CASE UNCHANGED vars
  BY <1>5 DEF vars, disk, FilesNow, FilesOnDisk, File
<1>6. QED
  BY <1>1, <1>2, <1>3, <1>4, <1>5 DEF Next

\* AtomicFile is atomic: when the calls that share a temporary name are
\* sequenced, every behaviour of its system calls, of crashes and of power
\* failures is a behaviour of the abstract store.
THEOREM StoreImplemented ==
  ASSUME Serial
  PROVE  Spec => ImplementsStore
<1>1. Init => Store!Init
  BY NamesFacts DEF Init, Store!Init, FilesNow, FilesOnDisk, File
<1>2. IInv /\ [Next]_vars => [Store!Next]_(Store!vars)
  BY StoreStep
<1>3. QED
  BY <1>1, <1>2, InvariantHolds, PTL DEF Spec, ImplementsStore, Store!Spec
=============================================================================
