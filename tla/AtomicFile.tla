------------------------------ MODULE AtomicFile ------------------------------
(***************************************************************************)
(* AtomicFile::write_bytes of src/util.rs, the only way this program       *)
(* writes a file, over the file system it runs on.                         *)
(*                                                                         *)
(* A writer is one call in flight: it creates (or truncates) the temporary *)
(* name, writes the contents through that descriptor, syncs and closes it, *)
(* and then, BY NAME, sets the permissions and renames.  Any call may fail *)
(* or its process may die between two of these steps; nothing cleans the   *)
(* temporary name up.  The temporary name replaces the target's extension, *)
(* so two targets (server.pem, server.key) may share it.                   *)
(*                                                                         *)
(* The file system is external: names point at inodes, an inode carries    *)
(* bytes and a mode, and a power failure takes names and modes back to the *)
(* last journal commit and every byte to the last sync or to any later     *)
(* content.                                                                *)
(***************************************************************************)
EXTENDS Naturals

CONSTANTS
  Writers,   \* calls of write_bytes that may be in flight together
  Paths,     \* the targets
  Tmp,       \* Tmp[p]: Path::with_extension("tmp") of target p
  PathMode,  \* PathMode[p]: the mode its caller writes p with
  FreshMode, \* the mode of a file File::create makes, after the umask
  Contents,  \* the byte strings callers write, Chunks chunks each
  Chunks,    \* how many write(2) calls write_all takes
  Inodes,    \* the inodes of the file system
  Serial,    \* whether the caller sequences calls that share a temporary name
  None       \* no inode, no path, no bytes

TmpNames == {Tmp[p] : p \in Paths}
Names == Paths \union TmpNames
Modes == {PathMode[p] : p \in Paths} \union {FreshMode}
Bytes == [1..Chunks -> Contents \union {None}]
Empty == [k \in 1..Chunks |-> None]
Whole(c) == [k \in 1..Chunks |-> c]

ASSUME ChunksAssumption == Chunks \in Nat \ {0}
ASSUME SerialAssumption == Serial \in BOOLEAN
ASSUME NoneAssumption == None \notin Inodes \union Contents \union Paths
\* No caller writes a target that itself ends in ".tmp".
ASSUME TmpAssumption == Paths \intersect TmpNames = {}

VARIABLES
  dir,       \* dir[n]: the inode name n points at now
  bytes,     \* bytes[i]: what reading inode i returns
  mode,      \* mode[i]: its permissions
  synced,    \* synced[i]: the bytes the disk is sure to hold
  diskDir,   \* dir as of the last journal commit
  diskMode,  \* mode as of the last journal commit
  pc,        \* pc[w]: the next system call of writer w
  path,      \* path[w]: its target, None outside a call
  content,   \* content[w]: the bytes it writes, None outside a call
  fd,        \* fd[w]: the inode its descriptor names, None while it has none
  at         \* at[w]: the chunk write_all writes next

disk == <<diskDir, diskMode>>
writer == <<pc, path, content, fd, at>>
vars == <<dir, bytes, mode, synced, disk, writer>>

TmpOf(w) == Tmp[path[w]]
Active(w) == pc[w] # "idle"
Open(w) == fd[w] # None

TypeOK ==
  /\ dir \in [Names -> Inodes \union {None}]
  /\ bytes \in [Inodes -> Bytes]
  /\ mode \in [Inodes -> Modes]
  /\ synced \in [Inodes -> Bytes]
  /\ diskDir \in [Names -> Inodes \union {None}]
  /\ diskMode \in [Inodes -> Modes]
  /\ pc \in [Writers -> {"idle", "write", "sync", "chmod", "rename"}]
  /\ path \in [Writers -> Paths \union {None}]
  /\ content \in [Writers -> Contents \union {None}]
  /\ fd \in [Writers -> Inodes \union {None}]
  /\ at \in [Writers -> 1..Chunks]
  /\ \A w \in Writers : Active(w) => path[w] # None /\ content[w] # None
  /\ \A w \in Writers : Open(w) <=> pc[w] \in {"write", "sync"}

Init ==
  /\ dir = [n \in Names |-> None]
  /\ bytes = [i \in Inodes |-> Empty]
  /\ mode = [i \in Inodes |-> FreshMode]
  /\ synced = bytes
  /\ diskDir = dir
  /\ diskMode = mode
  /\ pc = [w \in Writers |-> "idle"]
  /\ path = [w \in Writers |-> None]
  /\ content = path
  /\ fd = path
  /\ at = [w \in Writers |-> 1]

-----------------------------------------------------------------------------
(* One call of write_bytes.                                                *)

\* An inode may be allocated when no name, no committed name and no
\* descriptor refers to it.
Free(i) ==
  /\ \A n \in Names : dir[n] # i /\ diskDir[n] # i
  /\ \A w \in Writers : Open(w) => fd[w] # i

\* What an invocation must wait for when its caller sequences requests.
Sequenced(w, p) ==
  Serial => \A v \in Writers \ {w} : Active(v) => TmpOf(v) # Tmp[p]

\* The inode File::create opens: the one the name has, keeping its mode, or
\* a new one with the default mode and nothing on the disk.
Creates(n, i) ==
  IF dir[n] = None
  THEN /\ Free(i)
       /\ mode' = [mode EXCEPT ![i] = FreshMode]
       /\ synced' = [synced EXCEPT ![i] = Empty]
  ELSE i = dir[n] /\ UNCHANGED <<mode, synced>>

\* File::create(temporary_path): O_CREAT and O_TRUNC.
Begin(w, p, c, i) ==
  /\ pc[w] = "idle"
  /\ Sequenced(w, p)
  /\ Creates(Tmp[p], i)
  /\ dir' = [dir EXCEPT ![Tmp[p]] = i]
  /\ bytes' = [bytes EXCEPT ![i] = Empty]
  /\ pc' = [pc EXCEPT ![w] = "write"]
  /\ path' = [path EXCEPT ![w] = p]
  /\ content' = [content EXCEPT ![w] = c]
  /\ fd' = [fd EXCEPT ![w] = i]
  /\ at' = [at EXCEPT ![w] = 1]
  /\ UNCHANGED disk

\* Mutant: the last chunk is never written.
WriteChunkShort(w) ==
  /\ pc[w] = "write"
  /\ bytes' = [bytes EXCEPT ![fd[w]][at[w]] = content[w]]
  /\ pc' = [pc EXCEPT ![w] = "sync"]
  /\ UNCHANGED <<dir, mode, synced, disk, path, content, fd, at>>

\* One write(2) of write_all, through the descriptor.
WriteChunk(w) ==
  /\ pc[w] = "write"
  /\ bytes' = [bytes EXCEPT ![fd[w]][at[w]] = content[w]]
  /\ IF at[w] = Chunks
     THEN at' = [at EXCEPT ![w] = 1] /\ pc' = [pc EXCEPT ![w] = "sync"]
     ELSE at' = [at EXCEPT ![w] = @ + 1] /\ UNCHANGED pc
  /\ UNCHANGED <<dir, mode, synced, disk, path, content, fd>>

\* Mutant: the descriptor is dropped without sync_all.
CloseUnsynced(w) ==
  /\ pc[w] = "sync"
  /\ pc' = [pc EXCEPT ![w] = "chmod"]
  /\ fd' = [fd EXCEPT ![w] = None]
  /\ UNCHANGED <<dir, bytes, mode, synced, disk, path, content, at>>

\* Mutant: the descriptor is kept after sync_all.
SyncLeaks(w) ==
  /\ pc[w] = "sync"
  /\ synced' = [synced EXCEPT ![fd[w]] = bytes[fd[w]]]
  /\ pc' = [pc EXCEPT ![w] = "chmod"]
  /\ UNCHANGED <<dir, bytes, mode, disk, path, content, fd, at>>

\* sync_all, then the descriptor is dropped.
Sync(w) ==
  /\ pc[w] = "sync"
  /\ synced' = [synced EXCEPT ![fd[w]] = bytes[fd[w]]]
  /\ pc' = [pc EXCEPT ![w] = "chmod"]
  /\ fd' = [fd EXCEPT ![w] = None]
  /\ UNCHANGED <<dir, bytes, mode, disk, path, content, at>>

\* Mutant: the mode is left to File::create.
PermissionsLeft(w) ==
  /\ pc[w] = "chmod"
  /\ dir[TmpOf(w)] # None
  /\ pc' = [pc EXCEPT ![w] = "rename"]
  /\ UNCHANGED <<dir, bytes, mode, synced, disk, path, content, fd, at>>

\* set_permissions(temporary_path, mode).
SetPermissions(w) ==
  /\ pc[w] = "chmod"
  /\ dir[TmpOf(w)] # None
  /\ mode' = [mode EXCEPT ![dir[TmpOf(w)]] = PathMode[path[w]]]
  /\ pc' = [pc EXCEPT ![w] = "rename"]
  /\ UNCHANGED <<dir, bytes, synced, disk, path, content, fd, at>>

\* write_bytes returns or its process dies: its descriptor and locals are gone.
Return(w) ==
  /\ pc' = [pc EXCEPT ![w] = "idle"]
  /\ path' = [path EXCEPT ![w] = None]
  /\ content' = [content EXCEPT ![w] = None]
  /\ fd' = [fd EXCEPT ![w] = None]
  /\ at' = [at EXCEPT ![w] = 1]

\* Mutant: the target is hard-linked and the temporary name stays.
Link(w) ==
  /\ pc[w] = "rename"
  /\ dir[TmpOf(w)] # None
  /\ dir' = [dir EXCEPT ![path[w]] = dir[TmpOf(w)]]
  /\ Return(w)
  /\ UNCHANGED <<bytes, mode, synced, disk>>

\* rename(temporary_path, path).
Rename(w) ==
  /\ pc[w] = "rename"
  /\ dir[TmpOf(w)] # None
  /\ dir' = [dir EXCEPT ![path[w]] = dir[TmpOf(w)], ![TmpOf(w)] = None]
  /\ Return(w)
  /\ UNCHANGED <<bytes, mode, synced, disk>>

\* A step fails and write_bytes returns its error, or the process dies: the
\* temporary name stays as it is.
Abort(w) ==
  /\ Active(w)
  /\ Return(w)
  /\ UNCHANGED <<dir, bytes, mode, synced, disk>>

-----------------------------------------------------------------------------
(* The operator and the file system.                                       *)

\* The operator deletes a file.
Remove(n) ==
  /\ dir[n] # None
  /\ dir' = [dir EXCEPT ![n] = None]
  /\ UNCHANGED <<bytes, mode, synced, disk, writer>>

\* The journal commits names and modes.
Commit ==
  /\ diskDir' = dir
  /\ diskMode' = mode
  /\ UNCHANGED <<dir, bytes, mode, synced, writer>>

\* The machine loses power and comes back: every process is gone, and each
\* chunk that was not synced may or may not have reached the disk.
PowerLoss ==
  /\ dir' = diskDir
  /\ mode' = diskMode
  /\ \E lost \in SUBSET {x \in Inodes \X (1..Chunks) : bytes[x[1]][x[2]] # synced[x[1]][x[2]]} :
       bytes' = [i \in Inodes |-> [k \in 1..Chunks |->
                   IF <<i, k>> \in lost THEN synced[i][k] ELSE bytes[i][k]]]
  /\ synced' = bytes'
  /\ pc' = [w \in Writers |-> "idle"]
  /\ path' = [w \in Writers |-> None]
  /\ content' = [w \in Writers |-> None]
  /\ fd' = [w \in Writers |-> None]
  /\ at' = [w \in Writers |-> 1]
  /\ UNCHANGED disk

Step(w) ==
  \/ \E p \in Paths, c \in Contents, i \in Inodes : Begin(w, p, c, i)
  \/ WriteChunk(w)
  \/ Sync(w)
  \/ SetPermissions(w)
  \/ Rename(w)
  \/ Abort(w)

Next ==
  \/ \E w \in Writers : Step(w)
  \/ \E n \in Names : Remove(n)
  \/ Commit
  \/ PowerLoss

Spec == Init /\ [][Next]_vars

-----------------------------------------------------------------------------
(* Properties.                                                             *)

\* A reader that opens a target finds one caller's complete contents, and so
\* does one that opens it after a power failure: no partial, mixed or
\* truncated file ever stands under a name AtomicFile writes.
TargetWhole ==
  \A p \in Paths :
    /\ dir[p] # None => \E c \in Contents : bytes[dir[p]] = Whole(c)
    /\ diskDir[p] # None => \E c \in Contents : synced[diskDir[p]] = Whole(c)

\* A target carries the mode its caller asked for, even when the temporary
\* name was left behind by a call that wrote another target with another mode.
TargetMode ==
  \A p \in Paths :
    /\ dir[p] # None => mode[dir[p]] = PathMode[p]
    /\ diskDir[p] # None => diskMode[diskDir[p]] = PathMode[p]

\* A reader that holds a target open keeps reading the same bytes: no step
\* changes an inode a target points at, not even the truncation of a
\* temporary name.
PublishedStable ==
  [][\A p \in Paths : dir[p] # None => bytes'[dir[p]] = bytes[dir[p]]]_vars

\* The file at path p, seen through directory d.
File(d, b, m, p) ==
  IF d[p] = None THEN None ELSE [bytes |-> b[d[p]], mode |-> m[d[p]]]

\* What a reader finds now, and what it would find after a power failure.
FilesNow == [p \in Paths |-> File(dir, bytes, mode, p)]
FilesOnDisk == [p \in Paths |-> File(diskDir, synced, diskMode, p)]

\* The complete files a caller may have written to each path.
LegalFiles == [p \in Paths |-> {[bytes |-> Whole(c), mode |-> PathMode[p]] : c \in Contents}]

Store == INSTANCE AtomicStore WITH
  Legal <- LegalFiles, store <- FilesNow, stable <- FilesOnDisk

\* The system calls of write_bytes implement the abstract store: each path
\* changes in one step, to one complete legal file, and a power failure takes
\* the whole store back to one earlier state.
ImplementsStore == Store!Spec

-----------------------------------------------------------------------------
(* Why they hold when calls on one temporary name are sequenced: the       *)
(* inductive invariant of AtomicFileProofs.                                *)

\* No two calls in flight share a temporary name.
Exclusive ==
  \A w, v \in Writers : w # v /\ Active(w) /\ Active(v) => TmpOf(w) # TmpOf(v)

\* An open descriptor's inode has no other descriptor, no name but the call's
\* temporary name, and no committed target; that name has no other inode.
DescriptorPrivate ==
  /\ \A w, v \in Writers : w # v /\ Open(w) => fd[w] # fd[v]
  /\ \A w \in Writers : Open(w) =>
       /\ dir[TmpOf(w)] \in {fd[w], None}
       /\ \A n \in Names : dir[n] = fd[w] => n = TmpOf(w)
       /\ \A p \in Paths : diskDir[p] # fd[w]

\* There are no hard links, now or on the disk.
Injective(d) == \A n, m \in Names : d[n] = d[m] /\ d[n] # None => n = m

\* What a temporary name points at is no target's inode on the disk either,
\* so truncating it cannot touch what a power failure would bring back.
TmpUncommitted ==
  \A n \in TmpNames : dir[n] # None => \A p \in Paths : diskDir[p] # dir[n]

\* Inode i, with modes m, is a complete, synced file that may stand at p.
Good(i, m, p) ==
  /\ m[i] = PathMode[p]
  /\ \E c \in Contents : bytes[i] = Whole(c) /\ synced[i] = Whole(c)

TargetsGood ==
  \A p \in Paths :
    /\ dir[p] # None => Good(dir[p], mode, p)
    /\ diskDir[p] # None => Good(diskDir[p], diskMode, p)

\* How far each call has got with the inode it is writing.
Progress ==
  \A w \in Writers :
    /\ pc[w] = "write" => \A k \in 1..Chunks : k < at[w] => bytes[fd[w]][k] = content[w]
    /\ pc[w] = "sync" => bytes[fd[w]] = Whole(content[w])
    /\ pc[w] \in {"chmod", "rename"} /\ dir[TmpOf(w)] # None =>
         /\ bytes[dir[TmpOf(w)]] = Whole(content[w])
         /\ synced[dir[TmpOf(w)]] = Whole(content[w])
         /\ pc[w] = "rename" => mode[dir[TmpOf(w)]] = PathMode[path[w]]

\* Everything a sequenced write_bytes keeps between two system calls: one call
\* per temporary name, its inode private to it, and every inode under a target
\* complete, synced and in its mode.
IInv ==
  /\ TypeOK
  /\ Exclusive
  /\ DescriptorPrivate
  /\ Injective(dir)
  /\ Injective(diskDir)
  /\ TmpUncommitted
  /\ TargetsGood
  /\ Progress
=============================================================================
