---------------------------- MODULE StorageProofs ----------------------------
(***************************************************************************)
(* Proofs about Storage, for any torrents, pieces, descriptors and sizes.  *)
(* What is recorded and what is open is proved without looking at          *)
(* OpenFlags: it holds of a node that can write as well.  That nothing is  *)
(* stored is what the flags of the code add to it.                         *)
(***************************************************************************)
EXTENDS Storage, TLAPS

USE SizeAssumption, NoneAssumption

IInv == TypeOK /\ RecordedOnDisk /\ FdsReached

-----------------------------------------------------------------------------
\* The storage starts with the invariant.
LEMMA InitIInv == Init => IInv
<1> SUFFICES ASSUME Init PROVE IInv  OBVIOUS
<1>1. TypeOK  BY DEF Init, TypeOK
<1>2. RecordedOnDisk  BY DEF Init, RecordedOnDisk
<1>3. FdsReached  BY DEF Init, FdsReached
<1> QED  BY <1>1, <1>2, <1>3 DEF IInv

\* Finding the torrent changes the directories and its table alone, and the
\* table only grows.
LEMMA TorrentStep ==
    ASSUME TypeOK, NEW t \in Torrents, GetTorrent(t) \/ TorrentRefused(t)
    PROVE  /\ dir' \in [Torrents -> {"missing", "usable", "unusable"}]
           /\ h_storage_torrents' \in SUBSET Torrents
           /\ h_storage_torrents \subseteq h_storage_torrents'
           /\ GetTorrent(t) => t \in h_storage_torrents'
BY DEF TypeOK, GetTorrent, TorrentRefused

\* A piece that is got is open, a descriptor that was free is its own, and
\* every other piece keeps the one it had.
LEMMA PieceStep ==
    ASSUME IInv, NEW t \in Torrents, NEW p \in PieceIDs,
           PieceGet(t, p), GetTorrent(t), running' = running, running
    PROVE  /\ created' \in SUBSET Files
           /\ fd' \in [Files -> Fds \cup {None}]
           /\ open_fds' \in [Fds -> Files \cup {None}]
           /\ fd'[<<t, p>>] # None
           /\ \A f \in Files : fd[f] # None => fd'[f] = fd[f]
           /\ FdsReached'
<1> DEFINE f0 == <<t, p>>
<1>0. f0 \in Files  BY DEF Files
<1>a. /\ h_storage_torrents \subseteq h_storage_torrents'
      /\ t \in h_storage_torrents'
  BY TorrentStep DEF IInv
<1>b. /\ created \in SUBSET Files
      /\ fd \in [Files -> Fds \cup {None}]
      /\ open_fds \in [Fds -> Files \cup {None}]
  BY DEF IInv, TypeOK
<1>1. CASE fd[f0] # None
  <2>1. UNCHANGED <<created, fd, open_fds>>
    BY <1>1 DEF PieceGet
  <2>2. FdsReached'  BY <1>a, <2>1 DEF IInv, FdsReached
  <2> QED  BY <1>b, <1>1, <2>1, <2>2
<1>2. CASE fd[f0] = None
  <2>1. PICK d \in Fds :
            /\ open_fds[d] = None
            /\ open_fds' = [open_fds EXCEPT ![d] = f0]
            /\ fd' = [fd EXCEPT ![f0] = d]
    BY <1>2 DEF PieceGet
  <2>2. created' = created \cup {f0}  BY <1>2 DEF PieceGet
  <2>3. /\ created' \in SUBSET Files
        /\ fd' \in [Files -> Fds \cup {None}]
        /\ open_fds' \in [Fds -> Files \cup {None}]
    BY <1>0, <1>b, <2>1, <2>2
  <2>4. fd'[f0] = d /\ open_fds'[d] = f0 /\ d # None /\ f0 # None
    BY <1>0, <1>b, <2>1 DEF Files
  <2>5. \A f \in Files \ {f0} : fd'[f] = fd[f]  BY <1>b, <2>1
  <2>6. \A e \in Fds \ {d} : open_fds'[e] = open_fds[e]  BY <1>b, <2>1
  <2>7. ASSUME NEW f \in Files, fd'[f] # None
        PROVE  /\ open_fds'[fd'[f]] = f
               /\ f \in created' /\ f[1] \in h_storage_torrents' /\ running'
    <3>1. CASE f = f0  BY <1>a, <2>2, <2>4, <3>1
    <3>2. CASE f # f0
      <4>1. fd'[f] = fd[f]  BY <2>5, <3>2
      <4>2. open_fds[fd[f]] = f /\ f \in created /\ f[1] \in h_storage_torrents
        BY <2>7, <4>1 DEF IInv, FdsReached
      <4>3. fd[f] \in Fds /\ f # None  BY <1>b, <2>7, <4>1 DEF Files
      <4>4. fd[f] # d  BY <2>1, <4>2, <4>3
      <4> QED  BY <1>a, <2>2, <2>6, <4>1, <4>2, <4>3, <4>4
    <3> QED  BY <3>1, <3>2
  <2>8. ASSUME NEW e \in Fds, open_fds'[e] # None
        PROVE  fd'[open_fds'[e]] = e
    <3>1. CASE e = d  BY <2>4, <3>1
    <3>2. CASE e # d
      <4>1. open_fds'[e] = open_fds[e]  BY <2>6, <3>2
      <4>2. fd[open_fds[e]] = e  BY <2>8, <4>1 DEF IInv, FdsReached
      <4>3. open_fds[e] \in Files  BY <1>b, <2>8, <4>1
      <4>4. open_fds[e] # f0  BY <1>2, <4>2
      <4> QED  BY <2>5, <4>1, <4>2, <4>3, <4>4
    <3> QED  BY <3>1, <3>2
  <2>9. FdsReached'  BY <2>7, <2>8 DEF FdsReached
  <2>10. \A f \in Files : fd[f] # None => fd'[f] = fd[f]  BY <1>2, <2>5
  <2> QED  BY <2>3, <2>4, <2>9, <2>10
<1> QED  BY <1>1, <1>2

\* A block is recorded only when the file has all of it.
LEMMA WriteStep ==
    ASSUME TypeOK, RecordedOnDisk, NEW f0 \in Files,
           NEW offset \in 0 .. Size, NEW len \in 1 .. Size - offset,
           WriteBlock(f0, offset, len)
    PROVE  /\ disk' \in [Files -> SUBSET Bytes]
           /\ r_blocks' \in [Files -> SUBSET Bytes]
           /\ \A f \in Files : r_blocks'[f] \subseteq disk'[f]
           /\ \A f \in Files \ {f0} : r_blocks'[f] = r_blocks[f]
<1>1. PICK w \in PWrite(len) :
          /\ disk' = [disk EXCEPT ![f0] = @ \cup (offset .. offset + w - 1)]
          /\ \/ w # len /\ r_blocks' = r_blocks
             \/ /\ w = len
                /\ r_blocks' =
                       [r_blocks EXCEPT ![f0] = @ \cup (offset .. offset + len - 1)]
  BY DEF WriteBlock
<1>2. w \in -1 .. len  BY DEF PWrite
<1>3. offset .. offset + w - 1 \subseteq Bytes  BY <1>2 DEF Bytes
<1>4. disk \in [Files -> SUBSET Bytes] /\ r_blocks \in [Files -> SUBSET Bytes]
  BY DEF TypeOK
<1>5. /\ disk' \in [Files -> SUBSET Bytes]
      /\ disk'[f0] = disk[f0] \cup (offset .. offset + w - 1)
      /\ \A f \in Files \ {f0} : disk'[f] = disk[f]
  BY <1>1, <1>3, <1>4
<1>6. CASE w # len
  BY <1>1, <1>4, <1>5, <1>6 DEF RecordedOnDisk
<1>7. CASE w = len
  <2>1. r_blocks' = [r_blocks EXCEPT ![f0] = @ \cup (offset .. offset + w - 1)]
    BY <1>1, <1>7
  <2>2. /\ r_blocks' \in [Files -> SUBSET Bytes]
        /\ r_blocks'[f0] = r_blocks[f0] \cup (offset .. offset + w - 1)
        /\ \A f \in Files \ {f0} : r_blocks'[f] = r_blocks[f]
    BY <1>3, <1>4, <2>1
  <2> QED  BY <1>5, <2>2 DEF RecordedOnDisk
<1> QED  BY <1>6, <1>7

-----------------------------------------------------------------------------
\* Adding a block keeps it, whichever of its calls fails,
LEMMA AddBufIInv ==
    ASSUME IInv, NEW t \in Torrents, NEW p \in PieceIDs,
           NEW offset \in 0 .. Size, NEW len \in 1 .. Size - offset,
           AddBuf(t, p, offset, len)
    PROVE  IInv'
<1>1. running /\ running' = running  BY DEF AddBuf
<1>2. CASE TorrentRefused(t) /\ UNCHANGED <<files, fd, open_fds, r_blocks>>
  BY <1>1, <1>2, TorrentStep
     DEF IInv, TypeOK, RecordedOnDisk, FdsReached, files
<1>3. CASE GetTorrent(t) /\ PieceRefused(t, p) /\ UNCHANGED <<disk, r_blocks>>
  BY <1>1, <1>3, TorrentStep
     DEF IInv, TypeOK, RecordedOnDisk, FdsReached, PieceRefused
<1>4. CASE GetTorrent(t) /\ PieceGet(t, p) /\ WriteBlock(<<t, p>>, offset, len)
  <2> DEFINE f0 == <<t, p>>
  <2>0. f0 \in Files  BY DEF Files
  <2>1. /\ created' \in SUBSET Files
        /\ fd' \in [Files -> Fds \cup {None}]
        /\ open_fds' \in [Fds -> Files \cup {None}]
        /\ fd'[f0] # None
        /\ \A f \in Files : fd[f] # None => fd'[f] = fd[f]
        /\ FdsReached'
    BY <1>1, <1>4, PieceStep
  <2>2. /\ disk' \in [Files -> SUBSET Bytes]
        /\ r_blocks' \in [Files -> SUBSET Bytes]
        /\ \A f \in Files : r_blocks'[f] \subseteq disk'[f]
        /\ \A f \in Files \ {f0} : r_blocks'[f] = r_blocks[f]
    BY <1>4, <2>0, WriteStep DEF IInv
  <2>3. TypeOK'
    BY <1>1, <1>4, <2>1, <2>2, TorrentStep DEF IInv, TypeOK
  <2>4. RecordedOnDisk'
    <3>1. ASSUME NEW f \in Files, r_blocks'[f] # {} PROVE fd'[f] # None
      <4>1. CASE f = f0  BY <2>1, <4>1
      <4>2. CASE f # f0
        BY <2>1, <2>2, <3>1, <4>2 DEF IInv, RecordedOnDisk
      <4> QED  BY <4>1, <4>2
    <3> QED  BY <2>2, <3>1 DEF RecordedOnDisk
  <2> QED  BY <2>1, <2>3, <2>4 DEF IInv
<1> QED  BY <1>2, <1>3, <1>4 DEF AddBuf

\* and so does reading one, which may open the file.
LEMMA GetBufIInv ==
    ASSUME IInv, NEW t \in Torrents, NEW p \in PieceIDs, GetBuf(t, p)
    PROVE  IInv'
<1>1. running /\ running' = running /\ disk' = disk /\ r_blocks' = r_blocks
  BY DEF GetBuf
<1>2. CASE TorrentRefused(t) /\ UNCHANGED <<created, fd, open_fds>>
  BY <1>1, <1>2, TorrentStep DEF IInv, TypeOK, RecordedOnDisk, FdsReached
<1>3. CASE GetTorrent(t) /\ PieceRefused(t, p)
  BY <1>1, <1>3, TorrentStep
     DEF IInv, TypeOK, RecordedOnDisk, FdsReached, PieceRefused
<1>4. CASE GetTorrent(t) /\ PieceGet(t, p)
  <2>1. /\ created' \in SUBSET Files
        /\ fd' \in [Files -> Fds \cup {None}]
        /\ open_fds' \in [Fds -> Files \cup {None}]
        /\ \A f \in Files : fd[f] # None => fd'[f] = fd[f]
        /\ FdsReached'
    BY <1>1, <1>4, PieceStep
  <2>2. TypeOK'  BY <1>1, <1>4, <2>1, TorrentStep DEF IInv, TypeOK
  <2>3. RecordedOnDisk'  BY <1>1, <2>1 DEF IInv, RecordedOnDisk
  <2> QED  BY <2>1, <2>2, <2>3 DEF IInv
<1> QED  BY <1>2, <1>3, <1>4 DEF GetBuf

\* However the manager goes, it leaves no descriptor and no record.
LEMMA ForgetIInv == IInv /\ (Destroy \/ Killed) => IInv'
<1> SUFFICES ASSUME IInv, Destroy \/ Killed PROVE IInv'  OBVIOUS
<1>1. Forget  BY DEF Destroy, Killed
<1>2. ASSUME NEW d \in Fds PROVE open_fds'[d] = None
  <2>1. CASE Killed  BY <2>1 DEF Killed
  <2>2. CASE Destroy
    <3>1. CASE open_fds[d] = None  BY <2>2, <3>1 DEF Destroy
    <3>2. CASE open_fds[d] # None
      <4>1. open_fds[d] \in Files /\ fd[open_fds[d]] = d
        BY <3>2 DEF IInv, TypeOK, FdsReached
      <4> QED  BY <2>2, <4>1 DEF Destroy
    <3> QED  BY <3>1, <3>2
  <2> QED  BY <2>1, <2>2
<1>3. open_fds' \in [Fds -> Files \cup {None}]
  <2>1. open_fds \in [Fds -> Files \cup {None}]  BY DEF IInv, TypeOK
  <2> QED  BY <2>1 DEF Destroy, Killed
<1>4. TypeOK'  BY <1>1, <1>3 DEF IInv, TypeOK, Forget, files
<1>5. RecordedOnDisk'  BY <1>1 DEF Forget, RecordedOnDisk
<1>6. FdsReached'  BY <1>1, <1>2 DEF Forget, FdsReached
<1> QED  BY <1>4, <1>5, <1>6 DEF IInv

\* No step breaks IInv.
LEMMA NextIInv == IInv /\ [Next]_vars => IInv'
<1> SUFFICES ASSUME IInv, [Next]_vars PROVE IInv'  OBVIOUS
<1>1. CASE Create
  BY <1>1 DEF IInv, TypeOK, RecordedOnDisk, FdsReached, Create, files
<1>2. ASSUME NEW t \in Torrents, NEW p \in PieceIDs, GetBuf(t, p) PROVE IInv'
  BY <1>2, GetBufIInv
<1>3. ASSUME NEW t \in Torrents, NEW p \in PieceIDs,
             NEW offset \in 0 .. Size, NEW len \in 1 .. Size - offset,
             AddBuf(t, p, offset, len)
      PROVE  IInv'
  BY <1>3, AddBufIInv
<1>4. CASE Destroy \/ Killed  BY <1>4, ForgetIInv
<1>5. ASSUME NEW t \in Torrents, DirChanges(t) PROVE IInv'
  BY <1>5 DEF IInv, TypeOK, RecordedOnDisk, FdsReached, DirChanges, files
<1>6. CASE UNCHANGED vars
  BY <1>6 DEF IInv, TypeOK, RecordedOnDisk, FdsReached, vars, files
<1> QED  BY <1>1, <1>2, <1>3, <1>4, <1>5, <1>6 DEF Next

-----------------------------------------------------------------------------
(***************************************************************************)
(* Theorems                                                                *)
(***************************************************************************)
\* All of it together is invariant.
THEOREM Invariant == Spec => []IInv
<1> QED  BY InitIInv, NextIInv, PTL DEF Spec

\* The tables, the descriptors and the files have their shape.
THEOREM TypeCorrect == Spec => []TypeOK
<1>1. IInv => TypeOK  BY DEF IInv
<1> QED  BY Invariant, <1>1, PTL

\* What r_blocks records the file of the piece holds
\* (tbfs_storage_torrent_piece_write_block_buf).
THEOREM Recorded == Spec => []RecordedOnDisk
<1>1. IInv => RecordedOnDisk  BY DEF IInv
<1> QED  BY Invariant, <1>1, PTL

\* No descriptor is lost or shared (tbfs_storage_piece_get and the destroy
\* functions).
THEOREM Descriptors == Spec => []FdsReached
<1>1. IInv => FdsReached  BY DEF IInv
<1> QED  BY Invariant, <1>1, PTL

\* No record is ever made, for no write succeeds.
Unrecorded == r_blocks = [f \in Files |-> {}]

\* With the flags of the code pwrite fails and nothing is recorded.
LEMMA WriteFails ==
    ASSUME TypeOK, NEW f0 \in Files, NEW offset \in Nat, NEW len \in Nat,
           WriteBlock(f0, offset, len)
    PROVE  disk' = disk /\ r_blocks' = r_blocks
<1>1. PWrite(len) = {-1}  BY DEF PWrite, OpenFlags
<1>2. /\ disk' = [disk EXCEPT ![f0] = @ \cup (offset .. offset + (-1) - 1)]
      /\ r_blocks' = r_blocks
  BY <1>1 DEF WriteBlock
<1>3. offset .. offset + (-1) - 1 = {}  OBVIOUS
<1>4. disk \in [Files -> SUBSET Bytes]  BY DEF TypeOK
<1> QED  BY <1>2, <1>3, <1>4

\* No step changes what is on disk or recorded.
LEMMA NextStoresNothing ==
    TypeOK /\ Unrecorded /\ [Next]_vars => disk' = disk /\ r_blocks' = r_blocks
<1> SUFFICES ASSUME TypeOK, Unrecorded, [Next]_vars
             PROVE  disk' = disk /\ r_blocks' = r_blocks
  OBVIOUS
<1>1. ASSUME NEW t \in Torrents, NEW p \in PieceIDs, GetBuf(t, p)
      PROVE  disk' = disk /\ r_blocks' = r_blocks
  BY <1>1 DEF GetBuf
<1>2. ASSUME NEW t \in Torrents, NEW p \in PieceIDs,
             NEW offset \in 0 .. Size, NEW len \in 1 .. Size - offset,
             AddBuf(t, p, offset, len)
      PROVE  disk' = disk /\ r_blocks' = r_blocks
  <2>1. <<t, p>> \in Files /\ offset \in Nat /\ len \in Nat  BY DEF Files
  <2>2. CASE WriteBlock(<<t, p>>, offset, len)  BY <2>1, <2>2, WriteFails
  <2> QED  BY <1>2, <2>2 DEF AddBuf, files
<1>3. CASE Destroy \/ Killed
  BY <1>3 DEF Destroy, Killed, Forget, Unrecorded, files
<1>4. CASE Create \/ (\E t \in Torrents : DirChanges(t)) \/ UNCHANGED vars
  BY <1>4 DEF Create, DirChanges, vars, files
<1> QED  BY <1>1, <1>2, <1>3, <1>4 DEF Next

\* No block that is added reaches the disk, whatever the node is asked to
\* store: pwrite fails on a file that is open for reading (line 92).
THEOREM Stored == Spec => NothingStored
<1>1. Init => Unrecorded  BY DEF Init, Unrecorded
<1>2. TypeOK /\ Unrecorded /\ [Next]_vars => Unrecorded'
  BY NextStoresNothing DEF Unrecorded
<1>3. TypeOK /\ Unrecorded /\ [Next]_vars
          => [disk' = disk /\ r_blocks' = r_blocks]_vars
  BY NextStoresNothing
<1> QED  BY TypeCorrect, <1>1, <1>2, <1>3, PTL DEF Spec, NothingStored
=============================================================================
