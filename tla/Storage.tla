------------------------------ MODULE Storage ------------------------------
(***************************************************************************)
(* Storage (src/src/tbfs_storage_mng.c, tbfs_storage_torrent.c): blocks of *)
(* pieces in files, a directory for each torrent and a file for each       *)
(* piece, made when they are first used and kept open until the manager is *)
(* destroyed.  The tables are only in memory: what was recorded as stored  *)
(* is forgotten by a restart, the files are not.                           *)
(*                                                                         *)
(* The node creates and destroys the manager (main.c) and calls neither    *)
(* tbfs_storage_add_buf nor tbfs_storage_get_buf yet; here they are called *)
(* in any order with any arguments.                                        *)
(*                                                                         *)
(* r_blocks, a WRange, is the set of the bytes it holds (module WRange).   *)
(* The user may make a directory and change its permissions but removes    *)
(* nothing.                                                                *)
(***************************************************************************)
EXTENDS Integers, FiniteSets

CONSTANTS
    Torrents,
    PieceIDs,
    Size,           \* a block lies below this offset
    Fds,            \* the descriptors a process may have open
    None            \* no file, no descriptor

ASSUME SizeAssumption == Size \in Nat
ASSUME NoneAssumption == None \notin Fds /\ None \notin Torrents \X PieceIDs

Files == Torrents \X PieceIDs
Bytes == 0 .. Size - 1

VARIABLES
    dir,        \* the directory of a torrent: "missing", "usable" or "unusable"
    created,    \* the files on disk
    disk,       \* the bytes a file holds
    running,    \* is there a StorageMng?
    h_storage_torrents,
    fd,         \* the descriptor of each piece in the h_pieces of its torrent,
                \* None for a piece that is not there
    r_blocks,   \* what is recorded as stored of a piece
    open_fds    \* the file behind each descriptor of the process

files == <<created, disk>>
vars == <<dir, created, disk, running, h_storage_torrents, fd, r_blocks, open_fds>>

TypeOK ==
    /\ dir \in [Torrents -> {"missing", "usable", "unusable"}]
    /\ created \in SUBSET Files
    /\ disk \in [Files -> SUBSET Bytes]
    /\ running \in BOOLEAN
    /\ h_storage_torrents \in SUBSET Torrents
    /\ fd \in [Files -> Fds \cup {None}]
    /\ r_blocks \in [Files -> SUBSET Bytes]
    /\ open_fds \in [Fds -> Files \cup {None}]

-----------------------------------------------------------------------------
\* A node starts, over the files of an earlier run or of somebody else.
Init ==
    /\ dir \in [Torrents -> {"missing", "usable", "unusable"}]
    /\ created \in SUBSET {f \in Files : dir[f[1]] # "missing"}
    /\ disk \in {d \in [Files -> SUBSET Bytes] : \A f \in Files \ created : d[f] = {}}
    /\ running = FALSE
    /\ h_storage_torrents = {}
    /\ fd = [f \in Files |-> None]
    /\ r_blocks = [f \in Files |-> {}]
    /\ open_fds = [d \in Fds |-> None]

\* tbfs_storage_mng_create.
Create ==
    /\ ~running
    /\ running' = TRUE
    /\ UNCHANGED <<dir, files, h_storage_torrents, fd, r_blocks, open_fds>>

\* tbfs_storage_get_storage_torrent: the torrent of the table, which is not
\* looked at again, or a new one with a directory that exists or can be made.
GetTorrent(t) ==
    /\ h_storage_torrents' = h_storage_torrents \cup {t}
    /\ \/ (t \in h_storage_torrents \/ dir[t] = "usable") /\ UNCHANGED dir
       \/ /\ t \notin h_storage_torrents /\ dir[t] = "missing"
          /\ dir' = [dir EXCEPT ![t] = "usable"]

\* It returns NULL: mkdir failed, or made a directory that is no use.
TorrentRefused(t) ==
    /\ t \notin h_storage_torrents
    /\ \/ dir[t] # "usable" /\ UNCHANGED dir
       \/ dir[t] = "missing" /\ dir' = [dir EXCEPT ![t] = "unusable"]
    /\ UNCHANGED h_storage_torrents

\* Fault: a piece that is opened is not put into the table.
PieceGetUnlisted(t, p) ==
    LET f == <<t, p>>
    IN  \/ fd[f] # None /\ UNCHANGED <<created, fd, open_fds>>
        \/ /\ fd[f] = None /\ (dir'[t] = "usable" \/ f \in created)
           /\ \E d \in {e \in Fds : open_fds[e] = None} :
                 open_fds' = [open_fds EXCEPT ![d] = f]
           /\ created' = created \cup {f}
           /\ UNCHANGED fd

\* tbfs_storage_piece_get: the piece of the table, or its file is opened, and
\* made if need be; a file that is there may open in a directory that takes no
\* new one.  It stays open.
PieceGet(t, p) ==
    LET f == <<t, p>>
    IN  \/ fd[f] # None /\ UNCHANGED <<created, fd, open_fds>>
        \/ /\ fd[f] = None /\ (dir'[t] = "usable" \/ f \in created)
           /\ \E d \in {e \in Fds : open_fds[e] = None} :
                 /\ open_fds' = [open_fds EXCEPT ![d] = f]
                 /\ fd' = [fd EXCEPT ![f] = d]
           /\ created' = created \cup {f}

\* It returns NULL: open fails for want of permission or of descriptors.
PieceRefused(t, p) ==
    /\ fd[<<t, p>>] = None
    /\ UNCHANGED <<created, fd, open_fds>>

\* Fault: the file is opened for reading and writing.
OpenFlagsRdwr == {"O_RDWR", "O_CLOEXEC", "O_CREAT", "O_NOATIME"}

\* The flags a file is opened with.
OpenFlags == {"O_CLOEXEC", "O_CREAT", "O_NOATIME"}

\* What pwrite of len bytes may return: it fails on a file that is open for
\* reading only, which is what no other flag means, and else writes some.
PWrite(len) ==
    IF OpenFlags \cap {"O_WRONLY", "O_RDWR"} = {} THEN {-1} ELSE -1 .. len

\* Fault: what pwrite returns is not compared.
WriteBlockUnchecked(f, offset, len) ==
    \E wbytes \in PWrite(len) :
        /\ disk' = [disk EXCEPT ![f] = @ \cup (offset .. offset + wbytes - 1)]
        /\ r_blocks' = [r_blocks EXCEPT ![f] = @ \cup (offset .. offset + len - 1)]

\* tbfs_storage_torrent_piece_write_block_buf, once it has the piece.
WriteBlock(f, offset, len) ==
    \E wbytes \in PWrite(len) :
        /\ disk' = [disk EXCEPT ![f] = @ \cup (offset .. offset + wbytes - 1)]
        /\ \/ wbytes # len /\ UNCHANGED r_blocks
           \/ /\ wbytes = len
              /\ r_blocks' =
                     [r_blocks EXCEPT ![f] = @ \cup (offset .. offset + len - 1)]

\* tbfs_storage_add_buf.
AddBuf(t, p, offset, len) ==
    /\ running /\ UNCHANGED running
    /\ \/ TorrentRefused(t) /\ UNCHANGED <<files, fd, open_fds, r_blocks>>
       \/ GetTorrent(t) /\ PieceRefused(t, p) /\ UNCHANGED <<disk, r_blocks>>
       \/ GetTorrent(t) /\ PieceGet(t, p) /\ WriteBlock(<<t, p>>, offset, len)

\* tbfs_storage_get_buf: a segment of the file, whatever r_blocks says of it.
\* A piece that was never stored gets a file by being asked for.
GetBuf(t, p) ==
    /\ running /\ UNCHANGED <<running, disk, r_blocks>>
    /\ \/ TorrentRefused(t) /\ UNCHANGED <<created, fd, open_fds>>
       \/ GetTorrent(t) /\ (PieceRefused(t, p) \/ PieceGet(t, p))

Forget ==
    /\ running' = FALSE
    /\ h_storage_torrents' = {}
    /\ fd' = [f \in Files |-> None]
    /\ r_blocks' = [f \in Files |-> {}]
    /\ UNCHANGED <<dir, files>>

\* tbfs_storage_mng_destroy: the torrents of the table, their pieces, and the
\* descriptors of those.
Destroy ==
    /\ running
    /\ open_fds' = [d \in Fds |-> IF \E f \in Files : fd[f] = d THEN None
                                  ELSE open_fds[d]]
    /\ Forget

\* The process ends without destroying anything.
Killed ==
    /\ running
    /\ open_fds' = [d \in Fds |-> None]
    /\ Forget

\* The user makes the directory of a torrent or changes its permissions.
DirChanges(t) ==
    /\ \E s \in {"usable", "unusable"} : dir' = [dir EXCEPT ![t] = s]
    /\ UNCHANGED <<files, running, h_storage_torrents, fd, r_blocks, open_fds>>

Next ==
    \/ Create
    \/ \E t \in Torrents, p \in PieceIDs :
          \/ GetBuf(t, p)
          \/ \E offset \in 0 .. Size : \E len \in 1 .. Size - offset :
                AddBuf(t, p, offset, len)
    \/ Destroy
    \/ Killed
    \/ \E t \in Torrents : DirChanges(t)

Spec == Init /\ [][Next]_vars

-----------------------------------------------------------------------------
(***************************************************************************)
(* Properties                                                              *)
(***************************************************************************)
\* A byte is recorded as stored only if the file holds it, through short
\* writes, restarts and files that were there before; and only of a piece
\* that is in the table.
RecordedOnDisk ==
    \A f \in Files :
        /\ r_blocks[f] \subseteq disk[f]
        /\ r_blocks[f] # {} => fd[f] # None

\* The open descriptors are those of the pieces in the tables, each of its own
\* file: none is lost by a call that fails, none outlives the manager and none
\* is used for another piece.
FdsReached ==
    /\ \A f \in Files :
           fd[f] # None =>
               /\ open_fds[fd[f]] = f
               /\ f \in created /\ f[1] \in h_storage_torrents /\ running
    /\ \A d \in Fds : open_fds[d] # None => fd[open_fds[d]] = d

\* Nothing is ever stored: the file of a piece is open for reading only
\* (tbfs_storage_torrent.c:92), so that no block that is added reaches the
\* disk, and none is recorded.
NothingStored ==
    [][disk' = disk /\ r_blocks' = r_blocks]_vars
=============================================================================
