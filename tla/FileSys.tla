------------------------------ MODULE FileSys ------------------------------
(***************************************************************************)
(* The FAT file system of filesys/inode.c and filesys/filesys.c, entered   *)
(* through the system calls of userprog/syscall.c.                         *)
(*                                                                         *)
(* Every system call runs under the single file-system lock, so each one  *)
(* is one atomic action.  The C functions of inode.c and of the FAT and   *)
(* directory layers are operators from a file-system state `fs' to the    *)
(* next one, and a handler is their composition in the order the code     *)
(* calls them.  fat.c, directory.c and file.c are not in the tree: their  *)
(* operators follow spec.md section 4 and the pintos originals.           *)
(*                                                                         *)
(* Sizes are in bytes, with SectorSize bytes per sector; a cluster is one *)
(* sector.  The bytes of a sector are abstracted to the set of inodes     *)
(* that wrote into it ({} is a zeroed sector).                            *)
(***************************************************************************)
EXTENDS Integers, Sequences, FiniteSets, FiniteSetsExt, Functions, SequencesExt

CONSTANTS
    Names,        \* leaf names, one character each
    NCluster,     \* clusters 1..NCluster; cluster 1 is the root directory
    SectorSize,   \* DISK_SECTOR_SIZE
    Procs,        \* user processes
    Fds,          \* slots of a process's fd table
    Paths,        \* paths given to the system calls
    LinkTargets,  \* targets given to symlink
    CreateSizes,  \* initial sizes given to create
    Writes,       \* <<offset, size>> pairs given to seek+write
    Reads,        \* <<offset, size>> pairs given to seek+read
    MaxDepth,     \* nested get_working_dir calls the kernel stack holds
    MaxOpenCnt,   \* bound on open_cnt, so that leaked counts stay finite
    NONE, EOC, FREE

ROOT == 1                          \* ROOT_DIR_CLUSTER
Clusters == 1..NCluster
DOT == "."
DOTDOT == ".."
Entries == Names \cup {DOT, DOTDOT}

\* A path: absolute or relative, and its tokens, which may be "." or "..".
\* The path "/" has none.
PathRec == [abs : BOOLEAN, toks : Seq(Entries)]
ASSUME Paths \subseteq PathRec /\ LinkTargets \subseteq Paths

(* bytes_to_sectors: DIV_ROUND_UP (size, DISK_SECTOR_SIZE).                *)
BytesToSectors(n) == (n + SectorSize - 1) \div SectorSize

(* strlen of a path: names are one character, ".." two; a "/" before an  *)
(* absolute path and between tokens.                                      *)
TokLen(t) == IF t = DOTDOT THEN 2 ELSE 1

PathLen(path) ==
    IF path.toks = <<>> THEN 1
    ELSE (IF path.abs THEN 1 ELSE 0) + Len(path.toks) - 1
         + FoldSeq(LAMBDA t, acc : TokLen(t) + acc, 0, path.toks)

(* dir_create (sector, 16): sixteen 20-byte entries fit in one sector.    *)
DirLen == SectorSize

(* struct inode_disk, without magic.                                      *)
DiskInode == [start : 0..NCluster, length : Nat, isDir : BOOLEAN,
              isLink : BOOLEAN, link : Paths \cup {NONE}]

(* struct inode: open_cnt, removed and the in-memory copy of inode_disk.  *)
RegRec == [cnt : 1..MaxOpenCnt, removed : BOOLEAN, d : DiskInode]

Crashes == {"none", "panic", "overflow", "hang", "uninit"}

FsRec == [fat   : [Clusters -> Clusters \cup {EOC, FREE}],
          disk  : [Clusters -> DiskInode \cup {NONE}],
          ents  : [Clusters -> [Entries -> 0..NCluster]],
          data  : [Clusters -> SUBSET Clusters],
          reg   : [Clusters -> RegRec \cup {NONE}],
          uaf   : BOOLEAN,
          crash : Crashes]

VARIABLES
    fs,    \* the FAT, the disk, the open_inodes registry
    pwd,   \* each process's working directory, as an inode sector
    fds    \* each process's fd table: inode sector of each open file, or 0

vars == <<fs, pwd, fds>>

Crash(f, kind) == IF f.crash = "none" THEN [f EXCEPT !.crash = kind] ELSE f

-----------------------------------------------------------------------------
(* The FAT (fat.c, from spec.md 4.1): first-fit allocation.               *)

FreeClusters(fat) == {c \in Clusters : fat[c] = FREE}

(* fat_create_chain (prev): the cluster allocated, or 0.                  *)
FatCreateChain(fat, prev) ==
    IF FreeClusters(fat) = {} THEN [fat |-> fat, clst |-> 0]
    ELSE LET c == Min(FreeClusters(fat))
         IN  [fat  |-> [x \in Clusters |-> IF x = c THEN EOC
                                           ELSE IF x = prev THEN c ELSE fat[x]],
              clst |-> c]

(* The chain from c, walked with fat_get.                                 *)
RECURSIVE FatChain(_, _)
FatChain(fat, c) ==
    IF c \notin Clusters THEN <<>>
    ELSE IF fat[c] \in Clusters THEN <<c>> \o FatChain(fat, fat[c]) ELSE <<c>>

(* fat_remove_chain (start, 0).                                           *)
FatRemoveChain(fat, start) ==
    LET ch == Range(FatChain(fat, start))
    IN  [x \in Clusters |-> IF x \in ch THEN FREE ELSE fat[x]]

(* The loop `for i < n: clst = fat_create_chain (prev)' of inode_create   *)
(* and of inode_write_at's growth: stops at the first failure.            *)
RECURSIVE AllocLoop(_, _, _, _)
AllocLoop(fat, first, prev, n) ==
    IF n = 0 THEN [fat |-> fat, first |-> first, ok |-> TRUE]
    ELSE LET r == FatCreateChain(fat, prev)
         IN  IF r.clst = 0 THEN [fat |-> fat, first |-> first, ok |-> FALSE]
             ELSE AllocLoop(r.fat, IF first = 0 THEN r.clst ELSE first, r.clst, n - 1)

-----------------------------------------------------------------------------
(* inode.c                                                                *)

(* inode_create and inode_create_link: a chain of the file's sectors,     *)
(* released on failure, zeroed, and the inode_disk written at SECTOR.     *)
(* The result is unchanged when the chain does not fit.                   *)
InodeCreate(f, sector, length, isDir, isLink, link) ==
    LET a == AllocLoop(f.fat, 0, 0, BytesToSectors(length))
        ch == Range(FatChain(a.fat, a.first))
    IN  IF ~a.ok THEN [f EXCEPT !.fat = IF a.first # 0 THEN FatRemoveChain(a.fat, a.first)
                                                      ELSE a.fat]
        ELSE [f EXCEPT !.fat = a.fat,
                       !.data = [x \in Clusters |-> IF x \in ch THEN {} ELSE @[x]],
                       !.ents[sector] = [e \in Entries |-> 0],
                       !.disk[sector] = [start |-> a.first, length |-> length,
                                         isDir |-> isDir, isLink |-> isLink, link |-> link]]

InodeCreated(f, length) == Cardinality(FreeClusters(f.fat)) >= BytesToSectors(length)

(* inode_open: reopen the registered inode, or register one read from disk. *)
InodeOpen(f, s) ==
    IF f.reg[s] # NONE THEN [f EXCEPT !.reg[s].cnt = @ + 1]
    ELSE [f EXCEPT !.reg[s] = [cnt |-> 1, removed |-> FALSE, d |-> f.disk[s]]]

(* Mutants of inode_reopen and inode_close (see PROJECT.json).            *)
InodeReopenNoInc(f, s) == f

InodeCloseDecToZero(f, s) ==
    IF s = 0 THEN f
    ELSE IF f.reg[s] = NONE THEN [f EXCEPT !.uaf = TRUE]
    ELSE [f EXCEPT !.reg[s].cnt = @ - 1]

InodeCloseFreesLive(f, s) ==
    IF s = 0 THEN f
    ELSE IF f.reg[s] = NONE THEN [f EXCEPT !.uaf = TRUE]
    ELSE IF f.reg[s].cnt > 1 THEN [f EXCEPT !.reg[s].cnt = @ - 1]
    ELSE LET d == f.reg[s].d
         IN  [f EXCEPT !.reg[s] = NONE,
                       !.fat = IF d.start # 0
                               THEN FatRemoveChain(@, d.start) ELSE @]

(* inode_reopen.                                                          *)
InodeReopen(f, s) == [f EXCEPT !.reg[s].cnt = @ + 1]

(* inode_close; s = 0 is a NULL pointer.  A close of an inode already     *)
(* freed writes to freed memory: open_cnt is not malloc's free-list link, *)
(* so the build goes on, and only `uaf' records it.                       *)
InodeClose(f, s) ==
    IF s = 0 THEN f
    ELSE IF f.reg[s] = NONE THEN [f EXCEPT !.uaf = TRUE]
    ELSE IF f.reg[s].cnt > 1 THEN [f EXCEPT !.reg[s].cnt = @ - 1]
    ELSE LET d == f.reg[s].d
         IN  [f EXCEPT !.reg[s] = NONE,
                       !.fat = IF f.reg[s].removed /\ d.start # 0
                               THEN FatRemoveChain(@, d.start) ELSE @]

(* inode_remove.                                                          *)
InodeRemove(f, s) == [f EXCEPT !.reg[s].removed = TRUE]

(* The data loop of inode_write_at over the chain CH: a sector wholly     *)
(* covered is written from the buffer, the others are read, patched and   *)
(* written back.                                                          *)
WriteSectors(data, ch, offset, end, w) ==
    LET touched(k) == k * SectorSize < end /\ offset < (k + 1) * SectorSize
        full(k)    == offset <= k * SectorSize /\ (k + 1) * SectorSize <= end
    IN  [x \in Clusters |->
           IF \E k \in 1..Len(ch) : ch[k] = x /\ touched(k - 1)
           THEN LET k == CHOOSE i \in 1..Len(ch) : ch[i] = x
                IN  IF full(k - 1) THEN {w} ELSE data[x] \cup {w}
           ELSE data[x]]

(* inode_write_at (inode s, size, offset): growth, then the data loop.    *)
(* A failed allocation returns 0 with the clusters allocated so far left  *)
(* in the chain and `start' already set in memory (inode.c:345).          *)
InodeWriteAt(f, s, offset, size) ==
    LET d     == f.reg[s].d
        end   == offset + size
        cnt   == BytesToSectors(end) - BytesToSectors(d.length)
        first == IF d.start = 0 /\ cnt > 0 THEN FatCreateChain(f.fat, 0)
                 ELSE [fat |-> f.fat, clst |-> d.start]
        rest  == IF d.start = 0 /\ cnt > 0 THEN cnt - 1 ELSE cnt
        tail  == IF rest > 0 THEN Last(FatChain(first.fat, first.clst)) ELSE first.clst
        grown == AllocLoop(first.fat, 0, tail, rest)
        nd    == [d EXCEPT !.start = first.clst, !.length = end]
        write(g) == [g EXCEPT !.data = WriteSectors(@, FatChain(g.fat, g.reg[s].d.start),
                                                     offset, end, s)]
    IN  IF end <= d.length THEN write(f)
        ELSE IF d.start = 0 /\ cnt > 0 /\ first.clst = 0 THEN f
        ELSE IF ~grown.ok THEN [f EXCEPT !.fat = grown.fat, !.reg[s].d.start = first.clst]
        ELSE write([f EXCEPT !.fat = grown.fat, !.reg[s].d = nd, !.disk[s] = nd])

(* byte_to_sector (inode s, pos): walk pos / DISK_SECTOR_SIZE links of   *)
(* the chain from `start'; -1 past the length, for a start below 2, or    *)
(* when the chain ends first.                                             *)
ByteToSector(f, s, pos) ==
    LET d  == f.reg[s].d
        ch == FatChain(f.fat, d.start)
        k  == pos \div SectorSize
    IN  IF pos >= d.length \/ d.start < 2 \/ k >= Len(ch) THEN -1 ELSE ch[k + 1]

(* inode_read_at (inode s, size, offset): the loop reads each sector of   *)
(* [offset, min (offset + size, length)) through byte_to_sector.  The     *)
(* result is the set of inodes whose bytes were read, and whether         *)
(* disk_read was handed sector -1, which its ASSERT rejects.              *)
InodeReadAt(f, s, offset, size) ==
    LET end  == IF offset + size < f.reg[s].d.length THEN offset + size ELSE f.reg[s].d.length
        secs == {ByteToSector(f, s, k * SectorSize) :
                    k \in (offset \div SectorSize)..((end - 1) \div SectorSize)}
    IN  [bytes |-> UNION {f.data[c] : c \in secs \ {-1}}, bad |-> -1 \in secs]

-----------------------------------------------------------------------------
(* directory.c (spec.md 4.3 and the pintos original).  A `struct dir'     *)
(* owns one reference to its inode: dir_open takes the caller's,          *)
(* dir_close is inode_close.  ents[d] is what the data of inode d reads   *)
(* as directory entries, 0 for an entry not in use.                       *)

(* dir_lookup (d, n): the inode found is opened; NULL d trips its ASSERT. *)
DirLookup(f, d, n) ==
    IF d = 0 THEN Crash(f, "panic")
    ELSE IF f.ents[d][n] # 0 THEN InodeOpen(f, f.ents[d][n]) ELSE f

(* dir_add (d, n, s); it fails when n is in use.                          *)
DirAdd(f, d, n, s) ==
    IF d = 0 THEN Crash(f, "panic")
    ELSE IF f.ents[d][n] # 0 THEN f ELSE [f EXCEPT !.ents[d][n] = s]

(* dir_remove (d, n): open the entry's inode, clear the entry, mark the   *)
(* inode removed, close it.                                               *)
DirRemove(f, d, n) ==
    LET s == f.ents[d][n]
    IN  InodeClose(InodeRemove([InodeOpen(f, s) EXCEPT !.ents[d][n] = 0], s), s)

(* dir_readdir finds no entry other than "." and "..".                    *)
DirEmpty(f, d) == \A n \in Names : f.ents[d][n] = 0

-----------------------------------------------------------------------------
(* get_working_dir (path, name, deep_search): the directory the leaf of   *)
(* PATH lives in, opened, and the leaf's name; dir 0 is NULL.  It starts  *)
(* at dir_open_root or at dir_get_pwd, a reopen of the working directory. *)
(* A symlink met on the way restarts resolution at its target by a        *)
(* recursive call; DEPTH counts these calls.                              *)
RECURSIVE GetWorkingDir(_, _, _, _, _), Walk(_, _, _, _, _, _, _, _)
GetWorkingDir(f, cwd, path, deep, depth) ==
    LET start == IF path.abs THEN ROOT ELSE cwd
        f1 == IF path.abs THEN InodeOpen(f, ROOT) ELSE InodeReopen(f, cwd)
    IN  IF depth > MaxDepth THEN [fs |-> Crash(f, "overflow"), dir |-> 0, name |-> DOT]
        ELSE IF path.toks = <<>> THEN [fs |-> f1, dir |-> start, name |-> DOT]
        ELSE Walk(f1, cwd, start, Head(path.toks), Tail(path.toks), deep, depth, 0)

(* The loop of get_working_dir at token NAME in directory CUR, with the   *)
(* tokens REST still to come; ITER counts the symlinks this loop has      *)
(* followed.  Its state is a directory and an entry, so a loop that       *)
(* follows more than LoopBound links has repeated a state and never ends. *)
LoopBound == NCluster * Cardinality(Entries)

Walk(f, cwd, cur, name, rest, deep, depth, iter) ==
    IF f.crash # "none" THEN [fs |-> f, dir |-> 0, name |-> name]
    ELSE IF rest = <<>> THEN
        \* the last token: with deep_search, a symlink is followed
        LET ino == f.ents[cur][name]
            f2  == InodeOpen(f, ino)
            d   == f2.reg[ino].d
        IN  IF ~deep \/ ino = 0 THEN [fs |-> f, dir |-> cur, name |-> name]
            ELSE IF d.isLink
            THEN LET r == GetWorkingDir(InodeClose(f2, cur), cwd, d.link, deep, depth + 1)
                 IN  [r EXCEPT !.fs = InodeClose(@, ino)]
            ELSE [fs |-> InodeClose(f2, ino), dir |-> cur, name |-> name]
    ELSE IF cur = 0 THEN [fs |-> DirLookup(f, 0, name), dir |-> 0, name |-> name]
    ELSE
        LET ino == f.ents[cur][name]
            f2  == InodeOpen(f, ino)
            d   == f2.reg[ino].d
        IN  IF ino = 0 THEN [fs |-> InodeClose(f, cur), dir |-> 0, name |-> name]
            ELSE IF d.isLink
            THEN \* resolve the link, then look its leaf up with REST unchanged
                 LET r == GetWorkingDir(InodeClose(f2, cur), cwd, d.link, deep, depth + 1)
                 IN  IF iter >= LoopBound THEN [fs |-> Crash(f, "hang"), dir |-> 0, name |-> name]
                     ELSE Walk(InodeClose(r.fs, ino), cwd, r.dir, r.name, rest, deep, depth, iter + 1)
            ELSE IF ~d.isDir
            THEN [fs |-> InodeClose(InodeClose(f2, ino), cur), dir |-> 0, name |-> name]
            ELSE Walk(InodeClose(f2, cur), cwd, ino, Head(rest), Tail(rest), deep, depth, iter)

-----------------------------------------------------------------------------
(* filesys.c                                                              *)

(* The core shared by filesys_create, filesys_create_dir and              *)
(* filesys_symlink: a cluster for the inode, the inode, the entry in D.   *)
(* A failed dir_add opens the new inode, marks it removed and frees its   *)
(* cluster, and never closes it.  D is not closed here.                   *)
MakeNode(f, d, n, length, isDir, isLink, link) ==
    LET c  == FatCreateChain(f.fat, 0)
        s  == c.clst
        f1 == [f EXCEPT !.fat = c.fat]
        f2 == InodeCreate(f1, s, length, isDir, isLink, link)
    IN  IF s = 0 THEN [fs |-> f, ok |-> FALSE, sector |-> 0]
        ELSE IF ~InodeCreated(f1, length)
        THEN [fs |-> [f2 EXCEPT !.fat = FatRemoveChain(@, s)], ok |-> FALSE, sector |-> s]
        ELSE IF d # 0 /\ f2.ents[d][n] # 0
        THEN [fs |-> [InodeRemove(InodeOpen(f2, s), s) EXCEPT !.fat = FatRemoveChain(@, s)],
              ok |-> FALSE, sector |-> s]
        ELSE [fs |-> DirAdd(f2, d, n, s), ok |-> d # 0, sector |-> s]

(* create (file, initial_size) -> filesys_create.                         *)
Create(p, path, size) ==
    LET r == GetWorkingDir(fs, pwd[p], path, TRUE, 0)
        m == MakeNode(r.fs, r.dir, r.name, size, FALSE, FALSE, NONE)
    IN  /\ fs' = IF r.dir = 0 THEN r.fs ELSE InodeClose(m.fs, r.dir)
        /\ UNCHANGED <<pwd, fds>>

(* mkdir (dir) -> filesys_create_dir, which does not check for a NULL     *)
(* directory.  On success the new directory is looked up, opened, given   *)
(* "." and "..", and both directories are closed.                         *)
Mkdir(p, path) ==
    LET r == GetWorkingDir(fs, pwd[p], path, TRUE, 0)
        m == MakeNode(r.fs, r.dir, r.name, DirLen, TRUE, FALSE, NONE)
        s == m.sector
        f1 == DirLookup(m.fs, r.dir, r.name)
        f2 == DirAdd(DirAdd(f1, s, DOT, s), s, DOTDOT, r.dir)
    IN  /\ fs' = IF m.ok THEN InodeClose(InodeClose(f2, r.dir), s)
                 ELSE InodeClose(m.fs, r.dir)
        /\ UNCHANGED <<pwd, fds>>

(* symlink (target, linkpath) -> filesys_symlink.  The success path       *)
(* returns without closing the directory.                                 *)
Symlink(p, target, path) ==
    LET r == GetWorkingDir(fs, pwd[p], path, TRUE, 0)
        m == MakeNode(r.fs, r.dir, r.name, PathLen(target) + 1, FALSE, TRUE, target)
    IN  /\ fs' = IF r.dir = 0 THEN r.fs
                 ELSE IF m.ok THEN m.fs ELSE InodeClose(m.fs, r.dir)
        /\ UNCHANGED <<pwd, fds>>

(* filesys_open: look the leaf up in the directory get_working_dir gives, *)
(* close that directory and file_open the inode found (none for NULL).    *)
FilesysOpen(f, cwd, path) ==
    LET r == GetWorkingDir(f, cwd, path, TRUE, 0)
    IN  [fs  |-> InodeClose(IF r.dir # 0 THEN DirLookup(r.fs, r.dir, r.name) ELSE r.fs, r.dir),
         ino |-> IF r.dir # 0 THEN r.fs.ents[r.dir][r.name] ELSE 0]

(* open (file): filesys_open, then the first free fd; with none free the *)
(* file is closed again.                                                  *)
Open(p, path) ==
    LET o    == FilesysOpen(fs, pwd[p], path)
        free == {x \in Fds : fds[p][x] = 0}
    IN  IF o.ino # 0 /\ free # {}
        THEN /\ fs' = o.fs
             /\ fds' = [fds EXCEPT ![p][Min(free)] = o.ino]
             /\ UNCHANGED pwd
        ELSE /\ fs' = InodeClose(o.fs, o.ino)
             /\ UNCHANGED <<pwd, fds>>

(* close (fd) -> file_close.                                              *)
Close(p, x) ==
    /\ fds[p][x] # 0
    /\ fs' = InodeClose(fs, fds[p][x])
    /\ fds' = [fds EXCEPT ![p][x] = 0]
    /\ UNCHANGED pwd

(* seek (fd, offset); write (fd, size) -> file_write -> inode_write_at;   *)
(* a directory is refused.                                                *)
Write(p, x, w) ==
    /\ fds[p][x] # 0
    /\ ~fs.reg[fds[p][x]].d.isDir
    /\ fs' = InodeWriteAt(fs, fds[p][x], w[1], w[2])
    /\ UNCHANGED <<pwd, fds>>

(* remove (file) -> filesys_remove, without following a final symlink.    *)
(* A directory is removed only when its lookup holds the only reference,  *)
(* it is empty and it is not the working directory; its inode is then     *)
(* closed by dir_close (target_dir) and again by inode_close (inode).     *)
(* With no directory, inode_close gets an uninitialised pointer.          *)
FsRemove(p, path) ==
    LET r   == GetWorkingDir(fs, pwd[p], path, FALSE, 0)
        d   == r.dir
        ino == r.fs.ents[d][r.name]
        f1  == DirLookup(r.fs, d, r.name)
        e   == f1.reg[ino]
        f2  == InodeReopen(f1, pwd[p])
        f3  == IF DirEmpty(f2, ino) /\ ino # pwd[p] THEN DirRemove(f2, d, r.name) ELSE f2
        dirCase  == InodeClose(InodeClose(InodeClose(f3, pwd[p]), ino), ino)
        fileCase == InodeClose(DirRemove(InodeRemove(f1, ino), d, r.name), ino)
    IN  /\ fs' = IF d = 0 THEN Crash(r.fs, "uninit")
                 ELSE IF ino = 0 THEN InodeClose(r.fs, d)
                 ELSE IF ~e.d.isDir THEN InodeClose(fileCase, d)
                 ELSE IF e.cnt > 1 THEN InodeClose(InodeClose(f1, ino), d)
                 ELSE InodeClose(dirCase, d)
        /\ UNCHANGED <<pwd, fds>>

(* chdir (dir) -> filesys_change_dir: look the leaf up (no NULL check on  *)
(* the directory, no check that the leaf is a directory), make it the     *)
(* working directory, close the old one and the parent.                   *)
Chdir(p, path) ==
    LET r   == GetWorkingDir(fs, pwd[p], path, TRUE, 0)
        ino == IF r.dir # 0 THEN r.fs.ents[r.dir][r.name] ELSE 0
        f1  == DirLookup(r.fs, r.dir, r.name)
    IN  IF ino # 0 /\ r.fs.crash = "none"
        THEN /\ fs' = InodeClose(InodeClose(f1, pwd[p]), r.dir)
             /\ pwd' = [pwd EXCEPT ![p] = ino]
             /\ UNCHANGED fds
        ELSE /\ fs' = InodeClose(f1, r.dir)
             /\ UNCHANGED <<pwd, fds>>

-----------------------------------------------------------------------------

(* do_format and filesys_init: the root directory at cluster 1 with its   *)
(* data in cluster 2 and "." and ".." naming itself; each process holds   *)
(* the root as its working directory.                                     *)
RootInode == [start |-> 2, length |-> DirLen, isDir |-> TRUE, isLink |-> FALSE, link |-> NONE]

Init ==
    /\ fs = [fat   |-> [c \in Clusters |-> IF c \in {ROOT, 2} THEN EOC ELSE FREE],
             disk  |-> [c \in Clusters |-> IF c = ROOT THEN RootInode ELSE NONE],
             ents  |-> [c \in Clusters |-> [e \in Entries |->
                            IF c = ROOT /\ e \in {DOT, DOTDOT} THEN ROOT ELSE 0]],
             data  |-> [c \in Clusters |-> {}],
             reg   |-> [c \in Clusters |-> IF c = ROOT
                            THEN [cnt |-> Cardinality(Procs), removed |-> FALSE, d |-> RootInode]
                            ELSE NONE],
             uaf   |-> FALSE,
             crash |-> "none"]
    /\ pwd = [p \in Procs |-> ROOT]
    /\ fds = [p \in Procs |-> [x \in Fds |-> 0]]

(* open_cnt stays within MaxOpenCnt.                                      *)
WithinBounds == \A c \in Clusters : fs'.reg[c] = NONE \/ fs'.reg[c].cnt <= MaxOpenCnt

(* After a kernel panic, a stack overflow or a hang, nothing runs.        *)
Halted == fs.crash # "none" /\ UNCHANGED vars

Live == fs.crash = "none"

(* syscall_handler's switch: one disjunct per case that changes the file  *)
(* system.  read, filesize, tell, readdir, isdir and inumber change no    *)
(* state modelled here; seek is folded into Write; mmap and munmap are    *)
(* VM's.                                                                  *)
Next ==
    \/ \E p \in Procs, path \in Paths, size \in CreateSizes :
          Live /\ Create(p, path, size) /\ WithinBounds
    \/ \E p \in Procs, path \in Paths : Live /\ Mkdir(p, path) /\ WithinBounds
    \/ \E p \in Procs, path \in Paths : Live /\ Open(p, path) /\ WithinBounds
    \/ \E p \in Procs, path \in Paths : Live /\ FsRemove(p, path) /\ WithinBounds
    \/ \E p \in Procs, path \in Paths : Live /\ Chdir(p, path) /\ WithinBounds
    \/ \E p \in Procs, t \in LinkTargets, path \in Paths :
          Live /\ Symlink(p, t, path) /\ WithinBounds
    \/ \E p \in Procs, x \in Fds : Live /\ Close(p, x)
    \/ \E p \in Procs, x \in Fds, w \in Writes : Live /\ Write(p, x, w)
    \/ Halted

Spec == Init /\ [][Next]_vars

-----------------------------------------------------------------------------
(* Properties                                                             *)

TypeOK ==
    /\ fs \in FsRec
    /\ pwd \in [Procs -> Clusters]
    /\ fds \in [Procs -> [Fds -> 0..NCluster]]

(* How many fds and working directories hold inode s.                    *)
Holders(s) ==
    Cardinality({<<p, x>> \in Procs \X Fds : fds[p][x] = s})
      + Cardinality({p \in Procs : pwd[p] = s})

(* The inode a holder reaches at sector s: the registered one, else the   *)
(* one on disk.                                                           *)
Effective(s) == IF fs.reg[s] # NONE THEN fs.reg[s].d ELSE fs.disk[s]

ChainOf(s) ==
    LET e == Effective(s)
    IN  IF e = NONE THEN {} ELSE Range(FatChain(fs.fat, e.start))

(* The inodes named from the root through directory entries, and those    *)
(* held by fds and working directories.                                   *)
RECURSIVE ReachFrom(_)
ReachFrom(S) ==
    LET T == S \cup ({fs.ents[d][n] : d \in S, n \in Names} \ {0})
    IN  IF T = S THEN S ELSE ReachFrom(T)

Named == ReachFrom(({ROOT} \cup {pwd[p] : p \in Procs}
                    \cup {fds[p][x] : p \in Procs, x \in Fds}) \ {0})

(* Every fd and working directory is counted in its inode's open_cnt:    *)
(* the inode is registered and open_cnt is at least the number of its     *)
(* holders, so no close by one holder frees it under another.  It is      *)
(* about the pairing of inode_open and inode_close across the paths of    *)
(* get_working_dir, filesys_remove, filesys_create and chdir.             *)
HoldersCounted ==
    \A s \in Clusters :
        Holders(s) > 0 => fs.reg[s] # NONE /\ fs.reg[s].cnt >= Holders(s)

(* No cluster is used twice: every named inode's sector and data chain   *)
(* are allocated in the FAT, and no two named inodes share a cluster.     *)
(* It is about when inode_close, filesys_create's failure paths and       *)
(* inode_write_at's growth free and allocate clusters.                    *)
ClustersExclusive ==
    \A s \in Named :
        /\ fs.fat[s] # FREE
        /\ \A x \in ChainOf(s) : fs.fat[x] # FREE
        /\ s \notin ChainOf(s)
        /\ \A t \in Named \ {s} : ChainOf(s) \cap (ChainOf(t) \cup {t}) = {}

(* While the kernel runs, open_count equals the number of outstanding     *)
(* handles and directory references (spec.md 8). filesys_symlink's        *)
(* success path and the dir_add failure paths of filesys_create,          *)
(* filesys_create_dir and filesys_symlink leave an open_cnt nobody will   *)
(* close.                                                                 *)
OpenCountsExact ==
    Live => \A s \in Clusters : fs.reg[s] # NONE => fs.reg[s].cnt = Holders(s)

(* While the kernel runs, the non-FREE clusters are the reserved ones    *)
(* and those of in-use inodes (spec.md 8): their sectors and data        *)
(* chains.  inode_close frees only the data chain of a removed inode.    *)
ClustersReclaimed ==
    Live =>
    LET inUse == Named \cup {s \in Clusters : fs.reg[s] # NONE}
    IN  \A c \in Clusters :
            fs.fat[c] # FREE => c \in inUse \/ \E s \in inUse : c \in ChainOf(s)

(* While the kernel runs, every working directory is a directory: chdir  *)
(* fails on a file (spec.md 7, NotADirectory).  filesys_change_dir does  *)
(* not check the inode it found.                                         *)
PwdIsDirectory == Live => \A p \in Procs : Effective(pwd[p]).isDir

(* No system call panics the kernel.  filesys_create_dir and             *)
(* filesys_change_dir pass a NULL directory from get_working_dir to      *)
(* dir_add and dir_lookup, which assert it is not NULL.                   *)
NoKernelPanic == fs.crash # "panic"

(* Path resolution returns (spec.md 4.4 asks for a bound on the depth).  *)
(* get_working_dir follows a final symlink by recursion with no bound.   *)
NoStackOverflow == fs.crash # "overflow"

(* Path resolution returns.  A symlink in the middle of a path is         *)
(* re-resolved by get_working_dir's loop, which with deep_search false    *)
(* (remove) can come back to the same link forever, holding the          *)
(* file-system lock.                                                      *)
NoResolutionHang == fs.crash # "hang"

(* No inode is closed after it was freed.  filesys_remove of a directory *)
(* closes it through dir_close (target_dir) and again through            *)
(* inode_close (inode).                                                   *)
NoUseAfterFree == ~fs.uaf

(* No system call closes an uninitialised inode pointer.                 *)
(* filesys_remove calls inode_close (inode) when get_working_dir failed  *)
(* and inode was never set.                                               *)
NoUninitClose == fs.crash # "uninit"

(* While the kernel runs, a read (read -> file_read -> inode_read_at) of  *)
(* a whole sector of a file open in any fd returns only bytes this file   *)
(* wrote, or zeros where it never wrote (spec.md 8, scenario 3), and      *)
(* never hands disk_read a sector byte_to_sector failed to find.          *)
(* inode_write_at's growth links clusters from fat_create_chain without   *)
(* clearing them, so a read inside the new length can return another      *)
(* file's old bytes.  Reads of part of a sector, or of a last sector the  *)
(* length cuts short, are left out: the model keeps which inodes wrote    *)
(* into a sector, not where.                                              *)
ReadReturnsWritten ==
    Live =>
    \A p \in Procs, x \in Fds, r \in Reads :
        LET s == fds[p][x] IN
        /\ s # 0 /\ ~fs.reg[s].d.isDir
        /\ r[1] % SectorSize = 0 /\ r[2] = SectorSize
        /\ r[1] + r[2] <= fs.reg[s].d.length
        =>
            LET rd == InodeReadAt(fs, s, r[1], r[2])
            IN  ~rd.bad /\ rd.bytes \subseteq {s}

=============================================================================
