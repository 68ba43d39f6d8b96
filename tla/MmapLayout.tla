----------------------------- MODULE MmapLayout -----------------------------
(***************************************************************************)
(* The byte arithmetic of mmap (userprog/syscall.c mmap, vm/file.c         *)
(* do_mmap) and the first touch of each page it creates (file_backed_init).*)
(* A process makes one mmap call with a length, a file length and an       *)
(* offset taken from small sets, then touches the pages of the region in   *)
(* any order, or unmaps it and maps again.                                 *)
(*                                                                          *)
(* Widths are scaled down: a page is PGSIZE bytes and size_t is SizeBits   *)
(* bits wide, so the wrap of size_t subtraction and of the round-up of     *)
(* length happens at 2^SizeBits as it does at 2^64.  off_t (int32_t in     *)
(* filesys/off_t.h) is signed; its values here are far from its limits.    *)
(***************************************************************************)
EXTENDS Integers, Sequences

CONSTANTS PGSIZE,      \* bytes per page
          SizeBits,    \* width of size_t
          Lengths,     \* mmap's length argument (size_t)
          FileLens,    \* file_length of the mapped file
          Offsets,     \* mmap's offset argument (off_t, may be negative)
          MaxRefs      \* bound on the struct files open on the mapped file

ASSUME PGSIZE > 0 /\ SizeBits > 0 /\ Lengths \subseteq 0..(2^SizeBits - 1)
ASSUME FileLens \subseteq Nat /\ Offsets \subseteq Int

SizeMax == 2^SizeBits

(* Unsigned arithmetic of size_t. *)
USub(a, b) == (a - b) % SizeMax
UMul(a, b) == (a * b) % SizeMax

(* The loop below stops by itself unless its counters wrap; MaxPages, the  *)
(* pages of the whole size_t range, bounds it then.                          *)
MaxPages == SizeMax \div PGSIZE

VARIABLES req,      \* <<length, file length, offset>> of the last mmap, or <<>>
          region,   \* the pages do_mmap inserted: aux {offset, read, zero}
          touched,  \* indices of the pages loaded so far
          status,   \* "idle", "mapped", "killed" or "panic"
          refs      \* struct files that mmap calls opened on the file and hold

vars == <<req, region, touched, status, refs>>

PageAux == [offset : Int, read : Nat, zero : Nat]

(***************************************************************************)
(* The page loop of do_mmap (file.c:187-224): each page reads              *)
(* min(read_bytes, PGSIZE) bytes and zeroes the rest; both counters are    *)
(* size_t and decrease by the page's share.  fuel is the page budget.      *)
(***************************************************************************)
RECURSIVE PagesFrom(_, _, _, _)
PagesFrom(readBytes, zeroBytes, ofs, fuel) ==
    IF (readBytes > 0 \/ zeroBytes > 0) /\ fuel > 0
    THEN LET prb == IF readBytes < PGSIZE THEN readBytes ELSE PGSIZE
             pzb == PGSIZE - prb
         IN  <<[offset |-> ofs, read |-> prb, zero |-> pzb]>>
               \o PagesFrom(USub(readBytes, prb), USub(zeroBytes, pzb), ofs + prb, fuel - 1)
    ELSE <<>>

(***************************************************************************)
(* do_mmap (file.c:158-185) after its reopen: the guard on the offset, the *)
(* round-up of length to whole pages, read_bytes clamped to length, and    *)
(* zero_bytes dropped when it is a multiple of PGSIZE.  TLA+'s % of a      *)
(* negative number is not C's, but both are 0 exactly for multiples of     *)
(* PGSIZE, which is all the guard asks.  <<>> is a NULL return.            *)
(***************************************************************************)
DoMmap(length, flen, offset) ==
    IF offset % PGSIZE # 0 \/ offset > flen THEN <<>>
    ELSE LET total == IF length % PGSIZE = 0 THEN length
                      ELSE UMul(PGSIZE, length \div PGSIZE + 1)
             avail == (flen - offset) % SizeMax
             rb    == IF avail > length THEN length ELSE avail
             zb0   == USub(total, rb)
             zb    == IF zb0 % PGSIZE = 0 THEN 0 ELSE zb0
         IN  PagesFrom(rb, zb, offset, MaxPages)

(* The mmap system call (syscall.c:374-395): a zero length fails before    *)
(* do_mmap is called.  addr and fd are valid in every call made here.      *)
(* Every call that reaches do_mmap opens a new struct file with            *)
(* file_reopen (file.c:161); the pages keep it, and the return at file.c:  *)
(* 170 does not close it.                                                   *)
MmapCall(length, flen, offset) ==
    /\ status = "idle"
    /\ refs < MaxRefs
    /\ req' = <<length, flen, offset>>
    /\ region' = IF length = 0 THEN <<>> ELSE DoMmap(length, flen, offset)
    /\ refs' = IF length = 0 THEN refs ELSE refs + 1
    /\ touched' = {}
    /\ status' = "mapped"

(***************************************************************************)
(* The first touch of page i: file_backed_init (file.c:55-84) reads        *)
(* read bytes at the page's offset with file_read_at and fails when that   *)
(* returns 0; the fault then kills the process.  A negative offset passes  *)
(* byte_to_sector's length test and walks the FAT chain to its end         *)
(* (inode.c:69-77), so inode_read_at reads sector (disk_sector_t) -1,       *)
(* which disk_read rejects with an assertion: a kernel panic.              *)
(***************************************************************************)
Touch(i) ==
    /\ status = "mapped" /\ i \in DOMAIN region /\ i \notin touched
    /\ LET pg == region[i] IN
       CASE pg.offset < 0 /\ pg.read > 0 -> status' = "panic" /\ UNCHANGED touched
         [] pg.read = 0 -> status' = "killed" /\ UNCHANGED touched
         [] OTHER -> touched' = touched \cup {i} /\ UNCHANGED status
    /\ UNCHANGED <<req, region, refs>>

(* munmap (syscall.c:398-406, file.c:231-251) of the region: every page is *)
(* a file page, so the loop removes them all.  Neither do_munmap nor       *)
(* file_backed_destroy closes the struct file the pages share.             *)
Unmap ==
    /\ status = "mapped"
    /\ region' = <<>> /\ touched' = {} /\ req' = <<>>
    /\ status' = "idle"
    /\ UNCHANGED refs

(* A killed process and a panicked kernel take no further steps. *)
Stopped == status \in {"killed", "panic"} /\ UNCHANGED vars

Init == req = <<>> /\ region = <<>> /\ touched = {} /\ status = "idle" /\ refs = 0

Next ==
    \/ \E l \in Lengths, f \in FileLens, o \in Offsets : MmapCall(l, f, o)
    \/ \E i \in 1..MaxPages : Touch(i)
    \/ Unmap
    \/ Stopped

Spec == Init /\ [][Next]_vars

TypeOK ==
    /\ region \in Seq(PageAux) /\ Len(region) <= MaxPages
    /\ touched \subseteq DOMAIN region
    /\ status \in {"idle", "mapped", "killed", "panic"}
    /\ refs \in 0..MaxRefs

-----------------------------------------------------------------------------
(***************************************************************************)
(* The layout spec.md 4.10 describes: pages over [addr, addr + length),    *)
(* page i at file offset offset + (i-1)*PGSIZE, reading what the file      *)
(* holds of the first length bytes from offset and zero-filling the rest;  *)
(* nothing for an offset that is unaligned, negative or past EOF.          *)
(***************************************************************************)
CeilPages(n) == (n + PGSIZE - 1) \div PGSIZE

SpecLayout(length, flen, offset) ==
    IF length = 0 \/ offset % PGSIZE # 0 \/ offset < 0 \/ offset > flen THEN <<>>
    ELSE LET inFile == IF flen - offset < length THEN flen - offset ELSE length
             readOf(i) == IF inFile - (i - 1) * PGSIZE >= PGSIZE THEN PGSIZE
                          ELSE IF inFile > (i - 1) * PGSIZE THEN inFile - (i - 1) * PGSIZE
                          ELSE 0
         IN  [i \in 1..CeilPages(length) |->
                [offset |-> offset + (i - 1) * PGSIZE, read |-> readOf(i),
                 zero |-> PGSIZE - readOf(i)]]

(* Two page records load the same bytes; the offset of a page that reads  *)
(* nothing is never used.                                                   *)
SameLoad(a, b) ==
    a.read = b.read /\ a.zero = b.zero /\ (a.read > 0 => a.offset = b.offset)

(* mmap lays a file out as spec.md 4.10 says: after the call, the pages   *)
(* do_mmap inserted are exactly the pages of [addr, addr + length), each   *)
(* loading what the spec's page loads, and there are no pages for an       *)
(* offset that is not a position of the file.  The guard, the round-up of *)
(* length, the clamp of read_bytes and the reset of zero_bytes (file.c:    *)
(* 168-181) decide it.                                                     *)
MmapAsSpecified ==
    req # <<>> =>
        LET spec == SpecLayout(req[1], req[2], req[3]) IN
        /\ Len(region) = Len(spec)
        /\ \A i \in DOMAIN region : SameLoad(region[i], spec[i])

(* Touching any byte of a mapping succeeds: pages past the end of the file *)
(* read as zeros (spec.md 4.10, scenario 4 of 8), so neither               *)
(* file_backed_init nor the read beneath it may fail on a page mmap made.  *)
MmapTouchSafe == status \notin {"killed", "panic"}

(* mmap holds the file only while it maps it: once a call has failed or   *)
(* its mapping is unmapped, no struct file it opened stays open.  The      *)
(* reopened file is what keeps the inode's open_cnt up, so a leak here     *)
(* keeps a removed file's clusters allocated for good.                     *)
MmapReleasesFile == refs = (IF region = <<>> THEN 0 ELSE 1)
=============================================================================
