------------------------------ MODULE UserMemory ------------------------------
(***************************************************************************)
(* What demand paging promises a user process: its address space is a map *)
(* from virtual page to contents.  A page keeps its contents until the     *)
(* process stores to it; pages appear (mmap, lazy segments, stack growth)  *)
(* with some initial contents and disappear (munmap, exit), and a forked   *)
(* process starts with a copy of its parent's pages.  Where a page         *)
(* physically lives (frame, swap slot, file) is invisible at this level.   *)
(* lastStore names the page the last step stored into (Unmapped after any *)
(* other step), so that a store is told apart from a change nobody made.  *)
(* born is the set of processes whose address space exists: the processes *)
(* in Unborn get theirs only from a fork.                                  *)
(***************************************************************************)
CONSTANTS Procs, Unborn, VAs, Values, Unmapped

VARIABLES mem, lastStore, born

TypeOK == /\ mem \in [Procs -> [VAs -> Values \cup {Unmapped}]]
          /\ lastStore \in (Procs \X VAs) \cup {Unmapped}
          /\ born \subseteq Procs

Init == /\ mem = [p \in Procs |-> [va \in VAs |-> Unmapped]]
        /\ lastStore = Unmapped
        /\ born = Procs \ Unborn

\* A user store changes one mapped page of one process.
Store(p, va, v) ==
    /\ mem[p][va] # Unmapped
    /\ mem' = [mem EXCEPT ![p][va] = v]
    /\ lastStore' = <<p, va>>
    /\ UNCHANGED born

\* The set of mapped pages of one process changes: new pages appear with any
\* initial contents, pages disappear, and every page that stays keeps what
\* it holds.
Remap(p) ==
    /\ p \in born
    /\ \A q \in Procs \ {p} : mem'[q] = mem[q]
    /\ \A va \in VAs : \/ mem'[p][va] = mem[p][va]
                       \/ mem[p][va] = Unmapped
                       \/ mem'[p][va] = Unmapped
    /\ lastStore' = Unmapped
    /\ UNCHANGED born

\* A process not yet born starts as a copy of p; p keeps its own pages.
Fork(p, c) ==
    /\ p \in born /\ c \notin born
    /\ born' = born \cup {c}
    /\ mem' = [mem EXCEPT ![c] = mem[p]]
    /\ lastStore' = Unmapped

Next == \E p \in Procs : \/ \E va \in VAs, v \in Values : Store(p, va, v)
                         \/ Remap(p)
                         \/ \E c \in Procs : Fork(p, c)

Spec == Init /\ [][Next]_<<mem, lastStore, born>>
=============================================================================
