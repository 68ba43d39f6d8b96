------------------------------- MODULE MC_VM -------------------------------
(* Model-checking instance of VM: physical pages, and processes, are      *)
(* interchangeable, since nothing in vm.c, anon.c or file.c orders them.  *)
EXTENDS VM, TLC

KvaSymmetry == Permutations(Kvas)

ProcSymmetry == Permutations(Procs)

(* Both at once, for configurations in which every process is born. *)
MCSymmetry == Permutations(Kvas) \cup Permutations(Procs)
=============================================================================
