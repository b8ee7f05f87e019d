------------------------------- MODULE MCTTX -------------------------------
(***************************************************************************)
(* Instances of TTX for TLC.  TTX: two threads and a ring of three slots   *)
(* whose count is read in two halves, so that the count can be torn, a     *)
(* burst can reset the ring and a slow reader be overrun.  TTX_live: one   *)
(* thread and a ring of two slots, under fairness.                         *)
(***************************************************************************)
EXTENDS TTX, TLC

Symmetry == Permutations(Threads)
=============================================================================
