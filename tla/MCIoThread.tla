----------------------------- MODULE MCIoThread -----------------------------
(***************************************************************************)
(* An IOThread, a thread that acquires its context and a thread that       *)
(* schedules bottom halves in it.                                          *)
(***************************************************************************)
EXTENDS IoThread, TLC

\* Bottom halves are interchangeable.
Symmetry == Permutations(BHs)
=============================================================================
