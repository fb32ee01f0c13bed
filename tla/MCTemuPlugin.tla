---------------------------- MODULE MCTemuPlugin ----------------------------
(***************************************************************************)
(* The plugin with one filter, two files, and a capture limit on either    *)
(* side of zero and of the packet size.  Integers are scaled down: an int  *)
(* has 12 bits, a uint64_t 16.  The lookup programs print a sector, the    *)
(* same sector 2^12 higher, the answer for a resident file or nothing, and *)
(* what is found instead of nothing is zero or negative.                   *)
(***************************************************************************)
EXTENDS TemuPlugin, TLC

MCPduValues == {-1, 0, 1}
MCAnswers == {-1000, 7, 4103}
MCLeftovers == {0, -1}
MCSymmetry == Permutations(Files) \cup Permutations(Values)
=============================================================================
