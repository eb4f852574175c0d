---------------------------- MODULE MCCallControl ----------------------------
(* CallControl on small sets of lines, calls and HTTP workers.             *)
EXTENDS CallInvariants, TLC

(* The library's call slots are interchangeable.                           *)
CallSymmetry == Permutations(Calls)
=============================================================================
