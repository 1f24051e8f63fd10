------------------------------- MODULE MCSfmm -------------------------------
(* A small instance of Sfmm: pages and lists a few rows long. *)
EXTENDS Sfmm, TLC

CONSTANTS w, x, y, z

Lengths == <<32, 64, 96>>
AnyVariable == Permutations(Vars)
Bytes == {0, 1, 17, 32, 130, 200}
=============================================================================
