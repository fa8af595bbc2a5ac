----------------------------- MODULE MCBufRing -----------------------------
(***************************************************************************)
(* Instances of BufRing for TLC.                                           *)
(***************************************************************************)
EXTENDS BufRing, TLC

Symmetry == Permutations(Goroutines)
=============================================================================
