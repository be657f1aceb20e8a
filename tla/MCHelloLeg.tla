----------------------------- MODULE MCHelloLeg -----------------------------
(* Instances of HelloLeg. *)
EXTENDS HelloLeg, TLC

TwoIds == 1 .. 2
FourIds == 1 .. 4

(* The two daemons run the same code. *)
Symmetry == Permutations(Daemon)
=============================================================================
