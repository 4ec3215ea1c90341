--------------------------- MODULE MCFingerprints ---------------------------
(* Instances of Fingerprints for TLC. *)
EXTENDS Fingerprints, TLC

CONSTANTS swiggy, salary

\* What a transaction is does not matter, only whether two are alike.
Symmetric == Permutations(Kinds)
=============================================================================
