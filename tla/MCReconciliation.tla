-------------------------- MODULE MCReconciliation --------------------------
(* Instances of Reconciliation for TLC. *)
EXTENDS Reconciliation

\* A debit and a credit that cancel.
OneEachWay == {-1, 1}
=============================================================================
