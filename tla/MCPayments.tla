----------------------------- MODULE MCPayments -----------------------------
(***************************************************************************)
(* Payments for TLC: a job with one possible provider.                     *)
(***************************************************************************)
EXTENDS Payments, TLC

MCSymmetry == Permutations(PaymentIds) \cup Permutations(Callbacks)

=============================================================================
