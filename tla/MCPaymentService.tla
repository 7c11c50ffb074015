-------------------------- MODULE MCPaymentService --------------------------
(* Instances of PaymentService for TLC. *)
EXTENDS PaymentService, TLC

MCSymmetry == Permutations(Calls) \cup Permutations(Keys)
=============================================================================
