-------------------------- MODULE MCPaymentSystem --------------------------
(***************************************************************************)
(* PaymentSystem on small instances. Submitters and workers are            *)
(* interchangeable: safety runs may use their permutations as symmetry.    *)
(***************************************************************************)
EXTENDS PaymentSystem, TLC

Symmetry == Permutations(Submitters) \cup Permutations(Workers)
=============================================================================
