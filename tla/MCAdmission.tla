---------------------------- MODULE MCAdmission ----------------------------
(* One admission pool on small instances. *)
EXTENDS Admission, TLC

Symmetry == Permutations(Caller) \cup Permutations(TenantId)
=============================================================================
