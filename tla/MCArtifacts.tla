---------------------------- MODULE MCArtifacts ----------------------------
(* The artifact store on small instances. *)
EXTENDS Artifacts, TLC

Symmetry == Permutations(Process)
=============================================================================
