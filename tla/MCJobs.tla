------------------------------- MODULE MCJobs -------------------------------
(* Jobs on small instances. *)
EXTENDS Jobs, TLC

Symmetry == Permutations(Worker) \cup Permutations(Job)
=============================================================================
