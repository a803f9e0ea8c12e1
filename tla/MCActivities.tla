---------------------------- MODULE MCActivities ----------------------------
(* Activities for TLC; the jobs are numbered, the workers interchangeable. *)
EXTENDS Activities, TLC

Symmetry == Permutations(Workers)
=============================================================================
