----------------------------- MODULE MCSubmission -----------------------------
(* Instances of Submission for TLC.                                         *)
EXTENDS Submission

\* Handles of one kind are interchangeable.
Symmetry ==
  Permutations(Cmds) \cup Permutations(Encoders) \cup Permutations(Fences)

=============================================================================
