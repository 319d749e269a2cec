--------------------------- MODULE MCSharedObjects ---------------------------
(* Instances of SharedObjects for TLC.                                      *)
EXTENDS SharedObjects, TLC

\* Addresses of one kind are interchangeable.
Symmetry == Permutations(Children) \cup Permutations(Parents)

=============================================================================
