----------------------------- MODULE MCHashTable -----------------------------
(* Instances of HashTable for TLC.                                          *)
EXTENDS HashTable, TLC

CONSTANTS k1, k2, k3, k4

\* With four buckets and with eight, k1 and k2 collide at the last one, and
\* the loser of the two wraps round into the home of k3 and k4.
Mix == (k1 :> 7) @@ (k2 :> 15) @@ (k3 :> 8) @@ (k4 :> 16)

CollidingMix == [k \in Keys |-> Mix[k]]

=============================================================================
