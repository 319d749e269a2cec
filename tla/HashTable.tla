------------------------------ MODULE HashTable ------------------------------
(***************************************************************************)
(* The open-addressing hash table of src/src/util/hash_table.c: linear     *)
(* probing, deletion by tombstone, growth before an insert that finds the  *)
(* load too high.  It refines PointerMap.                                  *)
(*                                                                         *)
(* A bucket is modelled by its index, a key by a model value, and the bit  *)
(* mixing of hash_ptr by an arbitrary function Mixed, so that every run    *)
(* chooses the collisions it wants to see.                                 *)
(***************************************************************************)
EXTENDS Naturals, FiniteSets

CONSTANTS
  Keys,        \* pointers other than NULL and the tombstone
  Values,
  Mixed,       \* what hash_ptr makes of a key before it takes the modulus
  Requested,   \* the bucket_count asked of wgvk_hash_table_create
  MinBuckets,  \* 8 in the code
  NULL,
  TOMBSTONE

ASSUME HashAssumption ==
  /\ Mixed \in [Keys -> Nat]
  /\ Requested \in Nat
  /\ MinBuckets \in Nat /\ MinBuckets >= 4  \* fewer may fill up between two checks
  /\ {NULL, TOMBSTONE} \cap (Keys \cup Values) = {} /\ NULL # TOMBSTONE

VARIABLES
  buckets,    \* a function on 0 .. bucket_count - 1
  size,       \* live entries
  occupied,   \* live entries and tombstones
  last        \* the call made last, with its answer

tableVars == << buckets, size, occupied >>
hashVars == << buckets, size, occupied, last >>

Call(op, k, v) == [op |-> op, key |-> k, value |-> v]

-----------------------------------------------------------------------------
(* What plausible mistakes in the code below would do instead.             *)

\* Removal empties the bucket.
EmptiedBucket == [key |-> NULL, value |-> NULL]

\* Growth counts the tombstones it drops.
OccupiedKept(s) == occupied

\* The table grows one insert too late, when it is full.
FullOnly(occ, n) == occ > n

-----------------------------------------------------------------------------
(* Probing                                                                 *)

bucket_count == Cardinality(DOMAIN buckets)

\* The bucket looked at after i others in a table of n buckets.
Probe(k, i, n) == (Mixed[k] + i) % n

\* A probe ends at an empty bucket or at its key.
Stops(b, k, n) ==
  {i \in 0 .. n - 1 : b[Probe(k, i, n)].key \in {NULL, k}}

Smallest(S) == CHOOSE i \in S : \A j \in S : i <= j

\* The tombstones a probe passes before it ends.
Passed(b, k, n) ==
  {i \in 0 .. n - 1 :
     /\ b[Probe(k, i, n)].key = TOMBSTONE
     /\ \A j \in Stops(b, k, n) : i < j}

\* The bucket that holds k, if one does.
Holders(b, k, n) ==
  LET ends == Stops(b, k, n)
  IN IF ends = {} THEN {}
     ELSE LET at == Probe(k, Smallest(ends), n)
          IN {at} \cap {i \in DOMAIN b : b[i].key = k}

Found(b, k, n) ==
  LET at == Holders(b, k, n)
  IN IF at = {} THEN NULL ELSE b[CHOOSE i \in at : TRUE].value

EmptyBuckets(n) == [i \in 0 .. n - 1 |-> [key |-> NULL, value |-> NULL]]

Stored(b, at, entry) == [i \in DOMAIN b |-> IF i = at THEN entry ELSE b[i]]

-----------------------------------------------------------------------------
(* Growth                                                                  *)

Live(entry) == entry.key \notin {NULL, TOMBSTONE}

\* The live entries enter an empty table of twice the size, bucket by bucket:
\* rehashed[i] is that table when the first i buckets have been looked at.
Grown ==
  LET n == 2 * bucket_count
      rehashed[i \in 0 .. bucket_count] ==
        IF i = 0 THEN EmptyBuckets(n)
        ELSE LET b == rehashed[i - 1]
                 entry == buckets[i - 1]
                 k == entry.key
             IN IF Live(entry)
                THEN Stored(b, Probe(k, Smallest(Stops(b, k, n)), n), entry)
                ELSE b
  IN rehashed[bucket_count]

\* Three buckets in four are occupied.
TooFull(occ, n) == occ * 4 >= n * 3

\* Tombstones do not survive a rehash.
OccupiedAfterGrowth(s) == s

-----------------------------------------------------------------------------
(* Operations                                                              *)

\* Put k into table b of n buckets, of which occ are occupied.
PutInto(b, k, v, n, occ) ==
  LET entry == [key |-> k, value |-> v]
      at == Holders(b, k, n)
      tombs == Passed(b, k, n)
      ends == Stops(b, k, n)
  IN \/ /\ at # {}
        /\ buckets' = Stored(b, CHOOSE i \in at : TRUE, entry)
        /\ occupied' = occ
        /\ UNCHANGED size
     \/ /\ at = {} /\ tombs # {}
        /\ buckets' = Stored(b, Probe(k, Smallest(tombs), n), entry)
        /\ occupied' = occ
        /\ size' = size + 1
     \/ /\ at = {} /\ tombs = {} /\ ends # {}
        /\ buckets' = Stored(b, Probe(k, Smallest(ends), n), entry)
        /\ occupied' = occ + 1
        /\ size' = size + 1

TableInsert(k, v) ==
  /\ IF TooFull(occupied, bucket_count)
     THEN PutInto(Grown, k, v, 2 * bucket_count, OccupiedAfterGrowth(size))
     ELSE PutInto(buckets, k, v, bucket_count, occupied)
  /\ last' = Call("insert", k, v)

\* The table must grow first and cannot: the insert is dropped.
InsertDropped(k, v) ==
  /\ TooFull(occupied, bucket_count)
  /\ last' = Call("refused", k, v)
  /\ UNCHANGED tableVars

TableLookup(k) ==
  /\ last' = Call("lookup", k, Found(buckets, k, bucket_count))
  /\ UNCHANGED tableVars

RemovedBucket == [key |-> TOMBSTONE, value |-> NULL]

TableRemove(k) ==
  /\ LET at == Holders(buckets, k, bucket_count)
     IN /\ buckets' = [i \in DOMAIN buckets |->
                         IF i \in at THEN RemovedBucket ELSE buckets[i]]
        /\ size' = size - Cardinality(at)
  /\ last' = Call("remove", k, NULL)
  /\ UNCHANGED occupied

HashInit ==
  /\ buckets = EmptyBuckets(IF Requested < MinBuckets THEN MinBuckets
                            ELSE Requested)
  /\ size = 0
  /\ occupied = 0
  /\ last = Call("none", NULL, NULL)

HashNext ==
  \E k \in Keys :
    \/ \E v \in Values : TableInsert(k, v) \/ InsertDropped(k, v)
    \/ TableLookup(k)
    \/ TableRemove(k)

HashSpec == HashInit /\ [][HashNext]_hashVars

-----------------------------------------------------------------------------
(* Properties                                                              *)

\* What the caller can see is a map: every lookup finds what was inserted
\* last, through collisions, tombstones and growth, and no call disturbs
\* another key.
Contents == [k \in Keys |-> Found(buckets, k, bucket_count)]

Map == INSTANCE PointerMap WITH contents <- Contents

RefinesMap == Map!MapSpec

\* The two counters the load check relies on are exact.
CountersExact ==
  /\ size = Cardinality({i \in DOMAIN buckets : Live(buckets[i])})
  /\ occupied = Cardinality({i \in DOMAIN buckets : buckets[i].key # NULL})

\* A bucket is always empty: no probe goes round the table, and the loop of
\* hash_table_grow, which has no other bound, ends.
AlwaysABucketEmpty == \E i \in DOMAIN buckets : buckets[i].key = NULL

-----------------------------------------------------------------------------
(* The inductive invariant behind these properties                         *)

Bucket == [key : Keys \cup {NULL, TOMBSTONE}, value : Values \cup {NULL}]

\* No key is in two buckets.
Once(b) ==
  \A i, j \in DOMAIN b : Live(b[i]) /\ b[i].key = b[j].key => i = j

\* The probe for a key gets to its bucket before it gets to an empty one.
Near(b, n) ==
  \A j \in DOMAIN b : Live(b[j]) =>
    \E i \in 0 .. n - 1 :
      /\ Probe(b[j].key, i, n) = j
      /\ \A h \in 0 .. i - 1 : b[Probe(b[j].key, h, n)].key # NULL

Sound(b, n) == b \in [0 .. n - 1 -> Bucket] /\ Once(b) /\ Near(b, n)

LiveIn(b) == {i \in DOMAIN b : Live(b[i])}
UsedIn(b) == {i \in DOMAIN b : b[i].key # NULL}

HashInv ==
  /\ bucket_count \in Nat /\ bucket_count >= 4
  /\ Sound(buckets, bucket_count)
  /\ size = Cardinality(LiveIn(buckets))
  /\ occupied = Cardinality(UsedIn(buckets))
  /\ occupied < bucket_count

=============================================================================
