--------------------------- MODULE HashTableProofs ---------------------------
(***************************************************************************)
(* Proofs about HashTable, for every hash function, every set of keys and  *)
(* every initial size: the counters are exact, a bucket is always empty,   *)
(* and the table is the map its callers take it for.                       *)
(***************************************************************************)
EXTENDS HashTable, FiniteSetTheorems, TLAPS

-----------------------------------------------------------------------------
(* Induction over the natural numbers, from the library's statement that   *)
(* they are well founded; a set stands for the predicate.                  *)

\* A set with 0 that is closed under successor has every natural number.
LEMMA SetInduction ==
  ASSUME NEW S, 0 \in S, \A n \in Nat : n \in S => n + 1 \in S
  PROVE  \A n \in Nat : n \in S
<1> DEFINE T == Nat \ S
           R == OpToRel(<, Nat)
<1> SUFFICES ASSUME T # {} PROVE FALSE
  OBVIOUS
<1>1. IsWellFoundedOn(R, Nat)
  BY NatLessThanWellFounded
<1>2. \E x \in T : \A y \in T : ~(<<y, x>> \in R)
  <2>1. T \subseteq Nat
    OBVIOUS
  <2> HIDE DEF T, R
  <2> QED
    BY <1>1, <2>1, WFMin
<1>3. PICK x \in T : \A y \in T : ~(<<y, x>> \in R)
  BY <1>2
<1>4. x - 1 \in T /\ <<x - 1, x>> \in R
  BY DEF OpToRel
<1> QED
  BY <1>3, <1>4

\* A set of natural numbers that is not empty has a least element.
LEMMA LeastElement ==
  ASSUME NEW S, S \subseteq Nat, S # {}
  PROVE  \E m \in S : \A k \in S : m <= k
<1> DEFINE A == {n \in Nat : (\E k \in S : k <= n) => \E m \in S : \A k \in S : m <= k}
<1>1. 0 \in A
  OBVIOUS
<1>2. ASSUME NEW n \in Nat, n \in A PROVE n + 1 \in A
  <2> SUFFICES ASSUME NEW k \in S, k <= n + 1, \A j \in S : ~(j <= n)
               PROVE  \E m \in S : \A j \in S : m <= j
    BY <1>2
  <2> QED
    OBVIOUS
<1>3. \A n \in Nat : n \in A
  <2> HIDE DEF A
  <2> QED
    BY <1>1, <1>2, SetInduction
<1>4. PICK k \in S : TRUE
  OBVIOUS
<1>5. k \in A
  <2> HIDE DEF A
  <2> QED
    BY <1>3
<1> QED
  BY <1>5

\* f is defined up to n by its start x0 and its step G.
Solves(f, n, x0, G) ==
  \A i \in 0..n : f[i] = IF i = 0 THEN x0 ELSE G[<<f[i-1], i>>]

\* What is defined up to n can be defined up to n + 1.
LEMMA SolutionGrows ==
  ASSUME NEW N \in Nat, NEW S, NEW x0 \in S, NEW G \in [S \X (1..N) -> S],
         NEW n \in Nat, n + 1 <= N, NEW f \in [0..n -> S], Solves(f, n, x0, G)
  PROVE  \E g \in [0..(n+1) -> S] : Solves(g, n + 1, x0, G)
<1> DEFINE next == G[<<f[n], n + 1>>]
           g == [i \in 0..(n+1) |-> IF i = n + 1 THEN next ELSE f[i]]
<1>1. next \in S
  <2>1. f[n] \in S /\ n + 1 \in 1..N
    OBVIOUS
  <2> QED
    BY <2>1
<1>2. g \in [0..(n+1) -> S]
  <2> HIDE DEF next
  <2> QED
    BY <1>1
<1>3. g[n + 1] = next /\ \A i \in 0..n : g[i] = f[i]
  <2> HIDE DEF next
  <2> QED
    OBVIOUS
<1>4. Solves(g, n + 1, x0, G)
  <2> HIDE DEF g
  <2>1. ASSUME NEW i \in 0..(n+1) PROVE g[i] = IF i = 0 THEN x0 ELSE G[<<g[i-1], i>>]
    <3>1. CASE i = n + 1
      BY <1>3, <3>1
    <3>2. CASE i \in 0..n /\ i # 0
      <4>1. i - 1 \in 0..n
        BY <3>2
      <4> QED
        BY <1>3, <3>2, <4>1 DEF Solves
    <3>3. CASE i = 0
      <4>1. 0 \in 0..n
        OBVIOUS
      <4> QED
        BY <1>3, <3>3, <4>1 DEF Solves
    <3> QED
      BY <3>1, <3>2, <3>3
  <2> QED
    BY <2>1 DEF Solves
<1> QED
  BY <1>2, <1>4

\* A definition by recursion from i - 1 to i is a definition: a function
\* satisfies it.  The growth of the table is written in this form.
LEMMA PrimitiveRecursion ==
  ASSUME NEW N \in Nat, NEW S, NEW x0 \in S, NEW G \in [S \X (1..N) -> S]
  PROVE  \E f \in [0..N -> S] : Solves(f, N, x0, G)
<1> DEFINE A == {n \in Nat : n <= N => \E f \in [0..n -> S] : Solves(f, n, x0, G)}
<1>1. 0 \in A
  <2>1. [i \in 0..0 |-> x0] \in [0..0 -> S]
    OBVIOUS
  <2>2. Solves([i \in 0..0 |-> x0], 0, x0, G)
    BY DEF Solves
  <2> QED
    BY <2>1, <2>2
<1>2. ASSUME NEW n \in Nat, n \in A PROVE n + 1 \in A
  <2>1. n + 1 <= N => n <= N
    OBVIOUS
  <2>2. n + 1 <= N => \E f \in [0..(n + 1) -> S] : Solves(f, n + 1, x0, G)
    BY <1>2, <2>1, SolutionGrows
  <2> QED
    BY <2>2
<1>3. \A n \in Nat : n \in A
  <2> HIDE DEF A
  <2> QED
    BY <1>1, <1>2, SetInduction
<1> QED
  BY <1>3

-----------------------------------------------------------------------------
(* Linear probing visits every bucket                                      *)

\* Division with remainder.
LEMMA Remainder ==
  ASSUME NEW a \in Nat, NEW n \in Nat \ {0}
  PROVE  /\ a % n \in 0 .. n - 1
         /\ \E q \in Nat : a = n * q + (a % n)
<1>1. a % n \in 0 .. n - 1
  OBVIOUS
<1>2. a \div n \in Nat
  OBVIOUS
<1>3. a = n * (a \div n) + (a % n)
  OBVIOUS
<1> QED
  BY <1>1, <1>2, <1>3

\* The remainder of a number of the form n * q + r.
LEMMA RemainderIs ==
  ASSUME NEW n \in Nat \ {0}, NEW q \in Nat, NEW r \in 0 .. n - 1
  PROVE  (n * q + r) % n = r
  OBVIOUS

\* The n positions from any start on, taken modulo n, are all n positions.
LEMMA Covers ==
  ASSUME NEW h \in Nat, NEW n \in Nat \ {0}, NEW j \in 0 .. n - 1
  PROVE  \E i \in 0 .. n - 1 : (h + i) % n = j
<1>1. PICK q \in Nat : h = n * q + (h % n)
  BY Remainder
<1> DEFINE r == h % n
<1>2. r \in 0 .. n - 1 /\ h = n * q + r
  BY <1>1, Remainder
<1> HIDE DEF r
<1>3. CASE j >= r
  <2>1. h + (j - r) = n * q + j
    BY <1>2, <1>3
  <2>2. (h + (j - r)) % n = j
    BY <2>1, RemainderIs
  <2>3. j - r \in 0 .. n - 1
    BY <1>2, <1>3
  <2> QED
    BY <2>2, <2>3
<1>4. CASE j < r
  <2>1. h + (j - r + n) = n * (q + 1) + j
    BY <1>2, <1>4
  <2>2. (h + (j - r + n)) % n = j
    BY <2>1, RemainderIs
  <2>3. j - r + n \in 0 .. n - 1
    BY <1>2, <1>4
  <2> QED
    BY <2>2, <2>3
<1> QED
  BY <1>2, <1>3, <1>4

\* A probe looks at buckets of the table.
LEMMA ProbeInTable ==
  ASSUME NEW k \in Keys, NEW n \in Nat \ {0}, NEW i \in Nat
  PROVE  Probe(k, i, n) \in 0 .. n - 1
<1>1. Mixed[k] + i \in Nat
  BY HashAssumption
<1> QED
  BY <1>1, Remainder DEF Probe

\* n probes look at every bucket.
LEMMA ProbeReaches ==
  ASSUME NEW k \in Keys, NEW n \in Nat \ {0}, NEW j \in 0 .. n - 1
  PROVE  \E i \in 0 .. n - 1 : Probe(k, i, n) = j
<1>1. Mixed[k] \in Nat
  BY HashAssumption
<1> QED
  BY <1>1, Covers DEF Probe

\* Smallest chooses the least element.
LEMMA SmallestIs ==
  ASSUME NEW S, S \subseteq Nat, S # {}
  PROVE  Smallest(S) \in S /\ \A j \in S : Smallest(S) <= j
<1>1. \E m \in S : \A j \in S : m <= j
  BY LeastElement
<1> QED
  BY <1>1 DEF Smallest

-----------------------------------------------------------------------------
(* What a probe finds in a sound table                                     *)

\* The keys of the sentinels are no keys.
LEMMA KeysAreLive ==
  ASSUME NEW k \in Keys
  PROVE  k # NULL /\ k # TOMBSTONE
  BY HashAssumption

\* The probe for a key that is in the table finds its bucket.
LEMMA HolderIs ==
  ASSUME NEW n \in Nat \ {0}, NEW b, Sound(b, n), NEW k \in Keys,
         NEW j \in 0 .. n - 1, b[j].key = k
  PROVE  Holders(b, k, n) = {j}
<1> DEFINE ends == Stops(b, k, n)
           m == Smallest(ends)
<1>1. /\ DOMAIN b = 0 .. n - 1
      /\ Live(b[j])
  BY KeysAreLive DEF Sound, Live
<1>2. PICK i \in 0 .. n - 1 :
        /\ Probe(k, i, n) = j
        /\ \A h \in 0 .. i - 1 : b[Probe(k, h, n)].key # NULL
  BY <1>1 DEF Sound, Near
<1>3. ends \subseteq 0 .. n - 1 /\ ends \subseteq Nat /\ i \in ends
  BY <1>2 DEF Stops
<1>4. m \in ends /\ m <= i
  <2> HIDE DEF ends
  <2> QED
    BY <1>3, SmallestIs
<1>5. Probe(k, m, n) = j
  <2>1. CASE m = i
    BY <2>1, <1>2
  <2>2. CASE m # i
    <3>1. m \in 0 .. i - 1
      BY <2>2, <1>3, <1>4
    <3>2. b[Probe(k, m, n)].key = k
      BY <3>1, <1>2, <1>4 DEF Stops
    <3>3. Probe(k, m, n) \in 0 .. n - 1
      BY <3>1, ProbeInTable
    <3> QED
      BY <3>2, <3>3, <1>1 DEF Sound, Once
  <2> QED
    BY <2>1, <2>2
<1>6. Holders(b, k, n) = {Probe(k, m, n)} \cap {h \in DOMAIN b : b[h].key = k}
  BY <1>4 DEF Holders
<1> HIDE DEF m
<1> QED
  BY <1>1, <1>5, <1>6

\* The probe for a key that is not in the table finds none.
LEMMA NoHolder ==
  ASSUME NEW n \in Nat \ {0}, NEW b, Sound(b, n), NEW k \in Keys,
         \A j \in 0 .. n - 1 : b[j].key # k
  PROVE  Holders(b, k, n) = {}
<1>1. {i \in DOMAIN b : b[i].key = k} = {}
  BY DEF Sound
<1> QED
  BY <1>1 DEF Holders

\* A key with no holder is in no bucket.
LEMMA NotHeld ==
  ASSUME NEW n \in Nat \ {0}, NEW b, Sound(b, n), NEW k \in Keys,
         Holders(b, k, n) = {}
  PROVE  \A j \in 0 .. n - 1 : b[j].key # k
  BY HolderIs

\* A lookup answers with the value beside the key ...
LEMMA FoundHeld ==
  ASSUME NEW n \in Nat \ {0}, NEW b, Sound(b, n), NEW k \in Keys,
         NEW j \in 0 .. n - 1, b[j].key = k
  PROVE  Found(b, k, n) = b[j].value
<1>1. Holders(b, k, n) = {j}
  BY HolderIs
<1>2. (CHOOSE i \in {j} : TRUE) = j
  OBVIOUS
<1> QED
  BY <1>1, <1>2 DEF Found

\* ... and with NULL for a key that is not there.
LEMMA FoundNone ==
  ASSUME NEW n \in Nat \ {0}, NEW b, Sound(b, n), NEW k \in Keys,
         \A j \in 0 .. n - 1 : b[j].key # k
  PROVE  Found(b, k, n) = NULL
  BY NoHolder DEF Found

-----------------------------------------------------------------------------
(* Writing one bucket of a sound table                                     *)

\* A live entry stored at bucket a stays findable when its own probe gets
\* there and no other bucket has its key; a tombstone always may be stored.
MayStore(b, a, entry, n) ==
  /\ a \in 0 .. n - 1 /\ entry \in Bucket /\ entry.key # NULL
  /\ Live(entry) =>
       /\ \A j \in 0 .. n - 1 : b[j].key = entry.key => j = a
       /\ \E i \in 0 .. n - 1 :
            /\ Probe(entry.key, i, n) = a
            /\ \A h \in 0 .. i - 1 : b[Probe(entry.key, h, n)].key # NULL

\* What Stored makes of a table, bucket by bucket.
LEMMA StoredIs ==
  ASSUME NEW n \in Nat, NEW b \in [0 .. n - 1 -> Bucket],
         NEW a \in 0 .. n - 1, NEW entry
  PROVE  /\ DOMAIN Stored(b, a, entry) = 0 .. n - 1
         /\ Stored(b, a, entry)[a] = entry
         /\ \A j \in 0 .. n - 1 : j # a => Stored(b, a, entry)[j] = b[j]
         /\ entry \in Bucket => Stored(b, a, entry) \in [0 .. n - 1 -> Bucket]
  BY DEF Stored

\* A live bucket has a key.
LEMMA LiveKey ==
  ASSUME NEW entry \in Bucket, Live(entry)
  PROVE  entry.key \in Keys
  BY DEF Bucket, Live

\* A table stays sound.
LEMMA StoredSound ==
  ASSUME NEW n \in Nat \ {0}, NEW b, Sound(b, n), NEW a, NEW entry,
         MayStore(b, a, entry, n)
  PROVE  Sound(Stored(b, a, entry), n)
<1> DEFINE c == Stored(b, a, entry)
<1>1. /\ a \in 0 .. n - 1 /\ entry \in Bucket /\ entry.key # NULL
      /\ b \in [0 .. n - 1 -> Bucket] /\ DOMAIN b = 0 .. n - 1
  BY DEF MayStore, Sound
<1>2. /\ DOMAIN c = 0 .. n - 1 /\ c \in [0 .. n - 1 -> Bucket]
      /\ c[a] = entry
      /\ \A j \in 0 .. n - 1 : j # a => c[j] = b[j]
  BY <1>1, StoredIs
<1> HIDE DEF c
<1>3. ASSUME NEW j \in 0 .. n - 1, b[j].key # NULL
      PROVE  c[j].key # NULL
  BY <1>1, <1>2, <1>3
<1>4. Once(c)
  <2> SUFFICES ASSUME NEW i \in 0 .. n - 1, NEW j \in 0 .. n - 1,
                      Live(c[i]), c[i].key = c[j].key
               PROVE  i = j
    BY <1>2 DEF Once
  <2>0. Live(c[j])
    BY DEF Live
  <2>1. CASE i # a /\ j # a
    BY <2>1, <1>1, <1>2 DEF Sound, Once
  <2>2. CASE i = a /\ j # a
    BY <2>2, <1>1, <1>2 DEF MayStore
  <2>3. CASE i # a /\ j = a
    BY <2>0, <2>3, <1>1, <1>2 DEF MayStore
  <2> QED
    BY <2>1, <2>2, <2>3
<1>5. Near(c, n)
  <2> SUFFICES ASSUME NEW j \in 0 .. n - 1, Live(c[j])
               PROVE  \E i \in 0 .. n - 1 :
                        /\ Probe(c[j].key, i, n) = j
                        /\ \A h \in 0 .. i - 1 :
                             c[Probe(c[j].key, h, n)].key # NULL
    BY <1>2 DEF Near
  <2>1. \E i \in 0 .. n - 1 :
          /\ Probe(c[j].key, i, n) = j
          /\ \A h \in 0 .. i - 1 : b[Probe(c[j].key, h, n)].key # NULL
    <3>1. CASE j = a
      BY <3>1, <1>2 DEF MayStore
    <3>2. CASE j # a
      BY <3>2, <1>1, <1>2 DEF Sound, Near
    <3> QED
      BY <3>1, <3>2
  <2>2. PICK i \in 0 .. n - 1 :
          /\ Probe(c[j].key, i, n) = j
          /\ \A h \in 0 .. i - 1 : b[Probe(c[j].key, h, n)].key # NULL
    BY <2>1
  <2>3. c[j].key \in Keys
    BY <1>2, LiveKey
  <2>4. ASSUME NEW h \in 0 .. i - 1
        PROVE  c[Probe(c[j].key, h, n)].key # NULL
    <3>1. h \in Nat
      OBVIOUS
    <3>2. Probe(c[j].key, h, n) \in 0 .. n - 1
      BY <2>3, <3>1, ProbeInTable
    <3> QED
      BY <2>2, <3>2, <1>3
  <2> QED
    BY <2>2, <2>4
<1> QED
  BY <1>2, <1>4, <1>5 DEF Sound, c

\* A lookup of the stored key answers with the stored value; the key whose
\* bucket was overwritten is gone; every other answer is what it was.
LEMMA StoredFound ==
  ASSUME NEW n \in Nat \ {0}, NEW b, Sound(b, n), NEW a, NEW entry,
         MayStore(b, a, entry, n), NEW k \in Keys
  PROVE  Found(Stored(b, a, entry), k, n) =
           IF entry.key = k THEN entry.value
           ELSE IF b[a].key = k THEN NULL
           ELSE Found(b, k, n)
<1> DEFINE c == Stored(b, a, entry)
<1>1. /\ a \in 0 .. n - 1
      /\ b \in [0 .. n - 1 -> Bucket]
  BY DEF MayStore, Sound
<1>2. /\ c[a] = entry
      /\ \A j \in 0 .. n - 1 : j # a => c[j] = b[j]
  BY <1>1, StoredIs
<1>3. Sound(c, n)
  BY StoredSound
<1> HIDE DEF c
<1>4. CASE entry.key = k
  BY <1>1, <1>2, <1>3, <1>4, FoundHeld DEF c
<1>5. CASE entry.key # k /\ b[a].key = k
  <2>1. \A j \in 0 .. n - 1 : c[j].key # k
    BY <1>1, <1>2, <1>5, KeysAreLive DEF Sound, Once, Live
  <2> QED
    BY <2>1, <1>3, <1>5, FoundNone DEF c
<1>6. CASE entry.key # k /\ b[a].key # k
  <2>1. CASE \E j \in 0 .. n - 1 : b[j].key = k
    <3>1. PICK j \in 0 .. n - 1 : b[j].key = k
      BY <2>1
    <3>2. c[j] = b[j]
      BY <3>1, <1>2, <1>6
    <3>3. Found(c, k, n) = c[j].value
      BY <3>1, <3>2, <1>3, FoundHeld
    <3>4. Found(b, k, n) = b[j].value
      BY <3>1, FoundHeld
    <3> QED
      BY <3>2, <3>3, <3>4, <1>6 DEF c
  <2>2. CASE \A j \in 0 .. n - 1 : b[j].key # k
    <3>1. \A j \in 0 .. n - 1 : c[j].key # k
      BY <2>2, <1>2, <1>6
    <3>2. Found(c, k, n) = NULL
      BY <3>1, <1>3, FoundNone
    <3>3. Found(b, k, n) = NULL
      BY <2>2, FoundNone
    <3> QED
      BY <3>2, <3>3, <1>6 DEF c
  <2> QED
    BY <2>1, <2>2
<1> QED
  BY <1>4, <1>5, <1>6 DEF c

\* The live and the used buckets are finitely many.
LEMMA CountsFinite ==
  ASSUME NEW n \in Nat, NEW b \in [0 .. n - 1 -> Bucket]
  PROVE  /\ IsFiniteSet(LiveIn(b)) /\ Cardinality(LiveIn(b)) \in Nat
         /\ IsFiniteSet(UsedIn(b)) /\ Cardinality(UsedIn(b)) \in Nat
         /\ Cardinality(LiveIn(b)) <= Cardinality(UsedIn(b))
<1>1. IsFiniteSet(0 .. n - 1)
  BY FS_Interval
<1>2. UsedIn(b) \in SUBSET (0 .. n - 1)
  BY DEF UsedIn
<1>3. LiveIn(b) \in SUBSET UsedIn(b)
  BY DEF LiveIn, UsedIn, Live
<1>4. IsFiniteSet(UsedIn(b))
  BY <1>1, <1>2, FS_Subset
<1>5. IsFiniteSet(LiveIn(b)) /\ Cardinality(LiveIn(b)) <= Cardinality(UsedIn(b))
  BY <1>3, <1>4, FS_Subset
<1> QED
  BY <1>4, <1>5, FS_CardinalityType

\* What Stored does to the live and to the used buckets.
LEMMA StoredCounts ==
  ASSUME NEW n \in Nat, NEW b \in [0 .. n - 1 -> Bucket],
         NEW a \in 0 .. n - 1, NEW entry \in Bucket, entry.key # NULL
  PROVE  /\ UsedIn(Stored(b, a, entry)) = UsedIn(b) \cup {a}
         /\ LiveIn(Stored(b, a, entry)) =
              IF Live(entry) THEN LiveIn(b) \cup {a} ELSE LiveIn(b) \ {a}
<1> DEFINE c == Stored(b, a, entry)
<1>1. /\ DOMAIN b = 0 .. n - 1 /\ DOMAIN c = 0 .. n - 1
      /\ c[a] = entry
      /\ \A j \in 0 .. n - 1 : j # a => c[j] = b[j]
  BY StoredIs
<1> HIDE DEF c
<1>2. UsedIn(c) = UsedIn(b) \cup {a}
  BY <1>1 DEF UsedIn
<1>3. LiveIn(c) = IF Live(entry) THEN LiveIn(b) \cup {a} ELSE LiveIn(b) \ {a}
  BY <1>1 DEF LiveIn
<1> QED
  BY <1>2, <1>3 DEF c

-----------------------------------------------------------------------------
(* Insertion and removal                                                   *)

\* The place where a probe first meets an empty bucket or a tombstone takes
\* an entry whose key is in no bucket.
LEMMA FreshPlace ==
  ASSUME NEW n \in Nat \ {0}, NEW b, Sound(b, n),
         NEW k \in Keys, NEW v \in Values \cup {NULL},
         \A j \in 0 .. n - 1 : b[j].key # k,
         NEW i \in 0 .. n - 1,
         \A h \in 0 .. i - 1 : b[Probe(k, h, n)].key # NULL
  PROVE  MayStore(b, Probe(k, i, n), [key |-> k, value |-> v], n)
<1> DEFINE entry == [key |-> k, value |-> v]
<1>1. Probe(k, i, n) \in 0 .. n - 1
  BY ProbeInTable
<1>2. entry \in Bucket /\ entry.key = k /\ k # NULL
  BY KeysAreLive DEF Bucket
<1> HIDE DEF entry
<1>3. MayStore(b, Probe(k, i, n), entry, n)
  BY <1>1, <1>2 DEF MayStore
<1> QED
  BY <1>3 DEF entry

\* Before the first place where a probe ends there is no empty bucket.
LEMMA BeforeTheEnd ==
  ASSUME NEW n \in Nat \ {0}, NEW b, NEW k \in Keys,
         NEW i \in 0 .. n - 1, \A j \in Stops(b, k, n) : i <= j
  PROVE  \A h \in 0 .. i - 1 : b[Probe(k, h, n)].key # NULL
<1> SUFFICES ASSUME NEW h \in 0 .. i - 1, b[Probe(k, h, n)].key = NULL
             PROVE  FALSE
  OBVIOUS
<1>1. h \in 0 .. n - 1 /\ ~(i <= h)
  OBVIOUS
<1>2. h \in Stops(b, k, n)
  BY <1>1 DEF Stops
<1> QED
  BY <1>1, <1>2

\* b after the insertion of v for k, with the counters at s and occ.
Put(b, c, k, v, n, occ, s) ==
  /\ Sound(c, n)
  /\ s = Cardinality(LiveIn(c))
  /\ occ = Cardinality(UsedIn(c))
  /\ \A h \in Keys : Found(c, h, n) = IF h = k THEN v ELSE Found(b, h, n)

\* Put into a table that is not full, k gets the value v, no other key
\* notices, and the counters stay exact.
LEMMA PutIntoSound ==
  ASSUME NEW n \in Nat \ {0}, NEW b, Sound(b, n), NEW occ,
         size = Cardinality(LiveIn(b)), occ = Cardinality(UsedIn(b)),
         NEW k \in Keys, NEW v \in Values, PutInto(b, k, v, n, occ)
  PROVE  /\ Put(b, buckets', k, v, n, occupied', size')
         /\ occupied' \in {occ, occ + 1}
<1> DEFINE entry == [key |-> k, value |-> v]
           at == Holders(b, k, n)
           tombs == Passed(b, k, n)
           ends == Stops(b, k, n)
<1>1. /\ b \in [0 .. n - 1 -> Bucket] /\ DOMAIN b = 0 .. n - 1
      /\ k # NULL /\ k # TOMBSTONE
      /\ entry \in Bucket /\ entry.key = k /\ entry.value = v
      /\ Live(entry) /\ entry.key # NULL
  BY KeysAreLive DEF Sound, Bucket, Live
<1>2. /\ IsFiniteSet(LiveIn(b)) /\ IsFiniteSet(UsedIn(b))
  BY <1>1, CountsFinite
<1>3. /\ ends \subseteq 0 .. n - 1 /\ ends \subseteq Nat
      /\ tombs \subseteq 0 .. n - 1 /\ tombs \subseteq Nat
  BY DEF Stops, Passed
<1>4. ASSUME NEW a \in 0 .. n - 1, MayStore(b, a, entry, n),
             buckets' = Stored(b, a, entry), b[a].key \in {NULL, TOMBSTONE, k}
      PROVE  /\ Sound(buckets', n)
             /\ UsedIn(buckets') = UsedIn(b) \cup {a}
             /\ LiveIn(buckets') = LiveIn(b) \cup {a}
             /\ \A h \in Keys :
                  Found(buckets', h, n) = IF h = k THEN v ELSE Found(b, h, n)
  <2> HIDE DEF entry
  <2>1. Sound(buckets', n)
    BY <1>4, StoredSound
  <2>2. /\ UsedIn(buckets') = UsedIn(b) \cup {a}
        /\ LiveIn(buckets') = LiveIn(b) \cup {a}
    BY <1>1, <1>4, StoredCounts
  <2>3. ASSUME NEW h \in Keys
        PROVE  Found(buckets', h, n) = IF h = k THEN v ELSE Found(b, h, n)
    <3>1. Found(buckets', h, n) = IF entry.key = h THEN entry.value
                                  ELSE IF b[a].key = h THEN NULL
                                  ELSE Found(b, h, n)
      BY <1>4, StoredFound
    <3>2. h # NULL /\ h # TOMBSTONE
      BY KeysAreLive
    <3> QED
      BY <1>1, <1>4, <3>1, <3>2
  <2> QED
    BY <2>1, <2>2, <2>3
<1>5. CASE /\ at # {}
           /\ buckets' = Stored(b, CHOOSE i \in at : TRUE, entry)
           /\ occupied' = occ
           /\ UNCHANGED size
  <2>1. PICK j \in 0 .. n - 1 : b[j].key = k
    BY <1>5, NoHolder
  <2>2. at = {j}
    BY <2>1, HolderIs
  <2>3. buckets' = Stored(b, j, entry)
    <3>1. (CHOOSE i \in {j} : TRUE) = j
      OBVIOUS
    <3> QED
      BY <1>5, <2>2, <3>1
  <2>4. MayStore(b, j, entry, n)
    <3>1. Live(b[j])
      BY <1>1, <2>1 DEF Live
    <3>2. \A h \in 0 .. n - 1 : b[h].key = k => h = j
      BY <1>1, <2>1, <3>1 DEF Sound, Once
    <3>3. \E i \in 0 .. n - 1 :
            /\ Probe(k, i, n) = j
            /\ \A h \in 0 .. i - 1 : b[Probe(k, h, n)].key # NULL
      BY <1>1, <2>1, <3>1 DEF Sound, Near
    <3> HIDE DEF entry
    <3> QED
      BY <1>1, <3>2, <3>3 DEF MayStore
  <2> HIDE DEF entry
  <2>5. j \in LiveIn(b) /\ j \in UsedIn(b)
    BY <1>1, <2>1 DEF LiveIn, UsedIn, Live
  <2>6. UsedIn(buckets') = UsedIn(b) /\ LiveIn(buckets') = LiveIn(b)
    BY <1>4, <2>1, <2>3, <2>4, <2>5
  <2> QED
    BY <1>4, <1>5, <2>1, <2>3, <2>4, <2>6 DEF Put
<1>6. CASE /\ at = {} /\ tombs # {}
           /\ buckets' = Stored(b, Probe(k, Smallest(tombs), n), entry)
           /\ occupied' = occ
           /\ size' = size + 1
  <2> DEFINE i == Smallest(tombs)
             a == Probe(k, i, n)
  <2>1. i \in tombs
    BY <1>3, <1>6, SmallestIs
  <2>2. /\ i \in 0 .. n - 1 /\ b[a].key = TOMBSTONE
        /\ \A j \in ends : i < j
    BY <2>1 DEF Passed
  <2> HIDE DEF i
  <2>3. \A h \in 0 .. i - 1 : b[Probe(k, h, n)].key # NULL
    <3>1. \A j \in ends : i <= j
      BY <1>3, <2>2
    <3> QED
      BY <2>2, <3>1, BeforeTheEnd
  <2>4. MayStore(b, a, entry, n)
    BY <1>6, <2>2, <2>3, NotHeld, FreshPlace
  <2>5. a \in 0 .. n - 1
    BY <2>2, ProbeInTable
  <2>6. buckets' = Stored(b, a, entry)
    BY <1>6 DEF i
  <2> HIDE DEF a, entry
  <2>7. /\ Sound(buckets', n)
        /\ UsedIn(buckets') = UsedIn(b) \cup {a}
        /\ LiveIn(buckets') = LiveIn(b) \cup {a}
        /\ \A h \in Keys :
             Found(buckets', h, n) = IF h = k THEN v ELSE Found(b, h, n)
    BY <1>4, <2>2, <2>4, <2>5, <2>6
  <2>8. a \notin LiveIn(b) /\ a \in UsedIn(b)
    BY <1>1, <2>2, <2>5, HashAssumption DEF LiveIn, UsedIn, Live
  <2>9. /\ Cardinality(LiveIn(buckets')) = Cardinality(LiveIn(b)) + 1
        /\ UsedIn(buckets') = UsedIn(b)
    BY <1>2, <2>7, <2>8, FS_AddElement
  <2> QED
    BY <1>6, <2>7, <2>9 DEF Put
<1>7. CASE /\ at = {} /\ tombs = {} /\ ends # {}
           /\ buckets' = Stored(b, Probe(k, Smallest(ends), n), entry)
           /\ occupied' = occ + 1
           /\ size' = size + 1
  <2> DEFINE i == Smallest(ends)
             a == Probe(k, i, n)
  <2>1. i \in ends /\ \A j \in ends : i <= j
    <3> HIDE DEF ends
    <3> QED
      BY <1>3, <1>7, SmallestIs
  <2>2. i \in 0 .. n - 1 /\ b[a].key \in {NULL, k}
    BY <2>1 DEF Stops
  <2> HIDE DEF i
  <2>3. \A h \in 0 .. i - 1 : b[Probe(k, h, n)].key # NULL
    BY <2>1, <2>2, BeforeTheEnd
  <2>4. MayStore(b, a, entry, n)
    BY <1>7, <2>2, <2>3, NotHeld, FreshPlace
  <2>5. a \in 0 .. n - 1
    BY <2>2, ProbeInTable
  <2>6. b[a].key = NULL
    BY <1>7, <2>2, <2>5, NotHeld
  <2>7. buckets' = Stored(b, a, entry)
    BY <1>7 DEF i
  <2> HIDE DEF a, entry
  <2>8. /\ Sound(buckets', n)
        /\ UsedIn(buckets') = UsedIn(b) \cup {a}
        /\ LiveIn(buckets') = LiveIn(b) \cup {a}
        /\ \A h \in Keys :
             Found(buckets', h, n) = IF h = k THEN v ELSE Found(b, h, n)
    BY <1>4, <2>4, <2>5, <2>6, <2>7
  <2>9. a \notin LiveIn(b) /\ a \notin UsedIn(b)
    BY <2>6 DEF LiveIn, UsedIn, Live
  <2>10. /\ Cardinality(LiveIn(buckets')) = Cardinality(LiveIn(b)) + 1
         /\ Cardinality(UsedIn(buckets')) = Cardinality(UsedIn(b)) + 1
    BY <1>2, <2>8, <2>9, FS_AddElement
  <2> QED
    BY <1>7, <2>8, <2>10 DEF Put
<1> QED
  BY <1>5, <1>6, <1>7 DEF PutInto

-----------------------------------------------------------------------------
(* Growth                                                                  *)

\* What the loop of hash_table_grow does with one bucket of the old table.
Rehashed(b, entry, n) ==
  IF Live(entry)
  THEN Stored(b, Probe(entry.key, Smallest(Stops(b, entry.key, n)), n), entry)
  ELSE b

\* The recursive definition inside Grown has a solution, so Grown is what the
\* loop computes: one step for every bucket of the old table, in their order.
LEMMA GrownIs ==
  ASSUME NEW N \in Nat, N = bucket_count, buckets \in [0 .. N - 1 -> Bucket]
  PROVE  \E r : /\ r[0] = EmptyBuckets(2 * N)
                /\ \A i \in 1 .. N :
                     r[i] = Rehashed(r[i - 1], buckets[i - 1], 2 * N)
                /\ Grown = r[N]
<1> DEFINE n == 2 * N
           Tables == [0 .. n - 1 -> Bucket]
           G == [p \in Tables \X (1 .. N) |->
                   Rehashed(p[1], buckets[p[2] - 1], n)]
           r == CHOOSE rehashed : rehashed =
                  [i \in 0 .. N |->
                     IF i = 0 THEN EmptyBuckets(n)
                     ELSE IF Live(buckets[i - 1])
                          THEN Stored(rehashed[i - 1],
                                 Probe(buckets[i - 1].key,
                                   Smallest(Stops(rehashed[i - 1],
                                                  buckets[i - 1].key, n)), n),
                                 buckets[i - 1])
                          ELSE rehashed[i - 1]]
<1>1. EmptyBuckets(n) \in Tables
  BY DEF EmptyBuckets, Bucket
<1>2. ASSUME NEW b \in Tables, NEW i \in 1 .. N
      PROVE  Rehashed(b, buckets[i - 1], n) \in Tables
  <2>1. buckets[i - 1] \in Bucket
    OBVIOUS
  <2>2. \A at, entry : entry \in Bucket => Stored(b, at, entry) \in Tables
    BY DEF Stored
  <2> HIDE DEF Tables
  <2> QED
    BY <2>1, <2>2 DEF Rehashed
<1>3. G \in [Tables \X (1 .. N) -> Tables]
  <2> HIDE DEF Tables
  <2> QED
    BY <1>2
<1>4. PICK f \in [0 .. N -> Tables] : Solves(f, N, EmptyBuckets(n), G)
  <2> HIDE DEF G, Tables, n
  <2> QED
    BY <1>1, <1>3, PrimitiveRecursion
<1>5. ASSUME NEW i \in 1 .. N
      PROVE  f[i] = Rehashed(f[i - 1], buckets[i - 1], n)
  <2> HIDE DEF Tables, n
  <2>1. f[i - 1] \in Tables /\ i \in 0 .. N /\ i # 0
    BY <1>4
  <2>2. f[i] = G[<<f[i - 1], i>>]
    <3> HIDE DEF G
    <3> QED
      BY <1>4, <2>1 DEF Solves
  <2> QED
    BY <2>1, <2>2
<1>6. f = [i \in 0 .. N |->
             IF i = 0 THEN EmptyBuckets(n)
             ELSE IF Live(buckets[i - 1])
                  THEN Stored(f[i - 1],
                         Probe(buckets[i - 1].key,
                           Smallest(Stops(f[i - 1],
                                          buckets[i - 1].key, n)), n),
                         buckets[i - 1])
                  ELSE f[i - 1]]
  <2> HIDE DEF G, Tables, n
  <2>0. 0 \in 0 .. N
    OBVIOUS
  <2>1. f[0] = EmptyBuckets(n) /\ DOMAIN f = 0 .. N
    BY <1>4, <2>0 DEF Solves
  <2>2. \A i \in 0 .. N :
          f[i] = IF i = 0 THEN EmptyBuckets(n)
                 ELSE Rehashed(f[i - 1], buckets[i - 1], n)
    BY <2>1, <1>5
  <2> QED
    BY <1>4, <2>2 DEF Rehashed
<1>7. r = [i \in 0 .. N |->
             IF i = 0 THEN EmptyBuckets(n)
             ELSE IF Live(buckets[i - 1])
                  THEN Stored(r[i - 1],
                         Probe(buckets[i - 1].key,
                           Smallest(Stops(r[i - 1],
                                          buckets[i - 1].key, n)), n),
                         buckets[i - 1])
                  ELSE r[i - 1]]
  <2> HIDE DEF G, Tables, n
  <2> QED
    BY <1>6
<1>8. Grown = r[N]
  BY DEF Grown
<1> HIDE DEF r, n, G, Tables
<1>9. r[0] = EmptyBuckets(n)
  BY <1>7
<1>10. ASSUME NEW i \in 1 .. N
       PROVE  r[i] = Rehashed(r[i - 1], buckets[i - 1], n)
  <2>1. i \in 0 .. N /\ i # 0
    OBVIOUS
  <2> QED
    BY <1>7, <2>1 DEF Rehashed
<1> QED
  BY <1>8, <1>9, <1>10 DEF n

\* The live buckets before the i-th one.
LiveBefore(b, i) == {j \in 0 .. i - 1 : Live(b[j])}

\* b holds the live entries among the first i buckets of old, each once, and
\* nothing else.
Rehashing(old, b, i, n) ==
  /\ Sound(b, n)
  /\ \A m \in 0 .. n - 1 : b[m].key # TOMBSTONE
  /\ \A j \in LiveBefore(old, i) : \E m \in 0 .. n - 1 : b[m] = old[j]
  /\ \A m \in 0 .. n - 1 : Live(b[m]) => \E j \in LiveBefore(old, i) : b[m] = old[j]
  /\ Cardinality(LiveIn(b)) = Cardinality(LiveBefore(old, i))

\* A table without tombstones and with fewer live entries than buckets has an
\* empty bucket: the loop that looks for one ends.
LEMMA EmptyBucketLeft ==
  ASSUME NEW n \in Nat, NEW b \in [0 .. n - 1 -> Bucket],
         Cardinality(UsedIn(b)) < n
  PROVE  \E m \in 0 .. n - 1 : b[m].key = NULL
<1> SUFFICES ASSUME \A m \in 0 .. n - 1 : b[m].key # NULL
             PROVE  FALSE
  OBVIOUS
<1>1. UsedIn(b) = 0 .. n - 1
  BY DEF UsedIn
<1>2. Cardinality(0 .. n - 1) = n
  BY FS_Interval
<1> QED
  BY <1>1, <1>2

\* One step of the loop.
LEMMA RehashStep ==
  ASSUME NEW N \in Nat \ {0}, NEW old, Sound(old, N),
         NEW i \in 1 .. N, NEW b, Rehashing(old, b, i - 1, 2 * N)
  PROVE  Rehashing(old, Rehashed(b, old[i - 1], 2 * N), i, 2 * N)
<1> DEFINE n == 2 * N
           entry == old[i - 1]
           k == entry.key
           c == Rehashed(b, entry, n)
<1>1. /\ n \in Nat \ {0} /\ i - 1 \in 0 .. N - 1 /\ i - 1 \in Nat
      /\ old \in [0 .. N - 1 -> Bucket] /\ entry \in Bucket
      /\ b \in [0 .. n - 1 -> Bucket] /\ DOMAIN b = 0 .. n - 1
  BY DEF Rehashing, Sound
<1>2. LiveBefore(old, i) = IF Live(entry) THEN LiveBefore(old, i - 1) \cup {i - 1}
                           ELSE LiveBefore(old, i - 1)
  BY DEF LiveBefore
<1>3. /\ IsFiniteSet(LiveBefore(old, i - 1))
      /\ Cardinality(LiveBefore(old, i - 1)) \in Nat
      /\ Cardinality(LiveBefore(old, i - 1)) < N
  <2>1. IsFiniteSet(0 .. i - 2) /\ Cardinality(0 .. i - 2) = i - 1
    <3>1. 0 \in Int /\ i - 2 \in Int
      OBVIOUS
    <3>2. /\ IsFiniteSet(0 .. i - 2)
          /\ Cardinality(0 .. i - 2) = IF 0 > i - 2 THEN 0 ELSE i - 2 - 0 + 1
      BY <3>1, FS_Interval
    <3> QED
      BY <3>2
  <2>2. LiveBefore(old, i - 1) \in SUBSET (0 .. i - 2)
    BY DEF LiveBefore
  <2>3. /\ IsFiniteSet(LiveBefore(old, i - 1))
        /\ Cardinality(LiveBefore(old, i - 1)) <= i - 1
    BY <2>1, <2>2, FS_Subset
  <2>4. Cardinality(LiveBefore(old, i - 1)) \in Nat
    BY <2>3, FS_CardinalityType
  <2> QED
    BY <2>3, <2>4
<1> HIDE DEF n
<1>4. CASE ~Live(entry)
  <2>1. c = b /\ LiveBefore(old, i) = LiveBefore(old, i - 1)
    BY <1>2, <1>4 DEF Rehashed
  <2> HIDE DEF c
  <2>2. Rehashing(old, c, i, n)
    BY <2>1 DEF Rehashing, n
  <2> QED
    BY <2>2 DEF c, n
<1>5. CASE Live(entry)
  <2> DEFINE ends == Stops(b, k, n)
             s == Smallest(ends)
             a == Probe(k, s, n)
  <2>1. k \in Keys /\ k # NULL /\ k # TOMBSTONE
    BY <1>1, <1>5, LiveKey, KeysAreLive
  <2>2. \A m \in 0 .. n - 1 : b[m].key # k
    <3> SUFFICES ASSUME NEW m \in 0 .. n - 1, b[m].key = k
                 PROVE  FALSE
      OBVIOUS
    <3>1. Live(b[m])
      BY <2>1 DEF Live
    <3>2. PICK j \in LiveBefore(old, i - 1) : b[m] = old[j]
      BY <3>1 DEF Rehashing, n
    <3>3. j \in 0 .. N - 1 /\ j # i - 1 /\ Live(old[j])
      BY DEF LiveBefore
    <3> QED
      BY <3>2, <3>3, <1>1 DEF Sound, Once
  <2>3. ends # {} /\ ends \subseteq 0 .. n - 1 /\ ends \subseteq Nat
    <3>1. UsedIn(b) = LiveIn(b)
      BY <1>1 DEF Rehashing, UsedIn, LiveIn, Live, n
    <3>2. Cardinality(UsedIn(b)) < n
      BY <3>1, <1>3 DEF Rehashing, n
    <3>3. PICK m \in 0 .. n - 1 : b[m].key = NULL
      BY <1>1, <3>2, EmptyBucketLeft
    <3>4. PICK h \in 0 .. n - 1 : Probe(k, h, n) = m
      BY <1>1, <2>1, ProbeReaches
    <3>5. h \in ends
      BY <3>3, <3>4 DEF Stops
    <3> QED
      BY <1>1, <3>5 DEF Stops
  <2>4. s \in ends /\ \A j \in ends : s <= j
    <3> HIDE DEF ends
    <3> QED
      BY <2>3, SmallestIs
  <2>6. c = Stored(b, a, entry)
    BY <1>5 DEF Rehashed
  <2> HIDE DEF s
  <2>5. s \in 0 .. n - 1 /\ s \in Nat /\ b[a].key \in {NULL, k}
    BY <1>1, <2>4 DEF Stops
  <2>7. a \in 0 .. n - 1
    BY <1>1, <2>1, <2>5, ProbeInTable
  <2>8. \A h \in 0 .. s - 1 : b[Probe(k, h, n)].key # NULL
    BY <1>1, <2>1, <2>4, <2>5, BeforeTheEnd
  <2>9. b[a].key = NULL
    BY <2>2, <2>5, <2>7
  <2>10. MayStore(b, a, entry, n)
    BY <1>1, <2>1, <2>2, <2>5, <2>7, <2>8 DEF MayStore
  <2> HIDE DEF a, ends, c, k, entry
  <2>11. /\ c[a] = entry /\ c \in [0 .. n - 1 -> Bucket]
         /\ \A m \in 0 .. n - 1 : m # a => c[m] = b[m]
    <3>1. entry \in Bucket /\ n \in Nat /\ b \in [0 .. n - 1 -> Bucket]
      BY <1>1 DEF entry
    <3> QED
      BY <3>1, <2>6, <2>7, StoredIs
  <2>12. Sound(c, n)
    BY <1>1, <2>6, <2>10, StoredSound DEF Rehashing, n
  <2>13. \A m \in 0 .. n - 1 : c[m].key # TOMBSTONE
    BY <2>1, <2>11 DEF Rehashing, n, k
  <2>14. \A j \in LiveBefore(old, i) : \E m \in 0 .. n - 1 : c[m] = old[j]
    <3>1. ASSUME NEW j \in LiveBefore(old, i - 1)
          PROVE  \E m \in 0 .. n - 1 : c[m] = old[j]
      <4>1. PICK m \in 0 .. n - 1 : b[m] = old[j]
        BY DEF Rehashing, n
      <4>2. old[j].key # NULL
        BY DEF LiveBefore, Live
      <4> QED
        BY <4>1, <4>2, <2>9, <2>11
    <3> QED
      BY <3>1, <1>2, <1>5, <2>7, <2>11 DEF entry
  <2>15. \A m \in 0 .. n - 1 :
           Live(c[m]) => \E j \in LiveBefore(old, i) : c[m] = old[j]
    BY <1>2, <1>5, <2>11 DEF Rehashing, n, entry
  <2>16. Cardinality(LiveIn(c)) = Cardinality(LiveBefore(old, i))
    <3>1. LiveIn(c) = LiveIn(b) \cup {a}
      BY <1>1, <1>5, <2>1, <2>6, <2>7, StoredCounts DEF k
    <3>2. a \notin LiveIn(b) /\ IsFiniteSet(LiveIn(b))
      BY <1>1, <2>9, CountsFinite DEF LiveIn, Live
    <3>3. i - 1 \notin LiveBefore(old, i - 1)
      BY DEF LiveBefore
    <3>4. Cardinality(LiveIn(c)) = Cardinality(LiveIn(b)) + 1
      BY <3>1, <3>2, FS_AddElement
    <3>5. Cardinality(LiveBefore(old, i)) = Cardinality(LiveBefore(old, i - 1)) + 1
      BY <3>3, <1>2, <1>3, <1>5, FS_AddElement
    <3> QED
      BY <3>4, <3>5 DEF Rehashing, n
  <2> QED
    BY <2>12, <2>13, <2>14, <2>15, <2>16 DEF Rehashing, n, c, entry
<1> QED
  BY <1>4, <1>5

\* The grown table has twice the size, the same live entries and nothing else.
LEMMA GrownSound ==
  ASSUME NEW N \in Nat \ {0}, N = bucket_count, Sound(buckets, N)
  PROVE  /\ Sound(Grown, 2 * N)
         /\ Cardinality(LiveIn(Grown)) = Cardinality(LiveIn(buckets))
         /\ UsedIn(Grown) = LiveIn(Grown)
         /\ \A k \in Keys : Found(Grown, k, 2 * N) = Found(buckets, k, N)
<1> DEFINE n == 2 * N
<1>1. buckets \in [0 .. N - 1 -> Bucket] /\ n \in Nat \ {0}
  BY DEF Sound
<1>2. PICK r : /\ r[0] = EmptyBuckets(n)
               /\ \A i \in 1 .. N : r[i] = Rehashed(r[i - 1], buckets[i - 1], n)
               /\ Grown = r[N]
  BY <1>1, GrownIs
<1> DEFINE A == {i \in Nat : i <= N => Rehashing(buckets, r[i], i, n)}
<1>3. 0 \in A
  <2>1. LiveBefore(buckets, 0) = {}
    BY DEF LiveBefore
  <2>2. LiveIn(EmptyBuckets(n)) = {}
    BY DEF LiveIn, Live, EmptyBuckets
  <2>3. Sound(EmptyBuckets(n), n)
    BY DEF Sound, EmptyBuckets, Bucket, Once, Near, Live
  <2>4. \A m \in 0 .. n - 1 : /\ EmptyBuckets(n)[m].key # TOMBSTONE
                              /\ ~Live(EmptyBuckets(n)[m])
    BY HashAssumption DEF EmptyBuckets, Live
  <2> HIDE DEF n
  <2>5. Rehashing(buckets, r[0], 0, n)
    BY <1>2, <2>1, <2>2, <2>3, <2>4 DEF Rehashing
  <2> QED
    BY <2>5
<1>4. ASSUME NEW i \in Nat, i \in A PROVE i + 1 \in A
  <2> SUFFICES ASSUME i + 1 <= N
               PROVE  Rehashing(buckets, r[i + 1], i + 1, n)
    BY <1>4
  <2>1. i + 1 \in 1 .. N /\ (i + 1) - 1 = i
    OBVIOUS
  <2>2. Rehashing(buckets, r[i], i, n)
    BY <1>4, <2>1
  <2>3. r[i + 1] = Rehashed(r[i], buckets[i], n)
    <3> HIDE DEF n
    <3> QED
      BY <1>2, <2>1
  <2>4. Rehashing(buckets, Rehashed(r[i], buckets[i], n), i + 1, n)
    <3> DEFINE j == i + 1
    <3>1. j \in 1 .. N /\ i = j - 1 /\ Rehashing(buckets, r[i], j - 1, 2 * N)
      BY <2>1, <2>2
    <3> HIDE DEF j
    <3>2. Rehashing(buckets, Rehashed(r[i], buckets[j - 1], 2 * N), j, 2 * N)
      BY <3>1, RehashStep
    <3> QED
      BY <3>1, <3>2 DEF j
  <2> QED
    BY <2>3, <2>4
<1>5. Rehashing(buckets, Grown, N, n)
  <2>1. \A i \in Nat : i \in A
    <3> HIDE DEF A
    <3> QED
      BY <1>3, <1>4, SetInduction
  <2>2. N \in A
    <3> HIDE DEF A
    <3> QED
      BY <2>1
  <2> QED
    BY <1>2, <2>2
<1> HIDE DEF n
<1>6. /\ Sound(Grown, n) /\ Grown \in [0 .. n - 1 -> Bucket]
      /\ \A m \in 0 .. n - 1 : Grown[m].key # TOMBSTONE
  BY <1>5 DEF Rehashing, Sound
<1>7. LiveBefore(buckets, N) = LiveIn(buckets)
  BY <1>1 DEF LiveBefore, LiveIn
<1>8. Cardinality(LiveIn(Grown)) = Cardinality(LiveIn(buckets))
  BY <1>5, <1>7 DEF Rehashing
<1>9. UsedIn(Grown) = LiveIn(Grown)
  BY <1>6 DEF UsedIn, LiveIn, Live
<1>10. ASSUME NEW k \in Keys
       PROVE  Found(Grown, k, n) = Found(buckets, k, N)
  <2>1. CASE \E j \in 0 .. N - 1 : buckets[j].key = k
    <3>1. PICK j \in 0 .. N - 1 : buckets[j].key = k
      BY <2>1
    <3>2. j \in LiveBefore(buckets, N)
      BY <3>1, KeysAreLive DEF LiveBefore, Live
    <3>3. PICK m \in 0 .. n - 1 : Grown[m] = buckets[j]
      BY <1>5, <3>2 DEF Rehashing
    <3>4. Found(Grown, k, n) = Grown[m].value
      BY <1>1, <1>6, <3>1, <3>3, FoundHeld
    <3>5. Found(buckets, k, N) = buckets[j].value
      BY <3>1, FoundHeld
    <3> QED
      BY <3>3, <3>4, <3>5
  <2>2. CASE \A j \in 0 .. N - 1 : buckets[j].key # k
    <3>1. ASSUME NEW m \in 0 .. n - 1, Grown[m].key = k
          PROVE  FALSE
      <4>1. Live(Grown[m])
        BY <3>1, KeysAreLive DEF Live
      <4>2. PICK j \in LiveBefore(buckets, N) : Grown[m] = buckets[j]
        BY <1>5, <4>1 DEF Rehashing
      <4> QED
        BY <2>2, <3>1, <4>2 DEF LiveBefore
    <3>2. Found(Grown, k, n) = NULL
      BY <1>1, <1>6, <3>1, FoundNone
    <3>3. Found(buckets, k, N) = NULL
      BY <2>2, FoundNone
    <3> QED
      BY <3>2, <3>3
  <2> QED
    BY <2>1, <2>2
<1> QED
  BY <1>6, <1>8, <1>9, <1>10 DEF n

-----------------------------------------------------------------------------
(* The steps of the table                                                  *)

\* The number of buckets of a table.
LEMMA BucketCountIs ==
  ASSUME NEW n \in Nat, NEW b \in [0 .. n - 1 -> Bucket]
  PROVE  Cardinality(DOMAIN b) = n
  BY FS_Interval

\* What HashInv says of the table it is about.
LEMMA InvFacts ==
  ASSUME HashInv
  PROVE  /\ bucket_count \in Nat \ {0} /\ bucket_count >= 4
         /\ Sound(buckets, bucket_count)
         /\ buckets \in [0 .. bucket_count - 1 -> Bucket]
         /\ size \in Nat /\ occupied \in Nat /\ size <= occupied
  BY CountsFinite DEF HashInv, Sound

\* A call that leaves the table alone leaves its contents alone.
LEMMA UnchangedStep ==
  ASSUME HashInv, UNCHANGED tableVars
  PROVE  HashInv' /\ Contents' = Contents
  BY DEF HashInv, tableVars, Contents, bucket_count

\* What Put makes of the invariant and of the contents.
LEMMA PutKeeps ==
  ASSUME NEW n \in Nat, n >= 4, NEW b, NEW k \in Keys, NEW v,
         Put(b, buckets', k, v, n, occupied', size'), occupied' < n,
         \A h \in Keys : Found(b, h, n) = Contents[h]
  PROVE  HashInv' /\ Contents' = [Contents EXCEPT ![k] = v]
<1>1. bucket_count' = n
  <2>1. buckets' \in [0 .. n - 1 -> Bucket]
    BY DEF Put, Sound
  <2> QED
    BY <2>1, BucketCountIs DEF bucket_count
<1>2. HashInv'
  BY <1>1 DEF HashInv, Put
<1>3. ASSUME NEW h \in Keys
      PROVE  Found(buckets', h, bucket_count') = IF h = k THEN v ELSE Contents[h]
  BY <1>1 DEF Put
<1>4. Contents' = [h \in Keys |-> IF h = k THEN v ELSE Contents[h]]
  BY <1>3 DEF Contents
<1>5. DOMAIN Contents = Keys
  BY DEF Contents
<1> QED
  BY <1>2, <1>4, <1>5

\* An insertion keeps the invariant and sets one key.
LEMMA InsertStep ==
  ASSUME HashInv, NEW k \in Keys, NEW v \in Values, TableInsert(k, v)
  PROVE  HashInv' /\ Contents' = [Contents EXCEPT ![k] = v]
<1> DEFINE N == bucket_count
<1>1. /\ N \in Nat \ {0} /\ N >= 4 /\ Sound(buckets, N)
      /\ size \in Nat /\ occupied \in Nat /\ size <= occupied
      /\ size = Cardinality(LiveIn(buckets))
      /\ occupied = Cardinality(UsedIn(buckets))
      /\ occupied < N
  BY InvFacts DEF HashInv
<1>2. \A h \in Keys : Found(buckets, h, N) = Contents[h]
  BY DEF Contents
<1>3. CASE TooFull(occupied, N)
  <2>1. PutInto(Grown, k, v, 2 * N, size)
    BY <1>3 DEF TableInsert, OccupiedAfterGrowth
  <2>2. /\ Sound(Grown, 2 * N)
        /\ size = Cardinality(LiveIn(Grown))
        /\ size = Cardinality(UsedIn(Grown))
        /\ \A h \in Keys : Found(Grown, h, 2 * N) = Contents[h]
    <3> HIDE DEF N
    <3> QED
      BY <1>1, <1>2, GrownSound DEF N
  <2> HIDE DEF N
  <2>3. 2 * N \in Nat \ {0} /\ 2 * N >= 4
    BY <1>1
  <2>4. /\ Put(Grown, buckets', k, v, 2 * N, occupied', size')
        /\ occupied' \in {size, size + 1}
    BY <2>1, <2>2, <2>3, PutIntoSound
  <2>5. occupied' < 2 * N
    BY <1>1, <2>4
  <2> QED
    BY <2>2, <2>3, <2>4, <2>5, PutKeeps
<1>4. CASE ~TooFull(occupied, N)
  <2>1. PutInto(buckets, k, v, N, occupied)
    BY <1>4 DEF TableInsert
  <2>2. occupied + 1 < N
    <3> HIDE DEF N
    <3> QED
      BY <1>1, <1>4 DEF TooFull
  <2> HIDE DEF N
  <2>3. /\ Put(buckets, buckets', k, v, N, occupied', size')
        /\ occupied' \in {occupied, occupied + 1}
    BY <1>1, <2>1, PutIntoSound
  <2>4. occupied' < N
    BY <1>1, <2>2, <2>3
  <2> QED
    BY <1>1, <1>2, <2>3, <2>4, PutKeeps
<1> QED
  BY <1>3, <1>4

\* A removal keeps the invariant and clears one key.
LEMMA RemoveStep ==
  ASSUME HashInv, NEW k \in Keys, TableRemove(k)
  PROVE  HashInv' /\ Contents' = [Contents EXCEPT ![k] = NULL]
<1> DEFINE N == bucket_count
           at == Holders(buckets, k, N)
<1>1. /\ N \in Nat \ {0} /\ N >= 4 /\ Sound(buckets, N)
      /\ buckets \in [0 .. N - 1 -> Bucket]
      /\ size = Cardinality(LiveIn(buckets))
      /\ occupied = Cardinality(UsedIn(buckets))
      /\ occupied < N
      /\ IsFiniteSet(LiveIn(buckets)) /\ Cardinality(LiveIn(buckets)) \in Nat
  BY InvFacts, CountsFinite DEF HashInv
<1>2. /\ buckets' = [i \in DOMAIN buckets |->
                       IF i \in at THEN RemovedBucket ELSE buckets[i]]
      /\ size' = size - Cardinality(at)
      /\ occupied' = occupied
  BY DEF TableRemove
<1>3. /\ \A h \in Keys : Found(buckets, h, N) = Contents[h]
      /\ Contents = [h \in Keys |-> Contents[h]]
  BY DEF Contents
<1>4. CASE \E j \in 0 .. N - 1 : buckets[j].key = k
  <2>1. PICK j \in 0 .. N - 1 : buckets[j].key = k
    BY <1>4
  <2>2. at = {j}
    <3> HIDE DEF N
    <3> QED
      BY <1>1, <2>1, HolderIs
  <2> HIDE DEF at, N
  <2>3. buckets' = Stored(buckets, j, RemovedBucket)
    BY <1>1, <1>2, <2>2 DEF Stored
  <2>4. /\ RemovedBucket \in Bucket /\ RemovedBucket.key # NULL
        /\ RemovedBucket.value = NULL /\ ~Live(RemovedBucket)
        /\ \A h \in Keys : RemovedBucket.key # h
    BY HashAssumption DEF RemovedBucket, Bucket, Live
  <2>5. MayStore(buckets, j, RemovedBucket, N)
    BY <2>4 DEF MayStore
  <2>6. Sound(buckets', N)
    BY <1>1, <2>3, <2>5, StoredSound
  <2>7. j \in LiveIn(buckets) /\ j \in UsedIn(buckets)
    BY <1>1, <2>1, KeysAreLive DEF LiveIn, UsedIn, Live
  <2>8. /\ UsedIn(buckets') = UsedIn(buckets)
        /\ LiveIn(buckets') = LiveIn(buckets) \ {j}
    <3>1. /\ UsedIn(buckets') = UsedIn(buckets) \cup {j}
          /\ LiveIn(buckets') = IF Live(RemovedBucket)
                                THEN LiveIn(buckets) \cup {j}
                                ELSE LiveIn(buckets) \ {j}
      BY <1>1, <2>3, <2>4, StoredCounts
    <3> QED
      BY <2>4, <2>7, <3>1
  <2>9. size' = Cardinality(LiveIn(buckets'))
    <3>1. Cardinality(at) = 1
      BY <2>2, FS_Singleton
    <3>2. Cardinality(LiveIn(buckets) \ {j}) = Cardinality(LiveIn(buckets)) - 1
      BY <1>1, <2>7, FS_RemoveElement
    <3> QED
      BY <1>1, <1>2, <2>8, <3>1, <3>2
  <2>10. ASSUME NEW h \in Keys
         PROVE  Found(buckets', h, N) = IF h = k THEN NULL ELSE Found(buckets, h, N)
    <3>1. Found(buckets', h, N) =
            IF RemovedBucket.key = h THEN RemovedBucket.value
            ELSE IF buckets[j].key = h THEN NULL
            ELSE Found(buckets, h, N)
      BY <1>1, <2>3, <2>5, StoredFound
    <3> QED
      BY <2>1, <2>4, <3>1
  <2>11. Put(buckets, buckets', k, NULL, N, occupied', size')
    BY <1>1, <1>2, <2>6, <2>8, <2>9, <2>10 DEF Put
  <2> QED
    BY <1>1, <1>2, <1>3, <2>11, PutKeeps
<1>5. CASE \A j \in 0 .. N - 1 : buckets[j].key # k
  <2>1. at = {} /\ Found(buckets, k, N) = NULL
    <3> HIDE DEF N
    <3> QED
      BY <1>1, <1>5, NoHolder, FoundNone
  <2> HIDE DEF at, N
  <2>2. buckets' = buckets
    BY <1>1, <1>2, <2>1
  <2>3. size' = size
    BY <1>1, <1>2, <2>1, FS_EmptySet
  <2>4. HashInv' /\ Contents' = Contents
    BY <1>2, <2>2, <2>3, UnchangedStep DEF tableVars
  <2>5. Contents = [Contents EXCEPT ![k] = NULL]
    BY <1>3, <2>1
  <2> QED
    BY <2>4, <2>5
<1> QED
  BY <1>4, <1>5

-----------------------------------------------------------------------------
(* The invariant                                                           *)

\* The table wgvk_hash_table_create returns.
LEMMA InitInv ==
  ASSUME HashInit
  PROVE  HashInv /\ Contents = [k \in Keys |-> NULL]
<1>1. PICK n \in Nat : /\ n >= 4 /\ buckets = EmptyBuckets(n)
  BY HashAssumption DEF HashInit
<1>2. /\ buckets \in [0 .. n - 1 -> Bucket]
      /\ Sound(buckets, n)
      /\ \A i \in 0 .. n - 1 : buckets[i].key = NULL
  BY <1>1 DEF EmptyBuckets, Bucket, Sound, Once, Near, Live
<1>3. bucket_count = n
  BY <1>2, BucketCountIs DEF bucket_count
<1>4. LiveIn(buckets) = {} /\ UsedIn(buckets) = {}
  BY <1>2 DEF LiveIn, UsedIn, Live
<1>5. HashInv
  <2>1. Cardinality({}) = 0
    BY FS_EmptySet
  <2>2. size = 0 /\ occupied = 0
    BY DEF HashInit
  <2> QED
    BY <1>1, <1>2, <1>3, <1>4, <2>1, <2>2 DEF HashInv
<1>6. \A k \in Keys : Found(buckets, k, n) = NULL
  BY <1>1, <1>2, KeysAreLive, FoundNone
<1> QED
  BY <1>3, <1>5, <1>6 DEF Contents

\* Every step keeps the invariant.
LEMMA NextInv ==
  ASSUME HashInv, [HashNext]_hashVars
  PROVE  HashInv'
<1>1. CASE UNCHANGED hashVars
  BY <1>1, UnchangedStep DEF hashVars, tableVars
<1>2. ASSUME NEW k \in Keys, NEW v \in Values, TableInsert(k, v)
      PROVE  HashInv'
  BY <1>2, InsertStep
<1>3. ASSUME NEW k \in Keys, NEW v \in Values, InsertDropped(k, v)
      PROVE  HashInv'
  BY <1>3, UnchangedStep DEF InsertDropped
<1>4. ASSUME NEW k \in Keys, TableLookup(k)
      PROVE  HashInv'
  BY <1>4, UnchangedStep DEF TableLookup
<1>5. ASSUME NEW k \in Keys, TableRemove(k)
      PROVE  HashInv'
  BY <1>5, RemoveStep
<1> QED
  BY <1>1, <1>2, <1>3, <1>4, <1>5 DEF HashNext

\* In every reachable table no key is in two buckets, every key is found by
\* its probe, and the counters are exact and below the number of buckets.
THEOREM HashInvariant == HashSpec => []HashInv
<1>1. HashInit => HashInv
  BY InitInv
<1>2. HashInv /\ [HashNext]_hashVars => HashInv'
  BY NextInv
<1> QED
  BY <1>1, <1>2, PTL DEF HashSpec

\* The two counters that decide about growth count what they are meant to.
THEOREM CountersStayExact == HashSpec => []CountersExact
<1>1. HashInv => CountersExact
  BY DEF HashInv, CountersExact, LiveIn, UsedIn
<1> QED
  BY <1>1, HashInvariant, PTL

\* A bucket is always empty, so every probe ends and so does the search for a
\* place when the table grows.
THEOREM ProbesEnd == HashSpec => []AlwaysABucketEmpty
<1>1. HashInv => AlwaysABucketEmpty
  <2> SUFFICES ASSUME HashInv PROVE AlwaysABucketEmpty
    OBVIOUS
  <2>1. /\ bucket_count \in Nat
        /\ buckets \in [0 .. bucket_count - 1 -> Bucket]
        /\ Cardinality(UsedIn(buckets)) < bucket_count
    BY DEF HashInv, Sound
  <2>2. \E m \in 0 .. bucket_count - 1 : buckets[m].key = NULL
    BY <2>1, EmptyBucketLeft
  <2> QED
    BY <2>1, <2>2 DEF AlwaysABucketEmpty
<1> QED
  BY <1>1, HashInvariant, PTL

\* To its callers the table is a map: every call of the detailed table is the
\* same call of the map with the same answer.
THEOREM TableIsAMap == HashSpec => RefinesMap
<1>1. HashInit => Map!MapInit
  BY InitInv DEF HashInit, Map!MapInit, Call, Map!Call
<1>2. HashInv /\ [HashNext]_hashVars => [Map!MapNext]_<<Contents, last>>
  <2> SUFFICES ASSUME HashInv, [HashNext]_hashVars
               PROVE  Map!MapNext \/ UNCHANGED <<Contents, last>>
    OBVIOUS
  <2>1. CASE UNCHANGED hashVars
    BY <2>1, UnchangedStep DEF hashVars, tableVars
  <2>2. ASSUME NEW k \in Keys, NEW v \in Values, TableInsert(k, v)
        PROVE  Map!MapInsert(k, v)
    BY <2>2, InsertStep DEF TableInsert, Map!MapInsert, Call, Map!Call
  <2>3. ASSUME NEW k \in Keys, NEW v \in Values, InsertDropped(k, v)
        PROVE  Map!MapInsertRefused(k, v)
    BY <2>3, UnchangedStep DEF InsertDropped, Map!MapInsertRefused, Call, Map!Call
  <2>4. ASSUME NEW k \in Keys, TableLookup(k)
        PROVE  Map!MapLookup(k)
    <3>1. Contents[k] = Found(buckets, k, bucket_count)
      BY DEF Contents
    <3> QED
      BY <2>4, <3>1, UnchangedStep DEF TableLookup, Map!MapLookup, Call, Map!Call
  <2>5. ASSUME NEW k \in Keys, TableRemove(k)
        PROVE  Map!MapRemove(k)
    BY <2>5, RemoveStep DEF TableRemove, Map!MapRemove, Call, Map!Call
  <2> QED
    BY <2>1, <2>2, <2>3, <2>4, <2>5 DEF HashNext, Map!MapNext
<1> QED
  BY <1>1, <1>2, HashInvariant, PTL DEF HashSpec, RefinesMap, Map!MapSpec

=============================================================================
