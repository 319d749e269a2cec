--------------------------- MODULE SubmissionProofs ---------------------------
(***************************************************************************)
(* The GPU runs exactly what was submitted: from the recordings to the     *)
(* queue, for any interleaving of recording, submission and execution and  *)
(* any application that binds inside its render passes, asks for nothing   *)
(* that the code drops and submits a recording once.  The step that hands  *)
(* batches to the queue (HandStep) is proved for any number of batches of  *)
(* any length.  And a signaled fence stands for a submission that was      *)
(* carried out as a whole.                                                 *)
(***************************************************************************)
EXTENDS Submission, CommandBufferProofs, WellFoundedInduction, SequenceTheorems

-----------------------------------------------------------------------------
(* Induction and folds                                                     *)

\* A set with 0 that is closed under successor has every natural number.
LEMMA SetInduction ==
  ASSUME NEW S, 0 \in S, \A n \in Nat : n \in S => n + 1 \in S
  PROVE  \A n \in Nat : n \in S
<1> DEFINE T == Nat \ S
           R == OpToRel(<, Nat)
<1> SUFFICES ASSUME T # {} PROVE FALSE
  OBVIOUS
<1>1. IsWellFoundedOn(R, Nat)
  BY NatLessThanWellFounded
<1>2. \E x \in T : \A y \in T : ~(<<y, x>> \in R)
  <2>1. T \subseteq Nat
    OBVIOUS
  <2> HIDE DEF T, R
  <2> QED
    BY <1>1, <2>1, WFMin
<1>3. PICK x \in T : \A y \in T : ~(<<y, x>> \in R)
  BY <1>2
<1>4. x - 1 \in T /\ <<x - 1, x>> \in R
  BY DEF OpToRel
<1> QED
  BY <1>3, <1>4

\* The largest element of a set that reaches m + 1, and of the first m numbers.
LEMMA MaxIs ==
  ASSUME NEW m \in Nat
  PROVE  /\ \A s \in SUBSET (1 .. m + 1) : m + 1 \in s => Max(s) = m + 1
         /\ m # 0 => Max(1 .. m) = m
<1>1. ASSUME NEW s \in SUBSET (1 .. m + 1), m + 1 \in s
      PROVE  Max(s) = m + 1
  <2>1. \A y \in s : m + 1 >= y
    OBVIOUS
  <2>2. Max(s) \in s /\ \A y \in s : Max(s) >= y
    BY <1>1, <2>1 DEF Max
  <2>3. Max(s) \in 1 .. m + 1 /\ Max(s) >= m + 1
    BY <1>1, <2>2
  <2> QED
    BY <2>3
<1>2. ASSUME m # 0 PROVE Max(1 .. m) = m
  <2>1. m \in 1 .. m /\ \A y \in 1 .. m : m >= y
    BY <1>2
  <2>2. Max(1 .. m) \in 1 .. m /\ \A y \in 1 .. m : Max(1 .. m) >= y
    BY <2>1 DEF Max
  <2> QED
    BY <2>1, <2>2
<1> QED
  BY <1>1, <1>2

\* f folds the step G over every set of positions up to n, from the largest.
Folds(f, n, base, G) ==
  \A s \in SUBSET (1 .. n) :
    f[s] = IF s = {} THEN base ELSE G[<<f[s \ {Max(s)}], Max(s)>>]

\* What folds over the first m positions can be extended to the next one.
LEMMA FoldGrows ==
  ASSUME NEW n \in Nat, NEW A, NEW base \in A, NEW G \in [A \X (1 .. n) -> A],
         NEW m \in Nat, m + 1 <= n,
         NEW f \in [SUBSET (1 .. m) -> A], Folds(f, m, base, G)
  PROVE  \E g \in [SUBSET (1 .. m + 1) -> A] : Folds(g, m + 1, base, G)
<1> DEFINE g == [s \in SUBSET (1 .. m + 1) |->
                   IF m + 1 \in s THEN G[<<f[s \ {m + 1}], m + 1>>] ELSE f[s]]
<1>1. ASSUME NEW s \in SUBSET (1 .. m + 1)
      PROVE  /\ m + 1 \in s => s \ {m + 1} \in SUBSET (1 .. m)
             /\ m + 1 \notin s => s \in SUBSET (1 .. m)
  OBVIOUS
<1>2. g \in [SUBSET (1 .. m + 1) -> A]
  <2>1. ASSUME NEW s \in SUBSET (1 .. m + 1)
        PROVE  (IF m + 1 \in s THEN G[<<f[s \ {m + 1}], m + 1>>] ELSE f[s]) \in A
    <3>1. CASE m + 1 \in s
      <4>1. f[s \ {m + 1}] \in A /\ m + 1 \in 1 .. n
        BY <1>1, <3>1
      <4> QED
        BY <3>1, <4>1
    <3>2. CASE m + 1 \notin s
      BY <1>1, <3>2
    <3> QED
      BY <3>1, <3>2
  <2> QED
    BY <2>1
<1>3. ASSUME NEW s \in SUBSET (1 .. m + 1)
      PROVE  g[s] = IF s = {} THEN base ELSE G[<<g[s \ {Max(s)}], Max(s)>>]
  <2>1. CASE m + 1 \in s
    <3>1. Max(s) = m + 1
      BY <2>1, MaxIs
    <3>2. s \ {m + 1} \in SUBSET (1 .. m + 1) /\ m + 1 \notin s \ {m + 1}
      OBVIOUS
    <3>3. g[s \ {m + 1}] = f[s \ {m + 1}]
      BY <3>2
    <3> QED
      BY <2>1, <3>1, <3>3
  <2>2. CASE m + 1 \notin s
    <3>1. s \in SUBSET (1 .. m)
      BY <1>1, <2>2
    <3>2. g[s] = f[s] /\ g[s \ {Max(s)}] = f[s \ {Max(s)}]
      BY <2>2
    <3> HIDE DEF g
    <3> QED
      BY <3>1, <3>2 DEF Folds
  <2> QED
    BY <2>1, <2>2
<1> HIDE DEF g
<1>4. Folds(g, m + 1, base, G)
  BY <1>3 DEF Folds
<1> QED
  BY <1>2, <1>4

CanFold(n, A, base, G) ==
  \E f \in [SUBSET (1 .. n) -> A] : Folds(f, n, base, G)

\* The recursive function in the library's definition of a fold exists.
LEMMA FoldExists ==
  ASSUME NEW n \in Nat, NEW A, NEW base \in A, NEW G \in [A \X (1 .. n) -> A]
  PROVE  CanFold(n, A, base, G)
<1> DEFINE I == {m \in Nat : m <= n => CanFold(m, A, base, G)}
<1>1. CanFold(0, A, base, G)
  <2>1. \A s \in SUBSET (1 .. 0) : s = {}
    OBVIOUS
  <2> DEFINE f == [s \in SUBSET (1 .. 0) |-> base]
  <2>2. f \in [SUBSET (1 .. 0) -> A] /\ \A s \in SUBSET (1 .. 0) : f[s] = base
    OBVIOUS
  <2> HIDE DEF f
  <2>3. Folds(f, 0, base, G)
    BY <2>1, <2>2 DEF Folds
  <2> QED
    BY <2>2, <2>3 DEF CanFold
<1>2. ASSUME NEW m \in Nat, m + 1 <= n, CanFold(m, A, base, G)
      PROVE  CanFold(m + 1, A, base, G)
  <2>1. PICK f \in [SUBSET (1 .. m) -> A] : Folds(f, m, base, G)
    BY <1>2 DEF CanFold
  <2> QED
    BY <1>2, <2>1, FoldGrows DEF CanFold
<1>3. 0 \in I /\ \A m \in Nat : m \in I => m + 1 \in I
  BY <1>1, <1>2
<1>4. \A m \in Nat : m \in I
  <2> HIDE DEF I
  <2> QED
    BY <1>3, SetInduction
<1> QED
  BY <1>4

\* The set the library's definition folds over, from its largest element down.
LEMMA FoldedSets ==
  ASSUME NEW n \in Nat
  PROVE  /\ {} \in SUBSET (1 .. n)
         /\ \A i \in 1 .. n : /\ 1 .. i \in SUBSET (1 .. n) /\ 1 .. i # {}
                              /\ Max(1 .. i) = i
                              /\ (1 .. i) \ {i} = 1 .. i - 1
         /\ \A s \in SUBSET (1 .. n) : s # {} => Max(s) \in 1 .. n
<1>1. ASSUME NEW i \in 1 .. n
      PROVE  /\ 1 .. i \in SUBSET (1 .. n) /\ 1 .. i # {}
             /\ Max(1 .. i) = i
             /\ (1 .. i) \ {i} = 1 .. i - 1
  <2>1. Max(1 .. i) = i
    BY MaxIs
  <2>2. (1 .. i) \ {i} = 1 .. i - 1
    OBVIOUS
  <2>3. 1 .. i \in SUBSET (1 .. n) /\ i \in 1 .. i
    OBVIOUS
  <2> QED
    BY <2>1, <2>2, <2>3
<1> DEFINE I == {m \in Nat : \A s \in SUBSET (1 .. m) : s # {} => Max(s) \in 1 .. m}
<1>2. 0 \in I
  <2>1. \A s \in SUBSET (1 .. 0) : s = {}
    OBVIOUS
  <2> QED
    BY <2>1
<1>3. ASSUME NEW m \in Nat, m \in I PROVE m + 1 \in I
  <2> SUFFICES ASSUME NEW s \in SUBSET (1 .. m + 1), s # {}
               PROVE  Max(s) \in 1 .. m + 1
    OBVIOUS
  <2>1. CASE m + 1 \in s
    BY <2>1, MaxIs
  <2>2. CASE m + 1 \notin s
    <3>1. s \in SUBSET (1 .. m)
      BY <2>2
    <3> QED
      BY <3>1, <1>3
  <2> QED
    BY <2>1, <2>2
<1>4. \A m \in Nat : m \in I
  <2> HIDE DEF I
  <2> QED
    BY <1>2, <1>3, SetInduction
<1>5. n \in I
  <2> HIDE DEF I
  <2> QED
    BY <1>4
<1>6. \A s \in SUBSET (1 .. n) : s # {} => Max(s) \in 1 .. n
  BY <1>5
<1> HIDE DEF I
<1> QED
  BY <1>1, <1>6

-----------------------------------------------------------------------------
(* One batch                                                               *)

Lists == Seq(Command)

FinishStates ==
  [ enc : [Encoders -> Encoder],
    buffers : Seq([valid : BOOLEAN, commands : Lists]) ]

QueueStates == [ enc : [Encoders -> Encoder], gpu : Seq(Lists) ]

\* Command buffers that have been recorded and not submitted.
HasEncoder == {c \in Cmds : wgpu_encoder[c] \in Encoders}

\* What WebGPU makes of an encoder.
LEMMA FinishedType ==
  ASSUME NEW enc \in Encoder
  PROVE  /\ Finished(enc) \in Encoder
         /\ FinishedBuffer(enc) \in [valid : BOOLEAN, commands : Lists]
  BY DEF Finished, FinishedBuffer, Invalidated, Encoder, Lists

LEMMA FinishOneType ==
  ASSUME NEW s \in FinishStates, NEW c \in HasEncoder
  PROVE  FinishOne(s, c) \in FinishStates
<1> DEFINE e == wgpu_encoder[c]
           b == FinishedBuffer(s.enc[e])
           B == [valid : BOOLEAN, commands : Lists]
<1>1. e \in Encoders /\ s.enc \in [Encoders -> Encoder] /\ s.buffers \in Seq(B)
  BY DEF HasEncoder, FinishStates
<1>2. Finished(s.enc[e]) \in Encoder /\ b \in B
  BY <1>1, FinishedType
<1>3. [s.enc EXCEPT ![e] = Finished(@)] \in [Encoders -> Encoder]
  BY <1>1, <1>2
<1> HIDE DEF b, B
<1>4. Append(s.buffers, b) \in Seq(B)
  BY <1>1, <1>2
<1> QED
  BY <1>3, <1>4 DEF FinishOne, FinishStates, b, B

\* The loop over a batch: one FinishOne for each of its command buffers.
LEMMA FinishLoop ==
  ASSUME NEW q \in Seq(HasEncoder), NEW base \in FinishStates
  PROVE  \E r : /\ r[0] = base
                /\ \A i \in 1 .. Len(q) : r[i] = FinishOne(r[i - 1], q[i])
                /\ FoldLeft(FinishOne, base, q) = r[Len(q)]
<1> DEFINE n == Len(q)
           G == [p \in FinishStates \X (1 .. n) |-> FinishOne(p[1], q[p[2]])]
           it == CHOOSE iter : iter =
                   [t \in SUBSET DOMAIN q |->
                      IF t = {} THEN base
                      ELSE FinishOne(iter[t \ {Max(t)}], q[Max(t)])]
           r == [i \in 0 .. n |-> it[1 .. i]]
<1>1. n \in Nat /\ DOMAIN q = 1 .. n /\ \A i \in 1 .. n : q[i] \in HasEncoder
  OBVIOUS
<1>2. FoldLeft(FinishOne, base, q) = it[DOMAIN q]
  BY DEF FoldLeft, MapThenFoldSet
<1> HIDE DEF n
<1>3. G \in [FinishStates \X (1 .. n) -> FinishStates]
  BY <1>1, FinishOneType
<1>4. PICK f \in [SUBSET (1 .. n) -> FinishStates] : Folds(f, n, base, G)
  <2> HIDE DEF G
  <2> QED
    BY <1>1, <1>3, FoldExists DEF CanFold
<1>5. f = [t \in SUBSET DOMAIN q |->
             IF t = {} THEN base
             ELSE FinishOne(f[t \ {Max(t)}], q[Max(t)])]
  <2>1. ASSUME NEW t \in SUBSET (1 .. n)
        PROVE  f[t] = IF t = {} THEN base
                      ELSE FinishOne(f[t \ {Max(t)}], q[Max(t)])
    <3>1. t \ {Max(t)} \in SUBSET (1 .. n)
      OBVIOUS
    <3>2. f[t \ {Max(t)}] \in FinishStates
      BY <3>1, <1>4
    <3>3. t # {} => Max(t) \in 1 .. n
      BY <1>1, FoldedSets
    <3>4. t # {} => G[<<f[t \ {Max(t)}], Max(t)>>]
                      = FinishOne(f[t \ {Max(t)}], q[Max(t)])
      BY <3>2, <3>3
    <3> HIDE DEF G
    <3> QED
      BY <1>4, <3>4 DEF Folds
  <2> HIDE DEF G
  <2> QED
    BY <1>1, <1>4, <2>1
<1>6. it = [t \in SUBSET DOMAIN q |->
              IF t = {} THEN base
              ELSE FinishOne(it[t \ {Max(t)}], q[Max(t)])]
  <2> HIDE DEF G
  <2> QED
    BY <1>5
<1> HIDE DEF it, G
<1>7. r[0] = base
  <2>1. 1 .. 0 = {} /\ {} \in SUBSET DOMAIN q
    OBVIOUS
  <2>2. it[1 .. 0] = base
    BY <1>6, <2>1
  <2> QED
    BY <1>1, <2>2
<1>8. ASSUME NEW i \in 1 .. n
      PROVE  r[i] = FinishOne(r[i - 1], q[i])
  <2>1. /\ 1 .. i \in SUBSET DOMAIN q /\ 1 .. i # {}
        /\ Max(1 .. i) = i /\ (1 .. i) \ {i} = 1 .. i - 1
    BY <1>1, FoldedSets
  <2>2. it[1 .. i] = FinishOne(it[1 .. i - 1], q[i])
    BY <1>6, <2>1
  <2>3. i \in 0 .. n /\ i - 1 \in 0 .. n
    BY <1>1
  <2> QED
    BY <2>2, <2>3
<1>9. r[n] = it[DOMAIN q]
  BY <1>1
<1> HIDE DEF r
<1> QED
  BY <1>2, <1>7, <1>8, <1>9 DEF n

\* Command buffers waiting to be submitted.
Pending ==
  {c \in Cmds : /\ ~recording[c] /\ wgpu_encoder[c] \in Encoders
                /\ encoder[wgpu_encoder[c]].status = "open"}

\* The encoders once those of the command buffers in D are finished.
DoneFor(D) ==
  [e \in Encoders |-> IF \E c \in D : wgpu_encoder[c] = e
                      THEN Finished(encoder[e]) ELSE encoder[e]]

\* The first i elements of a sequence.
FirstOf(q, i) == {q[j] : j \in 1 .. i}

IntendedOf(q) == [i \in DOMAIN q |-> intended[q[i]]]

\* A pending command buffer finishes into a valid list of what was recorded.
LEMMA PendingBuffer ==
  ASSUME Recording, NothingDropped, NEW c \in Pending
  PROVE  /\ FinishedBuffer(encoder[wgpu_encoder[c]])
              = [valid |-> TRUE, commands |-> intended[c]]
         /\ \A d \in Cmds \ {c} : wgpu_encoder[d] # wgpu_encoder[c]
         /\ c \in HasEncoder
<1>1. /\ c \in Cmds /\ wgpu_encoder[c] \in Encoders /\ wgpu_encoder[c] # NULL
      /\ encoder[wgpu_encoder[c]].status = "open"
  BY NullAssumption DEF Pending
<1>2. /\ encoder[wgpu_encoder[c]].valid
      /\ encoder[wgpu_encoder[c]].commands = intended[c]
  BY <1>1 DEF Recording, NeverRejected, Faithful, Recorded
<1>3. encoder[wgpu_encoder[c]] \in Encoder
  BY <1>1 DEF Recording, Structure, TypeOK
<1>4. \A d \in Cmds \ {c} : wgpu_encoder[d] # wgpu_encoder[c]
  BY <1>1 DEF Recording, Structure, EncodersHeld
<1> QED
  BY <1>1, <1>2, <1>3, <1>4 DEF FinishedBuffer, Encoder, HasEncoder

\* One turn of the loop over a batch.
LEMMA FinishNext ==
  ASSUME Recording, NothingDropped, NEW D \in SUBSET Cmds,
         NEW c \in Pending, c \notin D, NEW s, s.enc = DoneFor(D)
  PROVE  FinishOne(s, c) =
           [enc |-> DoneFor(D \cup {c}),
            buffers |-> Append(s.buffers,
                               [valid |-> TRUE, commands |-> intended[c]])]
<1> DEFINE e == wgpu_encoder[c]
<1>1. /\ c \in Cmds /\ e \in Encoders
      /\ FinishedBuffer(encoder[e]) = [valid |-> TRUE, commands |-> intended[c]]
      /\ \A d \in Cmds \ {c} : wgpu_encoder[d] # e
  BY PendingBuffer DEF HasEncoder
<1> HIDE DEF e
<1>2. s.enc[e] = encoder[e]
  BY <1>1 DEF DoneFor
<1>3. [s.enc EXCEPT ![e] = Finished(@)] = DoneFor(D \cup {c})
  <2>1. [DoneFor(D) EXCEPT ![e] = Finished(@)]
          = [f \in Encoders |-> IF f = e THEN Finished(DoneFor(D)[e])
                                ELSE DoneFor(D)[f]]
    BY DEF DoneFor
  <2>2. DoneFor(D)[e] = encoder[e]
    BY <1>2
  <2>3. \A f \in Encoders :
          (IF f = e THEN Finished(encoder[e]) ELSE DoneFor(D)[f])
            = DoneFor(D \cup {c})[f]
    BY <1>1 DEF DoneFor, e
  <2>4. DoneFor(D \cup {c}) = [f \in Encoders |-> DoneFor(D \cup {c})[f]]
    BY DEF DoneFor
  <2> QED
    BY <2>1, <2>2, <2>3, <2>4
<1> QED
  BY <1>1, <1>2, <1>3 DEF FinishOne, e

\* Appending the next value of h to the sequence of its first i values.
LEMMA AppendNext ==
  ASSUME NEW n \in Nat, NEW S, NEW h \in [1 .. n -> S], NEW i \in Nat, i + 1 <= n
  PROVE  Append([j \in 1 .. i |-> h[j]], h[i + 1]) = [j \in 1 .. i + 1 |-> h[j]]
<1>1. [j \in 1 .. i |-> h[j]] \in Seq(S) /\ Len([j \in 1 .. i |-> h[j]]) = i
  OBVIOUS
<1> QED
  BY <1>1

\* The loop over a batch of pending command buffers, none of them twice and
\* none of them in D.
LEMMA FinishAll ==
  ASSUME Recording, NothingDropped, NEW D \in SUBSET Cmds,
         NEW q \in Seq(Pending), IsInjective(q), \A i \in DOMAIN q : q[i] \notin D
  PROVE  FoldLeft(FinishOne, [enc |-> DoneFor(D), buffers |-> << >>], q) =
           [enc |-> DoneFor(D \cup FirstOf(q, Len(q))),
            buffers |-> [j \in 1 .. Len(q) |->
                           [valid |-> TRUE, commands |-> intended[q[j]]]]]
<1> DEFINE n == Len(q)
           B == [valid : BOOLEAN, commands : Lists]
           h == [j \in 1 .. n |-> [valid |-> TRUE, commands |-> intended[q[j]]]]
           base == [enc |-> DoneFor(D), buffers |-> << >>]
           At(i) == [enc |-> DoneFor(D \cup FirstOf(q, i)),
                     buffers |-> [j \in 1 .. i |-> h[j]]]
<1>1. /\ n \in Nat /\ DOMAIN q = 1 .. n
      /\ \A i \in 1 .. n : q[i] \in Pending /\ q[i] \in Cmds
  BY DEF Pending
<1>2. q \in Seq(HasEncoder)
  BY DEF Pending, HasEncoder
<1>3. encoder \in [Encoders -> Encoder] /\ intended \in [Cmds -> Lists]
  BY DEF Recording, Structure, TypeOK, Lists
<1>4. base \in FinishStates
  <2>1. DoneFor(D) \in [Encoders -> Encoder]
    BY <1>3, FinishedType DEF DoneFor
  <2> QED
    BY <2>1 DEF FinishStates
<1>5. h \in [1 .. n -> B]
  BY <1>1, <1>3
<1> HIDE DEF B, base
<1>6. PICK r : /\ r[0] = base
               /\ \A i \in 1 .. n : r[i] = FinishOne(r[i - 1], q[i])
               /\ FoldLeft(FinishOne, base, q) = r[n]
  BY <1>2, <1>4, FinishLoop
<1> DEFINE I == {i \in Nat : i <= n => r[i] = At(i)}
<1>7. r[0] = At(0)
  <2>1. D \cup FirstOf(q, 0) = D
    BY DEF FirstOf
  <2>2. [j \in 1 .. 0 |-> h[j]] = << >>
    OBVIOUS
  <2> HIDE DEF h
  <2> QED
    BY <1>6, <2>1, <2>2 DEF base
<1>8. ASSUME NEW i \in Nat, i + 1 <= n, r[i] = At(i)
      PROVE  r[i + 1] = At(i + 1)
  <2> DEFINE E == D \cup FirstOf(q, i)
             c == q[i + 1]
  <2>1. i + 1 \in 1 .. n /\ (i + 1) - 1 = i
    BY <1>1, <1>8
  <2>2. r[i + 1] = FinishOne(r[i], c)
    BY <1>6, <2>1
  <2>3. c \in Pending /\ E \in SUBSET Cmds /\ E \cup {c} = D \cup FirstOf(q, i + 1)
    BY <1>1, <2>1 DEF FirstOf
  <2>4. c \notin E
    <3>1. \A j \in 1 .. i : q[j] # c
      BY <1>1, <2>1 DEF IsInjective
    <3> QED
      BY <1>1, <2>1, <3>1 DEF FirstOf
  <2>5. r[i].enc = DoneFor(E) /\ r[i].buffers = [j \in 1 .. i |-> h[j]]
    BY <1>8
  <2>6. h[i + 1] = [valid |-> TRUE, commands |-> intended[c]]
    BY <2>1
  <2> HIDE DEF E, c, h
  <2>7. FinishOne(r[i], c) =
          [enc |-> DoneFor(E \cup {c}),
           buffers |-> Append([j \in 1 .. i |-> h[j]], h[i + 1])]
    <3> DEFINE t == r[i]
    <3>1. t.enc = DoneFor(E)
      BY <2>5
    <3> HIDE DEF t
    <3>2. FinishOne(t, c) =
            [enc |-> DoneFor(E \cup {c}),
             buffers |-> Append(t.buffers,
                                [valid |-> TRUE, commands |-> intended[c]])]
      BY <2>3, <2>4, <3>1, FinishNext
    <3> QED
      BY <2>5, <2>6, <3>2 DEF t
  <2>8. Append([j \in 1 .. i |-> h[j]], h[i + 1]) = [j \in 1 .. i + 1 |-> h[j]]
    BY <1>1, <1>5, <1>8, AppendNext
  <2> QED
    BY <2>2, <2>3, <2>7, <2>8
<1> HIDE DEF h, At
<1>9. r[n] = At(n)
  <2>1. 0 \in I /\ \A i \in Nat : i \in I => i + 1 \in I
    BY <1>1, <1>7, <1>8
  <2>2. \A i \in Nat : i \in I
    <3> HIDE DEF I
    <3> QED
      BY <2>1, SetInduction
  <2> QED
    BY <1>1, <2>2
<1>10. [j \in 1 .. n |-> h[j]] = h
  BY <1>5
<1> QED
  BY <1>6, <1>9, <1>10 DEF At, h, base

\* A batch of pending command buffers is accepted: their lists enter the queue
\* in the order of the batch.
LEMMA BatchAccepted ==
  ASSUME Recording, NothingDropped, NEW D \in SUBSET Cmds,
         NEW q \in Seq(Pending), IsInjective(q), \A i \in DOMAIN q : q[i] \notin D,
         NEW g, NEW s, s = [enc |-> DoneFor(D), gpu |-> g]
  PROVE  SubmitBatch(s, q) = [enc |-> DoneFor(D \cup FirstOf(q, Len(q))),
                              gpu |-> g \o IntendedOf(q)]
<1> DEFINE done == FoldLeft(FinishOne, [enc |-> s.enc, buffers |-> << >>], q)
           h == [j \in 1 .. Len(q) |->
                   [valid |-> TRUE, commands |-> intended[q[j]]]]
<1>1. s.enc = DoneFor(D) /\ s.gpu = g
  OBVIOUS
<1>2. done.enc = DoneFor(D \cup FirstOf(q, Len(q))) /\ done.buffers = h
  <2>1. done = FoldLeft(FinishOne, [enc |-> DoneFor(D), buffers |-> << >>], q)
    BY <1>1, Zenon
  <2>2. done = [enc |-> DoneFor(D \cup FirstOf(q, Len(q))), buffers |-> h]
    <3> HIDE DEF done
    <3> QED
      BY <2>1, FinishAll
  <2> HIDE DEF done, h
  <2> QED
    BY <2>2
<1> HIDE DEF done
<1>3. \A i \in DOMAIN done.buffers : done.buffers[i].valid
  BY <1>2
<1>4. [i \in DOMAIN done.buffers |-> done.buffers[i].commands] = IntendedOf(q)
  <2>1. DOMAIN h = DOMAIN q /\ \A i \in DOMAIN q : h[i].commands = intended[q[i]]
    OBVIOUS
  <2> HIDE DEF h
  <2> QED
    BY <1>2, <2>1 DEF IntendedOf
<1> QED
  BY <1>1, <1>2, <1>3, <1>4 DEF SubmitBatch, done

-----------------------------------------------------------------------------
(* One submission                                                          *)

\* What the loop over a batch does to well-formed states.
LEMMA SubmitBatchType ==
  ASSUME NEW s \in QueueStates, NEW q \in Seq(HasEncoder)
  PROVE  SubmitBatch(s, q) \in QueueStates
<1> DEFINE base == [enc |-> s.enc, buffers |-> << >>]
           done == FoldLeft(FinishOne, base, q)
           n == Len(q)
           B == [valid : BOOLEAN, commands : Lists]
<1>1. base \in FinishStates /\ s.gpu \in Seq(Lists)
  BY DEF FinishStates, QueueStates
<1>2. n \in Nat /\ \A i \in 1 .. n : q[i] \in HasEncoder
  OBVIOUS
<1> HIDE DEF base
<1>3. PICK r : /\ r[0] = base
               /\ \A i \in 1 .. n : r[i] = FinishOne(r[i - 1], q[i])
               /\ done = r[n]
  BY <1>1, FinishLoop
<1> HIDE DEF done, n
<1> DEFINE I == {i \in Nat : i <= n => r[i] \in FinishStates}
<1>4. 0 \in I
  BY <1>1, <1>3
<1>5. ASSUME NEW i \in Nat, i \in I PROVE i + 1 \in I
  <2> SUFFICES ASSUME i + 1 <= n PROVE r[i + 1] \in FinishStates
    OBVIOUS
  <2>1. i + 1 \in 1 .. n /\ (i + 1) - 1 = i
    BY <1>2
  <2>2. r[i] \in FinishStates
    BY <1>2, <1>5
  <2> QED
    BY <1>2, <1>3, <2>1, <2>2, FinishOneType
<1>6. \A i \in Nat : i \in I
  <2> HIDE DEF I
  <2> QED
    BY <1>4, <1>5, SetInduction
<1>7. done \in FinishStates
  BY <1>2, <1>3, <1>6
<1>8. done.enc \in [Encoders -> Encoder] /\ done.buffers \in Seq(B)
  BY <1>7 DEF FinishStates
<1>9. [i \in DOMAIN done.buffers |-> done.buffers[i].commands] \in Seq(Lists)
  <2> DEFINE b == done.buffers
  <2> HIDE DEF B
  <2>0. b \in Seq(B)
    BY <1>8
  <2> HIDE DEF b
  <2>1. DOMAIN b = 1 .. Len(b) /\ Len(b) \in Nat /\ \A i \in 1 .. Len(b) : b[i] \in B
    BY <2>0
  <2>2. \A i \in 1 .. Len(b) : b[i].commands \in Lists
    BY <2>1 DEF B
  <2>3. [i \in 1 .. Len(b) |-> b[i].commands] \in Seq(Lists)
    BY <2>1, <2>2
  <2> QED
    BY <2>1, <2>3 DEF b
<1>10. SubmitBatch(s, q) =
         [enc |-> done.enc,
          gpu |-> IF \A i \in DOMAIN done.buffers : done.buffers[i].valid
                  THEN s.gpu \o [i \in DOMAIN done.buffers |->
                                   done.buffers[i].commands]
                  ELSE s.gpu]
  BY DEF SubmitBatch, done, base
<1> QED
  BY <1>1, <1>8, <1>9, <1>10 DEF QueueStates

\* The loop over the batches of a submission.
LEMMA SubmitLoop ==
  ASSUME NEW q \in Seq(Seq(HasEncoder)), NEW base \in QueueStates
  PROVE  \E r : /\ r[0] = base
                /\ \A i \in 1 .. Len(q) : r[i] = SubmitBatch(r[i - 1], q[i])
                /\ FoldLeft(SubmitBatch, base, q) = r[Len(q)]
<1> DEFINE n == Len(q)
           G == [p \in QueueStates \X (1 .. n) |-> SubmitBatch(p[1], q[p[2]])]
           it == CHOOSE iter : iter =
                   [t \in SUBSET DOMAIN q |->
                      IF t = {} THEN base
                      ELSE SubmitBatch(iter[t \ {Max(t)}], q[Max(t)])]
           r == [i \in 0 .. n |-> it[1 .. i]]
<1>1. n \in Nat /\ DOMAIN q = 1 .. n /\ \A i \in 1 .. n : q[i] \in Seq(HasEncoder)
  OBVIOUS
<1>2. FoldLeft(SubmitBatch, base, q) = it[DOMAIN q]
  BY DEF FoldLeft, MapThenFoldSet
<1> HIDE DEF n
<1>3. G \in [QueueStates \X (1 .. n) -> QueueStates]
  BY <1>1, SubmitBatchType
<1>4. PICK f \in [SUBSET (1 .. n) -> QueueStates] : Folds(f, n, base, G)
  <2> HIDE DEF G
  <2> QED
    BY <1>1, <1>3, FoldExists DEF CanFold
<1>5. f = [t \in SUBSET DOMAIN q |->
             IF t = {} THEN base
             ELSE SubmitBatch(f[t \ {Max(t)}], q[Max(t)])]
  <2>1. ASSUME NEW t \in SUBSET (1 .. n)
        PROVE  f[t] = IF t = {} THEN base
                      ELSE SubmitBatch(f[t \ {Max(t)}], q[Max(t)])
    <3>1. t \ {Max(t)} \in SUBSET (1 .. n)
      OBVIOUS
    <3>2. f[t \ {Max(t)}] \in QueueStates
      BY <3>1, <1>4
    <3>3. t # {} => Max(t) \in 1 .. n
      BY <1>1, FoldedSets
    <3>4. t # {} => G[<<f[t \ {Max(t)}], Max(t)>>]
                      = SubmitBatch(f[t \ {Max(t)}], q[Max(t)])
      BY <3>2, <3>3
    <3> HIDE DEF G
    <3> QED
      BY <1>4, <3>4 DEF Folds
  <2> HIDE DEF G
  <2> QED
    BY <1>1, <1>4, <2>1
<1>6. it = [t \in SUBSET DOMAIN q |->
              IF t = {} THEN base
              ELSE SubmitBatch(it[t \ {Max(t)}], q[Max(t)])]
  <2> HIDE DEF G
  <2> QED
    BY <1>5
<1> HIDE DEF it, G
<1>7. r[0] = base
  <2>1. 1 .. 0 = {} /\ {} \in SUBSET DOMAIN q
    OBVIOUS
  <2>2. it[1 .. 0] = base
    BY <1>6, <2>1
  <2> QED
    BY <1>1, <2>2
<1>8. ASSUME NEW i \in 1 .. n
      PROVE  r[i] = SubmitBatch(r[i - 1], q[i])
  <2>1. /\ 1 .. i \in SUBSET DOMAIN q /\ 1 .. i # {}
        /\ Max(1 .. i) = i /\ (1 .. i) \ {i} = 1 .. i - 1
    BY <1>1, FoldedSets
  <2>2. it[1 .. i] = SubmitBatch(it[1 .. i - 1], q[i])
    BY <1>6, <2>1
  <2>3. i \in 0 .. n /\ i - 1 \in 0 .. n
    BY <1>1
  <2> QED
    BY <2>2, <2>3
<1>9. r[n] = it[DOMAIN q]
  BY <1>1
<1> HIDE DEF r
<1> QED
  BY <1>2, <1>7, <1>8, <1>9 DEF n

\* Flattening a sequence of sequences appends them one by one.
LEMMA FlattenLoop ==
  ASSUME NEW S, NEW q \in Seq(Seq(S))
  PROVE  \E r : /\ r[0] = << >>
                /\ \A i \in 1 .. Len(q) : r[i] = r[i - 1] \o q[i]
                /\ \A i \in 0 .. Len(q) : r[i] \in Seq(S)
                /\ FlattenSeq(q) = r[Len(q)]
<1> DEFINE n == Len(q)
           G == [p \in Seq(S) \X (1 .. n) |-> p[1] \o q[p[2]]]
           it == CHOOSE flatten : flatten =
                   [i \in 1 .. n |->
                      IF i = 1 THEN q[i] ELSE flatten[i - 1] \o q[i]]
           r == [i \in 0 .. n |-> IF i = 0 THEN << >> ELSE it[i]]
<1>1. n \in Nat /\ DOMAIN q = 1 .. n /\ \A i \in 1 .. n : q[i] \in Seq(S)
  OBVIOUS
<1>2. FlattenSeq(q) = IF n = 0 THEN q ELSE it[n]
  BY DEF FlattenSeq
<1> HIDE DEF n
<1>3. G \in [Seq(S) \X (1 .. n) -> Seq(S)] /\ << >> \in Seq(S)
  BY <1>1
<1>4. PICK f \in [SUBSET (1 .. n) -> Seq(S)] : Folds(f, n, << >>, G)
  <2> HIDE DEF G
  <2> QED
    BY <1>1, <1>3, FoldExists DEF CanFold
<1> DEFINE g == [i \in 1 .. n |-> f[1 .. i]]
<1>5. g = [i \in 1 .. n |-> IF i = 1 THEN q[i] ELSE g[i - 1] \o q[i]]
  <2>1. ASSUME NEW i \in 1 .. n
        PROVE  f[1 .. i] = IF i = 1 THEN q[i] ELSE f[1 .. i - 1] \o q[i]
    <3>1. /\ 1 .. i \in SUBSET (1 .. n) /\ 1 .. i # {}
          /\ Max(1 .. i) = i /\ (1 .. i) \ {i} = 1 .. i - 1
          /\ {} \in SUBSET (1 .. n)
      BY <1>1, FoldedSets
    <3>2. 1 .. i - 1 \in SUBSET (1 .. n)
      BY <1>1
    <3>3. f[1 .. i] = G[<<f[1 .. i - 1], i>>]
      <4> HIDE DEF G
      <4> QED
        BY <1>4, <3>1 DEF Folds
    <3>4. f[1 .. i - 1] \in Seq(S)
      BY <1>4, <3>2
    <3>5. f[1 .. i] = f[1 .. i - 1] \o q[i]
      BY <3>3, <3>4
    <3>6. i = 1 => f[1 .. i - 1] = << >>
      <4>1. i = 1 => 1 .. i - 1 = {}
        OBVIOUS
      <4>2. f[{}] = << >>
        BY <1>4, <3>1 DEF Folds
      <4> QED
        BY <4>1, <4>2
    <3>7. << >> \o q[i] = q[i]
      BY <1>1
    <3> QED
      BY <3>5, <3>6, <3>7
  <2>2. \A i \in 1 .. n : i # 1 => i - 1 \in 1 .. n
    BY <1>1
  <2> QED
    BY <2>1, <2>2
<1>6. it = [i \in 1 .. n |-> IF i = 1 THEN q[i] ELSE it[i - 1] \o q[i]]
  <2> HIDE DEF g
  <2> QED
    BY <1>5
<1> HIDE DEF it, G, g
<1>7. r[0] = << >>
  BY <1>1
<1>8. ASSUME NEW i \in 1 .. n
      PROVE  r[i] = r[i - 1] \o q[i]
  <2>1. it[i] = IF i = 1 THEN q[i] ELSE it[i - 1] \o q[i]
    BY <1>6
  <2>2. << >> \o q[i] = q[i]
    BY <1>1
  <2>3. /\ i \in 0 .. n /\ i - 1 \in 0 .. n /\ i # 0
        /\ i = 1 <=> i - 1 = 0
    BY <1>1
  <2>4. r[i] = it[i]
    BY <2>3
  <2>5. r[i - 1] = IF i - 1 = 0 THEN << >> ELSE it[i - 1]
    BY <2>3
  <2> HIDE DEF r
  <2>6. CASE i = 1
    BY <2>1, <2>2, <2>3, <2>4, <2>5, <2>6
  <2>7. CASE i # 1
    BY <2>1, <2>3, <2>4, <2>5, <2>7
  <2> QED
    BY <2>6, <2>7
<1>9. FlattenSeq(q) = r[n]
  <2>1. n = 0 => q = << >>
    BY DEF n
  <2> QED
    BY <1>1, <1>2, <2>1
<1> HIDE DEF r
<1> DEFINE I == {i \in Nat : i <= n => r[i] \in Seq(S)}
<1>10. 0 \in I
  <2>1. << >> \in Seq(S)
    OBVIOUS
  <2> QED
    BY <1>7, <2>1
<1>11. ASSUME NEW i \in Nat, i \in I PROVE i + 1 \in I
  <2> SUFFICES ASSUME i + 1 <= n PROVE r[i + 1] \in Seq(S)
    OBVIOUS
  <2>1. i + 1 \in 1 .. n /\ (i + 1) - 1 = i
    BY <1>1
  <2>2. r[i] \in Seq(S)
    BY <1>1, <1>11
  <2>3. r[i + 1] = r[i] \o q[i + 1]
    BY <1>8, <2>1
  <2> QED
    BY <1>1, <2>1, <2>2, <2>3
<1>12. \A i \in Nat : i \in I
  <2> HIDE DEF I
  <2> QED
    BY <1>10, <1>11, SetInduction
<1>13. \A i \in 0 .. n : r[i] \in Seq(S)
  BY <1>1, <1>12
<1> QED
  BY <1>7, <1>8, <1>9, <1>13 DEF n


\* Command buffers that can be handed to the queue together.
Ready(q) == IsInjective(q) /\ \A i \in DOMAIN q : q[i] \in Pending

\* The parts of such a sequence are like it and have nothing in common.
LEMMA ReadyParts ==
  ASSUME NEW a \in Seq(Cmds), NEW b \in Seq(Cmds), Ready(a \o b)
  PROVE  /\ Ready(a) /\ Ready(b)
         /\ \A i \in DOMAIN b : b[i] \notin FirstOf(a, Len(a))
<1> DEFINE m == Len(a)
           n == Len(b)
           z == a \o b
<1>1. /\ m \in Nat /\ n \in Nat /\ DOMAIN a = 1 .. m /\ DOMAIN b = 1 .. n
      /\ DOMAIN z = 1 .. m + n
      /\ \A i \in 1 .. m : z[i] = a[i]
      /\ \A i \in 1 .. n : z[m + i] = b[i]
  OBVIOUS
<1>2. /\ \A i, j \in 1 .. m + n : z[i] = z[j] => i = j
      /\ \A i \in 1 .. m + n : z[i] \in Pending
  BY <1>1 DEF Ready, IsInjective
<1> HIDE DEF m, n, z
<1>3. /\ \A i \in 1 .. m : i \in 1 .. m + n
      /\ \A i \in 1 .. n : m + i \in 1 .. m + n
  BY <1>1
<1>4. Ready(a)
  BY <1>1, <1>2, <1>3 DEF Ready, IsInjective
<1>5. Ready(b)
  <2>1. ASSUME NEW i \in 1 .. n, NEW j \in 1 .. n, b[i] = b[j] PROVE i = j
    <3>1. m + i = m + j
      BY <1>1, <1>2, <1>3, <2>1
    <3> QED
      BY <1>1, <3>1
  <2>2. \A i \in 1 .. n : b[i] \in Pending
    BY <1>1, <1>2, <1>3
  <2> QED
    BY <1>1, <2>1, <2>2 DEF Ready, IsInjective
<1>6. ASSUME NEW i \in 1 .. n, NEW j \in 1 .. m PROVE b[i] # a[j]
  <2>1. m + i # j
    BY <1>1
  <2> QED
    BY <1>1, <1>2, <1>3, <2>1
<1> QED
  BY <1>1, <1>4, <1>5, <1>6 DEF FirstOf, m

LEMMA IntendedType ==
  ASSUME NEW q \in Seq(Cmds)
  PROVE  /\ IntendedOf(q) \in Seq({intended[c] : c \in Cmds})
         /\ Len(IntendedOf(q)) = Len(q)
         /\ \A i \in 1 .. Len(q) : IntendedOf(q)[i] = intended[q[i]]
<1> DEFINE n == Len(q)
           U == {intended[c] : c \in Cmds}
<1>1. n \in Nat /\ DOMAIN q = 1 .. n /\ \A i \in 1 .. n : intended[q[i]] \in U
  OBVIOUS
<1> HIDE DEF n, U
<1>2. IntendedOf(q) = [i \in 1 .. n |-> intended[q[i]]]
  BY <1>1 DEF IntendedOf
<1>3. [i \in 1 .. n |-> intended[q[i]]] \in Seq(U)
  BY <1>1
<1> QED
  BY <1>1, <1>2, <1>3 DEF n, U

LEMMA JoinedParts ==
  ASSUME NEW a \in Seq(Cmds), NEW b \in Seq(Cmds)
  PROVE  /\ FirstOf(a \o b, Len(a \o b)) = FirstOf(a, Len(a)) \cup FirstOf(b, Len(b))
         /\ IntendedOf(a \o b) = IntendedOf(a) \o IntendedOf(b)
<1> DEFINE m == Len(a)
           n == Len(b)
           z == a \o b
<1>1. /\ m \in Nat /\ n \in Nat /\ DOMAIN a = 1 .. m /\ DOMAIN b = 1 .. n
      /\ DOMAIN z = 1 .. m + n /\ Len(z) = m + n
      /\ \A i \in 1 .. m : z[i] = a[i]
      /\ \A i \in 1 .. n : z[m + i] = b[i]
      /\ \A i \in 1 .. m + n : z[i] = IF i <= m THEN a[i] ELSE b[i - m]
  OBVIOUS
<1> HIDE DEF m, n, z
<1>2. FirstOf(z, m + n) = FirstOf(a, m) \cup FirstOf(b, n)
  <2>1. ASSUME NEW i \in 1 .. m + n PROVE z[i] \in FirstOf(a, m) \cup FirstOf(b, n)
    <3>1. CASE i <= m
      <4>1. i \in 1 .. m
        BY <1>1, <3>1
      <4> QED
        BY <1>1, <4>1 DEF FirstOf
    <3>2. CASE ~(i <= m)
      <4>1. i - m \in 1 .. n /\ z[i] = b[i - m]
        BY <1>1, <3>2
      <4> QED
        BY <4>1 DEF FirstOf
    <3> QED
      BY <3>1, <3>2
  <2>2. ASSUME NEW i \in 1 .. m PROVE a[i] \in FirstOf(z, m + n)
    <3>1. i \in 1 .. m + n /\ a[i] = z[i]
      BY <1>1
    <3> QED
      BY <3>1 DEF FirstOf
  <2>3. ASSUME NEW i \in 1 .. n PROVE b[i] \in FirstOf(z, m + n)
    <3>1. m + i \in 1 .. m + n /\ b[i] = z[m + i]
      BY <1>1
    <3> QED
      BY <3>1 DEF FirstOf
  <2>4. /\ FirstOf(z, m + n) \subseteq FirstOf(a, m) \cup FirstOf(b, n)
        /\ FirstOf(a, m) \subseteq FirstOf(z, m + n)
        /\ FirstOf(b, n) \subseteq FirstOf(z, m + n)
    BY <2>1, <2>2, <2>3 DEF FirstOf
  <2> QED
    BY <2>4
<1>3. IntendedOf(z) = IntendedOf(a) \o IntendedOf(b)
  <2> DEFINE x == IntendedOf(a)
             y == IntendedOf(b)
             w == IntendedOf(z)
             U == {intended[c] : c \in Cmds}
  <2>1. z \in Seq(Cmds)
    BY DEF z
  <2>2. /\ x \in Seq(U) /\ Len(x) = m /\ \A i \in 1 .. m : x[i] = intended[a[i]]
        /\ y \in Seq(U) /\ Len(y) = n /\ \A i \in 1 .. n : y[i] = intended[b[i]]
        /\ w \in Seq(U) /\ Len(w) = m + n
        /\ \A i \in 1 .. m + n : w[i] = intended[z[i]]
    BY <1>1, <2>1, IntendedType DEF m, n
  <2> HIDE DEF x, y, w, U
  <2>3. /\ x \o y \in Seq(U) /\ Len(x \o y) = m + n
        /\ \A i \in 1 .. m + n : (x \o y)[i] = IF i <= m THEN x[i] ELSE y[i - m]
    <3>1. /\ x \o y \in Seq(U) /\ Len(x \o y) = Len(x) + Len(y)
          /\ \A i \in 1 .. Len(x) + Len(y) :
               (x \o y)[i] = IF i <= Len(x) THEN x[i] ELSE y[i - Len(x)]
      BY <2>2, ConcatProperties
    <3> QED
      BY <2>2, <3>1
  <2>4. ASSUME NEW i \in 1 .. m + n PROVE w[i] = (x \o y)[i]
    <3>1. CASE i <= m
      <4>1. i \in 1 .. m
        BY <1>1, <3>1
      <4>2. w[i] = intended[z[i]] /\ z[i] = a[i] /\ x[i] = intended[a[i]]
        BY <1>1, <2>2, <4>1
      <4>3. (x \o y)[i] = x[i]
        BY <2>3, <3>1
      <4> QED
        BY <4>2, <4>3
    <3>2. CASE ~(i <= m)
      <4>1. i - m \in 1 .. n
        BY <1>1, <3>2
      <4>2. z[i] = b[i - m] /\ w[i] = intended[z[i]]
        BY <1>1, <2>2, <3>2
      <4>3. y[i - m] = intended[b[i - m]]
        BY <2>2, <4>1
      <4>4. (x \o y)[i] = y[i - m]
        BY <2>3, <3>2
      <4> QED
        BY <4>2, <4>3, <4>4
    <3> QED
      BY <3>1, <3>2
  <2>5. w = x \o y
    BY <2>2, <2>3, <2>4, SeqEqual
  <2> QED
    BY <2>5 DEF x, y, w
<1> QED
  BY <1>1, <1>2, <1>3 DEF m, n, z

\* A whole submission: every list enters the queue, in the order of the
\* command buffers, and the encoders of these are finished.
LEMMA SubmissionAccepted ==
  ASSUME Recording, NothingDropped, gpuQueue \in Seq(Lists),
         NEW batches \in Seq(Seq(Cmds)), NEW all, all = FlattenSeq(batches),
         Ready(all)
  PROVE  /\ all \in Seq(Cmds)
         /\ Submitted(batches) =
              [enc |-> DoneFor(FirstOf(all, Len(all))),
               gpu |-> gpuQueue \o IntendedOf(all)]
<1> DEFINE n == Len(batches)
           base == [enc |-> encoder, gpu |-> gpuQueue]
<1>1. PICK r : /\ r[0] = << >>
               /\ \A i \in 1 .. n : r[i] = r[i - 1] \o batches[i]
               /\ \A i \in 0 .. n : r[i] \in Seq(Cmds)
               /\ all = r[n]
  BY FlattenLoop
<1>2. n \in Nat /\ DOMAIN batches = 1 .. n
      /\ \A i \in 1 .. n : batches[i] \in Seq(Cmds)
  OBVIOUS
<1>3. \A i \in 0 .. n : Ready(r[i])
  <2> DEFINE I == {k \in Nat : k <= n => Ready(r[n - k])}
  <2>1. 0 \in I
    BY <1>1, <1>2
  <2>2. ASSUME NEW k \in Nat, k \in I PROVE k + 1 \in I
    <3> SUFFICES ASSUME k + 1 <= n PROVE Ready(r[n - (k + 1)])
      OBVIOUS
    <3> DEFINE i == n - k
    <3>1. i \in 1 .. n /\ i - 1 \in 0 .. n /\ n - (k + 1) = i - 1 /\ Ready(r[i])
      BY <1>2, <2>2
    <3> HIDE DEF i
    <3>2. r[i] = r[i - 1] \o batches[i] /\ r[i - 1] \in Seq(Cmds)
      BY <1>1, <3>1
    <3>3. Ready(r[i - 1])
      BY <1>2, <3>1, <3>2, ReadyParts
    <3> QED
      BY <3>1, <3>3
  <2>3. \A k \in Nat : k \in I
    <3> HIDE DEF I
    <3> QED
      BY <2>1, <2>2, SetInduction
  <2>4. ASSUME NEW i \in 0 .. n PROVE Ready(r[i])
    <3>1. n - i \in Nat /\ n - i <= n /\ n - (n - i) = i
      BY <1>2
    <3> QED
      BY <2>3, <3>1
  <2> QED
    BY <2>4
<1>4. ASSUME NEW i \in 1 .. n
      PROVE  /\ batches[i] \in Seq(Pending) /\ IsInjective(batches[i])
             /\ \A j \in DOMAIN batches[i] :
                  batches[i][j] \notin FirstOf(r[i - 1], Len(r[i - 1]))
  <2>1. i - 1 \in 0 .. n /\ i \in 0 .. n
    BY <1>2
  <2>2. /\ r[i - 1] \in Seq(Cmds) /\ batches[i] \in Seq(Cmds)
        /\ Ready(r[i - 1] \o batches[i])
    BY <1>1, <1>2, <1>3, <2>1
  <2>3. /\ Ready(batches[i])
        /\ \A j \in DOMAIN batches[i] :
             batches[i][j] \notin FirstOf(r[i - 1], Len(r[i - 1]))
    BY <2>2, ReadyParts
  <2>4. batches[i] \in Seq(Pending)
    <3> DEFINE b == batches[i]
    <3>1. b \in Seq(Cmds) /\ \A j \in DOMAIN b : b[j] \in Pending
      BY <2>2, <2>3 DEF Ready
    <3> HIDE DEF b
    <3>2. b \in Seq(Pending)
      BY <3>1
    <3> QED
      BY <3>2 DEF b
  <2> QED
    BY <2>3, <2>4 DEF Ready
<1>5. batches \in Seq(Seq(HasEncoder))
  <2>1. Pending \subseteq HasEncoder
    BY DEF Pending, HasEncoder
  <2>2. \A i \in 1 .. n : batches[i] \in Seq(HasEncoder)
    BY <1>4, <2>1
  <2> QED
    BY <1>2, <2>2
<1>6. base \in QueueStates
  BY DEF QueueStates, Recording, Structure, TypeOK
<1>7. PICK R : /\ R[0] = base
               /\ \A i \in 1 .. n : R[i] = SubmitBatch(R[i - 1], batches[i])
               /\ FoldLeft(SubmitBatch, base, batches) = R[n]
  <2> HIDE DEF base
  <2> QED
    BY <1>5, <1>6, SubmitLoop
<1> DEFINE At(i) == [enc |-> DoneFor(FirstOf(r[i], Len(r[i]))),
                     gpu |-> gpuQueue \o IntendedOf(r[i])]
           I == {i \in Nat : i <= n => R[i] = At(i)}
<1> HIDE DEF n
<1>8. 0 \in I
  <2>1. FirstOf(<< >>, 0) = {} /\ IntendedOf(<< >>) = << >>
    BY DEF FirstOf, IntendedOf
  <2>2. DoneFor({}) = encoder
    BY DEF DoneFor, Recording, Structure, TypeOK
  <2>3. gpuQueue \o << >> = gpuQueue
    OBVIOUS
  <2> QED
    BY <1>1, <1>7, <2>1, <2>2, <2>3
<1>9. ASSUME NEW i \in Nat, i \in I PROVE i + 1 \in I
  <2> SUFFICES ASSUME i + 1 <= n PROVE R[i + 1] = At(i + 1)
    OBVIOUS
  <2> DEFINE a == r[i]
             b == batches[i + 1]
             D == FirstOf(a, Len(a))
             g == gpuQueue \o IntendedOf(a)
  <2>0. i + 1 \in 1 .. n /\ i \in 0 .. n /\ (i + 1) - 1 = i /\ i <= n
    BY <1>2
  <2>1. i + 1 \in 1 .. n /\ i \in 0 .. n /\ (i + 1) - 1 = i /\ R[i] = At(i)
    BY <1>9, <2>0, Zenon
  <2>2. a \in Seq(Cmds) /\ b \in Seq(Cmds) /\ r[i + 1] = a \o b
    BY <1>1, <1>2, <2>1
  <2>3. /\ b \in Seq(Pending) /\ IsInjective(b)
        /\ \A j \in DOMAIN b : b[j] \notin D
    BY <1>4, <2>1
  <2>4. R[i] = [enc |-> DoneFor(D), gpu |-> g]
    BY <2>1
  <2>5. R[i + 1] = SubmitBatch(R[i], b)
    BY <1>7, <2>1
  <2>6. D \in SUBSET Cmds
    BY <2>2 DEF FirstOf
  <2> HIDE DEF a, b, D, g, At, I
  <2>7. SubmitBatch(R[i], b) = [enc |-> DoneFor(D \cup FirstOf(b, Len(b))),
                                gpu |-> g \o IntendedOf(b)]
    BY <2>3, <2>4, <2>6, BatchAccepted
  <2>8. /\ FirstOf(a \o b, Len(a \o b)) = D \cup FirstOf(b, Len(b))
        /\ IntendedOf(a \o b) = IntendedOf(a) \o IntendedOf(b)
    BY <2>2, JoinedParts DEF D
  <2>9. g \o IntendedOf(b) = gpuQueue \o IntendedOf(a \o b)
    <3>1. IntendedOf(a) \in Seq(Lists) /\ IntendedOf(b) \in Seq(Lists)
      <4>1. \A c \in Cmds : intended[c] \in Lists
        BY DEF Recording, Structure, TypeOK, Lists
      <4>2. {intended[c] : c \in Cmds} \subseteq Lists
        BY <4>1
      <4> QED
        BY <2>2, <4>2, IntendedType, SeqMonotonic
    <3>2. (gpuQueue \o IntendedOf(a)) \o IntendedOf(b)
            = gpuQueue \o (IntendedOf(a) \o IntendedOf(b))
      BY <3>1, ConcatAssociative
    <3> QED
      BY <2>8, <3>2 DEF g
  <2> QED
    BY <2>2, <2>5, <2>7, <2>8, <2>9 DEF At
<1>10. \A i \in Nat : i \in I
  <2> HIDE DEF I
  <2> QED
    BY <1>8, <1>9, SetInduction
<1>11. R[n] = At(n)
  <2> HIDE DEF At
  <2>1. n \in I /\ n <= n
    BY <1>2, <1>10
  <2> QED
    BY <2>1
<1>12. Submitted(batches) = R[n]
  BY <1>7 DEF Submitted
<1>13. all \in Seq(Cmds)
  BY <1>1, <1>2
<1> QED
  BY <1>1, <1>11, <1>12, <1>13

-----------------------------------------------------------------------------
(* The inductive invariant                                                 *)

\* No command buffer is left inside a render pass once its recording ends.
IdleEncoders ==
  \A c \in Cmds : ~recording[c] /\ wgpu_encoder[c] # NULL
                    => encoder[wgpu_encoder[c]].status # "inpass"

SubmissionInv ==
  /\ Recording
  /\ IdleEncoders
  /\ executed \in Seq(Lists) /\ gpuQueue \in Seq(Lists) /\ submitted \in Seq(Lists)
  /\ RunsWhatWasSubmitted

\* A step about command buffer c and encoder e.
LEMMA IdleStep ==
  ASSUME Recording, IdleEncoders, NEW c \in Cmds, NEW e,
         \A d \in Cmds \ {c} : wgpu_encoder[d] # NULL => wgpu_encoder[d] # e,
         \A d \in Cmds \ {c} : /\ wgpu_encoder'[d] = wgpu_encoder[d]
                               /\ recording'[d] = recording[d],
         \A f \in Encoders : f # e => encoder'[f] = encoder[f],
         \/ recording'[c]
         \/ wgpu_encoder'[c] = NULL
         \/ encoder'[wgpu_encoder'[c]].status # "inpass"
  PROVE  IdleEncoders'
<1>1. \A d \in Cmds : wgpu_encoder[d] # NULL => wgpu_encoder[d] \in Encoders
  BY DEF Recording, Structure, TypeOK, Maybe
<1> QED
  BY <1>1 DEF IdleEncoders

LEMMA IdleKept ==
  ASSUME Recording, IdleEncoders, [Next]_vars
  PROVE  IdleEncoders'
<1>0. /\ Structure /\ TypeOK /\ HandlesConsistent
      /\ \A e \in Encoders : encoder[e] \in Encoder
      /\ \A c \in Cmds : wgpu_encoder[c] # NULL => wgpu_encoder[c] \in Encoders
      /\ \A c \in Cmds : \A d \in Cmds \ {c} :
           wgpu_encoder[d] # NULL => wgpu_encoder[d] # wgpu_encoder[c]
  BY DEF Recording, Structure, TypeOK, EncodersHeld, Maybe
<1>1. ASSUME UNCHANGED << cmdVars, encoder >> PROVE IdleEncoders'
  BY <1>1 DEF IdleEncoders, cmdVars
<1>2. ASSUME NEW c \in Cmds, FreeCommandBuffer(c) PROVE IdleEncoders'
  <2>1. wgpu_encoder'[c] = NULL
    BY <1>0, <1>2 DEF FreeCommandBuffer, TypeOK
  <2>2. \A d \in Cmds \ {c} : /\ wgpu_encoder'[d] = wgpu_encoder[d]
                              /\ recording'[d] = recording[d]
    BY <1>0, <1>2 DEF FreeCommandBuffer, TypeOK
  <2>3. \A f \in Encoders : f # wgpu_encoder[c] => encoder'[f] = encoder[f]
    BY <1>0, <1>2 DEF FreeCommandBuffer, EncoderReleased, TypeOK
  <2>4. \A d \in Cmds \ {c} : wgpu_encoder[d] # NULL
                                => wgpu_encoder[d] # wgpu_encoder[c]
    BY <1>0
  <2> QED
    BY <2>1, <2>2, <2>3, <2>4, IdleStep
<1>3. CASE Lifetime
  BY <1>1, <1>2, <1>3
     DEF Lifetime, AllocateCommandBuffers, Fresh, AllocateCommandBuffersFails
<1>4. ASSUME NEW c \in Cmds, BeginOrEnd(c) PROVE IdleEncoders'
  <2>1. CASE BeginNotReady(c) \/ EndNotReady(c)
    BY <1>1, <2>1 DEF BeginNotReady, EndNotReady, vars
  <2>2. CASE BeginOutOfDeviceMemory(c)
    BY <1>0, <2>2, IdleStep DEF BeginOutOfDeviceMemory, TypeOK
  <2>3. ASSUME NEW e \in Encoders, BeginRecording(c, e) PROVE IdleEncoders'
    <3>1. \A d \in Cmds : wgpu_encoder[d] # NULL => wgpu_encoder[d] # e
      BY <1>0, <2>3 DEF BeginRecording, HandlesConsistent
    <3>2. /\ recording'[c]
          /\ \A d \in Cmds \ {c} : /\ wgpu_encoder'[d] = wgpu_encoder[d]
                                   /\ recording'[d] = recording[d]
          /\ \A f \in Encoders : f # e => encoder'[f] = encoder[f]
      BY <1>0, <2>3 DEF BeginRecording, TypeOK
    <3> QED
      BY <3>1, <3>2, IdleStep
  <2>4. CASE EndCommandBuffer(c)
    <3> DEFINE e == wgpu_encoder[c]
    <3>1. /\ e \in Encoders
          /\ wgpu_render_pass[c] = IF in_render_pass[c] THEN e ELSE NULL
          /\ encoder[e].status = IF in_render_pass[c] THEN "inpass" ELSE "open"
      BY <1>0, <2>4 DEF EndCommandBuffer, HandlesConsistent
    <3>2. in_render_pass[c] => PassEnded(encoder[e]).status = "open"
      BY <1>0, <3>1, PassOperatorsStatus
    <3>3. /\ wgpu_encoder'[c] = e
          /\ \A d \in Cmds \ {c} : /\ wgpu_encoder'[d] = wgpu_encoder[d]
                                   /\ recording'[d] = recording[d]
      BY <1>0, <2>4 DEF EndCommandBuffer, TypeOK
    <3>4. /\ \A f \in Encoders : f # e => encoder'[f] = encoder[f]
          /\ encoder'[e].status = "open"
      BY <1>0, <2>4, <3>1, <3>2 DEF EndCommandBuffer, OpenPassEnded, TypeOK
    <3>5. \A d \in Cmds \ {c} : wgpu_encoder[d] # NULL => wgpu_encoder[d] # e
      BY <1>0
    <3> HIDE DEF e
    <3>6. encoder'[wgpu_encoder'[c]].status # "inpass"
      BY <3>3, <3>4
    <3> QED
      BY <3>3, <3>4, <3>5, <3>6, IdleStep
  <2> QED
    BY <1>4, <2>1, <2>2, <2>3, <2>4 DEF BeginOrEnd
<1>5. ASSUME NEW c \in Cmds, Bind(c) PROVE IdleEncoders'
  <2>1. SameShape
    BY <1>0, <1>5, BindShape
  <2> QED
    BY <1>0, <2>1 DEF SameShape, cmdVars, IdleEncoders
<1>6. ASSUME NEW c \in Cmds, UNCHANGED << wgpu_encoder, recording >>,
             recording[c],
             \A f \in Encoders : f # wgpu_encoder[c] => encoder'[f] = encoder[f]
      PROVE  IdleEncoders'
  <2>1. \A d \in Cmds \ {c} : /\ wgpu_encoder'[d] = wgpu_encoder[d]
                              /\ recording'[d] = recording[d]
    BY <1>6
  <2>2. \A d \in Cmds \ {c} : wgpu_encoder[d] # NULL
                                => wgpu_encoder[d] # wgpu_encoder[c]
    BY <1>0
  <2> QED
    BY <1>6, <2>1, <2>2, IdleStep
<1>7. ASSUME NEW c \in Cmds, Record(c) PROVE IdleEncoders'
  <2>1. CASE BeginRenderPass(c)
    BY <1>0, <1>6, <2>1 DEF BeginRenderPass, InRecording, TypeOK
  <2>2. CASE BeginRenderPassIgnored(c) \/ DrawIgnored(c)
    BY <1>1, <2>2 DEF BeginRenderPassIgnored, DrawIgnored, vars
  <2>3. CASE EndRenderPass(c)
    BY <1>0, <1>6, <2>3 DEF EndRenderPass, HandlesConsistent, TypeOK
  <2>4. ASSUME NEW kind, NEW n, Draw(c, kind, n) PROVE IdleEncoders'
    <3>1. wgpu_render_pass[c] = wgpu_encoder[c]
      BY <1>0, <2>4 DEF Draw, HandlesConsistent
    <3> QED
      BY <1>0, <1>6, <2>4, <3>1 DEF Draw, InRecording, cmdVars, TypeOK
  <2>5. ASSUME NEW n, NEW kind, Transfer(c, kind, n),
               encoder' \in {encoder, RegionsCopied(c, kind, n)}
        PROVE  IdleEncoders'
    <3>1. \A f \in Encoders : f # wgpu_encoder[c] => encoder'[f] = encoder[f]
      BY <1>0, <2>5 DEF RegionsCopied, TypeOK
    <3> QED
      BY <1>6, <2>5, <3>1 DEF Transfer, InRecording, cmdVars
  <2>6. CASE Dispatch(c)
    BY <1>0, <1>1, <2>6 DEF Dispatch, TypeOK
  <2> QED
    BY <1>7, <2>1, <2>2, <2>3, <2>4, <2>5, <2>6, RecordCases
<1> QED
  BY <1>1, <1>3, <1>4, <1>5, <1>7 DEF Next, vars

\* Finishing the encoders of pending command buffers disturbs no recording.
LEMMA DoneRecording ==
  ASSUME Recording, IdleEncoders, NEW D \in SUBSET Pending,
         encoder' = DoneFor(D),
         UNCHANGED << handle, cmdVars, boundVars, vk, intended >>
  PROVE  Recording' /\ IdleEncoders'
<1>1. /\ Structure /\ TypeOK /\ NeverRejected
      /\ \A e \in Encoders : encoder[e] \in Encoder
      /\ \A c \in Cmds : wgpu_encoder[c] # NULL => wgpu_encoder[c] \in Encoders
      /\ \A c \in Cmds : wgpu_render_pass[c] # NULL
                           => wgpu_render_pass[c] \in Encoders
  BY DEF Recording, Structure, TypeOK, Maybe
<1>2. ASSUME NEW e \in Encoders, NEW c \in D, wgpu_encoder[c] = e
      PROVE  encoder[e].status = "open"
  BY <1>2 DEF Pending
<1>3. ASSUME NEW e \in Encoders
      PROVE  /\ encoder'[e] \in Encoder
             /\ encoder'[e].valid = encoder[e].valid
             /\ encoder'[e].held = encoder[e].held
             /\ encoder'[e].pass = encoder[e].pass
             /\ encoder'[e].commands = encoder[e].commands
             /\ \/ encoder'[e].status = encoder[e].status
                \/ /\ encoder'[e].status = "finished"
                   /\ \E c \in D : wgpu_encoder[c] = e
  <2>1. CASE \E c \in D : wgpu_encoder[c] = e
    <3>1. encoder'[e] = Finished(encoder[e]) /\ encoder[e].status = "open"
      BY <1>2, <2>1 DEF DoneFor
    <3> QED
      BY <1>1, <2>1, <3>1, FinishedType DEF Finished, Encoder
  <2>2. CASE ~ \E c \in D : wgpu_encoder[c] = e
    BY <1>1, <2>2 DEF DoneFor
  <2> QED
    BY <2>1, <2>2
<1>4. ASSUME NEW c \in Cmds, recording[c], wgpu_encoder[c] \in Encoders
      PROVE  encoder'[wgpu_encoder[c]].status = encoder[wgpu_encoder[c]].status
  <2>1. \A d \in D : d \in Cmds /\ d # c /\ wgpu_encoder[d] # NULL
    BY <1>4, NullAssumption DEF Pending
  <2>2. \A d \in D : wgpu_encoder[d] # wgpu_encoder[c]
    BY <1>1, <2>1 DEF Structure, EncodersHeld
  <2> QED
    BY <1>3, <1>4, <2>2
<1>5. TypeOK'
  <2>1. encoder' \in [Encoders -> Encoder]
    BY <1>3 DEF DoneFor
  <2> QED
    BY <1>1, <2>1 DEF TypeOK, cmdVars, boundVars
<1>6. HandlesConsistent'
  BY <1>1, <1>3, <1>4 DEF Structure, HandlesConsistent, cmdVars
<1>7. EncodersHeld'
  BY <1>1, <1>3 DEF Structure, EncodersHeld, cmdVars
<1>8. NeverRejected'
  BY <1>1, <1>3 DEF NeverRejected
<1>9. ASSUME NEW c \in Cmds PROVE Faithful(c)'
  <2>1. Faithful(c) /\ (in_render_pass[c] => wgpu_encoder[c] \in Encoders)
    BY <1>1, NullAssumption DEF Recording, Structure, HandlesConsistent
  <2> QED
    BY <1>1, <1>3, <2>1
       DEF Faithful, FollowsVk, Recorded, VkBindings, cmdVars, boundVars
<1>10. IdleEncoders'
  BY <1>1, <1>3 DEF IdleEncoders, cmdVars
<1> QED
  BY <1>5, <1>6, <1>7, <1>8, <1>9, <1>10 DEF Recording, Structure

\* Handing all batches of a submission to the queue.
LEMMA HandStep ==
  ASSUME SubmissionInv, NothingDropped, "resubmit" \notin ClientUses,
         NEW batches \in Seq(Seq(Cmds)), Hand(batches),
         submitted' = submitted \o Promised(batches)
  PROVE  SubmissionInv'
<1> DEFINE all == FlattenSeq(batches)
           D == FirstOf(all, Len(all))
<1>1. /\ Recording /\ IdleEncoders /\ RunsWhatWasSubmitted
      /\ executed \in Seq(Lists) /\ gpuQueue \in Seq(Lists)
      /\ submitted \in Seq(Lists)
  BY DEF SubmissionInv
<1>2. all \in Seq(Cmds)
  <2>1. PICK r : /\ \A i \in 0 .. Len(batches) : r[i] \in Seq(Cmds)
                 /\ FlattenSeq(batches) = r[Len(batches)]
    BY FlattenLoop
  <2>2. Len(batches) \in 0 .. Len(batches)
    OBVIOUS
  <2> QED
    BY <2>1, <2>2
<1>3. /\ \A i \in DOMAIN all : Executable(all[i])
      /\ IsInjective(all)
  BY DEF Hand, Submittable
<1>4. submitted' = submitted \o IntendedOf(all)
  BY DEF Promised, IntendedOf
<1> HIDE DEF all
<1>5. Ready(all)
  <2>1. ASSUME NEW i \in DOMAIN all PROVE all[i] \in Pending
    <3> DEFINE c == all[i]
    <3>1. c \in Cmds
      BY <1>2
    <3>2. /\ ~recording[c] /\ wgpu_encoder[c] # NULL
          /\ encoder[wgpu_encoder[c]].status # "finished"
      BY <1>1, <1>3 DEF Executable
    <3> HIDE DEF c
    <3>3. /\ wgpu_encoder[c] \in Encoders
          /\ encoder[wgpu_encoder[c]] \in Encoder
          /\ encoder[wgpu_encoder[c]].status \notin {"inpass", "unused"}
      BY <1>1, <3>1, <3>2
         DEF Recording, Structure, TypeOK, HandlesConsistent, IdleEncoders,
             Maybe
    <3>4. c \in Pending
      BY <3>1, <3>2, <3>3 DEF Pending, Encoder
    <3> QED
      BY <3>4 DEF c
  <2> QED
    BY <1>3, <2>1 DEF Ready
<1>6. Submitted(batches) = [enc |-> DoneFor(D), gpu |-> gpuQueue \o IntendedOf(all)]
  BY <1>1, <1>5, SubmissionAccepted DEF all
<1>7. D \in SUBSET Pending
  BY <1>2, <1>5 DEF FirstOf, Ready
<1>8. encoder' = DoneFor(D) /\ gpuQueue' = gpuQueue \o IntendedOf(all)
  BY <1>6 DEF Hand
<1> HIDE DEF D
<1>9. UNCHANGED << handle, cmdVars, boundVars, vk, intended, executed >>
  BY DEF Hand
<1>10. Recording' /\ IdleEncoders'
  BY <1>1, <1>7, <1>8, <1>9, DoneRecording
<1>11. IntendedOf(all) \in Seq(Lists)
  <2>1. {intended[c] : c \in Cmds} \subseteq Lists
    BY <1>1 DEF Recording, Structure, TypeOK, Lists
  <2> QED
    BY <1>2, <2>1, IntendedType, SeqMonotonic
<1>12. executed \o (gpuQueue \o IntendedOf(all)) = submitted \o IntendedOf(all)
  <2>0. \A x, y, z \in Seq(Lists) : (x \o y) \o z = x \o (y \o z)
    BY ConcatAssociative
  <2>1. (executed \o gpuQueue) \o IntendedOf(all)
          = executed \o (gpuQueue \o IntendedOf(all))
    BY <1>1, <1>11, <2>0, Zenon
  <2> QED
    BY <1>1, <2>1 DEF RunsWhatWasSubmitted
<1>13. /\ gpuQueue \o IntendedOf(all) \in Seq(Lists)
       /\ submitted \o IntendedOf(all) \in Seq(Lists)
  BY <1>1, <1>11
<1> QED
  BY <1>1, <1>4, <1>8, <1>9, <1>10, <1>12, <1>13
     DEF SubmissionInv, RunsWhatWasSubmitted

\* The GPU takes the oldest list from the queue.
LEMMA ExecuteStep ==
  ASSUME NEW S, NEW x \in Seq(S), NEW q \in Seq(S), q # << >>
  PROVE  /\ Append(x, Head(q)) \in Seq(S) /\ Tail(q) \in Seq(S)
         /\ Append(x, Head(q)) \o Tail(q) = x \o q
<1>1. /\ Head(q) \in S /\ Tail(q) \in Seq(S) /\ Len(Tail(q)) = Len(q) - 1
      /\ Head(q) = q[1]
      /\ \A i \in 1 .. Len(Tail(q)) : Tail(q)[i] = q[i + 1]
  BY HeadTailProperties
<1> DEFINE h == Head(q)
           t == Tail(q)
           y == Append(x, h)
<1>2. /\ y \in Seq(S) /\ Len(y) = Len(x) + 1
      /\ \A i \in 1 .. Len(x) : y[i] = x[i]
      /\ y[Len(x) + 1] = h
  BY <1>1
<1> HIDE DEF h, t, y
<1>3. t \in Seq(S) /\ Len(t) = Len(q) - 1 /\ h = q[1]
      /\ \A i \in 1 .. Len(t) : t[i] = q[i + 1]
  BY <1>1 DEF h, t
<1>4. /\ y \o t \in Seq(S) /\ Len(y \o t) = Len(x) + Len(q)
      /\ \A i \in 1 .. Len(x) + Len(q) :
           (y \o t)[i] = IF i <= Len(x) + 1 THEN y[i] ELSE t[i - (Len(x) + 1)]
  <2>1. Len(y) + Len(t) = Len(x) + Len(q)
    BY <1>2, <1>3
  <2>2. /\ y \o t \in Seq(S) /\ Len(y \o t) = Len(y) + Len(t)
        /\ \A i \in 1 .. Len(y) + Len(t) :
             (y \o t)[i] = IF i <= Len(y) THEN y[i] ELSE t[i - Len(y)]
    BY <1>2, <1>3, ConcatProperties
  <2> QED
    BY <1>2, <2>1, <2>2
<1>5. /\ x \o q \in Seq(S) /\ Len(x \o q) = Len(x) + Len(q)
      /\ \A i \in 1 .. Len(x) + Len(q) :
           (x \o q)[i] = IF i <= Len(x) THEN x[i] ELSE q[i - Len(x)]
  BY ConcatProperties
<1>6. ASSUME NEW i \in 1 .. Len(x) + Len(q) PROVE (y \o t)[i] = (x \o q)[i]
  <2>0. Len(x) \in Nat /\ Len(q) \in Nat /\ i \in Nat
    OBVIOUS
  <2>1. CASE i <= Len(x)
    BY <1>2, <1>4, <1>5, <2>0, <2>1
  <2>2. CASE i = Len(x) + 1
    BY <1>2, <1>3, <1>4, <1>5, <2>0, <2>2
  <2>3. CASE i > Len(x) + 1
    <3>1. i - (Len(x) + 1) \in 1 .. Len(t)
      BY <1>3, <2>0, <2>3
    <3>2. t[i - (Len(x) + 1)] = q[i - Len(x)]
      <4>1. (i - (Len(x) + 1)) + 1 = i - Len(x)
        BY <2>0
      <4> QED
        BY <1>3, <3>1, <4>1
    <3> QED
      BY <1>4, <1>5, <2>0, <2>3, <3>2
  <2>4. i <= Len(x) \/ i = Len(x) + 1 \/ i > Len(x) + 1
    BY <2>0
  <2> QED
    BY <2>1, <2>2, <2>3, <2>4
<1>7. y \o t = x \o q
  BY <1>4, <1>5, <1>6, SeqEqual
<1> QED
  BY <1>2, <1>3, <1>7 DEF h, t, y

LEMMA BatchesType == Batches \subseteq Seq(Seq(Cmds))
<1> DEFINE B == {<< >>} \cup Runs(Cmds)
<1>1. ASSUME NEW s \in Runs(Cmds) PROVE s \in Seq(Cmds)
  <2>1. PICK n \in {1, 2} : s \in [1 .. n -> Cmds]
    BY <1>1 DEF Runs
  <2> QED
    BY <2>1
<1>2. << >> \in Seq(Cmds)
  OBVIOUS
<1>3. \A b \in B : b \in Seq(Cmds)
  BY <1>1, <1>2
<1>4. \A batches \in Batches : \E n \in 1 .. 2 : batches \in [1 .. n -> B]
  BY DEF Batches
<1> HIDE DEF B
<1>5. ASSUME NEW n \in 1 .. 2, NEW batches \in [1 .. n -> B]
      PROVE  batches \in Seq(Seq(Cmds))
  <2>1. n \in Nat /\ \A i \in 1 .. n : batches[i] \in Seq(Cmds)
    BY <1>3
  <2>2. batches \in [1 .. n -> Seq(Cmds)]
    BY <2>1
  <2> QED
    BY <2>1, <2>2
<1> QED
  BY <1>4, <1>5

\* A submission of no batch has no promise to keep.
LEMMA NothingPromised ==
  ASSUME NEW batches \in Seq(Seq(Cmds)), NEW S, NEW q \in Seq(S)
  PROVE  /\ SubSeq(batches, 1, 0) \in Seq(Seq(Cmds))
         /\ q \o Promised(SubSeq(batches, 1, 0)) = q
<1>1. SubSeq(batches, 1, 0) = << >>
  OBVIOUS
<1>2. FlattenSeq(<< >>) = << >>
  <2>1. << >> \in Seq(Seq(Cmds)) /\ Len(<< >>) = 0
    OBVIOUS
  <2>2. PICK r : r[0] = << >> /\ FlattenSeq(<< >>) = r[0]
    BY <2>1, FlattenLoop
  <2> QED
    BY <2>2
<1>3. Promised(<< >>) = << >>
  BY <1>2 DEF Promised
<1>4. q \o << >> = q /\ << >> \in Seq(Seq(Cmds))
  OBVIOUS
<1> QED
  BY <1>1, <1>3, <1>4, Zenon

LEMMA SubmissionStep ==
  ASSUME NothingDropped, ClientUses \cap {"early_bind", "resubmit", "late_failure"} = {},
         SubmissionInv, [SubmissionNext]_submissionVars
  PROVE  SubmissionInv'
<1>1. ASSUME [Next]_vars, UNCHANGED << gpuQueue, executed, submitted >>
      PROVE  SubmissionInv'
  <2>1. Recording /\ IdleEncoders /\ "early_bind" \notin ClientUses
    BY DEF SubmissionInv
  <2> QED
    BY <1>1, <2>1, RecordingStep, IdleKept
       DEF SubmissionInv, RunsWhatWasSubmitted
<1>2. ASSUME NEW batches \in Seq(Seq(Cmds)), Hand(batches),
             submitted' = submitted \o Promised(batches)
      PROVE  SubmissionInv'
  BY <1>2, HandStep
<1>3. ASSUME NEW batches \in Batches, NEW f, QueueSubmit(batches, f)
      PROVE  SubmissionInv'
  BY <1>2, <1>3, BatchesType DEF QueueSubmit
<1>4. ASSUME NEW batches \in Batches, NEW n \in 0 .. 1, NEW f,
             QueueSubmitOutOfMemory(batches, n, f)
      PROVE  SubmissionInv'
  <2>1. batches \in Seq(Seq(Cmds)) /\ n = 0
    BY <1>4, BatchesType DEF QueueSubmitOutOfMemory
  <2>2. Hand(SubSeq(batches, 1, 0)) /\ submitted' = submitted
    BY <1>4, <2>1 DEF QueueSubmitOutOfMemory
  <2>3. /\ SubSeq(batches, 1, 0) \in Seq(Seq(Cmds))
        /\ submitted \o Promised(SubSeq(batches, 1, 0)) = submitted
    BY <2>1, NothingPromised DEF SubmissionInv
  <2> QED
    BY <1>2, <2>2, <2>3
<1>5. ASSUME GpuExecute PROVE SubmissionInv'
  <2>1. UNCHANGED vars
    BY <1>5 DEF GpuExecute
  <2>2. Recording' /\ IdleEncoders'
    <3>1. Recording /\ IdleEncoders /\ "early_bind" \notin ClientUses
      BY DEF SubmissionInv
    <3> QED
      BY <2>1, <3>1, RecordingStep, IdleKept
  <2>3. /\ executed' \in Seq(Lists) /\ gpuQueue' \in Seq(Lists)
        /\ submitted' = submitted
        /\ executed' \o gpuQueue' = executed \o gpuQueue
    BY <1>5, ExecuteStep DEF GpuExecute, SubmissionInv
  <2> QED
    BY <2>2, <2>3 DEF SubmissionInv, RunsWhatWasSubmitted
<1>6. CASE QueueWaitIdle \/ FenceCall \/ UNCHANGED submissionVars
  BY <1>1, <1>6 DEF QueueWaitIdle, FenceCall, submissionVars, queueVars
<1> QED
  BY <1>1, <1>3, <1>4, <1>5, <1>6 DEF SubmissionNext, queueVars

\* An application that binds inside its render passes, asks for nothing that
\* is dropped and submits each recording once gets exactly its recordings run,
\* also when submissions fail at their first batch: vkQueueSubmit (queue.c)
\* loses, repeats and reorders no command list between the command buffers and
\* the GPU.
THEOREM RunsExactlyTheSubmissions ==
  ClientUses \cap {"early_bind", "compute", "ignored_state", "dropped_transfer",
                   "resubmit", "late_failure"} = {}
    => (SubmissionSpec => []RunsWhatWasSubmitted)
<1> SUFFICES ASSUME NothingDropped,
                    ClientUses \cap {"early_bind", "resubmit", "late_failure"} = {}
             PROVE  SubmissionSpec => []RunsWhatWasSubmitted
  BY DEF NothingDropped
<1>1. SubmissionInit => SubmissionInv
  <2> SUFFICES ASSUME SubmissionInit PROVE SubmissionInv
    OBVIOUS
  <2>1. Init /\ executed = << >> /\ gpuQueue = << >> /\ submitted = << >>
    BY DEF SubmissionInit
  <2>2. Recording
    BY <2>1, InitTypeOK, InitStructure, InitRecording DEF Recording, Structure
  <2>3. IdleEncoders
    BY <2>1 DEF Init, IdleEncoders
  <2>4. << >> \in Seq(Lists) /\ << >> \o << >> = << >>
    OBVIOUS
  <2> QED
    BY <2>1, <2>2, <2>3, <2>4 DEF SubmissionInv, RunsWhatWasSubmitted
<1>2. SubmissionInv /\ [SubmissionNext]_submissionVars => SubmissionInv'
  BY SubmissionStep
<1>3. SubmissionInv => RunsWhatWasSubmitted
  BY DEF SubmissionInv
<1> QED
  BY <1>1, <1>2, <1>3, PTL DEF SubmissionSpec

-----------------------------------------------------------------------------
(* Signaled fences stand for submissions that were carried out.  A fence   *)
(* that does not exist stands for nothing, or a fence created signaled     *)
(* would take over what an earlier one failed to cover.                    *)

FencesInv ==
  /\ fence \in [Fences -> F!FenceStates]
  /\ covers \in [Fences -> Nat]
  /\ \E S : submitted \in Seq(S)
  /\ \A f \in Fences : fence[f] # "unsignaled" => covers[f] <= Len(submitted)

\* Nothing that is submitted is taken back.
LEMMA SubmittedGrows ==
  ASSUME FencesInv, NEW batches \in Seq(Seq(Cmds)),
         submitted' = submitted \o Promised(batches)
  PROVE  /\ \E S : submitted' \in Seq(S)
         /\ Len(submitted) \in Nat /\ Len(submitted') \in Nat
         /\ Len(submitted) <= Len(submitted')
<1>1. PICK S : submitted \in Seq(S)
  BY DEF FencesInv
<1> DEFINE T == S \cup {intended[c] : c \in Cmds}
           all == FlattenSeq(batches)
<1>2. all \in Seq(Cmds)
  <2>1. PICK r : /\ \A i \in 0 .. Len(batches) : r[i] \in Seq(Cmds)
                 /\ FlattenSeq(batches) = r[Len(batches)]
    BY FlattenLoop
  <2>2. Len(batches) \in 0 .. Len(batches)
    OBVIOUS
  <2> QED
    BY <2>1, <2>2
<1> HIDE DEF all
<1>3. Promised(batches) \in Seq(T)
  <2>1. [i \in DOMAIN all |-> intended[all[i]]] \in Seq({intended[c] : c \in Cmds})
    BY <1>2, IntendedType DEF IntendedOf
  <2> QED
    BY <2>1, SeqMonotonic DEF Promised, all
<1>4. submitted \in Seq(T)
  BY <1>1, SeqMonotonic
<1> HIDE DEF T
<1> QED
  BY <1>3, <1>4

LEMMA FenceCallStep ==
  ASSUME FencesInv, "early_wait" \notin ClientUses, FenceCall
  PROVE  FencesInv'
<1>1. submitted' = submitted /\ \E S : submitted' \in Seq(S)
  BY DEF FenceCall, FencesInv
<1>2. covers' = [f \in Fences |->
                   IF fence'[f] \in {fence[f], "signaled"} THEN covers[f] ELSE 0]
  BY DEF FenceCall
<1>3. Len(submitted) \in Nat
  BY DEF FencesInv
<1>4. /\ fence' \in [Fences -> F!FenceStates]
      /\ \A f \in Fences : fence[f] = "unsignaled" => fence'[f] # "signaled"
  <2>1. ASSUME NEW f \in Fences, NEW s \in {"unsignaled", "signaled"},
               F!CreateFence(f, s)
        PROVE  /\ fence' \in [Fences -> F!FenceStates]
               /\ \A g \in Fences : fence[g] = "unsignaled"
                                     => fence'[g] # "signaled"
    BY <2>1 DEF F!CreateFence, F!Exists, F!FenceStates, FencesInv
  <2>2. ASSUME NEW f \in Fences, F!DestroyFence(f)
        PROVE  /\ fence' \in [Fences -> F!FenceStates]
               /\ \A g \in Fences : fence[g] = "unsignaled"
                                     => fence'[g] # "signaled"
    BY <2>2 DEF F!DestroyFence, F!FenceStates, FencesInv
  <2>3. ASSUME NEW S \in (SUBSET Fences) \ {{}}, F!ResetFences(S)
        PROVE  /\ fence' \in [Fences -> F!FenceStates]
               /\ \A g \in Fences : fence[g] = "unsignaled"
                                     => fence'[g] # "signaled"
    BY <2>3 DEF F!ResetFences, F!FenceStates, FencesInv
  <2>4. ASSUME Waits
        PROVE  /\ fence' \in [Fences -> F!FenceStates]
               /\ \A g \in Fences : fence[g] = "unsignaled"
                                     => fence'[g] # "signaled"
    BY <2>4 DEF Waits, FencesInv
  <2> QED
    BY <2>1, <2>2, <2>3, <2>4 DEF FenceCall
<1>5. \A f \in Fences : fence[f] \in {"none", "unsignaled", "signaled"}
                        /\ fence'[f] \in {"none", "unsignaled", "signaled"}
  BY <1>4 DEF FencesInv, F!FenceStates
<1> QED
  BY <1>1, <1>2, <1>3, <1>4, <1>5 DEF FencesInv

\* A failed vkQueueSubmit signals no fence (the early return of queue.c:15
\* comes before the fence is raised), and no call but a wait that has to wait
\* makes up for it: a signaled fence always stands for a whole submission.
THEOREM FencesStandForWholeCalls ==
  "early_wait" \notin ClientUses => (SubmissionSpec => []FencesOfWholeCalls)
<1> SUFFICES ASSUME "early_wait" \notin ClientUses
             PROVE  SubmissionSpec => []FencesOfWholeCalls
  OBVIOUS
<1>1. SubmissionInit => FencesInv
  <2>1. << >> \in Seq({}) /\ Len(<< >>) = 0
    OBVIOUS
  <2> QED
    BY <2>1 DEF SubmissionInit, F!FenceInit, F!FenceStates, FencesInv
<1>2. FencesInv /\ [SubmissionNext]_submissionVars => FencesInv'
  <2> SUFFICES ASSUME FencesInv, [SubmissionNext]_submissionVars
               PROVE  FencesInv'
    OBVIOUS
  <2>1. ASSUME NEW batches \in Batches, NEW f \in Maybe(Fences),
               QueueSubmit(batches, f)
        PROVE  FencesInv'
    <3>1. /\ \E S : submitted' \in Seq(S)
          /\ Len(submitted) \in Nat /\ Len(submitted') \in Nat
          /\ Len(submitted) <= Len(submitted')
      BY <2>1, BatchesType, SubmittedGrows DEF QueueSubmit
    <3>2. CASE f = NULL
      BY <2>1, <3>1, <3>2 DEF QueueSubmit, FencesInv
    <3>3. CASE f # NULL
      <4>1. /\ f \in Fences
            /\ fence' = [g \in Fences |-> IF g = f THEN "signaled" ELSE fence[g]]
            /\ covers' = [covers EXCEPT ![f] = Len(submitted')]
        BY <2>1, <3>3 DEF QueueSubmit, F!Raised, Maybe
      <4> QED
        BY <3>1, <4>1 DEF FencesInv, F!FenceStates
    <3> QED
      BY <3>2, <3>3
  <2>2. ASSUME NEW batches \in Batches, NEW n \in 0 .. 1,
               NEW f \in Maybe(Fences), QueueSubmitOutOfMemory(batches, n, f)
        PROVE  FencesInv'
    <3>1. /\ submitted' = submitted /\ fence' = fence
          /\ f # NULL => fence[f] = "unsignaled"
          /\ covers' = IF f = NULL THEN covers
                       ELSE [covers EXCEPT ![f] = Never]
      BY <2>2 DEF QueueSubmitOutOfMemory, FenceAfterFailure
    <3>2. Never \in Nat
      BY SubmissionAssumption DEF Never
    <3>3. f # NULL => f \in Fences
      BY DEF Maybe
    <3> QED
      BY <3>1, <3>2, <3>3 DEF FencesInv
  <2>3. ASSUME UNCHANGED << fence, submitted, covers >> PROVE FencesInv'
    BY <2>3 DEF FencesInv
  <2>4. CASE FenceCall
    BY <2>4, FenceCallStep
  <2> QED
    BY <2>1, <2>2, <2>3, <2>4
       DEF SubmissionNext, QueueWaitIdle, GpuExecute, submissionVars, queueVars
<1>3. FencesInv => FencesOfWholeCalls
  BY DEF FencesInv, FencesOfWholeCalls
<1> QED
  BY <1>1, <1>2, <1>3, PTL DEF SubmissionSpec

=============================================================================
