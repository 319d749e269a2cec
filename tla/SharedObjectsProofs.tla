-------------------------- MODULE SharedObjectsProofs --------------------------
(***************************************************************************)
(* Reference counts are exact, and with them the protocol implements       *)
(* Reachability, for any number of children, parents and slots.            *)
(***************************************************************************)
EXTENDS SharedObjects, FiniteSetTheorems, TLAPS

\* What the variables range over; the slots of a parent that is not allocated
\* name nobody.
Shape ==
  /\ ref_count \in [Children -> Int]
  /\ held \subseteq Children
  /\ parents \subseteq Parents
  /\ slots \in [Parents -> [Slots -> Children \cup {NULL}]]
  /\ \A p \in Parents \ parents : slots[p] = NoSlots

\* The counts of RefCountsExact say something only about finitely many slots.
Inv == Shape /\ RefCountsExact

USE SharedAssumption

-----------------------------------------------------------------------------
(* Counting slots                                                          *)

\* The namings of a child are finitely many.
LEMMA FiniteNamings ==
  ASSUME NEW v
  PROVE  IsFiniteSet(Namings(v)) /\ Cardinality(Namings(v)) \in Nat
<1>1. IsFiniteSet(Slots)
  BY FS_Interval DEF Slots
<1>2. IsFiniteSet(Parents \X Slots)
  BY <1>1, FS_Product
<1>3. Namings(v) \in SUBSET (Parents \X Slots)
  BY DEF Namings
<1>4. IsFiniteSet(Namings(v))
  BY <1>2, <1>3, FS_Subset
<1> QED
  BY <1>4, FS_CardinalityType

\* So are the slots of one parent that name it, and pairing them with the
\* parent does not change their number.
LEMMA NamingsOfOne ==
  ASSUME NEW p, NEW s, NEW v
  PROVE  /\ IsFiniteSet({p} \X Naming(s, v))
         /\ Cardinality(Naming(s, v)) \in Nat
         /\ Cardinality({p} \X Naming(s, v)) = Cardinality(Naming(s, v))
<1>1. IsFiniteSet(Slots)
  BY FS_Interval DEF Slots
<1>2. IsFiniteSet(Naming(s, v))
  <2>1. Naming(s, v) \in SUBSET Slots
    BY DEF Naming
  <2> QED
    BY <1>1, <2>1, FS_Subset
<1>3. Cardinality(Naming(s, v)) \in Nat
  BY <1>2, FS_CardinalityType
<1>4. IsFiniteSet({p}) /\ Cardinality({p}) = 1
  BY FS_Singleton
<1>5. /\ IsFiniteSet({p} \X Naming(s, v))
      /\ Cardinality({p} \X Naming(s, v)) = 1 * Cardinality(Naming(s, v))
  BY <1>2, <1>4, FS_Product
<1> QED
  BY <1>3, <1>5

\* A child nobody counts is held by nobody and named by nobody.
LEMMA Unreached ==
  ASSUME Inv, NEW v \in Children
  PROVE  /\ ref_count[v] \in Nat
         /\ ref_count[v] = 0 <=> v \notin held /\ Namings(v) = {}
<1>1. ref_count[v] = (IF v \in held THEN 1 ELSE 0) + Cardinality(Namings(v))
  BY DEF Inv, RefCountsExact
<1>2. IsFiniteSet(Namings(v)) /\ Cardinality(Namings(v)) \in Nat
  BY FiniteNamings
<1>3. Cardinality(Namings(v)) = 0 <=> Namings(v) = {}
  BY <1>2, FS_EmptySet
<1> QED
  BY <1>1, <1>2, <1>3

-----------------------------------------------------------------------------
(* The steps                                                               *)

\* Nothing is allocated at first.
LEMMA InitInv == SharedInit => Inv
<1> SUFFICES ASSUME SharedInit PROVE Inv
  OBVIOUS
<1>1. Shape
  BY DEF SharedInit, Shape, NoSlots
<1>2. ASSUME NEW v \in Children
      PROVE  ref_count[v] =
               (IF v \in held THEN 1 ELSE 0) + Cardinality(Namings(v))
  <2>1. Namings(v) = {}
    BY DEF SharedInit, Namings, NoSlots
  <2> QED
    BY <2>1, FS_EmptySet DEF SharedInit
<1> QED
  BY <1>1, <1>2 DEF Inv, RefCountsExact

\* Creating a child: it was unreached.
LEMMA CreateChildInv ==
  ASSUME Inv, NEW w \in Children, CreateChild(w)
  PROVE  Inv'
<1>1. Shape'
  BY DEF Inv, Shape, CreateChild
<1>2. ASSUME NEW v \in Children
      PROVE  ref_count'[v] =
               (IF v \in held' THEN 1 ELSE 0) + Cardinality(Namings(v)')
  <2>1. Namings(v)' = Namings(v)
    BY DEF CreateChild, Namings
  <2>2. ref_count[v] = (IF v \in held THEN 1 ELSE 0) + Cardinality(Namings(v))
    BY DEF Inv, RefCountsExact
  <2>3. Cardinality(Namings(v)) \in Nat
    BY FiniteNamings
  <2>4. w \notin held /\ ref_count[w] = 0
    BY Unreached DEF CreateChild
  <2> QED
    BY <2>1, <2>2, <2>3, <2>4 DEF CreateChild, Inv, Shape
<1> QED
  BY <1>1, <1>2 DEF Inv, RefCountsExact

\* Destroying a child drops the application's reference and no other.
LEMMA DestroyChildInv ==
  ASSUME Inv, NEW w \in Children, DestroyChild(w)
  PROVE  Inv'
<1>1. Shape'
  BY DEF Inv, Shape, DestroyChild
<1>2. ASSUME NEW v \in Children
      PROVE  ref_count'[v] =
               (IF v \in held' THEN 1 ELSE 0) + Cardinality(Namings(v)')
  <2>1. Namings(v)' = Namings(v)
    BY DEF DestroyChild, Namings
  <2>2. ref_count[v] = (IF v \in held THEN 1 ELSE 0) + Cardinality(Namings(v))
    BY DEF Inv, RefCountsExact
  <2>3. Cardinality(Namings(v)) \in Nat
    BY FiniteNamings
  <2> QED
    BY <2>1, <2>2, <2>3 DEF DestroyChild, Inv, Shape
<1> QED
  BY <1>1, <1>2 DEF Inv, RefCountsExact

\* Creating a parent adds its slots to the namings, all of them new.
LEMMA CreateParentInv ==
  ASSUME Inv, NEW p \in Parents, NEW named \in [Slots -> Children \cup {NULL}],
         CreateParent(p, named)
  PROVE  Inv'
<1>0. ASSUME NEW v \in Children
      PROVE  Cardinality(Naming(named, v)) \in Nat
  BY NamingsOfOne
<1>1. Shape'
  BY <1>0 DEF Inv, Shape, CreateParent, Retained
<1>2. ASSUME NEW v \in Children
      PROVE  ref_count'[v] =
               (IF v \in held' THEN 1 ELSE 0) + Cardinality(Namings(v)')
  <2> DEFINE New == {p} \X Naming(named, v)
  <2>1. slots[p] = NoSlots /\ slots' = [slots EXCEPT ![p] = named]
    BY DEF Inv, Shape, CreateParent
  <2>2. Namings(v) \cap New = {}
    BY <2>1 DEF Namings, NoSlots, Naming
  <2>3. Namings(v)' = Namings(v) \cup New
    BY <2>1 DEF Namings, Naming, NoSlots, Inv, Shape
  <2>4. IsFiniteSet(Namings(v)) /\ Cardinality(Namings(v)) \in Nat
    BY FiniteNamings
  <2>5. IsFiniteSet(New)
    BY NamingsOfOne, Zenon
  <2>6. Cardinality(Namings(v)') =
          Cardinality(Namings(v)) + Cardinality(Naming(named, v))
    <3>1. Cardinality(New) = Cardinality(Naming(named, v))
      BY NamingsOfOne
    <3> HIDE DEF New
    <3>2. Cardinality(Namings(v) \cup New) =
            Cardinality(Namings(v)) + Cardinality(New)
              - Cardinality(Namings(v) \cap New)
      BY <2>4, <2>5, FS_Union
    <3>3. Cardinality(Namings(v) \cap New) = 0
      BY <2>2, FS_EmptySet
    <3> QED
      BY <1>0, <2>3, <2>4, <3>1, <3>2, <3>3
  <2>7. ref_count[v] = (IF v \in held THEN 1 ELSE 0) + Cardinality(Namings(v))
    BY DEF Inv, RefCountsExact
  <2>8. ref_count'[v] = ref_count[v] + Cardinality(Naming(named, v))
    BY DEF CreateParent, Retained
  <2> QED
    BY <1>0, <2>4, <2>6, <2>7, <2>8 DEF CreateParent
<1> QED
  BY <1>1, <1>2 DEF Inv, RefCountsExact

\* Destroying a parent takes exactly its slots away.
LEMMA DestroyParentInv ==
  ASSUME Inv, NEW p \in Parents, DestroyParent(p)
  PROVE  Inv'
<1>0. ASSUME NEW v \in Children
      PROVE  Cardinality(Naming(slots[p], v)) \in Nat
  BY NamingsOfOne
<1>1. Shape'
  BY <1>0 DEF Inv, Shape, DestroyParent, Released, NoSlots
<1>2. ASSUME NEW v \in Children
      PROVE  ref_count'[v] =
               (IF v \in held' THEN 1 ELSE 0) + Cardinality(Namings(v)')
  <2> DEFINE Old == {p} \X Naming(slots[p], v)
  <2>1. slots' = [slots EXCEPT ![p] = NoSlots]
    BY DEF DestroyParent
  <2>2. Namings(v) \cap Old = Old
    BY DEF Namings, Naming
  <2>3. Namings(v)' = Namings(v) \ Old
    BY <2>1 DEF Namings, Naming, NoSlots, Inv, Shape
  <2>4. IsFiniteSet(Namings(v)) /\ Cardinality(Namings(v)) \in Nat
    BY FiniteNamings
  <2>5. Cardinality(Old) = Cardinality(Naming(slots[p], v))
    BY NamingsOfOne
  <2>6. Cardinality(Namings(v)') =
          Cardinality(Namings(v)) - Cardinality(Naming(slots[p], v))
    <3> HIDE DEF Old
    <3>1. Cardinality(Namings(v) \ Old) =
            Cardinality(Namings(v)) - Cardinality(Namings(v) \cap Old)
      BY <2>4, FS_Difference
    <3> QED
      BY <2>2, <2>3, <2>5, <3>1
  <2>7. ref_count[v] = (IF v \in held THEN 1 ELSE 0) + Cardinality(Namings(v))
    BY DEF Inv, RefCountsExact
  <2>8. ref_count'[v] = ref_count[v] - Cardinality(Naming(slots[p], v))
    BY DEF DestroyParent, Released
  <2> QED
    BY <1>0, <2>4, <2>6, <2>7, <2>8 DEF DestroyParent
<1> QED
  BY <1>1, <1>2 DEF Inv, RefCountsExact

\* Every step keeps the invariant.
LEMMA StepInv == Inv /\ [SharedNext]_sharedVars => Inv'
<1> SUFFICES ASSUME Inv, [SharedNext]_sharedVars PROVE Inv'
  OBVIOUS
<1>1. CASE \E v \in Children : CreateChild(v)
  BY <1>1, CreateChildInv
<1>2. CASE \E v \in Children : DestroyChild(v)
  BY <1>2, DestroyChildInv
<1>3. CASE \E p \in Parents : \E named \in [Slots -> Children \cup {NULL}] :
             CreateParent(p, named)
  BY <1>3, CreateParentInv
<1>4. CASE \E p \in Parents : DestroyParent(p)
  BY <1>4, DestroyParentInv
<1>5. CASE UNCHANGED sharedVars
  BY <1>5 DEF sharedVars, Inv, Shape, RefCountsExact, Namings
<1> QED
  BY <1>1, <1>2, <1>3, <1>4, <1>5 DEF SharedNext

\* The reference count of an image view or a descriptor set layout is always
\* the number of those who can still reach it.
THEOREM RefCountsAreExact == SharedSpec => []RefCountsExact
<1>1. SharedSpec => []Inv
  BY InitInv, StepInv, PTL DEF SharedSpec
<1> QED
  BY <1>1, PTL DEF Inv

-----------------------------------------------------------------------------
(* Refinement                                                              *)

\* A child is alive exactly when somebody reaches it.
AliveWhenReached == \A v \in Children : v \in Alive <=> Reachers(v) # {}

\* The invariant says so in this state ...
LEMMA AliveIsReached == Inv => AliveWhenReached
<1> SUFFICES ASSUME Inv, NEW v \in Children
             PROVE  v \in Alive <=> Reachers(v) # {}
  BY DEF AliveWhenReached
<1> QED
  BY Unreached DEF Alive, Reachers

\* ... and so in the next.
LEMMA AliveIsReachedNext == Inv' => AliveWhenReached'
BY AliveIsReached, PTL

\* The function the refinement mapping gives to Reachability.
ReachersOf == [v \in Children |-> Reachers(v)]

\* A created child appears in the abstract set.
LEMMA CreateChildAppears ==
  ASSUME Inv, Inv', NEW w \in Children, CreateChild(w)
  PROVE  Reach!Appear(w)
<1>1. ASSUME NEW v \in Children
      PROVE  Namings(v)' = Namings(v)
  BY DEF CreateChild, Namings
<1>2. w \notin Alive /\ Alive' = Alive \cup {w}
  BY DEF CreateChild, Alive, Inv, Shape
<1>3. Reachers(w)' # {}
  BY <1>2, AliveIsReachedNext DEF AliveWhenReached
<1>4. ASSUME NEW v \in Children \ {w}
      PROVE  Reachers(v)' = Reachers(v)
  BY <1>1 DEF Reachers, CreateChild
<1> QED
  BY <1>2, <1>3, <1>4 DEF Reach!Appear

\* Creating a parent only adds reachers, and only to living children.
LEMMA CreateParentGains ==
  ASSUME Inv, Inv', NEW p \in Parents, NEW named \in [Slots -> Children \cup {NULL}],
         CreateParent(p, named)
  PROVE  Reach!Gain
<1>1. slots[p] = NoSlots /\ slots' = [slots EXCEPT ![p] = named] /\ held' = held
  BY DEF Inv, Shape, CreateParent
<1>2. ASSUME NEW v \in Children
      PROVE  Reachers(v) \subseteq Reachers(v)'
  <2>1. Namings(v) \subseteq Namings(v)'
    BY <1>1 DEF Namings, NoSlots, Inv, Shape
  <2> QED
    BY <1>1, <2>1 DEF Reachers
<1>3. ASSUME NEW v \in Children \ Alive
      PROVE  Reachers(v)' = {}
  <2>1. v \notin held /\ Namings(v) = {}
    BY AliveIsReached DEF Reachers, AliveWhenReached
  <2>2. Namings(v)' = {}
    BY <1>1, <2>1 DEF Namings, CreateParent, Inv, Shape
  <2> QED
    BY <1>1, <2>1, <2>2 DEF Reachers
<1>4. ASSUME NEW v \in Children
      PROVE  v \in Alive' <=> v \in Alive
  BY <1>2, <1>3, AliveIsReached, AliveIsReachedNext DEF AliveWhenReached
<1>5. Alive' = Alive
  BY <1>4 DEF Alive
<1> QED
  BY <1>2, <1>3, <1>5 DEF Reach!Gain

\* Whoever only drops reachers loses exactly the children nobody reaches.
LEMMA DroppingLoses ==
  ASSUME Inv, Inv',
         \A v \in Children : Reachers(v)' \subseteq Reachers(v)
  PROVE  Reach!Lose
<1>1. ASSUME NEW v \in Children
      PROVE  v \in Alive' <=> v \in Alive /\ Reachers(v)' # {}
  BY AliveIsReached, AliveIsReachedNext DEF AliveWhenReached
<1>2. Alive' = {v \in Alive : Reachers(v)' # {}}
  BY <1>1 DEF Alive
<1>3. Alive \subseteq Children
  BY DEF Alive
<1> QED
  BY <1>2, <1>3 DEF Reach!Lose

\* Destroying a child's handle only removes a reacher.
LEMMA DestroyChildLoses ==
  ASSUME Inv, Inv', NEW w \in Children, DestroyChild(w)
  PROVE  Reach!Lose
<1>1. ASSUME NEW v \in Children
      PROVE  Reachers(v)' \subseteq Reachers(v)
  BY DEF DestroyChild, Reachers, Namings
<1> QED
  BY <1>1, DroppingLoses

\* Destroying a parent only removes reachers.
LEMMA DestroyParentLoses ==
  ASSUME Inv, Inv', NEW p \in Parents, DestroyParent(p)
  PROVE  Reach!Lose
<1>1. slots' = [slots EXCEPT ![p] = NoSlots] /\ held' = held
  BY DEF DestroyParent
<1>2. ASSUME NEW v \in Children
      PROVE  Reachers(v)' \subseteq Reachers(v)
  <2>1. Namings(v)' \subseteq Namings(v)
    BY <1>1 DEF Namings, NoSlots, Inv, Shape
  <2> QED
    BY <1>1, <2>1 DEF Reachers
<1> QED
  BY <1>2, DroppingLoses

\* Every step maps to a step of Reachability, or to none.
LEMMA NextReaches ==
  Inv /\ Inv' /\ [SharedNext]_sharedVars
    => [Reach!ReachNext]_<<Alive, ReachersOf>>
<1> SUFFICES ASSUME Inv, Inv', [SharedNext]_sharedVars
             PROVE  [Reach!ReachNext]_<<Alive, ReachersOf>>
  OBVIOUS
<1>1. CASE \E v \in Children : CreateChild(v)
  BY <1>1, CreateChildAppears DEF Reach!ReachNext
<1>2. CASE \E v \in Children : DestroyChild(v)
  BY <1>2, DestroyChildLoses DEF Reach!ReachNext
<1>3. CASE \E p \in Parents : \E named \in [Slots -> Children \cup {NULL}] :
             CreateParent(p, named)
  BY <1>3, CreateParentGains DEF Reach!ReachNext
<1>4. CASE \E p \in Parents : DestroyParent(p)
  BY <1>4, DestroyParentLoses DEF Reach!ReachNext
<1>5. CASE UNCHANGED sharedVars
  BY <1>5 DEF sharedVars, Alive, ReachersOf, Reachers, Namings
<1> QED
  BY <1>1, <1>2, <1>3, <1>4, <1>5 DEF SharedNext

\* Initial states map to initial states.
LEMMA InitReaches == SharedInit => Reach!ReachInit
<1> SUFFICES ASSUME SharedInit PROVE Reach!ReachInit
  OBVIOUS
<1>1. Inv /\ Alive = {}
  BY InitInv DEF SharedInit, Alive
<1>2. ASSUME NEW v \in Children PROVE Reachers(v) = {}
  BY <1>1, AliveIsReached DEF AliveWhenReached
<1> QED
  BY <1>1, <1>2 DEF Reach!ReachInit

\* Image views under framebuffers, and set layouts under pipeline layouts, live
\* exactly as long as somebody can reach them.
THEOREM LivesWhileReached == SharedSpec => ImplementsReachability
<1>1. SharedSpec => []Inv
  BY InitInv, StepInv, PTL DEF SharedSpec
<1>2. SharedSpec => [][Reach!ReachNext]_<<Alive, ReachersOf>>
  BY <1>1, NextReaches, PTL DEF SharedSpec
<1> QED
  BY <1>2, InitReaches, PTL
  DEF SharedSpec, ImplementsReachability, Reach!ReachSpec, ReachersOf

=============================================================================
