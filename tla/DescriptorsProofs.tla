--------------------------- MODULE DescriptorsProofs ---------------------------
(***************************************************************************)
(* Descriptor sets and bind groups are neither lost nor out of date, for   *)
(* any number of sets, any layouts and calls, and tables of any size.      *)
(***************************************************************************)
EXTENDS Descriptors, FiniteSetTheorems, WellFoundedInduction, Functions, TLAPS

\* The sets of the application have a layout that has been created.
Laid ==
  \A s \in owned : layout[s] \in Layouts /\ declared[layout[s]] # NULL

\* The writes of the call in progress are ones the application may make: no
\* call comes between that takes a set away.
Placed(w) == \A i \in DOMAIN w.infos : w.binding + i - 1 \in Bindings
InProgress ==
  \A i \in DOMAIN pending : pending[i].set \in owned /\ Placed(pending[i])

\* The entries of a set say what was last written, in the middle of an update
\* too, and its bind group is made of them, except while it is being updated.
Truthful ==
  /\ \A s \in owned : regular[s] => Describes(entries[s], s)
  /\ \A s \in owned :
       ~Updating(s) /\ wgpu_bind_group[s] # NULL => wgpu_bind_group[s] = entries[s]

Inv == DescriptorTypeOK /\ NothingLost /\ Laid /\ InProgress /\ Truthful

USE DescriptorAssumption

-----------------------------------------------------------------------------
(* Counting bind groups                                                    *)

Grouped == {s \in live : wgpu_bind_group[s] # NULL}

\* There are finitely many.
LEMMA FiniteGroups ==
  ASSUME DescriptorTypeOK
  PROVE  IsFiniteSet(Grouped) /\ Cardinality(Grouped) \in Nat
<1>1. Grouped \in SUBSET Sets
  BY DEF Grouped, DescriptorTypeOK
<1>2. IsFiniteSet(Grouped)
  BY <1>1, FS_Subset
<1> QED
  BY <1>2, FS_CardinalityType

-----------------------------------------------------------------------------
(* The steps                                                               *)

LEMMA InitInv == DescriptorInit => Inv
<1> SUFFICES ASSUME DescriptorInit PROVE Inv
  OBVIOUS
<1>1. DescriptorTypeOK
  BY DEF DescriptorInit, DescriptorTypeOK, Unpromised
<1>2. NothingLost
  <2>1. {s \in live : wgpu_bind_group[s] # NULL} = {}
    BY DEF DescriptorInit
  <2> QED
    BY <2>1, FS_EmptySet DEF DescriptorInit, NothingLost
<1>3. Laid /\ InProgress /\ Truthful
  BY DEF DescriptorInit, Laid, InProgress, Truthful
<1> QED
  BY <1>1, <1>2, <1>3 DEF Inv

\* Nothing is said about what does not change.
LEMMA StutterInv ==
  ASSUME Inv, UNCHANGED descriptorVars
  PROVE  Inv'
<1> USE DEF descriptorVars, layoutVars, setVars, historyVars
<1>1. DescriptorTypeOK' /\ NothingLost' /\ Laid'
  BY DEF Inv, DescriptorTypeOK, NothingLost, Laid
<1>2. InProgress' /\ Truthful'
  BY DEF Inv, InProgress, Truthful, Placed, Describes, Updating, Idle
<1> QED
  BY <1>1, <1>2 DEF Inv

\* A layout is created where there was none, so no set has it.
LEMMA CreateLayoutInv ==
  ASSUME Inv, NEW l \in Layouts, NEW d \in Declarations, NEW given \in BOOLEAN,
         CreateDescriptorSetLayout(l, d, given)
  PROVE  Inv'
<1> USE DEF CreateDescriptorSetLayout, setVars, historyVars
<1>1. DescriptorTypeOK'
  BY DEF Inv, DescriptorTypeOK
<1>2. NothingLost'
  BY DEF Inv, NothingLost
<1>3. Laid'
  BY DEF Inv, Laid, DescriptorTypeOK
<1>4. InProgress' /\ Truthful'
  BY DEF Inv, InProgress, Truthful, Placed, Describes, Updating, Idle
<1> QED
  BY <1>1, <1>2, <1>3, <1>4 DEF Inv

\* Sets are allocated where there were none, with empty tables and no groups.
LEMMA AllocateInv ==
  ASSUME Inv, NEW out \in Arrays(Sets), NEW ls \in [DOMAIN out -> Layouts],
         AllocateDescriptorSets(out, ls)
  PROVE  Inv'
<1> DEFINE given == {out[i] : i \in DOMAIN out}
           At(s) == CHOOSE i \in DOMAIN out : out[i] = s
<1>1. given \subseteq Sets /\ given \cap live = {}
  BY DEF AllocateDescriptorSets, Allocatable, Arrays
<1>2. \A s \in given : ls[At(s)] \in Layouts /\ declared[ls[At(s)]] # NULL
  BY DEF AllocateDescriptorSets, Allocatable
<1>3. /\ live' = live \cup given /\ owned' = owned \cup given
      /\ layout' = [s \in Sets |-> IF s \in given THEN ls[At(s)] ELSE layout[s]]
      /\ entries' = [s \in Sets |-> IF s \in given THEN << >> ELSE entries[s]]
      /\ wgpu_bind_group' =
           [s \in Sets |-> IF s \in given THEN NULL ELSE wgpu_bind_group[s]]
      /\ promised' = [s \in Sets |-> IF s \in given THEN Unpromised ELSE promised[s]]
      /\ regular' = [s \in Sets |-> s \in given \/ regular[s]]
      /\ pending = << >> /\ pending' = pending
      /\ UNCHANGED << declared, wgpu_layout, groups_held, index >>
  BY DEF AllocateDescriptorSets, Allocatable, Idle, layoutVars
<1> HIDE DEF given, At
<1>4. DescriptorTypeOK'
  <2>1. /\ layout' \in [Sets -> Layouts \cup {NULL}]
        /\ live' \subseteq Sets /\ owned' \subseteq Sets
    BY <1>1, <1>2, <1>3 DEF Inv, DescriptorTypeOK
  <2>2. entries' \in [Sets -> Seq(Entry)] /\ \A s \in Sets : Len(entries'[s]) <= MaxEntries
    BY <1>3 DEF Inv, DescriptorTypeOK
  <2>3. /\ wgpu_bind_group' \in [Sets -> Seq(Entry) \cup {NULL}]
        /\ promised' \in [Sets -> [Bindings -> Resources \cup {NULL}]]
        /\ regular' \in [Sets -> BOOLEAN]
    BY <1>3 DEF Inv, DescriptorTypeOK, Unpromised
  <2> QED
    BY <1>3, <2>1, <2>2, <2>3 DEF Inv, DescriptorTypeOK
<1>5. NothingLost'
  <2>1. {s \in live' : wgpu_bind_group'[s] # NULL} = {s \in live : wgpu_bind_group[s] # NULL}
    BY <1>1, <1>3 DEF Inv, DescriptorTypeOK
  <2> QED
    BY <1>3, <2>1 DEF Inv, NothingLost
<1>6. Laid'
  BY <1>1, <1>2, <1>3 DEF Inv, Laid, DescriptorTypeOK
<1>7. InProgress'
  BY <1>3 DEF InProgress
<1>8. Truthful'
  <2>1. ASSUME NEW s \in owned', regular'[s] PROVE Describes(entries[s], s)'
    <3>1. CASE s \in given
      <4>1. entries'[s] = << >> /\ promised'[s] = Unpromised
        BY <1>1, <1>3, <3>1
      <4> QED
        BY <4>1 DEF Describes, Unpromised
    <3>2. CASE s \notin given
      <4>1. s \in owned /\ s \in Sets
        BY <1>3, <3>2 DEF Inv, DescriptorTypeOK
      <4>2. /\ entries'[s] = entries[s] /\ promised'[s] = promised[s]
            /\ regular[s]
        BY <1>3, <2>1, <3>2, <4>1
      <4>3. Describes(entries[s], s)
        BY <4>1, <4>2 DEF Inv, Truthful
      <4> QED
        BY <4>2, <4>3 DEF Describes
    <3> QED
      BY <3>1, <3>2
  <2>2. ASSUME NEW s \in owned', wgpu_bind_group'[s] # NULL
        PROVE  wgpu_bind_group'[s] = entries'[s]
    BY <1>1, <1>3, <2>2 DEF Inv, DescriptorTypeOK, Truthful, Updating, Idle
  <2> QED
    BY <2>1, <2>2 DEF Truthful
<1> QED
  BY <1>4, <1>5, <1>6, <1>7, <1>8 DEF Inv

\* A failed allocation releases all it has allocated.
LEMMA OutOfMemoryInv ==
  ASSUME Inv, NEW out, NEW ls, AllocateOutOfMemory(out, ls)
  PROVE  Inv'
<1>1. live' = live
  BY DEF AllocateOutOfMemory, ReleasedOnFailure
<1>2. UNCHANGED descriptorVars
  BY <1>1 DEF AllocateOutOfMemory, descriptorVars, layoutVars, setVars, historyVars
<1> QED
  BY <1>2, StutterInv

\* Freeing a set takes its bind group with it.
LEMMA FreeInv ==
  ASSUME Inv, NEW s \in Sets, FreeDescriptorSet(s)
  PROVE  Inv'
<1> USE DEF FreeDescriptorSet, layoutVars, historyVars
<1>1. IsFiniteSet(Grouped) /\ Cardinality(Grouped) \in Nat
  BY FiniteGroups DEF Inv
<1>2. groups_held = Cardinality(Grouped) /\ s \in live
  BY DEF Inv, NothingLost, Grouped
<1>3. Grouped' = Grouped \ {s}
  BY DEF Inv, DescriptorTypeOK, Grouped
<1>4. groups_held' = Cardinality(Grouped') /\ groups_held' \in Nat
  <2>1. CASE s \in Grouped
    <3>1. Cardinality(Grouped \ {s}) = Cardinality(Grouped) - 1
      BY <1>1, <2>1, FS_RemoveElement
    <3>2. IsFiniteSet(Grouped \ {s})
      BY <1>1, FS_RemoveElement
    <3>3. Cardinality(Grouped \ {s}) \in Nat
      BY <3>2, FS_CardinalityType
    <3>4. groups_held' = groups_held - 1
      BY <2>1 DEF HeldWithout, Grouped
    <3> QED
      BY <1>2, <1>3, <3>1, <3>3, <3>4
  <2>2. CASE s \notin Grouped
    <3>1. Grouped \ {s} = Grouped
      BY <2>2
    <3>2. groups_held' = groups_held
      BY <1>1, <1>2, <2>2 DEF HeldWithout, Grouped
    <3> QED
      BY <1>1, <1>2, <1>3, <3>1, <3>2
  <2> QED
    BY <2>1, <2>2
<1>5. DescriptorTypeOK'
  BY <1>4 DEF Inv, DescriptorTypeOK
<1>6. NothingLost'
  BY <1>4 DEF Inv, NothingLost, Grouped
<1>7. Laid'
  BY DEF Inv, Laid
<1>8. InProgress' /\ Truthful'
  BY DEF Inv, DescriptorTypeOK, InProgress, Truthful, Describes, Updating, Idle
<1> QED
  BY <1>5, <1>6, <1>7, <1>8 DEF Inv

\* A call begins with writes that its sets' layouts declare.
LEMMA UpdateInv ==
  ASSUME Inv, NEW call \in Calls, UpdateDescriptorSets(call)
  PROVE  Inv'
<1> USE DEF UpdateDescriptorSets, layoutVars, setVars, historyVars
<1>1. call \in Seq(Write)
  OBVIOUS
<1>2. DescriptorTypeOK'
  BY <1>1 DEF Inv, DescriptorTypeOK, Idle
<1>3. NothingLost' /\ Laid'
  BY DEF Inv, NothingLost, Laid
<1>4. InProgress'
  <2>1. ASSUME NEW i \in DOMAIN call
        PROVE  call[i].set \in owned /\ Placed(call[i])
    <3>1. Permitted(call[i]) /\ call[i].set \in owned
      BY DEF Permitted
    <3>2. declared[layout[call[i].set]] \in Seq(Declaration)
      BY <3>1 DEF Inv, DescriptorTypeOK, Laid
    <3>3. ASSUME NEW k \in DOMAIN call[i].infos
          PROVE  call[i].binding + k - 1 \in Bindings
      <4>1. PICK j \in DOMAIN declared[layout[call[i].set]] :
              declared[layout[call[i].set]][j] =
                [binding |-> call[i].binding + k - 1, type |-> call[i].type]
        BY <3>1 DEF Permitted
      <4>2. declared[layout[call[i].set]][j] \in Declaration
        BY <3>2
      <4> QED
        BY <4>1, <4>2 DEF Declaration
    <3> QED
      BY <3>1, <3>3 DEF Placed
  <2> QED
    BY <2>1 DEF InProgress, Placed
<1>5. Truthful'
  <2>1. \A s \in owned : ~Updating(s)
    BY DEF Updating
  <2> QED
    BY <2>1 DEF Inv, Truthful, Describes
<1> QED
  BY <1>2, <1>3, <1>4, <1>5 DEF Inv

\* The first of the writes, and the set it goes to.
LEMMA FirstWrite ==
  ASSUME Inv, ~Idle
  PROVE  /\ Head(pending) \in Write /\ Head(pending).set \in owned
         /\ Head(pending).set \in Sets
         /\ Placed(Head(pending))
         /\ Head(pending) = pending[1] /\ 1 \in DOMAIN pending
<1>1. pending \in Seq(Write) /\ pending # << >>
  BY DEF Inv, DescriptorTypeOK, Idle
<1>2. Head(pending) = pending[1] /\ 1 \in DOMAIN pending /\ Head(pending) \in Write
  BY <1>1
<1> QED
  BY <1>2 DEF Inv, InProgress, Write

\* A descriptor is appended to the entries, or left out of them.
LEMMA WriteInv ==
  ASSUME Inv, WriteDescriptor
  PROVE  Inv'
<1> DEFINE w == Head(pending)
           s == w.set
           r == w.infos[index + 1]
           b == w.binding + index
<1>1. /\ w \in Write /\ s \in owned /\ s \in Sets /\ Placed(w) /\ ~Idle
  BY FirstWrite DEF WriteDescriptor
<1>2. index + 1 \in DOMAIN w.infos /\ r \in Resources /\ index \in Nat
  BY <1>1 DEF WriteDescriptor, Write, Inv, DescriptorTypeOK
<1>3. b \in Bindings
  <2>1. w.binding + (index + 1) - 1 \in Bindings
    BY <1>1, <1>2 DEF Placed
  <2> QED
    BY <1>1, <1>2, <2>1 DEF Write
<1>4. /\ entries' = [entries EXCEPT ![s] = EntriesAfter(s, w, r)]
      /\ promised' = [promised EXCEPT ![s][b] = r]
      /\ regular' = [regular EXCEPT ![s] = @ /\ Supported(s, w, r)]
      /\ index' = index + 1 /\ ~Full(s)
      /\ UNCHANGED << declared, wgpu_layout, live, layout, wgpu_bind_group, groups_held,
                      owned, pending >>
  BY DEF WriteDescriptor, layoutVars
<1>5. entries[s] \in Seq(Entry) /\ Len(entries[s]) < MaxEntries
  BY <1>1, <1>4 DEF Full, Inv, DescriptorTypeOK
<1>6. Supported(s, w, r) =>
        /\ promised[s][b] = NULL
        /\ entries'[s] = Append(entries[s], [binding |-> b, type |-> w.type, resource |-> r])
  BY <1>1, <1>4 DEF Supported, EntriesAfter, BindingOf, Inv, DescriptorTypeOK, Written
<1>7. /\ entries'[s] \in Seq(Entry)
      /\ Len(entries'[s]) <= MaxEntries
  <2>1. entries'[s] = EntriesAfter(s, w, r)
    BY <1>1, <1>4 DEF Inv, DescriptorTypeOK
  <2>2. CASE w.type \in Written /\ r \in Usable
    <3>1. [binding |-> b, type |-> w.type, resource |-> r] \in Entry
      BY <1>2, <1>3, <2>2 DEF Entry
    <3> QED
      BY <1>5, <2>1, <2>2, <3>1 DEF EntriesAfter, BindingOf
  <2>3. CASE ~(w.type \in Written /\ r \in Usable)
    BY <1>5, <2>1, <2>3 DEF EntriesAfter
  <2> QED
    BY <2>2, <2>3
<1>8. /\ promised' \in [Sets -> [Bindings -> Resources \cup {NULL}]]
      /\ promised'[s] = [promised[s] EXCEPT ![b] = r]
      /\ \A t \in Sets \ {s} : promised'[t] = promised[t] /\ entries'[t] = entries[t]
                                /\ regular'[t] = regular[t]
  BY <1>1, <1>2, <1>4 DEF Inv, DescriptorTypeOK
<1>9. regular'[s] => regular[s] /\ Supported(s, w, r)
  BY <1>1, <1>4 DEF Inv, DescriptorTypeOK
<1>10. index' <= Len(w.infos) /\ index' \in Nat
  BY <1>1, <1>2, <1>4 DEF Write
<1>11. \A t \in owned : Updating(t)' = Updating(t)
  BY <1>4 DEF Updating, Idle
<1>12. Updating(s)
  BY <1>1 DEF Updating
<1>13. pending # << >>
  BY <1>1 DEF Idle
<1>14. r # NULL
  BY <1>2
<1>15. regular' \in [Sets -> BOOLEAN] /\ entries' \in [Sets -> Seq(Entry)]
  BY <1>1, <1>4, <1>7, <1>8 DEF Inv, DescriptorTypeOK, Supported
<1> HIDE DEF s, r, b
<1>16. DescriptorTypeOK'
  BY <1>1, <1>4, <1>5, <1>7, <1>8, <1>10, <1>13, <1>15 DEF Inv, DescriptorTypeOK
<1>17. NothingLost' /\ Laid' /\ InProgress'
  BY <1>4 DEF Inv, NothingLost, Laid, InProgress, Placed
<1>18. Truthful'
  <2>1. ASSUME NEW t \in owned, regular'[t]
        PROVE  Describes(entries[t], t)'
    <3>1. CASE t # s
      <4>1. t \in Sets
        BY DEF Inv, DescriptorTypeOK
      <4>2. promised'[t] = promised[t] /\ entries'[t] = entries[t] /\ regular[t]
        BY <1>8, <2>1, <3>1, <4>1
      <4>3. Describes(entries[t], t)
        BY <4>2 DEF Inv, Truthful
      <4> QED
        BY <4>2, <4>3 DEF Describes
    <3>2. CASE t = s
      <4> DEFINE old == entries[s]
                 e == [binding |-> b, type |-> w.type, resource |-> r]
      <4>1. /\ promised[s][b] = NULL /\ entries'[s] = Append(old, e) /\ regular[s]
        BY <1>6, <1>9, <2>1, <3>2
      <4>2. Describes(old, s)
        BY <1>1, <4>1 DEF Inv, Truthful
      <4>3. \A i \in DOMAIN old :
              /\ old[i] \in Entry /\ old[i].binding \in Bindings
              /\ promised[s][old[i].binding] = old[i].resource
              /\ old[i].resource # NULL
        <5>1. ASSUME NEW i \in DOMAIN old
              PROVE  old[i] \in Entry
          BY <1>5
        <5>2. ASSUME NEW i \in DOMAIN old
              PROVE  old[i].binding \in Bindings /\ old[i].resource # NULL
          BY <5>1 DEF Entry
        <5>3. \A i \in DOMAIN old : promised[s][old[i].binding] = old[i].resource
          BY <4>2 DEF Describes
        <5> QED
          BY <5>1, <5>2, <5>3
      <4>4. \A i \in DOMAIN old : old[i].binding # b
        BY <4>1, <4>3
      <4>5. promised[s] \in [Bindings -> Resources \cup {NULL}]
        BY <1>1 DEF Inv, DescriptorTypeOK
      <4>6. /\ promised'[s][b] = r
            /\ \A c \in Bindings : c # b => promised'[s][c] = promised[s][c]
        BY <1>3, <1>8, <4>5
      <4>7. /\ Len(old) \in Nat /\ DOMAIN old = 1 .. Len(old)
            /\ DOMAIN entries'[s] = 1 .. Len(old) + 1
            /\ \A i \in DOMAIN old : entries'[s][i] = old[i]
            /\ entries'[s][Len(old) + 1] = e
        BY <1>5, <4>1
      <4>8. e.binding = b /\ e.resource = r
        OBVIOUS
      <4> HIDE DEF old, e
      <4>9. \A i \in DOMAIN entries'[s] : promised'[s][entries'[s][i].binding] = entries'[s][i].resource
        BY <4>3, <4>4, <4>6, <4>7, <4>8
      <4>10. \A i, j \in DOMAIN entries'[s] :
               entries'[s][i].binding = entries'[s][j].binding => i = j
        <5>1. \A i, j \in DOMAIN old : old[i].binding = old[j].binding => i = j
          BY <4>2 DEF Describes
        <5> QED
          BY <4>4, <4>7, <4>8, <5>1
      <4>11. \A c \in Bindings : promised'[s][c] # NULL =>
               \E i \in DOMAIN entries'[s] : entries'[s][i].binding = c
        <5>1. \A c \in Bindings : promised[s][c] # NULL =>
                \E i \in DOMAIN old : old[i].binding = c
          BY <4>2 DEF Describes
        <5>2. Len(old) + 1 \in DOMAIN entries'[s]
          BY <4>7
        <5> QED
          BY <4>6, <4>7, <4>8, <5>1, <5>2
      <4> QED
        BY <3>2, <4>9, <4>10, <4>11 DEF Describes
    <3> QED
      BY <3>1, <3>2
  <2>2. ASSUME NEW t \in owned, ~Updating(t), wgpu_bind_group[t] # NULL
        PROVE  wgpu_bind_group[t] = entries'[t]
    <3>1. t # s /\ t \in Sets
      BY <1>12, <2>2 DEF Inv, DescriptorTypeOK
    <3> QED
      BY <1>8, <2>2, <3>1 DEF Inv, Truthful
  <2> QED
    BY <1>4, <1>11, <2>1, <2>2 DEF Truthful
<1> QED
  BY <1>16, <1>17, <1>18 DEF Inv

\* The old bind group is exchanged for a new one, made of the entries.
LEMMA EndInv ==
  ASSUME Inv, EndOfWrite
  PROVE  Inv'
<1> DEFINE w == Head(pending)
           s == w.set
           new == IF wgpu_layout[layout[s]] = NULL THEN NULL ELSE entries[s]
<1>1. w \in Write /\ s \in owned /\ s \in Sets /\ ~Idle
  BY FirstWrite DEF EndOfWrite
<1>2. /\ wgpu_bind_group' = [wgpu_bind_group EXCEPT ![s] = new]
      /\ groups_held' = HeldAfterUpdate(s)
      /\ regular' = [regular EXCEPT ![s] = @ /\ index = Len(w.infos)]
      /\ pending' = Tail(pending) /\ index' = 0
      /\ UNCHANGED << declared, wgpu_layout, live, layout, entries, owned, promised >>
  BY DEF EndOfWrite, layoutVars, GroupOf
<1>3. /\ entries[s] \in Seq(Entry) /\ entries[s] # NULL
      /\ new \in Seq(Entry) \cup {NULL}
  BY <1>1 DEF Inv, DescriptorTypeOK
<1>4. pending \in Seq(Write) /\ pending # << >>
  BY <1>1 DEF Inv, DescriptorTypeOK, Idle
<1>5. /\ pending' \in Seq(Write)
      /\ \A i \in DOMAIN pending' : i + 1 \in DOMAIN pending /\ pending'[i] = pending[i + 1]
  BY <1>2, <1>4
<1>6. new = NULL <=> wgpu_layout[layout[s]] = NULL
  BY <1>3
<1>7. s \in live /\ groups_held = Cardinality(Grouped)
  BY <1>1 DEF Inv, NothingLost, Grouped
<1>8. IsFiniteSet(Grouped) /\ Cardinality(Grouped) \in Nat
  BY FiniteGroups DEF Inv
<1>9. Grouped' = IF new = NULL THEN Grouped \ {s} ELSE Grouped \cup {s}
  BY <1>1, <1>2, <1>7 DEF Inv, DescriptorTypeOK, Grouped
<1>10. s \in Grouped <=> wgpu_bind_group[s] # NULL
  BY <1>7 DEF Grouped
<1>11. groups_held' = (groups_held - (IF s \in Grouped THEN 1 ELSE 0))
                        + (IF new = NULL THEN 0 ELSE 1)
  BY <1>2, <1>6, <1>10 DEF HeldAfterUpdate, HeldWithout
<1> HIDE DEF s, new
<1>12. groups_held' = Cardinality(Grouped') /\ groups_held' \in Nat
  <2>1. /\ IsFiniteSet(Grouped \cup {s})
        /\ Cardinality(Grouped \cup {s}) = IF s \in Grouped THEN Cardinality(Grouped)
                                                           ELSE Cardinality(Grouped) + 1
    BY <1>8, FS_AddElement
  <2>2. /\ IsFiniteSet(Grouped \ {s})
        /\ Cardinality(Grouped \ {s}) = IF s \in Grouped THEN Cardinality(Grouped) - 1
                                                        ELSE Cardinality(Grouped)
    BY <1>8, FS_RemoveElement
  <2>3. Cardinality(Grouped \cup {s}) \in Nat /\ Cardinality(Grouped \ {s}) \in Nat
    BY <2>1, <2>2, FS_CardinalityType
  <2>4. groups_held' = IF new = NULL THEN Cardinality(Grouped \ {s})
                                     ELSE Cardinality(Grouped \cup {s})
    BY <1>7, <1>8, <1>11, <2>1, <2>2
  <2> QED
    BY <1>9, <2>3, <2>4
<1>13. DescriptorTypeOK'
  <2>1. /\ wgpu_bind_group' \in [Sets -> Seq(Entry) \cup {NULL}]
        /\ regular' \in [Sets -> BOOLEAN]
    BY <1>1, <1>2, <1>3 DEF Inv, DescriptorTypeOK
  <2> QED
    BY <1>2, <1>5, <1>12, <2>1 DEF Inv, DescriptorTypeOK
<1>14. NothingLost'
  BY <1>2, <1>12 DEF Inv, NothingLost, Grouped
<1>15. Laid'
  BY <1>2 DEF Inv, Laid
<1>16. InProgress'
  BY <1>2, <1>5 DEF Inv, InProgress, Placed
<1>17. Truthful'
  <2>1. ASSUME NEW t \in owned, regular'[t]
        PROVE  Describes(entries[t], t)'
    <3>1. regular[t]
      BY <1>1, <1>2, <2>1 DEF Inv, DescriptorTypeOK
    <3>2. Describes(entries[t], t)
      BY <3>1 DEF Inv, Truthful
    <3> QED
      BY <1>2, <3>2 DEF Describes
  <2>2. ASSUME NEW t \in owned, wgpu_bind_group'[t] # NULL
        PROVE  t # s => ~Updating(t) /\ wgpu_bind_group'[t] = wgpu_bind_group[t]
    <3>1. t \in Sets
      BY DEF Inv, DescriptorTypeOK
    <3>2. t # s => wgpu_bind_group'[t] = wgpu_bind_group[t]
      BY <1>2, <3>1 DEF Inv, DescriptorTypeOK
    <3>3. t # s => ~Updating(t)
      BY DEF Updating, s
    <3> QED
      BY <3>2, <3>3
  <2>3. wgpu_bind_group'[s] = NULL \/ wgpu_bind_group'[s] = entries[s]
    BY <1>1, <1>2 DEF Inv, DescriptorTypeOK, new
  <2>4. ASSUME NEW t \in owned, wgpu_bind_group'[t] # NULL
        PROVE  wgpu_bind_group'[t] = entries[t]
    BY <2>2, <2>3, <2>4 DEF Inv, Truthful
  <2> QED
    BY <1>2, <2>1, <2>4 DEF Truthful
<1> QED
  BY <1>13, <1>14, <1>15, <1>16, <1>17 DEF Inv

LEMMA NextInv ==
  ASSUME Inv, [DescriptorNext]_descriptorVars
  PROVE  Inv'
<1>1. CASE \E l \in Layouts, d \in Declarations, given \in BOOLEAN :
             CreateDescriptorSetLayout(l, d, given)
  BY <1>1, CreateLayoutInv
<1>2. CASE \E out \in Arrays(Sets) : \E ls \in [DOMAIN out -> Layouts] :
             AllocateDescriptorSets(out, ls) \/ AllocateOutOfMemory(out, ls)
  BY <1>2, AllocateInv, OutOfMemoryInv
<1>3. CASE \E s \in Sets : FreeDescriptorSet(s)
  BY <1>3, FreeInv
<1>4. CASE \E call \in Calls : UpdateDescriptorSets(call)
  BY <1>4, UpdateInv
<1>5. CASE WriteDescriptor
  BY <1>5, WriteInv
<1>6. CASE EndOfWrite
  BY <1>6, EndInv
<1>7. CASE UNCHANGED descriptorVars
  BY <1>7, StutterInv
<1> QED
  BY <1>1, <1>2, <1>3, <1>4, <1>5, <1>6, <1>7 DEF DescriptorNext

\* The invariant that the theorems below follow from: layouts, sets and bind
\* groups agree between calls and between the turns of an update.
THEOREM DescriptorsInvariant == DescriptorSpec => []Inv
BY InitInv, NextInv, PTL DEF DescriptorSpec

-----------------------------------------------------------------------------
(* What a reader should know                                               *)

\* The variables keep their types, and no set is given more entries than its
\* table has room for, whatever is written and how often.
THEOREM DescriptorTypes == DescriptorSpec => []DescriptorTypeOK
BY DescriptorsInvariant, PTL DEF Inv

\* No set and no bind group is lost: allocation that fails half way gives all
\* sets back, and every update and every free exactly one bind group.
THEOREM DescriptorsOwned == DescriptorSpec => []NothingLost
BY DescriptorsInvariant, PTL DEF Inv

\* Outside its updates, the bind group of a set that has been written in forms
\* the code supports is made of what was last written to each binding.
THEOREM DescriptorGroups == DescriptorSpec => []GroupsHoldLastWrites
<1>1. Inv => GroupsHoldLastWrites
  BY DEF Inv, Truthful, GroupsHoldLastWrites, HoldsLastWrites
<1> QED
  BY <1>1, DescriptorsInvariant, PTL

-----------------------------------------------------------------------------
(* Which sets get a bind group that WebGPU accepts                         *)

\* A WebGPU layout is made of the declarations.
LayoutsMade ==
  /\ wgpu_layout = [l \in Layouts |-> wgpu_layout[l]]
  /\ \A l \in Layouts : declared[l] # NULL =>
       wgpu_layout[l] \in {NULL, LayoutEntries(declared[l])}

\* Every entry of es has been declared, in a form the code supports.
Fitted(es, d) ==
  \A i \in DOMAIN es :
    /\ es[i].type # "combined"
    /\ \E k \in DOMAIN d : d[k] = [binding |-> es[i].binding, type |-> es[i].type]

EntriesFit == \A s \in owned : regular[s] => Fitted(entries[s], declared[layout[s]])

\* The whole contract of a write, not only what Placed says of it.
CallPermitted == \A i \in DOMAIN pending : Permitted(pending[i])

\* Outside its updates, a set with entries has a bind group if it can have one.
GroupsMade ==
  \A s \in owned :
    ~Updating(s) /\ wgpu_layout[layout[s]] # NULL /\ entries[s] # << >>
      => wgpu_bind_group[s] # NULL

Fits == LayoutsMade /\ EntriesFit /\ CallPermitted /\ GroupsMade

\* Sets keep their layouts and layouts their declarations.
LayoutsKept ==
  \A s \in owned : /\ layout'[s] = layout[s]
                   /\ declared'[layout[s]] = declared[layout[s]]
                   /\ wgpu_layout'[layout[s]] = wgpu_layout[layout[s]]

LEMMA PermittedKept ==
  ASSUME LayoutsKept, owned \subseteq owned', NEW w, Permitted(w)
  PROVE  Permitted(w)'
BY DEF LayoutsKept, Permitted

\* A step that does nothing to entries, groups and the call in progress.
LEMMA OthersFit ==
  ASSUME Inv, Fits, LayoutsKept,
         UNCHANGED << entries, wgpu_bind_group, regular, pending >>,
         owned' = owned, LayoutsMade'
  PROVE  Fits'
<1>1. EntriesFit'
  BY DEF Fits, EntriesFit, LayoutsKept
<1>2. CallPermitted'
  BY PermittedKept DEF Fits, CallPermitted
<1>3. GroupsMade'
  BY DEF Fits, GroupsMade, LayoutsKept, Updating, Idle
<1> QED
  BY <1>1, <1>2, <1>3 DEF Fits

LEMMA CreateLayoutFits ==
  ASSUME Inv, Fits, NEW l \in Layouts, NEW d \in Declarations, NEW given \in BOOLEAN,
         CreateDescriptorSetLayout(l, d, given)
  PROVE  Fits'
<1>1. /\ declared[l] = NULL /\ declared' = [declared EXCEPT ![l] = d]
      /\ wgpu_layout' = [wgpu_layout EXCEPT ![l] = IF given THEN LayoutEntries(d) ELSE NULL]
      /\ UNCHANGED << setVars, owned, pending, index, historyVars >>
  BY DEF CreateDescriptorSetLayout
<1>2. \A k \in Layouts \ {l} : declared'[k] = declared[k] /\ wgpu_layout'[k] = wgpu_layout[k]
  BY <1>1 DEF Inv, DescriptorTypeOK, Fits, LayoutsMade
<1>3. LayoutsKept
  BY <1>1, <1>2 DEF LayoutsKept, Inv, Laid, setVars
<1>4. LayoutsMade'
  <2>1. declared'[l] = d
    BY <1>1 DEF Inv, DescriptorTypeOK
  <2>2. wgpu_layout'[l] \in {NULL, LayoutEntries(d)}
    BY <1>1 DEF Fits, LayoutsMade
  <2>3. wgpu_layout' = [k \in Layouts |-> wgpu_layout'[k]]
    BY <1>1 DEF Fits, LayoutsMade
  <2> QED
    BY <1>2, <2>1, <2>2, <2>3 DEF Fits, LayoutsMade
<1> QED
  BY <1>1, <1>3, <1>4, OthersFit DEF setVars, historyVars

LEMMA AllocateFits ==
  ASSUME Inv, Fits, NEW out \in Arrays(Sets), NEW ls \in [DOMAIN out -> Layouts],
         AllocateDescriptorSets(out, ls)
  PROVE  Fits'
<1> DEFINE given == {out[i] : i \in DOMAIN out}
           At(s) == CHOOSE i \in DOMAIN out : out[i] = s
<1>1. given \subseteq Sets /\ given \cap owned = {}
  BY DEF AllocateDescriptorSets, Allocatable, Arrays, Inv, NothingLost
<1>2. /\ owned' = owned \cup given
      /\ layout' = [s \in Sets |-> IF s \in given THEN ls[At(s)] ELSE layout[s]]
      /\ entries' = [s \in Sets |-> IF s \in given THEN << >> ELSE entries[s]]
      /\ wgpu_bind_group' =
           [s \in Sets |-> IF s \in given THEN NULL ELSE wgpu_bind_group[s]]
      /\ regular' = [s \in Sets |-> s \in given \/ regular[s]]
      /\ pending = << >> /\ pending' = pending
      /\ UNCHANGED << declared, wgpu_layout >>
  BY DEF AllocateDescriptorSets, Allocatable, Idle, layoutVars
<1> HIDE DEF given, At
<1>3. \A s \in given : entries'[s] = << >>
  BY <1>1, <1>2
<1>4. ASSUME NEW s \in owned' \ given
      PROVE  /\ s \in owned /\ entries'[s] = entries[s] /\ regular'[s] = regular[s]
             /\ layout'[s] = layout[s] /\ wgpu_bind_group'[s] = wgpu_bind_group[s]
  <2>1. s \in owned /\ s \in Sets
    BY <1>2 DEF Inv, DescriptorTypeOK
  <2> QED
    BY <1>2, <2>1 DEF Inv, DescriptorTypeOK
<1>5. LayoutsMade'
  BY <1>2 DEF Fits, LayoutsMade
<1>6. EntriesFit'
  <2> SUFFICES ASSUME NEW s \in owned', regular'[s]
               PROVE  Fitted(entries'[s], declared[layout'[s]])
    BY <1>2 DEF EntriesFit
  <2>1. CASE s \in given
    BY <1>3, <2>1 DEF Fitted
  <2>2. CASE s \notin given
    BY <1>4, <2>2 DEF Fits, EntriesFit
  <2> QED
    BY <2>1, <2>2
<1>7. CallPermitted'
  BY <1>2 DEF CallPermitted
<1>8. GroupsMade'
  <2> SUFFICES ASSUME NEW s \in owned', wgpu_layout[layout'[s]] # NULL, entries'[s] # << >>
               PROVE  wgpu_bind_group'[s] # NULL
    BY <1>2 DEF GroupsMade
  <2>1. s \notin given
    BY <1>3
  <2>2. ~Updating(s)
    BY <1>2 DEF Updating, Idle
  <2> QED
    BY <1>4, <2>1, <2>2 DEF Fits, GroupsMade
<1> QED
  BY <1>5, <1>6, <1>7, <1>8 DEF Fits

LEMMA FreeFits ==
  ASSUME Inv, Fits, NEW s \in Sets, FreeDescriptorSet(s)
  PROVE  Fits'
<1>1. /\ pending = << >> /\ owned' = owned \ {s}
      /\ wgpu_bind_group' = [wgpu_bind_group EXCEPT ![s] = NULL]
      /\ UNCHANGED << declared, wgpu_layout, layout, entries, pending, regular >>
  BY DEF FreeDescriptorSet, Idle, layoutVars, historyVars
<1>2. \A t \in owned' : t \in owned /\ wgpu_bind_group'[t] = wgpu_bind_group[t]
  BY <1>1 DEF Inv, DescriptorTypeOK
<1>3. LayoutsMade' /\ EntriesFit' /\ CallPermitted'
  BY <1>1, <1>2 DEF Fits, LayoutsMade, EntriesFit, CallPermitted
<1>4. GroupsMade'
  BY <1>1, <1>2 DEF Fits, GroupsMade, Updating, Idle
<1> QED
  BY <1>3, <1>4 DEF Fits

LEMMA UpdateFits ==
  ASSUME Inv, Fits, NEW call \in Calls, UpdateDescriptorSets(call)
  PROVE  Fits'
<1>1. /\ pending = << >> /\ pending' = call /\ \A i \in DOMAIN call : Permitted(call[i])
      /\ UNCHANGED << declared, wgpu_layout, layout, entries, wgpu_bind_group,
                      owned, regular >>
  BY DEF UpdateDescriptorSets, Idle, layoutVars, setVars, historyVars
<1>2. LayoutsMade' /\ EntriesFit'
  BY <1>1 DEF Fits, LayoutsMade, EntriesFit
<1>3. CallPermitted'
  BY <1>1 DEF CallPermitted, Permitted
<1>4. GroupsMade'
  <2>1. \A s \in owned : ~Updating(s)
    BY <1>1 DEF Updating, Idle
  <2> QED
    BY <1>1, <2>1 DEF Fits, GroupsMade
<1> QED
  BY <1>2, <1>3, <1>4 DEF Fits

\* The entry appended for a regular write has been declared as it is.
LEMMA WriteFits ==
  ASSUME Inv, Fits, WriteDescriptor
  PROVE  Fits'
<1> DEFINE w == Head(pending)
           s == w.set
           r == w.infos[index + 1]
           e == [binding |-> w.binding + index, type |-> w.type, resource |-> r]
           d == declared[layout[s]]
<1>1. /\ w \in Write /\ s \in owned /\ s \in Sets /\ ~Idle
      /\ w = pending[1] /\ 1 \in DOMAIN pending
  BY FirstWrite DEF WriteDescriptor
<1>2. index + 1 \in DOMAIN w.infos /\ index \in Nat
  BY <1>1 DEF WriteDescriptor, Write, Inv, DescriptorTypeOK
<1>3. /\ entries' = [entries EXCEPT ![s] = EntriesAfter(s, w, r)]
      /\ regular' = [regular EXCEPT ![s] = @ /\ Supported(s, w, r)]
      /\ UNCHANGED << declared, wgpu_layout, layout, wgpu_bind_group, owned, pending >>
  BY DEF WriteDescriptor, layoutVars
<1>4. \A t \in Sets \ {s} : entries'[t] = entries[t] /\ regular'[t] = regular[t]
  BY <1>3 DEF Inv, DescriptorTypeOK
<1>5. regular'[s] => /\ regular[s] /\ w.type \in Written \ {"combined"}
                     /\ entries'[s] = Append(entries[s], e)
  BY <1>1, <1>3 DEF Inv, DescriptorTypeOK, Supported, EntriesAfter, BindingOf, Written
<1>6. Permitted(w)
  BY <1>1 DEF Fits, CallPermitted
<1>7. \E k \in DOMAIN d : d[k] = [binding |-> e.binding, type |-> e.type]
  <2>1. w.binding + (index + 1) - 1 = w.binding + index
    BY <1>1, <1>2 DEF Write
  <2> QED
    BY <1>2, <1>6, <2>1 DEF Permitted
<1>8. e.type = w.type
  OBVIOUS
<1>9. Updating(s)
  BY <1>1 DEF Updating
<1>10. entries[s] \in Seq(Entry)
  BY <1>1 DEF Inv, DescriptorTypeOK
<1> HIDE DEF e, s, r, d
<1>11. regular'[s] => Fitted(entries'[s], d)
  <2> SUFFICES ASSUME regular'[s] PROVE Fitted(entries'[s], d)
    OBVIOUS
  <2>1. Fitted(entries[s], d)
    BY <1>1, <1>5 DEF Fits, EntriesFit, d
  <2>2. /\ Len(entries[s]) \in Nat /\ DOMAIN entries[s] = 1 .. Len(entries[s])
        /\ DOMAIN entries'[s] = 1 .. Len(entries[s]) + 1
        /\ \A i \in DOMAIN entries[s] : entries'[s][i] = entries[s][i]
        /\ entries'[s][Len(entries[s]) + 1] = e
    BY <1>5, <1>10
  <2>3. ASSUME NEW i \in DOMAIN entries'[s]
        PROVE  /\ entries'[s][i].type # "combined"
               /\ \E k \in DOMAIN d : d[k] = [binding |-> entries'[s][i].binding,
                                              type |-> entries'[s][i].type]
    <3>1. CASE i \in DOMAIN entries[s]
      BY <2>1, <2>2, <3>1 DEF Fitted
    <3>2. CASE i = Len(entries[s]) + 1
      BY <1>5, <1>7, <1>8, <2>2, <3>2
    <3> QED
      BY <2>2, <3>1, <3>2
  <2> QED
    BY <2>3 DEF Fitted
<1>12. EntriesFit'
  <2> SUFFICES ASSUME NEW t \in owned, regular'[t]
               PROVE  Fitted(entries'[t], declared[layout[t]])
    BY <1>3 DEF EntriesFit
  <2>1. CASE t = s
    BY <1>11, <2>1 DEF d
  <2>2. CASE t # s
    <3>1. t \in Sets
      BY DEF Inv, DescriptorTypeOK
    <3> QED
      BY <1>4, <2>2, <3>1 DEF Fits, EntriesFit
  <2> QED
    BY <2>1, <2>2
<1>13. LayoutsMade'
  BY <1>3 DEF Fits, LayoutsMade
<1>14. CallPermitted'
  BY <1>3 DEF Fits, CallPermitted, Permitted
<1>15. GroupsMade'
  <2> SUFFICES ASSUME NEW t \in owned, ~Updating(t), wgpu_layout[layout[t]] # NULL,
                      entries'[t] # << >>
               PROVE  wgpu_bind_group[t] # NULL
    BY <1>3 DEF GroupsMade, Updating, Idle
  <2>1. t # s /\ t \in Sets
    BY <1>9 DEF Inv, DescriptorTypeOK
  <2> QED
    BY <1>4, <2>1 DEF Fits, GroupsMade
<1> QED
  BY <1>12, <1>13, <1>14, <1>15 DEF Fits

LEMMA EndFits ==
  ASSUME Inv, Fits, EndOfWrite
  PROVE  Fits'
<1> DEFINE w == Head(pending)
           s == w.set
           new == IF wgpu_layout[layout[s]] = NULL THEN NULL ELSE entries[s]
<1>1. w \in Write /\ s \in owned /\ s \in Sets /\ ~Idle
  BY FirstWrite DEF EndOfWrite
<1>2. /\ wgpu_bind_group' = [wgpu_bind_group EXCEPT ![s] = new]
      /\ regular' = [regular EXCEPT ![s] = @ /\ index = Len(w.infos)]
      /\ pending' = Tail(pending)
      /\ UNCHANGED << declared, wgpu_layout, layout, entries, owned >>
  BY DEF EndOfWrite, layoutVars, GroupOf
<1>3. pending \in Seq(Write) /\ pending # << >>
  BY <1>1 DEF Inv, DescriptorTypeOK, Idle
<1>4. \A i \in DOMAIN pending' : i + 1 \in DOMAIN pending /\ pending'[i] = pending[i + 1]
  BY <1>2, <1>3
<1>5. \A t \in owned : regular'[t] => regular[t]
  BY <1>1, <1>2 DEF Inv, DescriptorTypeOK
<1>6. LayoutsMade' /\ EntriesFit'
  BY <1>2, <1>5 DEF Fits, LayoutsMade, EntriesFit
<1>7. CallPermitted'
  <2>1. LayoutsKept /\ owned \subseteq owned'
    BY <1>2 DEF LayoutsKept
  <2>2. ASSUME NEW q, q = pending' PROVE \A i \in DOMAIN q : Permitted(q[i])
    BY <1>4, <2>2 DEF Fits, CallPermitted
  <2>3. ASSUME NEW q, q = pending' PROVE \A i \in DOMAIN q : Permitted(q[i])'
    BY <2>1, <2>2, <2>3, PermittedKept
  <2> QED
    BY <2>3 DEF CallPermitted
<1>8. GroupsMade'
  <2> SUFFICES ASSUME NEW t \in owned, wgpu_layout[layout[t]] # NULL, entries[t] # << >>
               PROVE  wgpu_bind_group'[t] # NULL
    BY <1>2 DEF GroupsMade
  <2>1. CASE t = s
    <3>1. wgpu_bind_group'[s] = entries[s]
      BY <1>1, <1>2, <2>1 DEF Inv, DescriptorTypeOK
    <3>2. entries[s] \in Seq(Entry)
      BY <1>1 DEF Inv, DescriptorTypeOK
    <3> QED
      BY <2>1, <3>1, <3>2
  <2>2. CASE t # s
    <3>1. wgpu_bind_group'[t] = wgpu_bind_group[t]
      BY <1>2, <2>2 DEF Inv, DescriptorTypeOK
    <3>2. ~Updating(t)
      BY <2>2 DEF Updating
    <3> QED
      BY <3>1, <3>2 DEF Fits, GroupsMade
  <2> QED
    BY <2>1, <2>2
<1> QED
  BY <1>6, <1>7, <1>8 DEF Fits

LEMMA NextFits ==
  ASSUME Inv, Fits, [DescriptorNext]_descriptorVars
  PROVE  Fits'
<1>1. CASE \E l \in Layouts, d \in Declarations, given \in BOOLEAN :
             CreateDescriptorSetLayout(l, d, given)
  BY <1>1, CreateLayoutFits
<1>2. CASE \E out \in Arrays(Sets) : \E ls \in [DOMAIN out -> Layouts] :
             AllocateDescriptorSets(out, ls)
  BY <1>2, AllocateFits
<1>3. CASE \E s \in Sets : FreeDescriptorSet(s)
  BY <1>3, FreeFits
<1>4. CASE \E call \in Calls : UpdateDescriptorSets(call)
  BY <1>4, UpdateFits
<1>5. CASE WriteDescriptor
  BY <1>5, WriteFits
<1>6. CASE EndOfWrite
  BY <1>6, EndFits
<1>7. ASSUME UNCHANGED << layoutVars, layout, entries, wgpu_bind_group, owned, pending,
                         regular >>
      PROVE  Fits'
  <2>1. LayoutsKept /\ LayoutsMade'
    BY <1>7 DEF LayoutsKept, Fits, LayoutsMade, layoutVars
  <2> QED
    BY <1>7, <2>1, OthersFit
<1>8. CASE \E out \in Arrays(Sets) : \E ls \in [DOMAIN out -> Layouts] :
             AllocateOutOfMemory(out, ls)
  BY <1>7, <1>8 DEF AllocateOutOfMemory, historyVars
<1>9. CASE UNCHANGED descriptorVars
  BY <1>7, <1>9 DEF descriptorVars, setVars, historyVars
<1> QED
  BY <1>1, <1>2, <1>3, <1>4, <1>5, <1>6, <1>8, <1>9 DEF DescriptorNext

LEMMA InitFits == DescriptorInit => Fits
BY DEF DescriptorInit, Fits, LayoutsMade, EntriesFit, CallPermitted, GroupsMade

\* There are at most as many things as there are places to put them.
LEMMA NoMore ==
  ASSUME NEW m \in Nat, NEW n \in Nat, NEW f \in [1 .. m -> 1 .. n],
         \A i, j \in 1 .. m : f[i] = f[j] => i = j
  PROVE  m <= n
<1>1. f \in Injection(1 .. m, 1 .. n)
  BY DEF Injection, IsInjective
<1>2. /\ IsFiniteSet(1 .. n)
      /\ Cardinality(1 .. n) = n /\ Cardinality(1 .. m) = m
  <2>1. 1 \in Int /\ m \in Int /\ n \in Int
    OBVIOUS
  <2>2. /\ IsFiniteSet(1 .. n)
        /\ Cardinality(1 .. n) = IF 1 > n THEN 0 ELSE n - 1 + 1
        /\ Cardinality(1 .. m) = IF 1 > m THEN 0 ELSE m - 1 + 1
    BY <2>1, FS_Interval
  <2> QED
    BY <2>2
<1>3. Cardinality(1 .. m) <= Cardinality(1 .. n)
  BY <1>1, <1>2, FS_Injection
<1> QED
  BY <1>2, <1>3

\* Entries that fit the declarations, one for each, are as many.
LEMMA OneForEach ==
  ASSUME NEW es \in Seq(Entry), NEW d \in Seq(Declaration), Fitted(es, d),
         \A i, j \in DOMAIN es : es[i].binding = es[j].binding => i = j,
         \A i, j \in DOMAIN d : d[i].binding = d[j].binding => i = j,
         \A k \in DOMAIN d : \E i \in DOMAIN es : es[i].binding = d[k].binding
  PROVE  Len(es) = Len(d)
<1> DEFINE m == Len(es)
           n == Len(d)
           f == [i \in 1 .. m |-> CHOOSE k \in 1 .. n : d[k].binding = es[i].binding]
           g == [k \in 1 .. n |-> CHOOSE i \in 1 .. m : es[i].binding = d[k].binding]
<1>1. m \in Nat /\ n \in Nat /\ DOMAIN es = 1 .. m /\ DOMAIN d = 1 .. n
  OBVIOUS
<1>2. ASSUME NEW i \in 1 .. m PROVE \E k \in 1 .. n : d[k].binding = es[i].binding
  <2> HIDE DEF f, g
  <2>1. PICK k \in DOMAIN d : d[k] = [binding |-> es[i].binding, type |-> es[i].type]
    BY <1>1 DEF Fitted
  <2>2. d[k].binding = es[i].binding
    BY <2>1
  <2> QED
    BY <1>1, <2>2
<1>3. ASSUME NEW i \in 1 .. m
      PROVE  f[i] \in 1 .. n /\ d[f[i]].binding = es[i].binding
  BY <1>2
<1>4. ASSUME NEW k \in 1 .. n
      PROVE  g[k] \in 1 .. m /\ es[g[k]].binding = d[k].binding
  BY <1>1
<1>5. f = [i \in 1 .. m |-> f[i]] /\ g = [k \in 1 .. n |-> g[k]]
  OBVIOUS
<1> HIDE DEF f, g, m, n
<1>6. f \in [1 .. m -> 1 .. n] /\ g \in [1 .. n -> 1 .. m]
  BY <1>3, <1>4, <1>5
<1>7. \A i, j \in 1 .. m : f[i] = f[j] => i = j
  <2> SUFFICES ASSUME NEW i \in 1 .. m, NEW j \in 1 .. m, f[i] = f[j]
               PROVE  i = j
    OBVIOUS
  <2>1. es[i].binding = d[f[i]].binding /\ es[j].binding = d[f[j]].binding
    BY <1>3
  <2>2. es[i].binding = es[j].binding
    BY <2>1
  <2>3. i \in DOMAIN es /\ j \in DOMAIN es
    BY <1>1
  <2> QED
    BY <2>2, <2>3
<1>8. \A i, j \in 1 .. n : g[i] = g[j] => i = j
  BY <1>1, <1>4
<1>9. m <= n /\ n <= m
  BY <1>1, <1>6, <1>7, <1>8, NoMore
<1>10. m = n
  BY <1>1, <1>9
<1> QED
  BY <1>10 DEF m, n

\* A set with 0 that is closed under successor has every natural number.
LEMMA SetInduction ==
  ASSUME NEW S, 0 \in S, \A n \in Nat : n \in S => n + 1 \in S
  PROVE  \A n \in Nat : n \in S
<1> DEFINE T == Nat \ S
           R == OpToRel(<, Nat)
<1> SUFFICES ASSUME T # {} PROVE FALSE
  OBVIOUS
<1>1. T \subseteq Nat /\ IsWellFoundedOn(R, Nat)
  BY NatLessThanWellFounded
<1>2. PICK x \in T : \A y \in T : ~(<<y, x>> \in R)
  <2> HIDE DEF T, R
  <2> QED
    BY <1>1, WFMin
<1>3. x - 1 \in T /\ <<x - 1, x>> \in R
  BY DEF OpToRel
<1> QED
  BY <1>2, <1>3

\* Declarations that are supported and fit the array become the layout's
\* entries one by one.
LEMMA AllPrepared ==
  ASSUME NEW d \in Seq(Declaration), Len(d) <= MaxEntries,
         \A k \in DOMAIN d : d[k].type \in Declared
  PROVE  LayoutEntries(d) = d
<1> DEFINE n == Len(d)
           p == CHOOSE p : p =
                  [i \in 0 .. n |->
                     IF i = 0 THEN << >>
                     ELSE IF d[i].type \in Declared /\ Len(p[i - 1]) < MaxEntries
                          THEN Append(p[i - 1], d[i])
                          ELSE p[i - 1]]
           q == [i \in 0 .. n |-> SubSeq(d, 1, i)]
<1>1. LayoutEntries(d) = p[n]
  BY DEF LayoutEntries
<1>2. n \in Nat /\ n <= MaxEntries /\ DOMAIN d = 1 .. n
  OBVIOUS
<1>3. ASSUME NEW i \in 1 .. n
      PROVE  /\ d[i].type \in Declared
             /\ i - 1 \in 0 .. n
             /\ Len(SubSeq(d, 1, i - 1)) < MaxEntries
             /\ Append(SubSeq(d, 1, i - 1), d[i]) = SubSeq(d, 1, i)
  <2>1. d[i].type \in Declared /\ i - 1 \in 0 .. n /\ i - 1 < MaxEntries
    BY <1>2
  <2>2. Len(SubSeq(d, 1, i - 1)) = i - 1
    BY <2>1
  <2>3. Append(SubSeq(d, 1, i - 1), d[i]) = SubSeq(d, 1, i)
    BY <1>2
  <2> QED
    BY <2>1, <2>2, <2>3
<1>4. SubSeq(d, 1, 0) = << >> /\ SubSeq(d, 1, n) = d
  OBVIOUS
<1> HIDE DEF n
<1>5. q = [i \in 0 .. n |->
             IF i = 0 THEN << >>
             ELSE IF d[i].type \in Declared /\ Len(q[i - 1]) < MaxEntries
                  THEN Append(q[i - 1], d[i])
                  ELSE q[i - 1]]
  <2>1. ASSUME NEW i \in 0 .. n
        PROVE  SubSeq(d, 1, i) =
                 IF i = 0 THEN << >>
                 ELSE IF d[i].type \in Declared /\ Len(q[i - 1]) < MaxEntries
                      THEN Append(q[i - 1], d[i])
                      ELSE q[i - 1]
    <3>1. CASE i = 0
      BY <1>4, <3>1
    <3>2. CASE i # 0
      <4>1. i \in 1 .. n
        BY <1>2, <3>2
      <4>2. q[i - 1] = SubSeq(d, 1, i - 1)
        BY <1>3, <4>1
      <4> HIDE DEF q
      <4> QED
        BY <1>3, <3>2, <4>1, <4>2
    <3> QED
      BY <3>1, <3>2
  <2> QED
    BY <2>1
<1>6. p = [i \in 0 .. n |->
             IF i = 0 THEN << >>
             ELSE IF d[i].type \in Declared /\ Len(p[i - 1]) < MaxEntries
                  THEN Append(p[i - 1], d[i])
                  ELSE p[i - 1]]
  <2> HIDE DEF q
  <2> QED
    BY <1>5
<1> HIDE DEF p, q
<1> DEFINE I == {i \in Nat : i <= n => p[i] = SubSeq(d, 1, i)}
<1>7. 0 \in I
  BY <1>2, <1>4, <1>6
<1>8. ASSUME NEW i \in Nat, i \in I PROVE i + 1 \in I
  <2> SUFFICES ASSUME i + 1 <= n PROVE p[i + 1] = SubSeq(d, 1, i + 1)
    OBVIOUS
  <2>1. i + 1 \in 1 .. n /\ (i + 1) - 1 = i /\ i + 1 # 0
    BY <1>2
  <2>2. p[i] = SubSeq(d, 1, i)
    BY <1>2, <1>8
  <2>3. p[i + 1] = IF d[i + 1].type \in Declared /\ Len(p[i]) < MaxEntries
                   THEN Append(p[i], d[i + 1]) ELSE p[i]
    <3> DEFINE Step(j) == IF j = 0 THEN << >>
                          ELSE IF d[j].type \in Declared /\ Len(p[j - 1]) < MaxEntries
                               THEN Append(p[j - 1], d[j])
                               ELSE p[j - 1]
    <3>1. p = [j \in 0 .. n |-> Step(j)]
      BY <1>6
    <3>2. i + 1 \in 0 .. n
      BY <1>2, <2>1
    <3> HIDE DEF Step
    <3>3. p[i + 1] = Step(i + 1)
      BY <3>1, <3>2
    <3> QED
      BY <2>1, <3>3 DEF Step
  <2> QED
    BY <1>3, <2>1, <2>2, <2>3
<1>9. \A i \in Nat : i \in I
  <2> HIDE DEF I
  <2> QED
    BY <1>7, <1>8, SetInduction
<1>10. p[n] = SubSeq(d, 1, n)
  BY <1>2, <1>9
<1> QED
  BY <1>1, <1>4, <1>10

\* A set written, in supported forms, to every binding of its layout has a
\* bind group that WebGPU accepts, in whatever order and by however many
\* calls, for layouts and tables of any size: no update leaves it without a
\* group or with entries that the layout does not have (descriptor_set.c
\* against descriptor_set_layout.c).
THEOREM DescriptorSetsAccepted == DescriptorSpec => []CompleteSetsAccepted
<1>1. Inv /\ Fits => CompleteSetsAccepted
  <2> SUFFICES ASSUME Inv, Fits, NEW s \in owned, regular[s], ~Updating(s), Complete(s),
                      wgpu_layout[layout[s]] # NULL, entries[s] # << >>
               PROVE  /\ wgpu_bind_group[s] # NULL
                      /\ Accepted(wgpu_bind_group[s], wgpu_layout[layout[s]])
    BY DEF CompleteSetsAccepted
  <2> DEFINE es == entries[s]
             d == declared[layout[s]]
  <2>1. /\ s \in Sets /\ layout[s] \in Layouts /\ d # NULL
        /\ d \in Declarations /\ d \in Seq(Declaration)
        /\ es \in Seq(Entry) /\ Len(es) <= MaxEntries
        /\ promised[s] \in [Bindings -> Resources \cup {NULL}]
    BY DEF Inv, DescriptorTypeOK, Laid
  <2>2. wgpu_bind_group[s] # NULL /\ wgpu_bind_group[s] = es
    BY DEF Inv, Truthful, Fits, GroupsMade
  <2>3. Describes(es, s) /\ Fitted(es, d)
    BY DEF Inv, Truthful, Fits, EntriesFit
  <2>4. wgpu_layout[layout[s]] = LayoutEntries(d)
    BY <2>1 DEF Fits, LayoutsMade
  <2>5. \A k \in DOMAIN d : d[k].binding \in Bindings /\ promised[s][d[k].binding] # NULL
    <3>1. \A k \in DOMAIN d : d[k] \in Declaration
      BY <2>1
    <3> QED
      BY <3>1 DEF Complete, Declaration
  <2>6. \A i, j \in DOMAIN d : d[i].binding = d[j].binding => i = j
    BY <2>1
  <2> HIDE DEF es, d
  <2>7. ASSUME NEW k \in DOMAIN d
        PROVE  \E i \in DOMAIN es : es[i].binding = d[k].binding /\ es[i].type = d[k].type
    <3>1. PICK i \in DOMAIN es : es[i].binding = d[k].binding
      BY <2>3, <2>5 DEF Describes
    <3>2. PICK j \in DOMAIN d : d[j] = [binding |-> es[i].binding, type |-> es[i].type]
      BY <2>3 DEF Fitted
    <3>3. d[j].binding = d[k].binding
      BY <3>1, <3>2
    <3>4. j = k
      BY <2>6, <3>3
    <3> QED
      BY <3>1, <3>2, <3>4
  <2>8. \A i, j \in DOMAIN es : es[i].binding = es[j].binding => i = j
    BY <2>3 DEF Describes
  <2>9. Len(es) = Len(d)
    BY <2>1, <2>3, <2>6, <2>7, <2>8, OneForEach
  <2>10. LayoutEntries(d) = d
    <3>1. \A k \in DOMAIN d : d[k].type \in Declared
      <4>1. \A i \in DOMAIN es : es[i].type \in Written
        <5>1. \A i \in DOMAIN es : es[i] \in Entry
          BY <2>1
        <5> QED
          BY <5>1 DEF Entry
      <4> QED
        BY <2>7, <4>1 DEF Declared
    <3> QED
      BY <2>1, <2>9, <3>1, AllPrepared
  <2>11. Accepted(es, d)
    BY <2>7, <2>9 DEF Accepted
  <2> QED
    BY <2>2, <2>4, <2>10, <2>11
<1>2. DescriptorInit => Inv /\ Fits
  BY InitInv, InitFits
<1>3. Inv /\ Fits /\ [DescriptorNext]_descriptorVars => Inv' /\ Fits'
  BY NextInv, NextFits
<1> QED
  BY <1>1, <1>2, <1>3, PTL DEF DescriptorSpec
=============================================================================
