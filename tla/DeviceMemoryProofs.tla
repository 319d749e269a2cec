-------------------------- MODULE DeviceMemoryProofs --------------------------
(***************************************************************************)
(* No write through a mapping is lost, for any number of allocations of    *)
(* any size, as long as the application does not map again what it has     *)
(* written.                                                                *)
(***************************************************************************)
EXTENDS DeviceMemory, TLAPS

\* What the variables range over; a shadow is never NULL, so Current finds it.
Shape ==
  /\ allocated \subseteq Memories
  /\ mapped_ptr \in [Memories -> Contents \cup {NULL}]
  /\ wgpu_buffer \in [Memories -> Contents]
  /\ written \in [Memories -> [Cells -> Bytes \cup {NULL}]]

\* WritesKept needs no strengthening beyond the types.
Inv == Shape /\ WritesKept

USE MemoryAssumption

\* Nothing is allocated at first.
LEMMA InitInv == MemoryInit => Inv
BY DEF MemoryInit, Inv, Shape, WritesKept, Zeroed, Unwritten, Contents

\* A new allocation has nothing written to lose.
LEMMA AllocateInv ==
  ASSUME Inv, NEW m \in Memories, AllocateMemory(m)
  PROVE  Inv'
BY DEF AllocateMemory, Inv, Shape, WritesKept, Current, Zeroed, Unwritten,
       Contents

\* A freed allocation is nobody's concern.
LEMMA FreeInv ==
  ASSUME Inv, NEW m \in Memories, FreeMemory(m)
  PROVE  Inv'
BY DEF FreeMemory, Inv, Shape, WritesKept, Current

\* Either the shadow stays, or nothing has been written that it could lose.
LEMMA MapInv ==
  ASSUME ~Remaps, Inv, NEW m \in Memories, NEW fresh \in Contents,
         MapMemory(m, fresh)
  PROVE  Inv'
BY DEF MapMemory, ShadowAfterMap, Inv, Shape, WritesKept, Current, Unwritten

\* The byte written replaces the one the history remembers, in the same place.
LEMMA WriteInv ==
  ASSUME Inv, NEW m \in Memories, NEW c \in Cells, NEW b \in Bytes,
         WriteMapped(m, c, b)
  PROVE  Inv'
<1>1. mapped_ptr[m] \in Contents
  BY DEF WriteMapped, Inv, Shape
<1>2. [mapped_ptr[m] EXCEPT ![c] = b] \in Contents
  BY <1>1 DEF Contents
<1>3. mapped_ptr'[m] = [mapped_ptr[m] EXCEPT ![c] = b]
  BY DEF WriteMapped, Inv, Shape
<1>4. Shape'
  BY <1>2 DEF WriteMapped, Inv, Shape
<1>5. ASSUME NEW n \in allocated', NEW d \in Cells, written'[n][d] # NULL
      PROVE  Current(n)'[d] = written'[n][d]
  <2>1. CASE n = m
    BY <1>1, <1>2, <1>3, <1>5, <2>1
    DEF WriteMapped, Inv, Shape, WritesKept, Current, Contents
  <2>2. CASE n # m
    BY <1>5, <2>2 DEF WriteMapped, Inv, Shape, WritesKept, Current
  <2> QED
    BY <2>1, <2>2
<1> QED
  BY <1>4, <1>5 DEF Inv, WritesKept

\* The upload moves every byte from the shadow to the buffer.
LEMMA UnmapInv ==
  ASSUME Inv, NEW m \in Memories, UnmapMemory(m)
  PROVE  Inv'
BY DEF UnmapMemory, Uploaded, Inv, Shape, WritesKept, Current

\* Every step keeps the invariant.
LEMMA StepInv ==
  ~Remaps /\ Inv /\ [MemoryNext]_memoryVars => Inv'
<1> SUFFICES ASSUME ~Remaps, Inv, [MemoryNext]_memoryVars PROVE Inv'
  OBVIOUS
<1>1. CASE \E m \in Memories : AllocateMemory(m)
  BY <1>1, AllocateInv
<1>2. CASE \E m \in Memories : FreeMemory(m)
  BY <1>2, FreeInv
<1>3. CASE \E m \in Memories : \E fresh \in Contents : MapMemory(m, fresh)
  BY <1>3, MapInv
<1>4. CASE \E m \in Memories : \E c \in Cells, b \in Bytes : WriteMapped(m, c, b)
  BY <1>4, WriteInv
<1>5. CASE \E m \in Memories : UnmapMemory(m)
  BY <1>5, UnmapInv
<1>6. CASE \E r \in Resources :
             (\E m \in Memories : BindMemory(r, m)) \/ RecreateResource(r)
  BY <1>6 DEF BindMemory, RecreateResource, Inv, Shape, WritesKept, Current
<1>7. CASE UNCHANGED memoryVars
  BY <1>7 DEF memoryVars, Inv, Shape, WritesKept, Current
<1> QED
  BY <1>1, <1>2, <1>3, <1>4, <1>5, <1>6, <1>7 DEF MemoryNext

\* What the application wrote through a mapping stays readable there, and
\* reaches the WebGPU buffer when it unmaps.
THEOREM WritesAreKept == ~Remaps /\ MemorySpec => []WritesKept
<1>1. ASSUME ~Remaps PROVE Inv /\ [MemoryNext]_memoryVars => Inv'
  BY <1>1, StepInv
<1>2. CASE ~Remaps
  <2>1. MemorySpec => []Inv
    BY <1>1, <1>2, InitInv, PTL DEF MemorySpec
  <2> QED
    BY <2>1, PTL DEF Inv
<1> QED
  BY <1>2

=============================================================================
