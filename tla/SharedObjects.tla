---------------------------- MODULE SharedObjects ----------------------------
(***************************************************************************)
(* Reference-counted objects that other objects keep alive: image views    *)
(* named by framebuffers (src/src/objects/framebuffer.c, image_view.c) and *)
(* descriptor set layouts named by pipeline layouts                        *)
(* (src/src/objects/pipeline_layout.c, descriptor_set_layout.c), over      *)
(* WgvkObject (src/src/webvulkan_internal.h).  Both pairs follow the same  *)
(* protocol; Children are the objects named, Parents those that name them. *)
(*                                                                         *)
(* An address that has been freed can be handed out again, so a freed      *)
(* child is one that can be created anew.                                  *)
(***************************************************************************)
EXTENDS Integers, FiniteSets

CONSTANTS
  Children,   \* addresses of image views, or of set layouts
  Parents,    \* addresses of framebuffers, or of pipeline layouts
  Capacity,   \* WGVK_MAX_COLOR_ATTACHMENTS + 1, or WGVK_MAX_BIND_GROUPS
  NULL

ASSUME SharedAssumption ==
  /\ IsFiniteSet(Children) /\ IsFiniteSet(Parents)
  /\ Capacity \in Nat
  /\ NULL \notin Children

VARIABLES
  ref_count,   \* of every child; 0 when nothing is allocated there
  held,        \* the children the application has not destroyed
  parents,     \* the parents allocated
  slots        \* attachments[] or set_layouts[] of every parent

sharedVars == << ref_count, held, parents, slots >>

Slots == 1 .. Capacity

NoSlots == [i \in Slots |-> NULL]

-----------------------------------------------------------------------------
(* What plausible mistakes in the code below would do instead.             *)

\* A child named twice by one parent is retained once.
RetainedOnce(named) ==
  [v \in Children |->
     ref_count[v] + (IF \E i \in Slots : named[i] = v THEN 1 ELSE 0)]

\* Destroying a parent forgets the last slot.
ReleasedButLast(p) ==
  [v \in Children |->
     ref_count[v] - Cardinality({i \in Slots \ {Capacity} : slots[p][i] = v})]

-----------------------------------------------------------------------------
(* Children                                                                *)

\* wgvk_object_init: the application holds the only reference.
CreateChild(v) ==
  /\ ref_count[v] = 0
  /\ ref_count' = [ref_count EXCEPT ![v] = 1]
  /\ held' = held \cup {v}
  /\ UNCHANGED << parents, slots >>

\* vkDestroyImageView, vkDestroyDescriptorSetLayout.  The contract: the
\* application destroys what it created, once.
DestroyChild(v) ==
  /\ v \in held
  /\ ref_count' = [ref_count EXCEPT ![v] = @ - 1]
  /\ held' = held \ {v}
  /\ UNCHANGED << parents, slots >>

(* Parents                                                                 *)

Naming(s, v) == {i \in Slots : s[i] = v}

\* One reference more for every slot that names the child.
Retained(named) ==
  [v \in Children |-> ref_count[v] + Cardinality(Naming(named, v))]

\* One reference less for every slot of p that names the child.
Released(p) ==
  [v \in Children |-> ref_count[v] - Cardinality(Naming(slots[p], v))]

\* The contract: name only children not yet destroyed, and no more than
\* Capacity of them (the code stores a larger count and would walk past the
\* array when it destroys the parent).
CreateParent(p, named) ==
  /\ p \notin parents
  /\ \A i \in Slots : named[i] \in held \cup {NULL}
  /\ ref_count' = Retained(named)
  /\ parents' = parents \cup {p}
  /\ slots' = [slots EXCEPT ![p] = named]
  /\ UNCHANGED held

DestroyParent(p) ==
  /\ p \in parents
  /\ ref_count' = Released(p)
  /\ parents' = parents \ {p}
  /\ slots' = [slots EXCEPT ![p] = NoSlots]
  /\ UNCHANGED held

SharedInit ==
  /\ ref_count = [v \in Children |-> 0]
  /\ held = {}
  /\ parents = {}
  /\ slots = [p \in Parents |-> NoSlots]

SharedNext ==
  \/ \E v \in Children : CreateChild(v) \/ DestroyChild(v)
  \/ \E p \in Parents :
       \/ \E named \in [Slots -> Children \cup {NULL}] : CreateParent(p, named)
       \/ DestroyParent(p)

SharedSpec == SharedInit /\ [][SharedNext]_sharedVars

-----------------------------------------------------------------------------
(* Properties                                                              *)

\* The slots of all parents that name v.
Namings(v) == {n \in Parents \X Slots : slots[n[1]][n[2]] = v}

\* A reference count is the number of those who can still reach the child:
\* the application while it has not destroyed it, and every slot that names
\* it.  So the child is freed when, and only when, the last of them is gone,
\* and no slot of a framebuffer or a pipeline layout dangles.
RefCountsExact ==
  \A v \in Children :
    ref_count[v] = (IF v \in held THEN 1 ELSE 0) + Cardinality(Namings(v))

Alive == {v \in Children : ref_count[v] > 0}

\* The application, if it holds v, and the slots that name v.
Reachers(v) == (IF v \in held THEN {NULL} ELSE {}) \cup Namings(v)

Reach == INSTANCE Reachability WITH
  alive <- Alive, reachers <- [v \in Children |-> Reachers(v)]

\* What the protocol promises, whatever the order in which the application
\* destroys things: a child is freed when the last one who can reach it lets
\* go, not before and not later.
ImplementsReachability == Reach!ReachSpec

=============================================================================
