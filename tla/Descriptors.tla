------------------------------ MODULE Descriptors ------------------------------
(***************************************************************************)
(* Descriptor sets: allocation in batches, updates, freeing                *)
(* (src/src/objects/descriptor_set.c) against the layouts they are         *)
(* allocated with (src/src/objects/descriptor_set_layout.c).               *)
(*                                                                         *)
(* A set collects entries, one per descriptor written, and hands them to   *)
(* WebGPU as a bind group.  vkUpdateDescriptorSets is two nested loops     *)
(* within one call: UpdateDescriptorSets starts it, WriteDescriptor is a   *)
(* turn of the inner loop, EndOfWrite what follows it.  No other call runs *)
(* in between.                                                             *)
(*                                                                         *)
(* Offsets and sizes are left out: a descriptor is the resource it names.  *)
(***************************************************************************)
EXTENDS Naturals, Sequences, FiniteSets

CONSTANTS
  Sets,          \* VkDescriptorSet handles
  Layouts,       \* VkDescriptorSetLayout handles
  Resources,     \* buffers, samplers and image views
  Usable,        \* those whose WebGPU object exists
  Bindings,      \* binding numbers
  MaxEntries,    \* 32: entries[] of a set, and of a layout under construction
  Declarations,  \* sequences of [binding, type] a layout can be created from:
                 \* the contract is that they name no binding twice
  Calls,         \* sequences of writes an application can make in one call
  NULL

(* Descriptor types, by what the code does with them.                      *)
Written == {"buffer", "sampler", "image", "combined"}  \* in an update
Declared == Written \cup {"storage"}                   \* in a layout
Types == Declared \cup {"input"}

Declaration == [binding : Bindings, type : Types]
Write == [set : Sets, binding : Bindings, type : Types, infos : Seq(Resources)]
Entry == [binding : Bindings, type : Written, resource : Resources]

ASSUME DescriptorAssumption ==
  /\ IsFiniteSet(Sets)
  /\ Bindings \subseteq Nat
  /\ MaxEntries \in Nat
  /\ Declarations \subseteq Seq(Declaration)
  /\ \A d \in Declarations : \A i, j \in DOMAIN d :
       d[i].binding = d[j].binding => i = j
  /\ Calls \subseteq Seq(Write)
  /\ NULL \notin Layouts /\ NULL \notin Resources /\ NULL \notin Seq(Entry)

VARIABLES
  declared,         \* what each layout was created from, NULL before
  wgpu_layout,      \* the WebGPU layout's entries, NULL if there is none
  live,             \* the sets allocated
  layout,           \* of every set
  entries,          \* entries[0..entry_count) of every set
  wgpu_bind_group,  \* the entries its bind group was created from, NULL if none
  groups_held,      \* WebGPU: references given out and not yet released
  owned,            \* the sets the application was given and has not freed
  pending,          \* the writes the call in progress has still to carry out
  index,            \* how many descriptors of the first of them are done
  promised,         \* history: promised[s][b], what was last written there
  regular           \* history: every write of the set has had a form that
                    \* the code supports

layoutVars == << declared, wgpu_layout >>
setVars == << live, layout, entries, wgpu_bind_group, groups_held >>
historyVars == << promised, regular >>
descriptorVars ==
  << layoutVars, setVars, owned, pending, index, historyVars >>

Unpromised == [b \in Bindings |-> NULL]

-----------------------------------------------------------------------------
(* What plausible mistakes in the code below would do instead.             *)

\* The table is taken for full one entry too late.
FullLate(s) == Len(entries[s]) > MaxEntries

\* All descriptors of a write go to its first binding.
BindingFixed(w) == w.binding

\* An update keeps the bind group there is.
GroupKept(s) ==
  IF wgpu_bind_group[s] # NULL THEN wgpu_bind_group[s] ELSE entries[s]

\* An update drops the bind group there was without releasing it.
GroupDropped(s) == groups_held + 1

\* A failed allocation forgets to release the last set.
ReleasedButLast(out) == {out[i] : i \in DOMAIN out \ {Len(out)}}

\* A layout entry is prepared for an image but not counted.
ImagesNotCounted(d) == SelectSeq(d, LAMBDA x : x.type \in Declared \ {"image"})

-----------------------------------------------------------------------------
(* Layouts                                                                 *)

\* The declarations that become entries of the WebGPU layout: the supported
\* ones, until the array is full.
LayoutEntries(d) ==
  LET prepared[i \in 0 .. Len(d)] ==
        IF i = 0 THEN << >>
        ELSE IF d[i].type \in Declared /\ Len(prepared[i - 1]) < MaxEntries
             THEN Append(prepared[i - 1], d[i])
             ELSE prepared[i - 1]
  IN prepared[Len(d)]

\* vkCreateDescriptorSetLayout does not look whether WebGPU gave a layout.
CreateDescriptorSetLayout(l, d, given) ==
  /\ declared[l] = NULL
  /\ declared' = [declared EXCEPT ![l] = d]
  /\ wgpu_layout' = [wgpu_layout EXCEPT ![l] = IF given THEN LayoutEntries(d)
                                                        ELSE NULL]
  /\ UNCHANGED << setVars, owned, pending, index, historyVars >>

-----------------------------------------------------------------------------
(* Allocation and freeing of sets                                          *)

Idle == pending = << >>

Distinct(out) == \A i, j \in DOMAIN out : out[i] = out[j] => i = j

\* Memory for the sets out[1], out[2], ... with the layouts ls[1], ls[2], ...
Allocatable(out, ls) ==
  /\ Idle
  /\ Distinct(out) /\ \A i \in DOMAIN out : out[i] \notin live
  /\ \A i \in DOMAIN out : declared[ls[i]] # NULL

AllocateDescriptorSets(out, ls) ==
  LET given == {out[i] : i \in DOMAIN out}
      At(s) == CHOOSE i \in DOMAIN out : out[i] = s
  IN /\ out # << >> /\ Allocatable(out, ls)
     /\ live' = live \cup given
     /\ owned' = owned \cup given
     /\ layout' = [s \in Sets |-> IF s \in given THEN ls[At(s)] ELSE layout[s]]
     /\ entries' = [s \in Sets |-> IF s \in given THEN << >> ELSE entries[s]]
     /\ wgpu_bind_group' =
          [s \in Sets |-> IF s \in given THEN NULL ELSE wgpu_bind_group[s]]
     /\ promised' = [s \in Sets |-> IF s \in given THEN Unpromised ELSE promised[s]]
     /\ regular' = [s \in Sets |-> s \in given \/ regular[s]]
     /\ UNCHANGED << layoutVars, groups_held, pending, index >>

\* The sets allocated before memory ran out are released again.
ReleasedOnFailure(out) == {out[i] : i \in DOMAIN out}

\* Memory runs out after the sets in out, which the caller's array goes on
\* naming; the contract is that the application uses none of them.
AllocateOutOfMemory(out, ls) ==
  /\ Allocatable(out, ls)
  /\ live' = live \cup ({out[i] : i \in DOMAIN out} \ ReleasedOnFailure(out))
  /\ UNCHANGED << layoutVars, layout, entries, wgpu_bind_group, groups_held,
                  owned, pending, index, historyVars >>

\* destroy_descriptor_set: one reference less, if the set has a bind group.
HeldWithout(s) == groups_held - (IF wgpu_bind_group[s] = NULL THEN 0 ELSE 1)

\* One set of vkFreeDescriptorSets.
FreeDescriptorSet(s) ==
  /\ Idle /\ s \in owned
  /\ live' = live \ {s}
  /\ owned' = owned \ {s}
  /\ wgpu_bind_group' = [wgpu_bind_group EXCEPT ![s] = NULL]
  /\ groups_held' = HeldWithout(s)
  /\ UNCHANGED << layoutVars, layout, entries, pending, index, historyVars >>

-----------------------------------------------------------------------------
(* vkUpdateDescriptorSets                                                  *)

\* The contract: a write names a set of the application and descriptors that
\* its layout declares with the type of the write.  Bindings that are arrays are
\* left out: the code knows neither their size nor dstArrayElement, and takes a
\* write of several descriptors to be one of as many bindings.
Permitted(w) ==
  /\ w.set \in owned
  /\ \A i \in DOMAIN w.infos :
       \E k \in DOMAIN declared[layout[w.set]] :
         declared[layout[w.set]][k] =
           [binding |-> w.binding + i - 1, type |-> w.type]

UpdateDescriptorSets(call) ==
  /\ Idle
  /\ \A i \in DOMAIN call : Permitted(call[i])
  /\ pending' = call
  /\ UNCHANGED << layoutVars, setVars, owned, index, historyVars >>

Full(s) == Len(entries[s]) >= MaxEntries

\* The binding of the next descriptor of w.
BindingOf(w) == w.binding + index

\* The code appends an entry, whatever the table holds already.
EntriesAfter(s, w, r) ==
  IF w.type \in Written /\ r \in Usable
  THEN Append(entries[s], [binding |-> BindingOf(w), type |-> w.type, resource |-> r])
  ELSE entries[s]

\* Writing r to binding b is within what the code supports: the binding has
\* not been written before, WebGPU has the resource, and a texture comes
\* without a sampler of its own.
Supported(s, w, r) ==
  /\ promised[s][w.binding + index] = NULL
  /\ w.type \in Written \ {"combined"} /\ r \in Usable

WriteDescriptor ==
  /\ ~Idle
  /\ LET w == Head(pending)
         s == w.set
         r == w.infos[index + 1]
     IN /\ index < Len(w.infos) /\ ~Full(s)
        /\ entries' = [entries EXCEPT ![s] = EntriesAfter(s, w, r)]
        /\ promised' = [promised EXCEPT ![s][w.binding + index] = r]
        /\ regular' = [regular EXCEPT ![s] = @ /\ Supported(s, w, r)]
  /\ index' = index + 1
  /\ UNCHANGED << layoutVars, live, layout, wgpu_bind_group, groups_held,
                  owned, pending >>

\* What the new bind group of s is created from.
GroupOf(s) == entries[s]

\* Releasing the old bind group, and creating a new one.
HeldAfterUpdate(s) ==
  HeldWithout(s) + (IF wgpu_layout[layout[s]] = NULL THEN 0 ELSE 1)

\* The write is done, or the rest of it dropped: the bind group is replaced.
EndOfWrite ==
  /\ ~Idle
  /\ LET w == Head(pending)
         s == w.set
     IN /\ index = Len(w.infos) \/ Full(s)
        /\ wgpu_bind_group' =
             [wgpu_bind_group EXCEPT
                ![s] = IF wgpu_layout[layout[s]] = NULL THEN NULL ELSE GroupOf(s)]
        /\ groups_held' = HeldAfterUpdate(s)
        /\ regular' = [regular EXCEPT ![s] = @ /\ index = Len(w.infos)]
  /\ pending' = Tail(pending)
  /\ index' = 0
  /\ UNCHANGED << layoutVars, live, layout, entries, owned, promised >>

DescriptorInit ==
  /\ declared = [l \in Layouts |-> NULL]
  /\ wgpu_layout = [l \in Layouts |-> NULL]
  /\ live = {} /\ owned = {}
  /\ layout = [s \in Sets |-> NULL]
  /\ entries = [s \in Sets |-> << >>]
  /\ wgpu_bind_group = [s \in Sets |-> NULL]
  /\ groups_held = 0
  /\ pending = << >> /\ index = 0
  /\ promised = [s \in Sets |-> Unpromised]
  /\ regular = [s \in Sets |-> FALSE]

\* Up to two sets in one call.
Arrays(S) == UNION {[1..n -> S] : n \in 0..2}

DescriptorNext ==
  \/ \E l \in Layouts, d \in Declarations, given \in BOOLEAN :
       CreateDescriptorSetLayout(l, d, given)
  \/ \E out \in Arrays(Sets) : \E ls \in [DOMAIN out -> Layouts] :
       AllocateDescriptorSets(out, ls) \/ AllocateOutOfMemory(out, ls)
  \/ \E s \in Sets : FreeDescriptorSet(s)
  \/ \E call \in Calls : UpdateDescriptorSets(call)
  \/ WriteDescriptor
  \/ EndOfWrite

DescriptorSpec == DescriptorInit /\ [][DescriptorNext]_descriptorVars

-----------------------------------------------------------------------------
(* Properties                                                              *)

\* Type invariant.  A set never has more entries than its table has room for.
DescriptorTypeOK ==
  /\ declared \in [Layouts -> Declarations \cup {NULL}]
  /\ live \subseteq Sets /\ owned \subseteq Sets
  /\ layout \in [Sets -> Layouts \cup {NULL}]
  /\ entries \in [Sets -> Seq(Entry)]
  /\ \A s \in Sets : Len(entries[s]) <= MaxEntries
  /\ wgpu_bind_group \in [Sets -> Seq(Entry) \cup {NULL}]
  /\ groups_held \in Nat
  /\ pending \in Seq(Write)
  /\ index \in Nat
  /\ index > 0 => pending # << >> /\ index <= Len(Head(pending).infos)
  /\ promised \in [Sets -> [Bindings -> Resources \cup {NULL}]]
  /\ regular \in [Sets -> BOOLEAN]

\* No set and no bind group is lost: the sets that exist are the ones the
\* application can free, also after an allocation has failed half way, and
\* WebGPU has given out one reference for each of them that has a bind group,
\* however often it has been updated.
NothingLost ==
  /\ live = owned
  /\ groups_held = Cardinality({s \in live : wgpu_bind_group[s] # NULL})

Updating(s) == ~Idle /\ Head(pending).set = s

\* Every binding once, with what was last written there.
Describes(es, s) ==
  /\ \A i \in DOMAIN es : promised[s][es[i].binding] = es[i].resource
  /\ \A i, j \in DOMAIN es : es[i].binding = es[j].binding => i = j
  /\ \A b \in Bindings :
       promised[s][b] # NULL => \E i \in DOMAIN es : es[i].binding = b

HoldsLastWrites(s) ==
  ~Updating(s) /\ wgpu_bind_group[s] # NULL => Describes(wgpu_bind_group[s], s)

\* Between the writes of its updates, the bind group of a set is made of what
\* was written to each of its bindings, and of nothing else.  The code promises
\* this for sets written in forms that it supports: a binding written a second
\* time is appended a second time.
GroupsHoldLastWrites == \A s \in owned : regular[s] => HoldsLastWrites(s)

\* WebGPU takes the entries g for a layout with the entries l: one for each,
\* of its type.
Accepted(g, l) ==
  /\ Len(g) = Len(l)
  /\ \A k \in DOMAIN l : \E i \in DOMAIN g :
       g[i].binding = l[k].binding /\ g[i].type = l[k].type

Complete(s) ==
  \A k \in DOMAIN declared[layout[s]] :
    promised[s][declared[layout[s]][k].binding] # NULL

\* A set that has been written to the last binding of its layout, in whatever
\* order and by however many calls, has a bind group, and one that WebGPU
\* accepts.
CompleteSetsAccepted ==
  \A s \in owned :
    LET l == wgpu_layout[layout[s]]
    IN regular[s] /\ ~Updating(s) /\ Complete(s) /\ l # NULL /\ entries[s] # << >>
         => wgpu_bind_group[s] # NULL /\ Accepted(wgpu_bind_group[s], l)

=============================================================================
