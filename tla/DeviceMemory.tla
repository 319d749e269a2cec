----------------------------- MODULE DeviceMemory -----------------------------
(***************************************************************************)
(* Device memory: allocation, mapping through a host-side shadow, binding  *)
(* to buffers and images (src/src/memory/device_memory.c), over the WebGPU *)
(* buffers behind it.                                                      *)
(*                                                                         *)
(* The application allocates, maps, writes, unmaps, binds and frees.  It   *)
(* keeps to the Vulkan contract where the code relies on it; Remaps admits *)
(* a legal habit that the code does not honour.  The history variable      *)
(* written says which byte the application has put where.                  *)
(***************************************************************************)
EXTENDS Naturals

CONSTANTS
  Memories,     \* VkDeviceMemory handles
  Resources,    \* buffers and images that can be bound
  Cells,        \* the offsets of an allocation
  Bytes,        \* what one of them can hold
  Zero,         \* what WebGPU initialises its buffers with
  Remaps,       \* whether the application maps again memory it has written
                \* and unmapped before
  NULL

ASSUME MemoryAssumption ==
  /\ Remaps \in BOOLEAN
  /\ Zero \in Bytes
  /\ NULL \notin Bytes /\ NULL \notin Memories /\ NULL \notin [Cells -> Bytes]

VARIABLES
  allocated,      \* the allocations that exist
  mapped_ptr,     \* the shadow of each, NULL while not mapped
  wgpu_buffer,    \* WebGPU: what the buffer behind each holds
  bound_memory,   \* the allocation bound to each resource
  storage,        \* WebGPU: what the resource's own buffer or texture holds
  written         \* history: what the application last wrote, NULL for never

memoryVars ==
  << allocated, mapped_ptr, wgpu_buffer, bound_memory, storage, written >>

Contents == [Cells -> Bytes]
Zeroed == [c \in Cells |-> Zero]
Unwritten == [c \in Cells |-> NULL]

-----------------------------------------------------------------------------
(* What plausible mistakes in the code below would do instead.             *)

\* Mapping does not look whether there is a shadow already.
AlwaysFresh(m, fresh) == fresh

\* Unmapping frees the shadow without the upload.
NotUploaded(m) == wgpu_buffer[m]

-----------------------------------------------------------------------------
\* A failed allocation, of the object or of the WebGPU buffer, leaves nothing
\* behind: it is a stuttering step.
AllocateMemory(m) ==
  /\ m \notin allocated
  /\ allocated' = allocated \cup {m}
  /\ wgpu_buffer' = [wgpu_buffer EXCEPT ![m] = Zeroed]
  /\ written' = [written EXCEPT ![m] = Unwritten]
  /\ mapped_ptr' = [mapped_ptr EXCEPT ![m] = NULL]
  /\ UNCHANGED << bound_memory, storage >>

\* The shadow of memory that is still mapped is not freed with it.
FreeMemory(m) ==
  /\ m \in allocated
  /\ allocated' = allocated \ {m}
  /\ mapped_ptr' = [mapped_ptr EXCEPT ![m] = NULL]
  /\ UNCHANGED << wgpu_buffer, bound_memory, storage, written >>

\* Memory that is mapped already keeps its shadow; otherwise malloc gives one
\* with arbitrary contents.
ShadowAfterMap(m, fresh) ==
  IF mapped_ptr[m] # NULL THEN mapped_ptr[m] ELSE fresh

\* vkMapMemory, unless malloc fails.
MapMemory(m, fresh) ==
  /\ m \in allocated
  /\ written[m] # Unwritten /\ mapped_ptr[m] = NULL => Remaps
  /\ mapped_ptr' = [mapped_ptr EXCEPT ![m] = ShadowAfterMap(m, fresh)]
  /\ UNCHANGED << allocated, wgpu_buffer, bound_memory, storage, written >>

\* The application writes through the pointer it was given.
WriteMapped(m, c, b) ==
  /\ m \in allocated /\ mapped_ptr[m] # NULL
  /\ mapped_ptr' = [mapped_ptr EXCEPT ![m][c] = b]
  /\ written' = [written EXCEPT ![m][c] = b]
  /\ UNCHANGED << allocated, wgpu_buffer, bound_memory, storage >>

\* The whole shadow is uploaded, the bytes nobody wrote included.
Uploaded(m) == mapped_ptr[m]

UnmapMemory(m) ==
  /\ m \in allocated /\ mapped_ptr[m] # NULL
  /\ wgpu_buffer' = [wgpu_buffer EXCEPT ![m] = Uploaded(m)]
  /\ mapped_ptr' = [mapped_ptr EXCEPT ![m] = NULL]
  /\ UNCHANGED << allocated, bound_memory, storage, written >>

\* vkBindBufferMemory and vkBindImageMemory store the handle; the resource
\* keeps the WebGPU buffer or texture it was created with.
BindMemory(r, m) ==
  /\ m \in allocated /\ bound_memory[r] = NULL
  /\ bound_memory' = [bound_memory EXCEPT ![r] = m]
  /\ UNCHANGED << allocated, mapped_ptr, wgpu_buffer, storage, written >>

\* vkDestroyBuffer, vkDestroyImage, and creation anew.
RecreateResource(r) ==
  /\ bound_memory' = [bound_memory EXCEPT ![r] = NULL]
  /\ storage' = [storage EXCEPT ![r] = Zeroed]
  /\ UNCHANGED << allocated, mapped_ptr, wgpu_buffer, written >>

MemoryInit ==
  /\ allocated = {}
  /\ mapped_ptr = [m \in Memories |-> NULL]
  /\ wgpu_buffer = [m \in Memories |-> Zeroed]
  /\ bound_memory = [r \in Resources |-> NULL]
  /\ storage = [r \in Resources |-> Zeroed]
  /\ written = [m \in Memories |-> Unwritten]

MemoryNext ==
  \/ \E m \in Memories :
       \/ AllocateMemory(m)
       \/ FreeMemory(m)
       \/ \E fresh \in Contents : MapMemory(m, fresh)
       \/ \E c \in Cells, b \in Bytes : WriteMapped(m, c, b)
       \/ UnmapMemory(m)
  \/ \E r \in Resources :
       \/ \E m \in Memories : BindMemory(r, m)
       \/ RecreateResource(r)

MemorySpec == MemoryInit /\ [][MemoryNext]_memoryVars

-----------------------------------------------------------------------------
(* Properties                                                              *)

\* Where the bytes of an allocation are: in its shadow while it is mapped, in
\* the WebGPU buffer otherwise.
Current(m) == IF mapped_ptr[m] # NULL THEN mapped_ptr[m] ELSE wgpu_buffer[m]

\* No byte the application has written is lost: the host reads it back while
\* the memory is mapped, and it is in the WebGPU buffer after that.
WritesKept ==
  \A m \in allocated, c \in Cells :
    written[m][c] # NULL => Current(m)[c] = written[m][c]

=============================================================================
