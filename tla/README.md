# WebVulkan: TLA+ specifications

WebVulkan (`src/`) is a C library that implements the Vulkan API on top of
WebGPU. An application calls `vk*` functions; the library keeps objects of its
own (`struct VkCommandBuffer_T` and so on) and drives `wgpu*` objects with
them. There are no threads: `src/docs/ARCHITECTURE.md` (193-195) says that every
call comes from one thread. What makes the library hard is something else:

* calls arrive in any order the Vulkan contract allows, and each of them leaves
  flags and handles behind that later calls trust (*protocol sequences*, *stale
  state*);
* the GPU runs behind the library's back, later than the calls that hand it work
  (*ordering*, *liveness*);
* allocations fail half way through batched calls (*partial failure*);
* tables have fixed sizes, counters and indices have edges (*resource bounds*,
  *numeric edges*);
* objects are reference counted and destroyed in any order.

## 1. Inventory

| Part (source) | State it keeps | Operations | Correct when |
|---|---|---|---|
| Command buffers (`objects/command_buffer.c`) | encoder and pass handles, `recording`, `in_render_pass`, `bound_*` | allocate, free, begin, end | flags and handles agree with the WebGPU encoder; no encoder or pass is leaked, shared or used after release |
| Recording (`commands/draw.c`, `copy.c`, `compute.c`, `render_pass.c`) | the `bound_*` fields above, the WebGPU pass | bind, set state, begin and end a pass, draw, copy, dispatch | WebGPU records what Vulkan says was recorded and rejects nothing |
| Queue (`core/queue.c`) | none of its own | submit, wait idle | the GPU gets the recorded lists, each once, in submission order |
| Fences (`objects/fence.c`) | `signaled` | create, destroy, reset, query, wait | signaled means the work is done |
| Semaphores (`objects/semaphore.c`) | `value`, `signaled`, `timeline` | create, destroy, signal, wait, query | values never go down; a wait returns when the value is reached |
| Events (`objects/event.c`, `commands/sync.c`) | `signaled` | set, reset, query | a flag |
| Shared objects (`framebuffer.c`, `pipeline_layout.c`, `image_view.c`, `descriptor_set_layout.c`, `webvulkan_internal.h`) | `ref_count`, `attachments[]`, `set_layouts[]` | create, destroy, retain, release | an object lives exactly as long as someone can reach it |
| Device memory (`memory/device_memory.c`, `buffer.c`, `image.c`) | shadow pointer, WebGPU buffer, `bound_memory` | allocate, free, map, unmap, bind | what is written is kept, and resources read it |
| Descriptor sets (`descriptor_set.c`, `descriptor_set_layout.c`) | `entries[32]`, `entry_count`, bind group | allocate, free, update | the bind group holds the last write of every binding |
| Pipelines (`pipeline.c`) | WebGPU pipeline | batched creation, destruction | attributes go to their binding, stages get their shaders, the pipeline fits its render pass; all or nothing |
| Render pass objects (`objects/render_pass.c`) | formats, depth index | create, destroy | every attachment ends up in its own role |
| Instance, physical device, device (`core/*.c`) | cached physical device, queue handles | create, enumerate, destroy | one handle; everything is freed |
| Command pools (`command_pool.c`) | nothing | create, destroy, reset | - |
| Push constants (`sync/push_constants.c`) | one WebGPU buffer | init, cleanup, push | constants reach the draw |
| Shader modules (`shader_module.c`, `webvulkan.c`) | one WebGPU module per stage | create, destroy, batch compile | no module leaked; all failures clean up |
| SPIR-V parser (`shaders/spirv_parser.c`) | cursor, tables, current function and block | parse, look up | the cursor stays on instruction boundaries; what is recorded is what the words say |
| WGSL generator (`shaders/wgsl_gen.c`) | text buffer, cursor, capacity | init, generate, free | the text declares the names it uses and holds the entry point asked for; the buffer is not overrun |
| Hash table, list (`util/`) | buckets and counters; links | insert, look up, remove; push, pop | a map; a sequence |
| Log (`util/log.c`), barriers, subpasses | - | output; nothing | - |

How they interact. `vkCmd*` calls go through the handles of a command buffer to
a WebGPU encoder (call). A command buffer keeps raw pointers to the pipelines,
buffers and sets bound to it (shared state, not retained). `vkQueueSubmit`
finishes the encoders of command buffers, gives the results to the WebGPU queue
and raises the fence (call, shared state). The GPU takes from the WebGPU queue
at its own pace (asynchronous). Framebuffers and pipeline layouts retain the
views and set layouts they name (reference counts). `PROJECT.json` lists every
hazard at its line, with the properties that watch over it.

## 2. Modules

| Module | What it is |
|---|---|
| `WebGPU` | external: one WebGPU command encoder as a record, with the operations and the validation the library meets |
| `CommandBuffer` | command buffers and everything recorded into them, over `WebGPU` |
| `Fence` | the fence object |
| `Submission` | composes `CommandBuffer` and `Fence` with the WebGPU queue and the GPU |
| `Reachability` | abstract: an object lives exactly as long as someone can reach it |
| `SharedObjects` | reference-counted children under parents that name them; implements `Reachability` |
| `DeviceMemory` | allocations, shadows, binding |
| `PointerMap` | abstract: a partial map from keys to values |
| `HashTable` | the open-addressing table; implements `PointerMap` |
| `SpirvParser` | the walk of the parser over a module's words, with the tables and functions it fills |
| `Descriptors` | descriptor-set layouts, sets and their updates |
| `WgslGen` | what the WGSL generator writes for a parsed module |
| `WgslBuffer` | the buffer it writes into |
| `CompileShaders` | `wgvkCompileShaders`: a batch through parser and generator, over `WgslBuffer` |
| `ShaderModules` | one WebGPU shader module per stage, over `WgslGen` |
| `Selection` | what a loop over an array keeps of it, for the generator and for attachments |
| `Attachments` | which attachment plays which part: render pass, framebuffer, begun pass |
| `Pipelines` | pipelines, composing `ShaderModules` and `Attachments` |
| `MC...` | instances for TLC: symmetry sets, concrete hash function |
| `...Proofs` | theorems and their proofs |

### WebGPU (external)

An encoder has a status (`unused`, `open`, `inpass`, `finished`), `valid` (false
once a call has been rejected), `held` and `passHeld` (the library's references
to it and to its open pass), the bindings and dynamic state of the pass and the
commands recorded.
A draw without a pipeline, or an indexed draw without an index buffer, is
rejected, and so is finishing an encoder twice or with a pass open. Only what
the library can trip over is modelled; this is translated from the calls in
`src/`, not from a WebGPU implementation.

### CommandBuffer

One variable per field of `struct VkCommandBuffer_T` that control depends on,
each a function over command buffers, plus `encoder` (WebGPU) and two history
variables: `vk[c]`, what Vulkan says is bound since the recording began, and
`intended[c]`, the commands Vulkan says were recorded. One action per call, or
per return of a call (`BeginNotReady`, `BeginOutOfDeviceMemory`,
`BeginRecording`). The application makes the calls the code refuses or ignores,
too; where the code relies on the Vulkan contract without a check, the action's
guard states that contract. The constant `ClientUses` names what an application
may do or meet that is legal Vulkan and that the code does not treat as Vulkan
does:

| In `ClientUses` | An application with it |
|---|---|
| `early_bind` | binds or sets state before the pass in which it is used |
| `compute` | binds compute pipelines and dispatches |
| `ignored_state` | sets line width, depth bias, depth bounds or stencil masks |
| `dropped_transfer` | calls `vkCmdCopyImage`, or blits, resolves, fills or updates |
| `rerecord` | begins a command buffer again |
| `free_open` | frees a command buffer inside a pass |
| `resubmit` | submits a recording again |
| `late_failure` | meets a submission that fails after its first batch |
| `early_wait` | waits for a fence that is not signaled yet |

A run or a theorem says which of them it admits. Section 4 says
what goes wrong with the others.

`SetDynamicState` stands for all the `vkCmdSet*` calls. Which kinds there are is
the constant `DynamicStates`: `ForwardedStates` reach the open pass,
`IgnoredStates` have empty bodies in the code, and `vk[c]` keeps both. `Transfer`
is what Vulkan says of a transfer; `CopyBuffer` and `CopyTexture` record their
regions, `CopyImage` and `TransferDropped` record nothing.

Abstracted: offsets, sizes, draw parameters and copy regions; a binding is the
object bound. A draw count is 0, 1 or 2, a number of regions 1 or 2.

### Submission

`vkQueueSubmit` is one call with two nested loops, so `QueueSubmit` folds
`SubmitBatch` over the batches and `FinishOne` over the command buffers of each.
`QueueSubmitOutOfMemory` is the early return at any batch: the batches before it
are in the hands of WebGPU (`Hand`), but the call has failed and so to Vulkan has
submitted nothing. WebGPU takes the command buffers of one batch together or, if
it rejects one, none of them. `GpuExecute` is the GPU. Histories: `submitted`,
the lists Vulkan says were submitted, and `covers[f]`, how much work fence `f`
stands for, or `Never` if the submission made with it has failed.

### SharedObjects and Reachability

Framebuffers over image views and pipeline layouts over set layouts follow the
same protocol, so one module stands for both. `Reachability` says what it
promises: an object appears with somebody to reach it, and dies in exactly the
step in which it loses the last one. The refinement maps `alive` to the objects
with a positive count and `reachers` to the application (while it has not
destroyed the object) and the slots that name it.

### DeviceMemory

Mapping gives out a malloc'ed shadow with arbitrary contents, or the shadow
there is; unmapping uploads the whole shadow. `written` is the history of what
the application wrote. `Remaps` admits an application that maps memory again
after it has written and unmapped it.

### HashTable and PointerMap

The probe sequence, tombstones, growth at three quarters with a rebuild, and
growth that fails. The hash function is a constant: any function from keys to
numbers, reduced modulo the number of buckets.

### SpirvParser

One action per kind of instruction, `Iteration` is one turn of the parsing loop.
A word is abstracted to what it would mean as a header (opcode and word count)
and whether it ends a string, so an operand is a word like any other and the
model shows what happens when the parser takes it for a header. Instructions
whose handlers have the same shape (so many fixed operands, then a list of at
most so many) are one opcode; `HandlerOf` is the table of these shapes. Every
allocation can fail (`FunctionOutOfMemory`, `BlocksOutOfMemory`,
`LabelOutOfMemory`).

Against it stand history variables that follow the word counts of the headers
and nothing else: `expected` is where the next instruction begins, `body` and
`declared` what should have been recorded. `regular` says that every instruction
so far had a form the parser supports (`Supported`: lists within the arrays, no
variable with an initialiser, no arithmetic, names that end within their
instruction). Abstracted: identifiers, values and texts; the buffer for names is
taken to be large enough (16384 bytes); local sizes are read but not stored.

### Descriptors

`vkUpdateDescriptorSets` is two nested loops within one call:
`UpdateDescriptorSets` starts it, `WriteDescriptor` is a turn of the inner loop,
`EndOfWrite` replaces the bind group. `pending` and `index` are the loop
variables; no other call runs while `pending` is not empty. `promised` is the
history of what was last written to each binding, `regular` says that every
write of a set had a form the code supports: a binding written once, a resource
WebGPU has, no texture with a sampler of its own, a write that fits. WebGPU
gives out a reference per bind group, counted in `groups_held`. Offsets and
sizes of buffers are left out, and so are bindings that are arrays: of a layout
binding the code ignores `descriptorCount`, of a write `dstArrayElement`
(`descriptor_set.c:111`, `:145`), so `Permitted` admits only writes whose
descriptors go to one binding each.

### WgslGen, WgslBuffer, CompileShaders

A text is a sequence of pieces; a piece stands for the `emit()` calls of one
declaration, signature or statement, and keeps the names it declares and the
names it uses, those of the structs in the types it writes included, and the
work-group size. A struct without members is a piece of kind `empty`. `Pieces` is `wgvk_wgsl_generate` with one operator per `emit_*`
function. In particular `IoStruct` and `HasStruct` are separate, because the code
decides twice whether there is a struct, and `EntryName`, `GroupSize` and
`InitialEntry` are, because it looks the entry point up three times. A parsed
module is given by the tables that `SpirvParser` fills. `WgslBuffer` writes the
pieces one at a time into a buffer that doubles (`Emit`) or cannot at some word
of the piece (`EmitFails`: any part of it is dropped, and the buffer may have
grown for a later word). `CompileShaders` goes through a batch, each allocation
failing or not.

### ShaderModules, Attachments, Pipelines

`ShaderModules` takes code by its kind and entry points; `made` are the entry
points that a WebGPU module was got for. `CreateShaderModuleFails` is every way
out with an error; WebGPU has given nothing on any of them. `unique` is the history of whether any
code had two entry points of one stage. `Attachments` are values: the objects do
not change. `Pipelines` makes calls of several create infos (`CreatePipelines`,
then `PipelineMade` or `PipelineFails` for each); `made` is the part of the
caller's array filled so far, `owned` what the application may destroy. A stage
of a pipeline keeps the entry point it asks for and those that its shader has.
`AttributeArray` writes the attributes of each binding to the front of one
array, as the code does. Memory for that array is taken to be there, because
the code does not look. Formats, topology, rasterization and depth comparison
are left out.

## 3. Runs

`PROJECT.json` gives each property's mutant: a plausible bug in a mapped
definition under which TLC finds the property violated.

| Run | Question | Bounds and why they are enough |
|---|---|---|
| `recording` | Is what Vulkan says was recorded recorded, in the order of the calls, and does WebGPU reject nothing? | One command buffer (recordings do not share state but for encoders), two encoders so that it can be re-recorded, two pipelines to tell stale from fresh, an index buffer, a descriptor set and a viewport; two commands per recording, in one pass or two or outside: each pair of draws and copies in either order, with what is bound changed in between |
| `any_application` | Does a pass hold anything stale, do flags and handles agree, are the slot tables kept, whatever the application does? | One command buffer, two encoders, everything in `ClientUses` that concerns recording; two pipelines, a vertex slot and runs of two so that ranges pass the end, one state forwarded and one ignored; one command, because the properties are about handles and passes |
| `submit` | Do the lists reach the GPU in order, once, are they run in the end, what does a failure do to the fence, and who owns encoders and passes? | Two command buffers and two encoders: sharing and theft need two of each; re-recording, so that an encoder can be lost; up to two batches of up to two: order within and across batches; failure at the first batch; nothing to draw with, because copies are enough to tell lists apart |
| `hash` | Is the table a map? | Four keys that collide in four buckets, over the wrap; growth to eight buckets |
| `sharing` | Are counts exact and lifetimes reachability? | Three children, two parents of two slots: a child in two slots of one parent and in two parents, nulls, any order of destruction |
| `memory` | Are written bytes kept? | Two allocations, two offsets, two byte values: partial writes, a second mapping while mapped; no mapping again after unmapping |
| `parse` | Does the parser stay on instruction boundaries, record what the words say and end? | 468 modules put together from every kind of instruction, with operands that look like nothing or like `OpFunctionEnd`, up to two functions and two blocks; and every sequence of up to two of 48 arbitrary words. Tables of two entries and blocks of two instructions fill up; a first block array of one grows |
| `descriptors` | Are sets and bind groups kept and released, tables not overrun, and do bind groups hold what was written? | Two sets, calls of up to two writes of up to two descriptors, five layouts (two bindings of one or two types, unsupported types, more bindings than the tables hold), tables of two entries: full in the middle of a write and between writes |
| `wgsl` | Do texts declare what they use and hold the right entry point, does a batch clean up? | Batches of one module, for every combination of ten interfaces, four bodies (one that takes inputs, constants and what is not translated, one that uses a value too early) and three sets of entry points (with two of one stage, with work-group sizes), with and without a struct that is empty, for each stage; four shaders of which two fail. Pieces of two bytes and a first buffer of four: it doubles several times, and fills exactly |
| `pipelines` | Are shader modules and pipelines neither lost nor released early, do stages, attributes and attachments match? | One shader module of four kinds of code, of which any entry points transpile or none, destroyed and made anew; two pipelines, so that a call fails after the first and beside an older one; two colour targets and infos with three; bindings numbered out of order |
| `fence_done`, `desync` | violations | the smallest instance that shows each; section 4 |

Fairness. `ParserSpec` has weak fairness of `Iteration`: the loop runs within one
call and nothing can stop it. `CompileSpec` has weak fairness of its next-state
relation for the same reason: `wgvkCompileShaders` is one call, whatever fails in
it. In `Submission`, `GpuFairness` is weak fairness of
`GpuExecute`. The browser or driver keeps running work it has accepted; nothing
the library does can stop it, and no call of the application is assumed to
happen.

`CHECK_DEADLOCK FALSE` is set where the bounds stop the system (encoders and
command buffers are used up, `MaxSubmitted` reached, a full table of keys) or
where the program ends.

## 4. Where code and documentation disagree

Runs with `expect: violation`, each with the line it quotes in `PROJECT.json`:

| Run | What it shows |
|---|---|
| `fence_done` | a fence is signaled before the work is run (`queue.c:43`) |
| `desync` | the handler of arithmetic instructions reads one operand too few and takes the last one for an instruction (`spirv_parser.c:568`) |

Met while modelling, without a run of their own. Where a feature of `ClientUses`
or `Remaps` is named, TLC finds the property violated once the feature is admitted,
with the handles and states it needs, in the run that checks it. Recording and
submission:

* What is bound or set before `vkCmdBeginRenderPass` is lost, except the pipeline
  (`commands/render_pass.c:77`, against `docs/API_COVERAGE.md:161`;
  `RecordedAsIntended` fails with `early_bind`).
* `vkCmdDispatch` records nothing, because no compute pass is ever begun
  (`commands/compute.c:5`, against `API_COVERAGE.md:170`; `RecordedAsIntended`
  fails with `compute`).
* `docs/API_COVERAGE.md:180-181` says of viewports and scissors "Stored, not
  applied". The code does the opposite (`commands/render_pass.c:112`): it sets
  them on the open pass and stores them nowhere. The model follows the code.
* Beginning a command buffer again overwrites the handle of its encoder, which is
  never released (`command_buffer.c:81`): the exception that `EncodersKept` makes.
* A wait raises the fences it should wait for, that of a submission that failed
  included (`fence.c:73`; `FencesOfWholeCalls` fails with `early_wait`).
* A submission that fails at a later batch has submitted the earlier ones
  (`queue.c:15`; `RunsWhatWasSubmitted` fails with `late_failure`).
* The pipeline of a command buffer outlives the recording and is set on the
  passes of the next one (`commands/render_pass.c:79`).
* Five `vkCmdSet*` calls have empty bodies: line width, depth bias, depth bounds,
  stencil compare and write mask (`commands/render_pass.c:133-144`, `:159-178`).
  `docs/API_COVERAGE.md:182-183` says of the first two that WebGPU has no such
  state, and says the same of blend constants (`:184`), which are applied
  (`commands/render_pass.c:146`). `PassFollowsVk` is about the states that are
  forwarded; `RecordedAsIntended` fails with `ignored_state`.
* `vkCmdCopyImage` goes through its regions and records none (`copy.c:40`;
  `docs/API_COVERAGE.md:191` calls it partly implemented). `vkCmdBlitImage`,
  `vkCmdResolveImage`, `vkCmdFillBuffer` and `vkCmdUpdateBuffer` record nothing
  (`:150-199`). `RecordedAsIntended` fails with `dropped_transfer`.
* A second submission of the same recording is invalid (`queue.c:23`;
  `RunsWhatWasSubmitted` fails with `resubmit`).
* Freeing a command buffer inside a pass leaks the pass (`command_buffer.c:5`;
  `PassesOwned` fails with `free_open`).
* `vkQueueWaitIdle` waits for nothing (`queue.c:54`, against
  `API_COVERAGE.md:245`).

Memory and tables:

* Memory bound to a resource is never read (`device_memory.c:188`).
* The shadow that mapping gives out is not filled from the WebGPU buffer, and
  unmapping uploads all of it: memory mapped again loses what it held (`:156`;
  `WritesKept` fails with `Remaps`).
* The hash table promises a power of two (`hash_table.c:48`) that a requested
  size over eight need not be.
* The physical device is retained by every enumeration and never released
  (`instance.c:109`, against `webvulkan_internal.h:45`).

Shaders:

* The parser loses step after a variable with an initialiser
  (`spirv_parser.c:421`), after lists longer than its arrays (`:313`) and when
  the blocks of a function cannot be allocated (`:456`).
* A text of which a piece could not be written is returned like any other
  (`wgsl_gen.c:26`; `wgsl_gen.h` promises NULL on failure).
* Fragment shaders with outputs return `VertexOutput` while `FragOutput` is
  declared (`wgsl_gen.c:380`, `:603`).
* Compute shaders with inputs take a `VertexInput` that nothing declares
  (`wgsl_gen.c:370`).
* A statement names its operands `v<id>`, but only locals and results are ever
  declared so. A body that names an input, an output, a resource or a constant,
  as that of nearly every real shader does, or a result of an instruction that
  is not translated, becomes a text that does not compile (`wgsl_gen.c:483`,
  `:494`, `:500`). `README.md:195` of the repository calls the transpilation
  limited, and `docs/ARCHITECTURE.md:169` says that logic is not translated, where
  arithmetic, loads and stores are. `NamesResolve` states exactly which names are
  left (`Elsewhere`).
* A struct without members is written as one (`wgsl_gen.c:187-194`), which WGSL
  does not allow; built-ins of unknown name can leave an input struct empty.
* Of two entry points of one stage, the WebGPU module of the first is lost
  (`shader_module.c:124`), and both have the text of the first (`:107`).

Descriptors, pipelines and passes:

* A binding written again is appended again, so that the bind group names it
  twice (`descriptor_set.c:140`).
* Array bindings have no room of their own: a write of several descriptors goes
  to as many bindings (`descriptor_set.c:145`), and `dstArrayElement` and
  `descriptorCount` of the layout are not looked at. Copies of descriptors are
  ignored.
* Failed batches leave handles of released objects in the caller's array
  (`descriptor_set.c:64`, `pipeline.c:287`).
* The attributes of a later vertex binding overwrite those of an earlier one
  (`pipeline.c:121`).
* A fragment stage without colour attachments still has one target
  (`pipeline.c:169`), and every target is BGRA8Unorm, whatever the render pass
  says.
* A depth attachment that is not the last one of its render pass gets mixed up
  with the colours (`commands/render_pass.c:33`).
* Numbers of depth formats differ between `pipeline.c:236` (124 to 130) and
  `image.c:40`.
* An array image gets one layer: its depth is 1 and is preferred to `arrayLayers`
  (`image.c:181`).

## 5. Proofs

TLC checks the instances above; TLAPS proves the following for every value of
the constants, from the assumptions named in the modules (constants are
disjoint from `NULL`, slots are naturals, sets are finite where counted).

* `CommandBufferProofs`. `TypeCorrect`: `TypeOK` is inductive.
  `HandlesStayConsistent`: `HandlesConsistent` is inductive once `TypeOK` is
  added; it ties the flags and handles of a command buffer to the status of the
  encoder, for every application. `EncodersStayHeld`: nobody uses an encoder
  after releasing it and no two command buffers share one. The invariant behind
  it adds that an encoder owned by nobody is never given out again.
  `EncodersStayOwned` (every application; an action property) and
  `PassesStayOwned` (without `free_open`): no encoder that is still held is lost
  but by beginning its command buffer again, and no pass at all. They rest on
  these invariants, which say that ending a pass finds it open and that beginning
  one overwrites no other.
  For applications without `early_bind`: `NothingRejected` and `PassesFollowVk`;
  without `compute`, `ignored_state` and `dropped_transfer` as well:
  `RecordsWhatWasAsked`. The inductive part is `FollowsVk`: on an open pass every
  binding, and every state the code forwards, is the one Vulkan prescribes, where
  a pipeline left from an earlier recording may stand in a pass until the
  application binds its own; a draw needs one bound in this recording, so the
  leftover is never drawn with. Each of the four excluded features makes the code
  record less than Vulkan says (section 4), so the theorem is false with any.
  `PassesNeverStale` needs no such condition: for every application, early
  binding included, a pass may miss what Vulkan prescribes but holds nothing
  else. Its invariant `CleanPasses` adds that the pipeline field is that of this
  recording, or a compute pipeline, before a pass can take it over, and that no
  pass has a state of those the code ignores.
* `SubmissionProofs` builds on these. `RunsExactlyTheSubmissions`: under the same
  condition as `RecordsWhatWasAsked` and without `resubmit` and `late_failure`,
  what the GPU has run followed by what is queued is what was submitted. The two
  nested loops of `vkQueueSubmit` are folds, and a recursive function has to be shown to exist before anything can be
  said of it (`FoldExists`); `FinishAll` and `SubmissionAccepted` then say what
  they come to, for any number of batches of any length. The invariant
  (`SubmissionInv`) adds the recording invariants and `IdleEncoders`: the encoder
  of a command buffer that has ended is in no render pass, so that it can be
  finished and WebGPU takes every batch whole. A submission that fails at its
  first batch leaves all of this alone. `FencesStandForWholeCalls`, without
  `early_wait`: a signaled fence is never that of a submission that failed, at
  whichever batch. The state does not tell why a fence is signaled, so
  `FencesInv` strengthens it to every fence that is not unsignaled.
* `HashTableProofs`. `HashInv` says that no key is in two buckets, that every key
  is found by its probe over live and deleted buckets, that the two counters are
  exact, and that fewer buckets are used than there are. `CountersStayExact`,
  `ProbesEnd` and `TableIsAMap` (each step of the table is a step of `PointerMap`
  or a stutter) follow. The hard step is growth, a loop that inserts into the new
  table: it is recursive, so `PrimitiveRecursion` shows that it exists and
  `RehashStep` carries its invariant from one bucket to the next. Growth can fail
  and insertion goes on; that a bucket is still left needs at least four of them
  (`HashAssumption`; the code has eight).
* `SharedObjectsProofs`. `RefCountsAreExact` is an induction over the
  cardinality of the set of slots that name a child; one lemma per way that set
  changes. `LivesWhileReached` uses it to map every step to `Appear`, `Gain`,
  `Lose` or a stutter of `Reachability`.
* `DeviceMemoryProofs`. `WritesAreKept`, under `~Remaps`. The invariant is
  strengthened with: memory that is mapped for the first time has no written
  byte.
* `DescriptorsProofs`. `DescriptorTypes`, `DescriptorsOwned` and
  `DescriptorGroups` follow from one invariant (`DescriptorsInvariant`). It adds
  to the properties that the entries of a set say what was last written in the
  middle of an update too (`Truthful`), that the writes still to come name sets
  of the application (`InProgress`), and that these have a layout (`Laid`). The
  references count a set of sets, which each step changes by one element.
  `DescriptorSetsAccepted` needs a second one (`Fits`): every entry of a set has
  been declared in its layout, and a set with entries has a bind group. That the
  group of a complete set has no entry too few or too many is then a matter of
  counting: entries and declarations of one binding each are mapped into each
  other. It uses that no layout declares a binding twice, which Vulkan demands
  and the code relies on.
* `ShaderProofs`, about pipelines. `ShadersNotLost`, `PipelinesNotLost` and
  `StagesGetTheirShaders` for any code and calls of any length. The invariant
  adds that every live shader module is `Sound` (what it has for a stage was made
  from the entry point of that stage), which is what `unique` is for, and that
  the infos still to come name live modules. Where the code takes the last of
  several things that match, the proofs are about the case of one (`OneOf`).
  `BuffersAreDescribed` and `PipelinesFitPasses` are about what a pipeline is made
  of (`MadeInv`: it is still what its info says). They rest on `PickedLoop`, what
  a loop that keeps some places of a sequence comes to, and on `OnlyBuffer`: the
  array of attributes that all bindings write to the front of is that of the only
  binding with attributes. `MatchingPass` compares the three ways of counting
  colours: formats by kind (`render_pass.c`), all views but one
  (`vkCmdBeginRenderPass`) and the blend state (`pipeline.c`). `PipelinesTyped`
  needs `HasLargest`: a stage's entry point is the last of a finite number.
* `ShaderProofs`, about the generator. `WritesWithinBuffer`: `DoublingEnds` and
  `DoublingIsEnough` say that doubling a positive capacity reaches any size; that
  it starts from a positive one is `GeneratorAssumption`. `NothingHeldBetween`:
  what is held is a function of the step (`HeldInv`). `OutputsAreTexts`: while
  nothing is lost, what is written followed by what is still to be written is the
  text of the current info (`WritingInv`), so every whole output is the text of
  its own. `TextsResolve` and `TextsMatchEntries` are then about `Pieces` alone.
  Everything before the body is a piece that uses structs only (`Fit`): types name
  structs of the table because they are made of earlier types
  (`NamedAreStructs`, an induction over the table); the two decisions whether there
  is a struct for inputs or outputs agree (`IoStructFits`, `SignatureFits`); and a
  statement uses locals, declared before it, results of statements, which are
  earlier ones because SPIR-V promises it and translation keeps the order
  (`PickedOrder`), or what is in `Elsewhere` by its definition (`BodyResolves`). `StatementsOfText`: the statements are exactly those of the
  body that `wgvk_spirv_get_function` finds, and the name is that of the entry
  point it is found for (`TextMatches`). `BatchAssumption` says which modules the
  parser gives: those that follow SPIR-V's rule that types are made of earlier
  types, and variables are pointers. The generator relies on it and does not check.
* `SpirvParserProofs`. `StaysInStep`: over supported forms the cursor is always
  where the headers say, for modules and tables of any size. The invariant adds
  the types of the words and the two positions. The lemmas are one per shape of
  reading: a list (`TakenSupported`), a string (`StringEnd`), an entry point.
  `AlwaysForward`: each iteration moves the cursor, over any words, which with
  the end of the module as a bound is why `Terminates` holds.
  `StaysWithinBounds`: `FunctionOK` strengthens the bounds with the types of the
  blocks and a positive capacity, without which doubling it would make no room.
  `RecordsWhatIsThere`: while the forms are supported and memory lasts, what is
  recorded is what the headers say. `RecordInv` adds to that what both sides need
  to decide alike whether there is room: a table holds as many entries as there
  are declarations for it (`TablesFollow`), the current function and block are
  those the headers lead to, and the block holds as many instructions as belong
  to its label (`OwnerFollows`). Both come down to positions that only grow, so
  that nothing is recorded twice (`BodyFollows`).

Loops are recursive functions in the models, and their values follow from
induction over the natural numbers. The provers cannot instantiate the library's
induction theorem, which takes a predicate, so the proofs take a set for it
(`SetInduction`, from the well-foundedness of `<`).

Only model-checked: liveness (`EventuallyRun`, `Terminates`, `EveryOutputSet`),
which needs fairness and `ENABLED`. Every safety property and action property of
the passing runs has a theorem.

## 6. Plan

Done, in order: command buffers and recording; submission; the hash table;
shared objects; device memory; the SPIR-V walk; descriptor sets; the WGSL
generator and batches; shader modules, attachments and pipelines. Left, in order
of importance:

1. Formats: the tables of `image.c`, `pipeline.c` and `device_memory.c` (sizes and
   alignments) against each other.
2. The lifetime of a pipeline under a command buffer that keeps its pointer
   across recordings. Theorem: without re-recording no destroyed pipeline is used.
3. `Semaphore`, `Bootstrap` (instance, device, queue handles, push constants),
   `List`.

Not modelled and why: image, sampler, format and feature tables (translations of
constants without later state), the words of the WGSL text, logging, barriers,
subpasses and events (calls that do nothing or keep a flag), command pools (no
state), build files, samples and tests.
