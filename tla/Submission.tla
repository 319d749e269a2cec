------------------------------ MODULE Submission ------------------------------
(***************************************************************************)
(* Queue submission (src/src/core/queue.c) over the command buffers of     *)
(* CommandBuffer and the fences of Fence, with the WebGPU queue and the    *)
(* GPU behind it, which runs what it was given later and in order.         *)
(***************************************************************************)
EXTENDS CommandBuffer, SequencesExt

CONSTANTS
  Fences,
  MaxSubmitted   \* bound on the command buffers submitted in one behaviour

VARIABLES
  fence,
  gpuQueue,     \* WebGPU: command lists accepted and not yet run
  executed,     \* GPU: command lists run
  submitted,    \* history: the lists Vulkan says were submitted, in order
  covers        \* history: covers[f], how many of them fence f stands for,
                \* or Never if the submission with f has failed

F == INSTANCE Fence

queueVars == << gpuQueue, executed, submitted, covers >>
submissionVars == << vars, fence, queueVars >>

\* A number of lists that no behaviour reaches.
Never == MaxSubmitted + 1

ASSUME SubmissionAssumption == NULL \notin Fences /\ MaxSubmitted \in Nat

-----------------------------------------------------------------------------
(* vkQueueSubmit                                                           *)

\* The contract: submit what has been recorded and ended.  Only a "resubmit"
\* application submits again what it has submitted since.
Executable(c) ==
  /\ handle[c] = "live" /\ ~recording[c] /\ wgpu_encoder[c] # NULL
  /\ encoder[wgpu_encoder[c]].status = "finished" => "resubmit" \in ClientUses

\* A mistake in FinishOne: the buffers of a batch are filled from the back.
FinishedBackwards(s, c) ==
  LET e == wgpu_encoder[c]
  IN [ enc |-> [s.enc EXCEPT ![e] = Finished(@)],
       buffers |-> << FinishedBuffer(s.enc[e]) >> \o s.buffers ]

\* One element of the loop over a batch: s.enc are the encoders so far,
\* s.buffers the WebGPU command buffers.
FinishOne(s, c) ==
  LET e == wgpu_encoder[c]
  IN [ enc |-> [s.enc EXCEPT ![e] = Finished(@)],
       buffers |-> Append(s.buffers, FinishedBuffer(s.enc[e])) ]

\* A mistake in SubmitBatch: the encoders are finished, nothing is submitted.
FinishedOnly(s, batch) ==
  [ enc |-> FoldLeft(FinishOne, [enc |-> s.enc, buffers |-> << >>], batch).enc,
    gpu |-> s.gpu ]

\* One VkSubmitInfo: every encoder is finished, then WebGPU takes all the
\* command buffers, or none if it rejects one.
SubmitBatch(s, batch) ==
  LET done == FoldLeft(FinishOne, [enc |-> s.enc, buffers |-> << >>], batch)
      accepted == \A i \in DOMAIN done.buffers : done.buffers[i].valid
      lists == [i \in DOMAIN done.buffers |-> done.buffers[i].commands]
  IN [ enc |-> done.enc, gpu |-> IF accepted THEN s.gpu \o lists ELSE s.gpu ]

Submitted(batches) ==
  FoldLeft(SubmitBatch, [enc |-> encoder, gpu |-> gpuQueue], batches)

Promised(batches) ==
  LET all == FlattenSeq(batches)
  IN [i \in DOMAIN all |-> intended[all[i]]]

Submittable(batches) ==
  LET all == FlattenSeq(batches)
  IN /\ \A i \in DOMAIN all : Executable(all[i])
     /\ IsInjective(all) \/ "resubmit" \in ClientUses
     /\ Len(submitted) + Len(all) <= MaxSubmitted

Hand(batches) ==
  /\ Submittable(batches)
  /\ encoder' = Submitted(batches).enc
  /\ gpuQueue' = Submitted(batches).gpu
  /\ UNCHANGED << handle, cmdVars, boundVars, vk, intended, executed >>

\* The fence, if there is one, is signaled before the GPU has run anything.
QueueSubmit(batches, f) ==
  /\ Hand(batches)
  /\ submitted' = submitted \o Promised(batches)
  /\ f # NULL => fence[f] = "unsignaled"
  /\ fence' = IF f = NULL THEN fence ELSE F!Raised({f})
  /\ covers' = IF f = NULL THEN covers
               ELSE [covers EXCEPT ![f] = Len(submitted')]

\* A mistake in FenceAfterFailure: the fence is raised on every return.
RaisedAnyway(f) == IF f = NULL THEN fence ELSE F!Raised({f})

\* The early return comes before the fence is looked at.
FenceAfterFailure(f) == fence

\* The host runs out of memory at the batch after the first n.  The call fails
\* and, to Vulkan, has submitted nothing, but the code has handed over the
\* first n batches: Submitted says what WebGPU has taken.
QueueSubmitOutOfMemory(batches, n, f) ==
  /\ Submittable(batches) /\ n < Len(batches) /\ batches[n + 1] # << >>
  /\ n > 0 => "late_failure" \in ClientUses
  /\ Hand(SubSeq(batches, 1, n))
  /\ f # NULL => fence[f] = "unsignaled"
  /\ fence' = FenceAfterFailure(f)
  /\ covers' = IF f = NULL THEN covers ELSE [covers EXCEPT ![f] = Never]
  /\ UNCHANGED submitted

\* An empty submission to WebGPU; nothing is waited for.
QueueWaitIdle == UNCHANGED submissionVars

\* The GPU runs the oldest command list it was given.
GpuExecute ==
  /\ gpuQueue # << >>
  /\ executed' = Append(executed, Head(gpuQueue))
  /\ gpuQueue' = Tail(gpuQueue)
  /\ UNCHANGED << vars, fence, submitted, covers >>

-----------------------------------------------------------------------------
(* Fence calls of the application                                          *)

\* Only an "early_wait" application calls a wait that has to wait: work that
\* was submitted has its fence signaled already.
Waits ==
  /\ \/ \E fs \in Runs(Fences) : F!WaitForAllFences(fs)
     \/ \E fs \in Runs(Fences) : F!WaitForAnyFence(fs)
  /\ fence' = fence \/ "early_wait" \in ClientUses

\* Destroying a fence, or resetting a signaled one, ends what it stood for.
FenceCall ==
  /\ \/ \E f \in Fences, s \in {"unsignaled", "signaled"} : F!CreateFence(f, s)
     \/ \E f \in Fences : F!DestroyFence(f)
     \/ \E S \in (SUBSET Fences) \ {{}} : F!ResetFences(S)
     \/ Waits
  /\ covers' = [f \in Fences |->
                  IF fence'[f] \in {fence[f], "signaled"} THEN covers[f] ELSE 0]
  /\ UNCHANGED << vars, gpuQueue, executed, submitted >>

SubmissionInit ==
  /\ Init
  /\ F!FenceInit
  /\ gpuQueue = << >>
  /\ executed = << >>
  /\ submitted = << >>
  /\ covers = [f \in Fences |-> 0]

\* One or two batches of at most two command buffers.
Batches == UNION { [1..n -> {<< >>} \cup Runs(Cmds)] : n \in 1..2 }

SubmissionNext ==
  \/ Next /\ UNCHANGED << fence, queueVars >>
  \/ \E batches \in Batches, f \in Maybe(Fences) : QueueSubmit(batches, f)
  \/ \E batches \in Batches, n \in 0..1, f \in Maybe(Fences) :
       QueueSubmitOutOfMemory(batches, n, f)
  \/ QueueWaitIdle
  \/ GpuExecute
  \/ FenceCall

\* The browser or the driver keeps running what it has accepted.
GpuFairness == WF_submissionVars(GpuExecute)

SubmissionSpec ==
  SubmissionInit /\ [][SubmissionNext]_submissionVars /\ GpuFairness

-----------------------------------------------------------------------------
(* Properties                                                              *)

\* The GPU runs exactly what the application recorded, command list by
\* command list in submission order, and WebGPU has accepted all of it:
\* recording, finishing and submitting lose, repeat and reorder nothing, and a
\* submission that fails at its first batch does not run.  Holds without
\* "late_failure" and "resubmit", and where RecordedAsIntended does.
RunsWhatWasSubmitted == executed \o gpuQueue = submitted

\* A signaled fence stands for a submission that was carried out: one that
\* failed leaves its fence unsignaled until another is made with it.  Holds
\* without "early_wait": a wait raises the fences it should wait for.
FencesOfWholeCalls ==
  \A f \in Fences : fence[f] = "signaled" => covers[f] <= Len(submitted)

\* A signaled fence means that the work submitted with it has been run.
FenceMeansDone ==
  \A f \in Fences : fence[f] = "signaled" => covers[f] <= Len(executed)

\* What was submitted is eventually run.
EventuallyRun ==
  \A n \in 1..MaxSubmitted :
    (Len(submitted) >= n) ~> (Len(executed) >= n)

=============================================================================
