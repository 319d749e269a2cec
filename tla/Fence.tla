-------------------------------- MODULE Fence --------------------------------
(***************************************************************************)
(* Fences (src/src/objects/fence.c).  The library has no completion        *)
(* callback: a fence is a flag that vkQueueSubmit raises at once and that  *)
(* vkWaitForFences raises itself rather than wait.                         *)
(***************************************************************************)
EXTENDS Naturals, Sequences, FiniteSets

CONSTANT Fences

VARIABLE fence   \* "none", "unsignaled" or "signaled"

FenceStates == {"none", "unsignaled", "signaled"}

FenceInit == fence = [f \in Fences |-> "none"]

Exists(f) == fence[f] # "none"

Signaled(f) == fence[f] = "signaled"

\* The fences of S become signaled.
Raised(S) == [f \in Fences |-> IF f \in S THEN "signaled" ELSE fence[f]]

CreateFence(f, state) ==
  /\ ~Exists(f)
  /\ fence' = [fence EXCEPT ![f] = state]

DestroyFence(f) ==
  /\ Exists(f)
  /\ fence' = [fence EXCEPT ![f] = "none"]

ResetFences(S) ==
  /\ \A f \in S : Exists(f)
  /\ fence' = [f \in Fences |-> IF f \in S THEN "unsignaled" ELSE fence[f]]

\* The elements of a sequence of fences.
Listed(fs) == {fs[i] : i \in DOMAIN fs}

\* Waiting for all raises the missing ones.
WaitForAllFences(fs) ==
  /\ \A f \in Listed(fs) : Exists(f)
  /\ fence' = IF \A f \in Listed(fs) : Signaled(f) THEN fence
              ELSE Raised(Listed(fs))

\* Waiting for one raises the first when none is signaled.
WaitForAnyFence(fs) ==
  /\ fs # << >>
  /\ \A f \in Listed(fs) : Exists(f)
  /\ fence' = IF \E f \in Listed(fs) : Signaled(f) THEN fence
              ELSE Raised({fs[1]})

=============================================================================
