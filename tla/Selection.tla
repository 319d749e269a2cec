------------------------------- MODULE Selection -------------------------------
(***************************************************************************)
(* What a loop over an array keeps of it.                                  *)
(***************************************************************************)
EXTENDS Naturals, Sequences

\* What a loop over s keeps that passes over all but these places.  (SelectSeq,
\* with a set for the test: the provers know nothing of SelectSeq.)
Picked(s, places) ==
  LET kept[i \in 0 .. Len(s)] ==
        IF i = 0 THEN << >>
        ELSE IF i \in places THEN Append(kept[i - 1], s[i]) ELSE kept[i - 1]
  IN kept[Len(s)]

=============================================================================
