------------------------------ MODULE WgslBuffer ------------------------------
(***************************************************************************)
(* The buffer that the WGSL generator writes into (emit() and what calls   *)
(* it, src/src/shaders/wgsl_gen.c).  What it writes is WgslGen.            *)
(***************************************************************************)
EXTENDS WgslGen

CONSTANTS
  PieceSize,        \* bytes of a piece
  InitialCapacity   \* 65536

ASSUME GeneratorAssumption ==
  PieceSize \in Nat \ {0} /\ InitialCapacity \in Nat \ {0}

VARIABLES
  pieces,      \* what is still to be written
  text,        \* the pieces written whole
  torn,        \* whether emit() has failed to write something
  cursor,      \* the buffer of the generator: bytes written ...
  capacity     \* ... and allocated

generatorVars == << pieces, text, torn, cursor, capacity >>

-----------------------------------------------------------------------------
(* What plausible mistakes in the code below would do instead.             *)

\* No room is asked for the terminating zero.
WithoutZero == cursor + PieceSize

-----------------------------------------------------------------------------
\* emit(): room for the piece and a terminating zero.
Required == cursor + PieceSize + 1

\* Twice the capacity, and again until it is enough.
Grown ==
  LET first == IF capacity = 0 THEN InitialCapacity ELSE 2 * capacity
      enough[c \in Nat] == IF c >= Required THEN c ELSE enough[2 * c]
  IN IF Required > capacity THEN enough[first] ELSE capacity

Emit ==
  /\ pieces # << >>
  /\ pieces' = Tail(pieces)
  /\ text' = Append(text, Head(pieces))
  /\ cursor' = cursor + PieceSize
  /\ capacity' = Grown
  /\ UNCHANGED torn

\* The buffer cannot grow, and nobody looks at what emit() returns: of the words
\* of the piece those are dropped that do not fit.  The others are written, and
\* the buffer may have grown for a later one of them.
EmitFails ==
  /\ pieces # << >> /\ Grown # capacity
  /\ pieces' = Tail(pieces)
  /\ torn' = TRUE
  /\ \E n \in 0 .. PieceSize - 1, grown \in {capacity, Grown} :
       /\ n > 0 => cursor + n + 1 <= grown
       /\ n = 0 => grown = capacity
       /\ cursor' = cursor + n
       /\ capacity' = grown
  /\ UNCHANGED text

\* wgvk_wgsl_init, or wgvk_wgsl_free: no buffer.
EmptyGenerator == text = << >> /\ torn = FALSE /\ cursor = 0 /\ capacity = 0

NextText(ps) ==
  /\ pieces' = ps
  /\ text' = << >> /\ torn' = FALSE /\ cursor' = 0 /\ capacity' = 0

-----------------------------------------------------------------------------
(* Property                                                                *)

\* What has been written, and the zero behind it, lie within the buffer.
WithinBuffer == cursor > 0 => cursor < capacity

=============================================================================
