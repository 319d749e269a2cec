-------------------------- MODULE SpirvParserProofs --------------------------
(***************************************************************************)
(* Proofs about SpirvParser: every iteration of its loop moves forward, so *)
(* that the loop ends; over supported forms it never loses step, and       *)
(* records what the words say; and over any words nothing is written past  *)
(* the end of a table or block.                                            *)
(***************************************************************************)
EXTENDS SpirvParser, FiniteSetTheorems, TLAPS

\* What the walk needs to know of its state.
Walking ==
  /\ words \in Seq(Word)
  /\ cursor \in Nat \ {0}
  /\ expected \in Nat \ {0}
  /\ regular \in BOOLEAN

InStepInv == Walking /\ InStep

-----------------------------------------------------------------------------
(* Reading                                                                 *)

\* A handler takes exactly the words of an instruction of a supported form.
LEMMA TakenSupported ==
  ASSUME NEW o \in Declarations \cup BodyOps, o # "arithmetic",
         NEW n \in Lengths[o]
  PROVE  n \in Nat \ {0} /\ Taken(o, n) = n
<1> USE DEF Taken, ListLength, AtMost, HandlerOf, Lengths, Handler,
            Declarations, BodyOps, Opcodes
<1>1. CASE o \in {"type_void", "type_int", "type_float", "type_vector"} BY <1>1
<1>2. CASE o = "type_struct" BY <1>2
<1>3. CASE o = "type_function" BY <1>3
<1>4. CASE o \in {"constant_bool", "variable"} BY <1>4
<1>5. CASE o = "constant" BY <1>5
<1>6. CASE o = "constant_composite" BY <1>6
<1>7. CASE o = "decorate" BY <1>7
<1>8. CASE o = "member_decorate" BY <1>8
<1>9. CASE o = "return" BY <1>9
<1>10. CASE o = "store" BY <1>10
<1>11. CASE o = "load" BY <1>11
<1> QED BY <1>1, <1>2, <1>3, <1>4, <1>5, <1>6, <1>7, <1>8, <1>9, <1>10, <1>11

\* Any handler takes a word at least, once the word count has passed its test.
LEMMA TakenForward ==
  ASSUME NEW o \in Declarations \cup BodyOps, NEW n \in Nat, n >= HandlerOf[o].min
  PROVE  Taken(o, n) \in Nat \ {0}
<1>1. /\ HandlerOf[o].fixed \in Nat /\ HandlerOf[o].list \in Nat
      /\ HandlerOf[o].min \in Nat
      /\ HandlerOf[o].min > HandlerOf[o].fixed
      /\ o = "arithmetic" => HandlerOf[o].min > HandlerOf[o].fixed + 1
  <2> USE DEF HandlerOf, Handler, Declarations, BodyOps
  <2>1. CASE o \in {"type_void", "type_int", "type_float", "type_vector"} BY <2>1
  <2>2. CASE o \in {"type_struct", "type_function"} BY <2>2
  <2>3. CASE o \in {"constant_bool", "constant", "constant_composite"} BY <2>3
  <2>4. CASE o \in {"variable", "decorate", "member_decorate"} BY <2>4
  <2>5. CASE o \in BodyOps BY <2>5
  <2> QED BY <2>1, <2>2, <2>3, <2>4, <2>5
<1>2. ListLength(o, n) \in Nat
  <2>1. CASE o = "arithmetic" BY <1>1, <2>1 DEF ListLength
  <2>2. CASE o # "arithmetic" BY <1>1, <2>2 DEF ListLength
  <2> QED BY <2>1, <2>2
<1>3. AtMost(ListLength(o, n), HandlerOf[o].list) \in Nat
  BY <1>1, <1>2 DEF AtMost
<1> QED BY <1>1, <1>3 DEF Taken

LEMMA ReadWords ==
  ASSUME Walking, NEW p \in Nat, NEW k \in Nat
  PROVE  /\ End \in Nat \ {0}
         /\ After(p, k) \in Nat
         /\ p + k <= End => After(p, k) = p + k
         /\ p < End /\ k > 0 => After(p, k) > p
         /\ p <= End => After(p, k) >= p /\ After(p, k) <= End
BY DEF Walking, End, After

\* A string ends in one word only.
LEMMA StringEnd ==
  ASSUME Walking, NEW p \in Nat, NEW i \in p .. Len(words), EndsString(p, i)
  PROVE  AfterString(p) = i + 1
<1>1. PICK j \in p .. Len(words) :
        j = (CHOOSE k \in p .. Len(words) : EndsString(p, k)) /\ EndsString(p, j)
  OBVIOUS
<1>2. ~(j < i) BY <1>1 DEF EndsString, Walking
<1>3. ~(i < j) BY <1>1 DEF EndsString, Walking
<1>4. i = j BY <1>2, <1>3 DEF Walking
<1> QED BY <1>1, <1>4 DEF AfterString

\* A string takes a word at least, and no more than there are.
LEMMA StringForward ==
  ASSUME Walking, NEW p \in Nat, p <= End
  PROVE  AfterString(p) \in Nat /\ AfterString(p) >= p /\ AfterString(p) <= End
<1>1. CASE \E i \in p .. Len(words) : EndsString(p, i)
  BY <1>1, StringEnd DEF Walking, End
<1>2. CASE ~ \E i \in p .. Len(words) : EndsString(p, i)
  BY <1>2 DEF AfterString, Walking, End
<1> QED BY <1>1, <1>2

\* An entry point whose name ends within it is read to its end.
LEMMA EntryPointSupported ==
  ASSUME Walking, cursor < End, words[cursor].count > 0,
         cursor + words[cursor].count <= End, NamedWithin(cursor, words[cursor].count)
  PROVE  AfterEntryPoint = cursor + words[cursor].count
<1> DEFINE n == words[cursor].count
<1>1. n \in Nat /\ count = n /\ Len(words) \in Nat
  <2>1. words[cursor] \in Word /\ Len(words) \in Nat BY DEF Walking, End
  <2> QED BY <2>1 DEF count, WordCount, Word
<1>2. PICK i \in cursor + 3 .. cursor + n - 1 :
        EndsString(cursor + 3, i) /\ cursor + n - i - 1 <= 32
  BY DEF NamedWithin
<1> DEFINE m == cursor + n - i - 1
<1>3. After(cursor, 3) = cursor + 3 /\ i \in cursor + 3 .. Len(words)
  BY <1>1, <1>2 DEF After, End, Walking
<1>4. AfterString(cursor + 3) = i + 1
  BY <1>2, <1>3, StringEnd DEF Walking
<1>5. Interface(i + 1) = m
  <2>1. cursor \in Nat /\ i \in Int /\ i <= cursor + n - 1 /\ count \in Int
    BY <1>1, <1>2 DEF Walking
  <2> HIDE DEF n
  <2>2. count - (i + 1 - cursor) = m /\ m \in 0 .. 32
    BY <1>1, <1>2, <2>1
  <2> QED BY <2>1, <2>2 DEF Interface, AtMost
<1>6. After(i + 1, m) = cursor + n
  <2>1. cursor \in Nat /\ i \in Int /\ cursor + n <= End
    BY <1>1, <1>2 DEF Walking
  <2> HIDE DEF n
  <2>2. i + 1 + m = cursor + n BY <1>1, <2>1
  <2> QED BY <2>1, <2>2 DEF After
<1> QED BY <1>3, <1>4, <1>5, <1>6 DEF AfterEntryPoint

-----------------------------------------------------------------------------
(* Every iteration moves forward                                           *)

\* The word under the cursor has a count, once one of zero has been read as one.
LEMMA CountOfWord ==
  ASSUME Walking, cursor < End
  PROVE  /\ words[cursor] \in Word
         /\ cursor \in 1 .. Len(words)
         /\ count \in Nat \ {0}
         /\ Skipped = cursor + count
<1>1. cursor \in 1 .. Len(words) BY DEF Walking, End
<1>2. words[cursor] \in Word BY <1>1 DEF Walking
<1>3. count \in Nat \ {0} BY <1>2 DEF count, WordCount, Word
<1> QED BY <1>1, <1>2, <1>3 DEF Skipped

LEMMA StepForward ==
  ASSUME Walking, cursor < End, ParseInstruction
  PROVE  cursor' \in Nat /\ cursor' > cursor
<1>1. /\ cursor \in Nat \ {0} /\ count \in Nat \ {0}
      /\ Skipped = cursor + count /\ End \in Nat
  BY CountOfWord, ReadWords DEF Walking
<1>2. /\ Skipped \in Nat /\ Skipped > cursor
      /\ \A k \in Nat \ {0} : After(cursor, k) \in Nat /\ After(cursor, k) > cursor
  <2>1. ASSUME NEW k \in Nat \ {0}
        PROVE  After(cursor, k) \in Nat /\ After(cursor, k) > cursor
    BY <1>1, <2>1, ReadWords
  <2> QED BY <1>1, <2>1
<1>3. CASE Skip BY <1>2, <1>3 DEF Skip
<1>4. CASE LocalSize BY <1>2, <1>4 DEF LocalSize
<1>5. CASE EntryPoint
  <2> DEFINE p == AfterString(After(cursor, 3))
  <2>1. After(cursor, 3) \in Nat /\ After(cursor, 3) > cursor /\ After(cursor, 3) <= End
    BY <1>1, ReadWords
  <2>2. p \in Nat /\ p > cursor /\ p <= End
    BY <1>1, <2>1, StringForward
  <2>3. Interface(p) \in Nat
    BY <1>1, <2>2 DEF Interface, AtMost
  <2>4. AfterEntryPoint \in Nat /\ AfterEntryPoint > cursor
    BY <1>1, <2>2, <2>3, ReadWords DEF AfterEntryPoint
  <2> QED BY <1>2, <1>5, <2>4 DEF EntryPoint
<1>6. CASE Declare
  <2>1. count >= HandlerOf[op].min => Taken(op, count) \in Nat \ {0}
    BY <1>1, <1>6, TakenForward DEF Declare
  <2> QED BY <1>2, <1>6, <2>1 DEF Declare
<1>7. CASE Function \/ FunctionOutOfMemory BY <1>2, <1>7 DEF Function, FunctionOutOfMemory
<1>8. CASE BlocksOutOfMemory BY <1>1, <1>2, <1>8 DEF BlocksOutOfMemory
<1>9. CASE FunctionEnd BY <1>1, <1>9 DEF FunctionEnd
<1>10. CASE Label \/ LabelOutOfMemory BY <1>2, <1>10 DEF Label, LabelOutOfMemory
<1>11. CASE Body
  <2>1. count >= HandlerOf[op].min => Taken(op, count) \in Nat \ {0}
    BY <1>1, <1>11, TakenForward DEF Body
  <2> QED BY <1>2, <1>11, <2>1 DEF Body
<1> QED
  BY <1>3, <1>4, <1>5, <1>6, <1>7, <1>8, <1>9, <1>10, <1>11 DEF ParseInstruction

-----------------------------------------------------------------------------
(* The parser does not lose step                                           *)

LEMMA InitInStep == ParserInit => InStepInv
BY ParserAssumption DEF ParserInit, InStepInv, Walking, InStep

\* What is known of the types is kept.
LEMMA WalkingKept ==
  ASSUME Walking, Iteration
  PROVE  Walking'
<1>1. words' = words
  BY DEF Iteration, ParseInstruction, Skip, LocalSize, EntryPoint, Declare,
         Function, FunctionOutOfMemory, BlocksOutOfMemory, FunctionEnd, Label,
         LabelOutOfMemory, Body
<1>2. cursor' \in Nat \ {0}
  BY StepForward DEF Iteration, Walking
<1>3. expected' \in Nat \ {0} /\ regular' \in BOOLEAN
  <2>1. CASE expected >= End
    BY <2>1 DEF Iteration, FollowHeaders, historyVars, Walking
  <2>2. CASE ~(expected >= End)
    <3>1. expected \in 1 .. Len(words) BY <2>2 DEF End, Walking
    <3>2. words[expected] \in Word BY <3>1 DEF Walking
    <3>3. WordCount(words[expected]) \in Nat BY <3>2 DEF WordCount, Word
    <3>4. /\ expected' = expected + WordCount(words[expected])
          /\ regular' = (regular /\ Supported(words[expected], expected))
      BY <2>2 DEF Iteration, FollowHeaders
    <3>5. regular' \in BOOLEAN BY <3>4 DEF Walking
    <3> QED BY <3>3, <3>4, <3>5 DEF Walking
  <2> QED BY <2>1, <2>2
<1> QED BY <1>1, <1>2, <1>3 DEF Walking

\* An instruction of a supported form is read to its end and no further,
\* whether it is recorded or not.
LEMMA SupportedToItsEnd ==
  ASSUME Walking, cursor < End, Supported(words[cursor], cursor), ParseInstruction,
         "blocks" \notin failures'
  PROVE  cursor' = cursor + words[cursor].count
<1> DEFINE n == words[cursor].count
<1>1. /\ words[cursor] \in Word /\ n \in Nat \ {0} /\ count = n
      /\ cursor \in Nat \ {0} /\ cursor + n <= End /\ Skipped = cursor + n
      /\ op = words[cursor].op /\ op # "arithmetic"
      /\ op \in DOMAIN Lengths => n \in Lengths[op]
  <2>1. words[cursor] \in Word BY CountOfWord
  <2>2. n \in Nat \ {0} BY <2>1 DEF Supported, Word
  <2>3. count = n BY <2>2 DEF count, WordCount
  <2> QED BY <2>1, <2>2, <2>3, CountOfWord DEF Supported, op, Walking
<1>2. After(cursor, n) = cursor + n
  BY <1>1, ReadWords
<1>3. CASE Skip BY <1>1, <1>3 DEF Skip
<1>4. CASE LocalSize
  <2>1. n = 6 BY <1>1, <1>4 DEF LocalSize, Lengths, Opcodes
  <2> QED BY <1>1, <1>2, <1>4, <2>1 DEF LocalSize
<1>5. CASE EntryPoint
  <2>1. AfterEntryPoint = cursor + n
    BY <1>1, <1>5, EntryPointSupported DEF EntryPoint, Supported
  <2> QED BY <1>1, <1>5, <2>1 DEF EntryPoint
<1>6. CASE Declare
  <2>1. op \in DOMAIN Lengths BY <1>1, <1>6 DEF Declare, Declarations, Lengths, Opcodes
  <2>2. Taken(op, n) = n BY <1>1, <1>6, <2>1, TakenSupported DEF Declare
  <2> QED BY <1>1, <1>2, <1>6, <2>2 DEF Declare
<1>7. CASE Function \/ FunctionOutOfMemory
  <2>1. n = 5 BY <1>1, <1>7 DEF Function, FunctionOutOfMemory, Lengths, Opcodes
  <2> QED BY <1>1, <1>2, <1>7, <2>1 DEF Function, FunctionOutOfMemory
<1>8. CASE BlocksOutOfMemory BY <1>8 DEF BlocksOutOfMemory
<1>9. CASE FunctionEnd
  <2>1. n = 1 BY <1>1, <1>9 DEF FunctionEnd, Lengths, Opcodes
  <2> QED BY <1>9, <2>1 DEF FunctionEnd
<1>10. CASE Label \/ LabelOutOfMemory
  <2>1. n = 2 BY <1>1, <1>10 DEF Label, LabelOutOfMemory, Lengths, Opcodes
  <2> QED BY <1>1, <1>2, <1>10, <2>1 DEF Label, LabelOutOfMemory
<1>11. CASE Body
  <2>1. op \in DOMAIN Lengths BY <1>1, <1>11 DEF Body, BodyOps, Lengths, Opcodes
  <2>2. Taken(op, n) = n BY <1>1, <1>11, <2>1, TakenSupported DEF Body
  <2> QED BY <1>1, <1>2, <1>11, <2>2 DEF Body
<1> QED
  BY <1>3, <1>4, <1>5, <1>6, <1>7, <1>8, <1>9, <1>10, <1>11 DEF ParseInstruction

\* A failed allocation is remembered.
LEMMA FailuresGrow ==
  ASSUME ParseInstruction
  PROVE  failures \subseteq failures'
BY DEF ParseInstruction, Skip, LocalSize, EntryPoint, Declare,
       Function, FunctionOutOfMemory, BlocksOutOfMemory, FunctionEnd, Label,
       LabelOutOfMemory, Body

\* The walk and the headers move on together.
LEMMA StepInStep ==
  ASSUME InStepInv, Iteration
  PROVE  InStepInv'
<1>1. Walking' BY WalkingKept DEF InStepInv
<1>2. ASSUME regular', "blocks" \notin failures'
      PROVE  cursor' = expected'
  <2>1. cursor < End /\ ParseInstruction /\ FollowHeaders
    BY DEF Iteration
  <2>2. "blocks" \notin failures BY <1>2, <2>1, FailuresGrow
  <2>3. CASE expected >= End
    <3>1. regular' = regular BY <2>1, <2>3 DEF FollowHeaders, historyVars
    <3> QED BY <1>2, <2>1, <2>2, <2>3, <3>1, ReadWords DEF InStepInv, InStep, Walking
  <2>4. CASE ~(expected >= End)
    <3>1. /\ expected' = expected + WordCount(words[expected])
          /\ regular' = (regular /\ Supported(words[expected], expected))
      BY <2>1, <2>4 DEF FollowHeaders
    <3>2. regular /\ Supported(words[expected], expected) BY <1>2, <3>1
    <3>3. cursor = expected BY <2>2, <3>2 DEF InStepInv, InStep
    <3>4. cursor' = cursor + words[cursor].count
      BY <1>2, <2>1, <3>2, <3>3, SupportedToItsEnd DEF InStepInv
    <3>5. words[cursor] \in Word BY <2>1, CountOfWord DEF InStepInv
    <3>6. WordCount(words[cursor]) = words[cursor].count
      BY <3>2, <3>3, <3>5 DEF Supported, WordCount, Word
    <3> QED BY <3>1, <3>3, <3>4, <3>6
  <2> QED BY <2>3, <2>4
<1> QED BY <1>1, <1>2 DEF InStepInv, InStep

LEMMA InStepInvariant == ParserSpec => []InStepInv
<1>1. InStepInv /\ UNCHANGED parserVars => InStepInv'
  BY DEF InStepInv, InStep, Walking, parserVars, moduleVars, historyVars
<1> QED BY InitInStep, StepInStep, <1>1, PTL DEF ParserSpec

\* Over supported forms, the parser reads every instruction at the word at which
\* it begins, for modules of any length and tables of any size.
THEOREM StaysInStep == ParserSpec => []InStep
<1>1. InStepInv => InStep BY DEF InStepInv
<1> QED BY InStepInvariant, <1>1, PTL

\* Every iteration of the loop of wgvk_spirv_parse moves the cursor forward,
\* over any words whatever: zero word counts, lengths that run past the end and
\* strings that never do.
THEOREM AlwaysForward == ParserSpec => [][cursor' > cursor]_parserVars
<1>1. InStepInv /\ [Iteration]_parserVars => [cursor' > cursor]_parserVars
  BY StepForward DEF InStepInv, Iteration
<1> QED BY InStepInvariant, <1>1, PTL DEF ParserSpec

-----------------------------------------------------------------------------
(* Nothing is recorded past the end of a table or block                    *)

Item == [at : Int, taken : Int]

BlockType == [label : Int, instructions : Seq(Item)]

FunctionType ==
  [at : Int, blocks : Seq(BlockType), block_capacity : Nat \ {0},
   current_block : Nat]

\* A function within its bounds.
FunctionOK(f) ==
  /\ f \in FunctionType
  /\ Len(f.blocks) <= f.block_capacity
  /\ f.blocks # << >> => f.current_block \in DOMAIN f.blocks
  /\ \A b \in DOMAIN f.blocks : Len(f.blocks[b].instructions) <= BlockCapacity

TablesOK ==
  /\ tables \in [Tables -> Seq(Item)]
  /\ \A t \in Tables : Len(tables[t]) <= TableCapacity[t]

FunctionsOK ==
  /\ functions \in Seq(FunctionType)
  /\ \A f \in DOMAIN functions : FunctionOK(functions[f])
  /\ current_function \in 0 .. Len(functions)

BoundsInv == Walking /\ TablesOK /\ FunctionsOK

LEMMA InitBounds == ParserInit => BoundsInv
<1> SUFFICES ASSUME ParserInit PROVE BoundsInv OBVIOUS
<1>1. Walking BY InitInStep DEF InStepInv
<1>2. TablesOK BY ParserAssumption DEF ParserInit, TablesOK
<1>3. FunctionsOK BY DEF ParserInit, FunctionsOK
<1> QED BY <1>1, <1>2, <1>3 DEF BoundsInv

\* A table with room has room for one more.
LEMMA RecordedOK ==
  ASSUME TablesOK, NEW t \in Tables, Room(t), NEW k \in Int, cursor \in Int,
         tables' = Recorded(t, k)
  PROVE  TablesOK'
<1> DEFINE item == [at |-> cursor, taken |-> k]
<1>1. item \in Item BY DEF Item
<1> HIDE DEF item
<1>2. tables' = [tables EXCEPT ![t] = Append(@, item)] BY DEF Recorded, item
<1>3. Append(tables[t], item) \in Seq(Item) BY <1>1 DEF TablesOK
<1>4. tables' \in [Tables -> Seq(Item)] BY <1>2, <1>3 DEF TablesOK
<1>5. ASSUME NEW u \in Tables
      PROVE  Len(tables'[u]) <= TableCapacity[u]
  <2>1. CASE u = t
    <3>1. tables'[u] = Append(tables[t], item) BY <1>2, <2>1 DEF TablesOK
    <3>2. Len(Append(tables[t], item)) = Len(tables[t]) + 1 BY <1>1 DEF TablesOK
    <3>3. Len(tables[t]) \in Nat BY DEF TablesOK
    <3> QED BY <2>1, <3>1, <3>2, <3>3, ParserAssumption DEF Room
  <2>2. CASE u # t BY <1>2, <2>2 DEF TablesOK
  <2> QED BY <2>1, <2>2
<1> QED BY <1>4, <1>5 DEF TablesOK

Replaced(f, blocks, current, capacity) ==
  [f EXCEPT !.blocks = blocks, !.current_block = current,
            !.block_capacity = capacity]

\* What replacing the blocks of a function leaves of its type.
LEMMA BlocksReplaced ==
  ASSUME NEW A, NEW B, NEW C, NEW D,
         NEW f \in [at : A, blocks : B, block_capacity : C, current_block : D],
         NEW blocks \in B, NEW current \in D, NEW capacity \in C
  PROVE  LET g == Replaced(f, blocks, current, capacity)
         IN  /\ g \in [at : A, blocks : B, block_capacity : C, current_block : D]
             /\ g.blocks = blocks
             /\ g.current_block = current /\ g.block_capacity = capacity
BY DEF Replaced

\* A full function doubles its blocks, and its new block is empty and current.
LEMMA BlockAddedOK ==
  ASSUME NEW f, FunctionOK(f), cursor \in Int
  PROVE  FunctionOK(BlockAdded(f))
<1> DEFINE block == [label |-> cursor, instructions |-> << >>]
           blocks == Append(f.blocks, block)
           capacity == IF Full(f) THEN 2 * f.block_capacity ELSE f.block_capacity
           current == Len(f.blocks) + 1
           g == BlockAdded(f)
<1>1. block \in BlockType /\ Len(block.instructions) = 0 BY DEF BlockType
<1> HIDE DEF block
<1>2. /\ f.blocks \in Seq(BlockType) /\ Len(f.blocks) \in Nat
      /\ f.block_capacity \in Nat \ {0} /\ Len(f.blocks) <= f.block_capacity
      /\ f \in FunctionType
  BY DEF FunctionOK, FunctionType
<1>3. blocks \in Seq(BlockType) /\ Len(blocks) = Len(f.blocks) + 1
  BY <1>1, <1>2
<1>4. capacity \in Nat \ {0} /\ Len(f.blocks) + 1 <= capacity
  <2>1. CASE Full(f) BY <1>2, <2>1 DEF Full
  <2>2. CASE ~Full(f) BY <1>2, <2>2 DEF Full
  <2> QED BY <2>1, <2>2
<1>5. g = Replaced(f, blocks, current, capacity)
  BY DEF BlockAdded, block, Replaced
<1>6. /\ g \in FunctionType /\ g.blocks = blocks
      /\ g.current_block = current /\ g.block_capacity = capacity
  <2>1. current \in Nat BY <1>2
  <2> HIDE DEF blocks, capacity, current, g
  <2> DEFINE N == Nat \ {0}
             I == Int
             M == Nat
  <2>2. /\ f \in [at : I, blocks : Seq(BlockType), block_capacity : N, current_block : M]
        /\ blocks \in Seq(BlockType) /\ current \in M /\ capacity \in N
    BY <1>2, <1>3, <1>4, <2>1 DEF FunctionType
  <2> HIDE DEF N, I, M
  <2>3. /\ g \in [at : I, blocks : Seq(BlockType), block_capacity : N, current_block : M]
        /\ g.blocks = blocks /\ g.current_block = current
        /\ g.block_capacity = capacity
    BY <1>5, <2>2, BlocksReplaced
  <2> QED BY <2>3 DEF N, I, M, FunctionType
<1> HIDE DEF capacity, g
<1>7. g.current_block \in DOMAIN g.blocks BY <1>2, <1>3, <1>6
<1>8. ASSUME NEW b \in DOMAIN g.blocks
      PROVE  Len(g.blocks[b].instructions) <= BlockCapacity
  <2>1. CASE b = Len(f.blocks) + 1
    <3>1. g.blocks[b] = block BY <1>1, <1>2, <1>6, <2>1
    <3> QED BY <1>1, <3>1, ParserAssumption
  <2>2. CASE b # Len(f.blocks) + 1
    <3>1. b \in DOMAIN f.blocks /\ g.blocks[b] = f.blocks[b]
      BY <1>1, <1>2, <1>3, <1>6, <2>2
    <3> QED BY <3>1 DEF FunctionOK
  <2> QED BY <2>1, <2>2
<1>9. Len(g.blocks) <= g.block_capacity BY <1>3, <1>4, <1>6
<1>10. FunctionOK(g) BY <1>6, <1>7, <1>8, <1>9 DEF FunctionOK
<1> QED BY <1>10 DEF g

\* An instruction is dropped or finds room in the current block.
LEMMA InstructionAddedOK ==
  ASSUME FunctionsOK, NEW k \in Int, cursor \in Int,
         functions' = InstructionAdded(k), current_function' = current_function
  PROVE  FunctionsOK'
<1> DEFINE c == current_function
           f == functions[c]
           b == f.current_block
           item == [at |-> cursor, taken |-> k]
           g == [f EXCEPT !.blocks[b].instructions = Append(@, item)]
<1>1. CASE functions' = functions BY <1>1 DEF FunctionsOK
<1>2. CASE functions' # functions
  <2>1. /\ c # 0 /\ f.blocks # << >>
        /\ ~(Len(f.blocks[b].instructions) >= BlockCapacity)
        /\ functions' = [functions EXCEPT ![c].blocks[b].instructions = Append(@, item)]
    BY <1>2 DEF InstructionAdded
  <2>2. c \in DOMAIN functions /\ FunctionOK(f) /\ b \in DOMAIN f.blocks
    BY <2>1 DEF FunctionsOK, FunctionOK
  <2>3. functions' = [functions EXCEPT ![c] = g] BY <2>1
  <2>4. item \in Item BY DEF Item
  <2>5. /\ f.blocks \in Seq(BlockType) /\ f.blocks[b] \in BlockType
        /\ f.blocks[b].instructions \in Seq(Item)
    <3> HIDE DEF f, b
    <3>1. f.blocks \in Seq(BlockType) BY <2>2 DEF FunctionOK, FunctionType
    <3>2. f.blocks[b] \in BlockType BY <2>2, <3>1
    <3> QED BY <3>1, <3>2 DEF BlockType
  <2> DEFINE list == Append(f.blocks[b].instructions, item)
             blocks == [f.blocks EXCEPT ![b].instructions = list]
  <2>6. list \in Seq(Item) /\ Len(list) <= BlockCapacity
    <3> HIDE DEF item, f, b
    <3>1. /\ list \in Seq(Item) /\ Len(list) = Len(f.blocks[b].instructions) + 1
          /\ Len(f.blocks[b].instructions) \in Nat
      BY <2>4, <2>5
    <3> QED BY <2>1, <3>1, ParserAssumption
  <2>7. /\ blocks \in Seq(BlockType) /\ DOMAIN blocks = DOMAIN f.blocks
        /\ Len(blocks) = Len(f.blocks)
        /\ blocks[b].instructions = list
        /\ \A d \in DOMAIN f.blocks \ {b} : blocks[d] = f.blocks[d]
    <3> DEFINE new == [f.blocks[b] EXCEPT !.instructions = list]
    <3>1. blocks = [f.blocks EXCEPT ![b] = new] OBVIOUS
    <3> HIDE DEF f, b, list, blocks
    <3>2. new \in BlockType /\ new.instructions = list BY <2>5, <2>6 DEF BlockType
    <3> HIDE DEF new
    <3> QED BY <2>2, <2>5, <3>1, <3>2
  <2>8. g = [f EXCEPT !.blocks = blocks] BY DEF list
  <2> HIDE DEF blocks, list, g, f, b
  <2>9. g \in FunctionType /\ g.blocks = blocks
        /\ g.block_capacity = f.block_capacity /\ g.current_block = b
    <3>1. f \in FunctionType /\ f.current_block \in Nat /\ f.block_capacity \in Nat \ {0}
      BY <2>2 DEF FunctionOK, FunctionType
    <3>2. g = Replaced(f, blocks, f.current_block, f.block_capacity)
      BY <2>8, <3>1 DEF FunctionType, Replaced
    <3> QED BY <2>7, <3>1, <3>2, BlocksReplaced DEF b, FunctionType
  <2>10. \A d \in DOMAIN g.blocks : Len(g.blocks[d].instructions) <= BlockCapacity
    BY <2>2, <2>6, <2>7, <2>9 DEF FunctionOK
  <2>11. FunctionOK(g)
    <3>1. Len(f.blocks) <= f.block_capacity BY <2>2 DEF FunctionOK
    <3> QED BY <2>2, <2>7, <2>9, <2>10, <3>1 DEF FunctionOK
  <2>12. functions \in Seq(FunctionType) /\ g \in FunctionType BY <2>9 DEF FunctionsOK
  <2>13. functions' \in Seq(FunctionType) /\ Len(functions') = Len(functions)
         /\ DOMAIN functions' = DOMAIN functions
    BY <2>2, <2>3, <2>12
  <2> QED BY <2>2, <2>3, <2>11, <2>13 DEF FunctionsOK
<1> QED BY <1>1, <1>2

LEMMA StepBounds ==
  ASSUME BoundsInv, Iteration
  PROVE  BoundsInv'
<1>1. Walking' BY WalkingKept DEF BoundsInv
<1>2. /\ Walking /\ TablesOK /\ FunctionsOK /\ cursor < End /\ ParseInstruction
      /\ cursor \in Int /\ cursor' \in Int
  BY <1>1 DEF BoundsInv, Iteration, Walking
<1>3. TablesOK'
  <2>1. CASE UNCHANGED tables BY <1>2, <2>1 DEF TablesOK
  <2>2. CASE ~ UNCHANGED tables
    <3>1. CASE EntryPoint
      <4>1. Room("entry_points") /\ tables' = Recorded("entry_points", cursor' - cursor)
        BY <2>2, <3>1 DEF EntryPoint
      <4> QED BY <1>2, <4>1, RecordedOK DEF Tables
    <3>2. CASE Declare
      <4> DEFINE t == HandlerOf[op].table
      <4>1. /\ op \in Declarations /\ Room(t) /\ count >= HandlerOf[op].min
            /\ tables' = Recorded(t, Taken(op, count))
        BY <2>2, <3>2 DEF Declare
      <4>2. t \in Tables
        BY <4>1 DEF HandlerOf, Handler, Declarations, BodyOps, Tables
      <4>3. Taken(op, count) \in Int
        BY <1>2, <4>1, CountOfWord, TakenForward
      <4> QED BY <1>2, <4>1, <4>2, <4>3, RecordedOK
    <3> QED
      BY <1>2, <2>2, <3>1, <3>2
      DEF ParseInstruction, Skip, LocalSize, Function, FunctionOutOfMemory,
          BlocksOutOfMemory, FunctionEnd, Label, LabelOutOfMemory, Body
  <2> QED BY <2>1, <2>2
<1>4. FunctionsOK'
  <2>1. CASE functions' = functions /\ current_function' \in {0, current_function}
    BY <1>2, <2>1 DEF FunctionsOK
  <2>2. CASE ~(functions' = functions /\ current_function' \in {0, current_function})
    <3>1. CASE Function
      <4>1. /\ functions' = Append(functions, EmptyFunction)
            /\ current_function' = Len(functions) + 1
        BY <2>2, <3>1 DEF Function
      <4>2. EmptyFunction \in FunctionType /\ FunctionOK(EmptyFunction)
        BY <1>2, ParserAssumption DEF EmptyFunction, FunctionType, FunctionOK
      <4>3. functions \in Seq(FunctionType) /\ Len(functions) \in Nat
        BY <1>2 DEF FunctionsOK
      <4>4. functions' \in Seq(FunctionType) /\ Len(functions') = Len(functions) + 1
        BY <4>1, <4>2, <4>3
      <4>5. ASSUME NEW f \in DOMAIN functions'
            PROVE  FunctionOK(functions'[f])
        <5>1. CASE f = Len(functions) + 1 BY <4>1, <4>2, <4>3, <5>1
        <5>2. CASE f # Len(functions) + 1
          <6>1. f \in DOMAIN functions /\ functions'[f] = functions[f]
            BY <4>1, <4>2, <4>3, <4>4, <5>2
          <6> QED BY <1>2, <6>1 DEF FunctionsOK
        <5> QED BY <5>1, <5>2
      <4> QED BY <4>1, <4>3, <4>4, <4>5 DEF FunctionsOK
    <3>2. CASE Label
      <4> DEFINE c == current_function
                 g == BlockAdded(functions[c])
      <4>1. c # 0 /\ c' = c /\ functions' = [functions EXCEPT ![c] = g]
        BY <2>2, <3>2 DEF Label
      <4>2. c \in DOMAIN functions /\ functions \in Seq(FunctionType)
        BY <1>2, <4>1 DEF FunctionsOK
      <4>3. FunctionOK(g) BY <1>2, <4>2, BlockAddedOK DEF FunctionsOK
      <4>4. g \in FunctionType BY <4>3 DEF FunctionOK
      <4> HIDE DEF g
      <4>5. functions' \in Seq(FunctionType) /\ Len(functions') = Len(functions)
            /\ DOMAIN functions' = DOMAIN functions
        BY <4>1, <4>2, <4>4
      <4> QED BY <1>2, <4>1, <4>2, <4>3, <4>5 DEF FunctionsOK
    <3>3. CASE Body
      <4>1. /\ op \in BodyOps /\ count >= HandlerOf[op].min
            /\ functions' = InstructionAdded(Taken(op, count))
            /\ current_function' = current_function
        BY <2>2, <3>3 DEF Body
      <4>2. Taken(op, count) \in Int
        BY <1>2, <4>1, CountOfWord, TakenForward
      <4> QED BY <1>2, <4>1, <4>2, InstructionAddedOK
    <3> QED
      BY <1>2, <2>2, <3>1, <3>2, <3>3
      DEF ParseInstruction, Skip, LocalSize, EntryPoint, Declare, FunctionOutOfMemory,
          BlocksOutOfMemory, FunctionEnd, LabelOutOfMemory
  <2> QED BY <2>1, <2>2
<1> QED BY <1>1, <1>3, <1>4 DEF BoundsInv

\* Whatever the words are and whichever allocation fails, no table and no block
\* of the parser is written past its end, and the current block of a function is
\* one of its own.
THEOREM StaysWithinBounds == ParserSpec => []WithinBounds
<1>1. BoundsInv /\ UNCHANGED parserVars => BoundsInv'
  BY DEF BoundsInv, Walking, TablesOK, FunctionsOK, parserVars, moduleVars,
         historyVars
<1>2. BoundsInv => WithinBounds
  BY DEF BoundsInv, TablesOK, FunctionsOK, FunctionOK, WithinBounds, Instructions
<1> QED BY InitBounds, StepBounds, <1>1, <1>2, PTL DEF ParserSpec

-----------------------------------------------------------------------------
(* What is recorded is what the words say                                  *)

\* Every table holds the declarations of its kind, and as many.
TablesFollow ==
  /\ declared \in [Tables -> SUBSET Item]
  /\ \A t \in Tables :
       /\ {tables[t][i] : i \in DOMAIN tables[t]} = declared[t]
       /\ IsFiniteSet(declared[t]) /\ Cardinality(declared[t]) = Len(tables[t])
       /\ \A x \in declared[t] : x.at < expected

\* Nothing has been recorded of what is still to come.
BodyFollows ==
  /\ Parsed = body /\ IsFiniteSet(body)
  /\ \A x \in body : /\ x.at \in Int /\ x.at < expected
                     /\ x.owner.label \in Int /\ x.owner.label < expected

\* The current function and block are those the headers have led to, and the
\* block is as full.
OwnerFollows ==
  /\ owner \in [function : Nat, label : Nat]
  /\ current_function = 0 <=> owner.function = 0
  /\ owner.function = 0 => owner.label = 0
  /\ owner.label < expected
  /\ current_function # 0 =>
       LET f == functions[current_function]
       IN /\ f.at = owner.function
          /\ f.blocks = << >> <=> owner.label = 0
          /\ f.blocks # << >> =>
               /\ f.blocks[f.current_block].label = owner.label
               /\ Cardinality(Within(owner)) = Len(f.blocks[f.current_block].instructions)

RecordInv == regular /\ failures = {} => TablesFollow /\ BodyFollows /\ OwnerFollows

\* What following the headers comes to where the parser is in step with them.
NextOwner ==
  CASE op = "function" -> [function |-> cursor, label |-> 0]
    [] op = "function_end" -> NoOwner
    [] op = "label" /\ owner.function # 0 -> [owner EXCEPT !.label = cursor]
    [] OTHER -> owner

NextBody ==
  IF op \in BodyOps /\ owner.label # 0 /\ Cardinality(Within(owner)) < BlockCapacity
  THEN body \cup {[at |-> cursor, taken |-> count, owner |-> owner]} ELSE body

NextDeclared ==
  IF op \in Declarations \cup {"entry_point"}
     /\ Cardinality(declared[TableOf(op)]) < TableCapacity[TableOf(op)]
  THEN [declared EXCEPT ![TableOf(op)] = @ \cup {[at |-> cursor, taken |-> count]}]
  ELSE declared

\* An iteration over an instruction of a supported form without a failure.
Turn ==
  /\ cursor = expected /\ cursor \in Nat \ {0} /\ count \in Nat \ {0}
  /\ regular /\ failures = {} /\ failures' = {}
  /\ cursor < End /\ Supported(words[cursor], cursor) /\ words[cursor].count = count
  /\ op \in Opcodes /\ op # "arithmetic"
  /\ op \in DOMAIN Lengths => count \in Lengths[op]
  /\ ParseInstruction
  /\ cursor' = cursor + count /\ expected' = cursor + count
  /\ owner' = NextOwner /\ body' = NextBody /\ declared' = NextDeclared

LEMMA TurnTaken ==
  ASSUME InStepInv, Iteration, regular', failures' = {}
  PROVE  Turn
<1>1. Walking /\ cursor < End /\ ParseInstruction /\ FollowHeaders
  BY DEF InStepInv, Iteration
<1>2. failures = {} BY <1>1, FailuresGrow
<1>3. expected < End
  <2> SUFFICES ASSUME expected >= End PROVE FALSE
    BY <1>1, ReadWords DEF Walking
  <2>1. regular BY <1>1 DEF FollowHeaders, historyVars
  <2>2. cursor = expected BY <1>2, <2>1 DEF InStepInv, InStep
  <2> QED BY <1>1, <2>2, ReadWords DEF Walking
<1>4. ~(expected >= End)
  BY <1>1, <1>3, ReadWords DEF Walking
<1>5. regular' = (regular /\ Supported(words[expected], expected))
  BY <1>1, <1>4 DEF FollowHeaders
<1>6. regular /\ cursor = expected /\ Supported(words[cursor], cursor)
  <2>1. regular BY <1>5
  <2>2. cursor = expected BY <1>2, <2>1 DEF InStepInv, InStep
  <2> QED BY <1>5, <2>1, <2>2
<1>7. /\ words[cursor] \in Word /\ count \in Nat \ {0} /\ words[cursor].count = count
      /\ WordCount(words[cursor]) = count
      /\ op = words[cursor].op /\ op \in Opcodes /\ op # "arithmetic"
      /\ op \in DOMAIN Lengths => count \in Lengths[op]
  <2>1. words[cursor] \in Word /\ count \in Nat \ {0} BY <1>1, CountOfWord
  <2>2. words[cursor].count \in Nat \ {0} BY <1>6, <2>1 DEF Supported, Word
  <2>3. WordCount(words[cursor]) = words[cursor].count /\ count = words[cursor].count
    BY <2>2 DEF count, WordCount
  <2> QED BY <1>6, <2>1, <2>3 DEF op, Word, Supported
<1>8. cursor' = cursor + count
  BY <1>1, <1>6, <1>7, SupportedToItsEnd
<1>9. /\ expected' = cursor + count /\ owner' = NextOwner /\ body' = NextBody
      /\ declared' = NextDeclared
  BY <1>1, <1>4, <1>6, <1>7
  DEF FollowHeaders, NextOwner, NextBody, NextDeclared
<1> QED
  BY <1>1, <1>2, <1>6, <1>7, <1>8, <1>9 DEF Turn, Walking

\* A supported instruction has the words its handler asks for.
LEMMA LongEnough ==
  ASSUME NEW o \in Declarations \cup BodyOps, o # "arithmetic",
         NEW n \in Lengths[o]
  PROVE  n >= HandlerOf[o].min
<1> USE DEF HandlerOf, Lengths, Handler, Declarations, BodyOps, Opcodes
<1>1. CASE o \in {"type_void", "type_int", "type_float", "type_vector"} BY <1>1
<1>2. CASE o = "type_struct" BY <1>2
<1>3. CASE o = "type_function" BY <1>3
<1>4. CASE o \in {"constant_bool", "variable"} BY <1>4
<1>5. CASE o = "constant" BY <1>5
<1>6. CASE o = "constant_composite" BY <1>6
<1>7. CASE o = "decorate" BY <1>7
<1>8. CASE o = "member_decorate" BY <1>8
<1>9. CASE o = "return" BY <1>9
<1>10. CASE o = "store" BY <1>10
<1>11. CASE o = "load" BY <1>11
<1> QED BY <1>1, <1>2, <1>3, <1>4, <1>5, <1>6, <1>7, <1>8, <1>9, <1>10, <1>11

LEMMA HandlerTakes ==
  ASSUME Turn, op \in Declarations \cup BodyOps
  PROVE  count >= HandlerOf[op].min /\ Taken(op, count) = count
<1>1. op \in DOMAIN Lengths BY DEF Turn, Lengths, Opcodes, Declarations, BodyOps
<1>2. op # "arithmetic" /\ count \in Lengths[op] BY <1>1 DEF Turn
<1> QED BY <1>2, LongEnough, TakenSupported

-----------------------------------------------------------------------------
(* Tables                                                                  *)

LEMMA Appended ==
  ASSUME NEW S, NEW s \in Seq(S), NEW e \in S
  PROVE  /\ Append(s, e) \in Seq(S) /\ Len(Append(s, e)) = Len(s) + 1
         /\ {Append(s, e)[i] : i \in DOMAIN Append(s, e)}
              = {s[i] : i \in DOMAIN s} \cup {e}
<1>1. /\ Append(s, e) \in Seq(S) /\ Len(Append(s, e)) = Len(s) + 1
      /\ DOMAIN s = 1 .. Len(s) /\ Len(s) \in Nat
      /\ DOMAIN Append(s, e) = 1 .. Len(s) + 1
      /\ Append(s, e)[Len(s) + 1] = e
      /\ \A i \in 1 .. Len(s) : Append(s, e)[i] = s[i]
  OBVIOUS
<1>2. 1 .. Len(s) + 1 = (1 .. Len(s)) \cup {Len(s) + 1}
  BY <1>1
<1> QED
  BY <1>1, <1>2

\* Both record an instruction in a table, or neither has room.
LEMMA TableStep ==
  ASSUME Turn, TablesOK, TablesFollow, NEW t \in Tables, TableOf(op) = t,
         op \in Declarations \cup {"entry_point"},
         tables' = IF Room(t) THEN Recorded(t, count) ELSE tables
  PROVE  TablesFollow'
<1>1. /\ cursor = expected /\ expected' > cursor /\ cursor \in Int /\ count \in Int
      /\ expected' \in Int
      /\ declared' = NextDeclared
  BY DEF Turn
<1>2. Room(t) <=> Cardinality(declared[t]) < TableCapacity[t]
  BY DEF Room, TablesFollow
<1> DEFINE item == [at |-> cursor, taken |-> count]
<1>3. item \in Item /\ item.at = cursor
  BY <1>1 DEF Item
<1>4. CASE ~Room(t)
  <2>1. declared' = declared /\ tables' = tables
    BY <1>1, <1>2, <1>4 DEF NextDeclared
  <2>2. \A u \in Tables : \A x \in declared[u] : x.at \in Int /\ x.at < expected
    BY DEF TablesFollow, Item
  <2>3. \A u \in Tables : \A x \in declared[u] : x.at < expected'
    BY <1>1, <2>2
  <2> QED BY <2>1, <2>3 DEF TablesFollow
<1>5. CASE Room(t)
  <2>1. /\ declared' = [declared EXCEPT ![t] = @ \cup {item}]
        /\ tables' = [tables EXCEPT ![t] = Append(@, item)]
    BY <1>1, <1>2, <1>5 DEF NextDeclared, Recorded
  <2> HIDE DEF item
  <2>2. declared \in [Tables -> SUBSET Item] /\ tables \in [Tables -> Seq(Item)]
    BY DEF TablesFollow, TablesOK
  <2>3. /\ declared'[t] = declared[t] \cup {item} /\ tables'[t] = Append(tables[t], item)
        /\ \A u \in Tables \ {t} : declared'[u] = declared[u] /\ tables'[u] = tables[u]
        /\ declared' \in [Tables -> SUBSET Item]
    BY <1>3, <2>1, <2>2
  <2>4. \A u \in Tables : \A x \in declared[u] : x.at \in Int /\ x.at < expected
    BY DEF TablesFollow, Item
  <2>5. \A u \in Tables : \A x \in declared'[u] : x.at < expected'
    BY <1>1, <1>3, <2>3, <2>4
  <2>6. item \notin declared[t]
    BY <1>1, <1>3, <2>4
  <2>7. /\ IsFiniteSet(declared'[t])
        /\ Cardinality(declared'[t]) = Cardinality(declared[t]) + 1
    BY <2>3, <2>6, FS_AddElement DEF TablesFollow
  <2>8. /\ {tables'[t][i] : i \in DOMAIN tables'[t]} = declared'[t]
        /\ Len(tables'[t]) = Len(tables[t]) + 1
    <3>1. /\ Len(Append(tables[t], item)) = Len(tables[t]) + 1
          /\ {Append(tables[t], item)[i] : i \in DOMAIN Append(tables[t], item)}
               = {tables[t][i] : i \in DOMAIN tables[t]} \cup {item}
      <4> DEFINE s == tables[t]
      <4>1. s \in Seq(Item) /\ item \in Item BY <1>3, <2>2
      <4> HIDE DEF s
      <4>2. /\ Len(Append(s, item)) = Len(s) + 1
            /\ {Append(s, item)[i] : i \in DOMAIN Append(s, item)}
                 = {s[i] : i \in DOMAIN s} \cup {item}
        BY <4>1, Appended
      <4> QED BY <4>2 DEF s
    <3> QED BY <2>3, <3>1 DEF TablesFollow
  <2>9. ASSUME NEW u \in Tables
        PROVE  /\ {tables'[u][i] : i \in DOMAIN tables'[u]} = declared'[u]
               /\ IsFiniteSet(declared'[u]) /\ Cardinality(declared'[u]) = Len(tables'[u])
    <3>1. CASE u = t BY <2>7, <2>8, <3>1 DEF TablesFollow
    <3>2. CASE u # t BY <2>3, <3>2 DEF TablesFollow
    <3> QED BY <3>1, <3>2
  <2> QED BY <2>3, <2>5, <2>9 DEF TablesFollow
<1> QED BY <1>4, <1>5

LEMMA TablesStep ==
  ASSUME Turn, Walking, TablesOK, TablesFollow
  PROVE  TablesFollow'
<1>1. CASE EntryPoint
  <2>1. op = "entry_point" /\ TableOf(op) = "entry_points" /\ "entry_points" \in Tables
    BY <1>1 DEF EntryPoint, TableOf, Tables
  <2>2. cursor' - cursor = count BY DEF Turn
  <2>3. tables' = IF Room("entry_points") THEN Recorded("entry_points", count) ELSE tables
    BY <1>1, <2>2 DEF EntryPoint
  <2> QED BY <2>1, <2>3, TableStep
<1>2. CASE Declare
  <2> DEFINE t == HandlerOf[op].table
  <2>1. op \in Declarations BY <1>2 DEF Declare
  <2>2. op # "entry_point" /\ TableOf(op) = t
    BY <2>1 DEF Declarations, TableOf
  <2>3. t \in Tables
    BY <2>1 DEF HandlerOf, Handler, Declarations, BodyOps, Tables
  <2>4. count >= HandlerOf[op].min /\ Taken(op, count) = count
    BY <2>1, HandlerTakes
  <2>5. tables' = IF Room(t) THEN Recorded(t, count) ELSE tables
    BY <1>2, <2>4 DEF Declare
  <2> HIDE DEF t
  <2> QED BY <2>1, <2>2, <2>3, <2>5, TableStep
<1>3. CASE op \notin Declarations \cup {"entry_point"}
  <2>1. tables' = tables
    BY <1>3 DEF Turn, ParseInstruction, Skip, LocalSize, EntryPoint, Declare, Function,
       FunctionOutOfMemory, BlocksOutOfMemory, FunctionEnd, Label, LabelOutOfMemory, Body
  <2>2. declared' = declared BY <1>3 DEF Turn, NextDeclared
  <2>3. \A u \in Tables : \A x \in declared[u] : x.at \in Int /\ x.at < expected
    BY DEF TablesFollow, Item
  <2>4. expected \in Int /\ expected' \in Int /\ expected' > expected BY DEF Turn
  <2>5. \A u \in Tables : \A x \in declared[u] : x.at < expected' BY <2>3, <2>4
  <2> QED BY <2>1, <2>2, <2>5 DEF TablesFollow
<1>4. op \in Declarations \cup {"entry_point"} => EntryPoint \/ Declare
  BY DEF Turn, ParseInstruction, Skip, LocalSize, EntryPoint, Declare, Function,
     FunctionOutOfMemory, BlocksOutOfMemory, FunctionEnd, Label, LabelOutOfMemory, Body,
     Declarations, BodyOps
<1> QED BY <1>1, <1>2, <1>3, <1>4

-----------------------------------------------------------------------------
(* Functions and blocks                                                    *)

\* What a block of the function f holds, a function, and all of them.
ItemOf(f, block, i) ==
  [at |-> block.instructions[i].at, taken |-> block.instructions[i].taken,
   owner |-> [function |-> f.at, label |-> block.label]]
BlockItems(f, block) == {ItemOf(f, block, i) : i \in DOMAIN block.instructions}
FunctionItems(f) == UNION {BlockItems(f, f.blocks[b]) : b \in DOMAIN f.blocks}
AllItems(fs) == UNION {FunctionItems(fs[k]) : k \in DOMAIN fs}

ParsedIn(fs) ==
  UNION { { [at |-> fs[n[1]].blocks[n[2]].instructions[i].at,
             taken |-> fs[n[1]].blocks[n[2]].instructions[i].taken,
             owner |-> [function |-> fs[n[1]].at,
                        label |-> fs[n[1]].blocks[n[2]].label]] :
            i \in DOMAIN fs[n[1]].blocks[n[2]].instructions } :
          n \in UNION { {f} \X DOMAIN fs[f].blocks : f \in DOMAIN fs } }

LEMMA ParsedItems ==
  ASSUME NEW fs PROVE ParsedIn(fs) = AllItems(fs)
<1> DEFINE In(n) == BlockItems(fs[n[1]], fs[n[1]].blocks[n[2]])
           P == UNION { {f} \X DOMAIN fs[f].blocks : f \in DOMAIN fs }
<1>1. ParsedIn(fs) = UNION { In(n) : n \in P }
  BY DEF ParsedIn, BlockItems, ItemOf
<1>2. ASSUME NEW n \in P
      PROVE  n[1] \in DOMAIN fs /\ n[2] \in DOMAIN fs[n[1]].blocks
  OBVIOUS
<1>3. ASSUME NEW k \in DOMAIN fs, NEW b \in DOMAIN fs[k].blocks
      PROVE  << k, b >> \in P /\ In(<< k, b >>) = BlockItems(fs[k], fs[k].blocks[b])
  OBVIOUS
<1> HIDE DEF P
<1>4. ASSUME NEW x, x \in UNION { In(n) : n \in P }
      PROVE  x \in AllItems(fs)
  <2>1. PICK n \in P : x \in In(n) BY <1>4
  <2>2. x \in FunctionItems(fs[n[1]]) BY <1>2, <2>1 DEF FunctionItems
  <2> QED BY <1>2, <2>2 DEF AllItems
<1>5. ASSUME NEW x \in AllItems(fs)
      PROVE  x \in UNION { In(n) : n \in P }
  <2>1. PICK k \in DOMAIN fs : x \in FunctionItems(fs[k]) BY DEF AllItems
  <2>2. PICK b \in DOMAIN fs[k].blocks : x \in BlockItems(fs[k], fs[k].blocks[b])
    BY <2>1 DEF FunctionItems
  <2>3. << k, b >> \in P /\ x \in In(<< k, b >>) BY <1>3, <2>2
  <2> HIDE DEF In
  <2> QED BY <2>3
<1> QED BY <1>1, <1>4, <1>5

LEMMA ParsedNow == Parsed = AllItems(functions) /\ Parsed' = AllItems(functions')
<1>1. Parsed = ParsedIn(functions) /\ Parsed' = ParsedIn(functions')
  BY DEF Parsed, ParsedIn, Instructions
<1> QED BY <1>1, ParsedItems

\* A function more that has no blocks.
LEMMA FunctionAppended ==
  ASSUME NEW S, NEW fs \in Seq(S), NEW g \in S, g.blocks = << >>
  PROVE  AllItems(Append(fs, g)) = AllItems(fs)
<1>1. /\ DOMAIN Append(fs, g) = DOMAIN fs \cup {Len(fs) + 1}
      /\ Append(fs, g)[Len(fs) + 1] = g
      /\ \A k \in DOMAIN fs : Append(fs, g)[k] = fs[k]
  <2>1. /\ DOMAIN fs = 1 .. Len(fs) /\ Len(fs) \in Nat
        /\ DOMAIN Append(fs, g) = 1 .. Len(fs) + 1
    OBVIOUS
  <2> QED BY <2>1
<1>2. FunctionItems(g) = {} BY DEF FunctionItems
<1> HIDE DEF FunctionItems
<1> QED BY <1>1, <1>2 DEF AllItems

\* Items are added to one function, ...
With(fs, c, g) == [fs EXCEPT ![c] = g]

LEMMA FunctionChanged ==
  ASSUME NEW fs, NEW c \in DOMAIN fs, NEW g, NEW X,
         FunctionItems(g) = FunctionItems(fs[c]) \cup X
  PROVE  AllItems(With(fs, c, g)) = AllItems(fs) \cup X
<1> DEFINE gs == With(fs, c, g)
<1>1. DOMAIN gs = DOMAIN fs /\ gs[c] = g /\ \A k \in DOMAIN fs \ {c} : gs[k] = fs[k]
  BY DEF With
<1> HIDE DEF gs
<1>2. AllItems(gs) = AllItems(fs) \cup X
  BY <1>1 DEF AllItems
<1> QED BY <1>2 DEF gs

LEMMA FunctionKept ==
  ASSUME NEW fs, NEW c \in DOMAIN fs, NEW g, FunctionItems(g) = FunctionItems(fs[c])
  PROVE  AllItems(With(fs, c, g)) = AllItems(fs)
<1> DEFINE none == {}
<1>1. FunctionItems(g) = FunctionItems(fs[c]) \cup none OBVIOUS
<1> HIDE DEF none
<1>2. AllItems(With(fs, c, g)) = AllItems(fs) \cup none BY <1>1, FunctionChanged
<1> QED BY <1>2 DEF none

\* ... in an empty block more, ...
LEMMA BlockAppended ==
  ASSUME NEW S, NEW f, NEW g, f.blocks \in Seq(S), NEW block \in S,
         block.instructions = << >>, g.at = f.at, g.blocks = Append(f.blocks, block)
  PROVE  FunctionItems(g) = FunctionItems(f)
<1> DEFINE bs == f.blocks
<1>1. /\ DOMAIN g.blocks = DOMAIN bs \cup {Len(bs) + 1}
      /\ g.blocks[Len(bs) + 1] = block
      /\ \A k \in DOMAIN bs : g.blocks[k] = bs[k]
  <2>1. /\ DOMAIN bs = 1 .. Len(bs) /\ Len(bs) \in Nat
        /\ DOMAIN Append(bs, block) = 1 .. Len(bs) + 1
    OBVIOUS
  <2> QED BY <2>1
<1>2. \A b : BlockItems(g, b) = BlockItems(f, b) BY DEF BlockItems, ItemOf
<1>3. BlockItems(f, block) = {} BY DEF BlockItems
<1> QED BY <1>1, <1>2, <1>3 DEF FunctionItems

\* ... or in one of its blocks.
SameButAt(f, g, b) ==
  /\ g.at = f.at /\ b \in DOMAIN f.blocks /\ DOMAIN g.blocks = DOMAIN f.blocks
  /\ \A d \in DOMAIN f.blocks \ {b} : g.blocks[d] = f.blocks[d]

ItemsAt(f, g, b) == BlockItems(f, g.blocks[b])

LEMMA BlockChanged ==
  ASSUME NEW f, NEW g, NEW b, NEW X, SameButAt(f, g, b),
         ItemsAt(f, g, b) = ItemsAt(f, f, b) \cup X
  PROVE  FunctionItems(g) = FunctionItems(f) \cup X
<1>1. \A d : BlockItems(g, d) = BlockItems(f, d) BY DEF BlockItems, ItemOf, SameButAt
<1> QED BY <1>1 DEF FunctionItems, SameButAt, ItemsAt

InBlock(e, f, block) ==
  [at |-> e.at, taken |-> e.taken, owner |-> [function |-> f.at, label |-> block.label]]

OneMore(old, new, e) ==
  /\ e \in Item /\ old.instructions \in Seq(Item)
  /\ new.label = old.label /\ new.instructions = Append(old.instructions, e)

LEMMA InstructionAppended ==
  ASSUME NEW f, NEW old, NEW new, NEW e, OneMore(old, new, e)
  PROVE  BlockItems(f, new) = BlockItems(f, old) \cup {InBlock(e, f, old)}
<1> DEFINE is == old.instructions
<1>1. /\ DOMAIN new.instructions = DOMAIN is \cup {Len(is) + 1}
      /\ new.instructions[Len(is) + 1] = e
      /\ \A k \in DOMAIN is : new.instructions[k] = is[k]
  <2>1. /\ DOMAIN is = 1 .. Len(is) /\ Len(is) \in Nat
        /\ DOMAIN Append(is, e) = 1 .. Len(is) + 1
        /\ new.instructions = Append(is, e)
    BY DEF OneMore
  <2> QED BY <2>1 DEF OneMore
<1> QED BY <1>1 DEF BlockItems, ItemOf, InBlock, OneMore

\* Adding an instruction to the current block changes nothing else.
Added(f, item) == [f EXCEPT !.blocks[f.current_block].instructions = Append(@, item)]

LEMMA AddedToBlock ==
  ASSUME NEW f, FunctionOK(f), f.blocks # << >>, NEW item \in Item,
         NEW g, g = Added(f, item)
  PROVE  LET b == f.current_block
         IN /\ b \in DOMAIN f.blocks /\ f.blocks[b].instructions \in Seq(Item)
            /\ g.at = f.at /\ g.current_block = b
            /\ DOMAIN g.blocks = DOMAIN f.blocks /\ g.blocks # << >>
            /\ \A d \in DOMAIN f.blocks \ {b} : g.blocks[d] = f.blocks[d]
            /\ g.blocks[b].label = f.blocks[b].label
            /\ g.blocks[b].instructions = Append(f.blocks[b].instructions, item)
<1> DEFINE b == f.current_block
           new == [f.blocks[b] EXCEPT !.instructions = Append(@, item)]
           blocks == [f.blocks EXCEPT ![b] = new]
<1>1. /\ b \in DOMAIN f.blocks /\ f.blocks \in Seq(BlockType)
      /\ f \in FunctionType
  BY DEF FunctionOK, FunctionType
<1>2. f.blocks[b] \in BlockType BY <1>1
<1>3. f.blocks[b].instructions \in Seq(Item) BY <1>2 DEF BlockType
<1>4. /\ new.label = f.blocks[b].label
      /\ new.instructions = Append(f.blocks[b].instructions, item)
  BY <1>2 DEF BlockType
<1>5. g = [f EXCEPT !.blocks = blocks] BY DEF Added
<1> HIDE DEF new
<1>6. /\ DOMAIN blocks = DOMAIN f.blocks /\ blocks[b] = new
      /\ \A d \in DOMAIN f.blocks \ {b} : blocks[d] = f.blocks[d]
  BY <1>1
<1> HIDE DEF blocks, b
<1>7. g.at = f.at /\ g.current_block = f.current_block /\ g.blocks = blocks
  BY <1>1, <1>5 DEF FunctionType
<1>8. g.blocks # << >> BY <1>1, <1>6, <1>7
<1> QED BY <1>1, <1>3, <1>4, <1>6, <1>7, <1>8 DEF b

\* A new block is the current one, empty, with the label that is read.
LEMMA AddedBlock ==
  ASSUME NEW f, FunctionOK(f)
  PROVE  LET g == BlockAdded(f)
         IN /\ g.at = f.at
            /\ g.blocks = Append(f.blocks, [label |-> cursor, instructions |-> << >>])
            /\ g.current_block = Len(f.blocks) + 1
            /\ g.blocks[g.current_block] = [label |-> cursor, instructions |-> << >>]
            /\ g.blocks # << >>
<1> DEFINE g == BlockAdded(f)
           block == [label |-> cursor, instructions |-> << >>]
<1>1. f \in FunctionType /\ f.blocks \in Seq(BlockType)
  BY DEF FunctionOK, FunctionType
<1>2. /\ g.at = f.at /\ g.blocks = Append(f.blocks, block)
      /\ g.current_block = Len(f.blocks) + 1
  BY <1>1 DEF BlockAdded, FunctionType
<1> HIDE DEF g, block
<1>3. /\ Len(f.blocks) + 1 \in DOMAIN Append(f.blocks, block)
      /\ Append(f.blocks, block)[Len(f.blocks) + 1] = block
  BY <1>1
<1>4. g.blocks[g.current_block] = block BY <1>2, <1>3
<1>5. g.blocks # << >> BY <1>2, <1>3
<1> QED BY <1>2, <1>4, <1>5 DEF g, block

\* Nothing is recorded in a block.
LEMMA BodyKept ==
  ASSUME Turn, BodyFollows, body' = body, Parsed' = Parsed
  PROVE  BodyFollows'
<1>1. expected \in Int /\ expected' \in Int /\ expected' > expected BY DEF Turn
<1>2. \A x \in body : x.at < expected' /\ x.owner.label < expected'
  BY <1>1 DEF BodyFollows
<1> QED BY <1>2 DEF BodyFollows

LEMMA FunctionStep ==
  ASSUME Turn, BoundsInv, BodyFollows, OwnerFollows, op = "function"
  PROVE  BodyFollows' /\ OwnerFollows'
<1>1. count = 5
  <2>1. "function" \in DOMAIN Lengths /\ Lengths["function"] = {5}
    BY DEF Lengths, Opcodes, Declarations, BodyOps
  <2> QED BY <2>1 DEF Turn
<1>2. /\ functions' = Append(functions, EmptyFunction)
      /\ current_function' = Len(functions) + 1
  BY <1>1 DEF Turn, ParseInstruction, Skip, LocalSize, EntryPoint, Declare, Function,
     FunctionOutOfMemory, BlocksOutOfMemory, FunctionEnd, Label, LabelOutOfMemory, Body,
     Declarations, BodyOps
<1>3. /\ owner' = [function |-> cursor, label |-> 0] /\ body' = body
      /\ cursor \in Nat \ {0}
  BY DEF Turn, NextOwner, NextBody, BodyOps
<1>4. /\ functions \in Seq(FunctionType) /\ Len(functions) \in Nat
      /\ EmptyFunction \in FunctionType /\ EmptyFunction.blocks = << >>
      /\ EmptyFunction.at = cursor
  BY <1>3, ParserAssumption DEF BoundsInv, FunctionsOK, EmptyFunction, FunctionType
<1>5. Parsed' = Parsed
  BY <1>2, <1>4, FunctionAppended, ParsedNow
<1>6. BodyFollows' BY <1>3, <1>5, BodyKept
<1>7. functions'[current_function'] = EmptyFunction
  <2> HIDE DEF EmptyFunction
  <2> QED BY <1>2, <1>4
<1>8. current_function' # 0 BY <1>2, <1>4
<1>9. OwnerFollows'
  <2>1. owner'.label < expected' BY <1>3 DEF Turn
  <2> QED BY <1>3, <1>4, <1>7, <1>8, <2>1 DEF OwnerFollows
<1> QED BY <1>6, <1>9

LEMMA LabelStep ==
  ASSUME Turn, BoundsInv, BodyFollows, OwnerFollows, op = "label"
  PROVE  BodyFollows' /\ OwnerFollows'
<1>1. /\ current_function' = current_function /\ body' = body /\ cursor \in Nat \ {0}
      /\ functions' = IF current_function # 0
           THEN [functions EXCEPT ![current_function] = BlockAdded(@)] ELSE functions
  <2>1. Label
    BY DEF Turn, ParseInstruction, Skip, LocalSize, EntryPoint, Declare, Function,
       FunctionOutOfMemory, BlocksOutOfMemory, FunctionEnd, LabelOutOfMemory, Body,
       Declarations, BodyOps
  <2> QED BY <2>1 DEF Label, Turn, NextBody, BodyOps
<1>2. owner' = IF owner.function # 0 THEN [owner EXCEPT !.label = cursor] ELSE owner
  BY DEF Turn, NextOwner
<1>0. /\ owner.label \in Int /\ owner.label < expected /\ cursor = expected
      /\ expected' \in Int /\ expected' > cursor
  BY DEF Turn, OwnerFollows
<1>3. CASE current_function = 0
  <2>1. functions' = functions /\ owner' = owner BY <1>1, <1>2, <1>3 DEF OwnerFollows
  <2>2. Parsed' = Parsed BY <2>1, ParsedNow
  <2>3. owner'.label < expected' BY <1>0, <1>1, <2>1
  <2>4. OwnerFollows' BY <1>1, <1>3, <2>1, <2>3 DEF OwnerFollows
  <2> QED BY <1>1, <2>2, <2>4, BodyKept
<1>4. CASE current_function # 0
  <2> DEFINE c == current_function
             f == functions[c]
             g == BlockAdded(f)
             block == [label |-> cursor, instructions |-> << >>]
  <2>1. c \in DOMAIN functions /\ FunctionOK(f) /\ functions \in Seq(FunctionType)
    BY <1>4 DEF BoundsInv, FunctionsOK
  <2>2. functions' = [functions EXCEPT ![c] = g] BY <1>1, <1>4
  <2>3. /\ g.at = f.at /\ g.blocks = Append(f.blocks, block)
        /\ g.blocks[g.current_block] = block /\ g.blocks # << >>
    BY <2>1, AddedBlock
  <2>4. block \in BlockType /\ block.instructions = << >> /\ block.label = cursor
    BY <1>1 DEF BlockType
  <2>5. f.blocks \in Seq(BlockType) BY <2>1 DEF FunctionOK, FunctionType
  <2> HIDE DEF g, block, f
  <2>6. FunctionItems(g) = FunctionItems(f)
    BY <2>3, <2>4, <2>5, BlockAppended
  <2>7. AllItems(With(functions, c, g)) = AllItems(functions)
    <3>1. FunctionItems(g) = FunctionItems(functions[c]) BY <2>6 DEF f
    <3> QED BY <2>1, <3>1, FunctionKept
  <2>8. Parsed' = Parsed BY <2>2, <2>7, ParsedNow DEF With
  <2>9. BodyFollows' BY <1>1, <2>8, BodyKept
  <2>10. /\ owner \in [function : Nat, label : Nat] /\ owner.function # 0
         /\ f.at = owner.function
    BY <1>4 DEF OwnerFollows, f
  <2>11. /\ owner' \in [function : Nat, label : Nat]
         /\ owner'.function = owner.function /\ owner'.label = cursor
    BY <1>1, <1>2, <2>10
  <2>12. functions'[current_function'] = g BY <1>1, <2>1, <2>2
  <2>13. Cardinality(Within(owner)') = 0
    <3>1. \A x \in body' : x.owner.label \in Int /\ x.owner.label < cursor
      BY <1>1 DEF BodyFollows, Turn
    <3>2. Within(owner)' = {} BY <1>1, <2>11, <3>1 DEF Within
    <3> QED BY <3>2, FS_EmptySet
  <2>14. Len(g.blocks[g.current_block].instructions) = 0 BY <2>3, <2>4
  <2>15. OwnerFollows'
    <3>1. owner'.label < expected' BY <1>0, <1>1, <2>11
    <3>2. current_function' # 0 /\ owner'.label # 0 BY <1>1, <1>4, <2>11
    <3> QED
      BY <2>3, <2>4, <2>10, <2>11, <2>12, <2>13, <2>14, <3>1, <3>2 DEF OwnerFollows
  <2> QED BY <2>9, <2>15
<1> QED BY <1>3, <1>4

\* An instruction goes into the block of its label, or both find that full.
LEMMA BodyStep ==
  ASSUME Turn, BoundsInv, BodyFollows, OwnerFollows, op \in BodyOps
  PROVE  BodyFollows' /\ OwnerFollows'
<1> DEFINE c == current_function
           f == functions[c]
           b == f.current_block
           item == [at |-> cursor, taken |-> count]
           added == /\ c # 0 /\ f.blocks # << >>
                    /\ ~(Len(f.blocks[b].instructions) >= BlockCapacity)
           g == [f EXCEPT !.blocks[b].instructions = Append(@, item)]
<1>1. /\ functions' = InstructionAdded(count) /\ current_function' = current_function
      /\ owner' = owner
  <2>1. Body
    BY DEF Turn, ParseInstruction, Skip, LocalSize, EntryPoint, Declare, Function,
       FunctionOutOfMemory, BlocksOutOfMemory, FunctionEnd, Label, LabelOutOfMemory,
       Declarations, BodyOps
  <2>2. count >= HandlerOf[op].min /\ Taken(op, count) = count BY HandlerTakes
  <2>3. owner' = owner BY DEF Turn, NextOwner, BodyOps
  <2> QED BY <2>1, <2>2, <2>3 DEF Body
<1>2. /\ cursor \in Int /\ count \in Int /\ cursor = expected
      /\ expected' \in Int /\ expected' > cursor
  BY DEF Turn
<1>3. item \in Item BY <1>2 DEF Item
<1>4. /\ functions' = IF added THEN [functions EXCEPT ![c] = g] ELSE functions
  BY <1>1 DEF InstructionAdded
<1>5. c # 0 => c \in DOMAIN functions /\ FunctionOK(f) /\ functions \in Seq(FunctionType)
  BY DEF BoundsInv, FunctionsOK
<1>6. c # 0 /\ f.blocks # << >> =>
        Len(f.blocks[b].instructions) \in Nat
  <2> SUFFICES ASSUME c # 0, f.blocks # << >>
               PROVE  Len(f.blocks[b].instructions) \in Nat
    OBVIOUS
  <2> HIDE DEF f, b, g, item
  <2>1. f.blocks \in Seq(BlockType) /\ b \in DOMAIN f.blocks
    BY <1>5 DEF FunctionOK, FunctionType, b
  <2>2. f.blocks[b] \in BlockType BY <2>1
  <2> QED BY <2>2 DEF BlockType
<1>7. added <=> owner.label # 0 /\ Cardinality(Within(owner)) < BlockCapacity
  <2>1. c = 0 => owner.label = 0 BY DEF OwnerFollows
  <2>2. c # 0 => (f.blocks = << >> <=> owner.label = 0) BY DEF OwnerFollows
  <2>3. c # 0 /\ f.blocks # << >> =>
          Cardinality(Within(owner)) = Len(f.blocks[b].instructions)
    BY DEF OwnerFollows
  <2> HIDE DEF c, f, b
  <2> QED BY <1>6, <2>1, <2>2, <2>3, ParserAssumption
<1>8. body' = IF added THEN body \cup {[at |-> cursor, taken |-> count, owner |-> owner]}
              ELSE body
  <2> HIDE DEF added
  <2> QED BY <1>7 DEF Turn, NextBody
<1> HIDE DEF added
<1>9. CASE ~added
  <2>1. functions' = functions /\ body' = body BY <1>4, <1>8, <1>9
  <2>2. Parsed' = Parsed BY <2>1, ParsedNow
  <2>3. Within(owner)' = Within(owner) BY <1>1, <2>1 DEF Within
  <2>4. owner.label < expected'
    BY <1>2 DEF OwnerFollows
  <2>5. OwnerFollows' BY <1>1, <2>1, <2>3, <2>4 DEF OwnerFollows
  <2> QED BY <2>1, <2>2, <2>5, BodyKept
<1>10. CASE added
  <2> DEFINE x == [at |-> cursor, taken |-> count, owner |-> owner]
             old == f.blocks[b]
  <2>1. /\ c # 0 /\ f.blocks # << >> /\ c \in DOMAIN functions /\ FunctionOK(f)
        /\ functions' = [functions EXCEPT ![c] = g] /\ body' = body \cup {x}
    BY <1>4, <1>5, <1>8, <1>10 DEF added
  <2>2. /\ f.at = owner.function /\ old.label = owner.label /\ owner.label # 0
        /\ Cardinality(Within(owner)) = Len(old.instructions)
        /\ owner \in [function : Nat, label : Nat]
        /\ owner = [function |-> f.at, label |-> old.label]
        /\ owner.function # 0
    <3>1. /\ f.at = owner.function /\ old.label = owner.label /\ owner.label # 0
          /\ Cardinality(Within(owner)) = Len(old.instructions)
          /\ owner \in [function : Nat, label : Nat] /\ owner.function # 0
      BY <2>1 DEF OwnerFollows
    <3> HIDE DEF f, old
    <3> QED BY <3>1
  <2>3. g = Added(f, item) BY DEF Added
  <2> HIDE DEF f, g
  <2>4. /\ b \in DOMAIN f.blocks /\ old.instructions \in Seq(Item)
        /\ g.at = f.at /\ g.current_block = b
        /\ DOMAIN g.blocks = DOMAIN f.blocks /\ g.blocks # << >>
        /\ \A d \in DOMAIN f.blocks \ {b} : g.blocks[d] = f.blocks[d]
        /\ g.blocks[b].label = old.label
        /\ g.blocks[b].instructions = Append(old.instructions, item)
    <3> HIDE DEF item
    <3> QED BY <1>3, <2>1, <2>3, AddedToBlock
  <2>5. item.at = cursor /\ item.taken = count OBVIOUS
  <2> HIDE DEF b, old, item
  <2>6. BlockItems(f, g.blocks[b]) = BlockItems(f, old) \cup {x}
    <3> DEFINE new == g.blocks[b]
    <3>1. new.label = old.label /\ new.instructions = Append(old.instructions, item)
      BY <2>4
    <3> HIDE DEF new, x
    <3>2. BlockItems(f, new) = BlockItems(f, old) \cup {InBlock(item, f, old)}
      <4>1. item \in Item BY <1>3 DEF item
      <4>2. OneMore(old, new, item) BY <2>4, <3>1, <4>1 DEF OneMore
      <4> QED BY <4>2, InstructionAppended
    <3>3. InBlock(item, f, old) = x BY <2>2, <2>5 DEF x, InBlock
    <3> QED BY <3>2, <3>3 DEF new
  <2> HIDE DEF x
  <2>7. FunctionItems(g) = FunctionItems(f) \cup {x}
    <3>1. ItemsAt(f, g, b) = ItemsAt(f, f, b) \cup {x} BY <2>6 DEF old, ItemsAt
    <3>2. SameButAt(f, g, b) BY <2>4 DEF SameButAt
    <3> QED BY <3>1, <3>2, BlockChanged
  <2>8. AllItems(With(functions, c, g)) = AllItems(functions) \cup {x}
    <3>1. FunctionItems(g) = FunctionItems(functions[c]) \cup {x} BY <2>7 DEF f
    <3> QED BY <2>1, <3>1, FunctionChanged
  <2>9. Parsed' = Parsed \cup {x} BY <2>1, <2>8, ParsedNow DEF With
  <2>10. x.at = cursor /\ x.owner = owner /\ owner.label \in Int
    BY <2>2 DEF x
  <2>11. /\ IsFiniteSet(body) /\ Parsed = body
         /\ \A y \in body : /\ y.at \in Int /\ y.at < expected
                            /\ y.owner.label \in Int /\ y.owner.label < expected
    BY DEF BodyFollows
  <2>12. owner.label < expected /\ owner.label < expected'
    <3>1. owner.label < expected BY DEF OwnerFollows
    <3> QED BY <1>2, <2>10, <3>1
  <2>13. x \notin body BY <1>2, <2>10, <2>11
  <2>14. BodyFollows'
    <3>1. IsFiniteSet(body') BY <2>1, <2>11, FS_AddElement
    <3>2. ASSUME NEW y \in body'
          PROVE  /\ y.at \in Int /\ y.at < expected'
                 /\ y.owner.label \in Int /\ y.owner.label < expected'
      <4>1. CASE y = x BY <1>2, <2>10, <2>12, <4>1
      <4>2. CASE y # x
        <5>1. y \in body BY <2>1, <4>2
        <5> QED BY <1>2, <2>11, <5>1
      <4> QED BY <4>1, <4>2
    <3> QED BY <2>1, <2>9, <2>11, <3>1, <3>2 DEF BodyFollows
  <2>15. Within(owner)' = Within(owner) \cup {x}
    BY <1>1, <2>1, <2>10 DEF Within
  <2>16. Cardinality(Within(owner)') = Cardinality(Within(owner)) + 1
    <3>1. IsFiniteSet(Within(owner)) /\ x \notin Within(owner)
      BY <2>11, <2>13, FS_Subset DEF Within
    <3> QED BY <2>15, <3>1, FS_AddElement
  <2>17. Len(g.blocks[b].instructions) = Len(old.instructions) + 1
    BY <1>3, <2>4
  <2>18. functions'[current_function'] = g
    <3>1. functions'[c] = g BY <2>1
    <3> QED BY <1>1, <3>1
  <2>19. OwnerFollows'
    <3>1. /\ owner' = owner /\ current_function' # 0 /\ owner'.label < expected'
      BY <1>1, <2>1, <2>12
    <3>2. g.at = owner.function /\ g.blocks[g.current_block].label = owner.label
      BY <2>2, <2>4
    <3>3. Cardinality(Within(owner)') = Len(g.blocks[g.current_block].instructions)
      BY <2>2, <2>4, <2>16, <2>17
    <3> QED BY <2>2, <2>4, <2>18, <3>1, <3>2, <3>3 DEF OwnerFollows
  <2> QED BY <2>14, <2>19
<1> QED BY <1>9, <1>10

LEMMA FunctionEndStep ==
  ASSUME Turn, BodyFollows, op = "function_end"
  PROVE  BodyFollows' /\ OwnerFollows'
<1>1. functions' = functions /\ current_function' = 0
  BY DEF Turn, ParseInstruction, Skip, LocalSize, EntryPoint, Declare, Function,
     FunctionOutOfMemory, BlocksOutOfMemory, FunctionEnd, Label, LabelOutOfMemory, Body,
     Declarations, BodyOps
<1>2. owner' = NoOwner /\ body' = body /\ expected' \in Nat \ {0}
  BY DEF Turn, NextOwner, NextBody, BodyOps
<1>3. BodyFollows' BY <1>1, <1>2, ParsedNow, BodyKept
<1>4. OwnerFollows' BY <1>1, <1>2 DEF OwnerFollows, NoOwner
<1> QED BY <1>3, <1>4

\* No other instruction has to do with functions.
LEMMA OtherStep ==
  ASSUME Turn, BodyFollows, OwnerFollows,
         op \notin BodyOps \cup {"function", "function_end", "label"}
  PROVE  BodyFollows' /\ OwnerFollows'
<1>1. functions' = functions /\ current_function' = current_function
  BY DEF Turn, ParseInstruction, Skip, LocalSize, EntryPoint, Declare, Function,
     FunctionOutOfMemory, BlocksOutOfMemory, FunctionEnd, Label, LabelOutOfMemory, Body
<1>2. owner' = owner /\ body' = body BY DEF Turn, NextOwner, NextBody
<1>3. BodyFollows' BY <1>1, <1>2, ParsedNow, BodyKept
<1>4. Within(owner)' = Within(owner) BY <1>2 DEF Within
<1>5. owner.label < expected'
  <2>1. /\ owner.label \in Int /\ owner.label < expected
        /\ expected \in Int /\ expected' \in Int /\ expected' > expected
    BY DEF Turn, OwnerFollows
  <2> QED BY <2>1
<1>6. OwnerFollows' BY <1>1, <1>2, <1>4, <1>5 DEF OwnerFollows
<1> QED BY <1>3, <1>6

LEMMA StepRecords ==
  ASSUME InStepInv, BoundsInv, RecordInv, Iteration
  PROVE  RecordInv'
<1> SUFFICES ASSUME regular', failures' = {}
             PROVE  TablesFollow' /\ BodyFollows' /\ OwnerFollows'
  BY DEF RecordInv
<1>1. Turn BY TurnTaken
<1>2. TablesFollow /\ BodyFollows /\ OwnerFollows
  <2>1. regular /\ failures = {} BY <1>1 DEF Turn
  <2> QED BY <2>1 DEF RecordInv
<1>3. TablesFollow' BY <1>1, <1>2, TablesStep DEF BoundsInv
<1>4. CASE op = "function" BY <1>1, <1>2, <1>3, <1>4, FunctionStep
<1>5. CASE op = "label" BY <1>1, <1>2, <1>3, <1>5, LabelStep
<1>6. CASE op \in BodyOps BY <1>1, <1>2, <1>3, <1>6, BodyStep
<1>7. CASE op = "function_end" BY <1>1, <1>2, <1>3, <1>7, FunctionEndStep
<1>8. CASE op \notin BodyOps \cup {"function", "function_end", "label"}
  BY <1>1, <1>2, <1>3, <1>8, OtherStep
<1> QED BY <1>4, <1>5, <1>6, <1>7, <1>8

LEMMA InitRecords == ParserInit => RecordInv
<1> SUFFICES ASSUME ParserInit PROVE TablesFollow /\ BodyFollows /\ OwnerFollows
  BY DEF RecordInv
<1>1. Cardinality({}) = 0 /\ IsFiniteSet({}) BY FS_EmptySet
<1>2. TablesFollow BY <1>1 DEF ParserInit, TablesFollow
<1>3. Parsed = {}
  <2>1. AllItems(<< >>) = {} BY DEF AllItems
  <2> QED BY <2>1, ParsedNow DEF ParserInit
<1>4. BodyFollows BY <1>1, <1>3 DEF ParserInit, BodyFollows
<1>5. OwnerFollows BY DEF ParserInit, OwnerFollows, NoOwner
<1> QED BY <1>2, <1>4, <1>5

LEMMA RecordsKept == RecordInv /\ UNCHANGED parserVars => RecordInv'
<1> SUFFICES ASSUME RecordInv, UNCHANGED parserVars PROVE RecordInv'
  OBVIOUS
<1>1. /\ tables' = tables /\ functions' = functions /\ failures' = failures
      /\ current_function' = current_function /\ expected' = expected
      /\ regular' = regular /\ owner' = owner /\ body' = body /\ declared' = declared
  BY DEF parserVars, moduleVars, historyVars
<1>2. Parsed' = Parsed BY <1>1, ParsedNow
<1>3. TablesFollow => TablesFollow' BY <1>1 DEF TablesFollow
<1>4. BodyFollows => BodyFollows' BY <1>1, <1>2 DEF BodyFollows
<1>5. Within(owner)' = Within(owner) BY <1>1 DEF Within
<1>6. OwnerFollows => OwnerFollows' BY <1>1, <1>5 DEF OwnerFollows
<1> QED BY <1>1, <1>3, <1>4, <1>6 DEF RecordInv

\* What wgvk_spirv_parse keeps of a module of supported forms is what its words
\* say, as long as memory lasts: every declaration whole in its table, every
\* instruction whole in the block of its label and the function around it, up to
\* the capacities, and nothing else.
THEOREM RecordsWhatIsThere == ParserSpec => []RecordsTheModule
<1> DEFINE Inv == InStepInv /\ BoundsInv /\ RecordInv
<1>1. ParserInit => Inv BY InitInStep, InitBounds, InitRecords
<1>2. Inv /\ [Iteration]_parserVars => Inv'
  <2>1. Inv /\ Iteration => Inv' BY StepInStep, StepBounds, StepRecords
  <2>2. InStepInv /\ UNCHANGED parserVars => InStepInv'
    BY DEF InStepInv, InStep, Walking, parserVars, moduleVars, historyVars
  <2>3. BoundsInv /\ UNCHANGED parserVars => BoundsInv'
    BY DEF BoundsInv, Walking, TablesOK, FunctionsOK, parserVars, moduleVars,
           historyVars
  <2> QED BY <2>1, <2>2, <2>3, RecordsKept
<1>3. Inv => RecordsTheModule
  BY DEF RecordInv, RecordsTheModule, Represented, TablesFollow, BodyFollows
<1> QED BY <1>1, <1>2, <1>3, PTL DEF ParserSpec

=============================================================================
