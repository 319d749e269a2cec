---------------------------- MODULE ShaderProofs ----------------------------
(***************************************************************************)
(* Shaders.  Pipelines and WebGPU shader modules are not lost, and stages  *)
(* get the right shaders, for any code, any create infos and calls of any  *)
(* length (Pipelines).  What the generator writes for a batch of SPIR-V    *)
(* modules resolves and matches its entry point, for any batch             *)
(* (CompileShaders).                                                       *)
(*                                                                         *)
(* Where the code takes the first or last of several entry points or       *)
(* stages, the proofs about pipelines are about the case that there is one.*)
(***************************************************************************)
EXTENDS Pipelines, CompileShaders, WellFoundedInduction, TLAPS

USE ShaderAssumption

\* A shader module made from code without two entry points of one stage: what
\* it has for a stage was made from the entry point of that stage.
Sound(module) ==
  LET c == module.code
  IN /\ c \in Codes
     /\ c.kind = "spirv" =>
          /\ OneEntryEach(c) /\ module.wgpu_shader = NULL
          /\ \A em \in Stages : module.stage_shaders[em] # NULL =>
               /\ module.stage_shaders[em] \in DOMAIN c.entries
               /\ c.entries[module.stage_shaders[em]].model = em
     /\ c.kind # "spirv" =>
          /\ \A em \in Stages : module.stage_shaders[em] = NULL
          /\ module.wgpu_shader \in {0, NULL}

ModulesInv ==
  unique => ShadersOwned /\ \A m \in DOMAIN modules : Sound(modules[m])

\* The infos of the call in progress name shader modules that are still there.
BatchInv ==
  batch \in Seq(Infos) /\ \A i \in DOMAIN batch : Permitted(batch[i])

\* What RightShader says, of the pipelines of the call in progress too.
RightStages(pipeline) ==
  \A s \in StagesUsed(pipeline) : s.shader # NULL => s.entry \in s.provided
RightInv ==
  unique => \A p \in DOMAIN pipelines : RightStages(pipelines[p])

OwnedInv == PipelinesOwned /\ made \in Seq(Pipelines)

Inv == ModulesInv /\ BatchInv /\ RightInv /\ OwnedInv

-----------------------------------------------------------------------------
(* Shader modules                                                          *)

\* What is reachable from one module.
ShadersOf(module) ==
  ({module.wgpu_shader} \cup {module.stage_shaders[em] : em \in Stages}) \ {NULL}

LEMMA ReachableShaders ==
  Reachable = UNION {{<< m, i >> : i \in ShadersOf(modules[m])} : m \in DOMAIN modules}
BY DEF Reachable, ShadersOf

\* The set that StageShader, FirstOf and Stage choose from has one element.
LEMMA OneOf ==
  ASSUME NEW S, NEW k \in S, k \in Nat, \A i \in S : i = k
  PROVE  /\ (CHOOSE i \in S : \A j \in S : j <= i) = k
         /\ (CHOOSE i \in S : \A j \in S : i <= j) = k
<1>1. S = {k}
  OBVIOUS
<1>2. k <= k
  OBVIOUS
<1>3. (CHOOSE i \in S : \A j \in S : j <= i) \in S
  BY <1>1, <1>2
<1>4. (CHOOSE i \in S : \A j \in S : i <= j) \in S
  BY <1>1, <1>2
<1> QED
  BY <1>3, <1>4

\* Every stage of a new module is that of an entry point, and every WebGPU
\* module made for it is found under a stage or is that of WGSL source.
LEMMA CreatedSound ==
  ASSUME NEW m, NEW c \in Codes, NEW taken, CreateShaderModule(m, c, taken),
         c.kind = "spirv" => OneEntryEach(c)
  PROVE  Sound(Created(c, taken)) /\ ShadersOf(Created(c, taken)) = taken
<1> DEFINE module == Created(c, taken)
<1>1. c.kind \in {"none", "wgsl", "spirv"}
  OBVIOUS
<1>2. CASE c.kind = "spirv"
  <2>1. taken \subseteq Transpiled(c)
    BY <1>2 DEF CreateShaderModule
  <2>2. ASSUME NEW i \in taken
        PROVE  /\ i \in DOMAIN c.entries /\ i \in Nat /\ c.entries[i].model \in Stages
               /\ StageShader(c, taken, c.entries[i].model) = i
    <3> DEFINE em == c.entries[i].model
               given == {k \in taken : c.entries[k].model = em}
    <3>1. i \in Transpiled(c) /\ i \in DOMAIN c.entries /\ i \in Nat /\ em \in Stages
      BY <2>1 DEF Transpiled
    <3>2. \A k \in given : k = i
      BY <1>2, <2>1, <3>1 DEF OneEntryEach
    <3>3. i \in given
      OBVIOUS
    <3>4. (CHOOSE k \in given : \A j \in given : j <= k) = i
      <4> HIDE DEF given
      <4> QED
        BY <3>1, <3>2, <3>3, OneOf
    <3> QED
      BY <1>2, <3>1, <3>3, <3>4 DEF StageShader
  <2>3. ASSUME NEW em \in Stages, StageShader(c, taken, em) # NULL
        PROVE  \E i \in taken : c.entries[i].model = em /\ StageShader(c, taken, em) = i
    <3>1. PICK i \in taken : c.entries[i].model = em
      BY <2>3 DEF StageShader
    <3> QED
      BY <2>2, <3>1
  <2>4. /\ module.code = c /\ module.wgpu_shader = NULL
        /\ \A em \in Stages : module.stage_shaders[em] = StageShader(c, taken, em)
    BY <1>2 DEF Created
  <2> HIDE DEF module
  <2>5. Sound(module)
    BY <1>2, <2>2, <2>3, <2>4 DEF Sound
  <2>6. ShadersOf(module) = taken
    <3>1. ASSUME NEW i \in taken
          PROVE  i \in {module.stage_shaders[em] : em \in Stages} /\ i # NULL
      BY <2>2, <2>4
    <3>2. ASSUME NEW em \in Stages, module.stage_shaders[em] # NULL
          PROVE  module.stage_shaders[em] \in taken
      BY <2>3, <2>4, <3>2
    <3> QED
      BY <2>4, <3>1, <3>2 DEF ShadersOf
  <2> QED
    BY <2>5, <2>6 DEF module
<1>3. CASE c.kind # "spirv"
  <2>1. /\ module.code = c
        /\ \A em \in Stages : module.stage_shaders[em] = NULL
        /\ module.wgpu_shader = IF c.kind = "wgsl" THEN 0 ELSE NULL
    BY <1>3 DEF Created, StageShader
  <2>2. taken = IF c.kind = "wgsl" THEN {0} ELSE {}
    BY <1>1, <1>3 DEF CreateShaderModule
  <2> HIDE DEF module
  <2>3. Sound(module)
    BY <1>3, <2>1 DEF Sound
  <2>4. ShadersOf(module) = taken
    BY <2>1, <2>2 DEF ShadersOf
  <2> QED
    BY <2>3, <2>4 DEF module
<1> QED
  BY <1>2, <1>3

LEMMA CreateModuleInv ==
  ASSUME ModulesInv, NEW m, NEW c \in Codes, NEW taken, CreateShaderModule(m, c, taken)
  PROVE  ModulesInv'
<1> SUFFICES ASSUME unique'
             PROVE  ShadersOwned' /\ \A a \in DOMAIN modules' : Sound(modules[a])'
  BY DEF ModulesInv
<1>1. unique /\ (c.kind = "spirv" => OneEntryEach(c))
  BY DEF CreateShaderModule
<1>2. Sound(Created(c, taken)) /\ ShadersOf(Created(c, taken)) = taken
  BY <1>1, CreatedSound
<1>3. /\ m \notin DOMAIN modules /\ DOMAIN modules' = DOMAIN modules \cup {m}
      /\ modules'[m] = Created(c, taken)
      /\ \A a \in DOMAIN modules : modules'[a] = modules[a]
      /\ shaders_held' = shaders_held \cup {<< m, i >> : i \in taken}
  BY DEF CreateShaderModule
<1>4. \A a \in DOMAIN modules' : Sound(modules[a])'
  BY <1>1, <1>2, <1>3 DEF ModulesInv, Sound
<1>5. shaders_held = UNION {{<< a, i >> : i \in ShadersOf(modules[a])} : a \in DOMAIN modules}
  BY <1>1, ReachableShaders DEF ModulesInv, ShadersOwned
<1>6. Reachable' = UNION {{<< a, i >> : i \in ShadersOf(modules'[a])} : a \in DOMAIN modules'}
  BY DEF Reachable, ShadersOf
<1>7. shaders_held' = Reachable'
  BY <1>2, <1>3, <1>5, <1>6
<1> QED
  BY <1>4, <1>7 DEF ShadersOwned

LEMMA DestroyModuleInv ==
  ASSUME ModulesInv, NEW m, DestroyShaderModule(m)
  PROVE  ModulesInv'
<1> SUFFICES ASSUME unique'
             PROVE  ShadersOwned' /\ \A a \in DOMAIN modules' : Sound(modules[a])'
  BY DEF ModulesInv
<1>1. /\ m \in DOMAIN modules /\ DOMAIN modules' = DOMAIN modules \ {m}
      /\ \A a \in DOMAIN modules' : modules'[a] = modules[a]
      /\ unique' = unique
  BY DEF DestroyShaderModule
<1>2. \A a \in DOMAIN modules' : Sound(modules[a])'
  BY <1>1 DEF ModulesInv, Sound
<1>3. shaders_held = UNION {{<< a, i >> : i \in ShadersOf(modules[a])} : a \in DOMAIN modules}
  BY <1>1, ReachableShaders DEF ModulesInv, ShadersOwned
<1>4. Reachable' = UNION {{<< a, i >> : i \in ShadersOf(modules'[a])} : a \in DOMAIN modules'}
  BY DEF Reachable, ShadersOf
<1>5. shaders_held' = shaders_held \ {<< m, i >> : i \in ShadersOf(modules[m]) \cup {NULL}}
  <2> DEFINE gone == StagesOf(m) \cup {<< m, modules[m].wgpu_shader >>}
  <2>1. shaders_held' = shaders_held \ gone
    BY DEF DestroyShaderModule
  <2>2. ASSUME NEW r \in gone
        PROVE  r \in {<< m, i >> : i \in ShadersOf(modules[m]) \cup {NULL}}
    BY DEF StagesOf, ShadersOf
  <2>3. ASSUME NEW i \in ShadersOf(modules[m])
        PROVE  << m, i >> \in gone
    BY DEF StagesOf, ShadersOf
  <2>4. << m, NULL >> \notin shaders_held
    BY <1>3 DEF ShadersOf
  <2> HIDE DEF gone
  <2> QED
    BY <2>1, <2>2, <2>3, <2>4
<1>6. shaders_held' = Reachable'
  <2>1. \A a, i : << a, i >> \in {<< m, k >> : k \in ShadersOf(modules[m]) \cup {NULL}}
                  <=> a = m /\ i \in ShadersOf(modules[m]) \cup {NULL}
    OBVIOUS
  <2> QED
    BY <1>1, <1>3, <1>4, <1>5, <2>1
<1> QED
  BY <1>2, <1>6 DEF ShadersOwned

-----------------------------------------------------------------------------
(* Loops that keep some of a sequence                                      *)

\* What the infos are made of.
LEMMA InfoTypes ==
  ASSUME NEW info \in Infos
  PROVE  /\ Len(info.stages) \in Nat /\ DOMAIN info.stages = 1 .. Len(info.stages)
         /\ Len(info.bindings) \in Nat /\ DOMAIN info.bindings = 1 .. Len(info.bindings)
         /\ info.attributes \in Seq(Range(info.attributes))
         /\ info.formats \in Seq(Range(info.formats))
         /\ info.colors \in Nat /\ info.depth \in BOOLEAN
<1>1. /\ info.stages \in Seq(Range(info.stages))
      /\ info.bindings \in Seq(Range(info.bindings))
  BY PipelineAssumption
<1> QED
  BY <1>1, PipelineAssumption

\* A set with 0 that is closed under successor has every natural number.
LEMMA SetInduction ==
  ASSUME NEW S, 0 \in S, \A n \in Nat : n \in S => n + 1 \in S
  PROVE  \A n \in Nat : n \in S
<1> DEFINE T == Nat \ S
           R == OpToRel(<, Nat)
<1> SUFFICES ASSUME T # {} PROVE FALSE
  OBVIOUS
<1>1. T \subseteq Nat /\ IsWellFoundedOn(R, Nat)
  BY NatLessThanWellFounded
<1>2. PICK x \in T : \A y \in T : ~(<<y, x>> \in R)
  <2> HIDE DEF T, R
  <2> QED
    BY <1>1, WFMin
<1>3. x - 1 \in T /\ <<x - 1, x>> \in R
  BY DEF OpToRel
<1> QED
  BY <1>2, <1>3

\* What a loop of n turns computes, with G for a turn.
Loops(k, n, base, G) ==
  k[0] = base /\ \A i \in 1 .. n : k[i] = G[<< i, k[i - 1] >>]
CanLoop(n, A, base, G) == \E k \in [0 .. n -> A] : Loops(k, n, base, G)

LEMMA LoopEnds ==
  ASSUME NEW n \in Nat, NEW A, NEW base \in A, NEW G \in [(1 .. n) \X A -> A]
  PROVE  CanLoop(n, A, base, G)
<1> DEFINE I == {m \in Nat : m <= n => CanLoop(m, A, base, G)}
<1>1. 0 \in I
  <2> DEFINE k == [i \in 0 .. 0 |-> base]
  <2>1. k \in [0 .. 0 -> A] /\ k[0] = base /\ 1 .. 0 = {}
    OBVIOUS
  <2> QED
    BY <2>1 DEF CanLoop, Loops
<1>2. ASSUME NEW m \in Nat, m + 1 <= n, CanLoop(m, A, base, G)
      PROVE  CanLoop(m + 1, A, base, G)
  <2>1. PICK k \in [0 .. m -> A] : Loops(k, m, base, G)
    BY <1>2 DEF CanLoop
  <2> DEFINE l == [i \in 0 .. m + 1 |-> IF i = m + 1 THEN G[<< m + 1, k[m] >>] ELSE k[i]]
  <2>2. /\ m + 1 \in 1 .. n /\ m \in 0 .. m /\ m \in 0 .. m + 1
        /\ m + 1 \in 0 .. m + 1 /\ 0 \in 0 .. m + 1 /\ m # m + 1 /\ 0 # m + 1
        /\ (m + 1) - 1 = m
        /\ \A i \in 0 .. m + 1 : i # m + 1 => i \in 0 .. m
        /\ \A i \in 1 .. m + 1 : i # m + 1 => i \in 1 .. m
        /\ \A i \in 1 .. m : i - 1 \in 0 .. m
    BY <1>2
  <2>3. l[m + 1] = G[<< m + 1, k[m] >>] /\ \A i \in 0 .. m : l[i] = k[i]
    BY <2>2
  <2>4. G[<< m + 1, k[m] >>] \in A
    BY <2>2
  <2>5. l \in [0 .. m + 1 -> A]
    BY <2>2, <2>4
  <2> HIDE DEF l
  <2>6. ASSUME NEW i \in 1 .. m + 1 PROVE l[i] = G[<< i, l[i - 1] >>]
    <3>1. CASE i = m + 1
      BY <2>2, <2>3, <3>1
    <3>2. CASE i # m + 1
      <4>1. i \in 1 .. m /\ i - 1 \in 0 .. m /\ i \in 0 .. m
        BY <2>2, <3>2
      <4>2. k[i] = G[<< i, k[i - 1] >>]
        BY <2>1, <4>1 DEF Loops
      <4> QED
        BY <2>3, <4>1, <4>2
    <3> QED
      BY <3>1, <3>2
  <2>7. l[0] = base
    BY <2>1, <2>3 DEF Loops
  <2>8. Loops(l, m + 1, base, G)
    BY <2>6, <2>7 DEF Loops
  <2> QED
    BY <2>5, <2>8 DEF CanLoop
<1>3. \A m \in Nat : m \in I => m + 1 \in I
  <2> SUFFICES ASSUME NEW m \in Nat, m \in I, m + 1 <= n
               PROVE  CanLoop(m + 1, A, base, G)
    OBVIOUS
  <2>1. m <= n
    OBVIOUS
  <2> QED
    BY <1>2, <2>1
<1>4. \A m \in Nat : m \in I
  <2> HIDE DEF I
  <2> QED
    BY <1>1, <1>3, SetInduction
<1> QED
  BY <1>4

\* The turns of the loop that Picked is.
Picks(k, s, places) ==
  /\ k[0] = << >> /\ k[Len(s)] = Picked(s, places)
  /\ \A i \in 1 .. Len(s) :
       k[i] = IF i \in places THEN Append(k[i - 1], s[i]) ELSE k[i - 1]

LEMMA PickedLoop ==
  ASSUME NEW S, NEW s \in Seq(S), NEW places
  PROVE  \E k \in [0 .. Len(s) -> Seq(S)] : Picks(k, s, places)
<1> DEFINE n == Len(s)
           Turn(i, a) == IF i \in places THEN Append(a, s[i]) ELSE a
           G == [x \in (1 .. n) \X Seq(S) |-> Turn(x[1], x[2])]
           k == CHOOSE k : k = [i \in 0 .. n |->
                  IF i = 0 THEN << >>
                  ELSE IF i \in places THEN Append(k[i - 1], s[i]) ELSE k[i - 1]]
<1>1. n \in Nat /\ << >> \in Seq(S)
  OBVIOUS
<1>2. Picked(s, places) = k[n]
  BY DEF Picked
<1>3. ASSUME NEW i \in 1 .. n, NEW a \in Seq(S)
      PROVE  Turn(i, a) \in Seq(S) /\ G[<< i, a >>] = Turn(i, a)
  <2>1. s[i] \in S
    OBVIOUS
  <2>2. Turn(i, a) \in Seq(S)
    BY <2>1
  <2>3. << i, a >> \in (1 .. n) \X Seq(S)
    OBVIOUS
  <2> QED
    BY <2>2, <2>3
<1>4. G \in [(1 .. n) \X Seq(S) -> Seq(S)]
  <2> HIDE DEF Turn, n
  <2>1. ASSUME NEW x \in (1 .. n) \X Seq(S) PROVE Turn(x[1], x[2]) \in Seq(S)
    BY <1>3
  <2> QED
    BY <2>1
<1> HIDE DEF n, G
<1>5. PICK f \in [0 .. n -> Seq(S)] : Loops(f, n, << >>, G)
  BY <1>1, <1>4, LoopEnds DEF CanLoop
<1>6. ASSUME NEW i \in 1 .. n PROVE f[i] = Turn(i, f[i - 1])
  <2>1. i - 1 \in 0 .. n
    BY <1>1
  <2>2. f[i] = G[<< i, f[i - 1] >>] /\ f[i - 1] \in Seq(S)
    BY <1>5, <2>1 DEF Loops
  <2> HIDE DEF Turn
  <2> QED
    BY <1>3, <2>2
<1>7. f = [i \in 0 .. n |->
             IF i = 0 THEN << >>
             ELSE IF i \in places THEN Append(f[i - 1], s[i]) ELSE f[i - 1]]
  <2>1. ASSUME NEW i \in 0 .. n
        PROVE  f[i] = IF i = 0 THEN << >>
                      ELSE IF i \in places THEN Append(f[i - 1], s[i]) ELSE f[i - 1]
    <3>1. CASE i = 0
      BY <1>5, <3>1 DEF Loops
    <3>2. CASE i # 0
      <4>1. i \in 1 .. n
        BY <1>1, <3>2
      <4> QED
        BY <1>6, <3>2, <4>1
    <3> QED
      BY <3>1, <3>2
  <2> QED
    BY <2>1
<1>8. k = [i \in 0 .. n |->
             IF i = 0 THEN << >>
             ELSE IF i \in places THEN Append(k[i - 1], s[i]) ELSE k[i - 1]]
  BY <1>7
<1> HIDE DEF k
<1> DEFINE I == {i \in Nat : i <= n => k[i] \in Seq(S)}
<1>9. k[0] = << >>
  BY <1>1, <1>8
<1>10. ASSUME NEW i \in 1 .. n
       PROVE  k[i] = IF i \in places THEN Append(k[i - 1], s[i]) ELSE k[i - 1]
  <2> DEFINE Value(j) == IF j = 0 THEN << >>
                         ELSE IF j \in places THEN Append(k[j - 1], s[j]) ELSE k[j - 1]
  <2>1. k = [j \in 0 .. n |-> Value(j)]
    BY <1>8
  <2>2. i \in 0 .. n /\ i # 0
    BY <1>1
  <2> HIDE DEF Value
  <2>3. k[i] = Value(i)
    BY <2>1, <2>2
  <2> QED
    BY <2>2, <2>3 DEF Value
<1>11. 0 \in I /\ \A i \in Nat : i \in I => i + 1 \in I
  <2>1. ASSUME NEW i \in Nat, i + 1 <= n, k[i] \in Seq(S)
        PROVE  k[i + 1] \in Seq(S)
    <3>1. i + 1 \in 1 .. n /\ (i + 1) - 1 = i
      BY <1>1, <2>1
    <3>2. k[i + 1] = Turn(i + 1, k[i])
      BY <1>10, <3>1
    <3> HIDE DEF Turn
    <3> QED
      BY <1>3, <2>1, <3>1, <3>2
  <2>2. 0 \in I
    BY <1>1, <1>9
  <2>3. ASSUME NEW i \in Nat, i \in I PROVE i + 1 \in I
    <3> SUFFICES ASSUME i + 1 <= n PROVE k[i + 1] \in Seq(S)
      OBVIOUS
    <3>1. i <= n
      BY <1>1
    <3> QED
      BY <2>1, <2>3, <3>1
  <2> HIDE DEF I
  <2> QED
    BY <2>2, <2>3
<1>12. \A i \in Nat : i \in I
  <2> HIDE DEF I
  <2> QED
    BY <1>11, SetInduction
<1>13. k \in [0 .. n -> Seq(S)]
  <2>1. ASSUME NEW i \in 0 .. n PROVE k[i] \in Seq(S)
    BY <1>1, <1>12
  <2>2. k = [i \in 0 .. n |-> k[i]]
    BY <1>8
  <2> HIDE DEF I
  <2> QED
    BY <2>1, <2>2
<1> QED
  BY <1>2, <1>9, <1>10, <1>13 DEF n, Picks

\* What is kept is as it was, ...
LEMMA PickedSeq ==
  ASSUME NEW S, NEW s \in Seq(S), NEW places
  PROVE  Picked(s, places) \in Seq(S)
<1>1. PICK k \in [0 .. Len(s) -> Seq(S)] : Picks(k, s, places)
  BY PickedLoop
<1>2. Len(s) \in 0 .. Len(s) /\ k[Len(s)] = Picked(s, places)
  BY <1>1 DEF Picks
<1> QED
  BY <1>2

\* ... and if the first m are kept, they are the front.
LEMMA PickedFront ==
  ASSUME NEW S, NEW s \in Seq(S), NEW m \in 0 .. Len(s), NEW places,
         \A i \in 1 .. Len(s) : i \in places <=> i <= m
  PROVE  Picked(s, places) = SubSeq(s, 1, m)
<1>1. PICK k \in [0 .. Len(s) -> Seq(S)] : Picks(k, s, places)
  BY PickedLoop
<1> DEFINE n == Len(s)
           I == {i \in Nat : i <= n => k[i] = SubSeq(s, 1, IF i < m THEN i ELSE m)}
<1>2. n \in Nat /\ m \in Nat /\ SubSeq(s, 1, 0) = << >>
  OBVIOUS
<1>3. ASSUME NEW i \in Nat, i + 1 <= m
      PROVE  Append(SubSeq(s, 1, i), s[i + 1]) = SubSeq(s, 1, i + 1)
  BY <1>2, <1>3
<1>4. ASSUME NEW i \in Nat, i + 1 <= n, k[i] = SubSeq(s, 1, IF i < m THEN i ELSE m)
      PROVE  k[i + 1] = SubSeq(s, 1, IF i + 1 < m THEN i + 1 ELSE m)
  <2>1. i + 1 \in 1 .. n /\ (i + 1) - 1 = i
    BY <1>2, <1>4
  <2>2. k[i + 1] = IF i + 1 <= m THEN Append(k[i], s[i + 1]) ELSE k[i]
    BY <1>1, <2>1 DEF Picks
  <2>3. CASE i + 1 <= m
    <3>1. (IF i < m THEN i ELSE m) = i /\ (IF i + 1 < m THEN i + 1 ELSE m) = i + 1
      BY <1>2, <2>3
    <3> QED
      BY <1>3, <1>4, <2>2, <2>3, <3>1
  <2>4. CASE ~(i + 1 <= m)
    <3>1. (IF i < m THEN i ELSE m) = m /\ (IF i + 1 < m THEN i + 1 ELSE m) = m
      BY <1>2, <2>4
    <3> QED
      BY <1>4, <2>2, <2>4, <3>1
  <2> QED
    BY <2>3, <2>4
<1>5. 0 \in I
  <2>1. (IF 0 < m THEN 0 ELSE m) = 0
    BY <1>2
  <2> QED
    BY <1>1, <1>2, <2>1 DEF Picks
<1>6. \A i \in Nat : i \in I
  <2>1. \A i \in Nat : i \in I => i + 1 \in I
    BY <1>2, <1>4
  <2> HIDE DEF I
  <2> QED
    BY <1>5, <2>1, SetInduction
<1>7. k[n] = SubSeq(s, 1, IF n < m THEN n ELSE m)
  BY <1>2, <1>6
<1>8. (IF n < m THEN n ELSE m) = m
  BY <1>2
<1> QED
  BY <1>1, <1>7, <1>8 DEF Picks

-----------------------------------------------------------------------------
(* Stages                                                                  *)

\* The shader for a stage that the code has, if there is one, has its entry
\* point.
LEMMA StageRight ==
  ASSUME NEW info \in Infos, Permitted(info), \A m \in DOMAIN modules : Sound(modules[m]),
         NEW em \in Stages, Stage(info, em) # NULL, Stage(info, em).shader # NULL
  PROVE  Stage(info, em).entry \in Stage(info, em).provided
<1> DEFINE found == {s \in DOMAIN info.stages : info.stages[s].model = em}
<1>1. PICK k \in found : TRUE
  BY DEF Stage
<1>2. k \in Nat /\ \A s \in found : s = k
  BY <1>1, InfoTypes DEF Permitted
<1>3. (CHOOSE s \in found : \A t \in found : t <= s) = k
  <2> HIDE DEF found
  <2> QED
    BY <1>1, <1>2, OneOf
<1> DEFINE st == info.stages[k]
           module == modules[st.module]
           c == module.code
           i == ShaderForStage(module, em)
<1>4. /\ Stage(info, em).entry = << em, st.name >>
      /\ Stage(info, em).shader = i
      /\ Stage(info, em).provided = Provided(module, i)
  BY <1>1, <1>3 DEF Stage
<1>5. st.model = em /\ st.module \in DOMAIN modules
  BY <1>1 DEF Permitted
<1>6. PICK n \in DOMAIN c.entries : c.entries[n].model = em /\ c.entries[n].name = st.name
  BY <1>1, <1>5 DEF Permitted, ToSet
<1>7. Sound(module) /\ c \in Codes
  BY <1>5 DEF Sound
<1>8. DOMAIN c.entries = 1 .. Len(c.entries) /\ Len(c.entries) \in Nat
  BY <1>7
<1> HIDE DEF found, st, module
<1>9. CASE c.kind = "spirv"
  <2>1. /\ OneEntryEach(c) /\ i = module.stage_shaders[em] /\ i \in DOMAIN c.entries
        /\ c.entries[i].model = em
    BY <1>4, <1>7, <1>9 DEF Sound, ShaderForStage
  <2>2. \A j \in DOMAIN c.entries : c.entries[j].model = em => j = i
    BY <2>1 DEF OneEntryEach, Transpiled
  <2>3. i \in Nat /\ i # 0 /\ i # NULL
    BY <1>8, <2>1
  <2>4. FirstOf(c, em) = i
    <3> DEFINE same == {j \in DOMAIN c.entries : c.entries[j].model = em}
    <3>1. i \in same /\ \A j \in same : j = i
      BY <2>1, <2>2
    <3>2. FirstOf(c, em) = CHOOSE a \in same : \A b \in same : a <= b
      BY <3>1 DEF FirstOf
    <3> HIDE DEF same, i
    <3> QED
      BY <2>3, <3>1, <3>2, OneOf
  <2>5. EntryName(c, em) = st.name
    BY <1>6, <2>2, <2>3, <2>4 DEF EntryName
  <2>6. Provided(module, i) = {<< em, EntryName(c, em) >>}
    <3> HIDE DEF i
    <3> QED
      BY <2>1, <2>3 DEF Provided
  <2> QED
    BY <1>4, <2>5, <2>6
<1>10. CASE c.kind # "spirv"
  <2>1. i = 0
    BY <1>4, <1>7, <1>10 DEF Sound, ShaderForStage
  <2>2. 0 # NULL
    OBVIOUS
  <2>3. Provided(module, i) = {<< e.model, e.name >> : e \in ToSet(c.entries)}
    BY <2>1, <2>2 DEF Provided
  <2> QED
    BY <1>4, <1>6, <2>3 DEF ToSet
<1> QED
  BY <1>9, <1>10

\* So does a pipeline made from such an info.
LEMMA MadeRight ==
  ASSUME NEW info \in Infos, Permitted(info), \A m \in DOMAIN modules : Sound(modules[m])
  PROVE  RightStages(MadeFrom(info))
<1>1. Vertex \in Stages /\ Fragment \in Stages /\ GLCompute \in Stages
  BY DEF Stages, Vertex, Fragment, GLCompute
<1>2. MadeFrom(info).info = info
  BY DEF MadeFrom, GraphicsPipeline, ComputePipeline
<1>3. ASSUME NEW s \in StagesUsed(MadeFrom(info))
      PROVE  s # NULL /\ \E em \in Stages : s = Stage(info, em)
  <2>1. CASE info.graphics
    <3>1. /\ MadeFrom(info).vertex = Stage(info, Vertex)
          /\ MadeFrom(info).fragment \in {Stage(info, Fragment), NULL}
      BY <2>1 DEF MadeFrom, GraphicsPipeline
    <3> QED
      BY <1>1, <1>2, <1>3, <2>1, <3>1 DEF StagesUsed
  <2>2. CASE ~info.graphics
    <3>1. MadeFrom(info).compute = Stage(info, GLCompute)
      BY <2>2 DEF MadeFrom, ComputePipeline
    <3> QED
      BY <1>1, <1>2, <1>3, <2>2, <3>1 DEF StagesUsed
  <2> QED
    BY <2>1, <2>2
<1> QED
  BY <1>3, StageRight DEF RightStages

-----------------------------------------------------------------------------
(* Vertex buffers                                                          *)

\* The loop over the bindings, when only b has attributes: they are written
\* to the front, and nothing is written over them.
LEMMA OnlyBinding ==
  ASSUME NEW info \in Infos, NEW b \in DOMAIN info.bindings,
         \A c \in DOMAIN info.bindings \ {b} : AttributesOf(info, c) = << >>
  PROVE  AttributeArray(info) = AttributesOf(info, b)
<1> DEFINE n == Len(info.bindings)
           own == AttributesOf(info, b)
           S == Range(info.attributes)
           w == CHOOSE w : w = [i \in 0 .. n |->
                  IF i = 0 THEN << >>
                  ELSE AttributesOf(info, i) \o
                         SubSeq(w[i - 1], Len(AttributesOf(info, i)) + 1, Len(w[i - 1]))]
           v == [i \in 0 .. n |-> IF i < b THEN << >> ELSE own]
<1>1. AttributeArray(info) = w[n]
  BY DEF AttributeArray
<1>2. n \in Nat /\ DOMAIN info.bindings = 1 .. n /\ b \in 1 .. n
  BY InfoTypes
<1>3. own \in Seq(S)
  <2>1. info.attributes \in Seq(S)
    BY InfoTypes
  <2> HIDE DEF S
  <2> QED
    BY <2>1, PickedSeq DEF AttributesOf
<1> HIDE DEF n, own, S
<1>4. ASSUME NEW i \in 1 .. n
      PROVE  AttributesOf(info, i) = IF i = b THEN own ELSE << >>
  <2>1. CASE i = b
    BY <2>1 DEF own
  <2>2. CASE i # b
    BY <1>2, <2>2
  <2> QED
    BY <2>1, <2>2
<1>5. /\ << >> \o SubSeq(<< >>, Len(<< >>) + 1, Len(<< >>)) = << >>
      /\ own \o SubSeq(<< >>, Len(own) + 1, Len(<< >>)) = own
      /\ << >> \o SubSeq(own, Len(<< >>) + 1, Len(own)) = own
  <2>1. SubSeq(<< >>, Len(own) + 1, Len(<< >>)) = << >>
    BY <1>3
  <2>2. SubSeq(own, 1, Len(own)) = own
    BY <1>3
  <2>3. own \o << >> = own /\ << >> \o own = own
    BY <1>3
  <2>4. << >> \o SubSeq(<< >>, Len(<< >>) + 1, Len(<< >>)) = << >>
    OBVIOUS
  <2>5. own \o SubSeq(<< >>, Len(own) + 1, Len(<< >>)) = own
    BY <2>1, <2>3
  <2>6. Len(<< >>) + 1 = 1
    OBVIOUS
  <2>7. << >> \o SubSeq(own, Len(<< >>) + 1, Len(own)) = own
    BY <2>2, <2>3, <2>6
  <2> QED
    BY <2>4, <2>5, <2>7
<1> DEFINE Joined(i, a) ==
             AttributesOf(info, i) \o SubSeq(a, Len(AttributesOf(info, i)) + 1, Len(a))
           At(i) == IF i < b THEN << >> ELSE own
<1>6. ASSUME NEW i \in 1 .. n
      PROVE  Joined(i, At(i - 1)) = At(i)
  <2>1. CASE i < b
    <3>1. At(i) = << >> /\ At(i - 1) = << >> /\ AttributesOf(info, i) = << >>
      BY <1>2, <1>4, <2>1
    <3> QED
      BY <1>5, <3>1
  <2>2. CASE i = b
    <3>1. At(i) = own /\ At(i - 1) = << >> /\ AttributesOf(info, i) = own
      BY <1>2, <1>4, <2>2
    <3> QED
      BY <1>5, <3>1
  <2>3. CASE i > b
    <3>1. At(i) = own /\ At(i - 1) = own /\ AttributesOf(info, i) = << >>
      BY <1>2, <1>4, <2>3
    <3> QED
      BY <1>5, <3>1
  <2> QED
    BY <1>2, <2>1, <2>2, <2>3
<1>7. v = [i \in 0 .. n |-> IF i = 0 THEN << >> ELSE Joined(i, v[i - 1])]
  <2>1. ASSUME NEW i \in 0 .. n
        PROVE  At(i) = IF i = 0 THEN << >> ELSE Joined(i, v[i - 1])
    <3>1. CASE i = 0
      BY <1>2, <3>1
    <3>2. CASE i # 0
      <4>1. i \in 1 .. n /\ i - 1 \in 0 .. n
        BY <1>2, <3>2
      <4>2. v[i - 1] = At(i - 1)
        BY <4>1
      <4> HIDE DEF v, At, Joined
      <4> QED
        BY <1>6, <3>2, <4>1, <4>2
    <3> QED
      BY <3>1, <3>2
  <2> HIDE DEF Joined
  <2> QED
    BY <2>1
<1>8. w = [i \in 0 .. n |-> IF i = 0 THEN << >> ELSE Joined(i, w[i - 1])]
  <2> HIDE DEF v
  <2> QED
    BY <1>7
<1> HIDE DEF v, w, Joined
<1> DEFINE I == {i \in Nat : i <= n => w[i] = At(i)}
<1>9. 0 \in I
  BY <1>2, <1>8
<1>10. ASSUME NEW i \in Nat, i \in I PROVE i + 1 \in I
  <2> SUFFICES ASSUME i + 1 <= n PROVE w[i + 1] = At(i + 1)
    OBVIOUS
  <2>1. i <= n /\ i + 1 \in 1 .. n /\ i + 1 \in 0 .. n /\ (i + 1) - 1 = i /\ i + 1 # 0
    BY <1>2
  <2>2. w[i] = At(i)
    BY <1>10, <2>1
  <2> HIDE DEF At
  <2>3. w[i + 1] = Joined(i + 1, w[(i + 1) - 1])
    BY <1>8, <2>1
  <2> QED
    BY <1>6, <2>1, <2>2, <2>3
<1>11. \A i \in Nat : i \in I
  <2> HIDE DEF I
  <2> QED
    BY <1>9, <1>10, SetInduction
<1>12. w[n] = own
  BY <1>2, <1>11
<1> QED
  BY <1>1, <1>12 DEF own

\* The buffer of that binding is described with all of them.
LEMMA OnlyBuffer ==
  ASSUME NEW info \in Infos, NEW b \in DOMAIN info.bindings,
         \A c \in DOMAIN info.bindings \ {b} : AttributesOf(info, c) = << >>
  PROVE  Buffers(info)[b] = AttributesOf(info, b)
<1> DEFINE own == AttributesOf(info, b)
           S == Range(info.attributes)
<1>1. AttributeArray(info) = own
  BY OnlyBinding
<1>2. own \in Seq(S)
  <2>1. info.attributes \in Seq(S)
    BY InfoTypes
  <2> HIDE DEF S
  <2> QED
    BY <2>1, PickedSeq DEF AttributesOf
<1>3. Buffers(info)[b] = SubSeq(own, 1, Len(own))
  BY <1>1 DEF Buffers
<1> HIDE DEF own, S
<1>4. SubSeq(own, 1, Len(own)) = own
  BY <1>2
<1> QED
  BY <1>3, <1>4 DEF own

-----------------------------------------------------------------------------
(* Attachments                                                             *)

\* The pass begun with a render pass and a framebuffer for it: the views
\* before the depth, if there is one, are the colours.
Views(info) == [i \in DOMAIN info.formats |-> i]
PassFor(info) == BegunPass(RenderPass(info.formats), Framebuffer(Views(info)))

LEMMA MatchingPass ==
  ASSUME NEW info \in Infos, Consistent(info), Arranged(info.formats)
  PROVE  /\ PassFor(info).colors = Colors(info.formats)
         /\ Len(PassFor(info).colors) = ColorTargets(info)
         /\ {PassFor(info).depth} \ {NULL} = Depths(info.formats)
         /\ info.depth = (PassFor(info).depth # NULL)
<1> SUFFICES ASSUME NEW views, views = Views(info),
                    NEW pass, pass = BegunPass(RenderPass(info.formats), Framebuffer(views))
             PROVE  /\ pass.colors = Colors(info.formats)
                    /\ Len(pass.colors) = ColorTargets(info)
                    /\ {pass.depth} \ {NULL} = Depths(info.formats)
                    /\ info.depth = (pass.depth # NULL)
  BY DEF PassFor
<1> USE DEF Views
<1> DEFINE formats == info.formats
           depths == Depths(formats)
           n == Len(formats)
           rp == RenderPass(formats)
           fb == Framebuffer(views)
           m == IF depths = {} THEN n ELSE n - 1
           few == SubSeq(views, 1, m)
<1>1. /\ n \in Nat /\ DOMAIN formats = 1 .. n /\ NULL \notin Nat
      /\ views \in Seq(Nat) /\ Len(views) = n /\ DOMAIN views = 1 .. n
      /\ \A i \in 1 .. n : views[i] = i
      /\ MaxColorAttachments \in Nat
  <2>1. formats \in Seq(Range(formats))
    BY InfoTypes
  <2>2. n \in Nat /\ DOMAIN formats = 1 .. n
    BY <2>1
  <2>3. views = [i \in 1 .. n |-> i]
    BY <2>2
  <2> HIDE DEF n
  <2>4. views \in Seq(Nat) /\ Len(views) = n
    BY <2>2, <2>3
  <2>5. DOMAIN views = 1 .. n /\ \A i \in 1 .. n : views[i] = i
    BY <2>3
  <2> QED
    BY <2>2, <2>4, <2>5, PipelineAssumption
<1>2. /\ depths \subseteq {n} /\ depths \subseteq 1 .. n
      /\ depths = {i \in DOMAIN formats : formats[i] \in DepthFormats}
  BY <1>1 DEF Arranged, Depths
<1>3. /\ m \in 0 .. n
      /\ \A i \in 1 .. n : i \in DOMAIN formats \ depths <=> i <= m
  <2> HIDE DEF depths, n, formats
  <2>1. depths = {} \/ (depths = {n} /\ n \in 1 .. n)
    BY <1>2
  <2>2. CASE depths = {}
    BY <1>1, <2>2
  <2>3. CASE depths = {n} /\ n \in 1 .. n
    BY <1>1, <2>3
  <2> QED
    BY <2>1, <2>2, <2>3
<1>4. Colors(formats) = few
  <2>1. Colors(formats) = Picked(views, DOMAIN formats \ depths)
    BY DEF Colors
  <2> HIDE DEF n, formats, depths, m
  <2>2. m \in 0 .. Len(views)
        /\ \A i \in 1 .. Len(views) : i \in DOMAIN formats \ depths <=> i <= m
    BY <1>1, <1>3
  <2>3. Picked(views, DOMAIN formats \ depths) = SubSeq(views, 1, m)
    BY <1>1, <2>2, PickedFront
  <2> QED
    BY <2>1, <2>3
<1>5. /\ few \in Seq(Nat) /\ Len(few) = m /\ DOMAIN few = 1 .. m
      /\ \A i \in 1 .. m : few[i] = i
  <2> HIDE DEF n, m
  <2> QED
    BY <1>1, <1>3
<1>6. /\ info.colors = m /\ m \in 1 .. MaxColorAttachments /\ m <= MaxColorAttachments
      /\ info.depth = (depths # {})
  <2> HIDE DEF m
  <2> QED
    BY <1>1, <1>3, <1>4, <1>5 DEF Consistent
<1>7. /\ fb.attachment_count = n
      /\ fb.attachments = views
  <2>1. fb.attachment_count = n /\ fb.attachments = FirstFew(views, MaxColorAttachments + 1)
    BY <1>1 DEF Framebuffer
  <2> HIDE DEF fb, n, depths
  <2>2. n <= MaxColorAttachments + 1
    BY <1>1, <1>6
  <2>3. (IF MaxColorAttachments + 1 < Len(views)
         THEN MaxColorAttachments + 1 ELSE Len(views)) = Len(views)
    BY <1>1, <2>2
  <2>4. FirstFew(views, MaxColorAttachments + 1) = SubSeq(views, 1, Len(views))
    BY <2>3 DEF FirstFew
  <2>5. SubSeq(views, 1, Len(views)) = views
    BY <1>1
  <2> QED
    BY <2>1, <2>4, <2>5
<1>8. /\ depths = {} => rp.depth_stencil_format = NULL
      /\ depths # {} => rp.depth_stencil_format # NULL /\ rp.depth_stencil_index = n
  <2> DEFINE last == IF depths = {} THEN NULL
                     ELSE CHOOSE i \in depths : \A j \in depths : j <= i
  <2>1. /\ rp.depth_stencil_format = IF last = NULL THEN NULL ELSE formats[last]
        /\ rp.depth_stencil_index = last
    BY <1>2 DEF RenderPass
  <2>2. CASE depths = {}
    <3> HIDE DEF rp, depths
    <3> QED
      BY <2>1, <2>2
  <2>3. CASE depths # {}
    <3> HIDE DEF rp, depths, n, formats
    <3>1. n \in depths /\ \A i \in depths : i = n
      BY <1>2, <2>3
    <3>2. (CHOOSE i \in depths : \A j \in depths : j <= i) = n
      <4>1. n \in Nat
        BY <1>1
      <4> QED
        BY <3>1, <4>1, OneOf
    <3>3. last = n /\ n # NULL
      BY <1>1, <2>3, <3>2
    <3>4. formats[n] \in DepthFormats
      BY <1>2, <3>1
    <3> QED
      BY <2>1, <2>3, <3>3, <3>4, PipelineAssumption
  <2> QED
    BY <2>2, <2>3
<1> HIDE DEF rp, fb, depths, n, formats
<1>9. ColorAttachCount(rp, fb) = m
  <2>1. CASE depths = {}
    BY <1>7, <1>8, <2>1 DEF ColorAttachCount
  <2>2. CASE depths # {}
    <3>1. n > 0
      BY <1>1, <1>2, <2>2
    <3> QED
      BY <1>7, <1>8, <2>2, <3>1 DEF ColorAttachCount
  <2> QED
    BY <2>1, <2>2
<1> HIDE DEF m, few
<1>10. pass.colors = few
  <2> DEFINE c == IF ColorAttachCount(rp, fb) < MaxColorAttachments
                  THEN ColorAttachCount(rp, fb) ELSE MaxColorAttachments
             taken == FirstFew(fb.attachments, c)
  <2>1. pass.colors = Picked(taken, {i \in DOMAIN taken : taken[i] # NULL})
    BY DEF BegunPass, rp, fb, formats
  <2>2. c = m
    BY <1>1, <1>3, <1>6, <1>9
  <2>3. taken = few
    <3>1. (IF m < Len(views) THEN m ELSE Len(views)) = m
      BY <1>1, <1>3
    <3> HIDE DEF c
    <3> QED
      BY <1>7, <2>2, <3>1 DEF FirstFew, few
  <2> HIDE DEF c, taken
  <2>4. \A i \in 1 .. Len(few) : i \in {j \in DOMAIN few : few[j] # NULL} <=> i <= m
    BY <1>1, <1>3, <1>5
  <2>5. Picked(few, {j \in DOMAIN few : few[j] # NULL}) = SubSeq(few, 1, m)
    <3> DEFINE there == {j \in DOMAIN few : few[j] # NULL}
    <3>1. m \in 0 .. Len(few) /\ few \in Seq(Nat)
      BY <1>1, <1>3, <1>5
    <3>2. \A i \in 1 .. Len(few) : i \in there <=> i <= m
      BY <2>4
    <3> HIDE DEF there
    <3>3. Picked(few, there) = SubSeq(few, 1, m)
      BY <3>1, <3>2, PickedFront
    <3> QED
      BY <3>3 DEF there
  <2>6. SubSeq(few, 1, m) = few
    BY <1>5
  <2> QED
    BY <2>1, <2>3, <2>5, <2>6
<1>11. pass.depth = IF depths = {} THEN NULL ELSE n
  <2>1. pass.depth = IF /\ rp.depth_stencil_format # NULL
                        /\ rp.depth_stencil_index <= fb.attachment_count
                     THEN fb.attachments[rp.depth_stencil_index] ELSE NULL
    BY DEF BegunPass, rp, fb, formats
  <2>2. CASE depths = {}
    BY <1>8, <2>1, <2>2
  <2>3. CASE depths # {}
    <3>1. n \in 1 .. n /\ views[n] = n /\ n <= n
      BY <1>1, <1>2, <2>3
    <3> QED
      BY <1>7, <1>8, <2>1, <2>3, <3>1
  <2> QED
    BY <2>2, <2>3
<1>12. ColorTargets(info) = m
  <2> DEFINE s == [c \in 1 .. info.colors |-> c]
             k == IF MaxColorAttachments < Len(s) THEN MaxColorAttachments ELSE Len(s)
  <2>1. BlendTargets(info) = SubSeq(s, 1, k)
    BY DEF BlendTargets, FirstFew
  <2>2. s \in Seq(Nat) /\ Len(s) = m
    BY <1>6
  <2> HIDE DEF s
  <2>3. k = m /\ Len(SubSeq(s, 1, m)) = m
    BY <1>1, <1>6, <2>2
  <2> HIDE DEF k
  <2> QED
    BY <1>6, <2>1, <2>3 DEF ColorTargets
<1>13. {pass.depth} \ {NULL} = depths /\ info.depth = (pass.depth # NULL)
  <2>1. CASE depths = {}
    BY <1>6, <1>11, <2>1
  <2>2. CASE depths # {}
    <3>1. depths = {n} /\ n # NULL
      BY <1>1, <1>2, <2>2
    <3> QED
      BY <1>6, <1>11, <2>2, <3>1
  <2> QED
    BY <2>1, <2>2
<1> QED
  BY <1>4, <1>5, <1>10, <1>12, <1>13 DEF formats, depths

-----------------------------------------------------------------------------
(* Calls                                                                   *)

LEMMA InitInv == PipelineInit => Inv
<1> SUFFICES ASSUME PipelineInit PROVE Inv
  OBVIOUS
<1>1. /\ DOMAIN modules = {} /\ shaders_held = {} /\ DOMAIN pipelines = {}
      /\ pipelines_held = {} /\ owned = {} /\ batch = << >> /\ made = << >>
  BY DEF PipelineInit, ShaderInit
<1>2. Reachable = {}
  BY <1>1, ReachableShaders
<1>3. ModulesInv
  BY <1>1, <1>2 DEF ModulesInv, ShadersOwned
<1>4. BatchInv
  BY <1>1 DEF BatchInv
<1>5. RightInv
  BY <1>1 DEF RightInv
<1>6. OwnedInv
  BY <1>1 DEF OwnedInv, PipelinesOwned, ToSet
<1> QED
  BY <1>3, <1>4, <1>5, <1>6 DEF Inv

\* Calls about pipelines leave the shader modules alone, ...
LEMMA ModulesKept ==
  ASSUME ModulesInv, UNCHANGED shaderVars
  PROVE  ModulesInv'
BY DEF ModulesInv, ShadersOwned, Reachable, Sound, shaderVars

\* ... and calls about shader modules the pipelines.
LEMMA PipelinesKept ==
  ASSUME Inv, UNCHANGED pipelineVars, unique' => unique, Idle \/ UNCHANGED shaderVars
  PROVE  BatchInv' /\ RightInv' /\ OwnedInv'
<1>1. /\ pipelines' = pipelines /\ pipelines_held' = pipelines_held /\ owned' = owned
      /\ batch' = batch /\ made' = made
  BY DEF pipelineVars
<1>2. BatchInv'
  <2>1. CASE Idle
    BY <1>1, <2>1 DEF Inv, BatchInv, Idle
  <2>2. CASE UNCHANGED shaderVars
    BY <1>1, <2>2 DEF Inv, BatchInv, Permitted, shaderVars
  <2> QED
    BY <2>1, <2>2
<1>3. RightInv'
  BY <1>1 DEF Inv, RightInv, RightStages
<1>4. OwnedInv'
  BY <1>1 DEF Inv, OwnedInv, PipelinesOwned, Idle
<1> QED
  BY <1>2, <1>3, <1>4

LEMMA CreatePipelinesInv ==
  ASSUME Inv, NEW infos \in Calls, CreatePipelines(infos)
  PROVE  Inv'
<1>1. /\ Idle /\ batch' = infos /\ \A i \in DOMAIN infos : Permitted(infos[i])
      /\ UNCHANGED << shaderVars, pipelines, pipelines_held, owned, made >>
  BY DEF CreatePipelines
<1>2. ModulesInv'
  BY <1>1, ModulesKept DEF Inv
<1>3. BatchInv'
  <2>1. \A i \in DOMAIN infos : Permitted(infos[i])'
    BY <1>1 DEF Permitted, shaderVars
  <2> QED
    BY <1>1, <2>1, PipelineAssumption DEF BatchInv
<1>4. RightInv'
  BY <1>1 DEF Inv, RightInv, RightStages, shaderVars
<1>5. OwnedInv'
  BY <1>1 DEF Inv, OwnedInv, PipelinesOwned, Idle
<1> QED
  BY <1>2, <1>3, <1>4, <1>5 DEF Inv

\* What is left of the infos of a call.
LEMMA TailPermitted ==
  ASSUME BatchInv, ~Idle, UNCHANGED shaderVars, batch' = Tail(batch)
  PROVE  /\ Head(batch) \in Infos /\ Permitted(Head(batch))
         /\ BatchInv'
<1>1. /\ batch \in Seq(Infos) /\ batch # << >> /\ Len(batch) \in Nat \ {0}
      /\ DOMAIN batch = 1 .. Len(batch)
  BY DEF BatchInv, Idle
<1>2. Head(batch) = batch[1] /\ 1 \in DOMAIN batch /\ batch[1] \in Infos
  BY <1>1
<1>3. /\ Tail(batch) \in Seq(Infos) /\ DOMAIN Tail(batch) = 1 .. Len(batch) - 1
      /\ \A i \in DOMAIN Tail(batch) : Tail(batch)[i] = batch[i + 1] /\ i + 1 \in DOMAIN batch
  BY <1>1
<1>4. \A i \in DOMAIN Tail(batch) : Permitted(Tail(batch)[i])
  BY <1>3 DEF BatchInv
<1>5. \A info : Permitted(info) => Permitted(info)'
  BY DEF Permitted, shaderVars
<1>6. BatchInv'
  <2>1. batch' \in Seq(Infos)
    BY <1>3
  <2>2. \A i \in DOMAIN batch' : Permitted(batch'[i])
    BY <1>4
  <2>3. ASSUME NEW rest, rest = batch'
        PROVE  \A i \in DOMAIN rest : Permitted(rest[i])'
    BY <1>5, <2>2, <2>3
  <2> QED
    BY <2>1, <2>3 DEF BatchInv
<1> QED
  BY <1>2, <1>4, <1>6 DEF BatchInv

LEMMA AppendSet ==
  ASSUME NEW S, NEW s \in Seq(S), NEW e \in S
  PROVE  Append(s, e) \in Seq(S) /\ ToSet(Append(s, e)) = ToSet(s) \cup {e}
<1>1. /\ Append(s, e) \in Seq(S) /\ Len(Append(s, e)) = Len(s) + 1
      /\ DOMAIN s = 1 .. Len(s) /\ Len(s) \in Nat
      /\ DOMAIN Append(s, e) = 1 .. Len(s) + 1
      /\ Append(s, e)[Len(s) + 1] = e
      /\ \A i \in 1 .. Len(s) : Append(s, e)[i] = s[i]
  OBVIOUS
<1>2. 1 .. Len(s) + 1 = (1 .. Len(s)) \cup {Len(s) + 1}
  BY <1>1
<1> QED
  BY <1>1, <1>2 DEF ToSet

LEMMA PipelineMadeInv ==
  ASSUME Inv, NEW p \in Pipelines, PipelineMade(p)
  PROVE  Inv'
<1>1. /\ ~Idle /\ p \notin DOMAIN pipelines /\ batch' = Tail(batch)
      /\ pipelines' = [a \in DOMAIN pipelines \cup {p} |->
                        IF a = p THEN MadeFrom(Head(batch)) ELSE pipelines[a]]
      /\ pipelines_held' = pipelines_held \cup {p}
      /\ UNCHANGED shaderVars
  BY DEF PipelineMade
<1>2. ModulesInv'
  BY <1>1, ModulesKept DEF Inv
<1>3. Head(batch) \in Infos /\ Permitted(Head(batch)) /\ BatchInv'
  BY <1>1, TailPermitted DEF Inv
<1>4. RightInv'
  <2> SUFFICES ASSUME unique', NEW a \in DOMAIN pipelines'
               PROVE  RightStages(pipelines'[a])
    BY DEF RightInv, RightStages
  <2>1. unique /\ \A m \in DOMAIN modules : Sound(modules[m])
    BY <1>1 DEF Inv, ModulesInv, shaderVars
  <2>2. CASE a = p
    BY <1>1, <1>3, <2>1, <2>2, MadeRight
  <2>3. CASE a # p
    BY <1>1, <2>1, <2>3 DEF Inv, RightInv
  <2> QED
    BY <2>2, <2>3
<1>5. OwnedInv'
  <2>1. /\ DOMAIN pipelines' = owned \cup ToSet(made) \cup {p}
        /\ pipelines_held' = owned \cup ToSet(made) \cup {p}
        /\ p \notin owned \cup ToSet(made) /\ owned \cap ToSet(made) = {}
    BY <1>1 DEF Inv, OwnedInv, PipelinesOwned
  <2>2. CASE Tail(batch) = << >>
    <3>1. owned' = owned \cup ToSet(made) \cup {p} /\ made' = << >>
      BY <2>2 DEF PipelineMade
    <3>2. ToSet(made') = {}
      BY <3>1 DEF ToSet
    <3> QED
      BY <2>1, <3>1, <3>2 DEF OwnedInv, PipelinesOwned, Idle
  <2>3. CASE Tail(batch) # << >>
    <3>1. made' = Append(made, p) /\ owned' = owned /\ batch' # << >>
      BY <1>1, <2>3 DEF PipelineMade
    <3>2. made' \in Seq(Pipelines) /\ ToSet(made') = ToSet(made) \cup {p}
      BY <3>1, AppendSet DEF Inv, OwnedInv
    <3> QED
      BY <2>1, <3>1, <3>2 DEF OwnedInv, PipelinesOwned, Idle
  <2> QED
    BY <2>2, <2>3
<1> QED
  BY <1>2, <1>3, <1>4, <1>5 DEF Inv

LEMMA PipelineFailsInv ==
  ASSUME Inv, PipelineFails
  PROVE  Inv'
<1>1. /\ pipelines' = [p \in DOMAIN pipelines \ ToSet(made) |-> pipelines[p]]
      /\ pipelines_held' = pipelines_held \ ToSet(made)
      /\ batch' = << >> /\ made' = << >> /\ owned' = owned
      /\ UNCHANGED shaderVars
  BY DEF PipelineFails, ReleasedOnFailure
<1>2. ModulesInv'
  BY <1>1, ModulesKept DEF Inv
<1>3. BatchInv'
  BY <1>1 DEF BatchInv
<1>4. RightInv'
  BY <1>1 DEF Inv, RightInv, RightStages, shaderVars
<1>5. ToSet(made') = {}
  BY <1>1 DEF ToSet
<1>6. OwnedInv'
  BY <1>1, <1>5 DEF Inv, OwnedInv, PipelinesOwned, Idle
<1> QED
  BY <1>2, <1>3, <1>4, <1>6 DEF Inv

LEMMA DestroyPipelineInv ==
  ASSUME Inv, NEW p \in Pipelines, DestroyPipeline(p)
  PROVE  Inv'
<1>1. /\ Idle /\ p \in owned
      /\ pipelines' = [a \in DOMAIN pipelines \ {p} |-> pipelines[a]]
      /\ pipelines_held' = pipelines_held \ {p}
      /\ owned' = owned \ {p} /\ batch' = batch /\ made' = made
      /\ UNCHANGED shaderVars
  BY DEF DestroyPipeline
<1>2. ModulesInv'
  BY <1>1, ModulesKept DEF Inv
<1>3. BatchInv'
  BY <1>1 DEF Inv, BatchInv, Permitted, shaderVars
<1>4. RightInv'
  BY <1>1 DEF Inv, RightInv, RightStages, shaderVars
<1>5. OwnedInv'
  BY <1>1 DEF Inv, OwnedInv, PipelinesOwned, Idle
<1> QED
  BY <1>2, <1>3, <1>4, <1>5 DEF Inv

LEMMA NextInv == Inv /\ [PipelineNext]_allVars => Inv'
<1> SUFFICES ASSUME Inv, [PipelineNext]_allVars PROVE Inv'
  OBVIOUS
<1>1. ASSUME NEW m \in Modules, NEW c \in Codes, NEW taken \in Outcomes(c),
             Idle, CreateShaderModule(m, c, taken), UNCHANGED pipelineVars
      PROVE  Inv'
  <2>1. ModulesInv'
    BY <1>1, CreateModuleInv DEF Inv
  <2>2. unique' => unique
    BY <1>1 DEF CreateShaderModule
  <2> QED
    BY <1>1, <2>1, <2>2, PipelinesKept DEF Inv
<1>2. ASSUME NEW m \in Modules, Idle, DestroyShaderModule(m), UNCHANGED pipelineVars
      PROVE  Inv'
  <2>1. ModulesInv'
    BY <1>2, DestroyModuleInv DEF Inv
  <2>2. unique' => unique
    BY <1>2 DEF DestroyShaderModule
  <2> QED
    BY <1>2, <2>1, <2>2, PipelinesKept DEF Inv
<1>3. ASSUME NEW infos \in Calls, CreatePipelines(infos)
      PROVE  Inv'
  BY <1>3, CreatePipelinesInv
<1>4. ASSUME NEW p \in Pipelines, PipelineMade(p)
      PROVE  Inv'
  BY <1>4, PipelineMadeInv
<1>5. CASE PipelineFails
  BY <1>5, PipelineFailsInv
<1>6. ASSUME NEW p \in Pipelines, DestroyPipeline(p)
      PROVE  Inv'
  BY <1>6, DestroyPipelineInv
<1>7. CASE UNCHANGED allVars
  <2>1. UNCHANGED shaderVars /\ UNCHANGED pipelineVars
    BY <1>7 DEF allVars
  <2>2. unique' => unique
    BY <2>1 DEF shaderVars
  <2> QED
    BY <2>1, <2>2, ModulesKept, PipelinesKept DEF Inv
<1>8. ASSUME NEW m \in Modules, NEW c \in Codes,
             CreateShaderModuleFails(m, c), UNCHANGED pipelineVars
      PROVE  Inv'
  BY <1>7, <1>8 DEF CreateShaderModuleFails, allVars
<1> QED
  BY <1>1, <1>2, <1>3, <1>4, <1>5, <1>6, <1>7, <1>8 DEF PipelineNext

-----------------------------------------------------------------------------
(* What modules and pipelines are made of                                  *)

ModuleTyped(module) ==
  /\ module.code \in Codes
  /\ \A em \in Stages :
       module.stage_shaders[em] \in DOMAIN module.code.entries \cup {NULL}

\* A pipeline is described to WebGPU as its info says.
Described(pipeline) ==
  LET info == pipeline.info
  IN /\ info \in Infos
     /\ info.graphics =>
          /\ pipeline.buffers = Buffers(info) /\ pipeline.depth = info.depth
          /\ pipeline.targets = IF Len(info.stages) > 1 THEN ColorTargets(info) ELSE 0

MadeInv ==
  /\ owned \subseteq Pipelines
  /\ \A m \in DOMAIN modules : ModuleTyped(modules[m])
  /\ \A p \in DOMAIN pipelines : Described(pipelines[p])

\* There is a largest of some numbers with a bound.
LEMMA HasLargest ==
  ASSUME NEW n \in Nat, NEW S \in SUBSET (1 .. n), S # {}
  PROVE  \E i \in S : \A j \in S : j <= i
<1> SUFFICES ASSUME \A i \in S : \E j \in S : j > i PROVE FALSE
  OBVIOUS
<1> DEFINE I == {m \in Nat : \E j \in S : j > m}
<1>1. 0 \in I
  <2>1. PICK i \in S : i \in 1 .. n
    OBVIOUS
  <2>2. i > 0
    BY <2>1
  <2> QED
    BY <2>2
<1>2. ASSUME NEW m \in Nat, m \in I PROVE m + 1 \in I
  <2>1. PICK j \in S : j > m
    BY <1>2
  <2>2. PICK k \in S : k > j
    BY <2>1
  <2>3. k > m + 1
    BY <2>1, <2>2
  <2> QED
    BY <2>3
<1>3. \A m \in Nat : m \in I
  <2> HIDE DEF I
  <2> QED
    BY <1>1, <1>2, SetInduction
<1>4. PICK j \in S : j > n
  <2>1. n \in I
    BY <1>3
  <2> QED
    BY <2>1
<1>5. j \in 1 .. n
  OBVIOUS
<1> QED
  BY <1>4, <1>5

\* The module that a stage has, if it has one, was made from an entry point
\* of the code, also if there are several for the stage.
LEMMA CreatedTyped ==
  ASSUME NEW m, NEW c \in Codes, NEW taken, CreateShaderModule(m, c, taken)
  PROVE  ModuleTyped(Created(c, taken))
<1>1. ASSUME NEW em \in Stages
      PROVE  StageShader(c, taken, em) \in DOMAIN c.entries \cup {NULL}
  <2> DEFINE given == {i \in taken : c.entries[i].model = em}
  <2>1. CASE c.kind # "spirv" \/ given = {}
    BY <2>1 DEF StageShader
  <2>2. CASE c.kind = "spirv" /\ given # {}
    <3>1. given \subseteq 1 .. Len(c.entries) /\ Len(c.entries) \in Nat
      BY <2>2 DEF CreateShaderModule, Transpiled
    <3>2. StageShader(c, taken, em) = CHOOSE i \in given : \A j \in given : j <= i
      BY <2>2 DEF StageShader
    <3> HIDE DEF given
    <3>3. (CHOOSE i \in given : \A j \in given : j <= i) \in given
      BY <2>2, <3>1, HasLargest
    <3> QED
      BY <3>1, <3>2, <3>3
  <2> QED
    BY <2>1, <2>2
<1>2. Created(c, taken).code = c
  BY DEF Created
<1>3. \A em \in Stages : Created(c, taken).stage_shaders[em] = StageShader(c, taken, em)
  BY DEF Created
<1> QED
  BY <1>1, <1>2, <1>3 DEF ModuleTyped

LEMMA MadeDescribed ==
  ASSUME NEW info \in Infos PROVE Described(MadeFrom(info))
<1>1. CASE info.graphics
  <2>1. MadeFrom(info) = GraphicsPipeline(info)
    BY <1>1 DEF MadeFrom
  <2>2. /\ GraphicsPipeline(info).info = info
        /\ GraphicsPipeline(info).buffers = Buffers(info)
        /\ GraphicsPipeline(info).depth = info.depth
        /\ GraphicsPipeline(info).targets =
             IF Len(info.stages) > 1 THEN ColorTargets(info) ELSE 0
    BY DEF GraphicsPipeline
  <2> QED
    BY <2>1, <2>2 DEF Described
<1>2. CASE ~info.graphics
  <2>1. MadeFrom(info).info = info
    BY <1>2 DEF MadeFrom, ComputePipeline
  <2> QED
    BY <1>2, <2>1 DEF Described
<1> QED
  BY <1>1, <1>2

LEMMA MadeStep == Inv /\ MadeInv /\ [PipelineNext]_allVars => MadeInv'
<1> SUFFICES ASSUME Inv, MadeInv, [PipelineNext]_allVars PROVE MadeInv'
  OBVIOUS
<1> USE DEF MadeInv
<1>0. \A x : /\ ModuleTyped(x) <=> ModuleTyped(x)'
             /\ Described(x) <=> Described(x)'
  BY DEF ModuleTyped, Described
<1>1. ASSUME NEW m \in Modules, NEW c \in Codes, NEW taken \in Outcomes(c),
             Idle, CreateShaderModule(m, c, taken), UNCHANGED pipelineVars
      PROVE  MadeInv'
  <2>1. ModuleTyped(Created(c, taken))
    BY <1>1, CreatedTyped
  <2>2. /\ DOMAIN modules' = DOMAIN modules \cup {m} /\ modules'[m] = Created(c, taken)
        /\ \A a \in DOMAIN modules : a # m => modules'[a] = modules[a]
    BY <1>1 DEF CreateShaderModule
  <2> QED
    BY <1>1, <2>1, <2>2 DEF pipelineVars
<1>2. ASSUME NEW m \in Modules, Idle, DestroyShaderModule(m), UNCHANGED pipelineVars
      PROVE  MadeInv'
  BY <1>2 DEF DestroyShaderModule, pipelineVars
<1>3. ASSUME NEW infos \in Calls, CreatePipelines(infos)
      PROVE  MadeInv'
  BY <1>3 DEF CreatePipelines, shaderVars
<1>4. ASSUME NEW p \in Pipelines, PipelineMade(p)
      PROVE  MadeInv'
  <2>1. /\ ~Idle /\ batch' = Tail(batch) /\ UNCHANGED shaderVars
        /\ pipelines' = [a \in DOMAIN pipelines \cup {p} |->
                          IF a = p THEN MadeFrom(Head(batch)) ELSE pipelines[a]]
    BY <1>4 DEF PipelineMade
  <2>2. Head(batch) \in Infos
    BY <2>1, TailPermitted DEF Inv
  <2>3. Described(MadeFrom(Head(batch)))
    BY <2>2, MadeDescribed
  <2>4. owned' \subseteq Pipelines
    <3>1. ToSet(made) \subseteq Pipelines
      BY DEF Inv, OwnedInv, ToSet
    <3> QED
      BY <1>4, <3>1 DEF PipelineMade
  <2> QED
    BY <2>1, <2>3, <2>4 DEF shaderVars
<1>5. CASE PipelineFails
  BY <1>5 DEF PipelineFails, shaderVars
<1>6. ASSUME NEW p \in Pipelines, DestroyPipeline(p)
      PROVE  MadeInv'
  BY <1>6 DEF DestroyPipeline, shaderVars
<1>7. CASE UNCHANGED allVars
  BY <1>7 DEF allVars, shaderVars, pipelineVars
<1>8. ASSUME NEW m \in Modules, NEW c \in Codes,
             CreateShaderModuleFails(m, c), UNCHANGED pipelineVars
      PROVE  MadeInv'
  BY <1>7, <1>8 DEF CreateShaderModuleFails, allVars
<1> QED
  BY <1>1, <1>2, <1>3, <1>4, <1>5, <1>6, <1>7, <1>8 DEF PipelineNext

LEMMA MadeHolds == PipelineSpec => [](Inv /\ MadeInv)
<1>1. PipelineInit => MadeInv
  BY DEF PipelineInit, ShaderInit, MadeInv
<1> QED
  BY <1>1, InitInv, NextInv, MadeStep, PTL DEF PipelineSpec

-----------------------------------------------------------------------------
(* Theorems                                                                *)

\* The invariant that the theorems below follow from: modules of code without
\* two entry points of one stage are sound and their WebGPU modules found
\* again, a call in progress has live shader modules, pipelines are owned.
THEOREM PipelinesInvariant == PipelineSpec => []Inv
BY InitInv, NextInv, PTL DEF PipelineSpec

\* No WebGPU shader module is lost, whatever entry points a creation failed
\* for, while no code has had two entry points of one stage.
THEOREM ShadersNotLost == PipelineSpec => []ShadersOwned
<1>1. Inv => ShadersOwned
  BY DEF Inv, ModulesInv, ShadersOwned
<1> QED
  BY <1>1, PipelinesInvariant, PTL

\* No pipeline is lost or released too early, however long a call is and
\* wherever it fails.
THEOREM PipelinesNotLost == PipelineSpec => []PipelinesOwned
<1>1. Inv => PipelinesOwned
  BY DEF Inv, OwnedInv
<1> QED
  BY <1>1, PipelinesInvariant, PTL

\* No stage of a pipeline gets a shader without its entry point.
THEOREM StagesGetTheirShaders == PipelineSpec => []RightShader
<1>1. Inv => RightShader
  BY DEF Inv, OwnedInv, PipelinesOwned, RightInv, RightStages, RightShader
<1> QED
  BY <1>1, PipelinesInvariant, PTL

\* What modules and pipelines hold, for any code, also with several entry
\* points of one stage; and no table of targets is overrun.
THEOREM PipelinesTyped == PipelineSpec => []PipelineTypeOK
<1>1. ASSUME NEW info \in Infos PROVE ColorTargets(info) <= MaxColorAttachments
  <2> DEFINE s == [c \in 1 .. info.colors |-> c]
             n == IF MaxColorAttachments < Len(s) THEN MaxColorAttachments ELSE Len(s)
  <2>1. /\ info.colors \in Nat
        /\ MaxColorAttachments \in Nat /\ 1 <= MaxColorAttachments /\ 0 <= MaxColorAttachments
    BY InfoTypes, PipelineAssumption
  <2>2. s \in Seq(Nat) /\ Len(s) = info.colors
    BY <2>1
  <2> HIDE DEF s
  <2>3. n \in Nat /\ n <= Len(s) /\ n <= MaxColorAttachments
    BY <2>1, <2>2
  <2>4. BlendTargets(info) = SubSeq(s, 1, n)
    BY DEF BlendTargets, FirstFew, s
  <2> HIDE DEF n
  <2>5. Len(SubSeq(s, 1, n)) = n
    BY <2>2, <2>3
  <2>6. ColorTargets(info) = IF info.colors = 0 THEN 1 ELSE n
    BY <2>4, <2>5 DEF ColorTargets
  <2> QED
    BY <2>1, <2>3, <2>6
<1>2. Inv /\ MadeInv => PipelineTypeOK
  <2> SUFFICES ASSUME Inv, MadeInv PROVE PipelineTypeOK
    OBVIOUS
  <2>1. ASSUME NEW p \in owned, pipelines[p].info.graphics
        PROVE  pipelines[p].targets <= MaxColorAttachments
    <3>1. p \in DOMAIN pipelines
      BY DEF Inv, OwnedInv, PipelinesOwned
    <3>2. /\ pipelines[p].info \in Infos
          /\ pipelines[p].targets = IF Len(pipelines[p].info.stages) > 1
                                    THEN ColorTargets(pipelines[p].info) ELSE 0
      BY <2>1, <3>1 DEF MadeInv, Described
    <3>3. ColorTargets(pipelines[p].info) <= MaxColorAttachments /\ 0 <= MaxColorAttachments
      BY <1>1, <3>2, PipelineAssumption
    <3> QED
      BY <3>2, <3>3
  <2> QED
    BY <2>1 DEF PipelineTypeOK, Inv, OwnedInv, MadeInv, ModuleTyped
<1> QED
  BY <1>2, MadeHolds, PTL

\* Each vertex buffer is described with the attributes of its binding, however
\* many there are, while no other binding has any.
THEOREM BuffersAreDescribed == PipelineSpec => []AttributesKept
<1>1. Inv /\ MadeInv => AttributesKept
  <2> SUFFICES ASSUME Inv, MadeInv, NEW p \in owned, pipelines[p].info.graphics,
                      NEW b \in DOMAIN pipelines[p].info.bindings,
                      \A c \in DOMAIN pipelines[p].info.bindings \ {b} :
                        AttributesOf(pipelines[p].info, c) = << >>
               PROVE  pipelines[p].buffers[b] = AttributesOf(pipelines[p].info, b)
    BY DEF AttributesKept, AttributesOf, Own
  <2> DEFINE info == pipelines[p].info
  <2>1. p \in DOMAIN pipelines
    BY DEF Inv, OwnedInv, PipelinesOwned
  <2>2. info \in Infos /\ pipelines[p].buffers = Buffers(info)
    BY <2>1 DEF MadeInv, Described
  <2> QED
    BY <2>2, OnlyBuffer
<1> QED
  BY <1>1, MadeHolds, PTL

\* A pipeline made for a render pass can be used in the pass begun with it,
\* with any number of attachments that the code supports: three places count
\* colours each in its own way, and agree.
THEOREM PipelinesFitPasses == PipelineSpec => []PassMatchesPipeline
<1>1. Inv /\ MadeInv => PassMatchesPipeline
  <2> SUFFICES ASSUME Inv, MadeInv, NEW p \in owned, NEW info, info = pipelines[p].info,
                      info.graphics, Consistent(info), Arranged(info.formats)
               PROVE  /\ PassFor(info).colors = Colors(info.formats)
                      /\ Len(PassFor(info).colors) = pipelines[p].targets
                      /\ {PassFor(info).depth} \ {NULL} = Depths(info.formats)
                      /\ pipelines[p].depth = (PassFor(info).depth # NULL)
    BY DEF PassMatchesPipeline, FitsPass, PassFor, Views
  <2>1. p \in DOMAIN pipelines
    BY DEF Inv, OwnedInv, PipelinesOwned
  <2>2. /\ info \in Infos /\ pipelines[p].depth = info.depth
        /\ pipelines[p].targets = IF Len(info.stages) > 1 THEN ColorTargets(info) ELSE 0
    BY <2>1 DEF MadeInv, Described
  <2>3. pipelines[p].targets = ColorTargets(info)
    BY <2>2 DEF Consistent
  <2> QED
    BY <2>2, <2>3, MatchingPass
<1> QED
  BY <1>1, MadeHolds, PTL

-----------------------------------------------------------------------------
(* The buffer of the generator                                             *)

HIDE ShaderAssumption

\* What doubling a capacity until it is enough computes.
Doubles(f, required) ==
  \A c \in Nat : f[c] = IF c >= required THEN c ELSE f[2 * c]

LEMMA DoublingEnds ==
  ASSUME NEW required \in Nat \ {0}
  PROVE  \E f \in [Nat -> Nat] : Doubles(f, required)
<1> DEFINE Upto(f, d) == \A c \in Nat \ {0} : c + d >= required =>
                           f[c] = IF c >= required THEN c ELSE f[2 * c]
           I == {d \in Nat : \E f \in [Nat -> Nat] : Upto(f, d)}
<1>1. 0 \in I
  <2> DEFINE f == [c \in Nat |-> c]
  <2>1. f \in [Nat -> Nat] /\ Upto(f, 0)
    OBVIOUS
  <2> QED
    BY <2>1
<1>2. ASSUME NEW d \in Nat, NEW f \in [Nat -> Nat], Upto(f, d)
      PROVE  \E g \in [Nat -> Nat] : Upto(g, d + 1)
  <2> DEFINE g == [c \in Nat |-> IF c + d + 1 = required THEN f[2 * c] ELSE f[c]]
  <2>1. \A c \in Nat : 2 * c \in Nat
    OBVIOUS
  <2>2. g \in [Nat -> Nat]
    BY <2>1
  <2>3. ASSUME NEW c \in Nat \ {0}, c + (d + 1) >= required
        PROVE  g[c] = IF c >= required THEN c ELSE g[2 * c]
    <3>1. 2 * c \in Nat /\ 2 * c > c /\ c \in Nat
      OBVIOUS
    <3>2. g[c] = (IF c + d + 1 = required THEN f[2 * c] ELSE f[c])
          /\ g[2 * c] = f[2 * c]
      BY <2>3, <3>1
    <3> HIDE DEF g
    <3>3. CASE c + d + 1 = required
      BY <3>1, <3>2, <3>3
    <3>4. CASE c + d + 1 # required
      <4>1. c + d >= required
        BY <2>3, <3>1, <3>4
      <4> QED
        BY <1>2, <3>2, <3>4, <4>1
    <3> QED
      BY <3>3, <3>4
  <2> QED
    BY <2>2, <2>3
<1>3. \A d \in Nat : d \in I
  <2>1. ASSUME NEW d \in Nat, d \in I PROVE d + 1 \in I
    <3> HIDE DEF Upto
    <3>1. PICK f \in [Nat -> Nat] : Upto(f, d)
      BY <2>1
    <3>2. \E g \in [Nat -> Nat] : Upto(g, d + 1)
      BY <1>2, <3>1
    <3> QED
      BY <3>2
  <2> HIDE DEF I
  <2> QED
    BY <1>1, <2>1, SetInduction
<1>4. PICK f \in [Nat -> Nat] : Upto(f, required)
  BY <1>3
<1>5. ASSUME NEW c \in Nat
      PROVE  f[c] = IF c >= required THEN c ELSE f[2 * c]
  <2>1. CASE c = 0
    <3>1. 2 * c = c /\ ~(c >= required)
      BY <2>1
    <3> QED
      BY <3>1
  <2>2. CASE c # 0
    <3>1. c \in Nat \ {0} /\ c + required >= required
      BY <2>2
    <3> QED
      BY <1>4, <3>1
  <2> QED
    BY <2>1, <2>2
<1> QED
  BY <1>5 DEF Doubles

LEMMA DoublingIsEnough ==
  ASSUME NEW required \in Nat \ {0}, NEW f, Doubles(f, required), NEW c \in Nat \ {0}
  PROVE  f[c] \in Nat /\ f[c] >= required
<1> DEFINE I == {d \in Nat : \A k \in Nat \ {0} : k + d >= required =>
                              f[k] \in Nat /\ f[k] >= required}
<1>1. 0 \in I
  BY DEF Doubles
<1>2. ASSUME NEW d \in Nat, d \in I PROVE d + 1 \in I
  <2>1. ASSUME NEW k \in Nat \ {0}, k + (d + 1) >= required
        PROVE  f[k] \in Nat /\ f[k] >= required
    <3>1. CASE k >= required
      BY <3>1 DEF Doubles
    <3>2. CASE ~(k >= required)
      <4>1. 2 * k \in Nat \ {0} /\ 2 * k + d >= required
        BY <2>1
      <4>2. f[2 * k] \in Nat /\ f[2 * k] >= required
        BY <1>2, <4>1
      <4>3. f[k] = f[2 * k]
        BY <3>2 DEF Doubles
      <4> QED
        BY <4>2, <4>3
    <3> QED
      BY <3>1, <3>2
  <2> QED
    BY <2>1
<1>3. required \in I
  <2> HIDE DEF I
  <2> QED
    BY <1>1, <1>2, SetInduction
<1> QED
  BY <1>3

LEMMA GrownIsEnough ==
  ASSUME cursor \in Nat, capacity \in Nat
  PROVE  /\ Grown \in Nat /\ Grown >= Required
         /\ Required = cursor + PieceSize + 1 /\ PieceSize \in Nat
<1> DEFINE first == IF capacity = 0 THEN InitialCapacity ELSE 2 * capacity
           r == Required
           f == CHOOSE f : f = [c \in Nat |-> IF c >= r THEN c ELSE f[2 * c]]
<1>1. r \in Nat \ {0} /\ first \in Nat \ {0} /\ PieceSize \in Nat
  BY GeneratorAssumption DEF Required
<1>2. Grown = IF r > capacity THEN f[first] ELSE capacity
  BY DEF Grown
<1> HIDE DEF first, r
<1>3. PICK g \in [Nat -> Nat] : Doubles(g, r)
  BY <1>1, DoublingEnds
<1>4. g = [c \in Nat |-> IF c >= r THEN c ELSE g[2 * c]]
  BY <1>3 DEF Doubles
<1>5. f = [c \in Nat |-> IF c >= r THEN c ELSE f[2 * c]]
  BY <1>4
<1> HIDE DEF f
<1>6. Doubles(f, r)
  BY <1>5 DEF Doubles
<1>7. f[first] \in Nat /\ f[first] >= r
  BY <1>1, <1>6, DoublingIsEnough
<1> QED
  BY <1>1, <1>2, <1>7 DEF r, Required

-----------------------------------------------------------------------------
(* What one shader leaves behind                                           *)

\* Everything that is held for a shader, by the step that comes next for it.
HeldInv ==
  /\ step \in {"parse", "allocate", "write"}
  /\ step = "parse" => allocated = {}
  /\ step = "allocate" => allocated = {"module", "functions"}
  /\ step = "write" => allocated \subseteq {"module", "functions", "generator", "buffer"}

BufferInv ==
  cursor \in Nat /\ capacity \in Nat /\ WithinBuffer

LEMMA BufferStep == BufferInv /\ [CompileNext]_compileVars => BufferInv'
<1> SUFFICES ASSUME BufferInv, [CompileNext]_compileVars PROVE BufferInv'
  OBVIOUS
<1> USE DEF BufferInv, WithinBuffer
<1>1. /\ Grown \in Nat /\ Grown >= Required
      /\ Required = cursor + PieceSize + 1 /\ PieceSize \in Nat
  BY GrownIsEnough
<1>2. CASE Emit
  BY <1>1, <1>2 DEF Emit
<1>3. CASE EmitFails
  <2>1. PICK n \in 0 .. PieceSize - 1, grown \in {capacity, Grown} :
          /\ n > 0 => cursor + n + 1 <= grown
          /\ n = 0 => grown = capacity
          /\ cursor' = cursor + n /\ capacity' = grown
    BY <1>3 DEF EmitFails
  <2> QED
    BY <1>1, <2>1
<1>4. ASSUME NEW ps, NextText(ps) PROVE BufferInv'
  BY <1>4 DEF NextText
<1>5. CASE UNCHANGED << cursor, capacity >>
  BY <1>5
<1>6. CASE NotParsed \/ Parsed \/ GeneratorOutOfMemory \/ UNCHANGED compileVars
  BY <1>5, <1>6 DEF NotParsed, Parsed, GeneratorOutOfMemory, compileVars, generatorVars
<1> QED
  BY <1>2, <1>3, <1>4, <1>6
     DEF CompileNext, StartGenerator, WritePiece, Finish

LEMMA HeldStep == HeldInv /\ [CompileNext]_compileVars => HeldInv'
<1> SUFFICES ASSUME HeldInv, [CompileNext]_compileVars PROVE HeldInv'
  OBVIOUS
<1> USE DEF HeldInv
<1>1. CASE NotParsed
  BY <1>1 DEF NotParsed, NextInfo
<1>2. CASE Parsed
  BY <1>2 DEF Parsed
<1>3. CASE GeneratorOutOfMemory
  BY <1>3 DEF GeneratorOutOfMemory, NextInfo, ParsedFreed
<1>4. CASE StartGenerator
  BY <1>4 DEF StartGenerator
<1>5. CASE WritePiece
  BY <1>5 DEF WritePiece
<1>6. ASSUME NEW result, Finish(result) PROVE HeldInv'
  BY <1>6 DEF Finish, NextInfo, ParsedFreed
<1>7. CASE UNCHANGED compileVars
  BY <1>7 DEF compileVars, batchVars
<1> QED
  BY <1>1, <1>2, <1>3, <1>4, <1>5, <1>6, <1>7 DEF CompileNext

\* What the generator has written, and the zero behind it, lie within its
\* buffer, whatever it writes and whenever it cannot grow.
THEOREM WritesWithinBuffer == CompileSpec => []WithinBuffer
<1>1. CompileInit => BufferInv
  BY DEF CompileInit, EmptyGenerator, BufferInv, WithinBuffer
<1>2. BufferInv => WithinBuffer
  BY DEF BufferInv
<1> QED
  BY <1>1, <1>2, BufferStep, PTL DEF CompileSpec

\* Wherever the compilation of one shader ends, nothing of it is held when the
\* next one begins.
THEOREM NothingHeldBetween == CompileSpec => []BatchCleansUp
<1>1. CompileInit => HeldInv
  BY DEF CompileInit, HeldInv
<1>2. HeldInv => BatchCleansUp
  BY DEF HeldInv, BatchCleansUp
<1> QED
  BY <1>1, <1>2, HeldStep, PTL DEF CompileSpec


-----------------------------------------------------------------------------
(* What sequences have                                                     *)

LEMMA FunctionIsSeq ==
  ASSUME NEW n \in Nat, NEW T, NEW f \in [1 .. n -> T]
  PROVE  f \in Seq(T) /\ Len(f) = n
OBVIOUS

LEMMA SetOfSeq ==
  ASSUME NEW S, NEW s \in Seq(S)
  PROVE  ToSet(s) \subseteq S
<1>1. \A i \in DOMAIN s : s[i] \in S
  OBVIOUS
<1> QED
  BY <1>1 DEF ToSet

LEMMA ItsOwnSet ==
  ASSUME NEW S, NEW s \in Seq(S)
  PROVE  s \in Seq(ToSet(s))
<1>1. s \in [1 .. Len(s) -> ToSet(s)] /\ Len(s) \in Nat
  BY DEF ToSet
<1> QED
  BY <1>1

LEMMA ConcatSet ==
  ASSUME NEW S, NEW a \in Seq(S), NEW b \in Seq(S)
  PROVE  a \o b \in Seq(S) /\ ToSet(a \o b) = ToSet(a) \cup ToSet(b)
<1> DEFINE t == a \o b
<1>1. /\ t \in Seq(S) /\ DOMAIN t = 1 .. Len(a) + Len(b)
      /\ DOMAIN a = 1 .. Len(a) /\ DOMAIN b = 1 .. Len(b)
      /\ Len(a) \in Nat /\ Len(b) \in Nat
      /\ \A i \in DOMAIN t : t[i] = IF i <= Len(a) THEN a[i] ELSE b[i - Len(a)]
  OBVIOUS
<1> HIDE DEF t
<1>2. ASSUME NEW i \in DOMAIN t PROVE t[i] \in ToSet(a) \cup ToSet(b)
  <2>1. CASE i <= Len(a)
    BY <1>1, <2>1 DEF ToSet
  <2>2. CASE ~(i <= Len(a))
    <3>1. i - Len(a) \in DOMAIN b
      BY <1>1, <2>2
    <3> QED
      BY <1>1, <2>2, <3>1 DEF ToSet
  <2> QED
    BY <2>1, <2>2
<1>3. ASSUME NEW i \in DOMAIN a PROVE a[i] \in ToSet(t)
  <2>1. i \in DOMAIN t /\ t[i] = a[i]
    BY <1>1
  <2> QED
    BY <2>1 DEF ToSet
<1>4. ASSUME NEW i \in DOMAIN b PROVE b[i] \in ToSet(t)
  <2>1. i + Len(a) \in DOMAIN t /\ ~(i + Len(a) <= Len(a)) /\ (i + Len(a)) - Len(a) = i
    BY <1>1
  <2>2. t[i + Len(a)] = b[i]
    BY <1>1, <2>1
  <2> QED
    BY <2>1, <2>2 DEF ToSet
<1>5. ToSet(t) = ToSet(a) \cup ToSet(b)
  BY <1>2, <1>3, <1>4 DEF ToSet
<1> QED
  BY <1>1, <1>5 DEF t

LEMMA PickedSet ==
  ASSUME NEW S, NEW s \in Seq(S), NEW places
  PROVE  ToSet(Picked(s, places)) = {s[i] : i \in places \cap DOMAIN s}
<1>1. PICK k \in [0 .. Len(s) -> Seq(S)] : Picks(k, s, places)
  BY PickedLoop
<1> DEFINE n == Len(s)
           Found(i) == {s[j] : j \in places \cap (1 .. i)}
           I == {i \in Nat : i <= n => ToSet(k[i]) = Found(i)}
<1>2. n \in Nat /\ DOMAIN s = 1 .. n
  OBVIOUS
<1>3. 0 \in I
  <2>1. k[0] = << >> /\ 1 .. 0 = {}
    BY <1>1 DEF Picks
  <2>2. ToSet(<< >>) = {}
    BY DEF ToSet
  <2> QED
    BY <2>1, <2>2
<1>4. ASSUME NEW i \in Nat, i + 1 <= n, ToSet(k[i]) = Found(i)
      PROVE  ToSet(k[i + 1]) = Found(i + 1)
  <2>1. i + 1 \in 1 .. n /\ (i + 1) - 1 = i /\ i \in 0 .. n
        /\ 1 .. i + 1 = (1 .. i) \cup {i + 1}
    BY <1>2, <1>4
  <2>2. k[i + 1] = IF i + 1 \in places THEN Append(k[i], s[i + 1]) ELSE k[i]
    BY <1>1, <2>1 DEF Picks
  <2>3. CASE i + 1 \in places
    <3>1. k[i] \in Seq(S) /\ << s[i + 1] >> \in Seq(S)
          /\ Append(k[i], s[i + 1]) = k[i] \o << s[i + 1] >>
      BY <1>2, <2>1
    <3>2. ToSet(<< s[i + 1] >>) = {s[i + 1]}
      BY DEF ToSet
    <3>3. ToSet(k[i + 1]) = Found(i) \cup {s[i + 1]}
      <4> HIDE DEF Found
      <4>1. ToSet(k[i] \o << s[i + 1] >>) = ToSet(k[i]) \cup ToSet(<< s[i + 1] >>)
        BY <3>1, ConcatSet
      <4> QED
        BY <1>4, <2>2, <2>3, <3>1, <3>2, <4>1
    <3> QED
      BY <2>1, <2>3, <3>3
  <2>4. CASE i + 1 \notin places
    <3>1. places \cap (1 .. i + 1) = places \cap (1 .. i)
      BY <2>1, <2>4
    <3> QED
      BY <1>4, <2>2, <2>4, <3>1
  <2> QED
    BY <2>3, <2>4
<1>5. \A i \in Nat : i \in I
  <2> HIDE DEF Found
  <2>1. \A i \in Nat : i \in I => i + 1 \in I
    BY <1>2, <1>4
  <2> HIDE DEF I
  <2> QED
    BY <1>3, <2>1, SetInduction
<1>6. ToSet(k[n]) = Found(n)
  <2> HIDE DEF Found
  <2>1. n <= n /\ n \in I
    BY <1>2, <1>5
  <2> QED
    BY <2>1
<1> QED
  BY <1>1, <1>2, <1>6 DEF Picks

LEMMA PickedBack ==
  ASSUME NEW S, NEW s \in Seq(S), NEW m \in 0 .. Len(s), NEW places,
         \A i \in 1 .. Len(s) : i \in places <=> i > m
  PROVE  Picked(s, places) = SubSeq(s, m + 1, Len(s))
<1>1. PICK k \in [0 .. Len(s) -> Seq(S)] : Picks(k, s, places)
  BY PickedLoop
<1> DEFINE n == Len(s)
           I == {i \in Nat : i <= n => k[i] = SubSeq(s, m + 1, i)}
<1>2. n \in Nat /\ m \in Nat
  OBVIOUS
<1>3. 0 \in I
  <2>1. SubSeq(s, m + 1, 0) = << >>
    BY <1>2
  <2> QED
    BY <1>1, <2>1 DEF Picks
<1>4. ASSUME NEW i \in Nat, i + 1 <= n, k[i] = SubSeq(s, m + 1, i)
      PROVE  k[i + 1] = SubSeq(s, m + 1, i + 1)
  <2>1. i + 1 \in 1 .. n /\ (i + 1) - 1 = i
    BY <1>2, <1>4
  <2>2. k[i + 1] = IF i + 1 > m THEN Append(k[i], s[i + 1]) ELSE k[i]
    BY <1>1, <2>1 DEF Picks
  <2>3. CASE i + 1 > m
    <3>1. Append(SubSeq(s, m + 1, i), s[i + 1]) = SubSeq(s, m + 1, i + 1)
      BY <1>2, <2>1, <2>3
    <3> QED
      BY <1>4, <2>2, <2>3, <3>1
  <2>4. CASE ~(i + 1 > m)
    <3>1. SubSeq(s, m + 1, i) = << >> /\ SubSeq(s, m + 1, i + 1) = << >>
      BY <1>2, <2>4
    <3> QED
      BY <1>4, <2>2, <2>4, <3>1
  <2> QED
    BY <2>3, <2>4
<1>5. \A i \in Nat : i \in I
  <2>1. \A i \in Nat : i \in I => i + 1 \in I
    BY <1>2, <1>4
  <2> HIDE DEF I
  <2> QED
    BY <1>3, <2>1, SetInduction
<1>6. k[n] = SubSeq(s, m + 1, n)
  <2>1. n <= n /\ n \in I
    <3> HIDE DEF I
    <3> QED
      BY <1>2, <1>5
  <2> QED
    BY <2>1
<1> QED
  BY <1>1, <1>6 DEF Picks

\* What is kept is in the order in which it was.
KeptInOrder(s, places, kept, q) ==
  \E i \in places \cap DOMAIN s :
    /\ kept[q] = s[i]
    /\ \A j \in places \cap (1 .. i - 1) : \E m \in 1 .. q - 1 : kept[m] = s[j]

LEMMA PickedOrder ==
  ASSUME NEW S, NEW s \in Seq(S), NEW places, NEW q \in DOMAIN Picked(s, places)
  PROVE  KeptInOrder(s, places, Picked(s, places), q)
<1>1. PICK k \in [0 .. Len(s) -> Seq(S)] : Picks(k, s, places)
  BY PickedLoop
<1> DEFINE n == Len(s)
           All(a, i) == \A j \in places \cap (1 .. i) : \E m \in 1 .. Len(a) : a[m] = s[j]
           Ordered(a) == \A m \in 1 .. Len(a) : KeptInOrder(s, places, a, m)
           I == {i \in Nat : i <= n => All(k[i], i) /\ Ordered(k[i])}
<1>2. n \in Nat /\ DOMAIN s = 1 .. n
  OBVIOUS
<1>3. 0 \in I
  <2>1. k[0] = << >> /\ 1 .. 0 = {} /\ Len(<< >>) = 0
    BY <1>1 DEF Picks
  <2> QED
    BY <2>1
<1>4. ASSUME NEW i \in Nat, i + 1 <= n, All(k[i], i), Ordered(k[i])
      PROVE  All(k[i + 1], i + 1) /\ Ordered(k[i + 1])
  <2> DEFINE a == k[i]
             b == k[i + 1]
  <2>1. /\ i + 1 \in 1 .. n /\ (i + 1) - 1 = i /\ i \in 0 .. n
        /\ 1 .. i + 1 = (1 .. i) \cup {i + 1}
    BY <1>2, <1>4
  <2>2. b = IF i + 1 \in places THEN Append(a, s[i + 1]) ELSE a
    BY <1>1, <2>1 DEF Picks
  <2>3. a \in Seq(S) /\ Len(a) \in Nat
    BY <2>1
  <2>4. CASE i + 1 \in places
    <3>1. /\ Len(b) = Len(a) + 1 /\ b[Len(a) + 1] = s[i + 1]
          /\ \A m \in 1 .. Len(a) : b[m] = a[m]
      BY <1>2, <2>1, <2>2, <2>3, <2>4
    <3> HIDE DEF a, b
    <3>2. All(b, i + 1)
      <4> SUFFICES ASSUME NEW j \in places \cap (1 .. i + 1)
                   PROVE  \E m \in 1 .. Len(b) : b[m] = s[j]
        OBVIOUS
      <4>1. CASE j = i + 1
        BY <2>3, <3>1, <4>1
      <4>2. CASE j # i + 1
        <5>1. PICK m \in 1 .. Len(a) : a[m] = s[j]
          BY <1>4, <2>1, <4>2 DEF a
        <5>2. m \in 1 .. Len(b) /\ b[m] = s[j]
          BY <2>3, <3>1, <5>1
        <5> QED
          BY <5>2
      <4> QED
        BY <4>1, <4>2
    <3>3. ASSUME NEW m \in 1 .. Len(b) PROVE KeptInOrder(s, places, b, m)
      <4>1. CASE m = Len(a) + 1
        <5>1. i + 1 \in places \cap DOMAIN s /\ b[m] = s[i + 1]
          BY <1>2, <2>1, <2>4, <3>1, <4>1
        <5>2. ASSUME NEW j \in places \cap (1 .. (i + 1) - 1)
              PROVE  \E x \in 1 .. m - 1 : b[x] = s[j]
          <6>1. PICK x \in 1 .. Len(a) : a[x] = s[j]
            BY <1>4, <2>1 DEF a
          <6>2. x \in 1 .. m - 1 /\ b[x] = s[j]
            BY <2>3, <3>1, <4>1, <6>1
          <6> QED
            BY <6>2
        <5> QED
          BY <5>1, <5>2 DEF KeptInOrder
      <4>2. CASE m # Len(a) + 1
        <5>1. m \in 1 .. Len(a)
          BY <2>3, <3>1, <4>2
        <5>2. PICK p \in places \cap DOMAIN s :
                /\ a[m] = s[p]
                /\ \A j \in places \cap (1 .. p - 1) : \E x \in 1 .. m - 1 : a[x] = s[j]
          BY <1>4, <5>1 DEF KeptInOrder, a
        <5>3. \A x \in 1 .. m : b[x] = a[x]
          BY <2>3, <3>1, <5>1
        <5>4. b[m] = s[p]
          BY <5>1, <5>2, <5>3
        <5>5. ASSUME NEW j \in places \cap (1 .. p - 1)
              PROVE  \E x \in 1 .. m - 1 : b[x] = s[j]
          <6>1. PICK x \in 1 .. m - 1 : a[x] = s[j]
            BY <5>2
          <6>2. b[x] = s[j]
            BY <2>3, <5>1, <5>3, <6>1
          <6> QED
            BY <6>1, <6>2
        <5> QED
          BY <5>4, <5>5 DEF KeptInOrder
      <4> QED
        BY <4>1, <4>2
    <3> QED
      BY <3>2, <3>3 DEF b
  <2>5. CASE i + 1 \notin places
    <3>1. places \cap (1 .. i + 1) = places \cap (1 .. i)
      BY <2>1, <2>5
    <3>2. b = a
      BY <2>2, <2>5
    <3> QED
      BY <1>4, <3>1, <3>2
  <2> QED
    BY <2>4, <2>5
<1>5. \A i \in Nat : i \in I
  <2> HIDE DEF All, Ordered
  <2>1. \A i \in Nat : i \in I => i + 1 \in I
    BY <1>2, <1>4
  <2> HIDE DEF I
  <2> QED
    BY <1>3, <2>1, SetInduction
<1>6. Ordered(k[n])
  <2> HIDE DEF All, Ordered
  <2>1. n <= n /\ n \in I
    BY <1>2, <1>5
  <2> QED
    BY <2>1
<1>7. k[n] = Picked(s, places) /\ k[n] \in Seq(S)
  BY <1>1, <1>2 DEF Picks
<1> QED
  BY <1>6, <1>7

-----------------------------------------------------------------------------
(* The structs that types name                                             *)

Structs(ir) == {StructName(i) : i \in {k \in DOMAIN ir.types : ir.types[k].op = "struct"}}

\* What emit_type names for type i, if it names f for the earlier types.
NamedValue(ir, f, i) ==
  IF i = 0 THEN {}
  ELSE IF ir.types[i].op = "struct" THEN {StructName(i)}
  ELSE IF ir.types[i].op \in {"array", "pointer"} THEN f[ir.types[i].of[1]]
  ELSE {}

LEMMA EarlierType ==
  ASSUME NEW ir, Parsable(ir), NEW i \in 1 .. Len(ir.types),
         ir.types[i].op \in {"array", "pointer"}
  PROVE  ir.types[i].of[1] \in 0 .. i - 1
<1>1. DOMAIN ir.types = 1 .. Len(ir.types)
  BY DEF Parsable
<1>2. ir.types[i].of \in Seq(0 .. i - 1) /\ ir.types[i].of # << >>
  BY <1>1 DEF Parsable
<1> QED
  BY <1>2

LEMMA NamedOfStructs ==
  ASSUME NEW ir, Parsable(ir), NEW i \in 0 .. Len(ir.types), NEW f,
         \A j \in 0 .. i - 1 : f[j] \in SUBSET Structs(ir)
  PROVE  NamedValue(ir, f, i) \in SUBSET Structs(ir)
<1>1. DOMAIN ir.types = 1 .. Len(ir.types) /\ Len(ir.types) \in Nat
  BY DEF Parsable
<1>2. CASE i = 0
  BY <1>2 DEF NamedValue
<1>3. CASE i # 0
  <2>1. i \in 1 .. Len(ir.types)
    BY <1>1, <1>3
  <2>2. CASE ir.types[i].op = "struct"
    BY <1>1, <1>3, <2>1, <2>2 DEF NamedValue, Structs
  <2>3. CASE ir.types[i].op \in {"array", "pointer"}
    <3>1. NamedValue(ir, f, i) = f[ir.types[i].of[1]]
      BY <1>3, <2>3 DEF NamedValue
    <3> QED
      BY <2>1, <2>3, <3>1, EarlierType
  <2>4. CASE ir.types[i].op \notin {"struct", "array", "pointer"}
    BY <1>3, <2>4 DEF NamedValue
  <2> QED
    BY <2>2, <2>3, <2>4
<1> QED
  BY <1>2, <1>3

LEMMA NamingEnds ==
  ASSUME NEW ir, Parsable(ir)
  PROVE  \E f : f = [i \in 0 .. Len(ir.types) |-> NamedValue(ir, f, i)]
<1> DEFINE n == Len(ir.types)
           Named(f, m) == /\ \A i \in 0 .. m : f[i] \in SUBSET Structs(ir)
                          /\ \A i \in 0 .. m : f[i] = NamedValue(ir, f, i)
           I == {m \in Nat : m <= n => \E f : Named(f, m)}
<1>1. n \in Nat
  BY DEF Parsable
<1>2. 0 \in I
  <2> DEFINE f == [i \in 0 .. 0 |-> {}]
  <2>1. \A i \in 0 .. 0 : i = 0
    OBVIOUS
  <2>2. Named(f, 0)
    BY <2>1 DEF NamedValue
  <2> QED
    BY <2>2
<1>3. ASSUME NEW m \in Nat, m + 1 <= n, NEW f, Named(f, m)
      PROVE  \E g : Named(g, m + 1)
  <2> DEFINE g == [i \in 0 .. m + 1 |-> IF i = m + 1 THEN NamedValue(ir, f, m + 1) ELSE f[i]]
  <2>1. m + 1 \in 0 .. n /\ m + 1 \in 0 .. m + 1 /\ (m + 1) - 1 = m
        /\ \A i \in 0 .. m + 1 : i # m + 1 => i \in 0 .. m
    BY <1>1, <1>3
  <2>2. NamedValue(ir, f, m + 1) \in SUBSET Structs(ir)
    BY <1>3, <2>1, NamedOfStructs
  <2>3. /\ g[m + 1] = NamedValue(ir, f, m + 1)
        /\ \A i \in 0 .. m : g[i] = f[i]
    BY <1>1, <2>1
  <2> HIDE DEF g
  <2>4. ASSUME NEW i \in 0 .. m + 1
        PROVE  NamedValue(ir, g, i) = NamedValue(ir, f, i)
    <3>1. CASE i = 0
      BY <3>1 DEF NamedValue
    <3>2. CASE i # 0 /\ ir.types[i].op \in {"array", "pointer"}
      <4>1. i \in 1 .. Len(ir.types)
        BY <1>1, <1>3, <3>2
      <4>2. ir.types[i].of[1] \in 0 .. i - 1
        BY <3>2, <4>1, EarlierType
      <4>3. ir.types[i].of[1] \in 0 .. m
        BY <4>2
      <4> QED
        BY <2>3, <3>2, <4>3 DEF NamedValue
    <3>3. CASE i # 0 /\ ir.types[i].op \notin {"array", "pointer"}
      BY <3>3 DEF NamedValue
    <3> QED
      BY <3>1, <3>2, <3>3
  <2>5. Named(g, m + 1)
    BY <1>3, <2>1, <2>2, <2>3, <2>4
  <2> QED
    BY <2>5
<1>4. \A m \in Nat : m \in I
  <2>1. ASSUME NEW m \in Nat, m \in I PROVE m + 1 \in I
    <3> HIDE DEF Named
    <3> SUFFICES ASSUME m + 1 <= n PROVE \E g : Named(g, m + 1)
      OBVIOUS
    <3>1. m <= n
      BY <1>1
    <3>2. PICK f : Named(f, m)
      BY <2>1, <3>1
    <3> QED
      BY <1>3, <3>2
  <2> HIDE DEF I
  <2> QED
    BY <1>2, <2>1, SetInduction
<1>5. PICK f : Named(f, n)
  <2> HIDE DEF Named
  <2>1. n <= n
    BY <1>1
  <2> QED
    BY <1>1, <1>4, <2>1
<1> DEFINE g == [i \in 0 .. n |-> f[i]]
<1>6. \A i \in 0 .. n : g[i] = f[i]
  OBVIOUS
<1> HIDE DEF g
<1>7. ASSUME NEW i \in 0 .. n
      PROVE  NamedValue(ir, g, i) = NamedValue(ir, f, i)
  <2>1. CASE i = 0
    BY <2>1 DEF NamedValue
  <2>2. CASE i # 0 /\ ir.types[i].op \in {"array", "pointer"}
    <3>1. i \in 1 .. Len(ir.types)
      BY <1>1, <2>2
    <3>2. ir.types[i].of[1] \in 0 .. i - 1
      BY <2>2, <3>1, EarlierType
    <3>3. ir.types[i].of[1] \in 0 .. n
      BY <1>1, <3>2
    <3> QED
      BY <1>6, <2>2, <3>3 DEF NamedValue
  <2>3. CASE i # 0 /\ ir.types[i].op \notin {"array", "pointer"}
    BY <2>3 DEF NamedValue
  <2> QED
    BY <2>1, <2>2, <2>3
<1>8. g = [i \in 0 .. n |-> NamedValue(ir, g, i)]
  <2>1. \A i \in 0 .. n : f[i] = NamedValue(ir, g, i)
    BY <1>5, <1>7
  <2> QED
    BY <2>1 DEF g
<1> QED
  BY <1>8

LEMMA NamedAreStructs ==
  ASSUME NEW ir, Parsable(ir), NEW t \in 0 .. Len(ir.types)
  PROVE  NamedBy(ir)[t] \in SUBSET Structs(ir)
<1> DEFINE n == Len(ir.types)
           f == CHOOSE f : f = [k \in 0 .. n |->
                  IF k = 0 THEN {}
                  ELSE IF ir.types[k].op = "struct" THEN {StructName(k)}
                  ELSE IF ir.types[k].op \in {"array", "pointer"}
                       THEN f[ir.types[k].of[1]] ELSE {}]
           I == {m \in Nat : \A k \in 0 .. n : k <= m => f[k] \in SUBSET Structs(ir)}
<1>1. n \in Nat
  BY DEF Parsable
<1>2. f = [k \in 0 .. n |-> NamedValue(ir, f, k)]
  BY NamingEnds DEF NamedValue
<1>3. NamedBy(ir) = f
  BY DEF NamedBy
<1> HIDE DEF f
<1>4. \A k \in 0 .. n : f[k] = NamedValue(ir, f, k)
  BY <1>2
<1>5. 0 \in I
  <2>1. f[0] = NamedValue(ir, f, 0) /\ \A k \in 0 .. n : k <= 0 => k = 0
    BY <1>1, <1>4
  <2>2. f[0] = {}
    BY <2>1 DEF NamedValue
  <2> QED
    BY <2>1, <2>2
<1>6. ASSUME NEW m \in Nat, m \in I PROVE m + 1 \in I
  <2> SUFFICES ASSUME NEW k \in 0 .. n, k <= m + 1 PROVE f[k] \in SUBSET Structs(ir)
    OBVIOUS
  <2>1. \A j \in 0 .. k - 1 : j \in 0 .. n /\ j <= m
    BY <1>1
  <2>2. \A j \in 0 .. k - 1 : f[j] \in SUBSET Structs(ir)
    BY <1>6, <2>1
  <2> QED
    BY <1>4, <2>2, NamedOfStructs
<1>7. n \in I
  <2> HIDE DEF I
  <2> QED
    BY <1>1, <1>5, <1>6, SetInduction
<1> QED
  BY <1>1, <1>3, <1>7

LEMMA HeldAreStructs ==
  ASSUME NEW ir, Parsable(ir), NEW v \in ToSet(ir.variables)
  PROVE  HeldBy(ir, v) \in SUBSET Structs(ir)
<1>1. CASE v.type = 0
  BY <1>1 DEF HeldBy
<1>2. CASE v.type # 0
  <2>1. PICK k \in DOMAIN ir.variables : v = ir.variables[k]
    BY DEF ToSet
  <2>2. v.type \in DOMAIN ir.types /\ ir.types[v.type].op = "pointer"
    BY <1>2, <2>1 DEF Parsable
  <2>3. DOMAIN ir.types = 1 .. Len(ir.types) /\ Len(ir.types) \in Nat
    BY DEF Parsable
  <2>4. ir.types[v.type].of[1] \in 0 .. v.type - 1
    BY <2>2, <2>3, EarlierType
  <2>5. ir.types[v.type].of[1] \in 0 .. Len(ir.types)
    BY <2>2, <2>3, <2>4
  <2> QED
    BY <1>2, <2>5, NamedAreStructs DEF HeldBy
<1> QED
  BY <1>1, <1>2

-----------------------------------------------------------------------------
(* The parts of the text                                                   *)

Interfaces == {"VertexInput", "VertexOutput", "FragInput", "FragOutput"}

\* Names that are declared or used before the body.
FrontNames(ir, model) ==
  Structs(ir) \cup {IoName(name) : name \in Interfaces}
    \cup {FunctionName(EntryName(ir, model)), SizeName(GroupSize(ir, model))}
    \cup {ValueName(v.id) : v \in ToSet(ir.variables)}

FrontPieces(ir, model) ==
  [kind : {"header", "type", "empty", "resource", "signature", "local"},
   declares : SUBSET FrontNames(ir, model), uses : SUBSET FrontNames(ir, model)]

\* The pieces that are right in any text that declares the module's structs.
IoKnown(ir, model) == UNION {p.declares : p \in ToSet(IoStructs(ir, model))}
Fit(ir, model) ==
  {p \in FrontPieces(ir, model) :
     p.kind # "empty" /\ p.uses \subseteq Structs(ir) \cup IoKnown(ir, model)}

LEMMA FitPiece ==
  ASSUME NEW ir, NEW model, NEW kind \in {"header", "type", "resource", "signature", "local"},
         NEW declares \in SUBSET FrontNames(ir, model), NEW uses \in SUBSET Structs(ir)
  PROVE  /\ Piece(kind, declares, uses) \in Fit(ir, model)
         /\ Piece(kind, declares, uses).kind = kind
         /\ Piece(kind, declares, uses).declares = declares
<1>1. uses \subseteq FrontNames(ir, model)
  BY DEF FrontNames
<1> QED
  BY <1>1 DEF Piece, Fit, FrontPieces

AllHaveMembers(ir) ==
  \A i \in DOMAIN ir.types : ir.types[i].op = "struct" => ir.types[i].of # << >>

LEMMA StructPiecesFit ==
  ASSUME NEW ir, Parsable(ir), NEW model
  PROVE  /\ StructPieces(ir) \in Seq(FrontPieces(ir, model))
         /\ AllHaveMembers(ir) => ToSet(StructPieces(ir)) \subseteq Fit(ir, model)
         /\ \A n \in Structs(ir) :
              \E p \in ToSet(StructPieces(ir)) : p.kind \in {"type", "empty"} /\ n \in p.declares
<1> DEFINE s == [i \in DOMAIN ir.types |-> i]
           places == {i \in DOMAIN s : ir.types[s[i]].op = "struct"}
           structs == Picked(s, places)
           Uses(i) == UNION {NamedBy(ir)[m] : m \in ToSet(ir.types[i].of)}
           Kind(i) == IF ir.types[i].of = << >> THEN "empty" ELSE "type"
           Definition(i) == Piece(Kind(i), {StructName(i)}, Uses(i))
           t == [k \in DOMAIN structs |-> Definition(structs[k])]
<1>1. DOMAIN ir.types = 1 .. Len(ir.types) /\ Len(ir.types) \in Nat
  BY DEF Parsable
<1>2. StructPieces(ir) = t
  BY DEF StructPieces, Where, Mapped
<1>3. s \in Seq(DOMAIN ir.types) /\ DOMAIN s = DOMAIN ir.types
  BY <1>1
<1>4. structs \in Seq(DOMAIN ir.types)
  <2> HIDE DEF s, places
  <2> QED
    BY <1>3, PickedSeq
<1>5. ToSet(structs) = {i \in DOMAIN ir.types : ir.types[i].op = "struct"}
  <2>1. ToSet(structs) = {s[i] : i \in places \cap DOMAIN s}
    <3> HIDE DEF s, places
    <3> QED
      BY <1>3, PickedSet
  <2>2. \A i \in DOMAIN s : s[i] = i
    OBVIOUS
  <2>3. {s[i] : i \in places \cap DOMAIN s} = {i \in DOMAIN ir.types : ir.types[i].op = "struct"}
    <3> HIDE DEF s
    <3> QED
      BY <1>3, <2>2
  <2> QED
    BY <2>1, <2>3
<1> HIDE DEF s, places, structs
<1>6. ASSUME NEW i \in ToSet(structs)
      PROVE  /\ Definition(i) \in FrontPieces(ir, model)
             /\ AllHaveMembers(ir) => Definition(i) \in Fit(ir, model)
             /\ Definition(i).kind \in {"type", "empty"}
             /\ Definition(i).declares = {StructName(i)}
  <2>1. i \in DOMAIN ir.types /\ ir.types[i].op = "struct"
    BY <1>5
  <2>2. Uses(i) \in SUBSET Structs(ir)
    <3>1. ASSUME NEW m \in ToSet(ir.types[i].of) PROVE NamedBy(ir)[m] \in SUBSET Structs(ir)
      <4>1. ir.types[i].of \in Seq(0 .. i - 1)
        BY <2>1 DEF Parsable
      <4>2. m \in 0 .. i - 1
        BY <4>1, SetOfSeq
      <4>3. m \in 0 .. Len(ir.types)
        BY <1>1, <2>1, <4>2
      <4> QED
        BY <4>3, NamedAreStructs
    <3> QED
      BY <3>1
  <2>3. {StructName(i)} \in SUBSET FrontNames(ir, model)
    BY <2>1 DEF FrontNames, Structs
  <2>4. Kind(i) \in {"type", "empty"} /\ (AllHaveMembers(ir) => Kind(i) = "type")
    BY <2>1 DEF AllHaveMembers
  <2>5. Uses(i) \in SUBSET FrontNames(ir, model)
    BY <2>2 DEF FrontNames
  <2> HIDE DEF Uses, Kind
  <2> QED
    BY <2>2, <2>3, <2>4, <2>5 DEF Piece, FrontPieces, Fit
<1> HIDE DEF Definition
<1>7. t \in [1 .. Len(structs) -> FrontPieces(ir, model)] /\ Len(structs) \in Nat
      /\ DOMAIN structs = 1 .. Len(structs)
  BY <1>4, <1>6 DEF ToSet
<1>8. ASSUME NEW n \in Structs(ir)
      PROVE  \E p \in ToSet(t) : p.kind \in {"type", "empty"} /\ n \in p.declares
  <2>1. PICK i \in ToSet(structs) : n = StructName(i)
    BY <1>5 DEF Structs
  <2>2. PICK k \in DOMAIN structs : structs[k] = i
    BY DEF ToSet
  <2>3. t[k] = Definition(i) /\ k \in DOMAIN t
    BY <2>2
  <2>4. t[k] \in ToSet(t)
    BY <2>3 DEF ToSet
  <2> QED
    BY <1>6, <2>1, <2>3, <2>4
<1>9. ASSUME AllHaveMembers(ir), NEW p \in ToSet(t) PROVE p \in Fit(ir, model)
  <2>1. PICK k \in DOMAIN t : p = t[k]
    BY DEF ToSet
  <2>2. structs[k] \in ToSet(structs) /\ t[k] = Definition(structs[k])
    BY <2>1 DEF ToSet
  <2> QED
    BY <1>6, <1>9, <2>1, <2>2
<1> HIDE DEF t
<1>10. t \in Seq(FrontPieces(ir, model))
  BY <1>7, FunctionIsSeq
<1> QED
  BY <1>2, <1>8, <1>9, <1>10

Kept(s, good) == Picked(s, {i \in DOMAIN s : s[i] \in good})

LEMMA KeptSet ==
  ASSUME NEW S, NEW s \in Seq(S), NEW good
  PROVE  Kept(s, good) \in Seq(S) /\ ToSet(Kept(s, good)) = ToSet(s) \cap good
<1> DEFINE places == {i \in DOMAIN s : s[i] \in good}
<1>1. Picked(s, places) \in Seq(S)
        /\ ToSet(Picked(s, places)) = {s[i] : i \in places \cap DOMAIN s}
  <2> HIDE DEF places
  <2> QED
    BY PickedSeq, PickedSet
<1>2. {s[i] : i \in places \cap DOMAIN s} = ToSet(s) \cap good
  BY DEF ToSet
<1> QED
  BY <1>1, <1>2 DEF Kept

AllHaveFields(ir) == \A v \in ToSet(ir.variables) : HasField(v)

\* The struct for the inputs or outputs of a stage: one piece, if its variables
\* are decorated, and a piece that is right, if they all have fields.
LEMMA IoStructFits ==
  ASSUME NEW ir, Parsable(ir), NEW name \in Interfaces, NEW class
  PROVE  \E p : /\ IoStruct(ir, name, class) \in {<< >>, << p >>}
                /\ \A model : p \in FrontPieces(ir, model)
                /\ p.kind \in {"type", "empty"} /\ p.declares = {IoName(name)}
                /\ p.uses \subseteq Structs(ir)
                /\ HasStruct(ir, class) => IoStruct(ir, name, class) = << p >>
                /\ IoStruct(ir, name, class) # << >> /\ AllHaveFields(ir)
                     => p.kind = "type"
<1> DEFINE vars == ir.variables
           decorated == {v \in ToSet(vars) : v.class = class /\ Decorated(v)}
           interface == Interface(ir, class)
           fields == {v \in ToSet(vars) : HasField(v)}
           members == Where(interface, HasField)
           Uses == UNION {HeldBy(ir, v) : v \in ToSet(members)}
           p == Piece(IF members = << >> THEN "empty" ELSE "type", {IoName(name)}, Uses)
<1>1. vars \in Seq(ToSet(vars))
  BY DEF Parsable
<1>2. interface = Kept(vars, decorated)
  <2>1. \A i \in DOMAIN vars : vars[i] \in ToSet(vars)
    BY DEF ToSet
  <2>2. {i \in DOMAIN vars : vars[i].class = class /\ Decorated(vars[i])}
          = {i \in DOMAIN vars : vars[i] \in decorated}
    BY <2>1
  <2> QED
    BY <2>2 DEF Interface, Where, Kept
<1>3. interface \in Seq(ToSet(vars)) /\ ToSet(interface) = decorated
  <2>1. ToSet(vars) \cap decorated = decorated
    OBVIOUS
  <2> HIDE DEF vars, decorated, interface
  <2> QED
    BY <1>1, <1>2, <2>1, KeptSet
<1>4. members = Kept(interface, fields)
  <2>1. \A i \in DOMAIN interface : interface[i] \in ToSet(vars)
    BY <1>3
  <2>2. {i \in DOMAIN interface : HasField(interface[i])}
          = {i \in DOMAIN interface : interface[i] \in fields}
    BY <2>1
  <2> QED
    BY <2>2 DEF Where, Kept
<1>5. members \in Seq(ToSet(vars)) /\ ToSet(members) = decorated \cap fields
  <2> HIDE DEF vars, decorated, interface, fields, members
  <2> QED
    BY <1>3, <1>4, KeptSet
<1>6. IoStruct(ir, name, class) = IF interface = << >> THEN << >> ELSE << p >>
  BY DEF IoStruct
<1>7. Uses \in SUBSET Structs(ir)
  BY <1>5, HeldAreStructs
<1>8. \A model : {IoName(name)} \cup Structs(ir) \in SUBSET FrontNames(ir, model)
  BY DEF FrontNames
<1>9. ToSet(<< >>) = {}
  BY DEF ToSet
<1>10. HasStruct(ir, class) => interface # << >>
  <2> SUFFICES ASSUME HasStruct(ir, class) PROVE interface # << >>
    OBVIOUS
  <2>1. PICK i \in DOMAIN vars : vars[i].class = class /\ vars[i].dec \cap {"location", "builtin"} # {}
    BY DEF HasStruct
  <2>2. vars[i] \in decorated
    BY <2>1 DEF Decorated, ToSet
  <2> HIDE DEF vars, decorated, interface
  <2> QED
    BY <1>3, <1>9, <2>2
<1>11. interface # << >> /\ AllHaveFields(ir) => members # << >>
  <2> SUFFICES ASSUME interface # << >>, AllHaveFields(ir)
               PROVE  members # << >>
    OBVIOUS
  <2>1. interface[1] \in ToSet(interface)
    <3>1. 1 \in DOMAIN interface
      BY <1>3
    <3> QED
      BY <3>1 DEF ToSet
  <2>2. interface[1] \in decorated \cap fields
    BY <1>3, <2>1 DEF AllHaveFields
  <2> HIDE DEF vars, decorated, fields, interface, members
  <2> QED
    BY <1>5, <1>9, <2>2
<1> HIDE DEF vars, decorated, fields, interface, members, Uses
<1>12. /\ \A model : p \in FrontPieces(ir, model)
       /\ p.kind = (IF members = << >> THEN "empty" ELSE "type")
       /\ p.declares = {IoName(name)} /\ p.uses = Uses
  BY <1>7, <1>8 DEF Piece, FrontPieces
<1> HIDE DEF p
<1> WITNESS p
<1> QED
  BY <1>6, <1>7, <1>10, <1>11, <1>12 DEF vars

\* Both structs of a stage.
StructsAre(ir, t, in, out) ==
  /\ \A model : t \in Seq(FrontPieces(ir, model))
  /\ \A p \in ToSet(t) : /\ p.kind \in {"type", "empty"} /\ p.uses \subseteq Structs(ir)
                         /\ AllHaveFields(ir) => p.kind = "type"
  /\ HasStruct(ir, "input") => \E p \in ToSet(t) : IoName(in) \in p.declares
  /\ HasStruct(ir, "output") => \E p \in ToSet(t) : IoName(out) \in p.declares

LEMMA BothStructs ==
  ASSUME NEW ir, Parsable(ir), NEW in \in Interfaces, NEW out \in Interfaces
  PROVE  StructsAre(ir, IoStruct(ir, in, "input") \o IoStruct(ir, out, "output"), in, out)
<1> DEFINE a == IoStruct(ir, in, "input")
           b == IoStruct(ir, out, "output")
<1>1. PICK p : /\ a \in {<< >>, << p >>}
               /\ \A model : p \in FrontPieces(ir, model)
               /\ p.kind \in {"type", "empty"} /\ p.declares = {IoName(in)}
               /\ p.uses \subseteq Structs(ir)
               /\ HasStruct(ir, "input") => a = << p >>
               /\ a # << >> /\ AllHaveFields(ir) => p.kind = "type"
  BY IoStructFits
<1>2. PICK q : /\ b \in {<< >>, << q >>}
               /\ \A model : q \in FrontPieces(ir, model)
               /\ q.kind \in {"type", "empty"} /\ q.declares = {IoName(out)}
               /\ q.uses \subseteq Structs(ir)
               /\ HasStruct(ir, "output") => b = << q >>
               /\ b # << >> /\ AllHaveFields(ir) => q.kind = "type"
  BY IoStructFits
<1> HIDE DEF a, b
<1>3. ASSUME NEW S, p \in S, q \in S
      PROVE  a \o b \in Seq(S) /\ ToSet(a \o b) = ToSet(a) \cup ToSet(b)
  <2>1. << >> \in Seq(S) /\ << p >> \in Seq(S) /\ << q >> \in Seq(S)
    BY <1>3
  <2>2. a \in Seq(S) /\ b \in Seq(S)
    BY <1>1, <1>2, <2>1
  <2> QED
    BY <2>2, ConcatSet
<1>4. ToSet(a \o b) = ToSet(a) \cup ToSet(b)
  <2> DEFINE S == {p, q}
  <2>1. p \in S /\ q \in S
    OBVIOUS
  <2> HIDE DEF S
  <2> QED
    BY <1>3, <2>1
<1>5. \A model : a \o b \in Seq(FrontPieces(ir, model))
  BY <1>1, <1>2, <1>3
<1>6. ToSet(<< >>) = {} /\ ToSet(<< p >>) = {p} /\ ToSet(<< q >>) = {q}
  BY DEF ToSet
<1>7. /\ ToSet(a) \in SUBSET {p} /\ (a # << >> => ToSet(a) = {p}) /\ << p >> # << >>
      /\ ToSet(b) \in SUBSET {q} /\ (b # << >> => ToSet(b) = {q}) /\ << q >> # << >>
      /\ a = << >> => ToSet(a) = {}
      /\ b = << >> => ToSet(b) = {}
  BY <1>1, <1>2, <1>6
<1>8. StructsAre(ir, a \o b, in, out)
  <2>1. ASSUME NEW r \in ToSet(a \o b)
        PROVE  /\ r.kind \in {"type", "empty"} /\ r.uses \subseteq Structs(ir)
               /\ AllHaveFields(ir) => r.kind = "type"
    <3>1. (r = p /\ a # << >>) \/ (r = q /\ b # << >>)
      BY <1>4, <1>7, <2>1
    <3> QED
      BY <1>1, <1>2, <3>1
  <2>2. HasStruct(ir, "input") => \E r \in ToSet(a \o b) : IoName(in) \in r.declares
    BY <1>1, <1>4, <1>7
  <2>3. HasStruct(ir, "output") => \E r \in ToSet(a \o b) : IoName(out) \in r.declares
    BY <1>2, <1>4, <1>7
  <2> QED
    BY <1>5, <2>1, <2>2, <2>3 DEF StructsAre
<1> QED
  BY <1>8 DEF a, b

Models == {"vertex", "fragment", "compute"}

LEMMA IoStructsFit ==
  ASSUME NEW ir, Parsable(ir), NEW model \in Models
  PROVE  /\ IoStructs(ir, model) \in Seq(FrontPieces(ir, model))
         /\ \A p \in ToSet(IoStructs(ir, model)) : p.kind \in {"type", "empty"}
         /\ AllHaveFields(ir) => ToSet(IoStructs(ir, model)) \subseteq Fit(ir, model)
         /\ model = "vertex" /\ HasStruct(ir, "input") =>
              IoName("VertexInput") \in IoKnown(ir, model)
         /\ model = "vertex" /\ HasStruct(ir, "output") =>
              IoName("VertexOutput") \in IoKnown(ir, model)
         /\ model = "fragment" /\ HasStruct(ir, "input") =>
              IoName("FragInput") \in IoKnown(ir, model)
<1>1. ASSUME NEW in \in Interfaces, NEW out \in Interfaces,
             IoStructs(ir, model) = IoStruct(ir, in, "input") \o IoStruct(ir, out, "output")
      PROVE  /\ IoStructs(ir, model) \in Seq(FrontPieces(ir, model))
             /\ \A p \in ToSet(IoStructs(ir, model)) : p.kind \in {"type", "empty"}
             /\ AllHaveFields(ir) => ToSet(IoStructs(ir, model)) \subseteq Fit(ir, model)
             /\ HasStruct(ir, "input") => IoName(in) \in IoKnown(ir, model)
             /\ HasStruct(ir, "output") => IoName(out) \in IoKnown(ir, model)
  <2>1. StructsAre(ir, IoStructs(ir, model), in, out)
    BY <1>1, BothStructs
  <2>2. IoStructs(ir, model) \in Seq(FrontPieces(ir, model))
    BY <2>1 DEF StructsAre
  <2>3. ToSet(IoStructs(ir, model)) \subseteq FrontPieces(ir, model)
    BY <2>2, SetOfSeq
  <2>4. \A p \in ToSet(IoStructs(ir, model)) :
           /\ p.kind \in {"type", "empty"} /\ p.uses \subseteq Structs(ir)
           /\ AllHaveFields(ir) => p.kind = "type"
    BY <2>1 DEF StructsAre
  <2>5. AllHaveFields(ir) => ToSet(IoStructs(ir, model)) \subseteq Fit(ir, model)
    BY <2>3, <2>4 DEF Fit
  <2>6. /\ HasStruct(ir, "input") => IoName(in) \in IoKnown(ir, model)
        /\ HasStruct(ir, "output") => IoName(out) \in IoKnown(ir, model)
    BY <2>1 DEF StructsAre, IoKnown
  <2> QED
    BY <2>2, <2>4, <2>5, <2>6
<1>2. CASE model = "vertex"
  <2>1. IoStructs(ir, model) =
          IoStruct(ir, "VertexInput", "input") \o IoStruct(ir, "VertexOutput", "output")
    BY <1>2 DEF IoStructs
  <2>2. "VertexInput" \in Interfaces /\ "VertexOutput" \in Interfaces
    BY DEF Interfaces
  <2> QED
    BY <1>1, <1>2, <2>1, <2>2
<1>3. CASE model = "fragment"
  <2>1. IoStructs(ir, model) =
          IoStruct(ir, "FragInput", "input") \o IoStruct(ir, "FragOutput", "output")
    BY <1>3 DEF IoStructs
  <2>2. "FragInput" \in Interfaces /\ "FragOutput" \in Interfaces
    BY DEF Interfaces
  <2> QED
    BY <1>1, <1>3, <2>1, <2>2
<1>4. CASE model = "compute"
  <2>1. IoStructs(ir, model) = << >>
    BY <1>4 DEF IoStructs
  <2>2. ToSet(<< >>) = {}
    BY DEF ToSet
  <2>3. << >> \in Seq(FrontPieces(ir, model))
    OBVIOUS
  <2>4. model # "vertex" /\ model # "fragment"
    BY <1>4
  <2> QED
    BY <2>1, <2>2, <2>3, <2>4
<1> QED
  BY <1>2, <1>3, <1>4 DEF Models

LEMMA ResourcePiecesFit ==
  ASSUME NEW ir, Parsable(ir), NEW model
  PROVE  ResourcePieces(ir) \in Seq(Fit(ir, model))
<1> DEFINE vars == ir.variables
           bound == Where(vars, LAMBDA v : v.class \notin {"input", "output"} /\ "binding" \in v.dec)
           t == [k \in DOMAIN bound |-> Piece("resource", {}, HeldBy(ir, bound[k]))]
<1>1. vars \in Seq(ToSet(vars))
  BY DEF Parsable
<1>2. bound \in Seq(ToSet(vars))
  <2> HIDE DEF vars
  <2> QED
    BY <1>1, PickedSeq DEF Where
<1>3. ResourcePieces(ir) = t
  BY DEF ResourcePieces, Mapped
<1> HIDE DEF bound
<1>4. ASSUME NEW v \in ToSet(vars)
      PROVE  Piece("resource", {}, HeldBy(ir, v)) \in Fit(ir, model)
  BY HeldAreStructs, FitPiece
<1> HIDE DEF vars
<1>5. t \in [1 .. Len(bound) -> Fit(ir, model)] /\ Len(bound) \in Nat
  BY <1>2, <1>4
<1> HIDE DEF t
<1> QED
  BY <1>3, <1>5, FunctionIsSeq

LEMMA LocalPiecesFit ==
  ASSUME NEW ir, Parsable(ir), NEW model
  PROVE  /\ LocalPieces(ir) \in Seq(Fit(ir, model))
         /\ \A p \in ToSet(LocalPieces(ir)) : p.kind = "local"
         /\ \A v \in ToSet(ir.variables) : v.class = "function" =>
              \E p \in ToSet(LocalPieces(ir)) : ValueName(v.id) \in p.declares
<1> DEFINE vars == ir.variables
           inside == {v \in ToSet(vars) : v.class = "function"}
           locals == Where(vars, LAMBDA v : v.class = "function")
           Local(v) == Piece("local", {ValueName(v.id)}, HeldBy(ir, v))
           t == [k \in DOMAIN locals |-> Local(locals[k])]
<1>1. vars \in Seq(ToSet(vars))
  BY DEF Parsable
<1>2. locals = Kept(vars, inside)
  <2>1. {i \in DOMAIN vars : vars[i].class = "function"} = {i \in DOMAIN vars : vars[i] \in inside}
    BY DEF ToSet
  <2> QED
    BY <2>1 DEF Where, Kept
<1>3. locals \in Seq(ToSet(vars)) /\ ToSet(locals) = ToSet(vars) \cap inside
  <2> HIDE DEF vars, inside, locals
  <2> QED
    BY <1>1, <1>2, KeptSet
<1>4. LocalPieces(ir) = t
  BY DEF LocalPieces, Mapped
<1> HIDE DEF locals
<1>5. ASSUME NEW v \in ToSet(vars)
      PROVE  Local(v) \in Fit(ir, model) /\ Local(v).kind = "local"
             /\ Local(v).declares = {ValueName(v.id)}
  <2>1. {ValueName(v.id)} \in SUBSET FrontNames(ir, model)
    BY DEF FrontNames
  <2> QED
    BY <2>1, HeldAreStructs, FitPiece
<1> HIDE DEF Local, vars
<1>6. t \in [1 .. Len(locals) -> Fit(ir, model)] /\ Len(locals) \in Nat
      /\ DOMAIN locals = 1 .. Len(locals) /\ DOMAIN t = DOMAIN locals
  BY <1>3, <1>5
<1>7. ASSUME NEW v \in ToSet(vars), v.class = "function"
      PROVE  \E p \in ToSet(t) : ValueName(v.id) \in p.declares
  <2>1. v \in ToSet(locals)
    BY <1>3, <1>7
  <2>2. PICK k \in DOMAIN locals : locals[k] = v
    BY <2>1 DEF ToSet
  <2>3. t[k] = Local(v) /\ t[k] \in ToSet(t)
    BY <2>2 DEF ToSet
  <2> QED
    BY <1>5, <2>3
<1>8. ASSUME NEW p \in ToSet(t) PROVE p.kind = "local"
  <2>1. PICK k \in DOMAIN locals : p = t[k]
    BY DEF ToSet
  <2> QED
    BY <1>3, <1>5, <2>1
<1> HIDE DEF t
<1> QED
  BY <1>4, <1>6, <1>7, <1>8, FunctionIsSeq DEF vars

\* The signature is that of the entry point, and what it takes and returns is
\* declared for what the generator supports.
LEMMA SignatureFits ==
  ASSUME NEW ir, Parsable(ir), NEW model \in Models
  PROVE  /\ Signature(ir, model) \in FrontPieces(ir, model)
         /\ FunctionName(EntryName(ir, model)) \in Signature(ir, model).declares
         /\ model = "compute" => SizeName(GroupSize(ir, model)) \in Signature(ir, model).declares
         /\ SupportedModule(ir, model) => Signature(ir, model) \in Fit(ir, model)
<1> DEFINE in == IF model = "fragment" THEN "FragInput" ELSE "VertexInput"
           input == IF HasStruct(ir, "input") THEN {IoName(in)} ELSE {}
           output == IF HasStruct(ir, "output") /\ model # "compute"
                     THEN {IoName("VertexOutput")} ELSE {}
           size == IF model = "compute" THEN {SizeName(GroupSize(ir, model))} ELSE {}
           names == {FunctionName(EntryName(ir, model))} \cup size
<1>1. Signature(ir, model) = Piece("signature", names, input \cup output)
  BY DEF Signature
<1>2. /\ names \in SUBSET FrontNames(ir, model)
      /\ FunctionName(EntryName(ir, model)) \in names
      /\ model = "compute" => SizeName(GroupSize(ir, model)) \in names
  BY DEF FrontNames
<1>3. input \cup output \in SUBSET FrontNames(ir, model)
  <2>1. in \in Interfaces /\ "VertexOutput" \in Interfaces
    BY DEF Interfaces
  <2> HIDE DEF in
  <2> QED
    BY <2>1 DEF FrontNames
<1>4. SupportedModule(ir, model) => input \cup output \subseteq IoKnown(ir, model)
  <2> SUFFICES ASSUME SupportedModule(ir, model)
               PROVE  input \cup output \subseteq IoKnown(ir, model)
    OBVIOUS
  <2>1. input \subseteq IoKnown(ir, model)
    BY IoStructsFit DEF SupportedModule, Models
  <2>2. output \subseteq IoKnown(ir, model)
    BY IoStructsFit DEF SupportedModule, Models
  <2> QED
    BY <2>1, <2>2
<1> HIDE DEF input, output, names
<1> QED
  BY <1>1, <1>2, <1>3, <1>4 DEF Piece, FrontPieces, Fit

LEMMA BodyIsSeq ==
  ASSUME NEW ir, Parsable(ir), NEW model, EntryBody(ir, model) # NULL
  PROVE  EntryBody(ir, model) \in Seq(ToSet(EntryBody(ir, model)))
<1>1. PICK f \in DOMAIN ir.bodies : EntryBody(ir, model) = ir.bodies[f]
  BY DEF EntryBody
<1> QED
  BY <1>1 DEF Parsable

LEMMA StatementsAre ==
  ASSUME NEW ir, NEW body, body \in Seq(ToSet(body))
  PROVE  /\ Statements(ir, body) \in Seq(ToSet(Statements(ir, body)))
         /\ \A p \in ToSet(Statements(ir, body)) : p.kind = "statement"
<1> DEFINE kept == Where(body, Translated)
           t == [k \in DOMAIN kept |-> Statement(ir, kept[k])]
           T == {Statement(ir, inst) : inst \in ToSet(body)}
<1>1. kept \in Seq(ToSet(body))
  BY PickedSeq DEF Where
<1>2. Statements(ir, body) = t
  BY DEF Statements, Mapped
<1> HIDE DEF kept
<1>3. t \in [1 .. Len(kept) -> T] /\ Len(kept) \in Nat
  BY <1>1
<1> HIDE DEF t
<1>4. t \in Seq(T)
  <2> HIDE DEF T
  <2> QED
    BY <1>3, FunctionIsSeq
<1>5. t \in Seq(ToSet(t)) /\ ToSet(t) \subseteq T
  <2> HIDE DEF T
  <2> QED
    BY <1>4, ItsOwnSet, SetOfSeq
<1>6. \A p \in T : p.kind = "statement"
  BY DEF Statement, Piece
<1> HIDE DEF T
<1>7. t \in Seq(ToSet(t)) /\ \A p \in ToSet(t) : p.kind = "statement"
  BY <1>5, <1>6
<1> QED
  BY <1>2, <1>7

LEMMA BodyIsStatements ==
  ASSUME NEW ir, Parsable(ir), NEW model
  PROVE  /\ BodyPieces(ir, model) \in Seq(ToSet(BodyPieces(ir, model)))
         /\ \A p \in ToSet(BodyPieces(ir, model)) : p.kind = "statement"
<1> DEFINE t == BodyPieces(ir, model)
<1>1. CASE EntryBody(ir, model) # NULL
  <2>1. t = Statements(ir, EntryBody(ir, model))
    BY <1>1 DEF BodyPieces
  <2> QED
    BY <1>1, <2>1, BodyIsSeq, StatementsAre
<1>2. CASE EntryBody(ir, model) = NULL
  <2>1. t = << >> \/ \E uses : t = << Piece("statement", {}, uses) >>
    BY <1>2 DEF BodyPieces
  <2>2. CASE t = << >>
    <3>1. ToSet(<< >>) = {} /\ << >> \in Seq({})
      BY DEF ToSet
    <3> QED
      BY <2>2, <3>1
  <2>3. CASE \E uses : t = << Piece("statement", {}, uses) >>
    <3>1. PICK p : t = << p >> /\ p.kind = "statement"
      BY <2>3 DEF Piece
    <3>2. ToSet(<< p >>) = {p} /\ << p >> \in Seq({p})
      BY DEF ToSet
    <3> QED
      BY <3>1, <3>2
  <2> QED
    BY <2>1, <2>2, <2>3
<1> QED
  BY <1>1, <1>2

LocalNames(ir) == {ValueName(v.id) : v \in {w \in ToSet(ir.variables) : w.class = "function"}}

\* A statement names structs, local variables, what earlier statements made, and
\* what is made elsewhere.
LEMMA BodyResolves ==
  ASSUME NEW ir, Parsable(ir), NEW model \in Models, SupportedModule(ir, model),
         NEW k \in DOMAIN BodyPieces(ir, model)
  PROVE  BodyPieces(ir, model)[k].uses \subseteq
           Structs(ir) \cup IoKnown(ir, model) \cup LocalNames(ir) \cup Elsewhere(ir, model)
             \cup UNION {BodyPieces(ir, model)[j].declares : j \in 1 .. k - 1}
<1> DEFINE body == EntryBody(ir, model)
<1>1. CASE body # NULL
  <2> DEFINE places == {i \in DOMAIN body : Translated(body[i])}
             kept == Picked(body, places)
             given == UNION {Results(body[i]) : i \in places}
             taken == UNION {Operands(body[i]) : i \in places}
             outside == taken \ (LocalIds(ir) \cup given)
             written == BodyPieces(ir, model)
  <2>1. \A i, j \in places : i <= j => Operands(body[i]) \cap Results(body[j]) = {}
    BY <1>1 DEF SupportedModule, InOrder
  <2>2. body \in Seq(ToSet(body)) /\ DOMAIN body = 1 .. Len(body) /\ Len(body) \in Nat
    BY <1>1, BodyIsSeq
  <2>3. Elsewhere(ir, model) = {ValueName(id) : id \in outside}
    BY <1>1 DEF Elsewhere
  <2>4. written = [i \in DOMAIN kept |-> Statement(ir, kept[i])]
    BY <1>1 DEF BodyPieces, Statements, Mapped, Where
  <2>5. \A i \in places : body[i].type \in 0 .. Len(ir.types)
    <3>1. PICK f \in DOMAIN ir.bodies : body = ir.bodies[f]
      BY <1>1 DEF EntryBody
    <3> QED
      BY <3>1 DEF Parsable
  <2> HIDE DEF places, kept
  <2>6. \A i \in places : i \in DOMAIN body /\ i \in Nat
    BY <2>2 DEF places
  <2> HIDE DEF body, given, taken, outside, written
  <2>7. k \in DOMAIN kept /\ k \in Nat /\ \A m \in 1 .. k - 1 : m \in DOMAIN kept
    <3>1. kept \in Seq(ToSet(body))
      BY <2>2, PickedSeq DEF kept
    <3> QED
      BY <2>4, <3>1 DEF written
  <2>8. PICK i \in places \cap DOMAIN body :
          /\ kept[k] = body[i]
          /\ \A j \in places \cap (1 .. i - 1) : \E m \in 1 .. k - 1 : kept[m] = body[j]
    BY <2>2, <2>7, PickedOrder DEF KeptInOrder, kept
  <2>9. \A inst : /\ Statement(ir, inst).uses =
                        {ValueName(id) : id \in Operands(inst)} \cup ResultTypes(ir, inst)
                  /\ Statement(ir, inst).declares = {ValueName(id) : id \in Results(inst)}
    BY DEF Statement, Piece
  <2>10. ResultTypes(ir, body[i]) \in SUBSET Structs(ir)
    BY <2>5, <2>8, NamedAreStructs DEF ResultTypes
  <2>11. ASSUME NEW id \in Operands(body[i])
         PROVE  \/ ValueName(id) \in LocalNames(ir) \cup Elsewhere(ir, model)
                \/ \E m \in 1 .. k - 1 : ValueName(id) \in written[m].declares
    <3>1. CASE id \in LocalIds(ir)
      BY <3>1 DEF LocalIds, LocalNames, ToSet
    <3>2. CASE id \in given
      <4>1. PICK j \in places : id \in Results(body[j])
        BY <3>2 DEF given
      <4>2. ~(i <= j)
        BY <2>1, <2>8, <4>1
      <4>3. j \in places \cap (1 .. i - 1)
        BY <2>2, <2>6, <2>8, <4>1, <4>2
      <4>4. PICK m \in 1 .. k - 1 : kept[m] = body[j]
        BY <2>8, <4>3
      <4>5. written[m].declares = {ValueName(x) : x \in Results(body[j])}
        BY <2>4, <2>7, <2>9, <4>4
      <4> QED
        BY <4>1, <4>4, <4>5
    <3>3. CASE id \notin LocalIds(ir) \cup given
      <4>1. id \in taken
        BY <2>8 DEF taken
      <4>2. id \in outside
        BY <3>3, <4>1 DEF outside
      <4> QED
        BY <2>3, <4>2
    <3> QED
      BY <3>1, <3>2, <3>3
  <2>12. written[k].uses = {ValueName(id) : id \in Operands(body[i])} \cup ResultTypes(ir, body[i])
    BY <2>4, <2>7, <2>8, <2>9
  <2> QED
    BY <2>10, <2>11, <2>12 DEF written
<1>2. CASE body = NULL
  <2> DEFINE uses == IF HasStruct(ir, "output") THEN {IoName("VertexOutput")} ELSE {}
  <2>1. model # "compute" /\ BodyPieces(ir, model) = << Piece("statement", {}, uses) >>
    BY <1>2 DEF BodyPieces
  <2>2. BodyPieces(ir, model)[k].uses = uses
    <3>1. k = 1
      BY <2>1
    <3> QED
      BY <2>1, <3>1 DEF Piece
  <2>3. uses \subseteq IoKnown(ir, model)
    BY <2>1, IoStructsFit DEF SupportedModule, Models
  <2> HIDE DEF uses
  <2> QED
    BY <2>2, <2>3
<1> QED
  BY <1>1, <1>2

-----------------------------------------------------------------------------
(* The text                                                                *)

\* What comes before the body.
Prelude(ir, model) ==
  << Piece("header", {}, {}) >> \o StructPieces(ir) \o IoStructs(ir, model)
    \o ResourcePieces(ir) \o << Signature(ir, model) >> \o LocalPieces(ir)

LEMMA FrontParts ==
  ASSUME NEW ir, Parsable(ir), NEW model \in Models
  PROVE  /\ Prelude(ir, model) \in Seq(FrontPieces(ir, model))
         /\ ToSet(Prelude(ir, model)) =
              {Piece("header", {}, {})} \cup ToSet(StructPieces(ir))
                \cup ToSet(IoStructs(ir, model)) \cup ToSet(ResourcePieces(ir))
                \cup {Signature(ir, model)} \cup ToSet(LocalPieces(ir))
<1> DEFINE S == FrontPieces(ir, model)
           h == << Piece("header", {}, {}) >>
           s == StructPieces(ir)
           io == IoStructs(ir, model)
           r == ResourcePieces(ir)
           f == << Signature(ir, model) >>
           l == LocalPieces(ir)
<1>1. Piece("header", {}, {}) \in S
  <2>1. {} \in SUBSET FrontNames(ir, model) /\ {} \in SUBSET Structs(ir)
    OBVIOUS
  <2>2. Piece("header", {}, {}) \in Fit(ir, model)
    BY <2>1, FitPiece
  <2> QED
    BY <2>2 DEF Fit
<1>2. Signature(ir, model) \in S
  BY SignatureFits
<1>3. ToSet(h) = {Piece("header", {}, {})} /\ ToSet(f) = {Signature(ir, model)}
  BY DEF ToSet
<1> HIDE DEF S
<1>4. h \in Seq(S) /\ f \in Seq(S)
  BY <1>1, <1>2
<1>5. s \in Seq(S) /\ io \in Seq(S) /\ r \in Seq(S) /\ l \in Seq(S)
  <2>1. Fit(ir, model) \subseteq S
    BY DEF Fit, S
  <2>2. /\ s \in Seq(S) /\ r \in Seq(Fit(ir, model))
        /\ l \in Seq(Fit(ir, model)) /\ io \in Seq(S)
    BY StructPiecesFit, ResourcePiecesFit, LocalPiecesFit, IoStructsFit DEF S
  <2>3. ASSUME NEW t \in Seq(Fit(ir, model)) PROVE t \in Seq(S)
    BY <2>1
  <2> QED
    BY <2>2, <2>3
<1>6. Prelude(ir, model) = h \o s \o io \o r \o f \o l
  BY DEF Prelude
<1> HIDE DEF h, s, io, r, f, l
<1> DEFINE t2 == h \o s
           t3 == t2 \o io
           t4 == t3 \o r
           t5 == t4 \o f
           t6 == t5 \o l
<1>7. t2 \in Seq(S) /\ ToSet(t2) = ToSet(h) \cup ToSet(s)
  BY <1>4, <1>5, ConcatSet
<1> HIDE DEF t2
<1>8. t3 \in Seq(S) /\ ToSet(t3) = ToSet(t2) \cup ToSet(io)
  BY <1>5, <1>7, ConcatSet
<1> HIDE DEF t3
<1>9. t4 \in Seq(S) /\ ToSet(t4) = ToSet(t3) \cup ToSet(r)
  BY <1>5, <1>8, ConcatSet
<1> HIDE DEF t4
<1>10. t5 \in Seq(S) /\ ToSet(t5) = ToSet(t4) \cup ToSet(f)
  BY <1>4, <1>9, ConcatSet
<1> HIDE DEF t5
<1>11. t6 \in Seq(S) /\ ToSet(t6) = ToSet(t5) \cup ToSet(l)
  BY <1>5, <1>10, ConcatSet
<1>12. /\ Prelude(ir, model) \in Seq(S)
       /\ ToSet(Prelude(ir, model)) = ToSet(h) \cup ToSet(s) \cup ToSet(io) \cup ToSet(r)
                                      \cup ToSet(f) \cup ToSet(l)
  <2>1. Prelude(ir, model) = t6
    BY <1>6 DEF t2, t3, t4, t5
  <2> HIDE DEF t6
  <2> QED
    BY <1>7, <1>8, <1>9, <1>10, <1>11, <2>1
<1> QED
  BY <1>3, <1>12 DEF S, s, io, r, l

\* The place of a part's pieces in the text.
LEMMA FrontAndBody ==
  ASSUME NEW ir, Parsable(ir), NEW model \in Models
  PROVE  LET t == Pieces(ir, model)
             front == Prelude(ir, model)
             body == BodyPieces(ir, model)
             m == Len(front)
         IN /\ t = front \o body /\ t \in Seq(ToSet(t)) /\ m \in Nat
            /\ DOMAIN t = 1 .. m + Len(body) /\ DOMAIN front = 1 .. m
            /\ DOMAIN body = 1 .. Len(body) /\ Len(body) \in Nat
            /\ \A i \in 1 .. m : t[i] = front[i]
            /\ \A i \in 1 .. Len(body) : t[m + i] = body[i]
            /\ \A i \in DOMAIN t : i > m => i - m \in 1 .. Len(body) /\ t[i] = body[i - m]
<1> DEFINE t == Pieces(ir, model)
           front == Prelude(ir, model)
           body == BodyPieces(ir, model)
           S == FrontPieces(ir, model) \cup ToSet(body)
<1>1. t = front \o body
  BY DEF Pieces, Prelude
<1>2. front \in Seq(FrontPieces(ir, model)) /\ body \in Seq(ToSet(body))
  BY FrontParts, BodyIsStatements
<1> HIDE DEF t, front, body
<1>3. front \in Seq(S) /\ body \in Seq(S)
  BY <1>2
<1> HIDE DEF S
<1>4. t \in Seq(S)
  BY <1>1, <1>3
<1>5. t \in Seq(ToSet(t))
  BY <1>4, ItsOwnSet
<1>6. /\ Len(front) \in Nat /\ DOMAIN t = 1 .. Len(front) + Len(body)
      /\ DOMAIN front = 1 .. Len(front)
      /\ DOMAIN body = 1 .. Len(body) /\ Len(body) \in Nat
      /\ \A i \in DOMAIN t : t[i] = IF i <= Len(front) THEN front[i] ELSE body[i - Len(front)]
  BY <1>1, <1>3
<1>7. ASSUME NEW i \in 1 .. Len(body) PROVE t[Len(front) + i] = body[i]
  <2>1. /\ Len(front) + i \in DOMAIN t /\ ~(Len(front) + i <= Len(front))
        /\ (Len(front) + i) - Len(front) = i
    BY <1>6
  <2> QED
    BY <1>6, <2>1
<1>8. ASSUME NEW i \in 1 .. Len(front) PROVE t[i] = front[i]
  BY <1>6
<1>9. ASSUME NEW i \in DOMAIN t, i > Len(front)
      PROVE  i - Len(front) \in 1 .. Len(body) /\ t[i] = body[i - Len(front)]
  BY <1>6, <1>9
<1> QED
  BY <1>1, <1>5, <1>6, <1>7, <1>8, <1>9 DEF t, front, body

LEMMA TextResolves ==
  ASSUME NEW ir, Parsable(ir), NEW model \in Models, SupportedModule(ir, model)
  PROVE  /\ NoEmptyStruct(Pieces(ir, model))
         /\ Unresolved(Pieces(ir, model)) \subseteq Elsewhere(ir, model)
<1> DEFINE t == Pieces(ir, model)
           front == Prelude(ir, model)
           body == BodyPieces(ir, model)
           m == Len(front)
           known == Structs(ir) \cup IoKnown(ir, model)
<1>1. /\ DOMAIN t = 1 .. m + Len(body) /\ DOMAIN front = 1 .. m
      /\ DOMAIN body = 1 .. Len(body) /\ Len(body) \in Nat /\ m \in Nat
      /\ \A i \in 1 .. m : t[i] = front[i]
      /\ \A i \in 1 .. Len(body) : t[m + i] = body[i]
      /\ \A i \in DOMAIN t : i > m => i - m \in 1 .. Len(body) /\ t[i] = body[i - m]
  BY FrontAndBody
<1>2. ToSet(front) = {Piece("header", {}, {})} \cup ToSet(StructPieces(ir))
                \cup ToSet(IoStructs(ir, model)) \cup ToSet(ResourcePieces(ir))
                \cup {Signature(ir, model)} \cup ToSet(LocalPieces(ir))
  BY FrontParts
<1>3. AllHaveFields(ir) /\ AllHaveMembers(ir)
  BY DEF SupportedModule, AllHaveFields, AllHaveMembers, ToSet
<1>4. ToSet(front) \subseteq Fit(ir, model)
  <2>1. /\ ToSet(StructPieces(ir)) \subseteq Fit(ir, model)
        /\ ToSet(ResourcePieces(ir)) \subseteq Fit(ir, model)
        /\ ToSet(LocalPieces(ir)) \subseteq Fit(ir, model)
    BY <1>3, StructPiecesFit, ResourcePiecesFit, LocalPiecesFit, SetOfSeq
  <2>2. ToSet(IoStructs(ir, model)) \subseteq Fit(ir, model)
    BY <1>3, IoStructsFit
  <2>3. Signature(ir, model) \in Fit(ir, model)
    BY SignatureFits
  <2>4. Piece("header", {}, {}) \in Fit(ir, model)
    <3>1. {} \in SUBSET FrontNames(ir, model) /\ {} \in SUBSET Structs(ir)
      OBVIOUS
    <3> QED
      BY <3>1, FitPiece
  <2> HIDE DEF front
  <2> QED
    BY <1>2, <2>1, <2>2, <2>3, <2>4
<1>5. \A p \in ToSet(front) : \E i \in 1 .. m : t[i] = p
  <2> SUFFICES ASSUME NEW p \in ToSet(front) PROVE \E i \in 1 .. m : t[i] = p
    OBVIOUS
  <2>1. PICK i \in DOMAIN front : front[i] = p
    BY DEF ToSet
  <2> HIDE DEF t, front, m
  <2> QED
    BY <1>1, <2>1
<1>6. known \subseteq Global(t)
  <2>1. ASSUME NEW n \in known
        PROVE  \E p \in ToSet(front) : p.kind \in {"type", "empty"} /\ n \in p.declares
    <3>1. CASE n \in Structs(ir)
      <4>1. PICK p \in ToSet(StructPieces(ir)) : p.kind \in {"type", "empty"} /\ n \in p.declares
        BY <3>1, StructPiecesFit
      <4> HIDE DEF front
      <4> QED
        BY <1>2, <4>1
    <3>2. CASE n \in IoKnown(ir, model)
      <4>1. PICK p \in ToSet(IoStructs(ir, model)) : n \in p.declares
        BY <3>2 DEF IoKnown
      <4>2. p.kind \in {"type", "empty"}
        BY IoStructsFit
      <4> HIDE DEF front
      <4> QED
        BY <1>2, <4>1, <4>2
    <3> QED
      BY <3>1, <3>2
  <2>2. ASSUME NEW n \in known PROVE n \in Global(t)
    <3>1. PICK p \in ToSet(front) : p.kind \in {"type", "empty"} /\ n \in p.declares
      BY <2>1
    <3>2. PICK i \in 1 .. m : t[i] = p
      BY <1>5
    <3>3. i \in DOMAIN t
      <4> HIDE DEF t, front, m, body
      <4> QED
        BY <1>1
    <3> HIDE DEF t, front, m, body
    <3> QED
      BY <3>1, <3>2, <3>3 DEF Global
  <2> QED
    BY <2>2
<1>7. LocalNames(ir) \subseteq UNION {t[j].declares : j \in 1 .. m}
  <2> SUFFICES ASSUME NEW v \in ToSet(ir.variables), v.class = "function"
               PROVE  \E j \in 1 .. m : ValueName(v.id) \in t[j].declares
    BY DEF LocalNames
  <2>1. PICK p \in ToSet(LocalPieces(ir)) : ValueName(v.id) \in p.declares
    BY LocalPiecesFit
  <2>2. PICK j \in 1 .. m : t[j] = p
    <3>1. p \in ToSet(front)
      <4> HIDE DEF front
      <4> QED
        BY <1>2
    <3> QED
      BY <1>5, <3>1
  <2> HIDE DEF t, front, m
  <2> QED
    BY <2>1, <2>2
<1>8. ASSUME NEW i \in 1 .. m
      PROVE  t[i].kind # "empty" /\ t[i].uses \subseteq known
  <2>1. front[i] \in ToSet(front) /\ t[i] = front[i]
    <3> HIDE DEF t, front, m
    <3> QED
      BY <1>1 DEF ToSet
  <2> HIDE DEF t, front, m
  <2> QED
    BY <1>4, <2>1 DEF Fit
<1>9. ASSUME NEW k \in 1 .. Len(body)
      PROVE  body[k].kind = "statement"
             /\ body[k].uses \subseteq known \cup LocalNames(ir) \cup Elsewhere(ir, model)
                  \cup UNION {body[j].declares : j \in 1 .. k - 1}
  <2>1. k \in DOMAIN body
    <3> HIDE DEF t, front, m, body
    <3> QED
      BY <1>1
  <2>2. body[k] \in ToSet(body)
    <3> HIDE DEF body
    <3> QED
      BY <2>1 DEF ToSet
  <2> QED
    BY <2>1, <2>2, BodyIsStatements, BodyResolves
<1> HIDE DEF t, front, body, m, known
<1>10. ASSUME NEW i \in DOMAIN t
       PROVE  /\ t[i].kind # "empty"
              /\ t[i].uses \subseteq Global(t) \cup Before(t, i) \cup Elsewhere(ir, model)
  <2>1. CASE i <= m
    <3>1. i \in 1 .. m
      BY <1>1, <2>1
    <3> QED
      BY <1>6, <1>8, <3>1
  <2>2. CASE ~(i <= m)
    <3>1. i - m \in 1 .. Len(body) /\ t[i] = body[i - m] /\ i \in Nat
      BY <1>1, <2>2
    <3>2. UNION {t[j].declares : j \in 1 .. m} \subseteq Before(t, i)
      <4>1. 1 .. m \subseteq 1 .. i - 1
        BY <1>1, <2>2
      <4> QED
        BY <4>1 DEF Before
    <3>3. UNION {body[j].declares : j \in 1 .. (i - m) - 1} \subseteq Before(t, i)
      <4>1. ASSUME NEW j \in 1 .. (i - m) - 1
            PROVE  body[j].declares \subseteq Before(t, i)
        <5>1. j \in 1 .. Len(body) /\ m + j \in 1 .. i - 1
          BY <1>1, <3>1
        <5>2. t[m + j] = body[j]
          BY <1>1, <5>1
        <5> QED
          BY <5>1, <5>2 DEF Before
      <4> QED
        BY <4>1
    <3> QED
      BY <1>6, <1>7, <1>9, <3>1, <3>2, <3>3
  <2> QED
    BY <2>1, <2>2
<1> QED
  BY <1>10 DEF NoEmptyStruct, Unresolved, t

LEMMA HasLeast ==
  ASSUME NEW S \in SUBSET Nat, S # {}
  PROVE  \E i \in S : \A j \in S : i <= j
<1> DEFINE R == OpToRel(<, Nat)
<1>1. PICK i \in S : \A j \in S : ~(<< j, i >> \in R)
  <2>1. IsWellFoundedOn(R, Nat)
    BY NatLessThanWellFounded
  <2> HIDE DEF R
  <2> QED
    BY <2>1, WFMin
<1>2. ASSUME NEW j \in S PROVE i <= j
  <2>1. ~(j < i)
    BY <1>1 DEF OpToRel
  <2> QED
    BY <2>1
<1> QED
  BY <1>2

\* The statements of the text are the pieces of the body.
LEMMA StatementsOfText ==
  ASSUME NEW ir, Parsable(ir), NEW model \in Models
  PROVE  Where(Pieces(ir, model), LAMBDA p : p.kind = "statement") = BodyPieces(ir, model)
<1> DEFINE t == Pieces(ir, model)
           front == Prelude(ir, model)
           body == BodyPieces(ir, model)
           m == Len(front)
           places == {i \in DOMAIN t : t[i].kind = "statement"}
<1>1. /\ t \in Seq(ToSet(t))
      /\ DOMAIN t = 1 .. m + Len(body) /\ DOMAIN front = 1 .. m
      /\ DOMAIN body = 1 .. Len(body) /\ Len(body) \in Nat /\ m \in Nat
      /\ \A i \in 1 .. m : t[i] = front[i]
      /\ \A i \in 1 .. Len(body) : t[m + i] = body[i]
      /\ \A i \in DOMAIN t : i > m => i - m \in 1 .. Len(body) /\ t[i] = body[i - m]
  BY FrontAndBody
<1>2. \A i \in 1 .. Len(body) : body[i].kind = "statement"
  <2> SUFFICES ASSUME NEW i \in 1 .. Len(body) PROVE body[i].kind = "statement"
    OBVIOUS
  <2>1. body[i] \in ToSet(body)
    <3> HIDE DEF t, front, body, m
    <3> QED
      BY <1>1 DEF ToSet
  <2> QED
    BY <2>1, BodyIsStatements
<1>3. \A i \in 1 .. m : front[i].kind # "statement"
  <2> SUFFICES ASSUME NEW i \in 1 .. m PROVE front[i].kind # "statement"
    OBVIOUS
  <2>1. front[i] \in ToSet(front)
    <3> HIDE DEF t, front, body, m
    <3> QED
      BY <1>1 DEF ToSet
  <2>2. ToSet(front) \subseteq FrontPieces(ir, model)
    BY FrontParts, SetOfSeq
  <2> HIDE DEF front
  <2> QED
    BY <2>1, <2>2 DEF FrontPieces
<1>4. body \in Seq(ToSet(body))
  BY BodyIsStatements
<1>5. Where(t, LAMBDA p : p.kind = "statement") = Picked(t, places)
  BY DEF Where
<1>6. \A i \in DOMAIN t : i \in places <=> i > m
  <2> SUFFICES ASSUME NEW i \in DOMAIN t PROVE t[i].kind = "statement" <=> i > m
    OBVIOUS
  <2> HIDE DEF t, front, body, m
  <2>1. CASE i > m
    BY <1>1, <1>2, <2>1
  <2>2. CASE ~(i > m)
    <3>1. i \in 1 .. m
      BY <1>1, <2>2
    <3> QED
      BY <1>1, <1>3, <2>2, <3>1
  <2> QED
    BY <2>1, <2>2
<1> HIDE DEF t, front, body, m, places
<1>7. m \in 0 .. Len(t) /\ DOMAIN t = 1 .. Len(t) /\ Len(t) = m + Len(body)
  BY <1>1
<1>8. Picked(t, places) = SubSeq(t, m + 1, m + Len(body))
  BY <1>1, <1>6, <1>7, PickedBack
<1>9. SubSeq(t, m + 1, m + Len(body)) = body
  <2> DEFINE b == SubSeq(t, m + 1, m + Len(body))
  <2>1. b \in Seq(ToSet(t)) /\ Len(b) = Len(body) /\ \A i \in 1 .. Len(body) : b[i] = t[m + i]
    BY <1>1, <1>7
  <2> HIDE DEF b
  <2>2. b = [i \in 1 .. Len(body) |-> b[i]] /\ body = [i \in 1 .. Len(body) |-> body[i]]
    BY <1>1, <1>4, <2>1
  <2>3. \A i \in 1 .. Len(body) : b[i] = body[i]
    BY <1>1, <2>1
  <2>4. b = body
    BY <2>2, <2>3
  <2> QED
    BY <2>4 DEF b
<1> QED
  BY <1>5, <1>8, <1>9 DEF t, body

LEMMA TextMatches ==
  ASSUME NEW ir, Parsable(ir), NEW model \in Models,
         \E k \in DOMAIN ir.entries : ir.entries[k].model = model
  PROVE  EntryMatches(Pieces(ir, model), ir, model)
<1> DEFINE t == Pieces(ir, model)
           found == {i \in DOMAIN ir.entries : ir.entries[i].model = model}
           first == FirstOf(ir, model)
           e == ir.entries[first]
<1>1. first \in found /\ first # 0
  <2>1. DOMAIN ir.entries \subseteq Nat \ {0}
    BY DEF Parsable
  <2>2. found # {} /\ found \in SUBSET Nat
    BY <2>1
  <2>3. \E i \in found : \A j \in found : i <= j
    <3> HIDE DEF found
    <3> QED
      BY <2>2, HasLeast
  <2>4. first = CHOOSE i \in found : \A j \in found : i <= j
    BY <2>2 DEF FirstOf
  <2>5. first \in found
    <3> HIDE DEF found, first
    <3> QED
      BY <2>3, <2>4
  <2> QED
    BY <2>1, <2>5
<1>2. first \in DOMAIN ir.entries /\ e.model = model
  BY <1>1
<1>3. EntryName(ir, model) = e.name /\ GroupSize(ir, model) = SizeOf(e)
  BY <1>1 DEF EntryName, GroupSize
<1>4. \E k \in DOMAIN t : /\ FunctionName(e.name) \in t[k].declares
                          /\ model = "compute" => SizeName(SizeOf(e)) \in t[k].declares
  <2> DEFINE front == Prelude(ir, model)
             p == Signature(ir, model)
  <2>1. p \in ToSet(front)
    BY FrontParts
  <2>2. /\ FunctionName(e.name) \in p.declares
        /\ model = "compute" => SizeName(SizeOf(e)) \in p.declares
    BY <1>3, SignatureFits
  <2>3. PICK k \in DOMAIN front : front[k] = p
    BY <2>1 DEF ToSet
  <2>4. k \in DOMAIN t /\ t[k] = p
    <3>1. /\ DOMAIN t = 1 .. Len(front) + Len(BodyPieces(ir, model))
          /\ DOMAIN front = 1 .. Len(front) /\ Len(BodyPieces(ir, model)) \in Nat
          /\ Len(front) \in Nat /\ \A i \in 1 .. Len(front) : t[i] = front[i]
      BY FrontAndBody
    <3> HIDE DEF t, front, p
    <3> QED
      BY <2>3, <3>1
  <2> QED
    BY <2>2, <2>4
<1>5. e.func \in DOMAIN ir.bodies =>
        BodyPieces(ir, model) = Statements(ir, ir.bodies[e.func])
  <2> SUFFICES ASSUME e.func \in DOMAIN ir.bodies
               PROVE  BodyPieces(ir, model) = Statements(ir, ir.bodies[e.func])
    OBVIOUS
  <2>1. EntryBody(ir, model) = ir.bodies[e.func]
    BY <1>1 DEF EntryBody, InitialEntry
  <2>2. EntryBody(ir, model) # NULL
    BY <2>1 DEF Parsable
  <2> QED
    BY <2>1, <2>2 DEF BodyPieces
<1>6. Where(t, LAMBDA p : p.kind = "statement") = BodyPieces(ir, model)
  BY StatementsOfText
<1> HIDE DEF t, e, first
<1> QED
  BY <1>2, <1>4, <1>5, <1>6 DEF EntryMatches, t, e

-----------------------------------------------------------------------------
(* What is written                                                         *)

ModelOf(i) == ExecModel(compileInfos[i].stage)
TextOf(i) == Pieces(compileInfos[i].ir, ModelOf(i))

\* An info for which something is written.
Written(i) ==
  i \in DOMAIN compileInfos /\ compileInfos[i].usable /\ compileInfos[i].parses

\* As long as nothing has been lost, what is written and what is still to be
\* written are together what they should be.
WritingInv ==
  \E S : /\ text \in Seq(S) /\ pieces \in Seq(S)
         /\ ~torn => text \o pieces = TextOf(at)

OutputsInv ==
  \A i \in Whole : Written(i) /\ outputs[i].text = TextOf(i)

TextInv ==
  /\ compileInfos \in Batches
  /\ at \in Nat \ {0}
  /\ step \in {"allocate", "write"} => Written(at)
  /\ step = "write" => WritingInv
  /\ OutputsInv

LEMMA InfosAre ==
  ASSUME compileInfos \in Batches
  PROVE  /\ DOMAIN compileInfos = 1 .. Len(compileInfos) /\ Len(compileInfos) \in Nat
         /\ \A i : Written(i) => Parsable(compileInfos[i].ir)
         /\ \A i : ModelOf(i) \in Models
<1>1. compileInfos \in Seq(ToSet(compileInfos))
  BY BatchAssumption
<1>2. \A i : Written(i) => Parsable(compileInfos[i].ir)
  BY BatchAssumption DEF Written
<1>3. \A i : ModelOf(i) \in Models
  BY DEF ModelOf, ExecModel, Models
<1> QED
  BY <1>1, <1>2, <1>3

LEMMA TextIsSeq ==
  ASSUME compileInfos \in Batches, Written(at)
  PROVE  TextOf(at) \in Seq(ToSet(TextOf(at)))
BY InfosAre, FrontAndBody DEF TextOf

LEMMA NextPiece ==
  ASSUME NEW S, NEW a \in Seq(S), NEW b \in Seq(S), b # << >>
  PROVE  /\ Append(a, Head(b)) \in Seq(S) /\ Tail(b) \in Seq(S)
         /\ Append(a, Head(b)) \o Tail(b) = a \o b
<1>1. Append(a, Head(b)) \in Seq(S) /\ Tail(b) \in Seq(S)
  OBVIOUS
<1>2. Append(a, Head(b)) = a \o << Head(b) >>
  OBVIOUS
<1>3. b = << Head(b) >> \o Tail(b)
  OBVIOUS
<1>4. (a \o << Head(b) >>) \o Tail(b) = a \o (<< Head(b) >> \o Tail(b))
  <2>1. << Head(b) >> \in Seq(S)
    OBVIOUS
  <2> QED
    BY <1>1, <2>1
<1> QED
  BY <1>1, <1>2, <1>3, <1>4

\* Setting an output keeps the others.
LEMMA SetOutput ==
  ASSUME OutputsInv, at \in Nat, NEW o, outputs' = OutputSet(o),
         UNCHANGED compileInfos,
         o # NULL /\ ~o.torn => Written(at) /\ o.text = TextOf(at)
  PROVE  OutputsInv'
<1>1. /\ DOMAIN outputs' = {at} \cup DOMAIN outputs
      /\ outputs'[at] = o
      /\ \A i \in DOMAIN outputs : i # at => outputs'[i] = outputs[i]
  BY DEF OutputSet
<1>2. \A i : (Written(i))' <=> Written(i)
  BY DEF Written
<1>3. \A i : (TextOf(i))' = TextOf(i)
  BY DEF TextOf, ModelOf
<1>4. ASSUME NEW i \in Whole'
      PROVE  Written(i) /\ outputs'[i].text = TextOf(i)
  <2>1. CASE i = at
    BY <1>1, <2>1 DEF Whole
  <2>2. CASE i # at
    <3>1. i \in Whole /\ outputs'[i] = outputs[i]
      BY <1>1, <2>2 DEF Whole
    <3> QED
      BY <3>1 DEF OutputsInv
  <2> QED
    BY <2>1, <2>2
<1> QED
  BY <1>2, <1>3, <1>4 DEF OutputsInv

\* Steps on which no output is set and no other info is taken up.
LEMMA SameInfo ==
  ASSUME TextInv, UNCHANGED << compileInfos, at, outputs >>,
         step' \in {"allocate", "write"} => Written(at), step' = "write" => WritingInv'
  PROVE  TextInv'
<1>1. (Written(at))' <=> Written(at)
  BY DEF Written
<1>2. OutputsInv'
  BY DEF TextInv, OutputsInv, Whole, Written, TextOf, ModelOf
<1> QED
  BY <1>1, <1>2 DEF TextInv

\* Steps that end with an info.
LEMMA InfoDone ==
  ASSUME TextInv, NextInfo, NEW o, outputs' = OutputSet(o),
         o # NULL /\ ~o.torn => Written(at) /\ o.text = TextOf(at)
  PROVE  TextInv'
<1>1. at' = at + 1 /\ step' = "parse" /\ compileInfos' = compileInfos /\ at \in Nat
  BY DEF NextInfo, TextInv
<1>2. OutputsInv'
  BY <1>1, SetOutput DEF TextInv
<1> QED
  BY <1>1, <1>2 DEF TextInv

LEMMA WriteKept ==
  ASSUME TextInv, WritePiece
  PROVE  TextInv'
<1>1. step = "write" /\ UNCHANGED << compileInfos, at, step, outputs >>
  BY DEF WritePiece
<1>2. PICK S : /\ text \in Seq(S) /\ pieces \in Seq(S)
               /\ ~torn => text \o pieces = TextOf(at)
  BY <1>1 DEF TextInv, WritingInv
<1>3. (TextOf(at))' = TextOf(at)
  BY <1>1 DEF TextOf, ModelOf
<1>4. CASE Emit
  <2>1. /\ pieces # << >> /\ torn' = torn
        /\ pieces' = Tail(pieces) /\ text' = Append(text, Head(pieces))
    BY <1>4 DEF Emit
  <2>2. text' \in Seq(S) /\ pieces' \in Seq(S) /\ text' \o pieces' = text \o pieces
    BY <1>2, <2>1, NextPiece
  <2>3. WritingInv'
    BY <1>2, <1>3, <2>1, <2>2 DEF WritingInv
  <2> QED
    BY <1>1, <2>3, SameInfo DEF TextInv
<1>5. CASE EmitFails
  <2>1. pieces # << >> /\ torn' = TRUE /\ pieces' = Tail(pieces) /\ text' = text
    BY <1>5 DEF EmitFails
  <2>2. text' \in Seq(S) /\ pieces' \in Seq(S)
    BY <1>2, <2>1
  <2>3. WritingInv'
    BY <2>1, <2>2 DEF WritingInv
  <2> QED
    BY <1>1, <2>3, SameInfo DEF TextInv
<1> QED
  BY <1>4, <1>5 DEF WritePiece

LEMMA TextStep == TextInv /\ [CompileNext]_compileVars => TextInv'
<1> SUFFICES ASSUME TextInv, [CompileNext]_compileVars PROVE TextInv'
  OBVIOUS
<1>1. CASE NotParsed
  BY <1>1, InfoDone DEF NotParsed, OutputMissing
<1>2. CASE Parsed
  <2>1. Written(at)
    <3>1. at <= Len(compileInfos) /\ Info.usable /\ Info.parses
      BY <1>2 DEF Parsed
    <3> QED
      BY <3>1, InfosAre DEF Written, Info, TextInv
  <2> QED
    BY <1>2, <2>1, SameInfo DEF Parsed
<1>3. CASE GeneratorOutOfMemory
  BY <1>3, InfoDone DEF GeneratorOutOfMemory, OutputMissing
<1>4. CASE StartGenerator
  <2>1. /\ Written(at) /\ compileInfos \in Batches
        /\ text' = << >> /\ pieces' = TextOf(at)
        /\ UNCHANGED << compileInfos, at, outputs >>
    BY <1>4 DEF StartGenerator, NextText, TextOf, ModelOf, Info, TextInv
  <2>2. (TextOf(at))' = TextOf(at)
    BY <2>1 DEF TextOf, ModelOf
  <2> DEFINE S == ToSet(TextOf(at))
  <2>3. TextOf(at) \in Seq(S)
    BY <2>1, TextIsSeq
  <2> HIDE DEF S
  <2>4. text' \in Seq(S) /\ pieces' \in Seq(S) /\ text' \o pieces' = TextOf(at)
    <3>1. << >> \in Seq(S) /\ << >> \o TextOf(at) = TextOf(at)
      BY <2>3
    <3> QED
      BY <2>1, <2>3, <3>1
  <2>5. WritingInv'
    BY <2>2, <2>4 DEF WritingInv
  <2> QED
    BY <2>1, <2>5, SameInfo
<1>5. CASE WritePiece
  BY <1>5, WriteKept
<1>6. CASE Finish(Complete)
  <2>1. step = "write" /\ pieces = << >> /\ NextInfo /\ outputs' = OutputSet(Complete)
    BY <1>6 DEF Finish
  <2>2. Written(at) /\ WritingInv
    BY <2>1 DEF TextInv
  <2>3. Complete.text = text /\ Complete.torn = torn
    BY DEF Complete
  <2>4. ~torn => text = TextOf(at)
    <3>1. PICK S : text \in Seq(S) /\ (~torn => text \o pieces = TextOf(at))
      BY <2>2 DEF WritingInv
    <3>2. text \o << >> = text
      BY <3>1
    <3> QED
      BY <2>1, <3>1, <3>2
  <2> QED
    BY <2>1, <2>2, <2>3, <2>4, InfoDone
<1>7. CASE Finish(NULL)
  <2>1. NextInfo /\ outputs' = OutputSet(NULL)
    BY <1>7 DEF Finish
  <2> QED
    BY <2>1, InfoDone
<1>8. CASE UNCHANGED compileVars
  <2>1. UNCHANGED << compileInfos, at, outputs, step, text, pieces, torn >>
    BY <1>8 DEF compileVars, batchVars, generatorVars
  <2> QED
    BY <2>1 DEF TextInv, WritingInv, OutputsInv, Whole, Written, TextOf, ModelOf
<1> QED
  BY <1>1, <1>2, <1>3, <1>4, <1>5, <1>6, <1>7, <1>8 DEF CompileNext

\* Every output that says of itself that nothing was lost is the text for its
\* info, whatever failed before it or after it.
THEOREM OutputsAreTexts == CompileSpec => []TextInv
<1>1. CompileInit => TextInv
  BY DEF CompileInit, TextInv, OutputsInv, Whole
<1> QED
  BY <1>1, TextStep, PTL DEF CompileSpec

\* In a text for a module that the generator supports no struct is empty, and
\* every name is declared but those of what its statements take from outside the
\* entry function, for any such module.
THEOREM TextsResolve == CompileSpec => []NamesResolve
<1>1. TextInv => NamesResolve
  <2> SUFFICES ASSUME TextInv, NEW i \in Whole,
                      SupportedModule(compileInfos[i].ir, ModelOf(i))
               PROVE  /\ NoEmptyStruct(outputs[i].text)
                      /\ Unresolved(outputs[i].text) \subseteq
                           Elsewhere(compileInfos[i].ir, ModelOf(i))
    BY DEF NamesResolve, ModelOf
  <2>1. Written(i) /\ outputs[i].text = TextOf(i) /\ compileInfos \in Batches
    BY DEF TextInv, OutputsInv
  <2>2. Parsable(compileInfos[i].ir) /\ ModelOf(i) \in Models
    BY <2>1, InfosAre
  <2> QED
    BY <2>1, <2>2, TextResolves DEF TextOf
<1> QED
  BY <1>1, OutputsAreTexts, PTL

\* The entry function has the name, the work-group size and the statements of one
\* entry point, for any module that has one for the stage asked for.
THEOREM TextsMatchEntries == CompileSpec => []OneEntryPoint
<1>1. TextInv => OneEntryPoint
  <2> SUFFICES ASSUME TextInv, NEW i \in Whole,
                      \E k \in DOMAIN compileInfos[i].ir.entries :
                        compileInfos[i].ir.entries[k].model = ModelOf(i)
               PROVE  EntryMatches(outputs[i].text, compileInfos[i].ir, ModelOf(i))
    BY DEF OneEntryPoint, ModelOf
  <2>1. Written(i) /\ outputs[i].text = TextOf(i) /\ compileInfos \in Batches
    BY DEF TextInv, OutputsInv
  <2>2. Parsable(compileInfos[i].ir) /\ ModelOf(i) \in Models
    BY <2>1, InfosAre
  <2> QED
    BY <2>1, <2>2, TextMatches DEF TextOf
<1> QED
  BY <1>1, OutputsAreTexts, PTL

=============================================================================
