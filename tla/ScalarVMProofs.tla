--------------------------- MODULE ScalarVMProofs ---------------------------
(***************************************************************************)
(* Proofs about ScalarVM, for any set of programs and any limits: what the *)
(* validator accepts stays within its slots, never fails a check of the    *)
(* VM, and without jumps executes just its static bound; every program has *)
(* one file, which holds just this program (QbcCodec); and a run computes  *)
(* what the program means (ScalarMeaning).                                 *)
(***************************************************************************)
EXTENDS ScalarVM, TLAPS, WellFoundedInduction, FiniteSetTheorems

\* What the VM was loaded with has passed the validator.
Checked ==
    /\ program \in Programs
    /\ status \notin {"loading", "refused"} => PlainContract(program)

\* The inductive invariant.
IInv == TypeOK /\ Checked

-----------------------------------------------------------------------------
(* Induction, and functions defined by recursion *)

\* A nonempty set of naturals has a least element.
LEMMA LeastNatural ==
    ASSUME NEW S \in SUBSET Nat, S # {}
    PROVE  \E m \in S : \A n \in S : m <= n
  <1>. DEFINE R == {ss \in Nat \X Nat : ss[1] < ss[2]}
  <1>1. IsWellFoundedOn(R, Nat)
    BY NatLessThanWellFounded DEF OpToRel
  <1>2. PICK m \in S : \A n \in S : ~ (<<n, m>> \in R)
    <2>. HIDE DEF R
    <2>. QED  BY <1>1, WFMin
  <1>3. ASSUME NEW n \in S PROVE m <= n
    <2>1. <<n, m>> \in Nat \X Nat
      OBVIOUS
    <2>2. ~ (n < m)
      BY <1>2, <2>1
    <2>. QED  BY <2>2
  <1>. QED  BY <1>3

\* What holds of 0, and of every successor, holds of every natural.
LEMMA SetInduction ==
    ASSUME NEW S, 0 \in S, \A n \in Nat : n \in S => n + 1 \in S
    PROVE  \A n \in Nat : n \in S
  <1>. SUFFICES ASSUME Nat \ S # {} PROVE FALSE
    OBVIOUS
  <1>1. PICK m \in Nat \ S : \A n \in Nat \ S : m <= n
    BY LeastNatural
  <1>2. m - 1 \in Nat /\ m - 1 \in S
    BY <1>1
  <1>. QED  BY <1>1, <1>2

\* F maps functions to functions, and the value at each place depends only on
\* the values at places of lower rank.
DependsDownwards(D, V, N, rank, F) ==
    /\ V # {} /\ N \in Nat /\ rank \in [D -> 0..N]
    /\ F \in [[D -> V] -> [D -> V]]
    /\ \A g, h \in [D -> V] : \A x \in D :
          (\A y \in D : rank[y] < rank[x] => g[y] = h[y]) => F[g][x] = F[h][x]

\* Such a map has a fixed point: a function defined by recursion exists.
LEMMA FixedPoint ==
    ASSUME NEW D, NEW V, NEW N, NEW rank, NEW F, DependsDownwards(D, V, N, rank, F)
    PROVE  \E h \in [D -> V] : h = F[h]
  <1>. USE DEF DependsDownwards
  <1>. DEFINE Right(h, n) == \A x \in D : rank[x] < n => h[x] = F[h][x]
              S == {n \in Nat : \E h \in [D -> V] : Right(h, n)}
  <1>1. 0 \in S
    <2>1. PICK v \in V : TRUE
      OBVIOUS
    <2>2. [x \in D |-> v] \in [D -> V] /\ Right([x \in D |-> v], 0)
      BY <2>1
    <2>. QED  BY <2>2
  <1>2. ASSUME NEW n \in Nat, n \in S PROVE n + 1 \in S
    <2>1. PICK g \in [D -> V] : Right(g, n)
      BY <1>2
    <2>. DEFINE h == F[g]
    <2>2. h \in [D -> V]
      OBVIOUS
    <2>3. \A y \in D : rank[y] < n => h[y] = g[y]
      BY <2>1
    <2>4. ASSUME NEW x \in D, rank[x] < n + 1 PROVE h[x] = F[h][x]
      <3>1. \A y \in D : rank[y] < rank[x] => g[y] = h[y]
        BY <2>3, <2>4
      <3>. HIDE DEF h
      <3>2. F[g][x] = F[h][x]
        BY <2>2, <3>1
      <3>. QED  BY <3>2 DEF h
    <2>. HIDE DEF h
    <2>. QED  BY <2>2, <2>4
  <1>3. N + 1 \in S
    <2>. HIDE DEF S
    <2>. QED  BY <1>1, <1>2, SetInduction
  <1>4. PICK h \in [D -> V] : Right(h, N + 1)
    BY <1>3
  <1>5. \A x \in D : h[x] = F[h][x]
    BY <1>4
  <1>. QED  BY <1>5

-----------------------------------------------------------------------------
(* Arithmetic *)

\* The operations of the VM stay within a slot.
LEMMA ApplyType ==
    ASSUME NEW op \in Arith \cup Set, NEW x \in U32, NEW y \in U32, Divides(op) => y # 0
    PROVE  Apply(op, x, y) \in U32
  <1>. USE WidthAssumption DEF U32
  <1>1. \A n \in Int : n % Width \in 0..(Width - 1)
    OBVIOUS
  <1>2. CASE Divides(op)
    <2>1. x \div y \in 0..x
      BY <1>2
    <2>. QED  BY <1>2, <2>1 DEF Apply, Divides
  <1>3. CASE ~Divides(op)
    <2>1. x + y \in Int /\ x - y \in Int /\ x * y \in Int
      OBVIOUS
    <2>. QED  BY <1>1, <1>3, <2>1 DEF Apply, Divides, Arith, Set
  <1>. QED  BY <1>2, <1>3

\* A comparison gives a truth value, which fits any slot.
LEMMA TestType ==
    ASSUME NEW op, NEW x, NEW y  PROVE  Test(op, x, y) \in U32
  BY WidthAssumption DEF Test, U32

-----------------------------------------------------------------------------
(* What the contract says of one instruction *)

\* A line that passed the checks of straight code touches known slots only.
LEMMA LineTouches ==
    ASSUME NEW bc, NEW ins, NEW init, TypedOK(bc, ins, init)
    PROVE  \A s \in Touched(ins) : s < bc.scalars
  BY DEF TypedOK, ConstOK, BinaryOK, Known, Fresh, Reads, Touched, Arith, Compare, Set

\* A SET touches only slots of the program,
LEMMA SetTouches ==
    ASSUME NEW bc, NEW ins, NEW init, SetOK(ins, Known(bc.scalars, init, bc.bools))
    PROVE  \A s \in Touched(ins) : s < bc.scalars
  BY DEF SetOK, Known, Reads, Touched, Arith, Compare, Set

\* and so does an EMIT.
LEMMA EmitTouches ==
    ASSUME NEW bc, NEW ins, NEW init, EmitOK(bc, ins, init)
    PROVE  \A s \in Touched(ins) : s < bc.scalars
  BY DEF EmitOK, Touched, Arith, Compare, Set

\* END, JUMP and the repeat instructions touch no slot.
LEMMA NoTouch ==
    ASSUME NEW ins, ins.op \in {"END", "JUMP", "REPEAT_ENTER", "REPEAT_NEXT"}
    PROVE  Touched(ins) = {}
  BY DEF Touched, Arith, Compare, Set

\* Every instruction of a program with a repeat stays within its slots.
LEMMA RepeatTouches ==
    ASSUME NEW bc, IsBytecode(bc), RepeatContract(bc), NEW at \in Pcs(bc)
    PROVE  \A s \in Touched(bc.code[at]) : s < bc.scalars
  <1>1. PICK enter \in Pcs(bc), next \in Pcs(bc) :
            /\ At(bc, "REPEAT_ENTER") = {enter} /\ At(bc, "REPEAT_NEXT") = {next}
            /\ next > enter + 1 /\ next + 3 = Size(bc)
            /\ \A i \in 0..(enter - 1) : TypedOK(bc, bc.code[i], Defined(bc, 0, i))
            /\ \A i \in (enter + 1)..(next - 1) :
                SetOK(bc.code[i], Known(bc.scalars, AllSlots(bc), bc.bools))
            /\ EmitOK(bc, bc.code[next + 1], AllSlots(bc))
            /\ EndOK(bc, next + 2)
    BY DEF RepeatContract
  <1>2. at \in 0..(Size(bc) - 1) /\ Size(bc) \in Nat /\ enter \in Nat /\ next \in Nat
    BY DEF IsBytecode, Pcs
  <1>3. CASE at \in 0..(enter - 1)
    BY <1>1, <1>3, LineTouches
  <1>4. CASE at \in (enter + 1)..(next - 1)
    BY <1>1, <1>4, SetTouches
  <1>5. CASE at = enter \/ at = next
    <2>1. bc.code[at].op \in {"REPEAT_ENTER", "REPEAT_NEXT"}
      BY <1>1, <1>5 DEF At
    <2>. QED  BY <2>1, NoTouch
  <1>6. CASE at = next + 1
    BY <1>1, <1>6, EmitTouches
  <1>7. CASE at = next + 2
    BY <1>1, <1>7, NoTouch DEF EndOK
  <1>. QED  BY <1>1, <1>2, <1>3, <1>4, <1>5, <1>6, <1>7

\* Every instruction of a program with branches stays within its slots.
LEMMA FlowTouches ==
    ASSUME NEW bc, IsBytecode(bc), FlowContract(bc), NEW at \in Pcs(bc)
    PROVE  \A s \in Touched(bc.code[at]) : s < bc.scalars
  <1>1. at \in 0..(Size(bc) - 1) /\ Size(bc) \in Nat
    BY DEF IsBytecode, Pcs
  <1>2. CASE at = Size(bc) - 1
    BY <1>2, NoTouch DEF FlowContract, EndOK
  <1>3. CASE at \in 0..(Size(bc) - 2)
    <2>. DEFINE init == Flow(bc)[at].init
    <2>1. at \in 0..((Size(bc) - 1) - 1)
      BY <1>1, <1>3
    <2>2. \/ TypedOK(bc, bc.code[at], init)
          \/ EmitOK(bc, bc.code[at], init)
          \/ bc.code[at].op = "JUMP_IF_FALSE" /\ bc.code[at].a < bc.scalars
          \/ bc.code[at].op = "JUMP"
      BY <2>1, Zenon DEF FlowContract
    <2>3. CASE bc.code[at].op = "JUMP_IF_FALSE" /\ bc.code[at].a < bc.scalars
      BY <2>3 DEF Touched, Arith, Compare, Set
    <2>. QED  BY <2>2, <2>3, LineTouches, EmitTouches, NoTouch
  <1>. QED  BY <1>1, <1>2, <1>3

\* The contract of plain programs keeps every operand within scalar_count.
LEMMA ContractTouches ==
    ASSUME NEW bc, IsBytecode(bc), PlainContract(bc), NEW at \in Pcs(bc)
    PROVE  \A s \in Touched(bc.code[at]) : s < bc.scalars
  BY RepeatTouches, FlowTouches DEF PlainContract

-----------------------------------------------------------------------------
(* The invariant *)

\* The initial states satisfy the invariant,
LEMMA InitInv == ASSUME Init PROVE IInv
  <1>1. IsBytecode(program)
    BY ProgramsAssumption DEF Init
  <1>. QED
    BY <1>1, LimitsAssumption, WidthAssumption DEF Init, IInv, TypeOK, Checked, Slots, U32

\* What is known of an instruction about to be executed.
LEMMA InsType ==
    ASSUME IInv, Fetched
    PROVE  /\ Ins \in Instruction
           /\ Ins.op = "CONST" => Ins.imm \in U32
           /\ \A s \in Touched(Ins) : s < program.scalars /\ s \in Slots
  <1>1. Ins \in Instruction /\ (Ins.op = "CONST" => Ins.imm \in U32)
    BY DEF IInv, TypeOK, Fetched, Ins, IsBytecode, Pcs
  <1>2. PlainContract(program)
    BY DEF IInv, Checked, Fetched
  <1>3. \A s \in Touched(Ins) : s < program.scalars
    BY <1>2, ContractTouches DEF IInv, TypeOK, Fetched, Ins
  <1>4. program.scalars \in 1..MaxScalars
    BY <1>2 DEF PlainContract
  <1>5. \A s \in Touched(Ins) : s \in Nat
    BY <1>1 DEF Touched, Instruction
  <1>. QED  BY <1>1, <1>3, <1>4, <1>5, LimitsAssumption DEF Slots

\* A step that only moves on keeps the types.
LEMMA AdvanceType ==
    ASSUME IInv, Fetched, NEW next \in Nat, Advance(next)
    PROVE  /\ pc' \in Nat /\ executed' \in 0..MaxSteps /\ bound' <= MaxSteps
           /\ IsBytecode(program)' /\ Checked'
           /\ status' \in {"loading", "running", "refused", "done", "divided_by_zero", "fault"}
  BY LimitsAssumption DEF IInv, TypeOK, Checked, Fetched, Advance

\* So does one that gives slot a of the instruction a value.
LEMMA AssignStep ==
    ASSUME IInv, Fetched, NEW v \in U32, Assign(v), Ins.a \in Slots
    PROVE  IInv'
  <1>1. pc + 1 \in Nat
    BY DEF IInv, TypeOK
  <1>2. values' \in [Slots -> U32] /\ initialized' \subseteq Slots /\ emitted' \subseteq initialized'
    BY DEF IInv, TypeOK, Assign
  <1>3. repeat_enter_pc' \in Nat \cup {None} /\ repeat_remaining' \in 0..MaxRepeat
    BY DEF IInv, TypeOK, Assign, repeat
  <1>. QED  BY <1>1, <1>2, <1>3, AdvanceType DEF Assign, IInv, TypeOK

\* and every action preserves it: a constant,
LEMMA ConstStep == ASSUME IInv, Const PROVE IInv'
  <1>1. Fetched /\ Ins.op = "CONST" /\ Assign(Ins.imm)
    BY DEF Const, CanConst
  <1>2. Ins.a \in Touched(Ins)
    BY <1>1 DEF Touched, Arith, Compare, Set
  <1>. QED  BY <1>1, <1>2, InsType, AssignStep

\* a computed value,
LEMMA ComputeStep == ASSUME IInv, Compute PROVE IInv'
  <1>1. Fetched /\ Ins.op \in Arith \cup Compare \cup Set /\ ~ByZero
    BY DEF Compute, CanCompute, CanSet
  <1>2. {Ins.a, Ins.b, Ins.flags} \subseteq Slots
    BY <1>1, InsType DEF Touched
  <1>3. values[Ins.b] \in U32 /\ values[Ins.flags] \in U32
    BY <1>2 DEF IInv, TypeOK
  <1>4. Divides(Ins.op) => values[Ins.flags] # 0
    BY DEF Compute, ByZero
  <1>5. CASE Ins.op \in Compare
    BY <1>1, <1>2, <1>5, TestType, AssignStep DEF Compute
  <1>6. CASE Ins.op \notin Compare
    <2>1. Apply(Ins.op, values[Ins.b], values[Ins.flags]) \in U32
      BY <1>1, <1>3, <1>4, <1>6, ApplyType
    <2>2. Assign(Apply(Ins.op, values[Ins.b], values[Ins.flags]))
      BY <1>6 DEF Compute
    <2>. QED  BY <1>1, <1>2, <2>1, <2>2, AssignStep
  <1>. QED  BY <1>5, <1>6

\* entering and repeating,
LEMMA RepeatStep == ASSUME IInv, RepeatEnter \/ RepeatNext PROVE IInv'
  <1>. USE DEF IInv, TypeOK, repeat
  <1>1. CASE RepeatEnter
    <2>1. pc + 1 \in Nat /\ Fetched /\ Advance(pc + 1)
      BY <1>1 DEF RepeatEnter
    <2>2. repeat_enter_pc' \in Nat \cup {None} /\ repeat_remaining' \in 0..MaxRepeat
      BY <1>1, LimitsAssumption DEF RepeatEnter, CanEnter
    <2>. QED  BY <1>1, <2>1, <2>2, AdvanceType DEF RepeatEnter
  <1>2. CASE RepeatNext
    <2>1. Fetched /\ Ins.imm \in Nat /\ pc + 1 \in Nat
      BY <1>2, InsType DEF RepeatNext, Instruction
    <2>2. PICK next \in Nat : Advance(next)
      BY <1>2, <2>1 DEF RepeatNext
    <2>3. repeat_enter_pc' \in Nat \cup {None} /\ repeat_remaining' \in 0..MaxRepeat
      BY <1>2, LimitsAssumption DEF RepeatNext, CanNext
    <2>. QED  BY <1>2, <2>1, <2>2, <2>3, AdvanceType DEF RepeatNext
  <1>. QED  BY <1>1, <1>2

\* the result,
LEMMA EmitStep == ASSUME IInv, Emit PROVE IInv'
  <1>1. pc + 1 \in Nat /\ Fetched /\ Advance(pc + 1)
    BY DEF Emit, IInv, TypeOK
  <1>2. emitted' \subseteq initialized'
    BY DEF Emit, CanEmit
  <1>. QED  BY <1>1, <1>2, AdvanceType DEF Emit, IInv, TypeOK, repeat

\* a jump, taken or not,
LEMMA JumpStep == ASSUME IInv, Branch \/ Jump PROVE IInv'
  <1>1. Fetched
    BY DEF Branch, Jump
  <1>2. Ins.imm \in Nat /\ pc + 1 \in Nat
    BY <1>1, InsType DEF Instruction, IInv, TypeOK
  <1>3. PICK next \in Nat : Advance(next)
    BY <1>2 DEF Branch, Jump
  <1>4. UNCHANGED <<values, initialized, repeat, emitted>>
    BY DEF Branch, Jump
  <1>. QED  BY <1>1, <1>3, <1>4, AdvanceType DEF IInv, TypeOK, repeat

\* the end of the run
LEMMA HaltStep == ASSUME IInv, Halt PROVE IInv'
  <1>1. Outcome \in {"running", "done", "divided_by_zero", "fault"}
    BY DEF Outcome
  <1>2. executed' \in 0..MaxSteps
    <2>1. CASE Outcome = "fault"
      BY <2>1 DEF Halt, IInv, TypeOK
    <2>2. CASE Outcome # "fault"
      <3>1. Fetched
        BY <2>2 DEF Outcome
      <3>. QED  BY <2>2, <3>1, LimitsAssumption DEF Halt, IInv, TypeOK, Fetched
    <2>. QED  BY <2>1, <2>2
  <1>. QED  BY <1>1, <1>2 DEF Halt, IInv, TypeOK, Checked, repeat

\* and its beginning.
LEMMA LoadStep == ASSUME IInv, Load \/ Refuse PROVE IInv'
  <1>1. CASE Load
    <2>1. ~RunsWithFrames(program)
      BY ProgramsAssumption DEF IInv, Checked
    <2>2. PlainContract(program) /\ bound' = PlainBound(program)
      BY <1>1, <2>1 DEF Load, IsTypedScalarProgram, ExecutionStepBound
    <2>3. PlainBound(program) <= MaxSteps
      BY <2>2 DEF PlainContract
    <2>. QED  BY <1>1, <2>2, <2>3 DEF Load, IInv, TypeOK, Checked, repeat
  <1>2. CASE Refuse
    BY <1>2 DEF Refuse, IInv, TypeOK, Checked, repeat
  <1>. QED  BY <1>1, <1>2

\* So every step does.
LEMMA NextInv == ASSUME IInv, [Next]_vars PROVE IInv'
  <1>1. CASE UNCHANGED vars
    BY <1>1 DEF vars, IInv, TypeOK, Checked, repeat
  <1>. QED
    BY <1>1, LoadStep, ConstStep, ComputeStep, RepeatStep, EmitStep, JumpStep, HaltStep
    DEF Next

\* The invariant of every run, of any program.
THEOREM Invariance == Spec => []IInv
  BY InitInv, NextInv, PTL DEF Spec

-----------------------------------------------------------------------------

\* Values fit their slots and the step count its budget, for every program.
THEOREM TypeCorrect == Spec => []TypeOK
  BY Invariance, PTL DEF IInv

\* The plain VM has no bounds check of its own; for every program its
\* validator accepts, no instruction it executes indexes beyond the slots the
\* program declares.
THEOREM SlotsAlwaysInBounds == Spec => []SlotsInBounds
  <1>1. IInv => SlotsInBounds
    BY InsType DEF SlotsInBounds
  <1>. QED  BY <1>1, Invariance, PTL

-----------------------------------------------------------------------------
(* Programs with branches *)

\* What is known behind the instruction at i, when In is known before each.
Behind(bc, In, i) ==
    LET ins == bc.code[i]
    IN  CASE ins.op \in {"CONST"} \cup Arith \cup Compare ->
               [In[i] EXCEPT !.init = @ \cup {ins.a}]
          [] ins.op \in {"U32_EMIT", "BOOL_EMIT"} ->
               [In[i] EXCEPT !.emit = {TRUE}, !.types = {ins.op}]
          [] OTHER -> In[i]

FlowStep(bc, In) ==
    [at \in Pcs(bc) |->
        IF at = 0 THEN [init |-> {}, emit |-> {FALSE}, types |-> {}]
        ELSE Joined(bc, {Behind(bc, In, i) : i \in Predecessors(bc, at)})]

Knowledge(bc) == [init : SUBSET AllSlots(bc), emit : SUBSET BOOLEAN, types : SUBSET Opcodes]

\* The analysis of the validator has a result, and it solves its equations.
LEMMA FlowSolves ==
    ASSUME NEW bc, IsBytecode(bc)
    PROVE  Flow(bc) = FlowStep(bc, Flow(bc))
  <1>. DEFINE D == Pcs(bc)
              V == Knowledge(bc)
              F == [h \in [D -> V] |-> FlowStep(bc, h)]
              N == Size(bc)
              rank == [at \in D |-> at]
  <1>1. N \in Nat /\ D = 0..(N - 1)
    BY DEF IsBytecode, Pcs
  <1>2. V # {} /\ rank \in [D -> 0..N]
    <2>1. [init |-> {}, emit |-> {}, types |-> {}] \in V
      BY DEF Knowledge
    <2>. QED  BY <1>1, <2>1
  <1>3. ASSUME NEW h \in [D -> V] PROVE FlowStep(bc, h) \in [D -> V]
    <2>1. ASSUME NEW at \in D, at # 0
          PROVE  Joined(bc, {Behind(bc, h, i) : i \in Predecessors(bc, at)}) \in V
      <3>1. ASSUME NEW i \in Predecessors(bc, at)
            PROVE  Behind(bc, h, i).emit \subseteq BOOLEAN /\ Behind(bc, h, i).types \subseteq Opcodes
        <4>1. i \in D /\ h[i] \in V
          BY <1>1 DEF Predecessors
        <4>. QED  BY <4>1 DEF Behind, Knowledge, Opcodes
      <3>2. \A p \in {Behind(bc, h, i) : i \in Predecessors(bc, at)} :
              p.emit \subseteq BOOLEAN /\ p.types \subseteq Opcodes
        BY <3>1
      <3>. QED  BY <3>2 DEF Joined, Knowledge
    <2>2. [init |-> {}, emit |-> {FALSE}, types |-> {}] \in V
      BY DEF Knowledge
    <2>. HIDE DEF V
    <2>. QED  BY <2>1, <2>2 DEF FlowStep
  <1>4. ASSUME NEW g \in [D -> V], NEW h \in [D -> V], NEW at \in D,
               \A i \in D : rank[i] < rank[at] => g[i] = h[i]
        PROVE  F[g][at] = F[h][at]
    <2>1. \A i \in Predecessors(bc, at) : g[i] = h[i]
      BY <1>1, <1>4 DEF Predecessors
    <2>2. \A i \in Predecessors(bc, at) : Behind(bc, g, i) = Behind(bc, h, i)
      BY <2>1 DEF Behind
    <2>3. {Behind(bc, g, i) : i \in Predecessors(bc, at)} =
            {Behind(bc, h, i) : i \in Predecessors(bc, at)}
      BY <2>2
    <2>4. FlowStep(bc, g)[at] = FlowStep(bc, h)[at]
      BY <2>3 DEF FlowStep
    <2>. QED  BY <2>4
  <1>5. \E h \in [D -> V] : h = F[h]
    <2>1. F \in [[D -> V] -> [D -> V]]
      BY <1>3
    <2>2. \A g, h \in [D -> V] : \A x \in D :
              (\A y \in D : rank[y] < rank[x] => g[y] = h[y]) => F[g][x] = F[h][x]
      BY <1>4
    <2>. HIDE DEF D, V, F, rank, N
    <2>3. DependsDownwards(D, V, N, rank, F)
      BY <1>1, <1>2, <2>1, <2>2 DEF DependsDownwards
    <2>. QED  BY ONLY <2>3, FixedPoint
  <1>6. \E h : h = FlowStep(bc, h)
    <2>1. PICK h \in [D -> V] : h = F[h]
      BY <1>5
    <2>. QED  BY <2>1
  <1>7. Flow(bc) = CHOOSE h : h = FlowStep(bc, h)
    BY DEF Flow, FlowStep, Behind
  <1>. QED  BY <1>6, <1>7

\* What the analysis knows along an edge from at to next.
LEMMA FlowEdge ==
    ASSUME NEW bc, IsBytecode(bc), NEW at \in Pcs(bc), NEW next \in Pcs(bc),
           at < next, next \in Successors(bc, at)
    PROVE  LET In == Flow(bc)
               ins == bc.code[at]
           IN  /\ In[next].init \subseteq
                    In[at].init \cup IF ins.op \in {"CONST"} \cup Arith \cup Compare
                                     THEN {ins.a} ELSE {}
               /\ IF ins.op \in {"U32_EMIT", "BOOL_EMIT"} THEN TRUE \in In[next].emit
                  ELSE In[at].emit \subseteq In[next].emit
  <1>. DEFINE In == Flow(bc)
              out == Behind(bc, In, at)
  <1>1. In = FlowStep(bc, In)
    BY FlowSolves
  <1>2. at \in 0..(next - 1) /\ next # 0
    BY DEF IsBytecode, Pcs
  <1>3. out \in {Behind(bc, In, i) : i \in Predecessors(bc, next)}
    BY <1>2 DEF Predecessors
  <1>4. In[next] = Joined(bc, {Behind(bc, In, i) : i \in Predecessors(bc, next)})
    <2>. HIDE DEF In
    <2>. QED  BY <1>1, <1>2 DEF FlowStep
  <1>5. In[next].init \subseteq out.init /\ out.emit \subseteq In[next].emit
    <2>. HIDE DEF out
    <2>. QED  BY <1>3, <1>4 DEF Joined
  <1>6. \E i, e, t : In[at] = [init |-> i, emit |-> e, types |-> t]
    <2>1. In[at] = FlowStep(bc, In)[at]
      BY <1>1
    <2>. QED  BY <2>1 DEF FlowStep, Joined
  <1>7. bc.code[at].op \in {"CONST"} \cup Arith \cup Compare =>
            out.init = In[at].init \cup {bc.code[at].a} /\ out.emit = In[at].emit
    <2>. HIDE DEF In
    <2>. SUFFICES ASSUME bc.code[at].op \in {"CONST"} \cup Arith \cup Compare
                  PROVE  out.init = In[at].init \cup {bc.code[at].a} /\ out.emit = In[at].emit
      OBVIOUS
    <2>. DEFINE op == bc.code[at].op
                C == {"CONST"} \cup Arith \cup Compare
    <2>0. op \in C /\ op \notin {"U32_EMIT", "BOOL_EMIT"}
      BY DEF Arith, Compare
    <2>1. out = CASE op \in C -> [In[at] EXCEPT !.init = @ \cup {bc.code[at].a}]
                  [] op \in {"U32_EMIT", "BOOL_EMIT"} ->
                       [In[at] EXCEPT !.emit = {TRUE}, !.types = {op}]
                  [] OTHER -> In[at]
      BY DEF Behind
    <2>. HIDE DEF C, op
    <2>2. out = [In[at] EXCEPT !.init = @ \cup {bc.code[at].a}]
      BY <2>0, <2>1
    <2>. HIDE DEF out
    <2>. QED  BY <1>6, <2>2
  <1>8. bc.code[at].op \notin {"CONST"} \cup Arith \cup Compare => out.init = In[at].init
    <2>. HIDE DEF In
    <2>. QED  BY <1>6 DEF Behind
  <1>9. IF bc.code[at].op \in {"U32_EMIT", "BOOL_EMIT"} THEN out.emit = {TRUE}
        ELSE out.emit = In[at].emit
    <2>. HIDE DEF In
    <2>. QED  BY <1>6 DEF Behind, Arith, Compare
  <1>. HIDE DEF out, In
  <1>10. In[next].init \subseteq
            In[at].init \cup IF bc.code[at].op \in {"CONST"} \cup Arith \cup Compare
                             THEN {bc.code[at].a} ELSE {}
    BY <1>5, <1>7, <1>8
  <1>11. IF bc.code[at].op \in {"U32_EMIT", "BOOL_EMIT"} THEN TRUE \in In[next].emit
         ELSE In[at].emit \subseteq In[next].emit
    BY <1>5, <1>9
  <1>. QED  BY <1>10, <1>11 DEF In

\* What the VM finds at each instruction of a program with branches: at least
\* what the validator knows there.
FlowInv ==
    LET known == Flow(program)[pc]
    IN  /\ pc \in Pcs(program) /\ bound = Size(program)
        /\ executed <= pc /\ (JumpFree(program) => executed = pc)
        /\ repeat_remaining = 0
        /\ known.init \subseteq initialized
        /\ (emitted # {}) \in known.emit
        /\ \A s \in program.bools : values[s] <= 1

\* An instruction other than the last that the flow contract lets pass.
FlowLine(bc, i) ==
    LET ins == bc.code[i]
        known == Flow(bc)[i]
    IN  \/ TypedOK(bc, ins, known.init)
        \/ EmitOK(bc, ins, known.init) /\ known.emit = {FALSE}
        \/ /\ ins.op = "JUMP_IF_FALSE" /\ ins.a \in bc.bools /\ ins.a \in known.init
           /\ ins.imm \in (i + 1)..(Size(bc) - 1)
        \/ ins.op = "JUMP" /\ ins.imm \in (i + 1)..(Size(bc) - 1)

\* An accepted program without a repeat has this form.
LEMMA FlowForm ==
    ASSUME NEW bc, IsBytecode(bc), PlainContract(bc), ~HasRepeat(bc)
    PROVE  /\ \A i \in Pcs(bc) : i # Size(bc) - 1 => FlowLine(bc, i)
           /\ bc.code[Size(bc) - 1].op = "END"
           /\ Flow(bc)[Size(bc) - 1].emit = {TRUE}
           /\ Size(bc) >= 3 /\ Size(bc) \in Nat /\ Pcs(bc) = 0..(Size(bc) - 1)
           /\ bc.bools \subseteq AllSlots(bc) /\ AllSlots(bc) \subseteq Slots
           /\ PlainBound(bc) = Size(bc) /\ Size(bc) <= MaxSteps
  <1>1. FlowContract(bc) /\ Size(bc) \in Nat /\ Pcs(bc) = 0..(Size(bc) - 1)
    BY DEF PlainContract, IsBytecode, Pcs
  <1>2. ASSUME NEW i \in Pcs(bc), i # Size(bc) - 1 PROVE FlowLine(bc, i)
    <2>1. i \in 0..((Size(bc) - 1) - 1)
      BY <1>1, <1>2
    <2>. QED  BY <1>1, <2>1, Zenon DEF FlowContract, FlowLine
  <1>3. bc.code[Size(bc) - 1].op = "END" /\ Flow(bc)[Size(bc) - 1].emit = {TRUE} /\ Size(bc) >= 3
    BY <1>1, Zenon DEF FlowContract, EndOK
  <1>4. bc.bools \subseteq AllSlots(bc) /\ AllSlots(bc) \subseteq Slots
    BY LimitsAssumption DEF PlainContract, AllSlots, Slots
  <1>5. PlainBound(bc) = Size(bc) /\ Size(bc) <= MaxSteps
    BY DEF PlainBound, PlainContract
  <1>. QED  BY <1>1, <1>2, <1>3, <1>4, <1>5

\* In a program with branches no check of the VM fails.
LEMMA FlowRuns ==
    ASSUME IInv, status = "running", ~HasRepeat(program), FlowInv
    PROVE  Fetched /\ Can
  <1>. DEFINE known == Flow(program)[pc]
  <1>1. PlainContract(program) /\ IsBytecode(program)
    BY DEF IInv, Checked, TypeOK
  <1>2. pc \in 0..(Size(program) - 1) /\ Size(program) \in Nat
    BY <1>1, FlowForm DEF FlowInv
  <1>3. executed < bound /\ executed < MaxSteps
    <2>1. bound = Size(program) /\ Size(program) <= MaxSteps /\ executed <= pc
      BY <1>1, FlowForm DEF FlowInv
    <2>2. executed \in Nat /\ MaxSteps \in Nat
      BY LimitsAssumption DEF IInv, TypeOK
    <2>. QED  BY <1>2, <2>1, <2>2
  <1>4. Fetched
    <2>1. pc \in Pcs(program)
      BY DEF FlowInv
    <2>. QED  BY <1>3, <2>1 DEF Fetched
  <1>5. CASE pc = Size(program) - 1
    <2>. DEFINE last == Size(program) - 1
    <2>0. program.code[last].op = "END" /\ Flow(program)[last].emit = {TRUE}
      BY <1>1, FlowForm
    <2>1. Ins.op = "END" /\ pc + 1 = Size(program) /\ known.emit = {TRUE}
      BY <1>2, <1>5, <2>0 DEF Ins
    <2>. QED  BY <1>4, <2>1 DEF Can, CanEnd, FlowInv
  <1>6. CASE pc # Size(program) - 1
    <2>1. FlowLine(program, pc) /\ known.init \subseteq initialized
      BY <1>1, <1>6, FlowForm DEF FlowInv
    <2>2. CASE TypedOK(program, Ins, known.init)
      BY <1>4, <2>1, <2>2
      DEF TypedOK, ConstOK, BinaryOK, Reads, Known, Can, CanConst, CanCompute
    <2>3. CASE EmitOK(program, Ins, known.init) /\ known.emit = {FALSE}
      <3>1. emitted = {}
        BY <2>3 DEF FlowInv
      <3>. QED  BY <1>4, <2>1, <2>3, <3>1 DEF EmitOK, Can, CanEmit
    <2>4. CASE /\ Ins.op = "JUMP_IF_FALSE" /\ Ins.a \in program.bools /\ Ins.a \in known.init
               /\ Ins.imm \in (pc + 1)..(Size(program) - 1)
      BY <1>4, <2>1, <2>4 DEF Can, CanBranch, Forward, FlowInv
    <2>5. CASE Ins.op = "JUMP" /\ Ins.imm \in (pc + 1)..(Size(program) - 1)
      BY <1>4, <2>5 DEF Can, CanJump, Forward
    <2>. QED  BY <2>1, <2>2, <2>3, <2>4, <2>5 DEF FlowLine, Ins
  <1>. QED  BY <1>5, <1>6

\* A step along an edge keeps it.
LEMMA FlowMove ==
    ASSUME IInv, status = "running", ~HasRepeat(program), FlowInv,
           NEW next \in Successors(program, pc), next \in Pcs(program), pc < next,
           Advance(next), JumpFree(program) => next = pc + 1,
           repeat_remaining' = 0, initialized \subseteq initialized',
           Ins.op \in {"CONST"} \cup Arith \cup Compare => Ins.a \in initialized',
           emitted' # {} <=> (emitted # {} \/ Ins.op \in {"U32_EMIT", "BOOL_EMIT"}),
           \A s \in program.bools : values'[s] <= 1
    PROVE  FlowInv'
  <1>. DEFINE In == Flow(program)
  <1>1. /\ In[next].init \subseteq
              In[pc].init \cup IF Ins.op \in {"CONST"} \cup Arith \cup Compare
                               THEN {Ins.a} ELSE {}
        /\ IF Ins.op \in {"U32_EMIT", "BOOL_EMIT"} THEN TRUE \in In[next].emit
           ELSE In[pc].emit \subseteq In[next].emit
    BY FlowEdge DEF IInv, TypeOK, FlowInv, Ins
  <1>2. In[pc].init \subseteq initialized /\ (emitted # {}) \in In[pc].emit
    BY DEF FlowInv
  <1>3. In[next].init \subseteq initialized'
    BY <1>1, <1>2
  <1>4. (emitted' # {}) \in In[next].emit
    <2>1. CASE Ins.op \in {"U32_EMIT", "BOOL_EMIT"}
      <3>1. (emitted' # {}) = TRUE
        BY <2>1
      <3>. QED  BY <1>1, <2>1, <3>1
    <2>2. CASE Ins.op \notin {"U32_EMIT", "BOOL_EMIT"}
      <3>1. (emitted' # {}) = (emitted # {})
        BY <2>2
      <3>. QED  BY <1>1, <1>2, <2>2, <3>1
    <2>. QED  BY <2>1, <2>2
  <1>5. program' = program /\ pc' = next /\ bound' = bound /\ executed' = executed + 1
    BY DEF Advance
  <1>6. pc \in Nat /\ next \in Nat /\ executed \in Nat
    BY DEF IInv, TypeOK, IsBytecode, Pcs
  <1>7. executed' <= pc' /\ (JumpFree(program) => executed' = pc')
    BY <1>5, <1>6 DEF FlowInv
  <1>8. Flow(program)'[pc'] = In[next]
    BY <1>5
  <1>. HIDE DEF In
  <1>. QED  BY <1>3, <1>4, <1>5, <1>7, <1>8 DEF FlowInv

\* An instruction that is not END has another behind it, and is one that the
\* flow contract lets pass.
LEMMA FlowNotLast ==
    ASSUME IInv, status = "running", ~HasRepeat(program), FlowInv, Ins.op # "END"
    PROVE  FlowLine(program, pc) /\ pc \in Nat /\ pc + 1 \in Pcs(program)
  <1>1. PlainContract(program) /\ IsBytecode(program)
    BY DEF IInv, Checked, TypeOK
  <1>2. pc # Size(program) - 1
    BY <1>1, FlowForm DEF Ins
  <1>3. pc \in 0..(Size(program) - 1) /\ Size(program) \in Nat
        /\ Pcs(program) = 0..(Size(program) - 1)
    BY <1>1, FlowForm DEF FlowInv
  <1>4. pc + 1 \in Pcs(program)
    BY <1>2, <1>3
  <1>5. FlowLine(program, pc)
    <2>1. \A i \in Pcs(program) : i # Size(program) - 1 => FlowLine(program, i)
      BY <1>1, FlowForm
    <2>. QED  BY <1>2, <1>3, <2>1
  <1>. QED  BY <1>3, <1>4, <1>5

\* Assignments keep it.
LEMMA FlowAssign ==
    ASSUME IInv, status = "running", ~HasRepeat(program), FlowInv, Const \/ Compute
    PROVE  FlowInv'
  <1>1. Ins.op \in {"CONST"} \cup Arith \cup Compare \cup Set
    BY DEF Const, Compute, CanConst, CanCompute, CanSet
  <1>2. Ins.op \notin {"END", "U32_EMIT", "BOOL_EMIT", "JUMP", "JUMP_IF_FALSE"}
    BY <1>1 DEF Arith, Compare, Set
  <1>3. FlowLine(program, pc) /\ pc \in Nat /\ pc + 1 \in Pcs(program)
    BY <1>2, FlowNotLast
  <1>4. TypedOK(program, Ins, Flow(program)[pc].init)
    BY <1>2, <1>3 DEF FlowLine, EmitOK, Ins
  <1>5. Ins.op \notin Compare => Ins.a \notin program.bools
    BY <1>4 DEF TypedOK, BinaryOK
  <1>6. pc + 1 \in Successors(program, pc) /\ pc < pc + 1
    BY <1>2, <1>3 DEF Successors, Ins
  <1>7. PICK v : Assign(v) /\ (Ins.op \in Compare => v <= 1)
    <2>1. CASE Const
      <3>1. Ins.op \notin Compare
        BY <2>1 DEF Const, CanConst, Compare
      <3>. QED  BY <2>1, <3>1 DEF Const
    <2>2. CASE Compute
      BY <2>2 DEF Compute, Test
    <2>. QED  BY <2>1, <2>2
  <1>8. Advance(pc + 1) /\ initialized' = initialized \cup {Ins.a}
        /\ emitted' = emitted /\ repeat_remaining' = 0
    BY <1>7 DEF Assign, repeat, FlowInv
  <1>9. ASSUME NEW s \in program.bools PROVE values'[s] <= 1
    <2>1. values[s] <= 1
      BY DEF FlowInv
    <2>2. values' = [values EXCEPT ![Ins.a] = v]
      BY <1>7 DEF Assign
    <2>3. s \in Slots
      BY FlowForm DEF IInv, Checked, TypeOK
    <2>. QED  BY <1>5, <1>7, <2>1, <2>2, <2>3 DEF IInv, TypeOK
  <1>. QED  BY <1>2, <1>3, <1>6, <1>8, <1>9, FlowMove

\* So do the other instructions of these programs.
LEMMA FlowOther ==
    ASSUME IInv, status = "running", ~HasRepeat(program), FlowInv,
           Emit \/ Branch \/ Jump \/ RepeatEnter \/ RepeatNext
    PROVE  FlowInv'
  <1>1. Fetched /\ (CanEmit \/ CanBranch \/ CanJump \/ CanEnter \/ CanNext)
    BY DEF Emit, Branch, Jump, RepeatEnter, RepeatNext
  <1>2. ~CanEnter /\ ~CanNext
    BY <1>1 DEF HasRepeat, CanEnter, CanNext, Fetched, Ins
  <1>3. Ins.op \in {"U32_EMIT", "BOOL_EMIT", "JUMP", "JUMP_IF_FALSE"}
    BY <1>1, <1>2 DEF CanEmit, CanBranch, CanJump
  <1>4. FlowLine(program, pc) /\ pc \in Nat /\ pc + 1 \in Pcs(program)
    BY <1>3, FlowNotLast
  <1>5. \A s \in program.bools : values[s] <= 1
    BY DEF FlowInv
  <1>6. Ins.op \notin {"CONST"} \cup Arith \cup Compare
    BY <1>3 DEF Arith, Compare
  <1>7. CASE Emit
    <2>1. pc + 1 \in Successors(program, pc) /\ pc < pc + 1
      BY <1>4, <1>7 DEF Successors, Ins, Emit, CanEmit
    <2>2. /\ Advance(pc + 1) /\ initialized' = initialized /\ values' = values
          /\ emitted' = {Ins.a} /\ repeat_remaining' = 0 /\ Ins.op \in {"U32_EMIT", "BOOL_EMIT"}
      BY <1>7 DEF Emit, CanEmit, repeat, FlowInv
    <2>. QED  BY <1>4, <1>5, <1>6, <2>1, <2>2, FlowMove
  <1>8. CASE Branch \/ Jump
    <2>1. Forward /\ Ins.op \in {"JUMP", "JUMP_IF_FALSE"}
          /\ (Ins.op = "JUMP" => Advance(Ins.imm))
          /\ (Ins.op = "JUMP_IF_FALSE" => Advance(pc + 1) \/ Advance(Ins.imm))
          /\ UNCHANGED <<values, initialized, repeat, emitted>>
      BY <1>8 DEF Branch, Jump, CanBranch, CanJump
    <2>2. Ins.imm \in Pcs(program) /\ pc < Ins.imm
      <3>1. Pcs(program) = 0..(Size(program) - 1) /\ Size(program) \in Nat
        BY FlowForm DEF IInv, Checked, TypeOK
      <3>. QED  BY <1>4, <2>1, <3>1 DEF Forward
    <2>3. PICK next \in {pc + 1, Ins.imm} : Advance(next) /\ (Ins.op = "JUMP" => next = Ins.imm)
      BY <2>1
    <2>4. next \in Successors(program, pc) /\ next \in Pcs(program) /\ pc < next
      BY <1>4, <2>1, <2>2, <2>3 DEF Successors, Ins
    <2>5. ~JumpFree(program)
      BY <1>1, <2>1 DEF JumpFree, Fetched, Ins
    <2>6. initialized' = initialized /\ values' = values /\ emitted' = emitted
          /\ repeat_remaining' = 0
      BY <2>1 DEF repeat, FlowInv
    <2>. QED  BY <1>3, <1>5, <1>6, <2>1, <2>3, <2>4, <2>5, <2>6, FlowMove
  <1>. QED  BY <1>1, <1>2, <1>7, <1>8 DEF RepeatEnter, RepeatNext

-----------------------------------------------------------------------------
(* Programs with a repeat *)

\* One turn of the repeat, and all of them.
Turn(enter, next) == (next + 1) - enter
Turns(bc, enter, next) == bc.code[enter].a * Turn(enter, next)

\* The form of these programs: straight code, the repeat, an emit and END.
RepeatForm(bc, enter, next) ==
    LET enters == bc.code[enter]
        nexts == bc.code[next]
    IN  /\ enter \in Nat /\ next \in Nat /\ next > enter + 1 /\ next + 3 = Size(bc)
        /\ enters.op = "REPEAT_ENTER" /\ enters.a \in 1..MaxRepeat /\ enters.imm = next + 1
        /\ nexts.op = "REPEAT_NEXT" /\ nexts.imm = enter
        /\ \A i \in 0..(enter - 1) : TypedOK(bc, bc.code[i], Defined(bc, 0, i))
        /\ AllSlots(bc) \subseteq Defined(bc, 0, enter)
        /\ \A i \in (enter + 1)..(next - 1) :
              SetOK(bc.code[i], Known(bc.scalars, AllSlots(bc), bc.bools))
        /\ EmitOK(bc, bc.code[next + 1], AllSlots(bc))
        /\ bc.code[next + 2].op = "END"
        /\ Turns(bc, enter, next) \in Nat
        /\ PlainBound(bc) = Size(bc) + Turns(bc, enter, next) - Turn(enter, next)

\* An accepted program with a repeat has this form.
LEMMA RepeatFormed ==
    ASSUME NEW bc, IsBytecode(bc), PlainContract(bc), HasRepeat(bc)
    PROVE  \E enter, next : RepeatForm(bc, enter, next)
  <1>1. PICK enter \in Pcs(bc), next \in Pcs(bc) :
            /\ At(bc, "REPEAT_ENTER") = {enter} /\ At(bc, "REPEAT_NEXT") = {next}
            /\ bc.code[enter].a \in 1..MaxRepeat
            /\ next > enter + 1 /\ bc.code[enter].imm = next + 1
            /\ bc.code[next].imm = enter /\ next + 3 = Size(bc)
            /\ \A i \in 0..(enter - 1) : TypedOK(bc, bc.code[i], Defined(bc, 0, i))
            /\ AllSlots(bc) \subseteq Defined(bc, 0, enter)
            /\ \A i \in (enter + 1)..(next - 1) :
                SetOK(bc.code[i], Known(bc.scalars, AllSlots(bc), bc.bools))
            /\ EmitOK(bc, bc.code[next + 1], AllSlots(bc))
            /\ EndOK(bc, next + 2)
    BY DEF PlainContract, RepeatContract
  <1>2. enter \in Nat /\ next \in Nat
    BY DEF IsBytecode, Pcs
  <1>3. bc.code[enter].op = "REPEAT_ENTER" /\ bc.code[next].op = "REPEAT_NEXT"
    BY <1>1 DEF At
  <1>4. enter = CHOOSE i \in Pcs(bc) : bc.code[i].op = "REPEAT_ENTER"
    <2>1. \A i \in Pcs(bc) : bc.code[i].op = "REPEAT_ENTER" => i = enter
      BY <1>1 DEF At
    <2>. QED  BY <1>3, <2>1
  <1>6. Turns(bc, enter, next) \in Nat
    BY <1>1, <1>2, LimitsAssumption DEF Turns, Turn
  <1>7. PlainBound(bc) = Size(bc) + Turns(bc, enter, next) - Turn(enter, next)
    <2>1. bc.code[enter].imm - enter = Turn(enter, next)
      <3>1. bc.code[enter].imm = next + 1
        BY <1>1
      <3>. QED  BY <1>2, <3>1 DEF Turn
    <2>2. RepeatCost(bc.code[enter], enter) = Turns(bc, enter, next)
      BY <2>1 DEF RepeatCost, Turns
    <2>. QED  BY <1>4, <2>1, <2>2 DEF PlainBound
  <1>8. bc.code[next + 2].op = "END"
    BY <1>1 DEF EndOK
  <1>9. RepeatForm(bc, enter, next)
    BY <1>1, <1>2, <1>3, <1>6, <1>7, <1>8, Zenon DEF RepeatForm
  <1>. QED  BY <1>9

\* Turns that are left, counted in steps.
LEMMA TurnsLeft ==
    ASSUME NEW r \in Nat, r >= 1, NEW n \in Nat
    PROVE  r * n \in Nat /\ r * n >= n /\ (r - 1) * n = r * n - n
  <1>1. (r - 1) * n \in Nat /\ r * n = (r - 1) * n + n
    OBVIOUS
  <1>. QED  BY <1>1

\* The turns done are a natural part of all the turns.
LEMMA TurnsDone ==
    ASSUME NEW a \in Nat, NEW r \in 0..a, NEW n \in Nat
    PROVE  r * n \in Nat /\ a * n \in Nat /\ r * n <= a * n
  <1>1. (a - r) * n \in Nat /\ a * n = (a - r) * n + r * n /\ r * n \in Nat
    OBVIOUS
  <1>. QED  BY <1>1

\* Where the run is, what it has executed and what is initialized there.
RepeatAt(enter, next) ==
    LET turn == Turn(enter, next)
        turns == Turns(program, enter, next)
    IN  /\ pc \in Pcs(program)
        /\ \/ /\ pc <= enter /\ repeat_remaining = 0 /\ executed = pc
              /\ Defined(program, 0, pc) \subseteq initialized
           \/ /\ pc \in enter..next /\ repeat_enter_pc = enter
              /\ repeat_remaining \in 1..program.code[enter].a
              /\ executed = pc + turns - repeat_remaining * turn
              /\ AllSlots(program) \subseteq initialized
           \/ /\ pc > next /\ repeat_remaining = 0
              /\ executed = pc + turns - turn
              /\ AllSlots(program) \subseteq initialized
        /\ emitted # {} <=> pc = next + 2

RepeatInv ==
    /\ bound = PlainBound(program)
    /\ \E enter, next : RepeatForm(program, enter, next) /\ RepeatAt(enter, next)

\* In a program with a repeat no check of the VM fails.
LEMMA RepeatRuns ==
    ASSUME IInv, status = "running", RepeatInv
    PROVE  Fetched /\ Can
  <1>1. PICK enter, next : RepeatForm(program, enter, next) /\ RepeatAt(enter, next)
    BY DEF RepeatInv
  <1>. DEFINE turn == Turn(enter, next)
              turns == Turns(program, enter, next)
              count == program.code[enter].a
  <1>2. Size(program) \in Nat /\ Pcs(program) = 0..(Size(program) - 1)
    BY DEF IInv, TypeOK, IsBytecode, Pcs
  <1>3. enter \in Nat /\ next \in Nat /\ next > enter + 1 /\ next + 3 = Size(program)
        /\ count \in Nat /\ count >= 1
    BY <1>1, LimitsAssumption DEF RepeatForm
  <1>4. turn \in Nat /\ turns \in Nat
    BY <1>1, <1>3 DEF RepeatForm, Turn
  <1>5. pc \in 0..(next + 2)
    BY <1>1, <1>2, <1>3 DEF RepeatAt
  <1>6. executed < bound
    <2>1. bound = Size(program) + turns - turn
      BY <1>1 DEF RepeatInv, RepeatForm
    <2>2. turns >= turn
      BY <1>3, <1>4, TurnsLeft DEF Turns
    <2>3. CASE pc <= enter /\ executed = pc
      BY <1>2, <1>3, <1>4, <1>5, <2>1, <2>2, <2>3
    <2>4. CASE /\ pc \in enter..next /\ repeat_remaining \in 1..count
               /\ executed = pc + turns - repeat_remaining * turn
      <3>1. repeat_remaining * turn \in Nat /\ repeat_remaining * turn >= turn
        BY <1>3, <1>4, <2>4, TurnsLeft
      <3>. DEFINE left == repeat_remaining * turn
      <3>. HIDE DEF left, turn, turns
      <3>2. left \in Nat /\ left >= turn /\ executed = pc + turns - left
        BY <2>4, <3>1 DEF left
      <3>. QED  BY ONLY <1>2, <1>3, <1>4, <1>5, <2>1, <3>2
    <2>5. CASE pc > next /\ executed = pc + turns - turn
      BY <1>2, <1>3, <1>4, <1>5, <2>1, <2>5
    <2>. QED  BY <1>1, <2>3, <2>4, <2>5 DEF RepeatAt
  <1>7. Fetched
    <2>1. bound = Size(program) + turns - turn /\ bound <= MaxSteps
      BY <1>1 DEF RepeatInv, RepeatForm, IInv, TypeOK
    <2>2. executed < MaxSteps
      <3>. HIDE DEF turn, turns
      <3>. QED  BY <1>2, <1>4, <1>6, <2>1, LimitsAssumption DEF IInv, TypeOK
    <2>. QED  BY <1>1, <1>6, <2>2 DEF RepeatAt, Fetched
  <1>8. ASSUME pc < enter PROVE Can
    <2>1. TypedOK(program, Ins, Defined(program, 0, pc)) /\ Defined(program, 0, pc) \subseteq initialized
      BY <1>1, <1>3, <1>5, <1>8 DEF RepeatForm, RepeatAt, Ins
    <2>. QED
      BY <2>1 DEF TypedOK, ConstOK, BinaryOK, Reads, Known, Can, CanConst, CanCompute
  <1>9. ASSUME pc = enter PROVE Can
    <2>1. Ins.op = "REPEAT_ENTER" /\ Ins.a \in 1..MaxRepeat /\ Ins.imm = next + 1
      BY <1>1, <1>9 DEF RepeatForm, Ins
    <2>2. Forward /\ Ins.imm > pc + 1
      BY <1>2, <1>3, <1>9, <2>1 DEF Forward
    <2>3. repeat_remaining = 0 \/ repeat_enter_pc = pc
      BY <1>1, <1>3, <1>9 DEF RepeatAt
    <2>. QED  BY <2>1, <2>2, <2>3 DEF Can, CanEnter
  <1>10. ASSUME pc \in (enter + 1)..(next - 1) PROVE Can
    <2>1. SetOK(Ins, Known(program.scalars, AllSlots(program), program.bools))
      BY <1>1, <1>10 DEF RepeatForm, Ins
    <2>2. AllSlots(program) \subseteq initialized
      BY <1>1, <1>3, <1>10 DEF RepeatAt
    <2>. QED  BY <2>1, <2>2 DEF SetOK, Reads, Known, Can, CanSet
  <1>11. ASSUME pc = next PROVE Can
    <2>1. Ins.op = "REPEAT_NEXT" /\ Ins.imm = enter
      BY <1>1, <1>11 DEF RepeatForm, Ins
    <2>2. repeat_remaining > 0 /\ repeat_enter_pc = enter
      BY <1>1, <1>3, <1>11 DEF RepeatAt
    <2>. QED  BY <1>3, <1>11, <2>1, <2>2 DEF Can, CanNext
  <1>12. ASSUME pc = next + 1 PROVE Can
    <2>1. EmitOK(program, Ins, AllSlots(program)) /\ AllSlots(program) \subseteq initialized
      BY <1>1, <1>3, <1>12 DEF RepeatForm, RepeatAt, Ins
    <2>2. emitted = {}
      BY <1>1, <1>3, <1>12 DEF RepeatAt
    <2>. QED  BY <2>1, <2>2 DEF EmitOK, Can, CanEmit
  <1>13. ASSUME pc = next + 2 PROVE Can
    <2>1. Ins.op = "END" /\ emitted # {} /\ repeat_remaining = 0 /\ pc + 1 = Size(program)
      BY <1>1, <1>3, <1>13 DEF RepeatForm, RepeatAt, Ins
    <2>. QED  BY <2>1 DEF Can, CanEnd
  <1>14. \/ pc < enter \/ pc = enter \/ pc \in (enter + 1)..(next - 1)
         \/ pc = next \/ pc = next + 1 \/ pc = next + 2
    BY <1>3, <1>5
  <1>. QED  BY <1>7, <1>8, <1>9, <1>10, <1>11, <1>12, <1>13, <1>14

\* Assignments keep it.
LEMMA RepeatAssign ==
    ASSUME IInv, status = "running", RepeatInv, Const \/ Compute
    PROVE  RepeatInv'
  <1>1. PICK enter, next : RepeatForm(program, enter, next) /\ RepeatAt(enter, next)
    BY DEF RepeatInv
  <1>2. Size(program) \in Nat /\ Pcs(program) = 0..(Size(program) - 1)
    BY DEF IInv, TypeOK, IsBytecode, Pcs
  <1>3. enter \in Nat /\ next \in Nat /\ next > enter + 1 /\ next + 3 = Size(program)
    BY <1>1 DEF RepeatForm
  <1>4. pc \in 0..(next + 2)
    BY <1>1, <1>2, <1>3 DEF RepeatAt
  <1>5. /\ Turn(enter, next) \in Int /\ Turns(program, enter, next) \in Int
        /\ repeat_remaining * Turn(enter, next) \in Int
    BY <1>1, <1>3 DEF RepeatForm, Turn, IInv, TypeOK
  <1>6. Ins.op \in {"CONST"} \cup Arith \cup Compare \cup Set
    BY DEF Const, Compute, CanConst, CanCompute, CanSet
  <1>7. pc < enter \/ pc \in (enter + 1)..(next - 1)
    <2>1. Ins.op \notin {"REPEAT_ENTER", "REPEAT_NEXT", "U32_EMIT", "BOOL_EMIT", "END"}
      BY <1>6 DEF Arith, Compare, Set
    <2>2. pc # enter /\ pc # next /\ pc # next + 2
      BY <1>1, <2>1 DEF RepeatForm, Ins
    <2>3. pc # next + 1
      BY <1>1, <2>1 DEF RepeatForm, Ins, EmitOK
    <2>. QED  BY <1>3, <1>4, <2>2, <2>3
  <1>8. PICK v : Assign(v)
    BY DEF Const, Compute
  <1>9. /\ program' = program /\ bound' = bound /\ pc' = pc + 1 /\ executed' = executed + 1
        /\ initialized' = initialized \cup {Ins.a} /\ emitted' = emitted
        /\ repeat_remaining' = repeat_remaining /\ repeat_enter_pc' = repeat_enter_pc
    BY <1>8 DEF Assign, Advance, repeat
  <1>10. RepeatAt(enter, next)'
    <2>1. pc + 1 \in Pcs(program)
      BY <1>2, <1>3, <1>4, <1>7
    <2>2. emitted' # {} <=> pc' = next + 2
      BY <1>1, <1>3, <1>4, <1>7, <1>9 DEF RepeatAt
    <2>3. CASE pc < enter
      <3>1. repeat_remaining = 0 /\ executed = pc /\ Defined(program, 0, pc) \subseteq initialized
        BY <1>1, <1>3, <1>4, <2>3 DEF RepeatAt
      <3>2. Defined(program, 0, pc + 1) \subseteq Defined(program, 0, pc) \cup {Ins.a}
        BY <1>4 DEF Defined, Ins
      <3>. QED  BY <1>3, <1>4, <1>9, <2>1, <2>2, <2>3, <3>1, <3>2 DEF RepeatAt
    <2>4. CASE pc \in (enter + 1)..(next - 1)
      <3>1. /\ repeat_enter_pc = enter /\ repeat_remaining \in 1..program.code[enter].a
            /\ executed = pc + Turns(program, enter, next) - repeat_remaining * Turn(enter, next)
            /\ AllSlots(program) \subseteq initialized
        BY <1>1, <1>3, <2>4 DEF RepeatAt
      <3>. DEFINE turns == Turns(program, enter, next)
                  left == repeat_remaining * Turn(enter, next)
      <3>2. turns \in Int /\ left \in Int
        BY <1>5
      <3>3. executed + 1 = (pc + 1) + turns - left
        <4>1. executed = pc + turns - left
          BY <3>1
        <4>. HIDE DEF turns, left
        <4>. QED  BY <1>4, <3>2, <4>1
      <3>4. pc + 1 \in enter..next
        BY <1>3, <1>4, <2>4
      <3>. HIDE DEF turns, left
      <3>. QED  BY <1>9, <2>1, <2>2, <3>1, <3>3, <3>4 DEF RepeatAt, turns, left
    <2>. QED  BY <1>7, <2>3, <2>4
  <1>. QED  BY <1>1, <1>9, <1>10 DEF RepeatInv

\* A program with a repeat has no jumps: every instruction has its place.
LEMMA RepeatPlaces ==
    ASSUME IInv, status = "running", NEW enter, NEW next,
           RepeatForm(program, enter, next), RepeatAt(enter, next)
    PROVE  /\ pc \in 0..(next + 2) /\ enter \in Nat /\ next \in Nat /\ next > enter + 1
           /\ Pcs(program) = 0..(next + 2)
           /\ Turn(enter, next) \in Nat /\ Turns(program, enter, next) \in Nat
           /\ Ins.op \notin {"JUMP", "JUMP_IF_FALSE"}
           /\ Ins.op = "REPEAT_ENTER" => pc = enter
           /\ Ins.op = "REPEAT_NEXT" => pc = next
           /\ Ins.op \in {"U32_EMIT", "BOOL_EMIT"} => pc = next + 1
  <1>1. enter \in Nat /\ next \in Nat /\ next > enter + 1 /\ next + 3 = Size(program)
        /\ Turns(program, enter, next) \in Nat
    BY DEF RepeatForm
  <1>2. Pcs(program) = 0..(next + 2)
    BY <1>1 DEF IInv, TypeOK, IsBytecode, Pcs
  <1>3. pc \in 0..(next + 2)
    BY <1>2 DEF RepeatAt
  <1>4. CASE pc < enter
    <2>1. Ins.op \in {"CONST"} \cup Arith \cup Compare
      BY <1>1, <1>3, <1>4 DEF RepeatForm, Ins, TypedOK, ConstOK, BinaryOK
    <2>. QED  BY <1>1, <1>2, <1>3, <2>1 DEF Arith, Compare, Turn
  <1>5. CASE pc \in (enter + 1)..(next - 1)
    <2>1. Ins.op \in Set
      BY <1>5 DEF RepeatForm, Ins, SetOK
    <2>. QED  BY <1>1, <1>2, <1>3, <2>1 DEF Set, Turn
  <1>6. CASE pc \in {enter, next, next + 1, next + 2}
    <2>1. /\ pc = enter => Ins.op = "REPEAT_ENTER"
          /\ pc = next => Ins.op = "REPEAT_NEXT"
          /\ pc = next + 1 => Ins.op \in {"U32_EMIT", "BOOL_EMIT"}
          /\ pc = next + 2 => Ins.op = "END"
      BY DEF RepeatForm, Ins, EmitOK
    <2>. QED  BY <1>1, <1>2, <1>3, <1>6, <2>1 DEF Turn
  <1>. QED  BY <1>1, <1>3, <1>4, <1>5, <1>6

\* The other instructions keep it, too.
LEMMA RepeatOther ==
    ASSUME IInv, status = "running", RepeatInv,
           RepeatEnter \/ RepeatNext \/ Emit \/ Branch \/ Jump
    PROVE  RepeatInv'
  <1>1. PICK enter, next : RepeatForm(program, enter, next) /\ RepeatAt(enter, next)
    BY DEF RepeatInv
  <1>. DEFINE turn == Turn(enter, next)
              turns == Turns(program, enter, next)
              count == program.code[enter].a
              left == repeat_remaining * turn
  <1>2. /\ pc \in 0..(next + 2) /\ enter \in Nat /\ next \in Nat /\ next > enter + 1
        /\ Pcs(program) = 0..(next + 2) /\ turn \in Nat /\ turns \in Nat
        /\ count \in Nat /\ count >= 1
    <2>1. count \in 1..MaxRepeat /\ MaxRepeat \in Nat
      BY <1>1, LimitsAssumption DEF RepeatForm
    <2>2. count \in Nat /\ count >= 1
      BY <2>1
    <2>. QED  BY <1>1, <2>2, RepeatPlaces
  <1>3. ~(Branch \/ Jump)
    BY <1>1, RepeatPlaces DEF Branch, Jump, CanBranch, CanJump
  <1>4. program' = program /\ bound' = bound /\ executed' = executed + 1
    BY <1>3 DEF RepeatEnter, RepeatNext, Emit, Advance
  <1>5. CASE RepeatEnter
    <2>1. Ins.op = "REPEAT_ENTER" /\ pc = enter
      BY <1>1, <1>5, RepeatPlaces DEF RepeatEnter, CanEnter
    <2>2. /\ initialized' = initialized /\ emitted' = emitted /\ pc' = pc + 1
          /\ IF repeat_remaining > 0 THEN UNCHANGED repeat
             ELSE repeat_remaining' = count /\ repeat_enter_pc' = pc
      BY <1>5, <2>1 DEF RepeatEnter, Advance, Ins
    <2>3. AllSlots(program) \subseteq initialized
      BY <1>1, <1>2, <2>1 DEF RepeatAt, RepeatForm
    <2>4. /\ repeat_enter_pc' = enter /\ repeat_remaining' \in 1..count
          /\ executed = pc + turns - repeat_remaining' * turn
      <3>1. CASE repeat_remaining > 0
        BY <1>1, <1>2, <2>1, <2>2, <3>1 DEF RepeatAt, repeat
      <3>2. CASE ~(repeat_remaining > 0)
        <4>1. executed = pc /\ repeat_remaining' = count /\ repeat_enter_pc' = enter
          BY <1>1, <1>2, <2>1, <2>2, <3>2 DEF RepeatAt
        <4>2. repeat_remaining' * turn = turns
          BY <4>1 DEF Turns
        <4>. HIDE DEF turns, turn
        <4>. QED  BY <1>2, <4>1, <4>2
      <3>. QED  BY <3>1, <3>2
    <2>5. repeat_remaining' * turn \in Int
      BY <1>2, <2>4
    <2>6. executed + 1 = (pc + 1) + turns - repeat_remaining' * turn
      <3>. DEFINE rest == repeat_remaining' * turn
      <3>1. executed = pc + turns - rest /\ rest \in Int
        BY <2>4, <2>5
      <3>. HIDE DEF rest, turns
      <3>2. executed + 1 = (pc + 1) + turns - rest
        BY <1>2, <3>1
      <3>. QED  BY <3>2 DEF rest
    <2>7. pc + 1 \in Pcs(program) /\ pc + 1 \in enter..next
          /\ (emitted' # {} <=> pc' = next + 2)
      BY <1>1, <1>2, <2>1, <2>2 DEF RepeatAt
    <2>8. RepeatAt(enter, next)'
      <3>. HIDE DEF turns, turn
      <3>. QED  BY <1>4, <2>2, <2>3, <2>4, <2>6, <2>7 DEF RepeatAt, turns, turn
    <2>. QED  BY <1>1, <1>4, <2>8 DEF RepeatInv
  <1>6. CASE RepeatNext
    <2>1. pc = next /\ Ins.imm = enter
      BY <1>1, <1>6, RepeatPlaces DEF RepeatNext, CanNext, RepeatForm, Ins
    <2>2. /\ AllSlots(program) \subseteq initialized /\ repeat_remaining \in 1..count
          /\ repeat_enter_pc = enter /\ executed = pc + turns - left
      BY <1>1, <1>2, <2>1 DEF RepeatAt
    <2>3. initialized' = initialized /\ emitted' = emitted
      BY <1>6 DEF RepeatNext
    <2>4. emitted = {}
      BY <1>1, <1>2, <2>1 DEF RepeatAt
    <2>5. left \in Nat /\ (repeat_remaining - 1) * turn = left - turn
      BY <1>2, <2>2, TurnsLeft
    <2>6. CASE repeat_remaining > 1
      <3>1. pc' = enter /\ repeat_remaining' = repeat_remaining - 1 /\ repeat_enter_pc' = enter
        BY <1>6, <2>1, <2>2, <2>6 DEF RepeatNext, Advance
      <3>2. executed' = enter + turns - (left - turn)
        <4>1. turn = (next + 1) - enter
          BY DEF Turn
        <4>. HIDE DEF turn, turns, left
        <4>. QED  BY <1>2, <1>4, <2>1, <2>2, <2>5, <4>1
      <3>3. repeat_remaining' * turn = left - turn
        BY <2>5, <3>1
      <3>4. repeat_remaining' \in 1..count /\ enter \in enter..next /\ enter \in Pcs(program)
            /\ (emitted' # {} <=> pc' = next + 2)
        <4>1. repeat_remaining - 1 \in 1..count
          BY <1>2, <2>2, <2>6
        <4>2. enter \in enter..next /\ enter \in Pcs(program) /\ enter # next + 2
          BY <1>2
        <4>. QED  BY <2>3, <2>4, <3>1, <4>1, <4>2
      <3>5. executed' = enter + turns - repeat_remaining' * turn
        BY <3>2, <3>3
      <3>6. RepeatAt(enter, next)'
        <4>. HIDE DEF turn, turns, left
        <4>. QED  BY <1>4, <2>2, <2>3, <3>1, <3>4, <3>5 DEF RepeatAt, turns, turn
      <3>. QED  BY <1>1, <1>4, <3>6 DEF RepeatInv
    <2>7. CASE ~(repeat_remaining > 1)
      <3>1. pc' = pc + 1 /\ repeat_remaining' = 0
        BY <1>6, <2>7 DEF RepeatNext, Advance
      <3>2. left = turn
        BY <1>2, <2>2, <2>7
      <3>3. executed' = pc' + turns - turn
        <4>. HIDE DEF turn, turns, left
        <4>. QED  BY <1>2, <1>4, <2>1, <2>2, <3>1, <3>2
      <3>4. pc' \in Pcs(program) /\ pc' > next /\ (emitted' # {} <=> pc' = next + 2)
        BY <1>2, <2>1, <2>3, <2>4, <3>1
      <3>5. RepeatAt(enter, next)'
        <4>. HIDE DEF turn, turns, left
        <4>. QED  BY <1>4, <2>2, <2>3, <3>1, <3>3, <3>4 DEF RepeatAt, turns, turn
      <3>. QED  BY <1>1, <1>4, <3>5 DEF RepeatInv
    <2>. QED  BY <2>6, <2>7
  <1>7. CASE Emit
    <2>1. pc = next + 1
      BY <1>1, <1>7, RepeatPlaces DEF Emit, CanEmit
    <2>2. /\ repeat_remaining = 0 /\ executed = pc + turns - turn
          /\ AllSlots(program) \subseteq initialized
      BY <1>1, <1>2, <2>1 DEF RepeatAt
    <2>3. pc' = pc + 1 /\ repeat_remaining' = 0 /\ initialized' = initialized /\ emitted' # {}
      BY <1>7, <2>2 DEF Emit, Advance, repeat
    <2>4. executed' = pc' + turns - turn
      <3>. HIDE DEF turn, turns
      <3>. QED  BY <1>2, <1>4, <2>2, <2>3
    <2>5. pc' \in Pcs(program) /\ pc' > next /\ pc' = next + 2
      BY <1>2, <2>1, <2>3
    <2>6. RepeatAt(enter, next)'
      <3>. HIDE DEF turn, turns
      <3>. QED  BY <1>4, <2>2, <2>3, <2>4, <2>5 DEF RepeatAt, turns, turn
    <2>. QED  BY <1>1, <1>4, <2>6 DEF RepeatInv
  <1>. QED  BY <1>3, <1>5, <1>6, <1>7

-----------------------------------------------------------------------------
(* Accepted programs run to their end *)

\* Before the run everything is as Init leaves it; during it, what is known of
\* the instruction at pc holds; and no check ever failed.
RunInv ==
    /\ status \in {"loading", "refused"} =>
          /\ pc = 0 /\ executed = 0 /\ repeat_remaining = 0
          /\ initialized = {} /\ emitted = {} /\ values = [s \in Slots |-> 0]
    /\ status = "running" => IF HasRepeat(program) THEN RepeatInv ELSE FlowInv
    /\ status # "fault"
    /\ status = "done" /\ JumpFree(program) => executed = bound

\* The invariant of an accepted run holds at first,
LEMMA RunInit == ASSUME Init PROVE RunInv
  BY DEF Init, RunInv

\* A program that is loaded begins where the analyses of the validator begin.
LEMMA RunLoad == ASSUME IInv, IInv', RunInv, Load PROVE RunInv'
  <1>1. /\ pc' = 0 /\ executed' = 0 /\ repeat_remaining' = 0
        /\ initialized' = {} /\ emitted' = {} /\ values' = [s \in Slots |-> 0]
        /\ program' = program /\ status' = "running"
    BY DEF RunInv, Load, repeat
  <1>2. PlainContract(program) /\ IsBytecode(program) /\ bound' = PlainBound(program)
    <2>1. ~RunsWithFrames(program)
      BY ProgramsAssumption DEF IInv, Checked
    <2>. QED  BY <2>1 DEF Load, IsTypedScalarProgram, ExecutionStepBound, IInv, TypeOK
  <1>3. CASE HasRepeat(program)
    <2>1. PICK enter, next : RepeatForm(program, enter, next)
      BY <1>2, <1>3, RepeatFormed
    <2>2. enter \in Nat /\ next \in Nat /\ next + 3 = Size(program) /\ Pcs(program) = 0..(Size(program) - 1)
      BY <1>2, <2>1 DEF RepeatForm, IsBytecode, Pcs
    <2>3. Defined(program, 0, 0) = {}
      BY DEF Defined
    <2>4. RepeatAt(enter, next)'
      BY <1>1, <2>2, <2>3 DEF RepeatAt
    <2>. QED  BY <1>1, <1>2, <1>3, <2>1, <2>4 DEF RunInv, RepeatInv
  <1>4. CASE ~HasRepeat(program)
    <2>1. Flow(program) = FlowStep(program, Flow(program))
      BY <1>2, FlowSolves
    <2>2. /\ 0 \in Pcs(program) /\ bound' = Size(program)
          /\ \A s \in program.bools : s \in Slots
      <3>1. /\ Pcs(program) = 0..(Size(program) - 1) /\ Size(program) >= 3 /\ Size(program) \in Nat
            /\ PlainBound(program) = Size(program)
            /\ program.bools \subseteq AllSlots(program) /\ AllSlots(program) \subseteq Slots
        BY <1>2, <1>4, FlowForm
      <3>. QED  BY <1>2, <3>1
    <2>3. Flow(program)[0] = [init |-> {}, emit |-> {FALSE}, types |-> {}]
      BY <2>1, <2>2 DEF FlowStep
    <2>4. Flow(program)'[pc'] = [init |-> {}, emit |-> {FALSE}, types |-> {}]
      BY <1>1, <2>3
    <2>5. (emitted' # {}) = FALSE
      BY <1>1
    <2>6. \A s \in program.bools : values'[s] <= 1
      BY <1>1, <2>2
    <2>7. FlowInv'
      <3>1. Flow(program)'[pc'].init \subseteq initialized'
            /\ (emitted' # {}) \in Flow(program)'[pc'].emit
        <4>1. Flow(program)'[pc'].init = {} /\ Flow(program)'[pc'].emit = {FALSE}
          BY <2>4
        <4>2. (emitted' # {}) \in {FALSE}
          BY <2>5
        <4>. QED  BY <4>1, <4>2
      <3>2. executed' <= pc' /\ executed' = pc' /\ pc' \in Pcs(program') /\ bound' = Size(program')
        BY <1>1, <2>2
      <3>. QED  BY <1>1, <2>6, <3>1, <3>2 DEF FlowInv
    <2>. QED  BY <1>1, <1>4, <2>7 DEF RunInv
  <1>. QED  BY <1>3, <1>4

\* It ends at END, having executed just the bound if it has no jumps.
LEMMA RunHalt == ASSUME IInv, RunInv, Halt PROVE RunInv'
  <1>1. status = "running" /\ status' = Outcome /\ program' = program /\ bound' = bound
    BY DEF Halt
  <1>2. IF HasRepeat(program) THEN RepeatInv ELSE FlowInv
    BY <1>1 DEF RunInv
  <1>3. Fetched /\ Can
    BY <1>1, <1>2, RepeatRuns, FlowRuns
  <1>4. status' \in {"divided_by_zero", "done"} /\ executed' = executed + 1
        /\ (status' = "done" => CanEnd)
    BY <1>1, <1>3 DEF Halt, Outcome
  <1>5. ASSUME CanEnd, JumpFree(program) PROVE executed + 1 = bound
    <2>1. CASE HasRepeat(program)
      <3>1. PICK enter, next : RepeatForm(program, enter, next) /\ RepeatAt(enter, next)
        BY <1>2, <2>1 DEF RepeatInv
      <3>. DEFINE turn == Turn(enter, next)
                  turns == Turns(program, enter, next)
      <3>0. pc + 1 = Size(program) /\ next + 3 = Size(program)
        BY <1>5, <3>1 DEF CanEnd, RepeatForm
      <3>2. /\ pc \in Nat /\ enter \in Nat /\ next \in Nat /\ next > enter + 1
            /\ turn \in Nat /\ turns \in Nat
        <4>. HIDE DEF turn, turns
        <4>1. enter \in Nat /\ next \in Nat /\ next > enter + 1
          BY <3>1 DEF RepeatForm
        <4>. QED  BY <1>1, <3>1, <4>1, RepeatPlaces DEF turn, turns
      <3>3. bound = Size(program) + turns - turn
        BY <1>2, <2>1, <3>1 DEF RepeatInv, RepeatForm
      <3>4. pc = next + 2
        BY <3>0, <3>2
      <3>5. executed = pc + turns - turn
        BY <3>1, <3>2, <3>4 DEF RepeatAt
      <3>. HIDE DEF turn, turns
      <3>. QED  BY <3>0, <3>2, <3>3, <3>5
    <2>2. CASE ~HasRepeat(program)
      BY <1>2, <1>5, <2>2 DEF FlowInv, CanEnd
    <2>. QED  BY <2>1, <2>2
  <1>. QED  BY <1>1, <1>4, <1>5 DEF RunInv

\* every step preserves it,
LEMMA RunStep == ASSUME IInv, IInv', RunInv, [Next]_vars PROVE RunInv'
  <1>1. CASE UNCHANGED vars
    BY <1>1 DEF vars, repeat, RunInv, RepeatInv, RepeatAt, FlowInv
  <1>2. CASE Refuse
    BY <1>2 DEF Refuse, repeat, RunInv
  <1>3. CASE Const \/ Compute \/ RepeatEnter \/ RepeatNext \/ Emit \/ Branch \/ Jump
    <2>1. Fetched /\ status' = status /\ program' = program
      BY <1>3 DEF Const, Compute, RepeatEnter, RepeatNext, Emit, Branch, Jump, Assign, Advance
    <2>2. status = "running"
      BY <2>1 DEF Fetched
    <2>3. CASE HasRepeat(program)
      <3>1. RepeatInv'
        BY <1>3, <2>2, <2>3, RepeatAssign, RepeatOther DEF RunInv
      <3>. QED  BY <2>1, <2>2, <2>3, <3>1 DEF RunInv
    <2>4. CASE ~HasRepeat(program)
      <3>1. FlowInv'
        BY <1>3, <2>2, <2>4, FlowAssign, FlowOther DEF RunInv
      <3>. QED  BY <2>1, <2>2, <2>4, <3>1 DEF RunInv
    <2>. QED  BY <2>3, <2>4
  <1>. QED  BY <1>1, <1>2, <1>3, RunLoad, RunHalt DEF Next

\* so it always holds.
LEMMA RunInvariance == Spec => []RunInv
  <1>1. Init => RunInv
    BY RunInit
  <1>2. IInv /\ IInv' /\ RunInv /\ [Next]_vars => RunInv'
    BY RunStep
  <1>. QED  BY <1>1, <1>2, Invariance, PTL DEF Spec

\* The validator of plain programs is sound: a program it accepts is run to
\* END or to a division by zero, and no check of the VM, the step budget
\* included, ever fails.
THEOREM AcceptedRuns == Spec => []AcceptedNeverFails
  <1>1. RunInv => AcceptedNeverFails
    BY DEF RunInv, AcceptedNeverFails
  <1>. QED  BY <1>1, RunInvariance, PTL

\* The static step bound of a plain program without jumps is what it executes,
\* with a repeat of any length or without.
THEOREM ExactBound == Spec => []BoundIsExact
  <1>1. RunInv => BoundIsExact
    BY DEF RunInv, BoundIsExact
  <1>. QED  BY <1>1, RunInvariance, PTL

-----------------------------------------------------------------------------
(* Stored programs *)

\* A program without frames has no functions and no inputs.
LEMMA PlainShape ==
    ASSUME NEW bc, IsBytecode(bc), ~RunsWithFrames(bc)
    PROVE  bc.inputs = 0 /\ bc.functions = <<>> /\ NumberOfFunctions(bc) = 0
  <1>1. bc.inputs = 0 /\ bc.functions = <<>>
    BY DEF IsBytecode, RunsWithFrames, HasFunctions
  <1>2. DOMAIN bc.functions = {}
    BY <1>1
  <1>. QED  BY <1>1, <1>2, FS_EmptySet DEF NumberOfFunctions

\* The sizes of the header.
LEMMA HeaderType == \A v \in 1..9 : HeaderSize[v] \in Nat
  BY DEF HeaderSize

\* A line of straight code passes the decoder in every version it may get.
LEMMA TypedFits ==
    ASSUME NEW f, NEW bc, NEW init, NEW at, f.version \in 4..7, f.scalars = bc.scalars,
           TypedOK(bc, f.code[at], init), f.code[at].op \in Compare => f.version # 4
    PROVE  InstructionOK(f, at)
  <1>1. f.code[at].op \in {"CONST"} \cup Arith \cup Compare
    BY DEF TypedOK, ConstOK, BinaryOK
  <1>2. f.code[at].op \in Opcodes
    BY <1>1 DEF Opcodes
  <1>3. Placeable(f, at)
    BY <1>1 DEF Placeable, Versions, Arith, Compare, Set
  <1>4. ShapeOK(f, at)
    BY <1>1 DEF ShapeOK, Arith, Compare
  <1>. DEFINE ins == f.code[at]
  <1>5. ins.op = "CONST" => ins.a < f.scalars /\ ins.b = 0 /\ ins.flags = 0
    BY DEF TypedOK, ConstOK, BinaryOK, Known, Fresh, Blank, Arith, Compare
  <1>6. ins.op \in Arith \cup Compare =>
            ins.a < f.scalars /\ ins.b < f.scalars /\ ins.flags < f.scalars /\ ins.imm = 0
    BY DEF TypedOK, ConstOK, BinaryOK, Known, Fresh, Reads, Blank, Arith, Compare
  <1>7. ASSUME ins.op = "CONST" PROVE OperandsExist(f, at)
    <2>1. SlotsExist(f, ins, {"a"}) /\ Blank(ins, {"b", "flags"})
      BY <1>5, <1>7 DEF SlotsExist, Blank
    <2>. QED  BY <1>7, <2>1 DEF OperandsExist, Arith, Compare, Set
  <1>8. ASSUME ins.op \in Arith \cup Compare PROVE OperandsExist(f, at)
    <2>1. SlotsExist(f, ins, {"a", "b", "flags"}) /\ Blank(ins, {"imm"})
      BY <1>6, <1>8 DEF SlotsExist, Blank
    <2>. QED  BY <1>8, <2>1 DEF OperandsExist, Arith, Compare, Set
  <1>9. OperandsExist(f, at)
    BY <1>1, <1>7, <1>8
  <1>. QED  BY <1>2, <1>3, <1>4, <1>9 DEF InstructionOK

\* So does an emit,
LEMMA EmitFits ==
    ASSUME NEW f, NEW bc, NEW init, NEW at, f.version \in 4..7, f.scalars = bc.scalars,
           bc.bools # {} => f.version # 4, EmitOK(bc, f.code[at], init)
    PROVE  InstructionOK(f, at)
  <1>. DEFINE ins == f.code[at]
  <1>1. /\ ins.op \in {"U32_EMIT", "BOOL_EMIT"} /\ (ins.op = "BOOL_EMIT" => f.version # 4)
        /\ SlotsExist(f, ins, {"a"}) /\ Blank(ins, {"b", "flags", "imm"})
    BY DEF EmitOK, SlotsExist
  <1>2. ins.op \in Opcodes
    BY <1>1 DEF Opcodes
  <1>3. Placeable(f, at)
    BY <1>1 DEF Placeable, Versions, Arith, Compare, Set
  <1>4. ShapeOK(f, at)
    BY <1>1 DEF ShapeOK
  <1>5. OperandsExist(f, at)
    BY <1>1 DEF OperandsExist, Arith, Compare, Set
  <1>. QED  BY <1>2, <1>3, <1>4, <1>5 DEF InstructionOK

\* the END,
LEMMA EndFits ==
    ASSUME NEW f, NEW at, f.version \in 1..9, f.code[at].op = "END"
    PROVE  InstructionOK(f, at)
  <1>1. f.code[at].op \in Opcodes
    BY DEF Opcodes
  <1>2. Placeable(f, at)
    BY DEF Placeable, Versions, Arith, Compare, Set
  <1>3. ShapeOK(f, at)
    BY DEF ShapeOK
  <1>4. OperandsExist(f, at)
    BY DEF OperandsExist, Arith, Compare, Set
  <1>. QED  BY <1>1, <1>2, <1>3, <1>4 DEF InstructionOK

\* an assignment in a repeat,
LEMMA SetFits ==
    ASSUME NEW f, NEW bc, NEW init, NEW at, f.version = 7, f.scalars = bc.scalars,
           f.bools = bc.bools,
           SetOK(f.code[at], Known(bc.scalars, init, bc.bools))
    PROVE  InstructionOK(f, at)
  <1>. DEFINE ins == f.code[at]
  <1>1. ins.op \in Set
    BY DEF SetOK
  <1>2. SlotsExist(f, ins, {"a", "b", "flags"}) /\ Blank(ins, {"imm"})
    BY DEF SetOK, Reads, Known, SlotsExist
  <1>3. {ins.a, ins.b, ins.flags} \cap f.bools = {}
    BY DEF SetOK, Reads, Known
  <1>4. ins.op \in Opcodes
    BY <1>1 DEF Opcodes
  <1>5. Placeable(f, at)
    BY <1>1 DEF Placeable, Versions, Arith, Compare, Set
  <1>6. ShapeOK(f, at)
    BY <1>1 DEF ShapeOK, Set
  <1>7. OperandsExist(f, at)
    BY <1>1, <1>2, <1>3 DEF OperandsExist, Arith, Compare, Set
  <1>. QED  BY <1>4, <1>5, <1>6, <1>7 DEF InstructionOK

\* and the two ends of a repeat,
LEMMA RepeatFits ==
    ASSUME NEW f, NEW at, f.version = 7,
           \/ /\ f.code[at].op = "REPEAT_ENTER" /\ f.code[at].a \in 1..MaxRepeat
              /\ Blank(f.code[at], {"b", "flags"})
              /\ f.code[at].imm > at /\ f.code[at].imm < f.count /\ f.code[at].imm # at + 1
           \/ /\ f.code[at].op = "REPEAT_NEXT" /\ Blank(f.code[at], {"a", "b", "flags"})
              /\ f.code[at].imm < at
    PROVE  InstructionOK(f, at)
  <1>1. f.code[at].op \in {"REPEAT_ENTER", "REPEAT_NEXT"}
    OBVIOUS
  <1>2. f.code[at].op \in Opcodes
    BY <1>1 DEF Opcodes
  <1>3. Placeable(f, at)
    BY <1>1 DEF Placeable, Versions, Arith, Compare, Set
  <1>4. Blank(f.code[at], {"b", "flags"}) => f.code[at].flags = 0
    BY DEF Blank
  <1>5. ShapeOK(f, at)
    BY <1>1, <1>4 DEF ShapeOK
  <1>6. OperandsExist(f, at)
    BY <1>1 DEF OperandsExist, Arith, Compare, Set
  <1>. QED  BY <1>2, <1>3, <1>5, <1>6 DEF InstructionOK

\* and a jump that goes forward.
LEMMA JumpFits ==
    ASSUME NEW f, NEW bc, NEW at, f.version = 6, f.scalars = bc.scalars, f.bools = bc.bools,
           f.code[at].imm > at, f.code[at].imm < f.count,
           \/ /\ f.code[at].op = "JUMP_IF_FALSE" /\ Blank(f.code[at], {"b", "flags"})
              /\ f.code[at].a < bc.scalars /\ f.code[at].a \in bc.bools
           \/ f.code[at].op = "JUMP" /\ Blank(f.code[at], {"a", "b", "flags"})
    PROVE  InstructionOK(f, at)
  <1>1. f.code[at].op \in {"JUMP_IF_FALSE", "JUMP"}
    OBVIOUS
  <1>2. f.code[at].op \in Opcodes
    BY <1>1 DEF Opcodes
  <1>3. Placeable(f, at)
    BY <1>1 DEF Placeable, Versions, Arith, Compare, Set
  <1>4. ShapeOK(f, at)
    BY <1>1 DEF ShapeOK
  <1>5. OperandsExist(f, at)
    BY <1>1 DEF OperandsExist, SlotsExist, Arith, Compare, Set
  <1>. QED  BY <1>2, <1>3, <1>4, <1>5 DEF InstructionOK

\* The version of a program without frames.
LEMMA PlainVersion ==
    ASSUME NEW bc, IsBytecode(bc), ~RunsWithFrames(bc), bc.scalars # 0
    PROVE  /\ Version(bc) \in 4..7
           /\ HasRepeat(bc) <=> Version(bc) = 7
           /\ ~HasRepeat(bc) => (HasControlFlow(bc) <=> Version(bc) = 6)
           /\ ~HasRepeat(bc) /\ ~HasControlFlow(bc) => (bc.bools # {} <=> Version(bc) = 5)
  <1>1. bc.inputs = 0 /\ ~HasFunctions(bc) /\ bc.scalars \in Nat
    BY PlainShape DEF HasFunctions, IsBytecode
  <1>. QED  BY <1>1 DEF Version

\* What the encoder writes of such a program.
LEMMA PlainFile ==
    ASSUME NEW bc, Version(bc) \in 4..7
    PROVE  /\ Encode(bc).version = Version(bc) /\ Encode(bc).scalars = bc.scalars
           /\ Encode(bc).code = bc.code /\ Encode(bc).count = Size(bc)
           /\ Version(bc) # 4 => Encode(bc).bools = bc.bools
           /\ Version(bc) = 4 => Encode(bc).bools = {}
           /\ Encode(bc).header = HeaderSize[Version(bc)]
           /\ Encode(bc).functionCount = 0 /\ Encode(bc).functionSize = 0
           /\ Encode(bc).main = 0 /\ Encode(bc).inputCount = 0 /\ Encode(bc).inputSize = 0
           /\ Encode(bc).functions = bc.functions
           /\ Encode(bc).size = BytesOf(Version(bc), NumberOfFunctions(bc), bc.inputs, Size(bc))
  <1>. PICK v \in 4..7 : v = Version(bc)
    OBVIOUS
  <1>1. v \in 1..9 /\ v \in 4..9 /\ (v # 4 => v \in 5..9) /\ (v = 4 => v \notin 5..9)
        /\ v \notin {8, 9} /\ v # 9
    OBVIOUS
  <1>2. Encode(bc) = FileOf(bc, v)
    BY DEF Encode
  <1>3. /\ FileOf(bc, v).version = v /\ FileOf(bc, v).scalars = bc.scalars
        /\ FileOf(bc, v).code = bc.code /\ FileOf(bc, v).count = Size(bc)
        /\ FileOf(bc, v).functions = bc.functions /\ FileOf(bc, v).header = HeaderSize[v]
        /\ FileOf(bc, v).size = BytesOf(v, NumberOfFunctions(bc), bc.inputs, Size(bc))
    BY <1>1 DEF FileOf, WithFunctions
  <1>4. /\ v # 4 => FileOf(bc, v).bools = bc.bools
        /\ v = 4 => FileOf(bc, v).bools = {}
    BY <1>1 DEF FileOf, WithFunctions
  <1>5. /\ FileOf(bc, v).functionCount = 0 /\ FileOf(bc, v).functionSize = 0
        /\ FileOf(bc, v).main = 0 /\ FileOf(bc, v).inputCount = 0
        /\ FileOf(bc, v).inputSize = 0
    BY <1>1 DEF FileOf, WithFunctions
  <1>. QED  BY <1>2, <1>3, <1>4, <1>5

\* How the lines of a program without repeat look, END apart.
LEMMA FlowLines ==
    ASSUME NEW bc, IsBytecode(bc), FlowContract(bc), NEW at \in 0..(Size(bc) - 2)
    PROVE  \E init :
              \/ TypedOK(bc, bc.code[at], init)
              \/ EmitOK(bc, bc.code[at], init)
              \/ /\ bc.code[at].op = "JUMP_IF_FALSE"
                 /\ bc.code[at].a < bc.scalars /\ bc.code[at].a \in bc.bools
                 /\ Blank(bc.code[at], {"b", "flags"})
                 /\ bc.code[at].imm \in (at + 1)..(Size(bc) - 1)
              \/ /\ bc.code[at].op = "JUMP" /\ Blank(bc.code[at], {"a", "b", "flags"})
                 /\ bc.code[at].imm \in (at + 1)..(Size(bc) - 1)
  <1>1. at \in 0..((Size(bc) - 1) - 1)
    BY DEF IsBytecode
  <1>2. \/ TypedOK(bc, bc.code[at], Flow(bc)[at].init)
        \/ EmitOK(bc, bc.code[at], Flow(bc)[at].init)
        \/ /\ bc.code[at].op = "JUMP_IF_FALSE"
           /\ bc.code[at].a < bc.scalars /\ bc.code[at].a \in bc.bools
           /\ Blank(bc.code[at], {"b", "flags"})
           /\ bc.code[at].imm \in (at + 1)..(Size(bc) - 1)
        \/ /\ bc.code[at].op = "JUMP" /\ Blank(bc.code[at], {"a", "b", "flags"})
           /\ bc.code[at].imm \in (at + 1)..(Size(bc) - 1)
    BY <1>1, Zenon DEF FlowContract
  <1>. QED  BY <1>2

\* The opcodes of straight lines and emits.
LEMMA LineOps ==
    ASSUME NEW bc, NEW ins, NEW init
    PROVE  /\ TypedOK(bc, ins, init) =>
                /\ ins.op \in {"CONST"} \cup Arith \cup Compare
                /\ ins.op \in Compare => ins.a \in bc.bools
           /\ EmitOK(bc, ins, init) => ins.op \in {"U32_EMIT", "BOOL_EMIT"}
  BY DEF TypedOK, ConstOK, BinaryOK, EmitOK, Arith, Compare

\* Every line of a program without repeat passes the decoder.
LEMMA FlowFits ==
    ASSUME NEW bc, IsBytecode(bc), ~RunsWithFrames(bc), bc.scalars # 0, ~HasRepeat(bc),
           FlowContract(bc), NEW at \in Pcs(bc)
    PROVE  InstructionOK(Encode(bc), at)
  <1>. PICK f : f = Encode(bc)
    OBVIOUS
  <1>1. Version(bc) \in 4..6 /\ Size(bc) \in Nat /\ at \in 0..(Size(bc) - 1)
    <2>1. Version(bc) \in 4..6
      BY PlainVersion
    <2>2. Size(bc) \in Nat /\ at \in 0..(Size(bc) - 1)
      BY DEF IsBytecode, Pcs
    <2>. QED  BY <2>1, <2>2
  <1>2. /\ f.version = Version(bc) /\ f.scalars = bc.scalars /\ f.code = bc.code
        /\ f.count = Size(bc) /\ (Version(bc) # 4 => f.bools = bc.bools)
    BY <1>1, PlainFile
  <1>3. bc.bools # {} => Version(bc) # 4
    BY <1>1, PlainVersion
  <1>4. CASE at = Size(bc) - 1
    <2>1. f.code[at].op = "END"
      BY <1>2, <1>4 DEF FlowContract, EndOK
    <2>. QED  BY <2>1, <1>1, <1>2, EndFits
  <1>5. CASE at # Size(bc) - 1
    <2>1. at \in 0..(Size(bc) - 2)
      BY <1>1, <1>5
    <2>2. PICK init :
              \/ TypedOK(bc, bc.code[at], init)
              \/ EmitOK(bc, bc.code[at], init)
              \/ /\ bc.code[at].op = "JUMP_IF_FALSE"
                 /\ bc.code[at].a < bc.scalars /\ bc.code[at].a \in bc.bools
                 /\ Blank(bc.code[at], {"b", "flags"})
                 /\ bc.code[at].imm \in (at + 1)..(Size(bc) - 1)
              \/ /\ bc.code[at].op = "JUMP" /\ Blank(bc.code[at], {"a", "b", "flags"})
                 /\ bc.code[at].imm \in (at + 1)..(Size(bc) - 1)
      BY <2>1, FlowLines
    <2>3. CASE TypedOK(bc, bc.code[at], init)
      <3>1. f.code[at].op \in Compare => f.version # 4
        BY <2>3, <1>2, <1>3, LineOps
      <3>2. TypedOK(bc, f.code[at], init) /\ f.version \in 4..7
        BY <2>3, <1>1, <1>2
      <3>. QED  BY <3>1, <3>2, <1>2, TypedFits
    <2>4. CASE EmitOK(bc, bc.code[at], init)
      BY <2>4, <1>1, <1>2, <1>3, EmitFits
    <2>5. CASE /\ bc.code[at].op \in {"JUMP", "JUMP_IF_FALSE"}
               /\ bc.code[at].imm \in (at + 1)..(Size(bc) - 1)
               /\ \/ /\ bc.code[at].op = "JUMP_IF_FALSE"
                     /\ bc.code[at].a < bc.scalars /\ bc.code[at].a \in bc.bools
                     /\ Blank(bc.code[at], {"b", "flags"})
                  \/ bc.code[at].op = "JUMP" /\ Blank(bc.code[at], {"a", "b", "flags"})
      <3>1. HasControlFlow(bc)
        BY <2>5 DEF HasControlFlow, At
      <3>2. Version(bc) = 6
        BY <3>1, PlainVersion
      <3>3. f.code[at].imm > at /\ f.code[at].imm < f.count
        BY <2>5, <1>1, <1>2
      <3>. QED  BY <2>5, <3>2, <3>3, <1>1, <1>2, JumpFits
    <2>. QED  BY <2>2, <2>3, <2>4, <2>5
  <1>. QED  BY <1>4, <1>5

\* Every line of a program with a repeat passes the decoder.
LEMMA RepeatProgramFits ==
    ASSUME NEW bc, IsBytecode(bc), ~RunsWithFrames(bc), bc.scalars # 0, HasRepeat(bc),
           RepeatContract(bc), NEW at \in Pcs(bc)
    PROVE  InstructionOK(Encode(bc), at)
  <1>. PICK f : f = Encode(bc)
    OBVIOUS
  <1>1. PICK enter \in Pcs(bc), next \in Pcs(bc) :
            /\ At(bc, "REPEAT_ENTER") = {enter} /\ At(bc, "REPEAT_NEXT") = {next}
            /\ bc.code[enter].a \in 1..MaxRepeat /\ Blank(bc.code[enter], {"b", "flags"})
            /\ next > enter + 1 /\ bc.code[enter].imm = next + 1
            /\ Blank(bc.code[next], {"a", "b", "flags"}) /\ bc.code[next].imm = enter
            /\ next + 3 = Size(bc)
            /\ \A i \in 0..(enter - 1) : TypedOK(bc, bc.code[i], Defined(bc, 0, i))
            /\ \A i \in (enter + 1)..(next - 1) :
                SetOK(bc.code[i], Known(bc.scalars, AllSlots(bc), bc.bools))
            /\ EmitOK(bc, bc.code[next + 1], AllSlots(bc))
            /\ EndOK(bc, next + 2)
    BY DEF RepeatContract
  <1>2. /\ Version(bc) = 7 /\ at \in 0..(Size(bc) - 1) /\ Size(bc) \in Nat
        /\ enter \in Nat /\ next \in Nat
    <2>1. Version(bc) = 7
      BY PlainVersion
    <2>2. at \in 0..(Size(bc) - 1) /\ Size(bc) \in Nat /\ enter \in Nat /\ next \in Nat
      BY DEF IsBytecode, Pcs
    <2>. QED  BY <2>1, <2>2
  <1>3. /\ f.version = 7 /\ f.scalars = bc.scalars /\ f.code = bc.code
        /\ f.count = Size(bc) /\ f.bools = bc.bools
    BY <1>2, PlainFile
  <1>4. bc.code[enter].op = "REPEAT_ENTER" /\ bc.code[next].op = "REPEAT_NEXT"
    BY <1>1 DEF At
  <1>5. CASE at \in 0..(enter - 1)
    <2>1. TypedOK(bc, f.code[at], Defined(bc, 0, at))
      BY <1>1, <1>3, <1>5
    <2>2. f.version \in 4..7 /\ (f.code[at].op \in Compare => f.version # 4)
      BY <1>3
    <2>. QED  BY <1>3, <2>1, <2>2, TypedFits
  <1>6. CASE at \in (enter + 1)..(next - 1)
    BY <1>1, <1>3, <1>6, SetFits
  <1>7. CASE at = enter
    <2>1. /\ f.code[at].imm > at /\ f.code[at].imm < f.count /\ f.code[at].imm # at + 1
      BY <1>1, <1>2, <1>3, <1>7
    <2>. QED  BY <1>1, <1>3, <1>4, <1>7, <2>1, RepeatFits
  <1>8. CASE at = next
    BY <1>1, <1>2, <1>3, <1>4, <1>8, RepeatFits
  <1>9. CASE at = next + 1
    <2>1. EmitOK(bc, f.code[at], AllSlots(bc))
      BY <1>1, <1>3, <1>9
    <2>2. f.version \in 4..7 /\ (bc.bools # {} => f.version # 4)
      BY <1>3
    <2>. QED  BY <1>3, <2>1, <2>2, EmitFits
  <1>10. CASE at = next + 2
    BY <1>1, <1>3, <1>10, EndFits DEF EndOK
  <1>. QED  BY <1>1, <1>2, <1>5, <1>6, <1>7, <1>8, <1>9, <1>10

\* A file of a plain program holds the program itself.
LEMMA PlainContents ==
    ASSUME NEW bc, IsBytecode(bc), AsDecoded(bc), ~RunsWithFrames(bc), Version(bc) \in 4..7
    PROVE  Contents(Encode(bc)) = bc
  <1>1. bc.inputs = 0 /\ bc.main = 0
    BY PlainShape DEF AsDecoded
  <1>2. bc = [code |-> bc.code, main |-> bc.main, functions |-> bc.functions,
              scalars |-> bc.scalars, bools |-> bc.bools, inputs |-> bc.inputs]
    BY DEF AsDecoded
  <1>3. Version(bc) = 4 => bc.bools = {}
    BY <1>1 DEF Version
  <1>4. Encode(bc).bools = bc.bools
    BY <1>3, PlainFile
  <1>5. /\ Encode(bc).code = bc.code /\ Encode(bc).main = bc.main
        /\ Encode(bc).functions = bc.functions /\ Encode(bc).scalars = bc.scalars
        /\ Encode(bc).inputCount = bc.inputs
    BY <1>1, PlainFile
  <1>. QED  BY <1>2, <1>4, <1>5 DEF Contents

\* The opcodes of a program without repeat.
LEMMA FlowOps ==
    ASSUME NEW bc, IsBytecode(bc), FlowContract(bc)
    PROVE  /\ \A i \in Pcs(bc) :
                bc.code[i].op \in {"CONST", "U32_EMIT", "BOOL_EMIT", "JUMP", "JUMP_IF_FALSE",
                                    "END"} \cup Arith \cup Compare
           /\ 0 \in Pcs(bc) /\ bc.code[0].op # "END"
  <1>1. Size(bc) \in Nat /\ Pcs(bc) = 0..(Size(bc) - 1) /\ Size(bc) >= 3
    BY DEF IsBytecode, Pcs, FlowContract
  <1>2. ASSUME NEW i \in 0..(Size(bc) - 2)
        PROVE  bc.code[i].op \in {"CONST", "U32_EMIT", "BOOL_EMIT", "JUMP", "JUMP_IF_FALSE"}
                                      \cup Arith \cup Compare
    BY FlowLines, LineOps
  <1>3. bc.code[Size(bc) - 1].op = "END"
    BY DEF FlowContract, EndOK
  <1>4. \A i \in Pcs(bc) : i = Size(bc) - 1 \/ i \in 0..(Size(bc) - 2)
    BY <1>1
  <1>5. 0 \in 0..(Size(bc) - 2)
    BY <1>1
  <1>6. bc.code[0].op # "END"
    BY <1>2, <1>5 DEF Arith, Compare
  <1>. QED  BY <1>1, <1>2, <1>3, <1>4, <1>5, <1>6

\* What the decoder says at the end of the programs the VM runs.
LEMMA PlainVerdict ==
    ASSUME NEW bc, IsBytecode(bc), AsDecoded(bc), ~RunsWithFrames(bc), PlainContract(bc),
           ~JumpsWithoutBool(bc)
    PROVE  VersionContract(Encode(bc))
  <1>1. bc.scalars # 0 /\ IsTypedScalarProgram(bc)
    BY DEF PlainContract, IsTypedScalarProgram
  <1>2. Version(bc) \in 4..7 /\ Encode(bc).version = Version(bc) /\ Contents(Encode(bc)) = bc
    BY <1>1, PlainVersion, PlainFile, PlainContents
  <1>. PICK f : f = Encode(bc)
    OBVIOUS
  <1>. DEFINE Has(ops) == \E i \in Pcs(bc) : bc.code[i].op \in ops
              jumps == {"JUMP", "JUMP_IF_FALSE"}
              repeats == Set \cup {"REPEAT_ENTER", "REPEAT_NEXT"}
  <1>3. CASE HasRepeat(bc)
    <2>1. Version(bc) = 7 /\ RepeatContract(bc)
      BY <1>1, <1>3, PlainVersion DEF PlainContract
    <2>2. ~Has(jumps)
      BY <2>1 DEF RepeatContract, At
    <2>3. Has(repeats) /\ Has(Opcodes \ {"END"})
      BY <1>3 DEF HasRepeat, Opcodes
    <2>. QED  BY <1>1, <1>2, <2>1, <2>2, <2>3 DEF VersionContract
  <1>4. CASE ~HasRepeat(bc)
    <2>1. FlowContract(bc) /\ Version(bc) \in 4..6
      BY <1>1, <1>4, PlainVersion DEF PlainContract
    <2>2. ~Has(repeats)
      BY <2>1, FlowOps DEF Set, Arith, Compare
    <2>3. Has(Opcodes \ {"END"})
      BY <2>1, FlowOps DEF Opcodes
    <2>4. Version(bc) = 6 <=> Has(jumps)
      BY <1>1, <1>4, PlainVersion DEF HasControlFlow, At
    <2>5. Version(bc) = 6 => bc.bools # {}
      BY DEF JumpsWithoutBool
    <2>6. Version(bc) \in 4..5 => (bc.bools # {} <=> Version(bc) = 5)
      BY <1>1, <1>4, PlainVersion
    <2>. HIDE DEF Has
    <2>7. CASE Version(bc) = 4
      BY <2>7, <1>1, <1>2, <2>3, <2>4, <2>6 DEF VersionContract, Has
    <2>8. CASE Version(bc) = 5
      BY <2>8, <1>1, <1>2, <2>3, <2>4, <2>6 DEF VersionContract, Has
    <2>9. CASE Version(bc) = 6
      BY <2>9, <1>1, <1>2, <2>2, <2>3, <2>4, <2>5 DEF VersionContract, Has
    <2>. QED  BY <2>1, <2>7, <2>8, <2>9
  <1>. QED  BY <1>3, <1>4

\* The decoder accepts the file of a program the VM runs.
LEMMA PlainDecodes ==
    ASSUME NEW bc, IsBytecode(bc), AsDecoded(bc), ~RunsWithFrames(bc),
           IsTypedScalarProgram(bc), Size(bc) <= MaxInstructions, ~JumpsWithoutBool(bc)
    PROVE  Decodes(Encode(bc))
  <1>1. /\ PlainContract(bc) /\ bc.scalars \in 1..MaxScalars /\ bc.bools \subseteq AllSlots(bc)
        /\ bc.scalars # 0
    BY DEF IsTypedScalarProgram, PlainContract
  <1>2. Version(bc) \in 4..7 /\ bc.inputs = 0 /\ NumberOfFunctions(bc) = 0
    BY <1>1, PlainVersion, PlainShape
  <1>. PICK f : f = Encode(bc)
    OBVIOUS
  <1>3. /\ f.version = Version(bc) /\ f.header = HeaderSize[f.version]
        /\ f.scalars = bc.scalars /\ f.code = bc.code /\ f.count = Size(bc)
        /\ f.functionCount = 0 /\ f.inputCount = 0
        /\ f.size = BytesOf(f.version, 0, 0, Size(bc))
    BY <1>2, PlainFile
  <1>4. f.bools = bc.bools \/ f.bools = {}
    BY <1>2, PlainFile
  <1>5. LimitsOK(f)
    <2>1. f.version \in 1..9 /\ f.version \notin WithFunctions /\ f.version # 8 /\ f.version # 9
      BY <1>2, <1>3 DEF WithFunctions
    <2>2. \A s \in f.bools : s < f.scalars
      BY <1>1, <1>3, <1>4 DEF AllSlots
    <2>3. f.scalars <= MaxScalars /\ f.functionCount <= MaxFunctions /\ f.count <= MaxInstructions
      BY <1>1, <1>3, LimitsAssumption
    <2>. QED  BY <1>3, <2>1, <2>2, <2>3 DEF LimitsOK
  <1>6. SizeOK(f) /\ InputsOK(f)
    BY <1>3 DEF SizeOK, InputsOK
  <1>7. ASSUME NEW at \in DOMAIN f.code PROVE InstructionOK(f, at)
    <2>1. at \in Pcs(bc)
      BY <1>3 DEF Pcs
    <2>. QED  BY <1>1, <2>1, FlowFits, RepeatProgramFits DEF PlainContract
  <1>8. VersionContract(f)
    BY <1>1, PlainVerdict
  <1>. QED  BY <1>5, <1>6, <1>7, <1>8 DEF Decodes

\* And of no other: of any program without frames, the file is read back as
\* that program, or refused if the VM would not run it.
LEMMA PlainSurvives ==
    ASSUME NEW bc, IsBytecode(bc), AsDecoded(bc), ~RunsWithFrames(bc)
    PROVE  SurvivesStorage(bc)
  <1>. DEFINE Kept == /\ IsTypedScalarProgram(bc) /\ Size(bc) <= MaxInstructions
                      /\ ~JumpsWithoutBool(bc)
  <1>1. ASSUME Kept PROVE Decode(Encode(bc)) = {bc}
    <2>1. Version(bc) \in 4..7
      BY <1>1, PlainVersion DEF IsTypedScalarProgram, PlainContract
    <2>. QED  BY <1>1, <2>1, PlainDecodes, PlainContents DEF Decode
  <1>2. ASSUME Decodes(Encode(bc)) PROVE Kept
    <2>1. bc.inputs = 0 /\ ~HasFunctions(bc)
      BY PlainShape DEF HasFunctions
    <2>2. Version(bc) \in 3..7
      BY <2>1 DEF Version
    <2>3. Encode(bc).version = Version(bc) /\ Encode(bc).count = Size(bc)
      BY DEF Encode, FileOf
    <2>4. VersionContract(Encode(bc)) /\ LimitsOK(Encode(bc))
      BY <1>2 DEF Decodes
    <2>5. Version(bc) # 3
      <3>. SUFFICES ASSUME Version(bc) = 3 PROVE FALSE
        OBVIOUS
      <3>. QED  BY <2>3, <2>4 DEF VersionContract
    <2>6. Contents(Encode(bc)) = bc
      BY <2>2, <2>5, PlainContents
    <2>7. IsTypedScalarProgram(bc) /\ Size(bc) <= MaxInstructions
      BY <2>3, <2>4, <2>6 DEF VersionContract, LimitsOK
    <2>8. Version(bc) = 6 => bc.bools # {}
      BY <2>3, <2>4, <2>6 DEF VersionContract
    <2>. QED  BY <2>7, <2>8 DEF JumpsWithoutBool
  <1>. HIDE DEF Kept
  <1>3. CASE Kept
    BY <1>1, <1>3 DEF SurvivesStorage, Kept
  <1>4. CASE ~Kept
    <2>1. Decode(Encode(bc)) = {}
      BY <1>2, <1>4 DEF Decode
    <2>. QED  BY <1>4, <2>1 DEF SurvivesStorage, Kept
  <1>. QED  BY <1>3, <1>4

\* A file of a version without functions: what the version has no room for is
\* not there.
PlainLayout(f) ==
    /\ f = [version |-> f.version, header |-> f.header, count |-> f.count,
            scalars |-> f.scalars, bools |-> f.bools, functionCount |-> 0, functionSize |-> 0,
            main |-> 0, inputCount |-> 0, inputSize |-> 0, functions |-> <<>>,
            inputs |-> f.inputs, code |-> f.code, size |-> f.size]
    /\ f.version \in 4..7 /\ (f.version = 4 => f.bools = {})
    /\ DOMAIN f.inputs = {} /\ f.inputs = [i \in DOMAIN f.inputs |-> f.inputs[i]]
    /\ f.count = Cardinality(DOMAIN f.code)
    /\ IsBytecode(Contents(f))

\* The version of a decoded file is the one the encoder would choose.
LEMMA VersionAgain ==
    ASSUME NEW f, PlainLayout(f), Decodes(f)
    PROVE  Version(Contents(f)) = f.version /\ ~RunsWithFrames(Contents(f))
  <1>. PICK p : p = Contents(f)
    OBVIOUS
  <1>1. p.code = f.code /\ p.scalars = f.scalars /\ p.bools = f.bools
    BY DEF Contents
  <1>2. p.inputs = 0 /\ p.functions = <<>>
    BY DEF Contents, PlainLayout
  <1>3. ~RunsWithFrames(p)
    BY <1>2 DEF RunsWithFrames, HasFunctions
  <1>4. IsBytecode(p) /\ f.version \in 4..7 /\ (f.version = 4 => p.bools = {})
    BY <1>1 DEF PlainLayout
  <1>5. VersionContract(f) /\ \A i \in Pcs(p) : InstructionOK(f, i)
    BY <1>1 DEF Decodes, Pcs
  <1>6. PlainContract(p) /\ p.scalars # 0
    BY <1>3, <1>5 DEF VersionContract, IsTypedScalarProgram, PlainContract
  <1>7. HasRepeat(p) => f.version = 7
    <2>. SUFFICES ASSUME NEW i \in Pcs(p), p.code[i].op \in {"REPEAT_ENTER", "REPEAT_NEXT"}
                  PROVE  f.version = 7
      BY DEF HasRepeat
    <2>1. Placeable(f, i)
      BY <1>5 DEF InstructionOK
    <2>2. ~InFunctions(f, i)
      BY <1>4 DEF InFunctions, WithFunctions
    <2>3. f.code[i].op \in {"REPEAT_ENTER", "REPEAT_NEXT"}
      BY <1>1
    <2>4. Versions(f.code[i].op) = {7}
      BY <2>3 DEF Versions, Arith, Compare, Set
    <2>. QED  BY <2>1, <2>2, <2>4 DEF Placeable
  <1>8. f.version = 7 => HasRepeat(p)
    <2>. SUFFICES ASSUME f.version = 7, ~HasRepeat(p) PROVE FALSE
      OBVIOUS
    <2>1. FlowContract(p)
      BY <1>6 DEF PlainContract
    <2>2. \E i \in Pcs(p) : p.code[i].op \in Set \cup {"REPEAT_ENTER", "REPEAT_NEXT"}
      BY <1>5 DEF VersionContract
    <2>. QED  BY <2>1, <2>2, <1>4, FlowOps DEF Set, Arith, Compare
  <1>9. f.version \in 4..6 =>
            (f.version = 6 <=> \E i \in Pcs(p) : p.code[i].op \in {"JUMP", "JUMP_IF_FALSE"})
    BY <1>5 DEF VersionContract
  <1>10. f.version = 5 => p.bools # {}
    BY <1>5, <1>1 DEF VersionContract
  <1>11. f.version \in 4..6 => (f.version = 6 <=> HasControlFlow(p))
    BY <1>7, <1>9 DEF HasControlFlow, At
  <1>. QED  BY <1>3, <1>4, <1>6, <1>7, <1>8, <1>10, <1>11, PlainVersion

\* What is decoded would be written as the very same file again.
LEMMA SameFileAgain ==
    ASSUME NEW f, PlainLayout(f), Decodes(f)
    PROVE  Encode(Contents(f)) = f
  <1>. PICK p : p = Contents(f)
    OBVIOUS
  <1>1. p.code = f.code /\ p.scalars = f.scalars /\ p.bools = f.bools
    BY DEF Contents
  <1>2. p.inputs = 0 /\ p.functions = <<>> /\ IsBytecode(p)
    BY DEF Contents, PlainLayout
  <1>3. Version(p) = f.version /\ f.version \in 4..7 /\ NumberOfFunctions(p) = 0
    BY <1>2, VersionAgain, PlainShape DEF PlainLayout
  <1>4. f.count = Size(p) /\ f.header = HeaderSize[f.version]
        /\ f.size = BytesOf(f.version, 0, 0, Size(p))
    BY <1>1 DEF PlainLayout, Size, Decodes, LimitsOK, SizeOK
  <1>. PICK g : g = Encode(p)
    OBVIOUS
  <1>10. Version(p) \in 4..7
    BY <1>3
  <1>11. /\ g.version = Version(p) /\ g.scalars = p.scalars /\ g.code = p.code
         /\ g.count = Size(p) /\ g.header = HeaderSize[Version(p)]
    BY <1>10, PlainFile
  <1>12. /\ g.functionCount = 0 /\ g.functionSize = 0 /\ g.main = 0 /\ g.inputCount = 0
         /\ g.inputSize = 0 /\ g.functions = p.functions
         /\ g.size = BytesOf(Version(p), NumberOfFunctions(p), p.inputs, Size(p))
    BY <1>10, PlainFile
  <1>13. g.bools = p.bools
    BY <1>1, <1>3, <1>10, PlainFile DEF PlainLayout
  <1>5. /\ g.version = f.version /\ g.scalars = f.scalars /\ g.code = f.code
        /\ g.count = f.count /\ g.bools = f.bools /\ g.header = f.header
        /\ g.functionCount = 0 /\ g.functionSize = 0 /\ g.main = 0 /\ g.inputCount = 0
        /\ g.inputSize = 0 /\ g.functions = <<>> /\ g.size = f.size
    BY <1>1, <1>2, <1>3, <1>4, <1>11, <1>12, <1>13
  <1>6. g = [version |-> g.version, header |-> g.header, count |-> g.count,
             scalars |-> g.scalars, bools |-> g.bools, functionCount |-> g.functionCount,
             functionSize |-> g.functionSize, main |-> g.main, inputCount |-> g.inputCount,
             inputSize |-> g.inputSize, functions |-> g.functions, inputs |-> g.inputs,
             code |-> g.code, size |-> g.size]
    BY DEF Encode, FileOf
  <1>7. g.inputs = f.inputs
    <2>1. g.inputs = [i \in 0..(p.inputs - 1) |-> [slot |-> i, name |-> i]]
      BY DEF Encode, FileOf
    <2>2. 0..(p.inputs - 1) = {}
      BY <1>2
    <2>3. DOMAIN f.inputs = {} /\ f.inputs = [i \in DOMAIN f.inputs |-> f.inputs[i]]
      BY DEF PlainLayout
    <2>. QED  BY <2>1, <2>2, <2>3
  <1>. QED  BY <1>5, <1>6, <1>7 DEF PlainLayout

\* Of the files that vary one of a program without frames, those the decoder
\* accepts are laid out like the encoder's.
LEMMA PlainVariation ==
    ASSUME NEW bc, IsBytecode(bc), AsDecoded(bc), ~RunsWithFrames(bc),
           NEW f \in Variations(bc), Decodes(f)
    PROVE  PlainLayout(f)
  <1>. DEFINE Layout(v, header, count, scalars, bools, size) ==
                [version |-> v, header |-> header, count |-> count,
                 scalars |-> scalars, bools |-> bools, functionCount |-> 0, functionSize |-> 0,
                 main |-> 0, inputCount |-> 0, inputSize |-> 0, functions |-> <<>>,
                 inputs |-> [i \in {} |-> [slot |-> i, name |-> i]], code |-> bc.code,
                 size |-> size]
  <1>1. /\ bc.inputs = 0 /\ bc.functions = <<>> /\ NumberOfFunctions(bc) = 0
        /\ bc.main = 0 /\ bc.scalars \in Nat /\ Size(bc) \in Nat
    BY PlainShape DEF AsDecoded, IsBytecode
  <1>2. LimitsOK(f) /\ SizeOK(f) /\ f.version \in 4..9
    BY DEF Decodes, VersionContract, LimitsOK
  <1>3. ASSUME NEW v \in 1..7
        PROVE  FileOf(bc, v) = Layout(v, HeaderSize[v], Size(bc),
                                      IF v \in 4..9 THEN bc.scalars ELSE 0,
                                      IF v \in 5..9 THEN bc.bools ELSE {},
                                      BytesOf(v, 0, 0, Size(bc)))
    <2>1. v \notin {8, 9} /\ v # 9
      OBVIOUS
    <2>2. 0..(bc.inputs - 1) = {}
      BY <1>1
    <2>. QED  BY <1>1, <2>1, <2>2 DEF FileOf, WithFunctions
  <1>4. ASSUME NEW v \in 8..9, f = FileOf(bc, v) PROVE FALSE
    <2>1. f.version = v /\ f.functionCount = 0
      BY <1>1, <1>4 DEF FileOf, WithFunctions
    <2>2. v = 9 => f.inputCount = 0
      BY <1>1, <1>4 DEF FileOf, WithFunctions
    <2>. QED  BY <1>2, <2>1, <2>2 DEF LimitsOK
  <1>5. ASSUME NEW v, NEW header, NEW count, NEW scalars \in Nat, NEW bools, NEW size,
               f = Layout(v, header, count, scalars, bools, size), count = Size(bc),
               v = 4 => bools = {}, v <= 7
        PROVE  PlainLayout(f)
    <2>1. /\ f.version = v /\ f.bools = bools /\ f.scalars = scalars /\ f.count = count
          /\ f.functions = <<>> /\ f.code = bc.code /\ f.main = 0 /\ f.inputCount = 0
          /\ f.header = header /\ f.size = size
          /\ f.inputs = [i \in {} |-> [slot |-> i, name |-> i]]
      BY <1>5
    <2>2. f = [version |-> f.version, header |-> f.header, count |-> f.count,
               scalars |-> f.scalars, bools |-> f.bools, functionCount |-> 0,
               functionSize |-> 0, main |-> 0, inputCount |-> 0, inputSize |-> 0,
               functions |-> <<>>, inputs |-> f.inputs, code |-> f.code, size |-> f.size]
      BY <1>5, <2>1
    <2>3. IsBytecode(Contents(f))
      <3>1. /\ Contents(f).code = bc.code /\ Contents(f).functions = bc.functions
            /\ Contents(f).main = 0 /\ Contents(f).scalars \in Nat /\ Contents(f).inputs = 0
        BY <1>1, <1>5, <2>1 DEF Contents
      <3>. QED  BY <3>1 DEF IsBytecode, Size, Pcs
    <2>4. f.version \in 4..7
      BY <1>2, <1>5, <2>1
    <2>. QED  BY <1>5, <2>1, <2>2, <2>3, <2>4 DEF PlainLayout, Size
  <1>. PICK e : e = Encode(bc)
    OBVIOUS
  <1>. PICK v0 : v0 = Version(bc)
    OBVIOUS
  <1>6. v0 \in 3..7 /\ (v0 = 4 => bc.bools = {}) /\ (v0 = 3 => bc.scalars = 0)
    BY <1>1 DEF Version, HasFunctions
  <1>. PICK bools0 : bools0 = IF v0 \in 5..9 THEN bc.bools ELSE {}
    OBVIOUS
  <1>. PICK size0 : size0 = BytesOf(v0, 0, 0, Size(bc))
    OBVIOUS
  <1>7. /\ e = Layout(v0, HeaderSize[v0], Size(bc), bc.scalars, bools0, size0)
        /\ HeaderSize[v0] \in Nat /\ size0 \in Nat /\ (v0 = 4 => bools0 = {})
    <2>1. e = FileOf(bc, v0) /\ v0 \in 1..7 /\ (v0 \in 4..9 \/ v0 = 3)
      BY <1>6 DEF Encode
    <2>2. HeaderSize[v0] \in Nat
      BY <2>1, HeaderType
    <2>3. size0 \in Nat
      BY <1>1, <2>2 DEF BytesOf, FunctionSize, InputSize, InstructionSize
    <2>. QED  BY <1>3, <1>6, <2>1, <2>2, <2>3
  <1>8. /\ e.version = v0 /\ e.header = HeaderSize[v0] /\ e.count = Size(bc)
        /\ e.scalars = bc.scalars /\ e.bools = bools0 /\ e.size = size0
        /\ DOMAIN e.inputs = {}
    BY <1>7
  <1>9. ASSUME NEW v \in 1..9, f = FileOf(bc, v) PROVE PlainLayout(f)
    <2>1. v \in 1..7
      BY <1>4, <1>9
    <2>. PICK scalars \in Nat : scalars = IF v \in 4..9 THEN bc.scalars ELSE 0
      BY <1>1
    <2>. PICK bools : bools = IF v \in 5..9 THEN bc.bools ELSE {}
      OBVIOUS
    <2>2. f = Layout(v, HeaderSize[v], Size(bc), scalars, bools, BytesOf(v, 0, 0, Size(bc)))
      BY <1>3, <1>9, <2>1
    <2>3. v = 4 => bools = {}
      OBVIOUS
    <2>4. v <= 7
      BY <2>1
    <2>. HIDE DEF Layout
    <2>. QED  BY <1>5, <2>2, <2>3, <2>4
  <1>10. CASE f = [e EXCEPT !.scalars = @ + 1]
    <2>. PICK h, c, s, k, i : /\ h = HeaderSize[v0] /\ c = Size(bc) /\ s = bc.scalars
                              /\ k = bc.code /\ i = [j \in {} |-> [slot |-> j, name |-> j]]
      OBVIOUS
    <2>3. ASSUME NEW n
          PROVE  [e EXCEPT !.scalars = n] = Layout(v0, HeaderSize[v0], Size(bc), n, bools0, size0)
      <3>1. e = [version |-> v0, header |-> h, count |-> c,
                 scalars |-> s, bools |-> bools0, functionCount |-> 0, functionSize |-> 0,
                 main |-> 0, inputCount |-> 0, inputSize |-> 0, functions |-> <<>>,
                 inputs |-> i, code |-> k, size |-> size0]
        BY <1>7
      <3>2. [e EXCEPT !.scalars = n] =
                [version |-> v0, header |-> h, count |-> c,
                 scalars |-> n, bools |-> bools0, functionCount |-> 0, functionSize |-> 0,
                 main |-> 0, inputCount |-> 0, inputSize |-> 0, functions |-> <<>>,
                 inputs |-> i, code |-> k, size |-> size0]
        BY ONLY <3>1
      <3>. QED  BY <3>2
    <2>4. f = [e EXCEPT !.scalars = bc.scalars + 1]
      BY <1>8, <1>10
    <2>1. f = Layout(v0, HeaderSize[v0], Size(bc), bc.scalars + 1, bools0, size0)
      <3>. HIDE DEF Layout
      <3>. QED  BY <2>3, <2>4
    <2>2. bc.scalars + 1 \in Nat /\ v0 <= 7
      BY <1>1, <1>6
    <2>. HIDE DEF Layout
    <2>. QED  BY <1>5, <1>7, <2>1, <2>2
  <1>11. f # [e EXCEPT !.header = @ + 8]
    <2>. SUFFICES ASSUME f = [e EXCEPT !.header = @ + 8] PROVE FALSE
      OBVIOUS
    <2>1. f.header = HeaderSize[v0] + 8 /\ f.version = v0
      BY <1>7, <1>8
    <2>. QED  BY <1>2, <1>7, <2>1 DEF LimitsOK
  <1>12. ASSUME NEW d \in Int, d # 0 PROVE f # [e EXCEPT !.size = size0 + d]
    <2>. SUFFICES ASSUME f = [e EXCEPT !.size = size0 + d] PROVE FALSE
      OBVIOUS
    <2>1. /\ f.size = size0 + d /\ f.version = v0 /\ f.functionCount = 0 /\ f.inputCount = 0
          /\ f.count = Size(bc)
      BY <1>7, <1>8
    <2>. QED  BY <1>2, <1>7, <1>12, <2>1 DEF SizeOK
  <1>13. f # [e EXCEPT !.count = @ + 1]
    <2>. SUFFICES ASSUME f = [e EXCEPT !.count = @ + 1] PROVE FALSE
      OBVIOUS
    <2>1. /\ f.size = size0 /\ f.version = v0 /\ f.functionCount = 0 /\ f.inputCount = 0
          /\ f.count = Size(bc) + 1
      BY <1>7, <1>8
    <2>2. BytesOf(v0, 0, 0, Size(bc) + 1) = size0 + 8
      BY <1>1, <1>7 DEF BytesOf, FunctionSize, InputSize, InstructionSize
    <2>. QED  BY <1>2, <1>7, <2>1, <2>2 DEF SizeOK
  <1>14. ASSUME NEW b, v0 \in 5..9, f = [e EXCEPT !.bools = b] PROVE PlainLayout(f)
    <2>1. f = Layout(v0, HeaderSize[v0], Size(bc), bc.scalars, b, size0)
      BY <1>7, <1>8, <1>14
    <2>2. v0 <= 7 /\ v0 # 4
      BY <1>6, <1>14
    <2>. HIDE DEF Layout
    <2>. QED  BY <1>1, <1>5, <2>1, <2>2
  <1>15. \/ \E v \in 1..9 : f = FileOf(bc, v)
         \/ f = [e EXCEPT !.scalars = @ + 1]
         \/ f = [e EXCEPT !.size = size0 + InstructionSize]
         \/ f = [e EXCEPT !.size = size0 - 1]
         \/ v0 \in 5..9 /\ \E b : f = [e EXCEPT !.bools = b]
    <2>1. {e.version} \cap WithFunctions = {}
      BY <1>6, <1>8 DEF WithFunctions
    <2>. QED  BY <1>8, <1>11, <1>13, <2>1 DEF Variations
  <1>16. f # [e EXCEPT !.size = size0 + InstructionSize]
    BY <1>12 DEF InstructionSize
  <1>17. f # [e EXCEPT !.size = size0 - 1]
    <2>1. size0 - 1 = size0 + (-1)
      BY <1>7
    <2>. QED  BY <1>12, <2>1
  <1>. QED  BY <1>9, <1>10, <1>14, <1>15, <1>16, <1>17

\* A program without frames has one file.
LEMMA PlainCanonical ==
    ASSUME NEW bc, IsBytecode(bc), AsDecoded(bc), ~RunsWithFrames(bc)
    PROVE  Canonical(bc)
  <1>. SUFFICES ASSUME NEW f \in Variations(bc), NEW p \in Decode(f)
                PROVE  Encode(p) = f
    BY DEF Canonical
  <1>1. Decodes(f) /\ p = Contents(f)
    BY DEF Decode
  <1>. QED  BY <1>1, PlainVariation, SameFileAgain

-----------------------------------------------------------------------------

\* Every program, of any size and for any limits, has one file, and the file
\* is the program: what the encoder writes the decoder reads back if and only
\* if the VM would run it, and no other file says the same.
THEOREM ExactFormat == Spec => []FormatIsExact
  <1>. DEFINE Inv == program \in Programs
  <1>1. Init => Inv
    BY DEF Init
  <1>2. Inv /\ [Next]_vars => Inv'
    BY DEF Next, vars, Load, Refuse, Const, Compute, RepeatEnter, RepeatNext, Emit, Branch,
           Jump, Halt, Assign, Advance
  <1>3. Inv => FormatIsExact
    BY ProgramsAssumption, PlainSurvives, PlainCanonical DEF FormatIsExact
  <1>. QED  BY <1>1, <1>2, <1>3, PTL DEF Spec

-----------------------------------------------------------------------------
(* What a program means (ScalarMeaning) *)

Calculates == {"CONST"} \cup Arith \cup Compare \cup Set

\* The operands of a line that calculates are slots, its constant fits one.
LineInSlots(ins) ==
    /\ ins.op \in Calculates /\ ins.a \in Slots
    /\ ins.op = "CONST" => ins.imm \in U32
    /\ ins.op # "CONST" => ins.b \in Slots /\ ins.flags \in Slots

\* The lines of the repeat at enter all do.
RepeatInSlots(bc, enter) ==
    /\ enter \in Nat /\ bc.code[enter].imm \in Nat /\ enter + 1 < bc.code[enter].imm
    /\ bc.code[enter].a \in Nat
    /\ \A i \in (enter + 1)..(bc.code[enter].imm - 2) : LineInSlots(bc.code[i])

\* The slots of a run that may have divided by zero.
Maybe == SlotValues \cup {Stuck}

\* Slots with values are not Stuck, and a value is not Undefined.
LEMMA NotStuck ==
    /\ \A env \in SlotValues : env # Stuck
    /\ \A v \in U32 : v # Undefined
  <1>1. ASSUME NEW env \in SlotValues, env = <<>> PROVE FALSE
    <2>1. 0 \in DOMAIN env
      BY LimitsAssumption DEF SlotValues
    <2>2. 0 \notin DOMAIN <<>>
      OBVIOUS
    <2>. QED  BY <1>1, <2>1, <2>2
  <1>2. \A v \in U32 : v # Undefined
    BY WidthAssumption DEF U32, Undefined
  <1>. QED  BY <1>1, <1>2 DEF Stuck

\* A line has a value, unless it divides by zero.
LEMMA CalculateType ==
    ASSUME NEW ins, LineInSlots(ins), NEW env \in SlotValues
    PROVE  /\ Calculate(ins, env) \in U32 \cup {Undefined}
           /\ ins.op # "CONST" /\ Divides(ins.op) /\ env[ins.flags] = 0 =>
                Calculate(ins, env) = Undefined
           /\ ins.op = "CONST" => Calculate(ins, env) = ins.imm
           /\ ins.op \in Compare =>
                Calculate(ins, env) = Test(ins.op, env[ins.b], env[ins.flags])
           /\ ins.op \in Arith \cup Set /\ (Divides(ins.op) => env[ins.flags] # 0) =>
                Calculate(ins, env) = Apply(ins.op, env[ins.b], env[ins.flags])
  <1>. DEFINE x == env[ins.b]
              y == env[ins.flags]
  <1>1. CASE ins.op = "CONST"
    BY <1>1 DEF Calculate, LineInSlots, Divides, Arith, Compare, Set
  <1>2. CASE ins.op # "CONST"
    <2>1. x \in U32 /\ y \in U32
      BY <1>2 DEF LineInSlots, SlotValues, Slots
    <2>2. CASE ins.op \in Compare
      <3>1. Calculate(ins, env) = Test(ins.op, x, y)
        BY <1>2, <2>2 DEF Calculate
      <3>2. ~Divides(ins.op) /\ ins.op \notin Arith \cup Set
        BY <2>2 DEF Divides, Arith, Compare, Set
      <3>3. Test(ins.op, x, y) \in U32
        BY TestType
      <3>. QED  BY <1>2, <3>1, <3>2, <3>3
    <2>3. CASE ins.op \notin Compare
      <3>1. ins.op \in Arith \cup Set
        BY <1>2, <2>3 DEF LineInSlots, Calculates
      <3>2. Calculate(ins, env) = IF Divides(ins.op) /\ y = 0 THEN Undefined
                                  ELSE Apply(ins.op, x, y)
        BY <1>2, <2>3 DEF Calculate
      <3>3. (Divides(ins.op) => y # 0) => Apply(ins.op, x, y) \in U32
        BY <2>1, <3>1, ApplyType
      <3>. QED  BY <1>2, <2>3, <3>1, <3>2, <3>3
    <2>. QED  BY <2>2, <2>3
  <1>. QED  BY <1>1, <1>2

\* A line leaves slots with values, or none.
LEMMA LineType ==
    ASSUME NEW ins, LineInSlots(ins), NEW env \in Maybe
    PROVE  /\ Line(ins, env) \in Maybe
           /\ env = Stuck => Line(ins, env) = Stuck
  <1>1. CASE env = Stuck
    BY <1>1 DEF Line, Maybe
  <1>2. CASE env # Stuck
    <2>1. env \in SlotValues /\ ins.a \in Slots
      BY <1>2 DEF Maybe, LineInSlots
    <2>2. Calculate(ins, env) \in U32 \cup {Undefined}
      BY <2>1, CalculateType
    <2>3. CASE Calculate(ins, env) = Undefined
      BY <2>3 DEF Line, Maybe
    <2>4. CASE Calculate(ins, env) # Undefined
      <3>1. [env EXCEPT ![ins.a] = Calculate(ins, env)] \in SlotValues
        BY <2>1, <2>2, <2>4 DEF SlotValues, Slots
      <3>. QED  BY <1>2, <2>4, <3>1 DEF Line, Maybe
    <2>. QED  BY <1>2, <2>3, <2>4
  <1>. QED  BY <1>1, <1>2

\* A line that gives a value stores it.
LEMMA LineStores ==
    ASSUME NEW ins, NEW env \in SlotValues, NEW v \in U32, Calculate(ins, env) = v
    PROVE  Line(ins, env) = [env EXCEPT ![ins.a] = v]
  BY NotStuck DEF Line

\* The slots in a turn of a repeat are what the lines before make of them, and
\* a turn that divides by zero stays so.
LEMMA TurnSolves ==
    ASSUME NEW bc, NEW enter, RepeatInSlots(bc, enter), NEW env \in Maybe
    PROVE  LET T == InTurn(bc, enter, env)
               places == (enter + 1)..(bc.code[enter].imm - 1)
           IN  /\ T[enter + 1] = env
               /\ \A i \in places : i + 1 \in places => T[i + 1] = Line(bc.code[i], T[i])
               /\ \A i \in places : T[i] \in Maybe
               /\ \A i, j \in places : i <= j /\ T[i] = Stuck => T[j] = Stuck
  <1>. DEFINE from == enter + 1
              to == bc.code[enter].imm - 1
              D == from..to
              V == Maybe
              Out(h) == [i \in D |-> IF i = from THEN env ELSE Line(bc.code[i - 1], h[i - 1])]
              F == [h \in [D -> V] |-> Out(h)]
              N == to - from
              rank == [i \in D |-> i - from]
              T == InTurn(bc, enter, env)
  <1>1. from \in Nat /\ to \in Nat /\ from <= to
        /\ \A i \in from..(to - 1) : LineInSlots(bc.code[i])
    BY DEF RepeatInSlots
  <1>2. env \in V /\ V # {} /\ N \in Nat /\ rank \in [D -> 0..N]
    BY <1>1
  <1>3. ASSUME NEW i \in D, i # from
        PROVE  i - 1 \in D /\ rank[i - 1] < rank[i] /\ LineInSlots(bc.code[i - 1])
    <2>1. i - 1 \in D /\ i - 1 \in from..(to - 1)
      BY <1>1, <1>3
    <2>2. rank[i - 1] = (i - 1) - from /\ rank[i] = i - from
      BY <2>1
    <2>3. rank[i - 1] < rank[i]
      <3>. HIDE DEF rank
      <3>. QED  BY <1>1, <2>1, <2>2
    <2>. QED  BY <1>1, <2>1, <2>3
  <1>4. ASSUME NEW h \in [D -> V] PROVE Out(h) \in [D -> V]
    <2>1. ASSUME NEW i \in D, i # from PROVE Line(bc.code[i - 1], h[i - 1]) \in V
      <3>1. i - 1 \in D /\ LineInSlots(bc.code[i - 1])
        BY <1>3, <2>1
      <3>2. h[i - 1] \in Maybe
        <4>. HIDE DEF D
        <4>. QED  BY <3>1
      <3>. QED  BY <3>1, <3>2, LineType
    <2>. HIDE DEF V, D, from
    <2>. QED  BY <1>2, <2>1
  <1>5. ASSUME NEW g \in [D -> V], NEW h \in [D -> V], NEW i \in D,
               \A j \in D : rank[j] < rank[i] => g[j] = h[j]
        PROVE  F[g][i] = F[h][i]
    <2>1. i # from => g[i - 1] = h[i - 1]
      <3>. HIDE DEF D, rank, from
      <3>. QED  BY <1>3, <1>5
    <2>2. Out(g)[i] = Out(h)[i]
      <3>. HIDE DEF D, from
      <3>. QED  BY <2>1
    <2>. HIDE DEF Out, D, V
    <2>. QED  BY <2>2
  <1>6. \E h \in [D -> V] : h = F[h]
    <2>1. F \in [[D -> V] -> [D -> V]]
      <3>. HIDE DEF D, V, Out
      <3>. QED  BY <1>4
    <2>2. \A g, h \in [D -> V] : \A i \in D :
            (\A j \in D : rank[j] < rank[i] => g[j] = h[j]) => F[g][i] = F[h][i]
      <3>. HIDE DEF D, V, F, rank
      <3>. QED  BY <1>5
    <2>. HIDE DEF D, V, F, N, rank
    <2>3. DependsDownwards(D, V, N, rank, F)
      BY <1>2, <2>1, <2>2 DEF DependsDownwards
    <2>. QED  BY ONLY <2>3, FixedPoint
  <1>7. \E h : h = Out(h)
    <2>1. PICK h \in [D -> V] : h = F[h]
      BY <1>6
    <2>. HIDE DEF D, V, Out
    <2>. QED  BY <2>1
  <1>8. T = CHOOSE h : h = Out(h)
    BY DEF InTurn
  <1>9. T = Out(T)
    <2>. HIDE DEF Out, T
    <2>. QED  BY <1>7, <1>8
  <1>. HIDE DEF T
  <1>10. \A i \in D : T[i] = IF i = from THEN env ELSE Line(bc.code[i - 1], T[i - 1])
    <2>. HIDE DEF D, from
    <2>. QED  BY <1>9
  <1>11. ASSUME NEW i \in D, i + 1 \in D
         PROVE  T[i + 1] = Line(bc.code[i], T[i]) /\ LineInSlots(bc.code[i])
    <2>1. i + 1 # from /\ (i + 1) - 1 = i
      BY <1>1
    <2>. HIDE DEF D, from
    <2>2. T[i + 1] = Line(bc.code[(i + 1) - 1], T[(i + 1) - 1])
      BY <1>10, <1>11, <2>1
    <2>3. LineInSlots(bc.code[(i + 1) - 1])
      BY <1>3, <1>11, <2>1
    <2>. QED  BY <2>1, <2>2, <2>3
  <1>12. T[from] = env /\ from \in D
    BY <1>1, <1>10
  <1>. HIDE DEF rank, F, N, Out
  <1>13. \A i \in D : T[i] \in Maybe
    <2>. DEFINE S == {n \in Nat : from + n \in D => T[from + n] \in Maybe}
    <2>1. 0 \in S
      <3>1. from + 0 = from
        BY <1>1
      <3>. QED  BY <1>12, <3>1
    <2>2. ASSUME NEW n \in Nat, n \in S PROVE n + 1 \in S
      <3>. SUFFICES ASSUME from + (n + 1) \in D PROVE T[from + (n + 1)] \in Maybe
        OBVIOUS
      <3>1. from + n \in D /\ from + (n + 1) = (from + n) + 1
        BY <1>1
      <3>2. T[from + n] \in Maybe
        BY <2>2, <3>1
      <3>. DEFINE i == from + n
      <3>3. i \in D /\ i + 1 \in D /\ T[i] \in Maybe
        BY <3>1, <3>2
      <3>. HIDE DEF D, i
      <3>4. T[i + 1] = Line(bc.code[i], T[i]) /\ LineInSlots(bc.code[i])
        BY <1>11, <3>3
      <3>5. T[i + 1] \in Maybe
        BY <3>3, <3>4, LineType
      <3>. QED  BY <3>1, <3>5 DEF i
    <2>3. \A n \in Nat : n \in S
      <3>. HIDE DEF S
      <3>. QED  BY <2>1, <2>2, SetInduction
    <2>4. ASSUME NEW i \in D PROVE T[i] \in Maybe
      <3>1. i - from \in Nat /\ from + (i - from) = i
        BY <1>1
      <3>2. i - from \in S
        BY <2>3, <3>1
      <3>. QED  BY <3>1, <3>2
    <2>. QED  BY <2>4
  <1>14. ASSUME NEW i \in D, NEW j \in D, i <= j, T[i] = Stuck PROVE T[j] = Stuck
    <2>. DEFINE S == {n \in Nat : i + n \in D => T[i + n] = Stuck}
    <2>1. 0 \in S
      <3>1. i + 0 = i
        BY <1>1
      <3>. QED  BY <1>14, <3>1
    <2>2. ASSUME NEW n \in Nat, n \in S PROVE n + 1 \in S
      <3>. SUFFICES ASSUME i + (n + 1) \in D PROVE T[i + (n + 1)] = Stuck
        OBVIOUS
      <3>1. i + n \in D /\ i + (n + 1) = (i + n) + 1
        BY <1>1
      <3>2. T[i + n] = Stuck
        BY <2>2, <3>1
      <3>. DEFINE m == i + n
      <3>3. m \in D /\ m + 1 \in D /\ T[m] = Stuck
        BY <3>1, <3>2
      <3>. HIDE DEF D, m
      <3>4. T[m + 1] = Line(bc.code[m], T[m]) /\ LineInSlots(bc.code[m])
        BY <1>11, <3>3
      <3>5. T[m + 1] = Stuck
        BY <3>3, <3>4 DEF Line
      <3>. QED  BY <3>1, <3>5 DEF m
    <2>3. \A n \in Nat : n \in S
      <3>. HIDE DEF S
      <3>. QED  BY <2>1, <2>2, SetInduction
    <2>4. j - i \in Nat /\ i + (j - i) = j
      BY <1>1, <1>14
    <2>5. j - i \in S
      BY <2>3, <2>4
    <2>. QED  BY <2>4, <2>5
  <1>15. \A i \in D : i + 1 \in D => T[i + 1] = Line(bc.code[i], T[i])
    BY <1>11
  <1>16. \A i, j \in D : i <= j /\ T[i] = Stuck => T[j] = Stuck
    BY <1>14
  <1>. QED  BY <1>12, <1>13, <1>15, <1>16 DEF T

\* So are the slots after the turns.
LEMMA TurnsSolve ==
    ASSUME NEW bc, NEW enter, RepeatInSlots(bc, enter), NEW env \in Maybe
    PROVE  LET A == AfterTurns(bc, enter, env)
               to == bc.code[enter].imm - 1
               turns == 0..bc.code[enter].a
           IN  /\ A[0] = env
               /\ \A k \in turns : k + 1 \in turns => A[k + 1] = InTurn(bc, enter, A[k])[to]
               /\ \A k \in turns : A[k] \in Maybe
               /\ \A k, m \in turns : k <= m /\ A[k] = Stuck => A[m] = Stuck
  <1>. DEFINE a == bc.code[enter].a
              to == bc.code[enter].imm - 1
              D == 0..a
              V == Maybe
              Out(h) == [k \in D |-> IF k = 0 THEN env ELSE InTurn(bc, enter, h[k - 1])[to]]
              F == [h \in [D -> V] |-> Out(h)]
              rank == [k \in D |-> k]
              A == AfterTurns(bc, enter, env)
  <1>1. a \in Nat /\ env \in V /\ V # {} /\ rank \in [D -> 0..a]
    BY DEF RepeatInSlots
  <1>2. ASSUME NEW k \in D, k # 0 PROVE k - 1 \in D /\ rank[k - 1] < rank[k]
    BY <1>1, <1>2
  <1>3. ASSUME NEW s \in Maybe
        PROVE  InTurn(bc, enter, s)[to] \in Maybe /\ (s = Stuck => InTurn(bc, enter, s)[to] = Stuck)
    <2>. DEFINE T == InTurn(bc, enter, s)
                places == (enter + 1)..to
    <2>1. /\ T[enter + 1] = s
          /\ \A i \in places : T[i] \in Maybe
          /\ \A i, j \in places : i <= j /\ T[i] = Stuck => T[j] = Stuck
      BY TurnSolves
    <2>2. to \in places /\ enter + 1 \in places /\ enter + 1 <= to
      BY DEF RepeatInSlots
    <2>. HIDE DEF T, to
    <2>. QED  BY <2>1, <2>2 DEF T
  <1>4. ASSUME NEW h \in [D -> V] PROVE Out(h) \in [D -> V]
    <2>1. ASSUME NEW k \in D, k # 0 PROVE InTurn(bc, enter, h[k - 1])[to] \in V
      <3>1. h[k - 1] \in Maybe
        <4>. HIDE DEF D
        <4>. QED  BY <1>2, <2>1
      <3>. QED  BY <1>3, <3>1
    <2>. HIDE DEF V, D, to
    <2>. QED  BY <1>1, <2>1
  <1>5. ASSUME NEW g \in [D -> V], NEW h \in [D -> V], NEW i \in D,
               \A j \in D : rank[j] < rank[i] => g[j] = h[j]
        PROVE  F[g][i] = F[h][i]
    <2>1. i # 0 => g[i - 1] = h[i - 1]
      <3>. HIDE DEF D, rank
      <3>. QED  BY <1>2, <1>5
    <2>2. Out(g)[i] = Out(h)[i]
      <3>. HIDE DEF D, to
      <3>. QED  BY <2>1
    <2>. HIDE DEF Out, D, V
    <2>. QED  BY <2>2
  <1>6. \E h \in [D -> V] : h = F[h]
    <2>1. F \in [[D -> V] -> [D -> V]]
      <3>. HIDE DEF D, V, Out
      <3>. QED  BY <1>4
    <2>2. \A g, h \in [D -> V] : \A i \in D :
            (\A j \in D : rank[j] < rank[i] => g[j] = h[j]) => F[g][i] = F[h][i]
      <3>. HIDE DEF D, V, F, rank
      <3>. QED  BY <1>5
    <2>. HIDE DEF D, V, F, a, rank
    <2>3. DependsDownwards(D, V, a, rank, F)
      BY <1>1, <2>1, <2>2 DEF DependsDownwards
    <2>. QED  BY ONLY <2>3, FixedPoint
  <1>7. \E h : h = Out(h)
    <2>1. PICK h \in [D -> V] : h = F[h]
      BY <1>6
    <2>. HIDE DEF D, V, Out
    <2>. QED  BY <2>1
  <1>8. A = CHOOSE h : h = Out(h)
    BY DEF AfterTurns
  <1>9. A = Out(A)
    <2>. HIDE DEF Out, A
    <2>. QED  BY <1>7, <1>8
  <1>. HIDE DEF A
  <1>10. \A k \in D : A[k] = IF k = 0 THEN env ELSE InTurn(bc, enter, A[k - 1])[to]
    <2>. HIDE DEF D, to
    <2>. QED  BY <1>9
  <1>11. A[0] = env /\ 0 \in D
    BY <1>1, <1>10
  <1>12. ASSUME NEW k \in D, k + 1 \in D PROVE A[k + 1] = InTurn(bc, enter, A[k])[to]
    <2>1. k + 1 # 0 /\ (k + 1) - 1 = k
      BY <1>1
    <2>. HIDE DEF D, to
    <2>2. A[k + 1] = InTurn(bc, enter, A[(k + 1) - 1])[to]
      BY <1>10, <1>12, <2>1
    <2>. QED  BY <2>1, <2>2
  <1>. HIDE DEF rank, F, Out, to
  <1>13. \A k \in D : A[k] \in Maybe
    <2>. DEFINE S == {n \in Nat : n \in D => A[n] \in Maybe}
    <2>1. 0 \in S
      BY <1>11
    <2>2. ASSUME NEW n \in Nat, n \in S PROVE n + 1 \in S
      <3>. SUFFICES ASSUME n + 1 \in D PROVE A[n + 1] \in Maybe
        OBVIOUS
      <3>1. n \in D
        BY <1>1
      <3>. HIDE DEF D
      <3>2. A[n] \in Maybe /\ A[n + 1] = InTurn(bc, enter, A[n])[to]
        BY <1>12, <2>2, <3>1
      <3>. QED  BY <1>3, <3>2
    <2>3. \A n \in Nat : n \in S
      <3>. HIDE DEF S
      <3>. QED  BY <2>1, <2>2, SetInduction
    <2>4. \A k \in D : k \in Nat
      BY <1>1
    <2>. HIDE DEF D
    <2>. QED  BY <2>3, <2>4
  <1>14. ASSUME NEW k \in D, NEW m \in D, k <= m, A[k] = Stuck PROVE A[m] = Stuck
    <2>. DEFINE S == {n \in Nat : k + n \in D => A[k + n] = Stuck}
    <2>1. 0 \in S
      <3>1. k + 0 = k
        BY <1>1
      <3>. QED  BY <1>14, <3>1
    <2>2. ASSUME NEW n \in Nat, n \in S PROVE n + 1 \in S
      <3>. SUFFICES ASSUME k + (n + 1) \in D PROVE A[k + (n + 1)] = Stuck
        OBVIOUS
      <3>. DEFINE j == k + n
      <3>1. j \in D /\ k + (n + 1) = j + 1
        BY <1>1
      <3>2. A[j] = Stuck
        BY <2>2, <3>1
      <3>. HIDE DEF D, j
      <3>3. A[j + 1] = InTurn(bc, enter, A[j])[to]
        BY <1>12, <3>1
      <3>4. A[j + 1] = Stuck
        BY <1>3, <3>2, <3>3 DEF Maybe
      <3>. QED  BY <3>1, <3>4
    <2>3. \A n \in Nat : n \in S
      <3>. HIDE DEF S
      <3>. QED  BY <2>1, <2>2, SetInduction
    <2>4. m - k \in Nat /\ k + (m - k) = m
      BY <1>1, <1>14
    <2>5. m - k \in S
      BY <2>3, <2>4
    <2>. QED  BY <2>4, <2>5
  <1>15. \A k \in D : k + 1 \in D => A[k + 1] = InTurn(bc, enter, A[k])[to]
    BY <1>12
  <1>16. \A k, m \in D : k <= m /\ A[k] = Stuck => A[m] = Stuck
    BY <1>14
  <1>. QED  BY <1>11, <1>13, <1>15, <1>16 DEF A, to

\* The slots of a function called with the operands of ins.
Passed(bc, ins, env) ==
    [s \in 0..(MaxScalars - 1) |->
        CASE s = 0 /\ bc.functions[ins.imm].params > 0 -> env[ins.b]
          [] s = 1 /\ bc.functions[ins.imm].params > 1 -> env[ins.flags]
          [] OTHER -> 0]

\* The slots with a value stored.
Stored(env, a, v) == [env EXCEPT ![a] = v]

\* What a run that goes on at next, with these slots, means.
Onward(Value, next, slots) ==
    IF slots = Stuck THEN Undefined ELSE Value[<<next, slots>>]

\* The value of the function called at i.
Called(bc, Value, i, env) ==
    Value[<<bc.functions[bc.code[i].imm].entry, Passed(bc, bc.code[i], env)>>]

\* What the meaning is at one place, given what it is at the others.
MeaningLine(bc, Value, at) ==
    LET i == at[1]
        env == at[2]
        ins == bc.code[i]
        called == Called(bc, Value, i, env)
    IN  CASE ins.op \in {"RETURN", "U32_EMIT", "BOOL_EMIT"} -> env[ins.a]
          [] ins.op \in {"REPEAT_NEXT", "END"} -> Undefined
          [] ins.op = "CALL" ->
               IF called = Undefined THEN Undefined
               ELSE Value[<<i + 1, Stored(env, ins.a, called)>>]
          [] ins.op = "REPEAT_ENTER" ->
               Onward(Value, ins.imm, AfterTurns(bc, i, env)[ins.a])
          [] ins.op = "JUMP_IF_FALSE" ->
               Value[<<IF env[ins.a] = 0 THEN ins.imm ELSE i + 1, env>>]
          [] ins.op = "JUMP" -> Value[<<ins.imm, env>>]
          [] OTHER -> Onward(Value, i + 1, Line(ins, env))

\* The place i needs the meaning at places of lower rank only, and its
\* operands are slots.
LeadsDown(bc, rank, i) ==
    LET ins == bc.code[i]
        Lower(j) == j \in Pcs(bc) /\ rank[j] < rank[i]
        fn == bc.functions[ins.imm]
    IN  /\ ins.op \in Opcodes
        /\ ins.op \in {"RETURN", "U32_EMIT", "BOOL_EMIT"} => ins.a \in Slots
        /\ ins.op \in Calculates => LineInSlots(ins) /\ Lower(i + 1)
        /\ ins.op = "REPEAT_ENTER" => RepeatInSlots(bc, i) /\ Lower(ins.imm)
        /\ ins.op = "JUMP_IF_FALSE" => ins.a \in Slots /\ Lower(ins.imm) /\ Lower(i + 1)
        /\ ins.op = "JUMP" => Lower(ins.imm)
        /\ ins.op = "CALL" =>
              /\ ins.a \in Slots /\ Lower(fn.entry) /\ Lower(i + 1)
              /\ fn.params > 0 => ins.b \in Slots
              /\ fn.params > 1 => ins.flags \in Slots

\* The places of bc are ranked so that all do.
Grounded(bc, N, rank) ==
    /\ N \in Nat /\ rank \in [Pcs(bc) -> 0..N]
    /\ \A i \in Pcs(bc) : LeadsDown(bc, rank, i)

\* Every opcode is one of those whose meaning is told.
LEMMA OpcodeKinds ==
    ASSUME NEW op \in Opcodes
    PROVE  \/ op \in {"RETURN", "U32_EMIT", "BOOL_EMIT"}
           \/ op \in {"REPEAT_NEXT", "END"}
           \/ op = "CALL" \/ op = "REPEAT_ENTER" \/ op = "JUMP_IF_FALSE" \/ op = "JUMP"
           \/ op \in Calculates
  BY DEF Opcodes, Calculates

\* No line that calculates is of another kind.
LEMMA CalculatesOnly ==
    ASSUME NEW op \in Calculates
    PROVE  op \notin {"RETURN", "U32_EMIT", "BOOL_EMIT", "REPEAT_NEXT", "END", "CALL",
                      "REPEAT_ENTER", "JUMP_IF_FALSE", "JUMP"}
  BY DEF Calculates, Arith, Compare, Set

\* The meaning at one place, kind by kind: a RETURN or an EMIT means its slot,
LEMMA MeansReturn ==
    ASSUME NEW bc, NEW Value, NEW i, NEW env, bc.code[i].op \in {"RETURN", "U32_EMIT", "BOOL_EMIT"}
    PROVE  MeaningLine(bc, Value, <<i, env>>) = env[bc.code[i].a]
  BY DEF MeaningLine

\* nothing goes on at a REPEAT_NEXT or an END,
LEMMA MeansNothing ==
    ASSUME NEW bc, NEW Value, NEW i, NEW env, bc.code[i].op \in {"REPEAT_NEXT", "END"}
    PROVE  MeaningLine(bc, Value, <<i, env>>) = Undefined
  BY DEF MeaningLine

\* a CALL goes on with the value of the function,
LEMMA MeansCall ==
    ASSUME NEW bc, NEW Value, NEW i, NEW env, bc.code[i].op = "CALL",
           Called(bc, Value, i, env) # Undefined,
           NEW next, next = <<i + 1, Stored(env, bc.code[i].a, Called(bc, Value, i, env))>>
    PROVE  MeaningLine(bc, Value, <<i, env>>) = Value[next]
  BY DEF MeaningLine

\* if it has one,
LEMMA MeansNoCall ==
    ASSUME NEW bc, NEW Value, NEW i, NEW env, bc.code[i].op = "CALL",
           Called(bc, Value, i, env) = Undefined
    PROVE  MeaningLine(bc, Value, <<i, env>>) = Undefined
  BY DEF MeaningLine

\* a repeat goes on behind its turns,
LEMMA MeansRepeat ==
    ASSUME NEW bc, NEW Value, NEW i, NEW env, bc.code[i].op = "REPEAT_ENTER"
    PROVE  MeaningLine(bc, Value, <<i, env>>) =
              Onward(Value, bc.code[i].imm, AfterTurns(bc, i, env)[bc.code[i].a])
  BY DEF MeaningLine

\* a branch goes on in one of two places,
LEMMA MeansBranch ==
    ASSUME NEW bc, NEW Value, NEW i, NEW env, bc.code[i].op = "JUMP_IF_FALSE",
           NEW next, next = <<IF env[bc.code[i].a] = 0 THEN bc.code[i].imm ELSE i + 1, env>>
    PROVE  MeaningLine(bc, Value, <<i, env>>) = Value[next]
  BY DEF MeaningLine

\* a JUMP at its target,
LEMMA MeansJump ==
    ASSUME NEW bc, NEW Value, NEW i, NEW env, bc.code[i].op = "JUMP",
           NEW next, next = <<bc.code[i].imm, env>>
    PROVE  MeaningLine(bc, Value, <<i, env>>) = Value[next]
  BY DEF MeaningLine

\* and a line that calculates goes on behind itself.
LEMMA MeansLine ==
    ASSUME NEW bc, NEW Value, NEW i, NEW env, bc.code[i].op \in Calculates
    PROVE  MeaningLine(bc, Value, <<i, env>>) = Onward(Value, i + 1, Line(bc.code[i], env))
  BY CalculatesOnly DEF MeaningLine

\* The slots of a called function have values.
LEMMA PassedType ==
    ASSUME NEW bc, NEW ins, NEW env \in SlotValues,
           bc.functions[ins.imm].params > 0 => ins.b \in Slots,
           bc.functions[ins.imm].params > 1 => ins.flags \in Slots
    PROVE  Passed(bc, ins, env) \in SlotValues
  <1>. DEFINE n == bc.functions[ins.imm].params
              arg(s) == CASE s = 0 /\ n > 0 -> env[ins.b]
                          [] s = 1 /\ n > 1 -> env[ins.flags]
                          [] OTHER -> 0
  <1>1. 0 \in U32
    BY WidthAssumption DEF U32
  <1>2. (n > 0 => env[ins.b] \in U32) /\ (n > 1 => env[ins.flags] \in U32)
    BY DEF SlotValues, Slots
  <1>. HIDE DEF n
  <1>3. ASSUME NEW s PROVE arg(s) \in U32
    <2>1. CASE s = 0 /\ n > 0
      BY <1>2, <2>1
    <2>2. CASE s = 1 /\ n > 1
      BY <1>2, <2>2
    <2>3. CASE ~(s = 0 /\ n > 0) /\ ~(s = 1 /\ n > 1)
      BY <1>1, <2>3
    <2>. QED  BY <2>1, <2>2, <2>3
  <1>4. Passed(bc, ins, env) = [s \in 0..(MaxScalars - 1) |-> arg(s)]
    BY DEF Passed, n
  <1>. HIDE DEF arg
  <1>. QED  BY <1>3, <1>4 DEF SlotValues

\* The meaning at a place is a value, if it is at the places it needs,
LEMMA MeaningLineType ==
    ASSUME NEW bc, NEW rank, NEW i \in Pcs(bc), LeadsDown(bc, rank, i), NEW env \in SlotValues,
           NEW Value \in [Pcs(bc) \X SlotValues -> U32 \cup {Undefined}]
    PROVE  MeaningLine(bc, Value, <<i, env>>) \in U32 \cup {Undefined}
  <1>. DEFINE ins == bc.code[i]
              line == MeaningLine(bc, Value, <<i, env>>)
              entry == bc.functions[ins.imm].entry
              called == Called(bc, Value, i, env)
              R == U32 \cup {Undefined}
  <1>1. \A j \in Pcs(bc), slots \in SlotValues : Value[<<j, slots>>] \in R
    <2>1. ASSUME NEW j \in Pcs(bc), NEW slots \in SlotValues PROVE Value[<<j, slots>>] \in R
      <3>1. <<j, slots>> \in Pcs(bc) \X SlotValues
        OBVIOUS
      <3>. HIDE DEF R
      <3>. QED  BY <3>1 DEF R
    <2>. QED  BY <2>1
  <1>2. \A j \in Pcs(bc), slots \in Maybe : Onward(Value, j, slots) \in R
    BY <1>1 DEF Onward, Maybe
  <1>3. CASE ins.op \in {"RETURN", "U32_EMIT", "BOOL_EMIT"}
    <2>1. line = env[ins.a] /\ ins.a \in Slots
      BY <1>3, MeansReturn DEF LeadsDown
    <2>. QED  BY <2>1 DEF SlotValues, Slots
  <1>4. CASE ins.op \in {"REPEAT_NEXT", "END"}
    BY <1>4, MeansNothing
  <1>5. CASE ins.op = "CALL"
    <2>1. /\ ins.a \in Slots /\ entry \in Pcs(bc) /\ i + 1 \in Pcs(bc)
          /\ bc.functions[ins.imm].params > 0 => ins.b \in Slots
          /\ bc.functions[ins.imm].params > 1 => ins.flags \in Slots
      BY <1>5 DEF LeadsDown
    <2>2. Passed(bc, ins, env) \in SlotValues
      BY <2>1, PassedType
    <2>3. called \in R
      <3>. HIDE DEF R
      <3>. QED  BY <1>1, <2>1, <2>2 DEF Called
    <2>4. CASE called = Undefined
      BY <1>5, <2>4, MeansNoCall
    <2>5. CASE called # Undefined
      <3>. DEFINE slots == Stored(env, ins.a, called)
                  next == <<i + 1, slots>>
      <3>1. slots \in SlotValues
        BY <2>1, <2>3, <2>5 DEF SlotValues, Slots, Stored
      <3>2. next = <<i + 1, slots>>
        OBVIOUS
      <3>. HIDE DEF next
      <3>3. line = Value[next]
        BY <1>5, <2>5, <3>2, MeansCall
      <3>. HIDE DEF slots, line, R
      <3>. QED  BY <1>1, <2>1, <3>1, <3>2, <3>3 DEF line, R
    <2>. QED  BY <2>4, <2>5
  <1>6. CASE ins.op = "REPEAT_ENTER"
    <2>. DEFINE A == AfterTurns(bc, i, env)
    <2>1. line = Onward(Value, ins.imm, A[ins.a])
      BY <1>6, MeansRepeat
    <2>2. RepeatInSlots(bc, i) /\ ins.imm \in Pcs(bc)
      BY <1>6 DEF LeadsDown
    <2>3. \A k \in 0..ins.a : A[k] \in Maybe
      BY <2>2, TurnsSolve DEF Maybe
    <2>4. ins.a \in 0..ins.a
      BY <2>2 DEF RepeatInSlots
    <2>. HIDE DEF A, line, R
    <2>. QED  BY <1>2, <2>1, <2>2, <2>3, <2>4 DEF line, R
  <1>7. CASE ins.op = "JUMP_IF_FALSE"
    <2>. DEFINE next == IF env[ins.a] = 0 THEN ins.imm ELSE i + 1
    <2>1. line = Value[<<next, env>>]
      BY <1>7, MeansBranch
    <2>2. next \in Pcs(bc)
      BY <1>7 DEF LeadsDown
    <2>. HIDE DEF line, R, next
    <2>. QED  BY <1>1, <2>1, <2>2 DEF line, R
  <1>8. CASE ins.op = "JUMP"
    <2>1. line = Value[<<ins.imm, env>>] /\ ins.imm \in Pcs(bc)
      BY <1>8, MeansJump DEF LeadsDown
    <2>. HIDE DEF line, R
    <2>. QED  BY <1>1, <2>1 DEF line, R
  <1>9. CASE ins.op \in Calculates
    <2>1. line = Onward(Value, i + 1, Line(ins, env)) /\ i + 1 \in Pcs(bc) /\ LineInSlots(ins)
      BY <1>9, MeansLine DEF LeadsDown
    <2>2. Line(ins, env) \in Maybe
      BY <2>1, LineType DEF Maybe
    <2>. HIDE DEF line, R
    <2>. QED  BY <1>2, <2>1, <2>2 DEF line, R
  <1>10. ins.op \in Opcodes
    BY DEF LeadsDown
  <1>. QED  BY <1>3, <1>4, <1>5, <1>6, <1>7, <1>8, <1>9, <1>10, OpcodeKinds

\* and does not depend on other places.
LEMMA MeaningLineLocal ==
    ASSUME NEW bc, NEW rank, NEW i \in Pcs(bc), LeadsDown(bc, rank, i), NEW env \in SlotValues,
           NEW g, NEW h, \A j \in Pcs(bc) : rank[j] < rank[i] =>
                            \A s \in SlotValues : g[<<j, s>>] = h[<<j, s>>],
           \A j \in Pcs(bc) : rank[j] < rank[i] =>
                            \A s \in SlotValues : g[<<j, s>>] \in U32 \cup {Undefined}
    PROVE  MeaningLine(bc, g, <<i, env>>) = MeaningLine(bc, h, <<i, env>>)
  <1>. DEFINE ins == bc.code[i]
              left == MeaningLine(bc, g, <<i, env>>)
              right == MeaningLine(bc, h, <<i, env>>)
              entry == bc.functions[ins.imm].entry
              args == Passed(bc, ins, env)
              Lower(j) == j \in Pcs(bc) /\ rank[j] < rank[i]
  <1>1. \A j, slots : Lower(j) /\ slots \in SlotValues => g[<<j, slots>>] = h[<<j, slots>>]
    OBVIOUS
  <1>2. \A j, slots : Lower(j) /\ slots \in Maybe => Onward(g, j, slots) = Onward(h, j, slots)
    BY <1>1 DEF Onward, Maybe
  <1>3. CASE ins.op \in {"RETURN", "U32_EMIT", "BOOL_EMIT"}
    <2>1. left = env[ins.a] /\ right = env[ins.a]
      BY <1>3, MeansReturn
    <2>. QED  BY <2>1
  <1>4. CASE ins.op \in {"REPEAT_NEXT", "END"}
    <2>1. left = Undefined /\ right = Undefined
      BY <1>4, MeansNothing
    <2>. QED  BY <2>1
  <1>5. CASE ins.op = "CALL"
    <2>. DEFINE x == Called(bc, g, i, env)
                y == Called(bc, h, i, env)
    <2>1. /\ ins.a \in Slots /\ Lower(entry) /\ Lower(i + 1)
          /\ bc.functions[ins.imm].params > 0 => ins.b \in Slots
          /\ bc.functions[ins.imm].params > 1 => ins.flags \in Slots
      BY <1>5 DEF LeadsDown
    <2>2. args \in SlotValues
      BY <2>1, PassedType
    <2>3. x = y /\ x \in U32 \cup {Undefined}
      <3>1. x = g[<<entry, args>>] /\ y = h[<<entry, args>>]
        BY DEF Called
      <3>. HIDE DEF args, entry, x, y
      <3>. QED  BY <1>1, <2>1, <2>2, <3>1
    <2>4. CASE x = Undefined
      <3>1. left = Undefined
        BY <1>5, <2>4, MeansNoCall
      <3>2. right = Undefined
        <4>1. y = Undefined
          BY <2>3, <2>4
        <4>. QED  BY <1>5, <4>1, MeansNoCall
      <3>. QED  BY <3>1, <3>2
    <2>5. CASE x # Undefined
      <3>. DEFINE slots == Stored(env, ins.a, x)
                  next == <<i + 1, slots>>
      <3>1. slots \in SlotValues
        <4>. HIDE DEF x
        <4>. QED  BY <2>1, <2>3, <2>5 DEF SlotValues, Slots, Stored
      <3>2. next = <<i + 1, Stored(env, ins.a, x)>>
        OBVIOUS
      <3>3. next = <<i + 1, Stored(env, ins.a, y)>> /\ y # Undefined
        <4>. HIDE DEF x, y
        <4>. QED  BY <2>3, <2>5
      <3>4. left = g[next]
        <4>. HIDE DEF next
        <4>. QED  BY <1>5, <2>5, <3>2, MeansCall
      <3>5. right = h[next]
        <4>. HIDE DEF next
        <4>. QED  BY <1>5, <3>3, MeansCall
      <3>. HIDE DEF slots, left, right, Lower
      <3>. QED  BY <1>1, <2>1, <3>1, <3>4, <3>5 DEF left, right
    <2>. QED  BY <2>4, <2>5
  <1>6. CASE ins.op = "REPEAT_ENTER"
    <2>. DEFINE A == AfterTurns(bc, i, env)
    <2>1. left = Onward(g, ins.imm, A[ins.a]) /\ right = Onward(h, ins.imm, A[ins.a])
      BY <1>6, MeansRepeat
    <2>2. RepeatInSlots(bc, i) /\ Lower(ins.imm)
      BY <1>6 DEF LeadsDown
    <2>3. \A k \in 0..ins.a : A[k] \in Maybe
      BY <2>2, TurnsSolve DEF Maybe
    <2>4. ins.a \in 0..ins.a
      BY <2>2 DEF RepeatInSlots
    <2>. HIDE DEF A, left, right, Lower
    <2>. QED  BY <1>2, <2>1, <2>2, <2>3, <2>4 DEF left, right
  <1>7. CASE ins.op = "JUMP_IF_FALSE"
    <2>. DEFINE j == IF env[ins.a] = 0 THEN ins.imm ELSE i + 1
    <2>1. left = g[<<j, env>>] /\ right = h[<<j, env>>]
      <3>1. left = g[<<j, env>>]
        BY <1>7, MeansBranch
      <3>2. right = h[<<j, env>>]
        BY <1>7, MeansBranch
      <3>. QED  BY <3>1, <3>2
    <2>2. Lower(j)
      BY <1>7 DEF LeadsDown
    <2>. HIDE DEF left, right, j, Lower
    <2>. QED  BY <1>1, <2>1, <2>2 DEF left, right
  <1>8. CASE ins.op = "JUMP"
    <2>1. left = g[<<ins.imm, env>>] /\ right = h[<<ins.imm, env>>]
      <3>1. left = g[<<ins.imm, env>>]
        <4>. DEFINE next == <<ins.imm, env>>
        <4>1. next = <<ins.imm, env>>
          OBVIOUS
        <4>. HIDE DEF next
        <4>2. left = g[next]
          BY <1>8, <4>1, MeansJump
        <4>. QED  BY <4>2 DEF next
      <3>2. right = h[<<ins.imm, env>>]
        <4>. DEFINE next == <<ins.imm, env>>
        <4>1. next = <<ins.imm, env>>
          OBVIOUS
        <4>. HIDE DEF next
        <4>2. right = h[next]
          BY <1>8, <4>1, MeansJump
        <4>. QED  BY <4>2 DEF next
      <3>. QED  BY <3>1, <3>2
    <2>2. Lower(ins.imm)
      BY <1>8 DEF LeadsDown
    <2>. HIDE DEF left, right, Lower
    <2>. QED  BY <1>1, <2>1, <2>2 DEF left, right
  <1>9. CASE ins.op \in Calculates
    <2>1. /\ left = Onward(g, i + 1, Line(ins, env)) /\ right = Onward(h, i + 1, Line(ins, env))
          /\ Lower(i + 1) /\ LineInSlots(ins)
      BY <1>9, MeansLine DEF LeadsDown
    <2>2. Line(ins, env) \in Maybe
      BY <2>1, LineType DEF Maybe
    <2>. HIDE DEF left, right, Lower
    <2>. QED  BY <1>2, <2>1, <2>2 DEF left, right
  <1>10. ins.op \in Opcodes
    BY DEF LeadsDown
  <1>. QED  BY <1>3, <1>4, <1>5, <1>6, <1>7, <1>8, <1>9, <1>10, OpcodeKinds

\* So the meaning of a program whose places are grounded exists, and at each
\* place it is what it should be.
LEMMA MeaningSolves ==
    ASSUME NEW bc, NEW N, NEW rank, Grounded(bc, N, rank)
    PROVE  \A i \in Pcs(bc), env \in SlotValues :
              MeaningFrom(bc)[<<i, env>>] = MeaningLine(bc, MeaningFrom(bc), <<i, env>>)
  <1>. DEFINE P == Pcs(bc)
              D == P \X SlotValues
              V == U32 \cup {Undefined}
              Out(h) == [at \in D |-> MeaningLine(bc, h, at)]
              F == [h \in [D -> V] |-> Out(h)]
              height == [at \in D |-> rank[at[1]]]
              M == MeaningFrom(bc)
  <1>1. V # {} /\ N \in Nat /\ height \in [D -> 0..N]
    <2>1. Undefined \in V
      OBVIOUS
    <2>2. N \in Nat /\ rank \in [P -> 0..N]
      BY DEF Grounded
    <2>. HIDE DEF V, P
    <2>. QED  BY <2>1, <2>2
  <1>2. ASSUME NEW at \in D PROVE at = <<at[1], at[2]>> /\ at[1] \in P /\ at[2] \in SlotValues
                                  /\ LeadsDown(bc, rank, at[1])
    <2>1. at = <<at[1], at[2]>> /\ at[1] \in P /\ at[2] \in SlotValues
      BY ONLY <1>2
    <2>. QED  BY <2>1 DEF Grounded
  <1>3. ASSUME NEW h \in [D -> V], NEW at \in D PROVE MeaningLine(bc, h, at) \in V
    <2>1. MeaningLine(bc, h, <<at[1], at[2]>>) \in V
      BY <1>2, MeaningLineType
    <2>. QED  BY <1>2, <2>1
  <1>4. ASSUME NEW g \in [D -> V], NEW h \in [D -> V], NEW at \in D,
               \A b \in D : height[b] < height[at] => g[b] = h[b]
        PROVE  MeaningLine(bc, g, at) = MeaningLine(bc, h, at)
    <2>. DEFINE i == at[1]
                env == at[2]
    <2>1. at = <<i, env>> /\ i \in P /\ env \in SlotValues /\ LeadsDown(bc, rank, i)
      BY <1>2
    <2>2. ASSUME NEW j \in P, rank[j] < rank[i], NEW s \in SlotValues
          PROVE  g[<<j, s>>] = h[<<j, s>>] /\ g[<<j, s>>] \in V
      <3>1. <<j, s>> \in D /\ height[<<j, s>>] = rank[j] /\ height[at] = rank[i]
        BY <2>1
      <3>. HIDE DEF D, V, height
      <3>. QED  BY <1>4, <2>2, <3>1
    <2>. HIDE DEF i, env
    <2>3. MeaningLine(bc, g, <<i, env>>) = MeaningLine(bc, h, <<i, env>>)
      BY <2>1, <2>2, MeaningLineLocal
    <2>. QED  BY <2>1, <2>3
  <1>5. F \in [[D -> V] -> [D -> V]]
    <2>. HIDE DEF D, V
    <2>. QED  BY <1>3
  <1>6. \E h \in [D -> V] : h = F[h]
    <2>1. \A g, h \in [D -> V] : \A at \in D :
            (\A b \in D : height[b] < height[at] => g[b] = h[b]) => F[g][at] = F[h][at]
      <3>. HIDE DEF D, V, height
      <3>. QED  BY <1>4
    <2>. HIDE DEF D, V, F, height
    <2>2. DependsDownwards(D, V, N, height, F)
      BY <1>1, <1>5, <2>1 DEF DependsDownwards
    <2>. QED  BY ONLY <2>2, FixedPoint
  <1>7. \E h : h = Out(h)
    <2>1. PICK h \in [D -> V] : h = F[h]
      BY <1>6
    <2>. HIDE DEF D, V, Out
    <2>. QED  BY <2>1
  <1>8. M = CHOOSE h : h = Out(h)
    BY DEF MeaningFrom, MeaningLine, Passed, Onward, Stored, Called
  <1>9. M = Out(M)
    <2>. HIDE DEF Out, M
    <2>. QED  BY <1>7, <1>8
  <1>. HIDE DEF M
  <1>10. \A at \in D : M[at] = MeaningLine(bc, M, at)
    <2>. HIDE DEF D
    <2>. QED  BY <1>9
  <1>11. ASSUME NEW i \in P, NEW env \in SlotValues
         PROVE  M[<<i, env>>] = MeaningLine(bc, M, <<i, env>>)
    <2>1. <<i, env>> \in D
      OBVIOUS
    <2>. HIDE DEF D
    <2>. QED  BY <1>10, <2>1
  <1>. QED  BY <1>11 DEF M
-----------------------------------------------------------------------------
(* A plain program has a meaning *)

\* The places of a plain program are ranked backwards: no line leads back.
Backwards(bc) == [i \in Pcs(bc) |-> Size(bc) - i]

\* The operands a line of a plain program touches are slots.
LEMMA PlainSlots ==
    ASSUME NEW bc, IsBytecode(bc), PlainContract(bc), NEW i \in Pcs(bc)
    PROVE  /\ bc.code[i].op \in Opcodes
           /\ bc.code[i].op \in Calculates => LineInSlots(bc.code[i])
           /\ bc.code[i].op \in {"U32_EMIT", "BOOL_EMIT", "JUMP_IF_FALSE"} => bc.code[i].a \in Slots
  <1>. DEFINE ins == bc.code[i]
  <1>1. ins \in Instruction /\ (ins.op = "CONST" => ins.imm \in U32)
    BY DEF IsBytecode, Pcs
  <1>2. \A s \in Touched(ins) : s < bc.scalars
    BY ContractTouches
  <1>3. \A s \in Touched(ins) : s \in Nat
    BY <1>1 DEF Touched, Instruction
  <1>4. bc.scalars \in 1..MaxScalars /\ MaxScalars \in Nat
    BY LimitsAssumption DEF PlainContract
  <1>5. \A s \in Touched(ins) : s \in Slots
    BY <1>2, <1>3, <1>4 DEF Slots
  <1>6. ASSUME ins.op \in Calculates PROVE LineInSlots(ins)
    <2>1. CASE ins.op = "CONST"
      <3>1. ins.a \in Touched(ins)
        BY <2>1 DEF Touched, Arith, Compare, Set
      <3>. QED  BY <1>1, <1>5, <1>6, <2>1, <3>1 DEF LineInSlots
    <2>2. CASE ins.op # "CONST"
      <3>1. Touched(ins) = {ins.a, ins.b, ins.flags}
        BY <1>6, <2>2 DEF Touched, Calculates
      <3>. QED  BY <1>5, <1>6, <2>2, <3>1 DEF LineInSlots
    <2>. QED  BY <2>1, <2>2
  <1>7. ASSUME ins.op \in {"U32_EMIT", "BOOL_EMIT", "JUMP_IF_FALSE"} PROVE ins.a \in Slots
    <2>1. ins.a \in Touched(ins)
      BY <1>7 DEF Touched, Arith, Compare, Set
    <2>. QED  BY <1>5, <2>1
  <1>. QED  BY <1>1, <1>6, <1>7 DEF Instruction

\* Where the lines of a program without a repeat lead.
LEMMA FlowLeads ==
    ASSUME NEW bc, IsBytecode(bc), PlainContract(bc), ~HasRepeat(bc), NEW i \in Pcs(bc)
    PROVE  LeadsDown(bc, Backwards(bc), i)
  <1>. DEFINE ins == bc.code[i]
              last == Size(bc) - 1
              Lower(j) == j \in Pcs(bc) /\ Backwards(bc)[j] < Backwards(bc)[i]
  <1>1. Size(bc) \in Nat /\ Size(bc) >= 3 /\ Pcs(bc) = 0..last /\ bc.code[last].op = "END"
    BY FlowForm
  <1>2. \A j \in (i + 1)..last : Lower(j)
    BY <1>1 DEF Backwards
  <1>3. ins.op \notin {"REPEAT_ENTER", "REPEAT_NEXT"}
    BY DEF HasRepeat
  <1>4. /\ ins.op \in Opcodes
        /\ ins.op \in Calculates => LineInSlots(ins)
        /\ ins.op \in {"U32_EMIT", "BOOL_EMIT", "JUMP_IF_FALSE"} => ins.a \in Slots
    BY PlainSlots
  <1>5. CASE i = last
    BY <1>1, <1>4, <1>5, CalculatesOnly DEF LeadsDown
  <1>6. CASE i # last
    <2>1. FlowLine(bc, i)
      BY <1>6, FlowForm
    <2>2. i + 1 \in (i + 1)..last
      BY <1>1, <1>6
    <2>3. ins.op \notin {"CALL", "RETURN"}
      BY <2>1 DEF FlowLine, TypedOK, ConstOK, BinaryOK, EmitOK, Arith, Compare
    <2>4. ins.op \in {"JUMP", "JUMP_IF_FALSE"} => ins.imm \in (i + 1)..last
      BY <2>1 DEF FlowLine, TypedOK, ConstOK, BinaryOK, EmitOK, Arith, Compare
    <2>. HIDE DEF Lower
    <2>5. Lower(i + 1) /\ (ins.op \in {"JUMP", "JUMP_IF_FALSE"} => Lower(ins.imm))
      BY <1>2, <2>2, <2>4
    <2>. QED  BY <1>3, <1>4, <2>3, <2>5 DEF LeadsDown, Lower
  <1>. QED  BY <1>5, <1>6

\* A repeat is one of lines that calculate.
LEMMA RepeatHolds ==
    ASSUME NEW bc, IsBytecode(bc), PlainContract(bc), NEW enter, NEW next,
           RepeatForm(bc, enter, next)
    PROVE  RepeatInSlots(bc, enter)
  <1>1. /\ enter \in Nat /\ next \in Nat /\ next > enter + 1 /\ next + 3 = Size(bc)
        /\ bc.code[enter].a \in 1..MaxRepeat /\ bc.code[enter].imm = next + 1
    BY DEF RepeatForm
  <1>2. ASSUME NEW i \in (enter + 1)..(bc.code[enter].imm - 2) PROVE LineInSlots(bc.code[i])
    <2>1. i \in (enter + 1)..(next - 1) /\ i \in 0..(Size(bc) - 1)
      BY <1>1
    <2>2. i \in Pcs(bc)
      BY <2>1 DEF IsBytecode, Pcs
    <2>3. bc.code[i].op \in Calculates
      BY <2>1 DEF RepeatForm, SetOK, Calculates
    <2>. QED  BY <2>2, <2>3, PlainSlots
  <1>3. MaxRepeat \in Nat
    BY LimitsAssumption
  <1>. QED  BY <1>1, <1>2, <1>3 DEF RepeatInSlots

\* Where the lines of a program with one lead.
LEMMA RepeatLeads ==
    ASSUME NEW bc, IsBytecode(bc), PlainContract(bc), HasRepeat(bc), NEW i \in Pcs(bc)
    PROVE  LeadsDown(bc, Backwards(bc), i)
  <1>. DEFINE ins == bc.code[i]
              Lower(j) == j \in Pcs(bc) /\ Backwards(bc)[j] < Backwards(bc)[i]
  <1>1. PICK enter, next : RepeatForm(bc, enter, next)
    BY RepeatFormed
  <1>2. enter \in Nat /\ next \in Nat /\ next > enter + 1 /\ Size(bc) = next + 3
        /\ Pcs(bc) = 0..(next + 2)
    BY <1>1 DEF RepeatForm, IsBytecode, Pcs
  <1>3. \A j \in (i + 1)..(next + 2) : Lower(j)
    BY <1>2 DEF Backwards
  <1>4. /\ ins.op \in Opcodes
        /\ ins.op \in Calculates => LineInSlots(ins)
        /\ ins.op \in {"U32_EMIT", "BOOL_EMIT", "JUMP_IF_FALSE"} => ins.a \in Slots
    BY PlainSlots
  <1>5. CASE i < enter \/ i \in (enter + 1)..(next - 1)
    <2>1. ins.op \in Calculates
      BY <1>1, <1>2, <1>5
      DEF RepeatForm, TypedOK, ConstOK, BinaryOK, SetOK, Calculates
    <2>2. Lower(i + 1)
      BY <1>2, <1>3, <1>5
    <2>. HIDE DEF Lower
    <2>. QED  BY <1>4, <2>1, <2>2, CalculatesOnly DEF LeadsDown, Lower
  <1>6. CASE i = enter
    <2>1. ins.op = "REPEAT_ENTER" /\ ins.imm = next + 1
      BY <1>1, <1>6 DEF RepeatForm
    <2>2. Lower(ins.imm)
      BY <1>2, <1>3, <1>6, <2>1
    <2>. HIDE DEF Lower
    <2>. QED  BY <1>1, <1>4, <1>6, <2>1, <2>2, CalculatesOnly, RepeatHolds DEF LeadsDown, Lower
  <1>7. CASE i \in {next, next + 1, next + 2}
    <2>1. ins.op \in {"REPEAT_NEXT", "U32_EMIT", "BOOL_EMIT", "END"}
      BY <1>1, <1>7 DEF RepeatForm, EmitOK
    <2>. QED  BY <1>4, <2>1, CalculatesOnly DEF LeadsDown
  <1>. QED  BY <1>2, <1>5, <1>6, <1>7

\* What an accepted plain program means is well defined, however it jumps: at
\* each place and for all slots, the recursive definition of the meaning does
\* equal its body.
THEOREM PlainMeans ==
    ASSUME NEW bc, IsBytecode(bc), PlainContract(bc)
    PROVE  \A i \in Pcs(bc), env \in SlotValues :
              MeaningFrom(bc)[<<i, env>>] = MeaningLine(bc, MeaningFrom(bc), <<i, env>>)
  <1>1. Size(bc) \in Nat /\ Backwards(bc) \in [Pcs(bc) -> 0..Size(bc)]
    BY DEF IsBytecode, Pcs, Backwards
  <1>2. \A i \in Pcs(bc) : LeadsDown(bc, Backwards(bc), i)
    BY FlowLeads, RepeatLeads
  <1>3. Grounded(bc, Size(bc), Backwards(bc))
    BY <1>1, <1>2 DEF Grounded
  <1>. QED  BY <1>3, MeaningSolves
-----------------------------------------------------------------------------
(* A plain run computes what the program means *)

Whole == Meaning(program, <<>>)

\* What the program means that goes on at a place with these slots.
Rest(at, env) == MeaningFrom(program)[<<at, env>>]

\* A repeat turned the slots env it began with into the present ones.
InRepeat(env) ==
    LET enter == repeat_enter_pc
        turn == AfterTurns(program, enter, env)[program.code[enter].a - repeat_remaining]
    IN  /\ env \in SlotValues
        /\ Rest(enter, env) = Whole
        /\ values = IF pc = enter THEN turn ELSE InTurn(program, enter, turn)[pc]

\* A line before pc assigned the slot s.
AssignedBefore(s) ==
    \E i \in Pcs(program) :
        i < pc /\ program.code[i].op \in {"CONST"} \cup Arith \cup Compare /\ program.code[i].a = s

\* What is left to run means what the program does, until a slot is emitted;
\* then this slot keeps the value.
MeaningInv ==
    /\ status = "running" /\ emitted = {} =>
          IF repeat_remaining = 0 THEN Rest(pc, values) = Whole ELSE \E env : InRepeat(env)
    /\ status \in {"running", "done"} /\ AssignedOnce(program) =>
          \A s \in emitted : values[s] = Whole
    /\ status = "running" /\ ~HasRepeat(program) => \A s \in initialized : AssignedBefore(s)
    /\ status = "done" => emitted # {}
    /\ status = "divided_by_zero" /\ emitted = {} => Whole = Undefined

\* What the lines before pc mean is told by the line at pc.
LEMMA RestHere ==
    ASSUME IInv, Fetched, NEW env \in SlotValues
    PROVE  Rest(pc, env) = MeaningLine(program, MeaningFrom(program), <<pc, env>>)
  <1>1. IsBytecode(program) /\ PlainContract(program) /\ pc \in Pcs(program)
    BY DEF IInv, TypeOK, Checked, Fetched
  <1>. QED  BY <1>1, PlainMeans DEF Rest

\* The slots of the VM have values.
LEMMA ValuesType == ASSUME IInv PROVE values \in SlotValues
  BY DEF IInv, TypeOK, SlotValues, Slots

\* The place of a run in a repeat.
LEMMA InRepeatPlace ==
    ASSUME IInv, RunInv, status = "running", repeat_remaining # 0
    PROVE  LET enter == repeat_enter_pc
               count == program.code[enter].a
               next == program.code[enter].imm - 1
           IN  /\ HasRepeat(program) /\ RepeatInSlots(program, enter)
               /\ enter \in Nat /\ next \in Nat /\ next > enter + 1
               /\ pc \in enter..next /\ enter \in Pcs(program)
               /\ program.code[enter].op = "REPEAT_ENTER"
               /\ program.code[next].op = "REPEAT_NEXT"
               /\ count \in Nat /\ repeat_remaining \in 1..count
               /\ count - repeat_remaining \in 0..count
               /\ (count - repeat_remaining) + 1 \in 0..count
               /\ count \in 0..count
  <1>1. HasRepeat(program)
    BY DEF RunInv, FlowInv
  <1>2. PICK enter, next : RepeatForm(program, enter, next) /\ RepeatAt(enter, next)
    BY <1>1 DEF RunInv, RepeatInv
  <1>3. /\ pc \in 0..(next + 2) /\ enter \in Nat /\ next \in Nat /\ next > enter + 1
        /\ Pcs(program) = 0..(next + 2)
    BY <1>2, RepeatPlaces
  <1>4. /\ pc \in enter..next /\ repeat_enter_pc = enter
        /\ repeat_remaining \in 1..program.code[enter].a
    BY <1>2 DEF RepeatAt
  <1>5. /\ program.code[enter].a \in Nat /\ program.code[enter].imm - 1 = next
        /\ program.code[enter].op = "REPEAT_ENTER" /\ program.code[next].op = "REPEAT_NEXT"
    BY <1>2, <1>3, LimitsAssumption DEF RepeatForm
  <1>6. RepeatInSlots(program, enter)
    BY <1>2, RepeatHolds DEF IInv, TypeOK, Checked
  <1>7. /\ program.code[enter].a - repeat_remaining \in 0..program.code[enter].a
        /\ (program.code[enter].a - repeat_remaining) + 1 \in 0..program.code[enter].a
        /\ program.code[enter].a \in 0..program.code[enter].a
    BY <1>4, <1>5
  <1>8. enter \in Pcs(program)
    BY <1>3
  <1>. QED  BY <1>1, <1>3, <1>4, <1>5, <1>6, <1>7, <1>8

\* The meaning of a repeat goes on behind it.
LEMMA RepeatMeans ==
    ASSUME IInv, status = "running", NEW enter \in Pcs(program),
           program.code[enter].op = "REPEAT_ENTER", NEW env \in SlotValues
    PROVE  Rest(enter, env) =
              Onward(MeaningFrom(program), program.code[enter].imm,
                     AfterTurns(program, enter, env)[program.code[enter].a])
  <1>1. Rest(enter, env) = MeaningLine(program, MeaningFrom(program), <<enter, env>>)
    BY PlainMeans DEF Rest, IInv, TypeOK, Checked
  <1>. QED  BY <1>1, MeansRepeat

\* An assignment gives the slot the value the line calculates.
LEMMA AssignedValue ==
    ASSUME IInv, Const \/ Compute
    PROVE  \E v \in U32 : Assign(v) /\ Calculate(Ins, values) = v /\ Ins.op \in Calculates
  <1>1. Fetched /\ values \in SlotValues
    BY ValuesType DEF Const, Compute
  <1>2. Ins.op \in Calculates
    BY DEF Const, Compute, CanConst, CanCompute, CanSet, Calculates
  <1>3. LineInSlots(Ins)
    BY <1>1, <1>2, PlainSlots DEF IInv, TypeOK, Checked, Fetched, Ins
  <1>4. CASE Const
    <2>1. Ins.op = "CONST" /\ Assign(Ins.imm) /\ Ins.imm \in U32
      BY <1>1, <1>4, InsType DEF Const, CanConst
    <2>2. Calculate(Ins, values) = Ins.imm
      BY <1>1, <1>3, <2>1, CalculateType
    <2>. QED  BY <1>2, <2>1, <2>2
  <1>5. CASE Compute
    <2>. DEFINE x == values[Ins.b]
                y == values[Ins.flags]
                v == IF Ins.op \in Compare THEN Test(Ins.op, x, y) ELSE Apply(Ins.op, x, y)
    <2>1. Assign(v) /\ (CanCompute \/ CanSet) /\ ~ByZero
      BY <1>5 DEF Compute
    <2>2. Ins.op \in Arith \cup Compare \cup Set /\ (Divides(Ins.op) => y # 0)
      BY <2>1 DEF CanCompute, CanSet, ByZero
    <2>3. Ins.op # "CONST"
      BY <2>2 DEF Arith, Compare, Set
    <2>4. Calculate(Ins, values) = v /\ v # Undefined
      <3>1. CASE Ins.op \in Compare
        <4>1. Calculate(Ins, values) = Test(Ins.op, x, y) /\ Test(Ins.op, x, y) \in U32
          BY <1>1, <1>3, <3>1, CalculateType, TestType
        <4>. QED  BY <3>1, <4>1, NotStuck
      <3>2. CASE Ins.op \notin Compare
        <4>1. Ins.op \in Arith \cup Set
          BY <2>2, <3>2
        <4>2. Calculate(Ins, values) = Apply(Ins.op, x, y)
          BY <1>1, <1>3, <2>2, <4>1, CalculateType
        <4>3. x \in U32 /\ y \in U32
          BY <1>1, <1>3, <2>3 DEF LineInSlots, SlotValues, Slots
        <4>4. Apply(Ins.op, x, y) \in U32
          BY <2>2, <4>1, <4>3, ApplyType
        <4>. QED  BY <3>2, <4>2, <4>4, NotStuck
      <3>. QED  BY <3>1, <3>2
    <2>5. Calculate(Ins, values) \in U32 \cup {Undefined}
      BY <1>1, <1>3, CalculateType
    <2>. HIDE DEF v
    <2>. QED  BY <1>2, <2>1, <2>4, <2>5
  <1>. QED  BY <1>4, <1>5

\* A line in a repeat that calculates leaves what the turn makes of it.
LEMMA TurnStep ==
    ASSUME IInv, RunInv, status = "running", repeat_remaining # 0, Fetched,
           Ins.op \in Calculates, NEW env, InRepeat(env)
    PROVE  LET enter == repeat_enter_pc
               next == program.code[enter].imm - 1
               turn == AfterTurns(program, enter, env)[program.code[enter].a - repeat_remaining]
           IN  /\ pc + 1 \in (enter + 1)..next /\ pc # enter /\ turn \in Maybe
               /\ values = InTurn(program, enter, turn)[pc]
               /\ InTurn(program, enter, turn)[pc + 1] = Line(Ins, values)
  <1>. DEFINE enter == repeat_enter_pc
              next == program.code[enter].imm - 1
              count == program.code[enter].a
              k == count - repeat_remaining
              A == AfterTurns(program, enter, env)
              turn == A[k]
              T == InTurn(program, enter, turn)
  <1>1. /\ RepeatInSlots(program, enter)
        /\ enter \in Nat /\ next \in Nat /\ next > enter + 1 /\ pc \in enter..next
        /\ program.code[enter].op = "REPEAT_ENTER" /\ program.code[next].op = "REPEAT_NEXT"
        /\ k \in 0..count
    BY InRepeatPlace
  <1>2. pc # enter /\ pc # next
    BY <1>1, CalculatesOnly DEF Ins
  <1>3. pc \in (enter + 1)..next /\ pc + 1 \in (enter + 1)..next
    BY <1>1, <1>2
  <1>4. env \in SlotValues /\ values = T[pc]
    BY <1>2 DEF InRepeat
  <1>5. turn \in Maybe
    <2>. HIDE DEF k, count
    <2>. QED  BY <1>1, <1>4, TurnsSolve DEF Maybe, count
  <1>6. \A i \in (enter + 1)..next : i + 1 \in (enter + 1)..next => T[i + 1] = Line(program.code[i], T[i])
    BY <1>1, <1>5, TurnSolves
  <1>7. T[pc + 1] = Line(Ins, values)
    <2>. HIDE DEF T
    <2>. QED  BY <1>3, <1>4, <1>6 DEF Ins
  <1>. QED  BY <1>2, <1>3, <1>4, <1>5, <1>7

\* The turns of a repeat are made one after another.
LEMMA TurnsStep ==
    ASSUME IInv, RunInv, status = "running", repeat_remaining # 0, NEW env \in SlotValues
    PROVE  LET enter == repeat_enter_pc
               next == program.code[enter].imm - 1
               count == program.code[enter].a
               k == count - repeat_remaining
               A == AfterTurns(program, enter, env)
           IN  /\ A[k + 1] = InTurn(program, enter, A[k])[next]
               /\ A[k + 1] = Stuck => A[count] = Stuck
  <1>. DEFINE enter == repeat_enter_pc
              next == program.code[enter].imm - 1
              count == program.code[enter].a
              k == count - repeat_remaining
              A == AfterTurns(program, enter, env)
  <1>1. /\ RepeatInSlots(program, enter) /\ count \in Nat /\ repeat_remaining \in 1..count
        /\ k \in 0..count /\ k + 1 \in 0..count /\ count \in 0..count
    BY InRepeatPlace
  <1>2. k + 1 <= count
    BY <1>1
  <1>3. /\ \A m \in 0..count : m + 1 \in 0..count => A[m + 1] = InTurn(program, enter, A[m])[next]
        /\ \A m, n \in 0..count : m <= n /\ A[m] = Stuck => A[n] = Stuck
    BY <1>1, TurnsSolve DEF Maybe
  <1>. HIDE DEF A, k, next, count
  <1>4. A[k + 1] = InTurn(program, enter, A[k])[next]
    BY <1>1, <1>3
  <1>5. A[k + 1] = Stuck => A[count] = Stuck
    BY <1>1, <1>2, <1>3
  <1>. QED  BY <1>4, <1>5 DEF A, k, next, count

\* A division by zero leaves the program without a value.
LEMMA DividedMeans ==
    ASSUME IInv, RunInv, MeaningInv, status = "running", Fetched, ByZero, emitted = {}
    PROVE  Whole = Undefined
  <1>1. values \in SlotValues
    BY ValuesType
  <1>2. Ins.op \in Calculates /\ Ins.op # "CONST" /\ Divides(Ins.op) /\ values[Ins.flags] = 0
    BY DEF ByZero, CanCompute, CanSet, Calculates, Arith, Compare, Set
  <1>3. LineInSlots(Ins)
    BY <1>2, PlainSlots DEF IInv, TypeOK, Checked, Fetched, Ins
  <1>4. Calculate(Ins, values) = Undefined
    BY <1>1, <1>2, <1>3, CalculateType
  <1>5. Line(Ins, values) = Stuck
    BY <1>4 DEF Line
  <1>6. CASE repeat_remaining = 0
    <2>1. Rest(pc, values) = Whole
      BY <1>6 DEF MeaningInv
    <2>2. Rest(pc, values) = Onward(MeaningFrom(program), pc + 1, Line(Ins, values))
      BY <1>1, <1>2, RestHere, MeansLine DEF Ins
    <2>. QED  BY <1>5, <2>1, <2>2 DEF Onward
  <1>7. CASE repeat_remaining # 0
    <2>1. PICK env : InRepeat(env)
      BY <1>7 DEF MeaningInv
    <2>. DEFINE enter == repeat_enter_pc
                next == program.code[enter].imm - 1
                count == program.code[enter].a
                k == count - repeat_remaining
                A == AfterTurns(program, enter, env)
                T == InTurn(program, enter, A[k])
    <2>2. env \in SlotValues /\ Rest(enter, env) = Whole
      BY <2>1 DEF InRepeat
    <2>3. /\ RepeatInSlots(program, enter) /\ enter \in Pcs(program)
          /\ program.code[enter].op = "REPEAT_ENTER" /\ next \in Nat /\ enter \in Nat
      BY <1>7, InRepeatPlace
    <2>4. pc + 1 \in (enter + 1)..next /\ A[k] \in Maybe /\ T[pc + 1] = Stuck
      BY <1>2, <1>5, <1>7, <2>1, TurnStep
    <2>5. \A i, j \in (enter + 1)..next : i <= j /\ T[i] = Stuck => T[j] = Stuck
      BY <2>3, <2>4, TurnSolves
    <2>6. next \in (enter + 1)..next /\ pc + 1 <= next
      <3>. HIDE DEF next
      <3>. QED  BY <2>3, <2>4 DEF IInv, TypeOK
    <2>7. T[next] = Stuck
      <3>. HIDE DEF T, next, A, k
      <3>. QED  BY <2>4, <2>5, <2>6
    <2>8. A[count] = Stuck
      <3>1. A[k + 1] = T[next] /\ (A[k + 1] = Stuck => A[count] = Stuck)
        BY <1>7, <2>2, TurnsStep
      <3>. QED  BY <2>7, <3>1
    <2>9. Rest(enter, env) = Onward(MeaningFrom(program), next + 1, A[count])
      <3>1. next + 1 = program.code[enter].imm
        BY <2>3 DEF RepeatInSlots
      <3>2. Rest(enter, env) = Onward(MeaningFrom(program), program.code[enter].imm, A[count])
        BY <2>2, <2>3, RepeatMeans
      <3>. QED  BY <3>1, <3>2
    <2>. QED  BY <2>2, <2>8, <2>9 DEF Onward
  <1>. QED  BY <1>6, <1>7

\* A slot that is emitted is not assigned again.
LEMMA EmittedStays ==
    ASSUME IInv, RunInv, MeaningInv, status = "running", Fetched, NEW s \in emitted,
           Ins.op \in Calculates, AssignedOnce(program)
    PROVE  Ins.a # s
  <1>1. CASE HasRepeat(program)
    <2>1. PICK enter, next : RepeatForm(program, enter, next) /\ RepeatAt(enter, next)
      BY <1>1 DEF RunInv, RepeatInv
    <2>2. Ins.op = "END"
      BY <2>1 DEF RepeatForm, RepeatAt, Ins
    <2>. QED  BY <2>2, CalculatesOnly
  <1>2. CASE ~HasRepeat(program)
    <2>1. FlowInv /\ Ins.op \notin {"END", "U32_EMIT", "BOOL_EMIT", "JUMP", "JUMP_IF_FALSE"}
      BY <1>2, CalculatesOnly DEF RunInv
    <2>2. FlowLine(program, pc) /\ pc \in Nat
      BY <1>2, <2>1, FlowNotLast
    <2>3. Ins.op \in {"CONST"} \cup Arith \cup Compare
      BY <2>1, <2>2 DEF FlowLine, TypedOK, ConstOK, BinaryOK, EmitOK, Ins
    <2>4. AssignedBefore(s)
      BY <1>2 DEF MeaningInv, IInv, TypeOK
    <2>5. PICK i \in Pcs(program) :
            i < pc /\ program.code[i].op \in {"CONST"} \cup Arith \cup Compare
                   /\ program.code[i].a = s
      BY <2>4 DEF AssignedBefore
    <2>6. i # pc
      BY <2>2, <2>5 DEF IInv, TypeOK, IsBytecode, Pcs
    <2>. QED  BY <2>3, <2>5, <2>6 DEF AssignedOnce, Ins, Fetched
  <1>. QED  BY <1>1, <1>2

\* A program without a repeat assigns with lines of its own.
LEMMA FlowComputes ==
    ASSUME IInv, RunInv, status = "running", ~HasRepeat(program), Ins.op \in Calculates
    PROVE  Ins.op \in {"CONST"} \cup Arith \cup Compare
  <1>1. FlowInv /\ Ins.op \notin {"END", "U32_EMIT", "BOOL_EMIT", "JUMP", "JUMP_IF_FALSE"}
    BY CalculatesOnly DEF RunInv
  <1>2. FlowLine(program, pc)
    BY <1>1, FlowNotLast
  <1>. QED  BY <1>1, <1>2 DEF FlowLine, TypedOK, ConstOK, BinaryOK, EmitOK, Ins

\* An assignment goes on with what the program means.
LEMMA MeaningAssign ==
    ASSUME IInv, RunInv, MeaningInv, status = "running", Const \/ Compute
    PROVE  MeaningInv'
  <1>1. PICK v \in U32 : Assign(v) /\ Calculate(Ins, values) = v /\ Ins.op \in Calculates
    BY AssignedValue
  <1>2. /\ Fetched /\ values' = [values EXCEPT ![Ins.a] = v]
        /\ initialized' = initialized \cup {Ins.a}
        /\ pc' = pc + 1 /\ status' = "running" /\ program' = program
        /\ repeat_enter_pc' = repeat_enter_pc /\ repeat_remaining' = repeat_remaining
        /\ emitted' = emitted
    BY <1>1 DEF Assign, Advance, Const, Compute, repeat
  <1>3. values \in SlotValues
    BY ValuesType
  <1>4. Line(Ins, values) = values' /\ values' \in SlotValues
    <2>1. Line(Ins, values) = [values EXCEPT ![Ins.a] = v]
      BY <1>1, <1>3, LineStores
    <2>2. [values EXCEPT ![Ins.a] = v] \in SlotValues
      BY <1>3 DEF SlotValues
    <2>. QED  BY <1>2, <2>1, <2>2
  <1>5. Whole' = Whole
    BY <1>2 DEF Whole
  <1>6. ASSUME emitted' = {}
        PROVE  IF repeat_remaining' = 0 THEN Rest(pc, values)' = Whole' ELSE \E env : InRepeat(env)'
    <2>1. CASE repeat_remaining = 0
      <3>1. Rest(pc, values) = Whole
        BY <1>2, <1>6, <2>1 DEF MeaningInv
      <3>2. Rest(pc, values) = Onward(MeaningFrom(program), pc + 1, Line(Ins, values))
        BY <1>1, <1>2, <1>3, RestHere, MeansLine DEF Ins
      <3>3. Onward(MeaningFrom(program), pc + 1, values') = MeaningFrom(program)[<<pc + 1, values'>>]
        BY <1>4, NotStuck DEF Onward
      <3>4. Rest(pc, values)' = MeaningFrom(program)[<<pc + 1, values'>>]
        BY <1>2 DEF Rest
      <3>. QED  BY <1>2, <1>4, <1>5, <2>1, <3>1, <3>2, <3>3, <3>4
    <2>2. CASE repeat_remaining # 0
      <3>1. PICK env : InRepeat(env)
        BY <1>2, <1>6, <2>2 DEF MeaningInv
      <3>. DEFINE enter == repeat_enter_pc
                  next == program.code[enter].imm - 1
                  turn == AfterTurns(program, enter, env)[program.code[enter].a - repeat_remaining]
      <3>2. /\ pc + 1 \in (enter + 1)..next
            /\ InTurn(program, enter, turn)[pc + 1] = Line(Ins, values)
        BY <1>1, <1>2, <2>2, <3>1, TurnStep
      <3>3. enter \in Nat
        BY <2>2, InRepeatPlace
      <3>4. pc + 1 # enter
        BY <3>2, <3>3
      <3>5. env \in SlotValues /\ Rest(enter, env) = Whole
        BY <3>1 DEF InRepeat
      <3>6. InRepeat(env)'
        <4>1. Rest(repeat_enter_pc, env)' = Whole'
          BY <1>2, <1>5, <3>5 DEF Rest
        <4>2. values' = InTurn(program, enter, turn)[pc + 1]
          BY <1>4, <3>2
        <4>. QED  BY <1>2, <3>4, <3>5, <4>1, <4>2 DEF InRepeat
      <3>. QED  BY <1>2, <2>2, <3>6
    <2>. QED  BY <2>1, <2>2
  <1>7. ASSUME AssignedOnce(program)', NEW s \in emitted' PROVE values'[s] = Whole'
    <2>1. AssignedOnce(program) /\ s \in emitted
      BY <1>2, <1>7
    <2>2. Ins.a # s
      BY <1>1, <1>2, <2>1, EmittedStays
    <2>3. values[s] = Whole
      BY <1>2, <2>1 DEF MeaningInv
    <2>4. values'[s] = values[s]
      BY <1>2, <1>3, <2>2 DEF SlotValues
    <2>. QED  BY <1>5, <2>3, <2>4
  <1>8. ASSUME ~HasRepeat(program)', NEW s \in initialized' PROVE AssignedBefore(s)'
    <2>1. ~HasRepeat(program) /\ pc \in Nat
      BY <1>2, <1>8 DEF IInv, TypeOK
    <2>2. CASE s = Ins.a
      <3>1. Ins.op \in {"CONST"} \cup Arith \cup Compare
        BY <1>1, <1>2, <2>1, FlowComputes
      <3>2. pc \in Pcs(program) /\ pc < pc + 1
        BY <1>2, <2>1 DEF Fetched
      <3>. QED  BY <1>2, <2>2, <3>1, <3>2 DEF AssignedBefore, Ins
    <2>3. CASE s # Ins.a
      <3>1. AssignedBefore(s)
        BY <1>2, <1>8, <2>1, <2>3 DEF MeaningInv
      <3>2. \A i \in Pcs(program) : i < pc => i < pc + 1
        BY <2>1 DEF IInv, TypeOK, IsBytecode, Pcs
      <3>. QED  BY <1>2, <3>1, <3>2 DEF AssignedBefore
    <2>. QED  BY <2>2, <2>3
  <1>. QED  BY <1>2, <1>6, <1>7, <1>8 DEF MeaningInv

\* A step that assigns nothing keeps what is known of the slots.
LEMMA MeaningMove ==
    ASSUME IInv, MeaningInv, status = "running", NEW next, pc < next, next \in Nat, Advance(next),
           values' = values, initialized' = initialized,
           AssignedOnce(program) => \A s \in emitted' : values[s] = Whole,
           emitted' = {} => IF repeat_remaining' = 0 THEN Rest(next, values) = Whole
                            ELSE \E env : InRepeat(env)'
    PROVE  MeaningInv'
  <1>1. pc' = next /\ status' = "running" /\ program' = program /\ Whole' = Whole
    BY DEF Advance, Whole
  <1>2. ASSUME ~HasRepeat(program), NEW s \in initialized PROVE AssignedBefore(s)'
    <2>1. AssignedBefore(s)
      BY <1>2 DEF MeaningInv
    <2>2. \A i \in Pcs(program) : i < pc => i < next
      BY DEF IInv, TypeOK, IsBytecode, Pcs
    <2>. QED  BY <1>1, <2>1, <2>2 DEF AssignedBefore
  <1>3. Rest(pc, values)' = Rest(next, values)
    BY <1>1 DEF Rest
  <1>. QED  BY <1>1, <1>2, <1>3 DEF MeaningInv

\* The slot that is emitted has the value the program means.
LEMMA MeaningEmit ==
    ASSUME IInv, RunInv, MeaningInv, status = "running", Emit
    PROVE  MeaningInv'
  <1>1. Fetched /\ CanEmit /\ emitted' = {Ins.a} /\ Advance(pc + 1)
        /\ values' = values /\ initialized' = initialized
    BY DEF Emit
  <1>2. Ins.op \in {"U32_EMIT", "BOOL_EMIT"} /\ emitted = {} /\ pc \in Nat /\ pc < pc + 1
    BY <1>1 DEF CanEmit, IInv, TypeOK
  <1>3. repeat_remaining = 0
    <2>1. CASE HasRepeat(program)
      <3>1. PICK enter, next : RepeatForm(program, enter, next) /\ RepeatAt(enter, next)
        BY <2>1 DEF RunInv, RepeatInv
      <3>2. pc = next + 1 /\ next \in Nat /\ enter \in Nat /\ next > enter + 1
        BY <1>2, <3>1, RepeatPlaces
      <3>. QED  BY <3>1, <3>2 DEF RepeatAt
    <2>2. CASE ~HasRepeat(program)
      BY <2>2 DEF RunInv, FlowInv
    <2>. QED  BY <2>1, <2>2
  <1>4. Rest(pc, values) = Whole
    BY <1>2, <1>3 DEF MeaningInv
  <1>5. Rest(pc, values) = values[Ins.a]
    <2>1. Rest(pc, values) = MeaningLine(program, MeaningFrom(program), <<pc, values>>)
      BY <1>1, ValuesType, RestHere
    <2>2. program.code[pc].op \in {"RETURN", "U32_EMIT", "BOOL_EMIT"}
      BY <1>2 DEF Ins
    <2>3. MeaningLine(program, MeaningFrom(program), <<pc, values>>) = values[program.code[pc].a]
      BY <2>2, MeansReturn
    <2>. QED  BY <2>1, <2>3 DEF Ins
  <1>6. AssignedOnce(program) => \A s \in emitted' : values[s] = Whole
    BY <1>1, <1>4, <1>5
  <1>. QED  BY <1>1, <1>2, <1>6, MeaningMove

\* A jump goes on with what the program means.
LEMMA MeaningJump ==
    ASSUME IInv, RunInv, MeaningInv, status = "running", Branch \/ Jump
    PROVE  MeaningInv'
  <1>1. Fetched /\ Forward /\ Ins.op \in {"JUMP", "JUMP_IF_FALSE"}
        /\ values' = values /\ initialized' = initialized /\ emitted' = emitted
        /\ repeat_remaining' = repeat_remaining
    BY DEF Branch, Jump, CanBranch, CanJump, repeat
  <1>2. repeat_remaining = 0
    <2>1. CASE HasRepeat(program)
      <3>1. PICK enter, next : RepeatForm(program, enter, next) /\ RepeatAt(enter, next)
        BY <2>1 DEF RunInv, RepeatInv
      <3>. QED  BY <1>1, <3>1, RepeatPlaces
    <2>2. CASE ~HasRepeat(program)
      BY <2>2 DEF RunInv, FlowInv
    <2>. QED  BY <2>1, <2>2
  <1>3. Ins.imm \in Nat /\ pc \in Nat /\ pc < Ins.imm
    BY <1>1 DEF Forward, IInv, TypeOK, IsBytecode
  <1>4. PICK to : /\ to \in Nat /\ pc < to /\ Advance(to)
                  /\ Rest(pc, values) = MeaningFrom(program)[<<to, values>>]
    <2>1. CASE Branch
      <3>. DEFINE to == IF values[Ins.a] = 0 THEN Ins.imm ELSE pc + 1
                  next == <<to, values>>
      <3>1. Ins.op = "JUMP_IF_FALSE" /\ Advance(to)
        BY <2>1 DEF Branch, CanBranch
      <3>2. Rest(pc, values) = MeaningLine(program, MeaningFrom(program), <<pc, values>>)
        BY <1>1, ValuesType, RestHere
      <3>3. next = <<IF values[Ins.a] = 0 THEN Ins.imm ELSE pc + 1, values>>
        OBVIOUS
      <3>4. Rest(pc, values) = MeaningFrom(program)[next]
        <4>. HIDE DEF next
        <4>. QED  BY <3>1, <3>2, <3>3, MeansBranch DEF Ins
      <3>5. to \in Nat /\ pc < to
        BY <1>3
      <3>. HIDE DEF to
      <3>. QED  BY <3>1, <3>4, <3>5
    <2>2. CASE Jump
      <3>. DEFINE next == <<Ins.imm, values>>
      <3>1. Ins.op = "JUMP" /\ Advance(Ins.imm)
        BY <2>2 DEF Jump, CanJump
      <3>2. Rest(pc, values) = MeaningLine(program, MeaningFrom(program), <<pc, values>>)
        BY <1>1, ValuesType, RestHere
      <3>3. next = <<Ins.imm, values>>
        OBVIOUS
      <3>4. Rest(pc, values) = MeaningFrom(program)[next]
        <4>. HIDE DEF next
        <4>. QED  BY <3>1, <3>2, <3>3, MeansJump DEF Ins
      <3>. QED  BY <1>3, <3>1, <3>4
    <2>. QED  BY <2>1, <2>2
  <1>5. emitted' = {} => Rest(to, values) = Whole
    BY <1>1, <1>2, <1>4 DEF MeaningInv, Rest
  <1>6. AssignedOnce(program) => \A s \in emitted' : values[s] = Whole
    BY <1>1 DEF MeaningInv
  <1>. QED  BY <1>1, <1>2, <1>4, <1>5, <1>6, MeaningMove

\* A repeat is entered with the slots it begins with.
LEMMA MeaningEnter ==
    ASSUME IInv, RunInv, MeaningInv, status = "running", RepeatEnter
    PROVE  MeaningInv'
  <1>1. /\ Fetched /\ Ins.op = "REPEAT_ENTER" /\ Ins.a \in 1..MaxRepeat /\ Advance(pc + 1)
        /\ values' = values /\ initialized' = initialized /\ emitted' = emitted
        /\ pc' = pc + 1 /\ program' = program /\ pc \in Nat /\ pc < pc + 1
    BY DEF RepeatEnter, CanEnter, Advance, IInv, TypeOK
  <1>2. HasRepeat(program)
    BY <1>1 DEF HasRepeat, Fetched, Ins
  <1>3. PICK enter, next : RepeatForm(program, enter, next) /\ RepeatAt(enter, next)
    BY <1>2 DEF RunInv, RepeatInv
  <1>4. /\ enter \in Nat /\ next \in Nat /\ next > enter + 1 /\ pc = enter /\ emitted = {}
        /\ RepeatInSlots(program, enter)
    BY <1>1, <1>3, RepeatPlaces, RepeatHolds DEF RepeatAt, IInv, TypeOK, Checked
  <1>5. Ins.a \in Nat /\ Ins.a # 0 /\ Ins = program.code[enter]
    BY <1>1, <1>4, LimitsAssumption DEF Ins
  <1>6. \E env : /\ env \in SlotValues /\ Rest(enter, env) = Whole
                 /\ values = AfterTurns(program, enter, env)[Ins.a - repeat_remaining']
                 /\ repeat_enter_pc' = enter /\ repeat_remaining' # 0
                 /\ Ins.a - repeat_remaining' \in 0..Ins.a
    <2>1. CASE repeat_remaining = 0
      <3>1. repeat_remaining' = Ins.a /\ repeat_enter_pc' = enter
        BY <1>4, <2>1 DEF RepeatEnter
      <3>2. Rest(enter, values) = Whole /\ values \in SlotValues
        BY <1>4, <2>1, ValuesType DEF MeaningInv
      <3>3. AfterTurns(program, enter, values)[0] = values
        BY <1>4, <3>2, TurnsSolve DEF Maybe
      <3>4. Ins.a - repeat_remaining' = 0 /\ 0 \in 0..Ins.a
        BY <1>5, <3>1
      <3>. QED  BY <1>5, <3>1, <3>2, <3>3, <3>4
    <2>2. CASE repeat_remaining # 0
      <3>1. PICK env : InRepeat(env)
        BY <1>4, <2>2 DEF MeaningInv
      <3>2. repeat_remaining' = repeat_remaining /\ repeat_enter_pc' = repeat_enter_pc
        BY <2>2 DEF RepeatEnter, repeat, IInv, TypeOK
      <3>3. repeat_enter_pc = enter
        BY <1>3, <1>4, <2>2 DEF RepeatAt
      <3>4. Ins.a - repeat_remaining \in 0..Ins.a
        BY <1>5, <2>2, <3>3, InRepeatPlace
      <3>. QED  BY <1>4, <1>5, <2>2, <3>1, <3>2, <3>3, <3>4 DEF InRepeat
    <2>. QED  BY <2>1, <2>2
  <1>7. PICK env : /\ env \in SlotValues /\ Rest(enter, env) = Whole
                   /\ values = AfterTurns(program, enter, env)[Ins.a - repeat_remaining']
                   /\ repeat_enter_pc' = enter /\ repeat_remaining' # 0
                   /\ Ins.a - repeat_remaining' \in 0..Ins.a
    BY <1>6
  <1>8. InTurn(program, enter, values)[enter + 1] = values
    BY <1>4, ValuesType, TurnSolves DEF Maybe
  <1>9. InRepeat(env)'
    <2>1. Rest(repeat_enter_pc, env)' = Whole'
      BY <1>1, <1>7 DEF Rest, Whole
    <2>2. pc' = enter + 1 /\ enter + 1 # enter
      BY <1>1, <1>4
    <2>3. values' = InTurn(program, enter, AfterTurns(program, enter, env)[program.code[enter].a - repeat_remaining'])[enter + 1]
      BY <1>1, <1>5, <1>7, <1>8
    <2>. QED  BY <1>1, <1>7, <2>1, <2>2, <2>3 DEF InRepeat
  <1>10. AssignedOnce(program) => \A s \in emitted' : values[s] = Whole
    BY <1>1, <1>4
  <1>. QED  BY <1>1, <1>7, <1>9, <1>10, MeaningMove

\* A turn ends with the slots the next one begins with.
LEMMA MeaningNext ==
    ASSUME IInv, RunInv, MeaningInv, status = "running", RepeatNext
    PROVE  MeaningInv'
  <1>1. /\ Fetched /\ Ins.op = "REPEAT_NEXT" /\ repeat_remaining > 0
        /\ values' = values /\ initialized' = initialized /\ emitted' = emitted
        /\ program' = program /\ status' = "running" /\ Ins.imm = repeat_enter_pc
    BY DEF RepeatNext, CanNext, Advance
  <1>2. repeat_remaining # 0 /\ repeat_remaining \in Nat /\ pc \in Nat
    BY <1>1, LimitsAssumption DEF IInv, TypeOK
  <1>. DEFINE enter == repeat_enter_pc
              next == program.code[enter].imm - 1
              count == program.code[enter].a
              k == count - repeat_remaining
  <1>3. /\ HasRepeat(program) /\ RepeatInSlots(program, enter) /\ enter \in Pcs(program)
        /\ enter \in Nat /\ next \in Nat /\ next > enter + 1 /\ pc \in enter..next
        /\ program.code[enter].op = "REPEAT_ENTER" /\ count \in Nat
        /\ program.code[enter].imm \in Nat
    BY <1>2, InRepeatPlace DEF RepeatInSlots
  <1>4. PICK form, to : RepeatForm(program, form, to) /\ RepeatAt(form, to)
    BY <1>3 DEF RunInv, RepeatInv
  <1>5. pc = to /\ enter = form /\ next = to /\ emitted = {}
    <2>1. pc = to /\ to \in Nat /\ form \in Nat /\ to > form + 1
      BY <1>1, <1>4, RepeatPlaces
    <2>2. enter = form
      BY <1>2, <1>4, <2>1 DEF RepeatAt
    <2>3. next = to /\ emitted = {}
      BY <1>4, <2>1, <2>2 DEF RepeatForm, RepeatAt
    <2>. QED  BY <2>1, <2>2, <2>3
  <1>6. PICK env : InRepeat(env)
    BY <1>2, <1>5 DEF MeaningInv
  <1>. DEFINE A == AfterTurns(program, enter, env)
  <1>7. env \in SlotValues /\ Rest(enter, env) = Whole /\ values = InTurn(program, enter, A[k])[next]
    BY <1>3, <1>5, <1>6 DEF InRepeat
  <1>8. A[k + 1] = values
    BY <1>2, <1>7, TurnsStep
  <1>9. Whole' = Whole
    BY <1>1 DEF Whole
  <1>10. CASE repeat_remaining > 1
    <2>1. /\ repeat_remaining' = repeat_remaining - 1 /\ pc' = enter /\ repeat_enter_pc' = enter
          /\ repeat_remaining' # 0
      BY <1>1, <1>2, <1>10 DEF RepeatNext, Advance
    <2>2. count - repeat_remaining' = k + 1
      BY <1>2, <1>3, <2>1
    <2>3. Rest(repeat_enter_pc, env)' = Whole'
      BY <1>1, <1>7, <1>9, <2>1 DEF Rest
    <2>4. values' = A[count - repeat_remaining']
      BY <1>1, <1>8, <2>2
    <2>5. InRepeat(env)'
      BY <1>1, <1>7, <2>1, <2>3, <2>4 DEF InRepeat
    <2>6. HasRepeat(program)' /\ emitted' = {}
      BY <1>1, <1>3, <1>5
    <2>. QED  BY <1>1, <2>1, <2>5, <2>6 DEF MeaningInv
  <1>11. CASE ~(repeat_remaining > 1)
    <2>1. repeat_remaining' = 0 /\ Advance(pc + 1) /\ repeat_remaining = 1
      BY <1>2, <1>11 DEF RepeatNext
    <2>2. k + 1 = count
      BY <1>3, <2>1
    <2>3. program.code[enter].imm = pc + 1 /\ pc < pc + 1 /\ pc + 1 \in Nat
      BY <1>2, <1>3, <1>5
    <2>4. Rest(enter, env) = Onward(MeaningFrom(program), pc + 1, A[count])
      <3>1. Rest(enter, env) = Onward(MeaningFrom(program), program.code[enter].imm, A[count])
        BY <1>3, <1>7, RepeatMeans
      <3>. QED  BY <2>3, <3>1
    <2>5. A[count] = values /\ values # Stuck
      BY <1>8, <2>2, ValuesType, NotStuck
    <2>6. Rest(pc + 1, values) = Whole
      BY <1>7, <2>4, <2>5 DEF Onward, Rest
    <2>7. AssignedOnce(program) => \A s \in emitted' : values[s] = Whole
      BY <1>1, <1>5
    <2>. QED  BY <1>1, <2>1, <2>3, <2>6, <2>7, MeaningMove
  <1>. QED  BY <1>10, <1>11

\* The run ends with the value emitted, or with a division by zero.
LEMMA MeaningHalt ==
    ASSUME IInv, RunInv, MeaningInv, Halt
    PROVE  MeaningInv'
  <1>1. /\ status = "running" /\ status' = Outcome /\ Outcome # "running"
        /\ program' = program /\ values' = values /\ emitted' = emitted
    BY DEF Halt
  <1>2. Fetched /\ Can
    BY <1>1, RepeatRuns, FlowRuns DEF RunInv
  <1>3. /\ status' \in {"divided_by_zero", "done"}
        /\ status' = "done" => CanEnd
        /\ status' = "divided_by_zero" => ByZero
    BY <1>1, <1>2 DEF Outcome
  <1>4. Whole' = Whole
    BY <1>1 DEF Whole
  <1>5. status' = "done" => emitted' # {}
    BY <1>1, <1>3 DEF CanEnd
  <1>6. status' = "divided_by_zero" /\ emitted' = {} => Whole' = Undefined
    BY <1>1, <1>2, <1>3, <1>4, DividedMeans
  <1>7. AssignedOnce(program)' => \A s \in emitted' : values'[s] = Whole'
    BY <1>1, <1>4 DEF MeaningInv
  <1>. QED  BY <1>3, <1>5, <1>6, <1>7 DEF MeaningInv

\* A run begins with what the program means.
LEMMA MeaningLoad ==
    ASSUME IInv, IInv', RunInv, Load
    PROVE  MeaningInv'
  <1>1. /\ pc' = 0 /\ repeat_remaining' = 0 /\ initialized' = {} /\ emitted' = {}
        /\ values' = [s \in Slots |-> 0] /\ program' = program /\ status' = "running"
    BY DEF RunInv, Load, repeat
  <1>2. program.main = 0
    BY ProgramsAssumption DEF IInv, Checked, AsDecoded
  <1>3. Rest(pc, values)' = Whole'
    <2>1. [s \in 0..(MaxScalars - 1) |-> IF s \in DOMAIN <<>> THEN <<>>[s] ELSE 0] = [s \in Slots |-> 0]
      BY DEF Slots
    <2>2. Meaning(program, <<>>) = MeaningFrom(program)[<<0, [s \in Slots |-> 0]>>]
      BY <1>2, <2>1 DEF Meaning
    <2>. QED  BY <1>1, <2>2 DEF Rest, Whole
  <1>. QED  BY <1>1, <1>3 DEF MeaningInv

\* So the invariant is kept,
LEMMA MeaningStep == ASSUME IInv, IInv', RunInv, MeaningInv, [Next]_vars PROVE MeaningInv'
  <1>1. CASE UNCHANGED vars
    BY <1>1 DEF vars, repeat, MeaningInv, InRepeat, Rest, Whole, AssignedBefore
  <1>2. CASE Refuse
    BY <1>2 DEF Refuse, MeaningInv
  <1>3. CASE Const \/ Compute \/ RepeatEnter \/ RepeatNext \/ Emit \/ Branch \/ Jump
    <2>1. status = "running"
      BY <1>3 DEF Const, Compute, RepeatEnter, RepeatNext, Emit, Branch, Jump, Fetched
    <2>. QED  BY <1>3, <2>1, MeaningAssign, MeaningEnter, MeaningNext, MeaningEmit, MeaningJump
  <1>. QED  BY <1>1, <1>2, <1>3, MeaningLoad, MeaningHalt DEF Next

\* and the VM computes what the program means, whatever it does with counters
\* and slots: the output, read from the slot at END, is the value of the meaning;
\* and a program that divides by zero before its emit has none.
THEOREM ResultsAreMeanings == Spec => []ResultIsMeaning
  <1>1. Init => MeaningInv
    BY DEF Init, MeaningInv
  <1>2. IInv /\ IInv' /\ RunInv /\ MeaningInv /\ [Next]_vars => MeaningInv'
    BY MeaningStep
  <1>3. MeaningInv => ResultIsMeaning
    BY DEF MeaningInv, ResultIsMeaning, Output, Whole
  <1>. QED  BY <1>1, <1>2, <1>3, Invariance, RunInvariance, PTL DEF Spec
=============================================================================
