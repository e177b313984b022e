-------------------------- MODULE FunctionVMProofs --------------------------
(***************************************************************************)
(* Proofs about FunctionVM, for any set of programs and any limits.        *)
(*                                                                         *)
(* Of any program: the stack and the frames keep their bounds, and every   *)
(* caller waits at its CALL (IInv).                                        *)
(*                                                                         *)
(* Of a program the validator accepted: no check of the VM fails but the   *)
(* one named in OnlySelfArgumentFails, and the bound is exact.  A run is   *)
(* always at a place the validator came to, with the frame in the state it *)
(* knew there, and what is left to do there, in the callers too, is within *)
(* the bound (RunInv).  This needs that the recursive functions of the     *)
(* validator solve their equations: where the recursion goes down in rank, *)
(* FixedPoint gives a solution, which CHOOSE then takes.  The rank is the  *)
(* distance to the end of the code for the scans, and for the cost first   *)
(* the height of the function in the tree of calls, which is finite        *)
(* because DepthOK bounds its chains.                                      *)
(*                                                                         *)
(* Of what a run computes: the frames mean what the program means          *)
(* (MeaningInv).  The running frame means the value its function returns   *)
(* or emits from its place on, or from the start of the repeat it is in;   *)
(* each frame below means what it does with the value of the next; and the *)
(* lowest means what the program does.  This needs that MeaningFrom solves *)
(* its equation for an accepted program, whose places are ranked so that   *)
(* each leads to lower ones (ProgramGrounded).                             *)
(*                                                                         *)
(* Of files: every program has one, which holds just this program          *)
(* (QbcCodec): each line the validator comes to is one the decoder takes,  *)
(* in the place where it stands.                                           *)
(***************************************************************************)
EXTENDS FunctionVM, TLAPS, WellFoundedInduction, FiniteSetTheorems

\* What the VM was loaded with has passed the validator.
Checked ==
    /\ program \in Programs
    /\ status \notin {"loading", "refused"} => FunctionContract(program)

\* The stack is empty until the run begins, and nothing was done.
NotBegun == status = "loading" => depth = 0 /\ executed = 0 /\ emitted = {}

\* The inductive invariant.
IInv == TypeOK /\ Checked /\ NotBegun /\ CallersWait

\* Two frames of the same call.
SameCall(f, g) ==
    /\ f.return_pc = g.return_pc /\ f.return_destination = g.return_destination
    /\ f.function_index = g.function_index

-----------------------------------------------------------------------------
(* Arithmetic *)

\* The operations of the VM stay within a slot.
LEMMA ApplyType ==
    ASSUME NEW op, NEW x \in U32, NEW y \in U32, Divides(op) => y # 0
    PROVE  Apply(op, x, y) \in U32
  <1>. USE WidthAssumption DEF U32
  <1>1. \A n \in Int : n % Width \in 0..(Width - 1)
    OBVIOUS
  <1>2. CASE Divides(op)
    <2>1. x \div y \in 0..x
      BY <1>2
    <2>. QED  BY <1>2, <2>1 DEF Apply, Divides
  <1>3. CASE ~Divides(op)
    <2>1. x + y \in Int /\ x - y \in Int /\ x * y \in Int
      OBVIOUS
    <2>. QED  BY <1>1, <1>3, <2>1 DEF Apply
  <1>. QED  BY <1>2, <1>3

\* A comparison gives a truth value, which fits any slot.
LEMMA TestType ==
    ASSUME NEW op, NEW x, NEW y  PROVE  Test(op, x, y) \in U32
  BY WidthAssumption DEF Test, U32

-----------------------------------------------------------------------------
(* Frames *)

\* Arguments that fit their slots fill a frame's values.
LEMMA FilledType ==
    ASSUME NEW args, \A s \in DOMAIN args : args[s] \in U32
    PROVE  Filled(args) \in [Slots -> U32]
  BY WidthAssumption DEF Filled, U32

\* A cleared frame is well-formed.
LEMMA ClearedType == Cleared \in FrameType
  <1>1. Filled(<<>>) \in [Slots -> U32]
    BY FilledType
  <1>. QED  BY <1>1, LimitsAssumption DEF Cleared, Frame, FrameType

\* A frame opened for arguments that fit it is well-formed.
LEMMA OpenedType ==
    ASSUME NEW n \in 0..MaxScalars, NEW args, DOMAIN args \subseteq 0..(n - 1),
           \A s \in DOMAIN args : args[s] \in U32
    PROVE  Opened(n, args) \in FrameType
  <1>1. DOMAIN args \subseteq Slots
    BY LimitsAssumption DEF Slots
  <1>2. Filled(args) \in [Slots -> U32]
    BY FilledType
  <1>. QED  BY <1>1, <1>2, LimitsAssumption DEF Opened, Frame, FrameType

\* Giving a slot a value leaves the frame well-formed and its call the same.
LEMMA AssignedType ==
    ASSUME NEW f \in FrameType, NEW a \in Slots, NEW v \in U32, NEW isBool \in BOOLEAN
    PROVE  /\ Assigned(f, a, v, isBool) \in FrameType
           /\ SameCall(Assigned(f, a, v, isBool), f)
  <1>1. [f.values EXCEPT ![a] = v] \in [Slots -> U32]
    BY DEF FrameType
  <1>2. /\ f.init \cup {a} \subseteq Slots
        /\ (IF isBool THEN f.bools \cup {a} ELSE f.bools \ {a}) \subseteq Slots
    BY DEF FrameType
  <1>. QED  BY <1>1, <1>2 DEF Assigned, FrameType, SameCall

\* So does changing its repeat.
LEMMA RepeatType ==
    ASSUME NEW f \in FrameType, NEW k \in 0..MaxRepeat, NEW e \in Nat \cup {None}
    PROVE  LET g == [f EXCEPT !.repeat_remaining = k, !.repeat_enter_pc = e]
               h == [f EXCEPT !.repeat_remaining = k]
           IN  /\ g \in FrameType /\ SameCall(g, f)
               /\ h \in FrameType /\ SameCall(h, f)
  BY DEF FrameType, SameCall

\* The limits of the frames and of the instruction about to be executed.
LEMMA FetchedType ==
    ASSUME IInv, Fetched
    PROVE  /\ Ins \in Instruction
           /\ Ins.op = "CONST" => Ins.imm \in U32
           /\ Top \in FrameType
           /\ \A s \in Nat : s < Top.n => s \in Slots /\ Top.values[s] \in U32
           /\ pc \in Nat /\ pc + 1 \in Nat /\ depth \in Depths
  <1>1. Ins \in Instruction /\ (Ins.op = "CONST" => Ins.imm \in U32)
    BY DEF IInv, TypeOK, Fetched, Ins, IsBytecode, Pcs
  <1>2. Top \in FrameType
    BY DEF IInv, TypeOK, Top
  <1>3. \A s \in Nat : s < Top.n => s \in Slots
    BY <1>2, LimitsAssumption DEF FrameType, Slots
  <1>4. \A s \in Slots : Top.values[s] \in U32
    BY <1>2 DEF FrameType
  <1>. QED  BY <1>1, <1>2, <1>3, <1>4 DEF IInv, TypeOK

-----------------------------------------------------------------------------
(* The invariant *)

\* The initial states satisfy the invariant.
LEMMA InitInv == ASSUME Init PROVE IInv
  <1>1. IsBytecode(program) /\ given \in Bindings(program)
    BY ProgramsAssumption DEF Init
  <1>2. frames \in [Depths -> FrameType] /\ depth \in Depths
    BY ClearedType, LimitsAssumption DEF Init, Depths
  <1>3. CallersWait
    BY DEF Init, CallersWait
  <1>. QED
    BY <1>1, <1>2, <1>3, LimitsAssumption DEF Init, IInv, TypeOK, Checked, NotBegun

\* A step that changes only the running frame, and not whose call it is.
LEMMA AdvanceStep ==
    ASSUME IInv, Fetched, NEW f \in FrameType, SameCall(f, Top), NEW next \in Nat,
           Advance(f, next)
    PROVE  IInv'
  <1>1. frames' \in [Depths -> FrameType]
    BY DEF Advance, IInv, TypeOK
  <1>2. executed' \in 0..MaxSteps
    BY LimitsAssumption DEF Advance, IInv, TypeOK, Fetched
  <1>3. TypeOK'
    BY <1>1, <1>2 DEF Advance, IInv, TypeOK
  <1>4. Checked' /\ NotBegun'
    BY DEF Advance, IInv, Checked, NotBegun, Fetched
  <1>5. CallersWait'
    <2>1. \A d \in Depths : SameCall(frames'[d], frames[d])
      BY DEF Advance, IInv, TypeOK, SameCall, Top
    <2>2. \A d \in Depths : d # depth => frames'[d] = frames[d]
      BY DEF Advance, IInv, TypeOK
    <2>3. \A d \in 1..depth : d \in Depths /\ d - 1 \in Depths /\ d - 1 # depth
      BY LimitsAssumption DEF IInv, TypeOK, Depths
    <2>. QED
      BY <2>1, <2>2, <2>3 DEF Advance, IInv, CallersWait, SameCall
  <1>. QED  BY <1>3, <1>4, <1>5 DEF IInv

\* A constant fits its slot.
LEMMA ConstStep == ASSUME IInv, Const PROVE IInv'
  <1>1. Fetched /\ Ins.op = "CONST" /\ Ins.a < Top.n
    BY DEF Const, CanConst, Fresh
  <1>2. Ins.a \in Slots /\ Ins.imm \in U32
    BY <1>1, FetchedType DEF Instruction
  <1>. QED
    BY <1>1, <1>2, FetchedType, AssignedType, AdvanceStep DEF Const

\* What an arithmetic instruction or comparison computes fits a slot.
LEMMA ResultType ==
    ASSUME IInv, Fetched, Reads(Ins, {"b", "flags"}, Top),
           Divides(Ins.op) => Top.values[Ins.flags] # 0
    PROVE  Apply(Ins.op, Top.values[Ins.b], Top.values[Ins.flags]) \in U32
  <1>1. Ins.b < Top.n /\ Ins.flags < Top.n
    BY DEF Reads
  <1>2. Top.values[Ins.b] \in U32 /\ Top.values[Ins.flags] \in U32
    BY <1>1, FetchedType DEF Instruction
  <1>. QED  BY <1>2, ApplyType

\* So does a result.
LEMMA ComputeStep == ASSUME IInv, Compute PROVE IInv'
  <1>. DEFINE x == Top.values[Ins.b]
              y == Top.values[Ins.flags]
              result == IF Ins.op \in Compare THEN Test(Ins.op, x, y)
                        ELSE Apply(Ins.op, x, y)
  <1>1. Fetched /\ CanCompute /\ ~ByZero
        /\ Advance(Assigned(Top, Ins.a, result, Ins.op \in Compare), pc + 1)
    BY DEF Compute
  <1>2. Ins.a < Top.n /\ Reads(Ins, {"b", "flags"}, Top)
    BY <1>1 DEF CanCompute, Fresh
  <1>3. Ins.a \in Slots
    BY <1>1, <1>2, FetchedType DEF Instruction
  <1>4. result \in U32
    BY <1>1, <1>2, ResultType, TestType DEF ByZero
  <1>. HIDE DEF result
  <1>5. (Ins.op \in Compare) \in BOOLEAN
    OBVIOUS
  <1>. QED
    BY <1>1, <1>3, <1>4, <1>5, FetchedType, AssignedType, AdvanceStep

\* And what a store puts into a slot in use.
LEMMA SetSlotStep == ASSUME IInv, SetSlot PROVE IInv'
  <1>. DEFINE result == Apply(Ins.op, Top.values[Ins.b], Top.values[Ins.flags])
  <1>1. Fetched /\ CanSet /\ ~ByZero
        /\ Advance([Top EXCEPT !.values[Ins.a] = result], pc + 1)
    BY DEF SetSlot
  <1>2. Ins.a < Top.n /\ Reads(Ins, {"b", "flags"}, Top)
    BY <1>1 DEF CanSet, Reads
  <1>3. Ins.a \in Slots
    BY <1>1, <1>2, FetchedType DEF Instruction
  <1>4. result \in U32
    BY <1>1, <1>2, ResultType DEF ByZero
  <1>. HIDE DEF result
  <1>5. [Top EXCEPT !.values[Ins.a] = result] \in FrameType
    BY <1>1, <1>3, <1>4, FetchedType DEF FrameType
  <1>6. SameCall([Top EXCEPT !.values[Ins.a] = result], Top)
    BY <1>1, FetchedType DEF FrameType, SameCall
  <1>. QED
    BY <1>1, <1>5, <1>6, FetchedType, AdvanceStep

\* A repeat counts within its limit.
LEMMA RepeatStep == ASSUME IInv, RepeatEnter \/ RepeatNext PROVE IInv'
  <1>1. CASE RepeatEnter
    <2>1. Fetched /\ CanEnter
      BY <1>1 DEF RepeatEnter
    <2>. DEFINE f == [Top EXCEPT !.repeat_remaining = Ins.a, !.repeat_enter_pc = pc]
    <2>2. f \in FrameType /\ SameCall(f, Top)
      <3>1. Ins.a \in 0..MaxRepeat /\ pc \in Nat \cup {None} /\ Top \in FrameType
        BY <2>1, FetchedType, LimitsAssumption DEF CanEnter
      <3>. QED  BY <3>1, RepeatType
    <2>3. SameCall(Top, Top)
      BY DEF SameCall
    <2>4. Advance(f, pc + 1) \/ Advance(Top, pc + 1)
      BY <1>1 DEF RepeatEnter
    <2>. HIDE DEF f
    <2>. QED  BY <2>1, <2>2, <2>3, <2>4, FetchedType, AdvanceStep
  <1>2. CASE RepeatNext
    <2>1. Fetched /\ CanNext
      BY <1>2 DEF RepeatNext
    <2>2. Ins.imm \in Nat
      BY <2>1, FetchedType DEF Instruction
    <2>. DEFINE f == [Top EXCEPT !.repeat_remaining = @ - 1]
                g == [Top EXCEPT !.repeat_remaining = 0, !.repeat_enter_pc = None]
    <2>3. f \in FrameType /\ SameCall(f, Top)
      <3>1. Top.repeat_remaining - 1 \in 0..MaxRepeat
        BY <2>1, FetchedType, LimitsAssumption DEF CanNext, FrameType
      <3>. QED  BY <2>1, <3>1, FetchedType, RepeatType
    <2>4. g \in FrameType /\ SameCall(g, Top)
      <3>1. 0 \in 0..MaxRepeat /\ None \in Nat \cup {None} /\ Top \in FrameType
        BY <2>1, FetchedType, LimitsAssumption
      <3>. QED  BY <3>1, RepeatType
    <2>5. Advance(f, Ins.imm) \/ Advance(g, pc + 1)
      BY <1>2 DEF RepeatNext
    <2>. HIDE DEF f, g
    <2>. QED  BY <2>1, <2>2, <2>3, <2>4, <2>5, FetchedType, AdvanceStep
  <1>. QED  BY <1>1, <1>2

\* A jump changes no frame.
LEMMA JumpStep == ASSUME IInv, Branch \/ Jump PROVE IInv'
  <1>1. Fetched
    BY DEF Branch, Jump
  <1>2. Ins.imm \in Nat /\ SameCall(Top, Top)
    BY <1>1, FetchedType DEF Instruction, SameCall
  <1>3. Advance(Top, Ins.imm) \/ Advance(Top, pc + 1)
    BY DEF Branch, Jump
  <1>. QED  BY <1>1, <1>2, <1>3, FetchedType, AdvanceStep

\* The contract bounds the frame of every function.
LEMMA FunctionFits ==
    ASSUME IInv, Fetched, NEW i \in DOMAIN program.functions
    PROVE  /\ program.functions[i] \in Function
           /\ program.functions[i].scalars \in 1..MaxScalars
           /\ program.functions[i].params \in 0..MaxParams
           /\ program.functions[i].params <= program.functions[i].scalars
  <1>1. FunctionsOK(program)
    BY DEF IInv, Checked, Fetched, FunctionContract
  <1>2. /\ program.functions[i] \in Function
        /\ i \in 0..(Cardinality(DOMAIN program.functions) - 1)
    BY DEF IInv, TypeOK, IsBytecode
  <1>3. RangeOK(program, program.functions[i])
    BY <1>1, <1>2 DEF FunctionsOK
  <1>. QED  BY <1>2, <1>3 DEF RangeOK

\* A call pushes a frame and leaves the caller where it is.
LEMMA CallStep == ASSUME IInv, Call PROVE IInv'
  <1>1. Fetched /\ CanCall
    BY DEF Call
  <1>. DEFINE i == Ins.imm
              fn == program.functions[i]
              f == [Opened(fn.scalars, Args) EXCEPT
                      !.return_pc = pc + 1, !.return_destination = Ins.a,
                      !.function_index = i]
  <1>2. i \in DOMAIN program.functions /\ depth < MaxCallDepth /\ Fresh(Ins, Top)
    BY <1>1 DEF CanCall
  <1>3. Ins \in Instruction /\ pc + 1 \in Nat /\ depth \in Depths
    BY <1>1, FetchedType
  <1>4. DOMAIN Args \subseteq 0..(fn.scalars - 1)
    BY <1>1, <1>2, FunctionFits DEF Args
  <1>5. \A s \in DOMAIN Args : Args[s] \in U32
    <2>1. fn.params >= 1 => Top.values[Ins.b] \in U32
      BY <1>1, <1>3, FetchedType DEF CanCall, Reads, Instruction
    <2>2. fn.params >= 2 => Top.values[Ins.flags] \in U32
      BY <1>1, <1>3, FetchedType DEF CanCall, Reads, Instruction
    <2>3. fn.params \in Nat
      BY <1>1, <1>2, FunctionFits DEF MaxParams
    <2>. QED  BY <2>1, <2>2, <2>3 DEF Args
  <1>6. Opened(fn.scalars, Args) \in FrameType
    BY <1>1, <1>2, <1>4, <1>5, FunctionFits, OpenedType
  <1>7. /\ f \in FrameType
        /\ f.return_pc = pc + 1 /\ f.return_destination = Ins.a /\ f.function_index = i
    BY <1>3, <1>6 DEF FrameType, Instruction
  <1>8. frames' = [frames EXCEPT ![depth + 1] = f] /\ depth' = depth + 1
    BY DEF Call
  <1>9. fn.entry \in Nat /\ pc' = fn.entry
    BY <1>1, <1>2, FunctionFits DEF Function, Call
  <1>. HIDE DEF f
  <1>10. depth + 1 \in Depths
    BY <1>2, <1>3, LimitsAssumption DEF Depths
  <1>11. TypeOK'
    <2>1. frames' \in [Depths -> FrameType] /\ depth' \in Depths
      BY <1>7, <1>8, <1>10 DEF IInv, TypeOK
    <2>2. executed' \in 0..MaxSteps
      BY <1>1, LimitsAssumption DEF Call, IInv, TypeOK, Fetched
    <2>. QED  BY <2>1, <2>2, <1>9 DEF Call, IInv, TypeOK
  <1>12. Checked' /\ NotBegun'
    BY <1>1 DEF Call, IInv, Checked, NotBegun, Fetched
  <1>13. CallersWait'
    <2>1. \A d \in Depths : d # depth + 1 => frames'[d] = frames[d]
      BY <1>8 DEF IInv, TypeOK
    <2>2. frames'[depth + 1] = f
      BY <1>8, <1>10 DEF IInv, TypeOK
    <2>3. SUFFICES ASSUME NEW d \in 1..depth'
                   PROVE  LET call == program.code[frames'[d].return_pc - 1]
                          IN  /\ call.op = "CALL" /\ call.imm = frames'[d].function_index
                              /\ call.a = frames'[d].return_destination
                              /\ Fresh(call, frames'[d - 1])
      BY DEF CallersWait, Call
    <2>4. d \in Depths /\ d - 1 \in Depths /\ d - 1 # depth + 1
      BY <1>3, <1>8, <1>10, LimitsAssumption DEF Depths
    <2>5. CASE d = depth + 1
      <3>1. frames'[d].return_pc - 1 = pc /\ frames'[d - 1] = Top
        BY <1>3, <1>7, <2>1, <2>2, <2>4, <2>5, FetchedType, <1>1 DEF Top, Depths
      <3>2. program.code[frames'[d].return_pc - 1] = Ins
        BY <3>1 DEF Ins
      <3>. QED  BY <1>1, <1>2, <1>7, <2>2, <2>5, <3>1, <3>2 DEF CanCall
    <2>6. CASE d # depth + 1
      <3>1. d \in 1..depth /\ frames'[d] = frames[d] /\ frames'[d - 1] = frames[d - 1]
        BY <1>3, <1>8, <2>1, <2>4, <2>6 DEF Depths
      <3>. QED  BY <3>1 DEF IInv, CallersWait
    <2>. QED  BY <2>5, <2>6
  <1>. QED  BY <1>11, <1>12, <1>13 DEF IInv

\* A return pops the frame and gives the caller's free slot its value.
LEMMA ReturnStep == ASSUME IInv, Return PROVE IInv'
  <1>1. Fetched /\ CanReturn /\ depth > 0
    BY DEF Return, CanReturn
  <1>. DEFINE to == Top.return_destination
              v == Top.values[Ins.a]
              f == Assigned(frames[depth - 1], to, v, FALSE)
  <1>2. depth \in Depths /\ depth - 1 \in Depths /\ Top \in FrameType
    BY <1>1, FetchedType, LimitsAssumption DEF Depths
  <1>3. frames[depth - 1] \in FrameType
    BY <1>2 DEF IInv, TypeOK
  <1>4. to \in Slots
    BY <1>1, <1>2, <1>3, LimitsAssumption DEF CanReturn, FrameType, Slots
  <1>5. v \in U32
    BY <1>1, FetchedType DEF CanReturn, Reads, Instruction
  <1>. HIDE DEF to, v
  <1>6. f \in FrameType /\ SameCall(f, frames[depth - 1])
    BY <1>3, <1>4, <1>5, AssignedType
  <1>7. frames' = [frames EXCEPT ![depth] = Cleared, ![depth - 1] = f] /\ depth' = depth - 1
    <2>1. depth - 1 # depth
      BY <1>2 DEF Depths
    <2>. QED  BY <1>2, <2>1 DEF Return, IInv, TypeOK, to, v
  <1>. HIDE DEF f
  <1>8. TypeOK'
    <2>1. frames' \in [Depths -> FrameType] /\ depth' \in Depths
      BY <1>2, <1>6, <1>7, ClearedType DEF IInv, TypeOK
    <2>2. executed' \in 0..MaxSteps
      BY <1>1, LimitsAssumption DEF Return, IInv, TypeOK, Fetched
    <2>3. pc' \in Nat
      BY <1>2 DEF Return, FrameType
    <2>. QED  BY <2>1, <2>2, <2>3 DEF Return, IInv, TypeOK
  <1>9. Checked' /\ NotBegun'
    BY <1>1 DEF Return, IInv, Checked, NotBegun, Fetched
  <1>10. CallersWait'
    <2>1. \A d \in Depths : d < depth => SameCall(frames'[d], frames[d])
      BY <1>2, <1>6, <1>7 DEF IInv, TypeOK, SameCall, Depths
    <2>2. \A d \in Depths : d < depth - 1 => frames'[d] = frames[d]
      BY <1>2, <1>7 DEF IInv, TypeOK, Depths
    <2>3. \A d \in 1..depth' : /\ d \in 1..depth /\ d \in Depths /\ d - 1 \in Depths
                               /\ d < depth /\ d - 1 < depth - 1
      BY <1>2, <1>7, LimitsAssumption DEF Depths
    <2>4. ASSUME NEW d \in 1..depth'
          PROVE  LET call == program.code[frames'[d].return_pc - 1]
                 IN  /\ call.op = "CALL" /\ call.imm = frames'[d].function_index
                     /\ call.a = frames'[d].return_destination
                     /\ Fresh(call, frames'[d - 1])
      <3>1. frames'[d - 1] = frames[d - 1] /\ SameCall(frames'[d], frames[d])
        BY <2>1, <2>2, <2>3
      <3>2. CallersWait /\ d \in 1..depth
        BY <2>3 DEF IInv
      <3>. QED  BY <3>1, <3>2 DEF CallersWait, SameCall
    <2>5. program' = program
      BY DEF Return
    <2>. QED  BY <2>4, <2>5 DEF CallersWait
  <1>. QED  BY <1>8, <1>9, <1>10 DEF IInv

\* What is emitted is a slot's value.
LEMMA EmitStep == ASSUME IInv, Emit PROVE IInv'
  <1>1. Fetched /\ Reads(Ins, {"a"}, Top)
    BY DEF Emit, CanEmit
  <1>2. Ins.a \in Slots /\ Top.values[Ins.a] \in U32
    BY <1>1, FetchedType DEF Reads, Instruction
  <1>3. executed' \in 0..MaxSteps
    BY <1>1, LimitsAssumption DEF Emit, IInv, TypeOK, Fetched
  <1>. QED
    BY <1>1, <1>2, <1>3 DEF Emit, IInv, TypeOK, Checked, NotBegun, CallersWait, Fetched

\* The end of a run changes no frame.
LEMMA HaltStep == ASSUME IInv, Halt PROVE IInv'
  <1>1. status' \in {"done", "divided_by_zero", "fault"} /\ status = "running"
    BY DEF Halt, Outcome
  <1>2. executed' \in 0..MaxSteps
    <2>1. Outcome # "fault" => Fetched
      BY DEF Outcome
    <2>. QED  BY <2>1, LimitsAssumption DEF Halt, IInv, TypeOK, Fetched
  <1>3. UNCHANGED <<program, given, frames, depth, pc, bound, emitted>>
    BY DEF Halt
  <1>. QED
    BY <1>1, <1>2, <1>3 DEF IInv, TypeOK, Checked, NotBegun, CallersWait

\* The contract bounds the frame of main; the bindings fit it.
LEMMA LoadStep == ASSUME IInv, Load \/ Refuse PROVE IInv'
  <1>1. CASE Load
    <2>1. RunsWithFrames(program)
      BY ProgramsAssumption DEF IInv, Checked
    <2>2. FunctionContract(program) /\ bound' = FunctionBound(program)
      BY <1>1, <2>1 DEF Load, Accepted, IsTypedScalarProgram, ExecutionStepBound
    <2>3. /\ program.scalars \in 1..MaxScalars /\ bound' <= MaxSteps
          /\ program.inputs > 0 => program.inputs <= program.scalars
      BY <2>2 DEF FunctionContract
    <2>4. /\ DOMAIN given \subseteq 0..(program.scalars - 1)
          /\ \A s \in DOMAIN given : given[s] \in U32
      <3>1. program.inputs \in Nat /\ program.main \in Nat
        BY DEF IInv, TypeOK, IsBytecode
      <3>2. CASE given = <<>>
        BY <3>2
      <3>3. CASE given \in [0..(program.inputs - 1) -> U32]
        BY <2>3, <3>1, <3>3
      <3>. QED  BY <3>2, <3>3 DEF IInv, TypeOK, Bindings
    <2>5. Opened(program.scalars, given) \in FrameType
      BY <2>3, <2>4, OpenedType
    <2>6. frames' \in [Depths -> FrameType] /\ program.main \in Nat
      BY <1>1, <2>5 DEF Load, IInv, TypeOK, IsBytecode
    <2>7. TypeOK'
      BY <1>1, <2>3, <2>6 DEF Load, IInv, TypeOK
    <2>8. depth' = 0
      BY <1>1 DEF Load, IInv, NotBegun
    <2>. QED
      BY <1>1, <2>2, <2>7, <2>8 DEF Load, IInv, Checked, NotBegun, CallersWait
  <1>2. CASE Refuse
    BY <1>2 DEF Refuse, IInv, TypeOK, Checked, NotBegun, CallersWait
  <1>. QED  BY <1>1, <1>2

\* Every step preserves the invariant.
LEMMA NextInv == ASSUME IInv, [Next]_vars PROVE IInv'
  <1>1. CASE UNCHANGED vars
    BY <1>1 DEF vars, IInv, TypeOK, Checked, NotBegun, CallersWait
  <1>. QED
    BY <1>1, LoadStep, ConstStep, ComputeStep, SetSlotStep, RepeatStep, JumpStep,
       CallStep, ReturnStep, EmitStep, HaltStep
    DEF Next

\* The inductive invariant holds of every run of every program.
THEOREM Invariance == Spec => []IInv
  BY InitInv, NextInv, PTL DEF Spec

-----------------------------------------------------------------------------

\* The call stack never outgrows its array and no frame its slots, for every
\* program, also one with recursive functions.
THEOREM TypeCorrect == Spec => []TypeOK
  BY Invariance, PTL DEF IInv

\* At every depth the caller is waiting at the CALL that opened the frame,
\* with its result slot still free, for every program and call depth.
THEOREM CallersWaiting == Spec => []CallersWait
  BY Invariance, PTL DEF IInv

-----------------------------------------------------------------------------
(* Induction, and functions defined by recursion *)

\* A nonempty set of naturals has a least element.
LEMMA LeastNatural ==
    ASSUME NEW S \in SUBSET Nat, S # {}
    PROVE  \E m \in S : \A n \in S : m <= n
  <1>. DEFINE R == {ss \in Nat \X Nat : ss[1] < ss[2]}
  <1>1. IsWellFoundedOn(R, Nat)
    BY NatLessThanWellFounded DEF OpToRel
  <1>2. PICK m \in S : \A n \in S : ~ (<<n, m>> \in R)
    <2>. HIDE DEF R
    <2>. QED  BY <1>1, WFMin
  <1>3. ASSUME NEW n \in S PROVE m <= n
    <2>1. <<n, m>> \in Nat \X Nat
      OBVIOUS
    <2>2. ~ (n < m)
      BY <1>2, <2>1
    <2>. QED  BY <2>2
  <1>. QED  BY <1>3

\* What holds of 0, and of every successor, holds of every natural.
LEMMA SetInduction ==
    ASSUME NEW S, 0 \in S, \A n \in Nat : n \in S => n + 1 \in S
    PROVE  \A n \in Nat : n \in S
  <1>. SUFFICES ASSUME Nat \ S # {} PROVE FALSE
    OBVIOUS
  <1>1. PICK m \in Nat \ S : \A n \in Nat \ S : m <= n
    BY LeastNatural
  <1>2. m - 1 \in Nat /\ m - 1 \in S
    BY <1>1
  <1>. QED  BY <1>1, <1>2

\* F maps functions to functions, and the value at each place depends only on
\* the values at places of lower rank.
DependsDownwards(D, V, N, rank, F) ==
    /\ V # {} /\ N \in Nat /\ rank \in [D -> 0..N]
    /\ F \in [[D -> V] -> [D -> V]]
    /\ \A g, h \in [D -> V] : \A x \in D :
          (\A y \in D : rank[y] < rank[x] => g[y] = h[y]) => F[g][x] = F[h][x]

\* Such a map has a fixed point: a function defined by recursion exists.
LEMMA FixedPoint ==
    ASSUME NEW D, NEW V, NEW N, NEW rank, NEW F, DependsDownwards(D, V, N, rank, F)
    PROVE  \E h \in [D -> V] : h = F[h]
  <1>. USE DEF DependsDownwards
  <1>. DEFINE Right(h, n) == \A x \in D : rank[x] < n => h[x] = F[h][x]
              S == {n \in Nat : \E h \in [D -> V] : Right(h, n)}
  <1>1. 0 \in S
    <2>1. PICK v \in V : TRUE
      OBVIOUS
    <2>2. [x \in D |-> v] \in [D -> V] /\ Right([x \in D |-> v], 0)
      BY <2>1
    <2>. QED  BY <2>2
  <1>2. ASSUME NEW n \in Nat, n \in S PROVE n + 1 \in S
    <2>1. PICK g \in [D -> V] : Right(g, n)
      BY <1>2
    <2>. DEFINE h == F[g]
    <2>2. h \in [D -> V]
      OBVIOUS
    <2>3. \A y \in D : rank[y] < n => h[y] = g[y]
      BY <2>1
    <2>4. ASSUME NEW x \in D, rank[x] < n + 1 PROVE h[x] = F[h][x]
      <3>1. \A y \in D : rank[y] < rank[x] => g[y] = h[y]
        BY <2>3, <2>4
      <3>. HIDE DEF h
      <3>2. F[g][x] = F[h][x]
        BY <2>2, <3>1
      <3>. QED  BY <3>2 DEF h
    <2>. HIDE DEF h
    <2>. QED  BY <2>2, <2>4
  <1>3. N + 1 \in S
    <2>. HIDE DEF S
    <2>. QED  BY <1>1, <1>2, SetInduction
  <1>4. PICK h \in [D -> V] : Right(h, N + 1)
    BY <1>3
  <1>5. \A x \in D : h[x] = F[h][x]
    BY <1>4
  <1>. QED  BY <1>5

\* What holds of a place whenever it holds of all places of lower rank, holds
\* of every place.
LEMMA RankInduction ==
    ASSUME NEW D, NEW N \in Nat, NEW rank \in [D -> 0..N], NEW S,
           \A x \in D : (\A y \in D : rank[y] < rank[x] => y \in S) => x \in S
    PROVE  \A x \in D : x \in S
  <1>. DEFINE T == {n \in Nat : \A x \in D : rank[x] < n => x \in S}
  <1>1. 0 \in T
    OBVIOUS
  <1>2. ASSUME NEW n \in Nat, n \in T PROVE n + 1 \in T
    <2>1. ASSUME NEW x \in D, rank[x] < n + 1 PROVE x \in S
      <3>1. \A y \in D : rank[y] < rank[x] => y \in S
        BY <1>2, <2>1
      <3>. QED  BY <3>1
    <2>. QED  BY <2>1
  <1>3. N + 1 \in T
    <2>. HIDE DEF T
    <2>. QED  BY <1>1, <1>2, SetInduction
  <1>. QED  BY <1>3

-----------------------------------------------------------------------------
(* The scans of the validator have results, which solve their equations *)

Slotted(n) == States(n, SUBSET (0..(n - 1)))

BodyPlaces(fn) == (fn.entry..fn.end) \X Slotted(fn.scalars)

\* What BodyScan says of one place, given what it says of the later ones.
BodyLine(bc, fn, Scan, at) ==
    LET i == at[1]
        s == at[2]
        ins == bc.code[i]
    IN  /\ i < fn.end
        /\ CASE ins.op = "RETURN" -> ReturnOK(ins, s) /\ i + 1 = fn.end
             [] ins.op = "REPEAT_ENTER" -> RepeatOK(bc, fn, i, s) /\ Scan[<<ins.imm, s>>]
             [] ins.op \in Set -> SetOK(ins, s) /\ Scan[<<i + 1, s>>]
             [] ins.op = "JUMP_IF_FALSE" ->
                  /\ IfOK(bc, fn, i, s)
                  /\ LET join == bc.code[ins.imm - 1].imm
                     IN  IF BothReturn(bc, i)
                         THEN join + 1 = fn.end /\ ReturnOK(bc.code[join], s)
                         ELSE Scan[<<join, s>>]
             [] OTHER ->
                  /\ LineOK(bc, ins, s) \/ BinaryOK(ins, Compare, s)
                  /\ Scan[<<i + 1, After(ins, s)>>]

\* A line that passes leaves the scan in a state it may be in.
LEMMA AfterState ==
    ASSUME NEW bc, NEW ins \in Instruction, NEW n \in Nat, NEW s \in Slotted(n),
           LineOK(bc, ins, s) \/ BinaryOK(ins, Compare, s)
    PROVE  After(ins, s) \in Slotted(n)
  <1>1. ins.a < s.n /\ s.n = n /\ ins.a \in Nat
    BY DEF LineOK, ConstOK, BinaryOK, CallOK, Fresh, Slotted, States, Instruction
  <1>2. ins.a \in 0..(n - 1)
    BY <1>1
  <1>. QED  BY <1>2 DEF After, Slotted, States

\* What is asked of a place, by the opcode there.
LEMMA BodyLineCases ==
    ASSUME NEW bc, NEW fn, NEW Scan, NEW at, at[1] < fn.end
    PROVE  LET i == at[1]
               s == at[2]
               ins == bc.code[i]
               join == bc.code[ins.imm - 1].imm
               line == BodyLine(bc, fn, Scan, at)
           IN  /\ ins.op = "RETURN" => (line <=> ReturnOK(ins, s) /\ i + 1 = fn.end)
               /\ ins.op = "REPEAT_ENTER" =>
                    (line <=> RepeatOK(bc, fn, i, s) /\ Scan[<<ins.imm, s>>])
               /\ ins.op \in Set => (line <=> SetOK(ins, s) /\ Scan[<<i + 1, s>>])
               /\ ins.op = "JUMP_IF_FALSE" =>
                    (line <=> /\ IfOK(bc, fn, i, s)
                              /\ IF BothReturn(bc, i)
                                 THEN join + 1 = fn.end /\ ReturnOK(bc.code[join], s)
                                 ELSE Scan[<<join, s>>])
               /\ ins.op \notin {"RETURN", "REPEAT_ENTER", "JUMP_IF_FALSE"} \cup Set =>
                    (line <=> /\ LineOK(bc, ins, s) \/ BinaryOK(ins, Compare, s)
                              /\ Scan[<<i + 1, After(ins, s)>>])
  <1>. DEFINE i == at[1]
              s == at[2]
              ins == bc.code[i]
  <1>1. CASE ins.op = "RETURN"
    BY <1>1 DEF BodyLine, Set
  <1>2. CASE ins.op = "REPEAT_ENTER"
    BY <1>2 DEF BodyLine, Set
  <1>3. CASE ins.op \in Set
    BY <1>3, Zenon DEF BodyLine, Set
  <1>4. CASE ins.op = "JUMP_IF_FALSE"
    BY <1>4 DEF BodyLine, Set
  <1>5. CASE ins.op \notin {"RETURN", "REPEAT_ENTER", "JUMP_IF_FALSE"} \cup Set
    BY <1>5, Zenon DEF BodyLine, Set
  <1>. QED  BY <1>1, <1>2, <1>3, <1>4, <1>5, Zenon

\* Where the branch at i joins.
LEMMA JoinPlace ==
    ASSUME NEW bc, IsBytecode(bc), NEW fn \in Function, fn.end <= Size(bc),
           NEW i \in Nat, i < fn.end, NEW s, IfOK(bc, fn, i, s)
    PROVE  LET else == bc.code[i].imm
               join == bc.code[else - 1].imm
           IN  else \in Nat /\ join \in Nat /\ i + 1 < else /\ else <= join /\ join < fn.end
  <1>. DEFINE else == bc.code[i].imm
  <1>1. fn.end \in Nat /\ Size(bc) \in Nat /\ bc.code \in [0..(Size(bc) - 1) -> Instruction]
    BY DEF Function, IsBytecode
  <1>2. bc.code[i] \in Instruction
    BY <1>1
  <1>3. else \in Nat /\ i + 1 < else /\ else < fn.end
    BY <1>2 DEF IfOK, Instruction
  <1>4. bc.code[else - 1] \in Instruction
    <2>. HIDE DEF else
    <2>1. else - 1 \in 0..(Size(bc) - 1)
      BY <1>1, <1>3
    <2>. QED  BY <1>1, <2>1
  <1>. QED  BY <1>3, <1>4 DEF IfOK, Instruction

\* BodyScan is a function that solves its equations, so what it says of a
\* place can be unfolded once.
LEMMA BodyScanSolves ==
    ASSUME NEW bc, IsBytecode(bc), NEW fn \in Function, fn.end <= Size(bc)
    PROVE  \A at \in BodyPlaces(fn) :
              BodyScan(bc, fn)[at] = BodyLine(bc, fn, BodyScan(bc, fn), at)
  <1>. DEFINE D == BodyPlaces(fn)
              V == BOOLEAN
              F == [h \in [D -> V] |-> [at \in D |-> BodyLine(bc, fn, h, at)]]
              N == fn.end
              rank == [at \in D |-> fn.end - at[1]]
  <1>1. fn.entry \in Nat /\ fn.end \in Nat /\ fn.scalars \in Nat /\ Size(bc) \in Nat
        /\ bc.code \in [0..(Size(bc) - 1) -> Instruction]
    BY DEF Function, IsBytecode
  <1>2. rank \in [D -> 0..N]
    BY <1>1 DEF BodyPlaces
  <1>3. ASSUME NEW at \in D, at[1] < fn.end
        PROVE  /\ bc.code[at[1]] \in Instruction /\ at[1] \in Nat /\ at[2] \in Slotted(fn.scalars)
               /\ \A n \in Nat, t \in Slotted(fn.scalars) :
                    at[1] < n /\ n <= fn.end => <<n, t>> \in D /\ rank[<<n, t>>] < rank[at]
    <2>1. at[1] \in Nat /\ at[2] \in Slotted(fn.scalars) /\ fn.entry <= at[1] /\ at[1] < Size(bc)
      BY <1>1, <1>3 DEF BodyPlaces
    <2>2. bc.code[at[1]] \in Instruction
      BY <1>1, <2>1
    <2>3. ASSUME NEW n \in Nat, NEW t \in Slotted(fn.scalars), at[1] < n, n <= fn.end
          PROVE  <<n, t>> \in D /\ rank[<<n, t>>] < rank[at]
      <3>1. <<n, t>> \in D
        BY <1>1, <2>1, <2>3 DEF BodyPlaces
      <3>2. rank[<<n, t>>] = fn.end - n /\ rank[at] = fn.end - at[1]
        BY <3>1
      <3>. QED  BY <1>1, <2>1, <2>3, <3>1, <3>2
    <2>. HIDE DEF D, rank
    <2>. QED  BY <2>1, <2>2, <2>3
  <1>4. ASSUME NEW h \in [D -> V], NEW g \in [D -> V], NEW at \in D,
               \A x \in D : rank[x] < rank[at] => g[x] = h[x]
        PROVE  BodyLine(bc, fn, g, at) = BodyLine(bc, fn, h, at)
    <2>. DEFINE i == at[1]
                s == at[2]
                ins == bc.code[i]
                join == bc.code[ins.imm - 1].imm
    <2>1. CASE ~(i < fn.end)
      BY <2>1 DEF BodyLine
    <2>2. CASE i < fn.end
      <3>1. \A n \in Nat, t \in Slotted(fn.scalars) :
              i < n /\ n <= fn.end => g[<<n, t>>] = h[<<n, t>>]
        <4>. HIDE DEF rank, D
        <4>. QED  BY <1>3, <1>4, <2>2
      <3>2. ins \in Instruction /\ i \in Nat /\ s \in Slotted(fn.scalars)
        BY <1>3, <2>2
      <3>3. ins.imm \in Nat /\ fn.end \in Nat /\ fn.scalars \in Nat
        BY <1>1, <3>2 DEF Instruction
      <3>. HIDE DEF D, V, rank
      <3>4. g[<<i + 1, s>>] = h[<<i + 1, s>>]
        BY <2>2, <3>1, <3>2, <3>3
      <3>5. RepeatOK(bc, fn, i, s) => i < ins.imm /\ ins.imm <= fn.end
        <4>1. RepeatOK(bc, fn, i, s) => ins.imm > i + 2 /\ ins.imm < fn.end
          BY DEF RepeatOK
        <4>. HIDE DEF i, s, ins
        <4>. QED  BY <3>2, <3>3, <4>1
      <3>6. RepeatOK(bc, fn, i, s) => g[<<ins.imm, s>>] = h[<<ins.imm, s>>]
        <4>. HIDE DEF i, s, ins
        <4>. QED  BY <3>1, <3>2, <3>3, <3>5
      <3>7. IfOK(bc, fn, i, s) => join \in Nat /\ i < join /\ join <= fn.end
        <4>. SUFFICES ASSUME IfOK(bc, fn, i, s) PROVE join \in Nat /\ i < join /\ join <= fn.end
          OBVIOUS
        <4>1. join \in Nat /\ i + 1 < ins.imm /\ ins.imm <= join /\ join < fn.end
          BY <2>2, <3>2, JoinPlace
        <4>. HIDE DEF i, s, ins, join
        <4>. QED  BY <3>2, <3>3, <4>1
      <3>8. IfOK(bc, fn, i, s) => g[<<join, s>>] = h[<<join, s>>]
        <4>. HIDE DEF i, s, ins, join
        <4>. QED  BY <3>1, <3>2, <3>3, <3>7
      <3>9. LineOK(bc, ins, s) \/ BinaryOK(ins, Compare, s) =>
              g[<<i + 1, After(ins, s)>>] = h[<<i + 1, After(ins, s)>>]
        <4>. HIDE DEF i, s, ins, join
        <4>1. LineOK(bc, ins, s) \/ BinaryOK(ins, Compare, s) => After(ins, s) \in Slotted(fn.scalars)
          BY <3>2, <3>3, AfterState
        <4>2. i + 1 \in Nat /\ i < i + 1 /\ i + 1 <= fn.end
          BY <2>2, <3>2, <3>3
        <4>. QED  BY <3>1, <4>1, <4>2
      <3>. DEFINE left == BodyLine(bc, fn, g, at)
                  right == BodyLine(bc, fn, h, at)
      <3>. SUFFICES left = right
        OBVIOUS
      <3>10. left \in BOOLEAN /\ right \in BOOLEAN
        BY DEF BodyLine
      <3>11. CASE ins.op = "RETURN"
        <4>1. left <=> ReturnOK(ins, s) /\ i + 1 = fn.end
          BY <2>2, <3>11, BodyLineCases
        <4>2. right <=> ReturnOK(ins, s) /\ i + 1 = fn.end
          BY <2>2, <3>11, BodyLineCases
        <4>. HIDE DEF left, right, i, s, ins
        <4>. QED  BY <3>10, <4>1, <4>2
      <3>12. CASE ins.op = "REPEAT_ENTER"
        <4>1. left <=> RepeatOK(bc, fn, i, s) /\ g[<<ins.imm, s>>]
          BY <2>2, <3>12, BodyLineCases
        <4>2. right <=> RepeatOK(bc, fn, i, s) /\ h[<<ins.imm, s>>]
          BY <2>2, <3>12, BodyLineCases
        <4>. HIDE DEF left, right, i, s, ins
        <4>. QED  BY <3>6, <3>10, <4>1, <4>2
      <3>13. CASE ins.op \in Set
        <4>1. left <=> SetOK(ins, s) /\ g[<<i + 1, s>>]
          BY <2>2, <3>13, BodyLineCases
        <4>2. right <=> SetOK(ins, s) /\ h[<<i + 1, s>>]
          BY <2>2, <3>13, BodyLineCases
        <4>. HIDE DEF left, right, i, s, ins
        <4>. QED  BY <3>4, <3>10, <4>1, <4>2
      <3>14. CASE ins.op = "JUMP_IF_FALSE"
        <4>. DEFINE both == join + 1 = fn.end /\ ReturnOK(bc.code[join], s)
        <4>1. left <=> IfOK(bc, fn, i, s) /\ IF BothReturn(bc, i) THEN both ELSE g[<<join, s>>]
          BY <2>2, <3>14, BodyLineCases
        <4>2. right <=> IfOK(bc, fn, i, s) /\ IF BothReturn(bc, i) THEN both ELSE h[<<join, s>>]
          BY <2>2, <3>14, BodyLineCases
        <4>. HIDE DEF left, right, i, s, ins, join, both
        <4>. QED  BY <3>8, <3>10, <4>1, <4>2
      <3>15. CASE ins.op \notin {"RETURN", "REPEAT_ENTER", "JUMP_IF_FALSE"} \cup Set
        <4>. DEFINE line == LineOK(bc, ins, s) \/ BinaryOK(ins, Compare, s)
        <4>1. left <=> line /\ g[<<i + 1, After(ins, s)>>]
          BY <2>2, <3>15, BodyLineCases
        <4>2. right <=> line /\ h[<<i + 1, After(ins, s)>>]
          BY <2>2, <3>15, BodyLineCases
        <4>. HIDE DEF left, right, i, s, ins
        <4>. QED  BY <3>9, <3>10, <4>1, <4>2
      <3>. HIDE DEF left, right, ins
      <3>. QED  BY <3>11, <3>12, <3>13, <3>14, <3>15
    <2>. QED  BY <2>1, <2>2
  <1>5. F \in [[D -> V] -> [D -> V]]
    BY DEF BodyLine
  <1>6. DependsDownwards(D, V, N, rank, F)
    <2>1. \A g, h \in [D -> V] : \A at \in D :
             (\A x \in D : rank[x] < rank[at] => g[x] = h[x]) => F[g][at] = F[h][at]
      <3>. HIDE DEF D, V, rank
      <3>. QED  BY <1>4
    <2>. HIDE DEF D, F, rank
    <2>. QED  BY <1>1, <1>2, <1>5, <2>1 DEF DependsDownwards
  <1>7. \E h \in [D -> V] : h = F[h]
    <2>. HIDE DEF D, V, F, rank, N
    <2>. QED  BY ONLY <1>6, FixedPoint
  <1>. DEFINE Body(h) == [at \in D |-> BodyLine(bc, fn, h, at)]
  <1>8. \E h : h = Body(h)
    BY <1>7
  <1>9. BodyScan(bc, fn) = CHOOSE h : h = Body(h)
    BY DEF BodyScan, BodyLine, BodyPlaces, Slotted
  <1>10. BodyScan(bc, fn) = Body(BodyScan(bc, fn))
    <2>. HIDE DEF Body
    <2>. QED  BY <1>8, <1>9
  <1>. HIDE DEF D
  <1>. QED  BY <1>10 DEF D

-----------------------------------------------------------------------------

MainPlaces(bc) == Pcs(bc) \X States(bc.scalars, {{}})

\* What MainScan says of one place, given what it says of the later ones.
MainLine(bc, Scan, at) ==
    LET i == at[1]
        s == at[2]
        ins == bc.code[i]
        last == Size(bc) - 1
    IN  /\ i < last
        /\ CASE ins.op = "U32_EMIT" ->
                  /\ Reads(ins, {"a"}, s) /\ Blank(ins, {"b", "flags", "imm"})
                  /\ i + 1 = last
             [] OTHER -> LineOK(bc, ins, s) /\ Scan[<<i + 1, After(ins, s)>>]

\* In main there are no bools.
LEMMA AfterMain ==
    ASSUME NEW bc, NEW ins \in Instruction, NEW n \in Nat, NEW s \in States(n, {{}}),
           LineOK(bc, ins, s)
    PROVE  After(ins, s) \in States(n, {{}})
  <1>1. ins.a < s.n /\ s.n = n /\ ins.a \in Nat /\ ins.op \in {"CONST", "CALL"} \cup Arith
    BY DEF LineOK, ConstOK, BinaryOK, CallOK, Fresh, States, Instruction
  <1>2. ins.a \in 0..(n - 1) /\ ins.op \notin Compare
    BY <1>1 DEF Arith, Compare
  <1>. QED  BY <1>2 DEF After, States

\* So does MainScan.
LEMMA MainScanSolves ==
    ASSUME NEW bc, IsBytecode(bc)
    PROVE  \A at \in MainPlaces(bc) : MainScan(bc)[at] = MainLine(bc, MainScan(bc), at)
  <1>. DEFINE D == MainPlaces(bc)
              V == BOOLEAN
              F == [h \in [D -> V] |-> [at \in D |-> MainLine(bc, h, at)]]
              N == Size(bc)
              rank == [at \in D |-> Size(bc) - at[1]]
  <1>1. /\ Size(bc) \in Nat /\ Pcs(bc) = 0..(Size(bc) - 1) /\ bc.scalars \in Nat
        /\ bc.code \in [0..(Size(bc) - 1) -> Instruction]
    BY DEF IsBytecode, Pcs
  <1>2. rank \in [D -> 0..N]
    BY <1>1 DEF MainPlaces
  <1>3. ASSUME NEW h \in [D -> V], NEW g \in [D -> V], NEW at \in D,
               \A x \in D : rank[x] < rank[at] => g[x] = h[x]
        PROVE  MainLine(bc, g, at) = MainLine(bc, h, at)
    <2>. DEFINE i == at[1]
                s == at[2]
                ins == bc.code[i]
                next == <<i + 1, After(ins, s)>>
    <2>1. i \in 0..(Size(bc) - 1) /\ s \in States(bc.scalars, {{}}) /\ ins \in Instruction
      BY <1>1 DEF MainPlaces
    <2>2. i < Size(bc) - 1 /\ LineOK(bc, ins, s) => g[next] = h[next]
      <3>. SUFFICES ASSUME i < Size(bc) - 1, LineOK(bc, ins, s) PROVE g[next] = h[next]
        OBVIOUS
      <3>1. After(ins, s) \in States(bc.scalars, {{}})
        BY <1>1, <2>1, AfterMain
      <3>2. next \in D
        BY <1>1, <2>1, <3>1 DEF MainPlaces
      <3>3. rank[next] = Size(bc) - (i + 1) /\ rank[at] = Size(bc) - i
        BY <3>2
      <3>4. rank[next] < rank[at]
        BY <1>1, <2>1, <3>3
      <3>. HIDE DEF D, rank, next
      <3>. QED  BY <1>3, <3>2, <3>4
    <2>. HIDE DEF D, rank
    <2>3. MainLine(bc, g, at) <=> MainLine(bc, h, at)
      BY <2>2 DEF MainLine
    <2>4. MainLine(bc, g, at) \in BOOLEAN /\ MainLine(bc, h, at) \in BOOLEAN
      BY DEF MainLine
    <2>. QED  BY <2>3, <2>4
  <1>4. F \in [[D -> V] -> [D -> V]]
    BY DEF MainLine
  <1>5. DependsDownwards(D, V, N, rank, F)
    <2>1. \A g, h \in [D -> V] : \A at \in D :
             (\A x \in D : rank[x] < rank[at] => g[x] = h[x]) => F[g][at] = F[h][at]
      <3>. HIDE DEF D, V, rank
      <3>. QED  BY <1>3
    <2>. HIDE DEF D, F, rank
    <2>. QED  BY <1>1, <1>2, <1>4, <2>1 DEF DependsDownwards
  <1>6. \E h \in [D -> V] : h = F[h]
    <2>. HIDE DEF D, V, F, rank, N
    <2>. QED  BY ONLY <1>5, FixedPoint
  <1>. DEFINE Main(h) == [at \in D |-> MainLine(bc, h, at)]
  <1>7. \E h : h = Main(h)
    BY <1>6
  <1>8. MainScan(bc) = CHOOSE h : h = Main(h)
    BY DEF MainScan, MainLine, MainPlaces
  <1>9. MainScan(bc) = Main(MainScan(bc))
    <2>. HIDE DEF Main
    <2>. QED  BY <1>7, <1>8
  <1>. HIDE DEF D
  <1>. QED  BY <1>9 DEF D

-----------------------------------------------------------------------------

ChainStep(bc, chain) ==
    [k \in 1..(MaxCallDepth + 1) |->
        IF k = 1 THEN DOMAIN bc.functions
        ELSE {f \in DOMAIN bc.functions : Calls(bc, f) \cap chain[k - 1] # {}}]

\* And CallChains.
LEMMA ChainsSolve ==
    ASSUME NEW bc  PROVE  CallChains(bc) = ChainStep(bc, CallChains(bc))
  <1>. DEFINE D == 1..(MaxCallDepth + 1)
              V == SUBSET DOMAIN bc.functions
              F == [h \in [D -> V] |-> ChainStep(bc, h)]
              N == MaxCallDepth + 1
              rank == [k \in D |-> k]
  <1>1. N \in Nat /\ V # {} /\ rank \in [D -> 0..N]
    BY LimitsAssumption
  <1>2. \A h \in [D -> V] : ChainStep(bc, h) \in [D -> V]
    BY DEF ChainStep
  <1>3. ASSUME NEW g \in [D -> V], NEW h \in [D -> V], NEW k \in D,
               \A m \in D : rank[m] < rank[k] => g[m] = h[m]
        PROVE  F[g][k] = F[h][k]
    <2>1. k # 1 => g[k - 1] = h[k - 1]
      <3>1. k # 1 => k - 1 \in D /\ rank[k - 1] < rank[k]
        BY LimitsAssumption
      <3>. HIDE DEF D, rank
      <3>. QED  BY <1>3, <3>1
    <2>. QED  BY <2>1 DEF ChainStep
  <1>4. F \in [[D -> V] -> [D -> V]]
    BY <1>2
  <1>5. DependsDownwards(D, V, N, rank, F)
    <2>1. \A g, h \in [D -> V] : \A k \in D :
             (\A m \in D : rank[m] < rank[k] => g[m] = h[m]) => F[g][k] = F[h][k]
      <3>. HIDE DEF D, V, F, rank
      <3>. QED  BY <1>3
    <2>. HIDE DEF D, V, F, rank, N
    <2>. QED  BY <1>1, <1>4, <2>1 DEF DependsDownwards
  <1>6. \E h \in [D -> V] : h = F[h]
    <2>. HIDE DEF D, V, F, rank, N
    <2>. QED  BY ONLY <1>5, FixedPoint
  <1>7. \E h : h = ChainStep(bc, h)
    BY <1>6
  <1>8. CallChains(bc) = CHOOSE h : h = ChainStep(bc, h)
    BY DEF CallChains, ChainStep
  <1>. QED  BY <1>7, <1>8

\* A call in front of a chain of calls makes a longer one.
LEMMA ChainsGrow ==
    ASSUME NEW bc
    PROVE  /\ CallChains(bc)[1] = DOMAIN bc.functions
           /\ \A k \in 1..MaxCallDepth, f \in DOMAIN bc.functions :
                 Calls(bc, f) \cap CallChains(bc)[k] # {} => f \in CallChains(bc)[k + 1]
  <1>. DEFINE C == CallChains(bc)
  <1>1. C = ChainStep(bc, C)
    BY ChainsSolve
  <1>. HIDE DEF C
  <1>2. C[1] = DOMAIN bc.functions
    BY <1>1, LimitsAssumption DEF ChainStep
  <1>3. ASSUME NEW k \in 1..MaxCallDepth, NEW f \in DOMAIN bc.functions,
               Calls(bc, f) \cap C[k] # {}
        PROVE  f \in C[k + 1]
    <2>1. k + 1 \in 1..(MaxCallDepth + 1) /\ k + 1 # 1 /\ (k + 1) - 1 = k
      BY LimitsAssumption
    <2>2. C[k + 1] = {e \in DOMAIN bc.functions : Calls(bc, e) \cap C[(k + 1) - 1] # {}}
      BY <1>1, <2>1 DEF ChainStep
    <2>. QED  BY <1>3, <2>1, <2>2
  <1>. QED  BY <1>2, <1>3 DEF C

-----------------------------------------------------------------------------
(* The form of the code that passes *)

\* An instruction of a function leads on inside it.
LineForm(bc, fn, i) ==
    LET ins == bc.code[i]
        join == bc.code[ins.imm - 1].imm
    IN  \/ ins.op = "RETURN"
        \/ ins.op = "REPEAT_ENTER" /\ ins.imm \in (i + 1)..(fn.end - 1)
        \/ /\ ins.op = "JUMP_IF_FALSE"
           /\ i + 1 < ins.imm /\ ins.imm <= join /\ join < fn.end /\ join \in Nat
        \/ ins.op = "CALL" /\ ins.imm \in DOMAIN bc.functions /\ i + 1 < fn.end
        \/ ins.op \notin {"RETURN", "REPEAT_ENTER", "JUMP_IF_FALSE", "CALL"} /\ i + 1 < fn.end

\* The validator has come to i, knowing s, and goes on.
Scanned(bc, fn, i, s) == <<i, s>> \in BodyPlaces(fn) /\ BodyScan(bc, fn)[<<i, s>>]

\* What the validator has seen of a place that passes.
LEMMA ScannedCases ==
    ASSUME NEW bc, IsBytecode(bc), NEW fn \in Function, fn.end <= Size(bc),
           NEW i, NEW s, Scanned(bc, fn, i, s)
    PROVE  LET ins == bc.code[i]
               join == bc.code[ins.imm - 1].imm
           IN  /\ i \in Nat /\ i >= fn.entry /\ i < fn.end /\ s \in Slotted(fn.scalars)
               /\ ins \in Instruction
               /\ ins.op = "RETURN" => ReturnOK(ins, s) /\ i + 1 = fn.end
               /\ ins.op = "REPEAT_ENTER" =>
                    RepeatOK(bc, fn, i, s) /\ Scanned(bc, fn, ins.imm, s)
               /\ ins.op \in Set => SetOK(ins, s) /\ Scanned(bc, fn, i + 1, s)
               /\ ins.op = "JUMP_IF_FALSE" =>
                    /\ IfOK(bc, fn, i, s)
                    /\ IF BothReturn(bc, i) THEN join + 1 = fn.end /\ ReturnOK(bc.code[join], s)
                       ELSE Scanned(bc, fn, join, s)
               /\ ins.op \notin {"RETURN", "REPEAT_ENTER", "JUMP_IF_FALSE"} \cup Set =>
                    /\ LineOK(bc, ins, s) \/ BinaryOK(ins, Compare, s)
                    /\ Scanned(bc, fn, i + 1, After(ins, s))
  <1>. DEFINE ins == bc.code[i]
              join == bc.code[ins.imm - 1].imm
              Scan == BodyScan(bc, fn)
              at == <<i, s>>
  <1>1. fn.entry \in Nat /\ fn.end \in Nat /\ fn.scalars \in Nat
    BY DEF Function
  <1>2. at \in BodyPlaces(fn) /\ Scan[at]
    BY DEF Scanned
  <1>3. BodyLine(bc, fn, Scan, at)
    <2>. HIDE DEF at
    <2>. QED  BY <1>2, BodyScanSolves
  <1>4. i < fn.end
    BY <1>3 DEF BodyLine
  <1>5. i \in Nat /\ i >= fn.entry /\ s \in Slotted(fn.scalars)
    BY <1>1, <1>2 DEF BodyPlaces
  <1>6. ins \in Instruction
    <2>1. bc.code \in [0..(Size(bc) - 1) -> Instruction] /\ Size(bc) \in Nat
      BY DEF IsBytecode
    <2>2. i \in 0..(Size(bc) - 1)
      BY <1>1, <1>4, <1>5, <2>1
    <2>. QED  BY <2>1, <2>2
  <1>7. ins.imm \in Nat
    BY <1>6 DEF Instruction
  <1>. HIDE DEF Scan
  <1>8. /\ ins.op = "RETURN" => ReturnOK(ins, s) /\ i + 1 = fn.end
        /\ ins.op = "REPEAT_ENTER" => RepeatOK(bc, fn, i, s) /\ Scan[<<ins.imm, s>>]
        /\ ins.op \in Set => SetOK(ins, s) /\ Scan[<<i + 1, s>>]
        /\ ins.op = "JUMP_IF_FALSE" =>
              /\ IfOK(bc, fn, i, s)
              /\ IF BothReturn(bc, i) THEN join + 1 = fn.end /\ ReturnOK(bc.code[join], s)
                 ELSE Scan[<<join, s>>]
        /\ ins.op \notin {"RETURN", "REPEAT_ENTER", "JUMP_IF_FALSE"} \cup Set =>
              /\ LineOK(bc, ins, s) \/ BinaryOK(ins, Compare, s)
              /\ Scan[<<i + 1, After(ins, s)>>]
    <2>1. CASE ins.op = "RETURN"
      BY <1>3, <2>1 DEF BodyLine, Set
    <2>2. CASE ins.op = "REPEAT_ENTER"
      BY <1>3, <2>2 DEF BodyLine, Set
    <2>3. CASE ins.op \in Set
      BY <1>3, <2>3 DEF BodyLine, Set
    <2>4. CASE ins.op = "JUMP_IF_FALSE"
      BY <1>3, <2>4 DEF BodyLine, Set
    <2>5. CASE ins.op \notin {"RETURN", "REPEAT_ENTER", "JUMP_IF_FALSE"} \cup Set
      BY <1>3, <2>5 DEF BodyLine, Set
    <2>. QED  BY <2>1, <2>2, <2>3, <2>4, <2>5
  <1>9. ASSUME NEW n \in Nat, NEW t \in Slotted(fn.scalars), i < n, n <= fn.end, Scan[<<n, t>>]
        PROVE  Scanned(bc, fn, n, t)
    <2>1. n \in fn.entry..fn.end
      BY <1>1, <1>5, <1>9
    <2>. QED  BY <1>9, <2>1 DEF Scanned, BodyPlaces, Scan
  <1>10. i + 1 \in Nat /\ i < i + 1 /\ i + 1 <= fn.end
    BY <1>1, <1>4, <1>5
  <1>11. RepeatOK(bc, fn, i, s) => i < ins.imm /\ ins.imm <= fn.end
    <2>1. RepeatOK(bc, fn, i, s) => ins.imm > i + 2 /\ ins.imm < fn.end
      BY DEF RepeatOK
    <2>. HIDE DEF ins
    <2>. QED  BY <1>1, <1>5, <1>7, <2>1
  <1>12. IfOK(bc, fn, i, s) => join \in Nat /\ i < join /\ join <= fn.end
    <2>1. IfOK(bc, fn, i, s) =>
            join \in Nat /\ i + 1 < ins.imm /\ ins.imm <= join /\ join < fn.end
      BY <1>4, <1>5, JoinPlace
    <2>. HIDE DEF ins, join
    <2>. QED  BY <1>1, <1>5, <1>7, <2>1
  <1>. HIDE DEF ins, join
  <1>13. LineOK(bc, ins, s) \/ BinaryOK(ins, Compare, s) => After(ins, s) \in Slotted(fn.scalars)
    BY <1>1, <1>5, <1>6, AfterState
  <1>14. ins.op = "REPEAT_ENTER" => Scanned(bc, fn, ins.imm, s)
    BY <1>5, <1>7, <1>8, <1>9, <1>11
  <1>15. ins.op \in Set => Scanned(bc, fn, i + 1, s)
    BY <1>5, <1>8, <1>9, <1>10
  <1>16. ins.op = "JUMP_IF_FALSE" /\ ~BothReturn(bc, i) => Scanned(bc, fn, join, s)
    BY <1>5, <1>8, <1>9, <1>12
  <1>17. ins.op \notin {"RETURN", "REPEAT_ENTER", "JUMP_IF_FALSE"} \cup Set =>
            Scanned(bc, fn, i + 1, After(ins, s))
    BY <1>8, <1>9, <1>10, <1>13
  <1>18. /\ i \in Nat /\ i >= fn.entry /\ i < fn.end /\ s \in Slotted(fn.scalars)
         /\ ins \in Instruction
    BY <1>4, <1>5, <1>6
  <1>. QED  BY <1>8, <1>14, <1>15, <1>16, <1>17, <1>18 DEF ins, join

\* The opcodes a function is made of.
BodyOps ==
    {"CONST", "CALL", "RETURN", "REPEAT_ENTER", "REPEAT_NEXT", "JUMP", "JUMP_IF_FALSE"}
        \cup Arith \cup Compare \cup Set

\* An instruction of a function is one the decoder lets stand in a function.
LineKept(bc, fn, i) ==
    LET ins == bc.code[i]
        forward == ins.imm > i /\ ins.imm < fn.end
    IN  /\ ins.op \in BodyOps
        /\ ins.op = "REPEAT_ENTER" =>
             ins.a \in 1..MaxRepeat /\ ins.flags = 0 /\ forward /\ ins.imm # i + 1
        /\ ins.op = "REPEAT_NEXT" => Blank(ins, {"a", "b", "flags"}) /\ ins.imm < i
        /\ ins.op = "JUMP_IF_FALSE" => Blank(ins, {"b", "flags"}) /\ forward
        /\ ins.op = "JUMP" => Blank(ins, {"a", "b", "flags"}) /\ forward

\* All code from a place that passes on has the form.
FormedFrom(bc, fn, i) ==
    \A j \in Nat : i <= j /\ j < fn.end => LineForm(bc, fn, j) /\ LineKept(bc, fn, j)

\* If what follows the place has the form, so has the code from it on.
LEMMA FormStep ==
    ASSUME NEW bc, IsBytecode(bc), NEW fn \in Function, fn.end <= Size(bc),
           NEW i, NEW s, Scanned(bc, fn, i, s),
           \A n, t : Scanned(bc, fn, n, t) /\ i < n => FormedFrom(bc, fn, n)
    PROVE  FormedFrom(bc, fn, i)
  <1>. DEFINE ins == bc.code[i]
              op == ins.op
              to == ins.imm
              join == bc.code[to - 1].imm
  <1>1. fn.end \in Nat /\ i \in Nat /\ i < fn.end
    BY ScannedCases DEF Function
  <1>2. ins \in Instruction /\ to \in Nat
    BY ScannedCases DEF Instruction
  <1>3. \A n \in Nat : \A t : Scanned(bc, fn, n, t) /\ i < n => n < fn.end /\ FormedFrom(bc, fn, n)
    <2>1. \A n, t : Scanned(bc, fn, n, t) => n < fn.end
      BY ScannedCases
    <2>. QED  BY <2>1
  <1>4. \A j \in Nat : i <= j => j = i \/ i + 1 <= j
    BY <1>1
  <1>5. CASE op = "RETURN"
    <2>1. i + 1 = fn.end
      BY <1>5, ScannedCases
    <2>2. LineForm(bc, fn, i) /\ LineKept(bc, fn, i)
      BY <1>5 DEF LineForm, LineKept, BodyOps
    <2>. HIDE DEF ins, op, to, join
    <2>3. \A j \in Nat : i <= j /\ j < fn.end => j = i
      BY <1>1, <2>1
    <2>. QED  BY <2>2, <2>3 DEF FormedFrom
  <1>6. CASE op = "REPEAT_ENTER"
    <2>1. RepeatOK(bc, fn, i, s) /\ Scanned(bc, fn, to, s)
      BY <1>6, ScannedCases
    <2>2. /\ to > i + 2 /\ to < fn.end
          /\ bc.code[to - 1].op = "REPEAT_NEXT"
          /\ \A j \in (i + 1)..(to - 2) : bc.code[j].op \in Set
      BY <2>1 DEF RepeatOK, SetOK
    <2>7. /\ ins.a \in 1..MaxRepeat /\ ins.flags = 0
          /\ Blank(bc.code[to - 1], {"a", "b", "flags"}) /\ bc.code[to - 1].imm = i
      <3>1. ins.a \in 1..MaxRepeat /\ Blank(ins, {"b", "flags"})
        BY <2>1 DEF RepeatOK
      <3>2. Blank(bc.code[to - 1], {"a", "b", "flags"}) /\ bc.code[to - 1].imm = i
        BY <2>1 DEF RepeatOK
      <3>. QED  BY <3>1, <3>2 DEF Blank
    <2>. HIDE DEF to, join
    <2>3. LineForm(bc, fn, i) /\ LineKept(bc, fn, i)
      <3>1. to \in (i + 1)..(fn.end - 1) /\ to > i /\ to # i + 1
        BY <1>1, <1>2, <2>2
      <3>2. LineForm(bc, fn, i)
        BY <1>6, <3>1 DEF LineForm, to
      <3>. QED  BY <1>6, <2>2, <2>7, <3>1, <3>2 DEF LineKept, BodyOps, to
    <2>. HIDE DEF ins, op
    <2>4. FormedFrom(bc, fn, to)
      BY <1>1, <1>2, <1>3, <2>1, <2>2
    <2>5. ASSUME NEW j \in Nat, i + 1 <= j, j < to
          PROVE  LineForm(bc, fn, j) /\ LineKept(bc, fn, j)
      <3>1. j + 1 < fn.end
        BY <1>1, <1>2, <2>2, <2>5
      <3>2. j = to - 1 \/ j \in (i + 1)..(to - 2)
        BY <1>1, <1>2, <2>5
      <3>3. bc.code[j].op \in Set \cup {"REPEAT_NEXT"}
        BY <2>2, <3>2
      <3>4. LineForm(bc, fn, j)
        BY <3>1, <3>3 DEF LineForm, Set
      <3>5. bc.code[j].op = "REPEAT_NEXT" =>
                Blank(bc.code[j], {"a", "b", "flags"}) /\ bc.code[j].imm < j
        <4>1. CASE j = to - 1
          BY <1>1, <2>5, <2>7, <4>1
        <4>2. CASE j \in (i + 1)..(to - 2)
          BY <2>2, <4>2 DEF Set
        <4>. QED  BY <3>2, <4>1, <4>2
      <3>. QED  BY <3>3, <3>4, <3>5 DEF LineKept, BodyOps, Set
    <2>6. \A j \in Nat : i <= j => j = i \/ (i + 1 <= j /\ j < to) \/ to <= j
      BY <1>1, <1>2, <1>4
    <2>. QED  BY <2>3, <2>4, <2>5, <2>6 DEF FormedFrom
  <1>7. CASE op \in Set
    <2>1. Scanned(bc, fn, i + 1, s)
      BY <1>7, ScannedCases
    <2>2. i + 1 < fn.end /\ FormedFrom(bc, fn, i + 1)
      <3>1. i + 1 \in Nat /\ i < i + 1
        BY <1>1
      <3>. QED  BY <1>3, <2>1, <3>1
    <2>3. LineForm(bc, fn, i) /\ LineKept(bc, fn, i)
      BY <1>7, <2>2 DEF LineForm, LineKept, BodyOps, Set
    <2>. QED  BY <1>4, <2>2, <2>3 DEF FormedFrom
  <1>8. CASE op = "JUMP_IF_FALSE"
    <2>1. /\ IfOK(bc, fn, i, s)
          /\ IF BothReturn(bc, i) THEN join + 1 = fn.end /\ ReturnOK(bc.code[join], s)
             ELSE Scanned(bc, fn, join, s)
      BY <1>8, ScannedCases
    <2>2. join \in Nat /\ i + 1 < to /\ to <= join /\ join < fn.end
      BY <1>1, <2>1, JoinPlace
    <2>3. LineForm(bc, fn, i) /\ LineKept(bc, fn, i)
      <3>1. Blank(ins, {"b", "flags"}) /\ to < fn.end
        BY <2>1 DEF IfOK
      <3>2. to > i
        <4>. HIDE DEF to, join
        <4>. QED  BY <1>1, <1>2, <2>2
      <3>3. LineForm(bc, fn, i)
        BY <1>8, <2>2 DEF LineForm
      <3>. QED  BY <1>8, <3>1, <3>2, <3>3 DEF LineKept, BodyOps
    <2>8. Blank(bc.code[to - 1], {"a", "b", "flags"})
      BY <2>1 DEF IfOK
    <2>4. /\ bc.code[to - 1].op = "JUMP"
          /\ \A j \in (i + 1)..((to - 1) - 1) : bc.code[j].op \in Set \cup {"RETURN"}
          /\ \A j \in to..(join - 1) : bc.code[j].op \in Set \cup {"RETURN"}
      <3>1. BranchOK(bc, i + 1, to - 1, s) /\ BranchOK(bc, to, join, s)
        BY <2>1 DEF IfOK
      <3>. HIDE DEF to, join
      <3>2. \A j \in (i + 1)..((to - 1) - 1) : bc.code[j].op \in Set \cup {"RETURN"}
        BY <3>1 DEF BranchOK, SetOK, ReturnOK
      <3>3. \A j \in to..(join - 1) : bc.code[j].op \in Set \cup {"RETURN"}
        BY <3>1 DEF BranchOK, SetOK, ReturnOK
      <3>. QED  BY <2>1, <3>2, <3>3 DEF IfOK, to
    <2>. HIDE DEF ins, op, to, join
    <2>5. ASSUME NEW j \in Nat, i + 1 <= j, j < join
          PROVE  LineForm(bc, fn, j) /\ LineKept(bc, fn, j)
      <3>1. j + 1 < fn.end
        BY <1>1, <1>2, <2>2, <2>5
      <3>2. j = to - 1 \/ j \in (i + 1)..((to - 1) - 1) \/ j \in to..(join - 1)
        BY <1>1, <1>2, <2>2, <2>5
      <3>3. bc.code[j].op \in Set \cup {"RETURN", "JUMP"}
        BY <2>4, <3>2
      <3>4. LineForm(bc, fn, j)
        BY <3>1, <3>3 DEF LineForm, Set
      <3>5. bc.code[j].op = "JUMP" =>
                /\ Blank(bc.code[j], {"a", "b", "flags"})
                /\ bc.code[j].imm > j /\ bc.code[j].imm < fn.end
        <4>1. CASE j = to - 1
          <5>1. bc.code[j].imm = join
            BY <4>1 DEF join, to
          <5>. QED  BY <1>1, <1>2, <2>2, <2>5, <2>8, <4>1, <5>1
        <4>2. CASE j # to - 1
          BY <2>4, <3>2, <4>2 DEF Set
        <4>. QED  BY <4>1, <4>2
      <3>. QED  BY <3>3, <3>4, <3>5 DEF LineKept, BodyOps, Set
    <2>6. FormedFrom(bc, fn, join)
      <3>1. CASE BothReturn(bc, i)
        <4>1. join + 1 = fn.end /\ bc.code[join].op = "RETURN"
          BY <2>1, <3>1 DEF ReturnOK
        <4>2. \A j \in Nat : join <= j /\ j < fn.end => j = join
          BY <1>1, <2>2, <4>1
        <4>3. LineForm(bc, fn, join) /\ LineKept(bc, fn, join)
          BY <4>1 DEF LineForm, LineKept, BodyOps
        <4>. QED  BY <4>2, <4>3 DEF FormedFrom
      <3>2. CASE ~BothReturn(bc, i)
        <4>1. i < join
          BY <1>1, <1>2, <2>2
        <4>. QED  BY <1>3, <2>1, <2>2, <3>2, <4>1
      <3>. QED  BY <3>1, <3>2
    <2>7. \A j \in Nat : i <= j => j = i \/ (i + 1 <= j /\ j < join) \/ join <= j
      BY <1>1, <2>2
    <2>. QED  BY <2>3, <2>5, <2>6, <2>7 DEF FormedFrom
  <1>9. CASE op \notin {"RETURN", "REPEAT_ENTER", "JUMP_IF_FALSE"} \cup Set
    <2>1. /\ LineOK(bc, ins, s) \/ BinaryOK(ins, Compare, s)
          /\ Scanned(bc, fn, i + 1, After(ins, s))
      BY <1>9, ScannedCases
    <2>2. i + 1 < fn.end /\ FormedFrom(bc, fn, i + 1)
      <3>1. i + 1 \in Nat /\ i < i + 1
        BY <1>1
      <3>. QED  BY <1>3, <2>1, <3>1
    <2>3. op = "CALL" => to \in DOMAIN bc.functions
      <3>1. CASE LineOK(bc, ins, s)
        BY <3>1 DEF LineOK, ConstOK, BinaryOK, CallOK, Arith
      <3>2. CASE BinaryOK(ins, Compare, s)
        BY <3>2 DEF BinaryOK, Compare
      <3>. QED  BY <2>1, <3>1, <3>2
    <2>4. LineForm(bc, fn, i) /\ LineKept(bc, fn, i)
      <3>1. op \in {"CONST", "CALL"} \cup Arith \cup Compare
        BY <2>1 DEF LineOK, ConstOK, BinaryOK, CallOK
      <3>2. LineForm(bc, fn, i)
        BY <1>9, <2>2, <2>3 DEF LineForm
      <3>. QED  BY <3>1, <3>2 DEF LineKept, BodyOps, Arith, Compare
    <2>. QED  BY <1>4, <2>2, <2>4 DEF FormedFrom
  <1>. QED  BY <1>5, <1>6, <1>7, <1>8, <1>9

\* From a place the scan has come to, the code stays within its function.
LEMMA BodyForm ==
    ASSUME NEW bc, IsBytecode(bc), NEW fn \in Function, fn.end <= Size(bc),
           NEW i, NEW s, Scanned(bc, fn, i, s)
    PROVE  FormedFrom(bc, fn, i)
  <1>. DEFINE D == BodyPlaces(fn)
              rank == [at \in D |-> fn.end - at[1]]
              S == {at \in D : Scanned(bc, fn, at[1], at[2]) => FormedFrom(bc, fn, at[1])}
  <1>1. fn.entry \in Nat /\ fn.end \in Nat
    BY DEF Function
  <1>2. rank \in [D -> 0..fn.end]
    BY <1>1 DEF BodyPlaces
  <1>3. ASSUME NEW at \in D, \A x \in D : rank[x] < rank[at] => x \in S,
               Scanned(bc, fn, at[1], at[2])
        PROVE  FormedFrom(bc, fn, at[1])
    <2>1. ASSUME NEW n, NEW t, Scanned(bc, fn, n, t), at[1] < n PROVE FormedFrom(bc, fn, n)
      <3>1. <<n, t>> \in D /\ n \in Nat /\ n <= fn.end /\ at[1] \in Nat
        BY <1>1, <2>1 DEF Scanned, BodyPlaces
      <3>2. rank[<<n, t>>] = fn.end - n /\ rank[at] = fn.end - at[1]
        BY <3>1
      <3>3. rank[<<n, t>>] < rank[at]
        BY <1>1, <2>1, <3>1, <3>2
      <3>4. <<n, t>> \in S
        <4>. HIDE DEF D, rank, S
        <4>. QED  BY <1>3, <3>1, <3>3
      <3>. QED  BY <2>1, <3>4
    <2>. HIDE DEF D, rank, S
    <2>. QED  BY <1>3, <2>1, FormStep
  <1>4. \A at \in D : at \in S
    <2>1. \A at \in D : (\A x \in D : rank[x] < rank[at] => x \in S) => at \in S
      BY <1>3
    <2>. HIDE DEF D, S, rank
    <2>. QED  BY <1>1, <1>2, <2>1, RankInduction
  <1>5. <<i, s>> \in S
    <2>. HIDE DEF S
    <2>. QED  BY <1>4 DEF Scanned
  <1>. QED  BY <1>5

-----------------------------------------------------------------------------
(* The functions of an accepted program *)

\* What the VM runs.
Sound(bc) == IsBytecode(bc) /\ FunctionContract(bc)

Func(bc, f) == bc.functions[f]
Known0(fn) == Known(fn.scalars, 0..(fn.params - 1), {})

\* Every function passes from its entry on.
LEMMA FunctionScanned ==
    ASSUME NEW bc, Sound(bc), NEW f \in DOMAIN bc.functions
    PROVE  /\ Func(bc, f) \in Function /\ Func(bc, f).end <= Size(bc)
           /\ Func(bc, f).end <= bc.main /\ Func(bc, f).entry < Func(bc, f).end
           /\ Func(bc, f).scalars \in 1..MaxScalars /\ Func(bc, f).params \in 0..MaxParams
           /\ Func(bc, f).params <= Func(bc, f).scalars
           /\ Scanned(bc, Func(bc, f), Func(bc, f).entry, Known0(Func(bc, f)))
           /\ FormedFrom(bc, Func(bc, f), Func(bc, f).entry)
  <1>. DEFINE fn == Func(bc, f)
  <1>1. /\ fn \in Function /\ f \in 0..(Cardinality(DOMAIN bc.functions) - 1)
        /\ bc.main \in Nat /\ Size(bc) \in Nat
    BY DEF Sound, IsBytecode, Func
  <1>2. RangeOK(bc, fn) /\ BodyOK(bc, fn)
    BY <1>1 DEF Sound, FunctionContract, FunctionsOK, Func
  <1>3. bc.main < Size(bc) - 1
    BY DEF Sound, FunctionContract
  <1>. HIDE DEF fn
  <1>4. /\ fn.entry \in Nat /\ fn.end \in Nat /\ fn.scalars \in Nat /\ fn.params \in Nat
        /\ fn.entry < fn.end /\ fn.end <= bc.main
        /\ fn.scalars \in 1..MaxScalars /\ fn.params \in 0..MaxParams
        /\ fn.params <= fn.scalars
    BY <1>1, <1>2 DEF Function, RangeOK
  <1>5. fn.end <= Size(bc)
    BY <1>1, <1>3, <1>4
  <1>6. Scanned(bc, fn, fn.entry, Known0(fn))
    <2>1. 0..(fn.params - 1) \subseteq 0..(fn.scalars - 1)
      BY <1>4
    <2>2. Known0(fn) \in Slotted(fn.scalars)
      BY <2>1 DEF Known0, Known, Slotted, States
    <2>3. fn.entry \in fn.entry..fn.end
      BY <1>4
    <2>4. BodyScan(bc, fn)[<<fn.entry, Known0(fn)>>]
      BY <1>2 DEF BodyOK, Known0
    <2>. QED  BY <2>2, <2>3, <2>4 DEF Scanned, BodyPlaces
  <1>7. FormedFrom(bc, fn, fn.entry)
    BY <1>1, <1>5, <1>6, BodyForm DEF Sound
  <1>. QED  BY <1>1, <1>4, <1>5, <1>6, <1>7 DEF fn

In(bc, f, i) == Func(bc, f).entry <= i /\ i < Func(bc, f).end

\* Each place before main is in one function.
LEMMA Partition ==
    ASSUME NEW bc, Sound(bc)
    PROVE  /\ \A i \in Nat : i < bc.main => \E f \in DOMAIN bc.functions : In(bc, f, i)
           /\ \A f, g \in DOMAIN bc.functions, i \in Nat : In(bc, f, i) /\ In(bc, g, i) => f = g
  <1>. DEFINE k == Cardinality(DOMAIN bc.functions)
              entry(f) == IF f = 0 THEN 0 ELSE bc.functions[f - 1].end
  <1>1. bc.main \in Nat /\ bc.functions \in [0..(k - 1) -> Function]
    BY DEF Sound, IsBytecode
  <1>2. /\ \A f \in 0..(k - 1) : bc.functions[f].entry = entry(f)
        /\ bc.main = entry(k)
    BY DEF Sound, FunctionContract, FunctionsOK
  <1>3. k \in Nat
    BY DEF Sound, IsBytecode
  <1>4. \A f \in 0..(k - 1) : Func(bc, f).entry \in Nat /\ Func(bc, f).end \in Nat
                              /\ Func(bc, f).entry = entry(f) /\ entry(f + 1) = Func(bc, f).end
                              /\ Func(bc, f).entry < Func(bc, f).end
    <2>1. ASSUME NEW f \in 0..(k - 1)
          PROVE  Func(bc, f).entry \in Nat /\ Func(bc, f).end \in Nat
                 /\ Func(bc, f).entry = entry(f) /\ entry(f + 1) = Func(bc, f).end
                 /\ Func(bc, f).entry < Func(bc, f).end
      <3>1. f + 1 # 0 /\ (f + 1) - 1 = f
        BY <1>3
      <3>2. Func(bc, f) \in Function /\ f \in DOMAIN bc.functions
        BY <1>1 DEF Func
      <3>3. Func(bc, f).entry = entry(f)
        BY <1>2 DEF Func
      <3>4. Func(bc, f).entry < Func(bc, f).end
        BY <3>2, FunctionScanned
      <3>5. entry(f + 1) = Func(bc, f).end
        BY <3>1 DEF Func
      <3>. QED  BY <3>2, <3>3, <3>4, <3>5 DEF Function
    <2>. QED  BY <2>1
  <1>5. DOMAIN bc.functions = 0..(k - 1)
    BY <1>1
  <1>6. entry(0) = 0
    OBVIOUS
  <1>. HIDE DEF k, entry
  <1>7. \A n \in Nat : n <= k =>
           /\ \A i \in Nat : i < entry(n) => \E f \in 0..(k - 1) : In(bc, f, i)
           /\ \A f \in 0..(k - 1) : f < n => Func(bc, f).end <= entry(n)
    <2>. DEFINE S == {n \in Nat : n <= k =>
                        /\ \A i \in Nat : i < entry(n) => \E f \in 0..(k - 1) : In(bc, f, i)
                        /\ \A f \in 0..(k - 1) : f < n => Func(bc, f).end <= entry(n)}
    <2>1. 0 \in S
      BY <1>3, <1>6
    <2>2. ASSUME NEW n \in Nat, n \in S PROVE n + 1 \in S
      <3>. SUFFICES ASSUME n + 1 <= k
                    PROVE  /\ \A i \in Nat : i < entry(n + 1) => \E f \in 0..(k - 1) : In(bc, f, i)
                           /\ \A f \in 0..(k - 1) : f < n + 1 => Func(bc, f).end <= entry(n + 1)
        OBVIOUS
      <3>1. n \in 0..(k - 1) /\ n <= k
        BY <1>3
      <3>2. /\ \A i \in Nat : i < entry(n) => \E f \in 0..(k - 1) : In(bc, f, i)
            /\ \A f \in 0..(k - 1) : f < n => Func(bc, f).end <= entry(n)
        BY <2>2, <3>1
      <3>3. /\ Func(bc, n).entry \in Nat /\ Func(bc, n).end \in Nat
            /\ Func(bc, n).entry = entry(n) /\ entry(n + 1) = Func(bc, n).end
            /\ Func(bc, n).entry < Func(bc, n).end
        BY <1>4, <3>1
      <3>. HIDE DEF S
      <3>4. ASSUME NEW i \in Nat, i < entry(n + 1) PROVE \E f \in 0..(k - 1) : In(bc, f, i)
        <4>1. i < entry(n) \/ In(bc, n, i)
          BY <3>3, <3>4 DEF In
        <4>. QED  BY <3>1, <3>2, <4>1
      <3>5. ASSUME NEW f \in 0..(k - 1), f < n + 1 PROVE Func(bc, f).end <= entry(n + 1)
        <4>1. f = n \/ f < n
          BY <3>5
        <4>2. Func(bc, f).end \in Nat
          BY <1>4
        <4>. QED  BY <3>2, <3>3, <4>1, <4>2
      <3>. QED  BY <3>4, <3>5
    <2>3. \A n \in Nat : n \in S
      <3>. HIDE DEF S
      <3>. QED  BY <2>1, <2>2, SetInduction
    <2>. QED  BY <2>3
  <1>8. \A i \in Nat : i < bc.main => \E f \in DOMAIN bc.functions : In(bc, f, i)
    BY <1>2, <1>3, <1>5, <1>7
  <1>9. ASSUME NEW f \in 0..(k - 1), NEW g \in 0..(k - 1), f < g PROVE Func(bc, f).end <= Func(bc, g).entry
    <2>1. g \in Nat /\ g <= k
      BY <1>3
    <2>2. Func(bc, f).end <= entry(g)
      BY <1>7, <1>9, <2>1
    <2>. QED  BY <1>4, <2>2
  <1>10. ASSUME NEW f \in 0..(k - 1), NEW g \in 0..(k - 1), NEW i \in Nat,
                In(bc, f, i), In(bc, g, i)
         PROVE  f = g
    <2>1. Func(bc, f).entry \in Nat /\ Func(bc, f).end \in Nat /\ Func(bc, g).entry \in Nat /\ Func(bc, g).end \in Nat
      BY <1>4
    <2>2. ~ (f < g)
      <3>. SUFFICES ASSUME f < g PROVE FALSE
        OBVIOUS
      <3>1. Func(bc, f).end <= Func(bc, g).entry
        BY <1>9
      <3>. QED  BY <1>10, <2>1, <3>1 DEF In
    <2>3. ~ (g < f)
      <3>. SUFFICES ASSUME g < f PROVE FALSE
        OBVIOUS
      <3>1. Func(bc, g).end <= Func(bc, f).entry
        BY <1>9
      <3>. QED  BY <1>10, <2>1, <3>1 DEF In
    <2>. QED  BY <1>3, <2>2, <2>3
  <1>. QED  BY <1>5, <1>8, <1>10

-----------------------------------------------------------------------------
(* The cost of the code *)

\* Every function has a height above the functions it calls.
LEMMA Heights ==
    ASSUME NEW bc, Sound(bc)
    PROVE  \E height \in [DOMAIN bc.functions -> 1..MaxCallDepth] :
              \A f, g \in DOMAIN bc.functions : g \in Calls(bc, f) => height[g] < height[f]
  <1>. DEFINE D == DOMAIN bc.functions
              C == CallChains(bc)
              M == MaxCallDepth
              Highest(f, n) == f \in C[n] /\ \A m \in 1..M : f \in C[m] => m <= n
  <1>1. M \in Nat \ {0}
    BY LimitsAssumption
  <1>2. C[1] = D /\ \A m \in 1..M, f \in D : Calls(bc, f) \cap C[m] # {} => f \in C[m + 1]
    BY ChainsGrow
  <1>3. C[M + 1] = {}
    BY DEF Sound, FunctionContract, DepthOK
  <1>. HIDE DEF C, M
  <1>4. ASSUME NEW f \in D PROVE \E n \in 1..M : Highest(f, n)
    <2>. DEFINE S == {x \in Nat : x \in 0..M /\ M - x \in 1..M /\ f \in C[M - x]}
    <2>1. M - 1 \in S
      <3>1. M - (M - 1) = 1 /\ M - 1 \in 0..M /\ 1 \in 1..M
        BY <1>1
      <3>. QED  BY <1>2, <3>1
    <2>2. PICK x \in S : \A y \in S : x <= y
      <3>1. S \in SUBSET Nat /\ S # {}
        BY <2>1
      <3>. HIDE DEF S
      <3>. QED  BY <3>1, LeastNatural
    <2>3. ASSUME NEW m \in 1..M, f \in C[m] PROVE m <= M - x
      <3>1. M - m \in Nat /\ M - m \in 0..M /\ M - (M - m) = m
        BY <1>1
      <3>2. M - m \in S
        BY <2>3, <3>1
      <3>3. x <= M - m
        BY <2>2, <3>2
      <3>. QED  BY <1>1, <2>2, <3>3
    <2>. QED  BY <2>2, <2>3
  <1>. DEFINE height == [f \in D |-> CHOOSE n \in 1..M : Highest(f, n)]
  <1>5. \A f \in D : height[f] \in 1..M /\ Highest(f, height[f])
    BY <1>4
  <1>6. height \in [D -> 1..M]
    BY <1>5
  <1>. HIDE DEF height
  <1>7. ASSUME NEW f \in D, NEW g \in D, g \in Calls(bc, f) PROVE height[g] < height[f]
    <2>. DEFINE n == height[g]
    <2>1. n \in 1..M /\ g \in C[n]
      BY <1>5
    <2>2. f \in C[n + 1]
      BY <1>2, <1>7, <2>1
    <2>3. n + 1 \in 1..M
      <3>1. n + 1 # M + 1
        BY <1>3, <2>2
      <3>. QED  BY <1>1, <2>1, <3>1
    <2>4. n + 1 <= height[f]
      BY <1>5, <2>2, <2>3
    <2>. QED  BY <1>1, <1>5, <2>1, <2>4
  <1>. QED  BY <1>6, <1>7 DEF M

\* The greater of two numbers.
LEMMA MaxOfTwo ==
    ASSUME NEW x \in Int, NEW y \in Int
    PROVE  /\ Max({x, y}) \in {x, y}
           /\ Max({x, y}) >= x /\ Max({x, y}) >= y
  <1>1. \E m \in {x, y} : \A n \in {x, y} : m >= n
    <2>1. x >= y \/ y >= x
      OBVIOUS
    <2>. QED  BY <2>1
  <1>. QED  BY <1>1 DEF Max

\* What CostFrom says of one place, given what it says of the others.
CostLine(bc, Cost, i) ==
    LET ins == bc.code[i]
    IN  CASE ins.op = "RETURN" -> 1
          [] ins.op = "REPEAT_ENTER" -> RepeatCost(ins, i) + Cost[ins.imm]
          [] ins.op = "JUMP_IF_FALSE" ->
               1 + IfCost(bc, i, IF BothReturn(bc, i) THEN 0
                                 ELSE Cost[bc.code[ins.imm - 1].imm])
          [] ins.op = "CALL" -> 1 + Cost[bc.functions[ins.imm].entry] + Cost[i + 1]
          [] OTHER -> 1 + Cost[i + 1]

\* The places whose costs a place needs, and that its own is a natural number.
LEMMA CostLineType ==
    ASSUME NEW bc, Sound(bc), NEW f \in DOMAIN bc.functions, NEW i \in Nat, In(bc, f, i),
           NEW Cost \in [0..(bc.main - 1) -> Nat]
    PROVE  CostLine(bc, Cost, i) \in Nat
  <1>. DEFINE fn == Func(bc, f)
              ins == bc.code[i]
              to == ins.imm
              join == bc.code[to - 1].imm
              next == bc.functions[to].entry
  <1>1. /\ fn \in Function /\ fn.end <= bc.main /\ fn.entry \in Nat /\ fn.end \in Nat
        /\ FormedFrom(bc, fn, fn.entry) /\ fn.end <= Size(bc)
    BY FunctionScanned DEF Function
  <1>2. i < fn.end /\ fn.entry <= i
    BY DEF In
  <1>3. bc.main \in Nat /\ Size(bc) \in Nat /\ bc.code \in [0..(Size(bc) - 1) -> Instruction]
    BY DEF Sound, IsBytecode
  <1>4. LineForm(bc, fn, i)
    BY <1>1, <1>2 DEF FormedFrom
  <1>. HIDE DEF fn
  <1>5. ins \in Instruction
    BY <1>1, <1>2, <1>3
  <1>6. to \in Nat /\ ins.a \in Nat
    BY <1>5 DEF Instruction
  <1>7. CASE ins.op = "RETURN"
    BY <1>7 DEF CostLine
  <1>8. CASE ins.op = "REPEAT_ENTER"
    <2>1. to \in (i + 1)..(fn.end - 1)
      BY <1>4, <1>8 DEF LineForm
    <2>2. CostLine(bc, Cost, i) = ins.a * (to - i) + Cost[to]
      BY <1>8 DEF CostLine, RepeatCost
    <2>. HIDE DEF to, ins
    <2>3. Cost[to] \in Nat /\ to - i \in Nat
      BY <1>1, <1>2, <1>3, <1>6, <2>1
    <2>4. ins.a * (to - i) \in Nat
      BY <1>6, <2>3
    <2>. QED  BY <2>2, <2>3, <2>4
  <1>9. CASE ins.op = "JUMP_IF_FALSE"
    <2>1. i + 1 < to /\ to <= join /\ join < fn.end /\ join \in Nat
      BY <1>4, <1>9 DEF LineForm
    <2>. DEFINE R == IF BothReturn(bc, i) THEN 0 ELSE Cost[join]
                x == to - i - 2 + IF Returns(bc, i + 1, to - 1) THEN 0 ELSE 1 + R
                y == join - to + IF Returns(bc, to, join) THEN 0 ELSE R
    <2>2. CostLine(bc, Cost, i) = 1 + Max({x, y})
      BY <1>9 DEF CostLine, IfCost
    <2>. HIDE DEF to, join, ins
    <2>3. R \in Nat
      BY <1>1, <1>3, <2>1
    <2>4. to - i - 2 \in Nat /\ join - to \in Nat
      BY <1>6, <2>1
    <2>. HIDE DEF R
    <2>5. x \in Nat /\ y \in Nat
      BY <2>3, <2>4
    <2>. HIDE DEF x, y
    <2>. DEFINE m == Max({x, y})
    <2>6. m \in {x, y}
      <3>1. x \in Int /\ y \in Int
        BY <2>5
      <3>. QED  BY <3>1, MaxOfTwo, Zenon
    <2>7. CostLine(bc, Cost, i) = 1 + m
      BY <2>2
    <2>. HIDE DEF m
    <2>8. m \in Nat
      BY <2>5, <2>6
    <2>. QED  BY <2>7, <2>8
  <1>10. CASE ins.op = "CALL"
    <2>1. to \in DOMAIN bc.functions /\ i + 1 < fn.end
      BY <1>4, <1>10 DEF LineForm
    <2>2. /\ next \in Nat /\ next < bc.functions[to].end
          /\ bc.functions[to].end <= bc.main /\ bc.functions[to].end \in Nat
      BY <2>1, FunctionScanned DEF Func, Function
    <2>3. CostLine(bc, Cost, i) = 1 + Cost[next] + Cost[i + 1]
      BY <1>10 DEF CostLine
    <2>. HIDE DEF to, join, ins, next
    <2>4. next \in 0..(bc.main - 1)
      <3>. DEFINE end == bc.functions[to].end
      <3>1. end \in Nat /\ end <= bc.main /\ next < end /\ bc.main \in Nat
        BY <1>3, <2>2
      <3>. HIDE DEF end
      <3>. QED  BY <2>2, <3>1
    <2>5. i + 1 \in 0..(bc.main - 1)
      BY <1>1, <1>3, <2>1
    <2>. QED  BY <2>3, <2>4, <2>5
  <1>11. CASE ins.op \notin {"RETURN", "REPEAT_ENTER", "JUMP_IF_FALSE", "CALL"}
    <2>1. i + 1 < fn.end
      BY <1>4, <1>11 DEF LineForm
    <2>2. CostLine(bc, Cost, i) = 1 + Cost[i + 1]
      BY <1>11 DEF CostLine
    <2>3. i + 1 \in 0..(bc.main - 1)
      BY <1>1, <1>3, <2>1
    <2>. QED  BY <2>2, <2>3
  <1>. QED  BY <1>7, <1>8, <1>9, <1>10, <1>11

\* The cost of a place depends on what follows it in its function, and on the
\* functions called there.
LEMMA CostLineLocal ==
    ASSUME NEW bc, Sound(bc), NEW f \in DOMAIN bc.functions, NEW i \in Nat, In(bc, f, i),
           NEW g, NEW h, \A j \in Nat : i < j /\ In(bc, f, j) => g[j] = h[j],
           \A e \in DOMAIN bc.functions : e \in Calls(bc, f) =>
              g[bc.functions[e].entry] = h[bc.functions[e].entry]
    PROVE  CostLine(bc, g, i) = CostLine(bc, h, i)
  <1>. DEFINE fn == Func(bc, f)
              ins == bc.code[i]
              to == ins.imm
              join == bc.code[to - 1].imm
  <1>1. /\ fn.entry \in Nat /\ fn.end \in Nat
        /\ FormedFrom(bc, fn, fn.entry) /\ fn.end <= Size(bc)
    BY FunctionScanned DEF Function
  <1>2. i < fn.end /\ fn.entry <= i
    BY DEF In
  <1>3. LineForm(bc, fn, i)
    BY <1>1, <1>2 DEF FormedFrom
  <1>4. \A j \in Nat : i < j /\ j < fn.end => g[j] = h[j]
    <2>1. \A j \in Nat : i < j /\ j < fn.end => In(bc, f, j)
      BY <1>1, <1>2 DEF In
    <2>. QED  BY <2>1
  <1>5. i + 1 < fn.end => g[i + 1] = h[i + 1]
    BY <1>1, <1>4
  <1>6. ins.op = "CALL" => to \in Calls(bc, f)
    <2>1. i \in bc.functions[f].entry..(bc.functions[f].end - 1)
      BY <1>1, <1>2 DEF Func
    <2>. QED  BY <2>1 DEF Calls
  <1>7. ins.op = "REPEAT_ENTER" => g[to] = h[to]
    BY <1>1, <1>3, <1>4 DEF LineForm
  <1>8. ins.op = "JUMP_IF_FALSE" => g[join] = h[join]
    <2>. SUFFICES ASSUME ins.op = "JUMP_IF_FALSE" PROVE g[join] = h[join]
      OBVIOUS
    <2>1. i + 1 < to /\ to <= join /\ join < fn.end /\ join \in Nat
      BY <1>3 DEF LineForm
    <2>2. to \in Nat
      <3>1. ins \in Instruction
        BY <1>1, <1>2 DEF Sound, IsBytecode
      <3>. QED  BY <3>1 DEF Instruction
    <2>. HIDE DEF to, join, fn
    <2>3. i < join
      BY <2>1, <2>2
    <2>. QED  BY <1>4, <2>1, <2>3
  <1>9. ins.op = "CALL" =>
          g[bc.functions[to].entry] = h[bc.functions[to].entry] /\ g[i + 1] = h[i + 1]
    BY <1>3, <1>5, <1>6 DEF LineForm
  <1>10. ins.op \notin {"RETURN", "REPEAT_ENTER", "JUMP_IF_FALSE", "CALL"} =>
           g[i + 1] = h[i + 1]
    BY <1>3, <1>5 DEF LineForm
  <1>11. CASE ins.op \in {"RETURN", "REPEAT_ENTER", "JUMP_IF_FALSE", "CALL"}
    BY <1>7, <1>8, <1>9, <1>11 DEF CostLine
  <1>12. CASE ins.op \notin {"RETURN", "REPEAT_ENTER", "JUMP_IF_FALSE", "CALL"}
    BY <1>10, <1>12 DEF CostLine
  <1>. QED  BY <1>11, <1>12

\* Places ordered by the height of their function, then backwards.
LEMMA Lexicographic ==
    ASSUME NEW w \in Nat, NEW k \in Nat, NEW h \in Nat, k < h,
           NEW x \in 0..w, NEW y \in Nat, 0 < y
    PROVE  k * (w + 1) + x < h * (w + 1) + y
  <1>. DEFINE d == h - k - 1
              p == k * (w + 1)
              q == d * (w + 1)
  <1>1. d \in Nat
    OBVIOUS
  <1>2. h * (w + 1) = p + q + (w + 1)
    OBVIOUS
  <1>3. p \in Nat /\ q \in Nat
    <2>. HIDE DEF d
    <2>. QED  BY <1>1
  <1>. HIDE DEF p, q, d
  <1>. QED  BY <1>2, <1>3 DEF p

\* Costs depend on places of lower rank only.
LEMMA Ranked ==
    ASSUME NEW bc, Sound(bc)
    PROVE  \E N \in Nat : \E rank \in [0..(bc.main - 1) -> 0..N] :
              \A f \in DOMAIN bc.functions, i \in Nat : In(bc, f, i) =>
                 /\ i \in 0..(bc.main - 1)
                 /\ \A j \in Nat : i < j /\ In(bc, f, j) => rank[j] < rank[i]
                 /\ \A e \in DOMAIN bc.functions : e \in Calls(bc, f) =>
                      rank[bc.functions[e].entry] < rank[i]
  <1>. DEFINE D == 0..(bc.main - 1)
              F == DOMAIN bc.functions
              w == bc.main
              M == MaxCallDepth
              N == (M + 1) * (w + 1)
  <1>1. w \in Nat /\ M \in Nat
    BY LimitsAssumption DEF Sound, IsBytecode
  <1>2. N \in Nat
    BY <1>1
  <1>3. PICK height \in [F -> 1..M] :
          \A f, g \in F : g \in Calls(bc, f) => height[g] < height[f]
    BY Heights
  <1>4. \A i \in D : \E f \in F : In(bc, f, i)
    BY <1>1, Partition
  <1>5. \A f, g \in F, i \in Nat : In(bc, f, i) /\ In(bc, g, i) => f = g
    BY Partition
  <1>. DEFINE owner == [i \in D |-> CHOOSE f \in F : In(bc, f, i)]
  <1>6. \A i \in D : owner[i] \in F /\ In(bc, owner[i], i)
    BY <1>4
  <1>7. \A f \in F, i \in Nat : In(bc, f, i) => i \in D
    <2>. SUFFICES ASSUME NEW f \in F, NEW i \in Nat, In(bc, f, i) PROVE i \in D
      OBVIOUS
    <2>1. Func(bc, f).end <= bc.main /\ Func(bc, f).end \in Nat
      BY FunctionScanned DEF Function
    <2>. QED  BY <1>1, <2>1 DEF In
  <1>. HIDE DEF owner
  <1>8. \A f \in F, i \in Nat : In(bc, f, i) => owner[i] = f
    <2>. SUFFICES ASSUME NEW f \in F, NEW i \in Nat, In(bc, f, i) PROVE owner[i] = f
      OBVIOUS
    <2>1. i \in D
      BY <1>7
    <2>2. owner[i] \in F /\ In(bc, owner[i], i)
      BY <1>6, <2>1
    <2>. QED  BY <1>5, <2>2
  <1>. DEFINE r(i) == height[owner[i]] * (w + 1) + (w - i)
              rank == [i \in D |-> r(i)]
  <1>9. ASSUME NEW i \in D PROVE r(i) \in 0..N
    <2>1. height[owner[i]] \in 1..M
      BY <1>3, <1>6
    <2>. DEFINE h == height[owner[i]]
    <2>2. h \in Nat /\ h < M + 1 /\ M + 1 \in Nat /\ w - i \in 0..w
      BY <1>1, <2>1
    <2>. HIDE DEF M, h
    <2>3. h * (w + 1) + (w - i) < (M + 1) * (w + 1) + 1
      BY <1>1, <2>2, Lexicographic
    <2>4. h * (w + 1) \in Nat
      BY <1>1, <2>2
    <2>. DEFINE p == h * (w + 1)
                n == (M + 1) * (w + 1)
    <2>5. p \in Nat /\ n \in Nat /\ p + (w - i) < n + 1
      BY <1>2, <2>3, <2>4
    <2>. HIDE DEF p, n
    <2>6. p + (w - i) \in 0..n
      BY <1>1, <2>2, <2>5
    <2>. QED  BY <2>6 DEF p, n, h
  <1>10. rank \in [D -> 0..N]
    <2>. HIDE DEF r, N, D
    <2>. QED  BY <1>9
  <1>11. \A i \in D : rank[i] = r(i)
    OBVIOUS
  <1>. HIDE DEF rank
  <1>12. ASSUME NEW f \in F, NEW i \in Nat, In(bc, f, i),
                NEW j \in Nat, i < j, In(bc, f, j)
         PROVE  rank[j] < rank[i]
    <2>1. i \in D /\ j \in D /\ owner[i] = f /\ owner[j] = f
      BY <1>7, <1>8, <1>12
    <2>2. rank[j] = height[f] * (w + 1) + (w - j) /\ rank[i] = height[f] * (w + 1) + (w - i)
      BY <1>11, <2>1
    <2>. DEFINE p == height[f] * (w + 1)
    <2>3. p \in Nat
      BY <1>1, <1>3
    <2>4. rank[j] = p + (w - j) /\ rank[i] = p + (w - i)
      BY <2>2
    <2>. HIDE DEF p
    <2>. QED  BY <1>1, <1>12, <2>3, <2>4
  <1>13. ASSUME NEW f \in F, NEW i \in Nat, In(bc, f, i), NEW e \in F, e \in Calls(bc, f)
         PROVE  rank[bc.functions[e].entry] < rank[i]
    <2>. DEFINE j == bc.functions[e].entry
    <2>1. j \in Nat /\ In(bc, e, j)
      BY FunctionScanned DEF Func, Function, In
    <2>. HIDE DEF j
    <2>2. i \in D /\ j \in D /\ owner[i] = f /\ owner[j] = e
      BY <1>7, <1>8, <1>13, <2>1
    <2>3. rank[j] = height[e] * (w + 1) + (w - j) /\ rank[i] = height[f] * (w + 1) + (w - i)
      BY <1>11, <2>2
    <2>4. height[e] < height[f] /\ height[e] \in Nat /\ height[f] \in Nat
      BY <1>3, <1>13
    <2>5. w - j \in 0..w /\ w - i \in Nat /\ 0 < w - i
      BY <1>1, <2>2
    <2>6. height[e] * (w + 1) + (w - j) < height[f] * (w + 1) + (w - i)
      BY <1>1, <2>4, <2>5, Lexicographic
    <2>. QED  BY <2>3, <2>6 DEF j
  <1>. HIDE DEF D, N, r
  <1>14. \A f \in F, i \in Nat : In(bc, f, i) =>
            /\ i \in D
            /\ \A j \in Nat : i < j /\ In(bc, f, j) => rank[j] < rank[i]
            /\ \A e \in F : e \in Calls(bc, f) => rank[bc.functions[e].entry] < rank[i]
    BY <1>7, <1>12, <1>13
  <1>. QED  BY <1>2, <1>10, <1>14 DEF D

\* CostFrom solves its equations in the natural numbers.
LEMMA CostSolves ==
    ASSUME NEW bc, Sound(bc)
    PROVE  /\ CostFrom(bc) \in [0..(bc.main - 1) -> Nat]
           /\ \A i \in 0..(bc.main - 1) : CostFrom(bc)[i] = CostLine(bc, CostFrom(bc), i)
  <1>. DEFINE D == 0..(bc.main - 1)
              V == Nat
              F == [h \in [D -> V] |-> [i \in D |-> CostLine(bc, h, i)]]
              Costs(h) == [i \in D |-> CostLine(bc, h, i)]
  <1>0. PICK N \in Nat : \E rank \in [D -> 0..N] :
          \A f \in DOMAIN bc.functions, i \in Nat : In(bc, f, i) =>
             /\ i \in D
             /\ \A j \in Nat : i < j /\ In(bc, f, j) => rank[j] < rank[i]
             /\ \A e \in DOMAIN bc.functions : e \in Calls(bc, f) =>
                  rank[bc.functions[e].entry] < rank[i]
    BY Ranked
  <1>1. PICK rank \in [D -> 0..N] :
          \A f \in DOMAIN bc.functions, i \in Nat : In(bc, f, i) =>
             /\ i \in D
             /\ \A j \in Nat : i < j /\ In(bc, f, j) => rank[j] < rank[i]
             /\ \A e \in DOMAIN bc.functions : e \in Calls(bc, f) =>
                  rank[bc.functions[e].entry] < rank[i]
    BY <1>0
  <1>2. \A i \in D : \E f \in DOMAIN bc.functions : In(bc, f, i)
    <2>1. bc.main \in Nat
      BY DEF Sound, IsBytecode
    <2>. QED  BY <2>1, Partition
  <1>3. ASSUME NEW h \in [D -> V], NEW i \in D PROVE CostLine(bc, h, i) \in V
    BY <1>2, CostLineType
  <1>4. F \in [[D -> V] -> [D -> V]]
    <2>. HIDE DEF D, V
    <2>. QED  BY <1>3
  <1>5. ASSUME NEW g \in [D -> V], NEW h \in [D -> V], NEW i \in D,
               \A j \in D : rank[j] < rank[i] => g[j] = h[j]
        PROVE  CostLine(bc, g, i) = CostLine(bc, h, i)
    <2>1. PICK f \in DOMAIN bc.functions : In(bc, f, i)
      BY <1>2
    <2>2. \A j \in Nat : i < j /\ In(bc, f, j) => g[j] = h[j]
      <3>1. \A j \in Nat : In(bc, f, j) => j \in D
        BY <1>1
      <3>. HIDE DEF D
      <3>2. i \in Nat
        BY DEF D
      <3>. QED  BY <1>1, <1>5, <2>1, <3>1, <3>2
    <2>3. \A e \in DOMAIN bc.functions : e \in Calls(bc, f) =>
             g[bc.functions[e].entry] = h[bc.functions[e].entry]
      <3>1. \A e \in DOMAIN bc.functions : bc.functions[e].entry \in D
        <4>. SUFFICES ASSUME NEW e \in DOMAIN bc.functions PROVE bc.functions[e].entry \in D
          OBVIOUS
        <4>. DEFINE j == bc.functions[e].entry
        <4>1. j \in Nat /\ In(bc, e, j)
          BY FunctionScanned DEF Func, Function, In
        <4>. QED  BY <1>1, <4>1
      <3>. HIDE DEF D
      <3>2. i \in Nat
        BY DEF D
      <3>. QED  BY <1>1, <1>5, <2>1, <3>1, <3>2
    <2>. HIDE DEF V
    <2>4. i \in Nat
      OBVIOUS
    <2>. QED  BY <2>1, <2>2, <2>3, <2>4, CostLineLocal
  <1>6. DependsDownwards(D, V, N, rank, F)
    <2>1. \A g, h \in [D -> V] : \A i \in D :
             (\A j \in D : rank[j] < rank[i] => g[j] = h[j]) => F[g][i] = F[h][i]
      <3>. HIDE DEF D, V
      <3>. QED  BY <1>5
    <2>. HIDE DEF D, F
    <2>. QED  BY <1>1, <1>4, <2>1 DEF DependsDownwards
  <1>7. \E h \in [D -> V] : h = F[h]
    <2>. HIDE DEF D, V, F
    <2>. QED  BY ONLY <1>6, FixedPoint
  <1>8. \E h : h = Costs(h)
    BY <1>7
  <1>9. CostFrom(bc) = CHOOSE h : h = Costs(h)
    BY DEF CostFrom, CostLine
  <1>10. CostFrom(bc) = Costs(CostFrom(bc))
    <2>. HIDE DEF Costs
    <2>. QED  BY <1>8, <1>9
  <1>. DEFINE C == CostFrom(bc)
              S == {i \in D : C[i] \in Nat}
  <1>. HIDE DEF C
  <1>11. C = Costs(C)
    BY <1>10 DEF C
  <1>12. \A i \in D : C[i] = CostLine(bc, C, i)
    <2>. HIDE DEF D
    <2>. QED  BY <1>11
  <1>13. ASSUME NEW i \in D, \A j \in D : rank[j] < rank[i] => j \in S PROVE i \in S
    <2>. DEFINE h == [j \in D |-> IF C[j] \in Nat THEN C[j] ELSE 0]
    <2>1. h \in [D -> V]
      OBVIOUS
    <2>2. PICK f \in DOMAIN bc.functions : In(bc, f, i)
      BY <1>2
    <2>3. \A j \in D : rank[j] < rank[i] => C[j] = h[j]
      BY <1>13
    <2>4. \A j \in Nat : i < j /\ In(bc, f, j) => C[j] = h[j]
      <3>1. \A j \in Nat : In(bc, f, j) => j \in D
        BY <1>1
      <3>2. i \in Nat
        OBVIOUS
      <3>. HIDE DEF D, h, S
      <3>. QED  BY <1>1, <2>2, <2>3, <3>1, <3>2
    <2>5. \A e \in DOMAIN bc.functions : e \in Calls(bc, f) =>
             C[bc.functions[e].entry] = h[bc.functions[e].entry]
      <3>1. \A e \in DOMAIN bc.functions : bc.functions[e].entry \in D
        <4>. SUFFICES ASSUME NEW e \in DOMAIN bc.functions PROVE bc.functions[e].entry \in D
          OBVIOUS
        <4>. DEFINE j == bc.functions[e].entry
        <4>1. j \in Nat /\ In(bc, e, j)
          BY FunctionScanned DEF Func, Function, In
        <4>. QED  BY <1>1, <4>1
      <3>2. i \in Nat
        OBVIOUS
      <3>. HIDE DEF D, h, S
      <3>. QED  BY <1>1, <2>2, <2>3, <3>1, <3>2
    <2>6. i \in Nat
      OBVIOUS
    <2>. HIDE DEF h, S, D
    <2>7. CostLine(bc, C, i) = CostLine(bc, h, i)
      BY <2>2, <2>4, <2>5, <2>6, CostLineLocal
    <2>8. C[i] \in Nat
      BY <1>3, <1>12, <2>1, <2>7
    <2>. QED  BY <2>8 DEF S
  <1>14. \A i \in D : i \in S
    <2>. HIDE DEF D, S
    <2>. QED  BY <1>1, <1>13, RankInduction
  <1>15. C \in [D -> Nat]
    <2>1. \A i \in D : C[i] \in Nat
      BY <1>14
    <2>2. DOMAIN C = D /\ C = [i \in D |-> C[i]]
      <3>. HIDE DEF D
      <3>. QED  BY <1>11
    <2>. HIDE DEF D, S
    <2>. QED  BY <2>1, <2>2
  <1>. HIDE DEF S
  <1>. QED  BY <1>12, <1>15 DEF C

-----------------------------------------------------------------------------
(* Main *)

\* The validator has come to i in main, knowing s, and goes on.
MainScanned(bc, i, s) ==
    bc.main <= i /\ <<i, s>> \in MainPlaces(bc) /\ MainScan(bc)[<<i, s>>]

\* What the validator has seen of a place in main that passes.
LEMMA MainCases ==
    ASSUME NEW bc, IsBytecode(bc), NEW i, NEW s, MainScanned(bc, i, s)
    PROVE  LET ins == bc.code[i]
           IN  /\ i \in Nat /\ bc.main <= i /\ i + 1 < Size(bc) /\ i \in Pcs(bc)
               /\ s \in States(bc.scalars, {{}}) /\ ins \in Instruction
               /\ ins.op = "U32_EMIT" => Reads(ins, {"a"}, s) /\ i + 1 = Size(bc) - 1
               /\ ins.op # "U32_EMIT" => LineOK(bc, ins, s) /\ MainScanned(bc, i + 1, After(ins, s))
  <1>. DEFINE ins == bc.code[i]
              at == <<i, s>>
              Scan == MainScan(bc)
              next == <<i + 1, After(ins, s)>>
  <1>1. /\ Size(bc) \in Nat /\ Pcs(bc) = 0..(Size(bc) - 1) /\ bc.scalars \in Nat
        /\ bc.code \in [0..(Size(bc) - 1) -> Instruction] /\ bc.main \in Nat
    BY DEF IsBytecode, Pcs
  <1>2. bc.main <= i /\ at \in MainPlaces(bc) /\ Scan[at]
    BY DEF MainScanned
  <1>3. MainLine(bc, Scan, at)
    <2>. HIDE DEF at
    <2>. QED  BY <1>2, MainScanSolves
  <1>4. i \in 0..(Size(bc) - 1) /\ s \in States(bc.scalars, {{}}) /\ ins \in Instruction
    BY <1>1, <1>2 DEF MainPlaces
  <1>. HIDE DEF Scan
  <1>5. /\ i < Size(bc) - 1
        /\ ins.op = "U32_EMIT" => Reads(ins, {"a"}, s) /\ i + 1 = Size(bc) - 1
        /\ ins.op # "U32_EMIT" => LineOK(bc, ins, s) /\ Scan[next]
    BY <1>3 DEF MainLine
  <1>6. ins.op # "U32_EMIT" => MainScanned(bc, i + 1, After(ins, s))
    <2>. SUFFICES ASSUME ins.op # "U32_EMIT" PROVE MainScanned(bc, i + 1, After(ins, s))
      OBVIOUS
    <2>1. After(ins, s) \in States(bc.scalars, {{}})
      BY <1>1, <1>4, <1>5, AfterMain
    <2>2. i + 1 \in 0..(Size(bc) - 1) /\ bc.main <= i + 1
      BY <1>1, <1>2, <1>4, <1>5
    <2>. QED  BY <1>1, <1>5, <2>1, <2>2 DEF MainScanned, MainPlaces, Scan
  <1>7. i \in Nat /\ bc.main <= i /\ i + 1 < Size(bc) /\ i \in Pcs(bc)
    BY <1>1, <1>2, <1>4, <1>5
  <1>. HIDE DEF ins
  <1>8. /\ ins.op = "U32_EMIT" => Reads(ins, {"a"}, s) /\ i + 1 = Size(bc) - 1
        /\ ins.op # "U32_EMIT" => LineOK(bc, ins, s) /\ MainScanned(bc, i + 1, After(ins, s))
    BY <1>5, <1>6
  <1>. QED  BY <1>4, <1>7, <1>8 DEF ins

\* What is known before main.
MainKnown(bc) == Known(bc.scalars, 0..(bc.inputs - 1), {})

\* Main passes from its first instruction on.
LEMMA MainEntry ==
    ASSUME NEW bc, Sound(bc)
    PROVE  /\ MainScanned(bc, bc.main, MainKnown(bc))
           /\ bc.code[Size(bc) - 1].op = "END"
           /\ bc.scalars \in 1..MaxScalars /\ bc.inputs <= bc.scalars
           /\ bc.main \in Nat /\ Size(bc) \in Nat /\ bc.main + 1 < Size(bc)
  <1>1. /\ Size(bc) \in Nat /\ Pcs(bc) = 0..(Size(bc) - 1) /\ bc.scalars \in Nat
        /\ bc.main \in Nat /\ bc.inputs \in Nat
    BY DEF Sound, IsBytecode, Pcs
  <1>2. /\ bc.scalars \in 1..MaxScalars /\ bc.main < Size(bc) - 1
        /\ bc.inputs > 0 => bc.inputs <= bc.scalars
        /\ MainOK(bc)
    BY DEF Sound, FunctionContract
  <1>3. bc.inputs <= bc.scalars
    BY <1>1, <1>2
  <1>4. 0..(bc.inputs - 1) \subseteq 0..(bc.scalars - 1)
    BY <1>1, <1>3
  <1>5. MainKnown(bc) \in States(bc.scalars, {{}})
    BY <1>4 DEF MainKnown, Known, States
  <1>6. bc.main \in Pcs(bc)
    BY <1>1, <1>2
  <1>. QED  BY <1>1, <1>2, <1>3, <1>5, <1>6 DEF MainScanned, MainPlaces, MainOK, MainKnown

\* The validator comes to every place of main but the last.
LEMMA MainReached ==
    ASSUME NEW bc, Sound(bc), NEW i \in Nat, bc.main <= i, i < Size(bc) - 1
    PROVE  \E s : MainScanned(bc, i, s)
  <1>. DEFINE last == Size(bc) - 1
              S == {n \in Nat : bc.main + n < last => \E s : MainScanned(bc, bc.main + n, s)}
  <1>1. bc.main \in Nat /\ Size(bc) \in Nat /\ MainScanned(bc, bc.main, MainKnown(bc))
    BY MainEntry
  <1>2. 0 \in S
    <2>1. bc.main + 0 = bc.main
      BY <1>1
    <2>. QED  BY <1>1, <2>1
  <1>3. ASSUME NEW n \in Nat, n \in S PROVE n + 1 \in S
    <2>. DEFINE j == bc.main + n
    <2>. SUFFICES ASSUME bc.main + (n + 1) < last PROVE \E s : MainScanned(bc, bc.main + (n + 1), s)
      OBVIOUS
    <2>1. j \in Nat /\ j < last /\ bc.main + (n + 1) = j + 1 /\ j + 1 < last
      BY <1>1
    <2>2. PICK s : MainScanned(bc, j, s)
      BY <1>3, <2>1
    <2>. HIDE DEF j
    <2>3. bc.code[j].op # "U32_EMIT"
      BY <2>1, <2>2, MainCases DEF Sound
    <2>4. MainScanned(bc, j + 1, After(bc.code[j], s))
      BY <2>2, <2>3, MainCases DEF Sound
    <2>. QED  BY <2>1, <2>4
  <1>4. \A n \in Nat : n \in S
    <2>. HIDE DEF S
    <2>. QED  BY <1>2, <1>3, SetInduction
  <1>5. i - bc.main \in Nat /\ bc.main + (i - bc.main) = i
    BY <1>1
  <1>6. i - bc.main \in S
    BY <1>4, <1>5
  <1>. QED  BY <1>5, <1>6

\* Every call of main is a call of a function.
LEMMA MainForm ==
    ASSUME NEW bc, Sound(bc), NEW i \in Nat, bc.main <= i, i < Size(bc),
           bc.code[i].op = "CALL"
    PROVE  bc.code[i].imm \in DOMAIN bc.functions
  <1>1. Size(bc) \in Nat /\ i # Size(bc) - 1
    BY MainEntry
  <1>2. i < Size(bc) - 1
    BY <1>1
  <1>3. PICK s : MainScanned(bc, i, s)
    BY <1>2, MainReached
  <1>4. LineOK(bc, bc.code[i], s)
    BY <1>3, MainCases DEF Sound
  <1>. QED  BY <1>4 DEF LineOK, ConstOK, BinaryOK, CallOK, Arith

\* What MainCost says of one place, given what it says of the next.
MainCostLine(bc, Cost, i) ==
    LET ins == bc.code[i]
    IN  IF i = Size(bc) THEN 0
        ELSE 1 + (IF ins.op = "CALL" THEN CostFrom(bc)[bc.functions[ins.imm].entry] ELSE 0)
               + Cost[i + 1]

\* MainCost solves its equations in the natural numbers.
LEMMA MainCostSolves ==
    ASSUME NEW bc, Sound(bc)
    PROVE  /\ MainCost(bc) \in [bc.main..Size(bc) -> Nat]
           /\ \A i \in bc.main..Size(bc) : MainCost(bc)[i] = MainCostLine(bc, MainCost(bc), i)
  <1>. DEFINE D == bc.main..Size(bc)
              V == Nat
              F == [h \in [D -> V] |-> [i \in D |-> MainCostLine(bc, h, i)]]
              Costs(h) == [i \in D |-> MainCostLine(bc, h, i)]
              N == Size(bc)
              rank == [i \in D |-> Size(bc) - i]
  <1>1. bc.main \in Nat /\ Size(bc) \in Nat
    BY MainEntry
  <1>2. rank \in [D -> 0..N]
    BY <1>1
  <1>3. ASSUME NEW i \in D, i # Size(bc)
        PROVE  i \in Nat /\ i + 1 \in D /\ rank[i + 1] < rank[i]
    <2>1. i \in Nat /\ i + 1 \in D
      BY <1>1, <1>3
    <2>2. rank[i + 1] = Size(bc) - (i + 1) /\ rank[i] = Size(bc) - i
      BY <2>1
    <2>. HIDE DEF rank
    <2>. QED  BY <1>1, <2>1, <2>2
  <1>4. ASSUME NEW i \in D, i # Size(bc), bc.code[i].op = "CALL"
        PROVE  CostFrom(bc)[bc.functions[bc.code[i].imm].entry] \in Nat
    <2>. DEFINE e == bc.code[i].imm
                j == bc.functions[e].entry
    <2>1. e \in DOMAIN bc.functions
      BY <1>1, <1>3, <1>4, MainForm
    <2>. HIDE DEF e
    <2>2. j \in Nat /\ j < bc.functions[e].end /\ bc.functions[e].end <= bc.main
          /\ bc.functions[e].end \in Nat
      BY <2>1, FunctionScanned DEF Func, Function
    <2>. HIDE DEF j
    <2>3. j \in 0..(bc.main - 1)
      BY <1>1, <2>2
    <2>4. CostFrom(bc)[j] \in Nat
      BY <2>3, CostSolves
    <2>. QED  BY <2>4 DEF j, e
  <1>5. ASSUME NEW h \in [D -> V], NEW i \in D PROVE MainCostLine(bc, h, i) \in V
    <2>. HIDE DEF rank
    <2>1. CASE i = Size(bc)
      BY <2>1 DEF MainCostLine
    <2>2. CASE i # Size(bc)
      <3>1. h[i + 1] \in Nat
        BY <1>3, <2>2
      <3>. DEFINE c == IF bc.code[i].op = "CALL"
                       THEN CostFrom(bc)[bc.functions[bc.code[i].imm].entry] ELSE 0
      <3>2. c \in Nat
        BY <1>4, <2>2
      <3>3. MainCostLine(bc, h, i) = 1 + c + h[i + 1]
        BY <2>2 DEF MainCostLine
      <3>. HIDE DEF c
      <3>. QED  BY <3>1, <3>2, <3>3
    <2>. QED  BY <2>1, <2>2
  <1>6. F \in [[D -> V] -> [D -> V]]
    <2>. HIDE DEF D, V
    <2>. QED  BY <1>5
  <1>7. ASSUME NEW g, NEW h, NEW i \in D, \A j \in D : rank[j] < rank[i] => g[j] = h[j]
        PROVE  MainCostLine(bc, g, i) = MainCostLine(bc, h, i)
    <2>1. i # Size(bc) => g[i + 1] = h[i + 1]
      <3>. HIDE DEF D, rank
      <3>. QED  BY <1>3, <1>7
    <2>. QED  BY <2>1 DEF MainCostLine
  <1>8. DependsDownwards(D, V, N, rank, F)
    <2>1. \A g, h \in [D -> V] : \A i \in D :
             (\A j \in D : rank[j] < rank[i] => g[j] = h[j]) => F[g][i] = F[h][i]
      <3>. HIDE DEF D, V, rank
      <3>. QED  BY <1>7
    <2>. HIDE DEF D, F, rank
    <2>. QED  BY <1>1, <1>2, <1>6, <2>1 DEF DependsDownwards
  <1>9. \E h \in [D -> V] : h = F[h]
    <2>. HIDE DEF D, V, F, rank, N
    <2>. QED  BY ONLY <1>8, FixedPoint
  <1>10. \E h : h = Costs(h)
    BY <1>9
  <1>11. MainCost(bc) = CHOOSE h : h = Costs(h)
    BY DEF MainCost, MainCostLine
  <1>12. MainCost(bc) = Costs(MainCost(bc))
    <2>. HIDE DEF Costs
    <2>. QED  BY <1>10, <1>11
  <1>. DEFINE C == MainCost(bc)
              S == {i \in D : C[i] \in Nat}
  <1>. HIDE DEF C
  <1>13. C = Costs(C)
    BY <1>12 DEF C
  <1>14. \A i \in D : C[i] = MainCostLine(bc, C, i)
    <2>. HIDE DEF D
    <2>. QED  BY <1>13
  <1>15. ASSUME NEW i \in D, \A j \in D : rank[j] < rank[i] => j \in S PROVE i \in S
    <2>. DEFINE h == [j \in D |-> IF C[j] \in Nat THEN C[j] ELSE 0]
    <2>1. h \in [D -> V]
      OBVIOUS
    <2>2. \A j \in D : rank[j] < rank[i] => C[j] = h[j]
      BY <1>15
    <2>. HIDE DEF D, h, rank
    <2>3. MainCostLine(bc, C, i) = MainCostLine(bc, h, i)
      BY <1>7, <2>2
    <2>4. C[i] \in Nat
      BY <1>5, <1>14, <2>1, <2>3
    <2>. QED  BY <2>4
  <1>16. \A i \in D : i \in S
    <2>. HIDE DEF D, S, rank
    <2>. QED  BY <1>1, <1>2, <1>15, RankInduction
  <1>17. C \in [D -> Nat]
    <2>1. \A i \in D : C[i] \in Nat
      BY <1>16
    <2>2. DOMAIN C = D /\ C = [i \in D |-> C[i]]
      <3>. HIDE DEF D
      <3>. QED  BY <1>13
    <2>. HIDE DEF D, S
    <2>. QED  BY <2>1, <2>2
  <1>. HIDE DEF S
  <1>. QED  BY <1>14, <1>17 DEF C

-----------------------------------------------------------------------------
(* Where a run is in the code of a function: what the validator knew there *)
(* (s), how often the repeat at e still runs (k), and how many             *)
(* instructions are left until the function returns (rest).                *)

\* At a place the scan has come to.
AtLine(bc, fn, s, k, i, rest) ==
    k = 0 /\ Scanned(bc, fn, i, s) /\ rest = CostFrom(bc)[i]

\* In the body of the repeat at e, or at its ENTER once more.
InRepeat(bc, fn, s, k, e, i, rest) ==
    LET ins == bc.code[e]
        to == ins.imm
    IN  /\ Scanned(bc, fn, e, s) /\ ins.op = "REPEAT_ENTER"
        /\ k \in 1..ins.a /\ i \in e..(to - 1)
        /\ rest = (to - i) + (k - 1) * (to - e) + CostFrom(bc)[to]

\* In a branch of the JUMP_IF_FALSE at j.
InBranch(bc, fn, s, k, j, i, rest) ==
    LET else == bc.code[j].imm
        join == bc.code[else - 1].imm
    IN  /\ k = 0 /\ Scanned(bc, fn, j, s) /\ bc.code[j].op = "JUMP_IF_FALSE"
        /\ \/ /\ i \in (j + 1)..(else - 2) /\ Returns(bc, j + 1, else - 1)
              /\ rest = else - i - 1
           \/ /\ i \in (j + 1)..(else - 1) /\ ~Returns(bc, j + 1, else - 1)
              /\ rest = else - i + CostFrom(bc)[join]
           \/ /\ i \in else..(join - 1) /\ Returns(bc, else, join)
              /\ rest = join - i
           \/ /\ i \in else..(join - 1) /\ ~Returns(bc, else, join)
              /\ rest = join - i + CostFrom(bc)[join]

InFunction(bc, fn, s, k, e, i, rest) ==
    \/ AtLine(bc, fn, s, k, i, rest)
    \/ InRepeat(bc, fn, s, k, e, i, rest)
    \/ \E j \in fn.entry..(fn.end - 1) : InBranch(bc, fn, s, k, j, i, rest)

-----------------------------------------------------------------------------
(* The invariant of a run *)

Now(f) == Known(f.n, f.init, f.bools)

InMain(bc, s, k, i, rest) ==
    /\ k = 0 /\ rest = MainCost(bc)[i]
    /\ IF emitted = {} THEN MainScanned(bc, i, s) ELSE i = Size(bc) - 1

\* The running frame is f, at i, with rest left to do in it.
Place(f, i, rest) ==
    IF depth = 0 THEN InMain(program, Now(f), f.repeat_remaining, i, rest)
    ELSE InFunction(program, Func(program, f.function_index), Now(f),
                    f.repeat_remaining, f.repeat_enter_pc, i, rest)

\* What is left to do in frame d, once the call it waits for has returned.
Owed(d) ==
    IF d = 0 THEN MainCost(program)[frames[d + 1].return_pc]
    ELSE CostFrom(program)[frames[d + 1].return_pc]

\* Frame d goes on, after the call it waits for, at a place the validator
\* has come to.
Waits(d) ==
    LET i == frames[d + 1].return_pc
        s == After(program.code[i - 1], Now(frames[d]))
    IN  /\ frames[d].repeat_remaining = 0
        /\ IF d = 0 THEN MainScanned(program, i, s)
           ELSE Scanned(program, Func(program, frames[d].function_index), i, s)

Bits(f) == \A a \in f.bools : f.values[a] <= 1

\* The functions on the stack begin a chain of calls.
Chained ==
    \A d \in 1..depth : \A k \in 1..(MaxCallDepth + 1) :
        frames[d].function_index \in CallChains(program)[k] /\ k + d <= MaxCallDepth + 2
            => CallChains(program)[k + d - 1] # {}

StackOK ==
    /\ \A d \in 1..depth : frames[d].function_index \in DOMAIN program.functions
    /\ \A d \in 0..depth : Bits(frames[d])
    /\ \A d \in 0..(depth - 1) : Waits(d)
    /\ Chained
    /\ depth > 0 => emitted = {}

Due(due) ==
    /\ due \in [0..depth -> Nat] /\ due[0] = 0
    /\ \A d \in 0..(depth - 1) : due[d + 1] = due[d] + Owed(d)

Spends(n) == n <= bound /\ (Straight(program) => n = bound)

Budget ==
    bound \in Nat /\ \E rest \in Nat : \E due \in [0..depth -> Nat] :
        Place(Top, pc, rest) /\ Due(due) /\ Spends(executed + rest + due[depth])

RunInv == status = "running" => StackOK /\ Budget

-----------------------------------------------------------------------------
(* Where each instruction leads *)

Others == Opcodes \ ({"RETURN", "REPEAT_ENTER", "REPEAT_NEXT", "JUMP_IF_FALSE", "JUMP"} \cup Set)

\* What the instruction at i is, and where it leads: every step makes what is
\* left one less, or less still where the code branches.
Leads(bc, fn, s, k, e, i, rest) ==
    LET ins == bc.code[i]
        C == CostFrom(bc)
    IN  /\ i \in Nat /\ fn.entry <= i /\ i < fn.end /\ s \in Slotted(fn.scalars)
        /\ ins \in Instruction /\ rest \in Nat /\ rest >= 1
        /\ ins.op = "RETURN" => k = 0 /\ ReturnOK(ins, s) /\ rest = 1
        /\ ins.op = "REPEAT_ENTER" =>
             /\ RepeatOK(bc, fn, i, s)
             /\ \/ k = 0 /\ InFunction(bc, fn, s, ins.a, i, i + 1, rest - 1)
                \/ k > 0 /\ e = i /\ InFunction(bc, fn, s, k, e, i + 1, rest - 1)
        /\ ins.op = "REPEAT_NEXT" =>
             /\ k > 0 /\ ins.imm = e /\ e \in fn.entry..(i - 1) /\ Blank(ins, {"a", "b", "flags"})
             /\ IF k > 1 THEN InFunction(bc, fn, s, k - 1, e, e, rest - 1)
                ELSE InFunction(bc, fn, s, 0, None, i + 1, rest - 1)
        /\ ins.op \in Set => SetOK(ins, s) /\ InFunction(bc, fn, s, k, e, i + 1, rest - 1)
        /\ ins.op = "JUMP_IF_FALSE" =>
             /\ k = 0 /\ IfOK(bc, fn, i, s)
             /\ \E n \in Nat : n + 1 <= rest /\ InFunction(bc, fn, s, k, e, i + 1, n)
             /\ \E n \in Nat : n + 1 <= rest /\ InFunction(bc, fn, s, k, e, ins.imm, n)
        /\ ins.op = "JUMP" =>
             /\ k = 0 /\ Blank(ins, {"a", "b", "flags"}) /\ ins.imm \in (i + 1)..(fn.end - 1)
             /\ InFunction(bc, fn, s, k, e, ins.imm, rest - 1)
        /\ ins.op \in Others =>
             /\ k = 0 /\ (LineOK(bc, ins, s) \/ BinaryOK(ins, Compare, s))
             /\ Scanned(bc, fn, i + 1, After(ins, s)) /\ C[i + 1] \in Nat
             /\ rest = 1 + (IF ins.op = "CALL" THEN C[bc.functions[ins.imm].entry] ELSE 0) + C[i + 1]

\* What a place the scan has come to costs.
LEMMA ScannedCost ==
    ASSUME NEW bc, Sound(bc), NEW f \in DOMAIN bc.functions, NEW i, NEW s,
           Scanned(bc, Func(bc, f), i, s)
    PROVE  /\ CostFrom(bc)[i] \in Nat
           /\ CostFrom(bc)[i] = CostLine(bc, CostFrom(bc), i)
           /\ Func(bc, f).entry \in Nat /\ Func(bc, f).end \in Nat
           /\ \A e \in DOMAIN bc.functions : CostFrom(bc)[bc.functions[e].entry] \in Nat
  <1>. DEFINE fn == Func(bc, f)
  <1>1. /\ fn \in Function /\ fn.end <= Size(bc) /\ fn.end <= bc.main
        /\ fn.entry \in Nat /\ fn.end \in Nat /\ bc.main \in Nat /\ IsBytecode(bc)
    BY FunctionScanned DEF Function, Sound, IsBytecode
  <1>2. i \in Nat /\ i < fn.end
    <2>. HIDE DEF fn
    <2>. QED  BY <1>1, ScannedCases DEF fn
  <1>3. i \in 0..(bc.main - 1)
    <2>. HIDE DEF fn
    <2>. QED  BY <1>1, <1>2
  <1>4. ASSUME NEW e \in DOMAIN bc.functions
        PROVE  CostFrom(bc)[bc.functions[e].entry] \in Nat
    <2>. DEFINE j == bc.functions[e].entry
    <2>1. j \in Nat /\ j < bc.functions[e].end /\ bc.functions[e].end <= bc.main
          /\ bc.functions[e].end \in Nat
      BY FunctionScanned DEF Func, Function
    <2>. HIDE DEF j
    <2>2. j \in 0..(bc.main - 1)
      BY <1>1, <2>1
    <2>3. CostFrom(bc)[j] \in Nat
      BY <2>2, CostSolves
    <2>. QED  BY <2>3 DEF j
  <1>. QED  BY <1>1, <1>3, <1>4, CostSolves

\* A place the scan has come to leads on: to the next such place, into a
\* repeat or into a branch.
LEMMA LineLeads ==
    ASSUME NEW bc, Sound(bc), NEW f \in DOMAIN bc.functions,
           NEW s, NEW k, NEW e, NEW i, NEW rest, AtLine(bc, Func(bc, f), s, k, i, rest)
    PROVE  Leads(bc, Func(bc, f), s, k, e, i, rest)
  <1>. DEFINE fn == Func(bc, f)
              ins == bc.code[i]
              C == CostFrom(bc)
              to == ins.imm
              join == bc.code[to - 1].imm
  <1>1. k = 0 /\ Scanned(bc, fn, i, s) /\ rest = C[i]
    BY DEF AtLine
  <1>2. /\ fn \in Function /\ fn.end <= Size(bc) /\ IsBytecode(bc)
    BY FunctionScanned DEF Sound
  <1>3. /\ C[i] \in Nat /\ C[i] = CostLine(bc, C, i) /\ fn.entry \in Nat /\ fn.end \in Nat
        /\ \A g \in DOMAIN bc.functions : C[bc.functions[g].entry] \in Nat
    BY <1>1, ScannedCost
  <1>. SUFFICES Leads(bc, fn, s, k, e, i, rest)
    OBVIOUS
  <1>. HIDE DEF fn
  <1>4. /\ i \in Nat /\ i >= fn.entry /\ i < fn.end /\ s \in Slotted(fn.scalars)
        /\ ins \in Instruction
        /\ ins.op = "RETURN" => ReturnOK(ins, s)
        /\ ins.op = "REPEAT_ENTER" => RepeatOK(bc, fn, i, s) /\ Scanned(bc, fn, to, s)
        /\ ins.op \in Set => SetOK(ins, s) /\ Scanned(bc, fn, i + 1, s)
        /\ ins.op = "JUMP_IF_FALSE" =>
              IfOK(bc, fn, i, s) /\ (~BothReturn(bc, i) => Scanned(bc, fn, join, s))
        /\ ins.op \notin {"RETURN", "REPEAT_ENTER", "JUMP_IF_FALSE"} \cup Set =>
              /\ LineOK(bc, ins, s) \/ BinaryOK(ins, Compare, s)
              /\ Scanned(bc, fn, i + 1, After(ins, s))
    BY <1>1, <1>2, ScannedCases
  <1>5. ASSUME NEW n, NEW t, Scanned(bc, fn, n, t) PROVE C[n] \in Nat
    BY <1>5, ScannedCost DEF fn
  <1>6. to \in Nat /\ ins.a \in Nat /\ ins.op \in Opcodes
    BY <1>4 DEF Instruction
  <1>. HIDE DEF C
  <1>7. CASE ins.op = "RETURN"
    <2>1. rest = 1
      BY <1>1, <1>3, <1>7 DEF CostLine
    <2>. QED  BY <1>1, <1>4, <1>7, <2>1 DEF Leads, Set, Others
  <1>8. CASE ins.op = "REPEAT_ENTER"
    <2>1. RepeatOK(bc, fn, i, s) /\ Scanned(bc, fn, to, s)
      BY <1>4, <1>8
    <2>2. ins.a \in 1..MaxRepeat /\ to > i + 2 /\ C[to] \in Nat
      BY <1>5, <2>1 DEF RepeatOK
    <2>3. rest = ins.a * (to - i) + C[to]
      BY <1>1, <1>3, <1>8 DEF CostLine, RepeatCost
    <2>. DEFINE w == to - i
                a == ins.a
    <2>4. w \in Nat /\ w > 2 /\ a \in Nat /\ a >= 1
      BY <1>4, <1>6, <2>2, LimitsAssumption
    <2>5. (a - 1) * w \in Nat
      <3>. HIDE DEF w, a
      <3>1. a - 1 \in Nat
        BY <2>4
      <3>. QED  BY <2>4, <3>1
    <2>6. rest = w + (a - 1) * w + C[to]
      <3>1. a * w = w + (a - 1) * w
        <4>. HIDE DEF w, a
        <4>. QED  BY <2>4
      <3>. QED  BY <2>3, <3>1
    <2>. DEFINE m == (a - 1) * w
    <2>7. m \in Nat /\ rest = w + m + C[to]
      BY <2>5, <2>6
    <2>8. InRepeat(bc, fn, s, ins.a, i, i + 1, rest - 1)
      <3>1. i + 1 \in i..(to - 1) /\ ins.a \in 1..ins.a
        BY <1>4, <1>6, <2>2, <2>4
      <3>2. rest - 1 = (to - (i + 1)) + m + C[to]
        <4>. HIDE DEF m, to
        <4>. QED  BY <1>4, <1>6, <2>2, <2>7
      <3>. QED  BY <1>1, <1>8, <3>1, <3>2 DEF InRepeat, C
    <2>9. rest \in Nat /\ rest >= 1
      <3>. HIDE DEF m, w, to
      <3>. QED  BY <2>2, <2>4, <2>7
    <2>10. InFunction(bc, fn, s, ins.a, i, i + 1, rest - 1)
      BY <2>8 DEF InFunction
    <2>. QED  BY <1>1, <1>4, <1>8, <2>1, <2>9, <2>10 DEF Leads, Set, Others
  <1>9. CASE ins.op \in Set
    <2>1. SetOK(ins, s) /\ Scanned(bc, fn, i + 1, s) /\ C[i + 1] \in Nat
      BY <1>4, <1>5, <1>9
    <2>2. rest = 1 + C[i + 1]
      BY <1>1, <1>3, <1>9, Zenon DEF CostLine, Set
    <2>3. rest - 1 = C[i + 1] /\ rest \in Nat /\ rest >= 1
      BY <2>1, <2>2
    <2>4. InFunction(bc, fn, s, k, e, i + 1, rest - 1)
      BY <1>1, <2>1, <2>3 DEF InFunction, AtLine, C
    <2>. QED  BY <1>1, <1>4, <1>9, <2>1, <2>3, <2>4 DEF Leads, Set, Others
  <1>10. CASE ins.op = "JUMP_IF_FALSE"
    <2>1. IfOK(bc, fn, i, s) /\ (~BothReturn(bc, i) => Scanned(bc, fn, join, s))
      BY <1>4, <1>10
    <2>2. i + 1 < to /\ to <= join /\ join < fn.end /\ join \in Nat
      BY <1>2, <1>4, <2>1, JoinPlace
    <2>3. BothReturn(bc, i) <=> Returns(bc, i + 1, to - 1) /\ Returns(bc, to, join)
      BY DEF BothReturn
    <2>. DEFINE R == IF BothReturn(bc, i) THEN 0 ELSE C[join]
                x == to - i - 2 + IF Returns(bc, i + 1, to - 1) THEN 0 ELSE 1 + R
                y == join - to + IF Returns(bc, to, join) THEN 0 ELSE R
                m == Max({x, y})
    <2>4. rest = 1 + m
      BY <1>1, <1>3, <1>10, Zenon DEF CostLine, IfCost
    <2>5. R \in Nat
      BY <1>5, <2>1
    <2>. HIDE DEF R
    <2>6. x \in Nat /\ y \in Nat
      <3>1. to - i - 2 \in Nat /\ join - to \in Nat
        <4>. HIDE DEF to, join
        <4>. QED  BY <1>4, <1>6, <2>2
      <3>. HIDE DEF to, join
      <3>. QED  BY <2>5, <3>1
    <2>. HIDE DEF x, y
    <2>7. m \in {x, y} /\ m >= x /\ m >= y
      <3>1. x \in Int /\ y \in Int
        BY <2>6
      <3>. QED  BY <3>1, MaxOfTwo, Zenon
    <2>. HIDE DEF m
    <2>8. rest \in Nat /\ rest >= 1 /\ x + 1 <= rest /\ y + 1 <= rest
      BY <2>4, <2>6, <2>7
    <2>9. i \in fn.entry..(fn.end - 1)
      BY <1>3, <1>4
    <2>10. InFunction(bc, fn, s, k, e, i + 1, x)
      <3>1. CASE Returns(bc, i + 1, to - 1)
        <4>1. i + 1 \in (i + 1)..(to - 2)
          <5>1. i + 1 < to - 1
            BY <3>1 DEF Returns
          <5>. HIDE DEF to, ins
          <5>. QED  BY <1>4, <1>6, <5>1
        <4>2. x = to - (i + 1) - 1
          <5>1. x = to - i - 2
            BY <1>6, <1>4, <3>1 DEF x
          <5>. HIDE DEF to, ins
          <5>. QED  BY <1>4, <1>6, <5>1
        <4>3. InBranch(bc, fn, s, k, i, i + 1, x)
          BY <1>1, <1>10, <3>1, <4>1, <4>2 DEF InBranch
        <4>. QED  BY <2>9, <4>3 DEF InFunction
      <3>2. CASE ~Returns(bc, i + 1, to - 1)
        <4>1. i + 1 \in (i + 1)..(to - 1)
          <5>. HIDE DEF to, ins
          <5>. QED  BY <1>4, <1>6, <2>2
        <4>2. x = to - (i + 1) + C[join]
          <5>1. x = to - i - 2 + (1 + C[join]) /\ C[join] \in Nat
            BY <2>3, <2>5, <3>2 DEF x, R
          <5>. HIDE DEF to, ins, join
          <5>. QED  BY <1>4, <1>6, <5>1
        <4>3. InBranch(bc, fn, s, k, i, i + 1, x)
          BY <1>1, <1>10, <3>2, <4>1, <4>2, Zenon DEF InBranch, C
        <4>. QED  BY <2>9, <4>3 DEF InFunction
      <3>. QED  BY <3>1, <3>2
    <2>11. InFunction(bc, fn, s, k, e, to, y)
      <3>1. CASE Returns(bc, to, join)
        <4>1. to \in to..(join - 1)
          <5>1. to < join
            BY <3>1 DEF Returns
          <5>. HIDE DEF to, ins, join
          <5>. QED  BY <1>6, <2>2, <5>1
        <4>2. y = join - to
          <5>1. y = join - to + 0
            BY <3>1 DEF y
          <5>. HIDE DEF to, ins, join
          <5>. QED  BY <1>6, <2>2, <5>1
        <4>3. InBranch(bc, fn, s, k, i, to, y)
          BY <1>1, <1>10, <3>1, <4>1, <4>2 DEF InBranch
        <4>. QED  BY <2>9, <4>3 DEF InFunction
      <3>2. CASE ~Returns(bc, to, join)
        <4>1. y = join - to + C[join] /\ C[join] \in Nat
          BY <2>3, <2>5, <3>2 DEF y, R
        <4>2. CASE to = join
          <5>1. y = C[join]
            <6>. HIDE DEF to, ins, join
            <6>. QED  BY <1>6, <2>2, <4>1, <4>2
          <5>2. AtLine(bc, fn, s, k, join, y)
            BY <1>1, <2>1, <2>3, <3>2, <5>1 DEF AtLine, C
          <5>. QED  BY <4>2, <5>2 DEF InFunction
        <4>3. CASE to # join
          <5>1. to \in to..(join - 1)
            <6>. HIDE DEF to, ins, join
            <6>. QED  BY <1>6, <2>2, <4>3
          <5>2. InBranch(bc, fn, s, k, i, to, y)
            BY <1>1, <1>10, <3>2, <4>1, <5>1, Zenon DEF InBranch, C
          <5>. QED  BY <2>9, <5>2 DEF InFunction
        <4>. QED  BY <4>2, <4>3
      <3>. QED  BY <3>1, <3>2
    <2>12. /\ \E n \in Nat : n + 1 <= rest /\ InFunction(bc, fn, s, k, e, i + 1, n)
           /\ \E n \in Nat : n + 1 <= rest /\ InFunction(bc, fn, s, k, e, ins.imm, n)
      BY <2>6, <2>8, <2>10, <2>11
    <2>. HIDE DEF join
    <2>. QED  BY <1>1, <1>4, <1>10, <2>1, <2>8, <2>12 DEF Leads, Set, Others
  <1>11. CASE ins.op \notin {"RETURN", "REPEAT_ENTER", "JUMP_IF_FALSE"} \cup Set
    <2>1. /\ LineOK(bc, ins, s) \/ BinaryOK(ins, Compare, s)
          /\ Scanned(bc, fn, i + 1, After(ins, s)) /\ C[i + 1] \in Nat
      BY <1>4, <1>5, <1>11
    <2>2. /\ ins.op \in {"CONST", "CALL"} \cup Arith \cup Compare
          /\ ins.op = "CALL" => to \in DOMAIN bc.functions
      <3>1. CASE LineOK(bc, ins, s)
        BY <3>1 DEF LineOK, ConstOK, BinaryOK, CallOK, Arith
      <3>2. CASE BinaryOK(ins, Compare, s)
        BY <3>2 DEF BinaryOK, Compare
      <3>. QED  BY <2>1, <3>1, <3>2
    <2>3. ins.op \in Others /\ ins.op \notin {"REPEAT_NEXT", "JUMP"}
      BY <1>6, <1>11, <2>2 DEF Others, Arith, Compare
    <2>4. rest = 1 + (IF ins.op = "CALL" THEN C[bc.functions[to].entry] ELSE 0) + C[i + 1]
      <3>1. CASE ins.op = "CALL"
        BY <1>1, <1>3, <3>1, Zenon DEF CostLine
      <3>2. CASE ins.op # "CALL"
        <4>1. rest = 1 + C[i + 1]
          BY <1>1, <1>3, <1>11, <3>2, Zenon DEF CostLine
        <4>. QED  BY <2>1, <3>2, <4>1
      <3>. QED  BY <3>1, <3>2
    <2>5. rest \in Nat /\ rest >= 1
      <3>. DEFINE c == IF ins.op = "CALL" THEN C[bc.functions[to].entry] ELSE 0
      <3>1. c \in Nat
        BY <1>3, <2>2
      <3>2. rest = 1 + c + C[i + 1]
        BY <2>4, Zenon
      <3>. HIDE DEF c
      <3>. QED  BY <2>1, <3>1, <3>2
    <2>. HIDE DEF join
    <2>. QED  BY <1>1, <1>4, <1>11, <2>1, <2>3, <2>4, <2>5, Zenon DEF Leads, C
  <1>. QED  BY <1>7, <1>8, <1>9, <1>10, <1>11

\* The body of a repeat leads to its NEXT, which leads back to ENTER or on.
LEMMA RepeatLeads ==
    ASSUME NEW bc, Sound(bc), NEW f \in DOMAIN bc.functions,
           NEW s, NEW k, NEW e, NEW i, NEW rest, InRepeat(bc, Func(bc, f), s, k, e, i, rest)
    PROVE  Leads(bc, Func(bc, f), s, k, e, i, rest)
  <1>. DEFINE fn == Func(bc, f)
              ins == bc.code[i]
              enter == bc.code[e]
              C == CostFrom(bc)
              to == enter.imm
              w == to - e
              m == (k - 1) * w
  <1>1. /\ Scanned(bc, fn, e, s) /\ enter.op = "REPEAT_ENTER"
        /\ k \in 1..enter.a /\ i \in e..(to - 1)
        /\ rest = (to - i) + m + C[to]
    BY DEF InRepeat
  <1>2. /\ fn \in Function /\ fn.end <= Size(bc) /\ IsBytecode(bc)
        /\ Size(bc) \in Nat /\ bc.code \in [0..(Size(bc) - 1) -> Instruction]
    BY FunctionScanned DEF Sound, IsBytecode
  <1>3. fn.entry \in Nat /\ fn.end \in Nat
    BY <1>1, ScannedCost
  <1>. SUFFICES Leads(bc, fn, s, k, e, i, rest)
    OBVIOUS
  <1>. HIDE DEF fn
  <1>4. /\ e \in Nat /\ e >= fn.entry /\ e < fn.end /\ s \in Slotted(fn.scalars)
        /\ enter \in Instruction /\ RepeatOK(bc, fn, e, s) /\ Scanned(bc, fn, to, s)
    BY <1>1, <1>2, ScannedCases
  <1>5. C[to] \in Nat
    BY <1>4, ScannedCost DEF fn
  <1>6. to \in Nat /\ enter.a \in Nat
    BY <1>4 DEF Instruction
  <1>7. /\ to > e + 2 /\ to < fn.end
        /\ bc.code[to - 1].op = "REPEAT_NEXT" /\ bc.code[to - 1].imm = e
        /\ Blank(bc.code[to - 1], {"a", "b", "flags"})
        /\ \A j \in (e + 1)..(to - 2) : SetOK(bc.code[j], s)
    BY <1>4 DEF RepeatOK
  <1>. HIDE DEF C, to, enter
  <1>8. /\ i \in Nat /\ fn.entry <= i /\ i < fn.end /\ e <= i /\ i <= to - 1 /\ i < Size(bc)
        /\ k \in Nat /\ k >= 1 /\ w \in Nat /\ w > 2
    <2>1. i \in Nat /\ e <= i /\ i <= to - 1
      BY <1>1, <1>4, <1>6
    <2>2. fn.entry <= i /\ i < fn.end
      BY <1>3, <1>4, <1>6, <1>7, <2>1
    <2>3. i < Size(bc)
      BY <1>2, <1>3, <2>1, <2>2
    <2>4. k \in Nat /\ k >= 1
      BY <1>1, <1>6
    <2>5. w \in Nat /\ w > 2
      BY <1>4, <1>6, <1>7
    <2>. QED  BY <2>1, <2>2, <2>3, <2>4, <2>5
  <1>9. ins \in Instruction
    BY <1>2, <1>8
  <1>10. m \in Nat /\ (k = 1 => m = 0) /\ (k > 1 => m = w + (k - 2) * w /\ (k - 2) * w \in Nat)
    <2>. HIDE DEF w
    <2>1. k - 1 \in Nat /\ (k > 1 => k - 2 \in Nat)
      BY <1>8
    <2>2. m \in Nat
      BY <1>8, <2>1
    <2>3. k > 1 => (k - 1) * w = w + (k - 2) * w /\ (k - 2) * w \in Nat
      BY <1>8, <2>1
    <2>4. k = 1 => m = 0
      BY <1>8
    <2>. QED  BY <2>2, <2>3, <2>4
  <1>. HIDE DEF m
  <1>11. rest \in Nat /\ rest >= 1
    BY <1>1, <1>5, <1>6, <1>8, <1>10
  <1>12. ASSUME i + 1 <= to - 1 PROVE InFunction(bc, fn, s, k, e, i + 1, rest - 1)
    <2>1. i + 1 \in e..(to - 1)
      BY <1>4, <1>6, <1>8, <1>12
    <2>2. rest - 1 = (to - (i + 1)) + m + C[to]
      BY <1>1, <1>5, <1>6, <1>8, <1>10
    <2>3. InRepeat(bc, fn, s, k, e, i + 1, rest - 1)
      BY <1>1, <2>1, <2>2 DEF InRepeat, m, C, to, enter
    <2>. QED  BY <2>3 DEF InFunction
  <1>13. CASE i = e
    <2>1. ins.op = "REPEAT_ENTER" /\ RepeatOK(bc, fn, i, s)
      BY <1>1, <1>4, <1>13 DEF enter
    <2>2. InFunction(bc, fn, s, k, e, i + 1, rest - 1)
      <3>1. i + 1 <= to - 1
        BY <1>4, <1>6, <1>7, <1>13
      <3>. QED  BY <1>12, <3>1
    <2>3. k > 0 /\ e = i
      BY <1>8, <1>13
    <2>. HIDE DEF ins
    <2>. QED  BY <1>4, <1>8, <1>9, <1>11, <2>1, <2>2, <2>3 DEF Leads, Set, Others, ins
  <1>14. CASE i # e /\ i # to - 1
    <2>1. i \in (e + 1)..(to - 2) /\ i + 1 <= to - 1
      BY <1>4, <1>6, <1>8, <1>14
    <2>2. SetOK(ins, s) /\ ins.op \in Set
      BY <1>7, <2>1 DEF SetOK
    <2>3. InFunction(bc, fn, s, k, e, i + 1, rest - 1)
      BY <1>12, <2>1
    <2>. HIDE DEF ins
    <2>. QED  BY <1>4, <1>8, <1>9, <1>11, <2>2, <2>3 DEF Leads, Set, Others, ins
  <1>15. CASE i = to - 1
    <2>1. ins.op = "REPEAT_NEXT" /\ ins.imm = e /\ Blank(ins, {"a", "b", "flags"})
      BY <1>7, <1>15
    <2>2. e \in fn.entry..(i - 1) /\ i + 1 = to
      BY <1>3, <1>4, <1>6, <1>7, <1>8, <1>15
    <2>3. rest = 1 + m + C[to]
      BY <1>1, <1>5, <1>6, <1>10, <1>15
    <2>4. CASE k > 1
      <3>. DEFINE p == (k - 2) * w
      <3>1. p \in Nat /\ m = w + p
        BY <1>10, <2>4
      <3>2. rest - 1 = (to - e) + p + C[to]
        <4>. HIDE DEF p
        <4>. QED  BY <1>4, <1>5, <1>6, <2>3, <3>1
      <3>3. k - 1 \in 1..enter.a /\ e \in e..(to - 1)
        BY <1>1, <1>4, <1>6, <1>8, <2>4
      <3>4. rest - 1 = (to - e) + ((k - 1) - 1) * (to - e) + C[to]
        <4>1. (k - 1) - 1 = k - 2
          BY <1>8
        <4>. HIDE DEF w
        <4>2. p = ((k - 1) - 1) * (to - e)
          BY <4>1 DEF w
        <4>. HIDE DEF p
        <4>. QED  BY <3>2, <4>2
      <3>5. InRepeat(bc, fn, s, k - 1, e, e, rest - 1)
        BY <1>1, <3>3, <3>4 DEF InRepeat, C, to, enter
      <3>6. InFunction(bc, fn, s, k - 1, e, e, rest - 1) /\ k > 0
        BY <1>8, <3>5 DEF InFunction
      <3>. HIDE DEF ins
      <3>. QED  BY <1>4, <1>8, <1>9, <1>11, <2>1, <2>2, <2>4, <3>6 DEF Leads, Set, Others, ins
    <2>5. CASE ~(k > 1)
      <3>1. k = 1 /\ k > 0
        BY <1>8, <2>5
      <3>2. rest - 1 = C[to]
        BY <1>5, <1>10, <2>3, <3>1
      <3>3. InFunction(bc, fn, s, 0, None, i + 1, rest - 1)
        BY <1>4, <2>2, <3>2 DEF InFunction, AtLine, C
      <3>. HIDE DEF ins
      <3>. QED  BY <1>4, <1>8, <1>9, <1>11, <2>1, <2>2, <2>5, <3>1, <3>3 DEF Leads, Set, Others, ins
    <2>. QED  BY <2>4, <2>5
  <1>. QED  BY <1>13, <1>14, <1>15

\* A branch leads to its RETURN, or to where the branches meet.
LEMMA BranchLeads ==
    ASSUME NEW bc, Sound(bc), NEW f \in DOMAIN bc.functions,
           NEW s, NEW k, NEW e, NEW j \in Func(bc, f).entry..(Func(bc, f).end - 1),
           NEW i, NEW rest, InBranch(bc, Func(bc, f), s, k, j, i, rest)
    PROVE  Leads(bc, Func(bc, f), s, k, e, i, rest)
  <1>. DEFINE fn == Func(bc, f)
              ins == bc.code[i]
              C == CostFrom(bc)
              else == bc.code[j].imm
              join == bc.code[else - 1].imm
              first == Returns(bc, j + 1, else - 1)
              second == Returns(bc, else, join)
  <1>1. k = 0 /\ Scanned(bc, fn, j, s) /\ bc.code[j].op = "JUMP_IF_FALSE"
    BY DEF InBranch
  <1>2. \/ i \in (j + 1)..(else - 2) /\ first /\ rest = else - i - 1
        \/ i \in (j + 1)..(else - 1) /\ ~first /\ rest = else - i + C[join]
        \/ i \in else..(join - 1) /\ second /\ rest = join - i
        \/ i \in else..(join - 1) /\ ~second /\ rest = join - i + C[join]
    BY DEF InBranch
  <1>3. /\ fn \in Function /\ fn.end <= Size(bc) /\ IsBytecode(bc)
        /\ Size(bc) \in Nat /\ bc.code \in [0..(Size(bc) - 1) -> Instruction]
    BY FunctionScanned DEF Sound, IsBytecode
  <1>4. fn.entry \in Nat /\ fn.end \in Nat
    BY <1>1, ScannedCost
  <1>. SUFFICES Leads(bc, fn, s, k, e, i, rest)
    OBVIOUS
  <1>5. j \in fn.entry..(fn.end - 1)
    OBVIOUS
  <1>. HIDE DEF fn
  <1>6. /\ j \in Nat /\ j >= fn.entry /\ j < fn.end /\ s \in Slotted(fn.scalars)
        /\ bc.code[j] \in Instruction /\ IfOK(bc, fn, j, s)
        /\ ~BothReturn(bc, j) => Scanned(bc, fn, join, s)
    BY <1>1, <1>3, ScannedCases
  <1>7. else \in Nat /\ join \in Nat /\ j + 1 < else /\ else <= join /\ join < fn.end
    BY <1>3, <1>6, JoinPlace
  <1>8. ~first \/ ~second => Scanned(bc, fn, join, s) /\ C[join] \in Nat
    <2>1. ~first \/ ~second => Scanned(bc, fn, join, s)
      BY <1>6 DEF BothReturn
    <2>. QED  BY <2>1, ScannedCost DEF fn
  <1>9. /\ bc.code[else - 1].op = "JUMP" /\ Blank(bc.code[else - 1], {"a", "b", "flags"})
        /\ BranchOK(bc, j + 1, else - 1, s) /\ BranchOK(bc, else, join, s)
    BY <1>6 DEF IfOK
  <1>10. first => bc.code[(else - 1) - 1].op = "RETURN"
    BY DEF Returns
  <1>11. second => bc.code[join - 1].op = "RETURN"
    BY DEF Returns
  <1>12. ~first /\ j + 1 < else - 1 => bc.code[(else - 1) - 1].op # "RETURN"
    BY DEF Returns
  <1>13. ~second /\ else < join => bc.code[join - 1].op # "RETURN"
    BY DEF Returns
  <1>. HIDE DEF else, join, C, first, second
  <1>14. /\ i \in Nat /\ j + 1 <= i /\ i < join
         /\ fn.entry <= i /\ i < fn.end /\ i < Size(bc) /\ rest \in Nat /\ rest >= 1
    <2>1. i \in (j + 1)..(else - 1) \/ i \in else..(join - 1)
      BY <1>2, <1>6, <1>7
    <2>2. i \in Nat /\ j + 1 <= i /\ i < join
      BY <1>6, <1>7, <2>1
    <2>3. fn.entry <= i /\ i < fn.end
      BY <1>4, <1>6, <1>7, <2>2
    <2>4. i < Size(bc)
      BY <1>3, <1>4, <2>2, <2>3
    <2>5. rest \in Nat /\ rest >= 1
      BY <1>2, <1>6, <1>7, <1>8, <2>2
    <2>. QED  BY <2>2, <2>3, <2>4, <2>5
  <1>15. ins \in Instruction
    BY <1>3, <1>14
  <1>16. ASSUME NEW n \in Nat,
                \/ n \in (j + 1)..(else - 2) /\ first /\ rest - 1 = else - n - 1
                \/ n \in (j + 1)..(else - 1) /\ ~first /\ rest - 1 = else - n + C[join]
                \/ n \in else..(join - 1) /\ second /\ rest - 1 = join - n
                \/ n \in else..(join - 1) /\ ~second /\ rest - 1 = join - n + C[join]
         PROVE  InFunction(bc, fn, s, k, e, n, rest - 1)
    <2>1. InBranch(bc, fn, s, k, j, n, rest - 1)
      BY <1>1, <1>16 DEF InBranch, first, second, else, join, C
    <2>. QED  BY <1>5, <2>1 DEF InFunction
  <1>17. ASSUME ~first \/ ~second, rest - 1 = C[join]
         PROVE  InFunction(bc, fn, s, k, e, join, rest - 1)
    <2>1. AtLine(bc, fn, s, k, join, rest - 1)
      BY <1>1, <1>8, <1>17 DEF AtLine, C
    <2>. QED  BY <2>1 DEF InFunction
  <1>18. ASSUME SetOK(ins, s), InFunction(bc, fn, s, k, e, i + 1, rest - 1)
         PROVE  Leads(bc, fn, s, k, e, i, rest)
    <2>1. ins.op \in Set
      BY <1>18 DEF SetOK
    <2>. HIDE DEF ins
    <2>. QED  BY <1>1, <1>6, <1>14, <1>15, <1>18, <2>1 DEF Leads, Set, Others, ins
  <1>19. ASSUME ReturnOK(ins, s), rest = 1
         PROVE  Leads(bc, fn, s, k, e, i, rest)
    <2>1. ins.op = "RETURN"
      BY <1>19 DEF ReturnOK
    <2>. HIDE DEF ins
    <2>. QED  BY <1>1, <1>6, <1>14, <1>15, <1>19, <2>1 DEF Leads, Set, Others, ins
  <1>20. ASSUME NEW from, NEW upto \in Nat, BranchOK(bc, from, upto, s), i \in from..(upto - 1)
         PROVE  SetOK(ins, s) \/ (ReturnOK(ins, s) /\ i = upto - 1)
    BY <1>20 DEF BranchOK
  <1>21. SetOK(ins, s) => ins.op # "RETURN"
    BY DEF SetOK, Set
  <1>22. ReturnOK(ins, s) => ins.op = "RETURN"
    BY DEF ReturnOK
  <1>23. CASE i \in (j + 1)..(else - 2) /\ first /\ rest = else - i - 1
    <2>1. SetOK(ins, s) \/ (ReturnOK(ins, s) /\ i = (else - 1) - 1)
      <3>1. else - 1 \in Nat /\ i \in (j + 1)..((else - 1) - 1)
        BY <1>6, <1>7, <1>23
      <3>. QED  BY <1>9, <1>20, <3>1
    <2>2. CASE SetOK(ins, s)
      <3>1. i # (else - 1) - 1
        BY <1>10, <1>21, <1>23, <2>2
      <3>2. i + 1 \in (j + 1)..(else - 2) /\ rest - 1 = else - (i + 1) - 1 /\ i + 1 \in Nat
        BY <1>6, <1>7, <1>14, <1>23, <3>1
      <3>. QED  BY <1>16, <1>18, <1>23, <2>2, <3>2
    <2>3. CASE ReturnOK(ins, s) /\ i = (else - 1) - 1
      <3>1. rest = 1
        BY <1>7, <1>23, <2>3
      <3>. QED  BY <1>19, <2>3, <3>1
    <2>. QED  BY <2>1, <2>2, <2>3
  <1>24. CASE i \in (j + 1)..(else - 1) /\ ~first /\ rest = else - i + C[join] /\ i # else - 1
    <2>1. SetOK(ins, s) \/ (ReturnOK(ins, s) /\ i = (else - 1) - 1)
      <3>1. else - 1 \in Nat /\ i \in (j + 1)..((else - 1) - 1)
        BY <1>6, <1>7, <1>24
      <3>. QED  BY <1>9, <1>20, <3>1
    <2>2. j + 1 < else - 1
      BY <1>6, <1>7, <1>14, <1>24
    <2>3. SetOK(ins, s)
      BY <1>12, <1>22, <1>24, <2>1, <2>2
    <2>4. i + 1 \in (j + 1)..(else - 1) /\ rest - 1 = else - (i + 1) + C[join] /\ i + 1 \in Nat
      BY <1>6, <1>7, <1>8, <1>14, <1>24
    <2>. QED  BY <1>16, <1>18, <1>24, <2>3, <2>4
  <1>25. CASE ~first /\ rest = else - i + C[join] /\ i = else - 1
    <2>1. ins.op = "JUMP" /\ Blank(ins, {"a", "b", "flags"}) /\ ins.imm = join
      BY <1>9, <1>25 DEF join
    <2>2. join \in (i + 1)..(fn.end - 1)
      BY <1>4, <1>7, <1>25
    <2>3. rest - 1 = C[join]
      BY <1>7, <1>8, <1>25
    <2>4. InFunction(bc, fn, s, k, e, join, rest - 1)
      BY <1>17, <1>25, <2>3
    <2>. HIDE DEF ins
    <2>. QED  BY <1>1, <1>6, <1>14, <1>15, <2>1, <2>2, <2>4 DEF Leads, Set, Others, ins
  <1>26. CASE i \in else..(join - 1) /\ second /\ rest = join - i
    <2>1. SetOK(ins, s) \/ (ReturnOK(ins, s) /\ i = join - 1)
      BY <1>7, <1>9, <1>20, <1>26
    <2>2. CASE SetOK(ins, s)
      <3>1. i # join - 1
        BY <1>11, <1>21, <1>26, <2>2
      <3>2. i + 1 \in else..(join - 1) /\ rest - 1 = join - (i + 1) /\ i + 1 \in Nat
        BY <1>7, <1>14, <1>26, <3>1
      <3>. QED  BY <1>16, <1>18, <1>26, <2>2, <3>2
    <2>3. CASE ReturnOK(ins, s) /\ i = join - 1
      <3>1. rest = 1
        BY <1>7, <1>26, <2>3
      <3>. QED  BY <1>19, <2>3, <3>1
    <2>. QED  BY <2>1, <2>2, <2>3
  <1>27. CASE i \in else..(join - 1) /\ ~second /\ rest = join - i + C[join]
    <2>1. SetOK(ins, s) \/ (ReturnOK(ins, s) /\ i = join - 1)
      BY <1>7, <1>9, <1>20, <1>27
    <2>2. else < join
      BY <1>7, <1>27
    <2>3. SetOK(ins, s)
      BY <1>13, <1>22, <1>27, <2>1, <2>2
    <2>4. CASE i = join - 1
      <3>1. rest - 1 = C[join] /\ i + 1 = join
        BY <1>7, <1>8, <1>27, <2>4
      <3>2. InFunction(bc, fn, s, k, e, join, rest - 1)
        BY <1>17, <1>27, <3>1
      <3>. QED  BY <1>18, <2>3, <3>1, <3>2
    <2>5. CASE i # join - 1
      <3>1. i + 1 \in else..(join - 1) /\ rest - 1 = join - (i + 1) + C[join] /\ i + 1 \in Nat
        BY <1>7, <1>8, <1>14, <1>27, <2>5
      <3>. QED  BY <1>16, <1>18, <1>27, <2>3, <3>1
    <2>. QED  BY <2>4, <2>5
  <1>. QED  BY <1>2, <1>23, <1>24, <1>25, <1>26, <1>27

\* Wherever a run is in a function, it is at an instruction the validator has
\* let pass, which leads to another such place.
LEMMA EveryPlaceLeads ==
    ASSUME NEW bc, Sound(bc), NEW f \in DOMAIN bc.functions,
           NEW s, NEW k, NEW e, NEW i, NEW rest, InFunction(bc, Func(bc, f), s, k, e, i, rest)
    PROVE  Leads(bc, Func(bc, f), s, k, e, i, rest)
  BY LineLeads, RepeatLeads, BranchLeads DEF InFunction

-----------------------------------------------------------------------------
(* Main, like the functions *)

MainLeads(bc, s, k, i, rest) ==
    LET ins == bc.code[i]
        C == CostFrom(bc)
        M == MainCost(bc)
    IN  /\ i \in Nat /\ bc.main <= i /\ i + 1 <= Size(bc) /\ i \in Pcs(bc)
        /\ ins \in Instruction /\ rest \in Nat /\ rest >= 1 /\ k = 0
        /\ emitted # {} => ins.op = "END" /\ i + 1 = Size(bc) /\ rest = 1
        /\ emitted = {} /\ ins.op = "U32_EMIT" =>
             Reads(ins, {"a"}, s) /\ i + 1 = Size(bc) - 1 /\ M[i + 1] \in Nat /\ rest = 1 + M[i + 1]
        /\ emitted = {} /\ ins.op # "U32_EMIT" =>
             /\ LineOK(bc, ins, s) /\ MainScanned(bc, i + 1, After(ins, s)) /\ M[i + 1] \in Nat
             /\ rest = 1 + (IF ins.op = "CALL" THEN C[bc.functions[ins.imm].entry] ELSE 0) + M[i + 1]

\* The cost of a whole function is a natural number.
LEMMA EntryCost ==
    ASSUME NEW bc, Sound(bc), NEW f \in DOMAIN bc.functions
    PROVE  CostFrom(bc)[bc.functions[f].entry] \in Nat
  <1>1. Scanned(bc, Func(bc, f), Func(bc, f).entry, Known0(Func(bc, f)))
    BY FunctionScanned
  <1>. QED  BY <1>1, ScannedCost DEF Func

\* A place the scan of main has come to leads to the next, to the emit and
\* to END.
LEMMA MainPlaceLeads ==
    ASSUME NEW bc, Sound(bc), NEW s, NEW k, NEW i, NEW rest, InMain(bc, s, k, i, rest)
    PROVE  MainLeads(bc, s, k, i, rest)
  <1>. DEFINE ins == bc.code[i]
              M == MainCost(bc)
              call == IF ins.op = "CALL" THEN CostFrom(bc)[bc.functions[ins.imm].entry] ELSE 0
  <1>1. /\ bc.main \in Nat /\ Size(bc) \in Nat /\ bc.main + 1 < Size(bc)
        /\ bc.code[Size(bc) - 1].op = "END"
    BY MainEntry
  <1>2. /\ bc.code \in [0..(Size(bc) - 1) -> Instruction] /\ Pcs(bc) = 0..(Size(bc) - 1)
        /\ IsBytecode(bc)
    BY DEF Sound, IsBytecode, Pcs
  <1>3. k = 0 /\ rest = M[i]
    BY DEF InMain
  <1>4. IF emitted = {} THEN MainScanned(bc, i, s) ELSE i = Size(bc) - 1
    BY DEF InMain
  <1>5. i \in Nat /\ bc.main <= i /\ i + 1 <= Size(bc)
    <2>1. CASE emitted = {}
      BY <1>1, <1>2, <1>4, <2>1, MainCases
    <2>2. CASE emitted # {}
      BY <1>1, <1>4, <2>2
    <2>. QED  BY <2>1, <2>2
  <1>6. i \in Pcs(bc) /\ ins \in Instruction
    BY <1>1, <1>2, <1>5
  <1>7. i \in bc.main..Size(bc) /\ i + 1 \in bc.main..Size(bc) /\ i # Size(bc)
    BY <1>1, <1>5
  <1>8. M[i] = MainCostLine(bc, M, i) /\ M[i + 1] \in Nat
    BY <1>7, MainCostSolves
  <1>. HIDE DEF M
  <1>9. rest = 1 + call + M[i + 1]
    BY <1>3, <1>7, <1>8, Zenon DEF MainCostLine
  <1>10. call \in Nat
    <2>1. CASE ins.op = "CALL"
      <3>1. ins.imm \in DOMAIN bc.functions
        BY <1>1, <1>5, <2>1, MainForm
      <3>. QED  BY <2>1, <3>1, EntryCost
    <2>2. CASE ins.op # "CALL"
      BY <2>2
    <2>. QED  BY <2>1, <2>2
  <1>11. rest \in Nat /\ rest >= 1
    <2>. HIDE DEF call
    <2>. QED  BY <1>8, <1>9, <1>10
  <1>12. ASSUME emitted # {} PROVE ins.op = "END" /\ i + 1 = Size(bc) /\ rest = 1
    <2>1. i = Size(bc) - 1 /\ i + 1 = Size(bc)
      BY <1>1, <1>4, <1>12
    <2>2. ins.op = "END"
      BY <1>1, <2>1
    <2>3. M[Size(bc)] = MainCostLine(bc, M, Size(bc))
      BY <1>1, MainCostSolves DEF M
    <2>4. M[i + 1] = 0
      BY <2>1, <2>3 DEF MainCostLine
    <2>. QED  BY <1>9, <2>1, <2>2, <2>4
  <1>13. ASSUME emitted = {}, ins.op = "U32_EMIT"
         PROVE  Reads(ins, {"a"}, s) /\ i + 1 = Size(bc) - 1 /\ rest = 1 + M[i + 1]
    <2>1. Reads(ins, {"a"}, s) /\ i + 1 = Size(bc) - 1
      BY <1>2, <1>4, <1>13, MainCases
    <2>2. rest = 1 + 0 + M[i + 1]
      BY <1>9, <1>13
    <2>. QED  BY <1>8, <2>1, <2>2
  <1>14. ASSUME emitted = {}, ins.op # "U32_EMIT"
         PROVE  LineOK(bc, ins, s) /\ MainScanned(bc, i + 1, After(ins, s))
    BY <1>2, <1>4, <1>14, MainCases
  <1>15. rest = 1 + (IF ins.op = "CALL" THEN CostFrom(bc)[bc.functions[ins.imm].entry] ELSE 0) + M[i + 1]
    BY <1>9, Zenon
  <1>. HIDE DEF ins
  <1>. QED  BY <1>3, <1>5, <1>6, <1>8, <1>11, <1>12, <1>13, <1>14, <1>15, Zenon DEF MainLeads, ins, M

-----------------------------------------------------------------------------
(* A frame, as the validator sees it *)

\* The checks of the validator and of the VM agree on a frame.
LEMMA NowTells ==
    ASSUME NEW f, NEW ins
    PROVE  /\ Fresh(ins, Now(f)) <=> Fresh(ins, f)
           /\ \A fields : Reads(ins, fields, Now(f)) <=> Reads(ins, fields, f)
           /\ Now(f).n = f.n /\ Now(f).init = f.init /\ Now(f).bools = f.bools
  <1>1. Now(f).n = f.n /\ Now(f).init = f.init /\ Now(f).bools = f.bools
    BY DEF Now, Known
  <1>2. Fresh(ins, Now(f)) <=> Fresh(ins, f)
    BY <1>1 DEF Fresh
  <1>3. ASSUME NEW fields PROVE Reads(ins, fields, Now(f)) <=> Reads(ins, fields, f)
    <2>. DEFINE g == Now(f)
    <2>1. g.n = f.n /\ g.init = f.init /\ g.bools = f.bools
      BY <1>1
    <2>. HIDE DEF g
    <2>2. Reads(ins, fields, g) <=> Reads(ins, fields, f)
      BY <2>1, Zenon DEF Reads
    <2>. QED  BY <2>2 DEF g
  <1>. QED  BY <1>1, <1>2, <1>3

\* What is known after a line.
LEMMA AfterIs ==
    ASSUME NEW ins, NEW n, NEW init, NEW bools, NEW y,
           ins.op \in Compare => y = bools \cup {ins.a},
           ins.op \notin Compare => y = bools \ {ins.a}
    PROVE  After(ins, Known(n, init, bools)) = Known(n, init \cup {ins.a}, y)
  <1>. DEFINE s == Known(n, init, bools)
              x == init \cup {ins.a}
  <1>1. s.init = init /\ s.bools = bools
    BY DEF Known
  <1>. DEFINE t == [s EXCEPT !.init = x]
  <1>2. After(ins, s) = [t EXCEPT !.bools = y]
    <2>1. After(ins, s) = [[s EXCEPT !.init = s.init \cup {ins.a}] EXCEPT
            !.bools = IF ins.op \in Compare THEN s.bools \cup {ins.a} ELSE s.bools \ {ins.a}]
      BY DEF After
    <2>. HIDE DEF s
    <2>. QED  BY <1>1, <2>1
  <1>. HIDE DEF x
  <1>3. t = Known(n, x, bools)
    BY DEF Known
  <1>. HIDE DEF t
  <1>4. [t EXCEPT !.bools = y] = Known(n, x, y)
    BY <1>3 DEF Known
  <1>. QED  BY <1>2, <1>4 DEF x

\* Giving a slot a value is what the validator takes a line to do.
LEMMA NowAfter ==
    ASSUME NEW f \in FrameType, NEW ins, NEW v
    PROVE  /\ ins.op \in Compare => Now(Assigned(f, ins.a, v, TRUE)) = After(ins, Now(f))
           /\ ins.op \notin Compare => Now(Assigned(f, ins.a, v, FALSE)) = After(ins, Now(f))
  <1>1. Now(Assigned(f, ins.a, v, TRUE)) = Known(f.n, f.init \cup {ins.a}, f.bools \cup {ins.a})
    BY DEF Assigned, FrameType, Now
  <1>2. Now(Assigned(f, ins.a, v, FALSE)) = Known(f.n, f.init \cup {ins.a}, f.bools \ {ins.a})
    BY DEF Assigned, FrameType, Now
  <1>3. Now(f) = Known(f.n, f.init, f.bools)
    BY DEF Now
  <1>4. ASSUME ins.op \in Compare
        PROVE  After(ins, Now(f)) = Known(f.n, f.init \cup {ins.a}, f.bools \cup {ins.a})
    <2>1. After(ins, Known(f.n, f.init, f.bools)) =
            Known(f.n, f.init \cup {ins.a}, f.bools \cup {ins.a})
      BY <1>4, AfterIs
    <2>. QED  BY <1>3, <2>1
  <1>5. ASSUME ins.op \notin Compare
        PROVE  After(ins, Now(f)) = Known(f.n, f.init \cup {ins.a}, f.bools \ {ins.a})
    <2>1. After(ins, Known(f.n, f.init, f.bools)) =
            Known(f.n, f.init \cup {ins.a}, f.bools \ {ins.a})
      BY <1>5, AfterIs
    <2>. QED  BY <1>3, <2>1
  <1>. QED  BY <1>1, <1>2, <1>4, <1>5

\* A bool slot holds 0 or 1.
LEMMA BitsAssigned ==
    ASSUME NEW f \in FrameType, Bits(f), NEW a \in Slots, NEW v, NEW isBool \in BOOLEAN,
           isBool => v <= 1
    PROVE  Bits(Assigned(f, a, v, isBool))
  <1>. DEFINE g == Assigned(f, a, v, isBool)
  <1>1. /\ g.values = [f.values EXCEPT ![a] = v]
        /\ g.bools = IF isBool THEN f.bools \cup {a} ELSE f.bools \ {a}
        /\ f.values \in [Slots -> U32] /\ f.bools \subseteq Slots
    BY DEF Assigned, FrameType
  <1>. HIDE DEF g
  <1>2. ASSUME NEW x \in g.bools PROVE g.values[x] <= 1
    <2>1. CASE x = a
      BY <1>1, <1>2, <2>1
    <2>2. CASE x # a
      BY <1>1, <1>2, <2>2 DEF Bits
    <2>. QED  BY <2>1, <2>2
  <1>. QED  BY <1>2 DEF Bits, g

-----------------------------------------------------------------------------
(* The next instruction passes the checks *)

\* What holds while the program runs.
LEMMA WhileRunning ==
    ASSUME IInv, RunInv, status = "running"
    PROVE  /\ Sound(program) /\ StackOK /\ Budget
           /\ depth \in Nat /\ depth \in Depths /\ depth <= MaxCallDepth
           /\ Top \in FrameType /\ bound <= MaxSteps /\ executed \in Nat
           /\ bound \in Nat
  <1>1. IsBytecode(program) /\ FunctionContract(program)
    BY DEF IInv, TypeOK, Checked
  <1>2. depth \in Nat /\ depth \in Depths /\ depth <= MaxCallDepth
    BY LimitsAssumption DEF IInv, TypeOK, Depths
  <1>3. Top \in FrameType
    BY <1>2 DEF IInv, TypeOK, Top
  <1>. QED  BY <1>1, <1>2, <1>3, LimitsAssumption DEF Sound, RunInv, Budget, IInv, TypeOK

\* The checks before an instruction pass, and the instruction is one the
\* validator let pass.
LEMMA HereLeads ==
    ASSUME IInv, RunInv, status = "running",
           NEW rest \in Nat, NEW due \in [0..depth -> Nat],
           Place(Top, pc, rest), Due(due), Spends(executed + rest + due[depth])
    PROVE  /\ Fetched
           /\ depth = 0 => /\ MainLeads(program, Now(Top), Top.repeat_remaining, pc, rest)
                           /\ due[depth] = 0
           /\ depth > 0 => /\ Top.function_index \in DOMAIN program.functions
                           /\ Active = Func(program, Top.function_index)
                           /\ Leads(program, Active, Now(Top), Top.repeat_remaining,
                                    Top.repeat_enter_pc, pc, rest)
  <1>1. /\ Sound(program) /\ StackOK /\ depth \in Nat /\ bound <= MaxSteps
        /\ executed \in Nat /\ bound \in Nat
    BY WhileRunning
  <1>2. due[depth] \in Nat
    BY <1>1
  <1>3. rest >= 1 => executed < bound /\ executed < MaxSteps
    BY <1>1, <1>2, LimitsAssumption DEF Spends
  <1>4. CASE depth = 0
    <2>1. MainLeads(program, Now(Top), Top.repeat_remaining, pc, rest)
      BY <1>1, <1>4, MainPlaceLeads DEF Place
    <2>2. pc \in Pcs(program) /\ pc >= program.main /\ rest >= 1
      BY <2>1 DEF MainLeads
    <2>3. program.main \in Nat
      BY <1>1 DEF Sound, IsBytecode
    <2>. QED  BY <1>3, <1>4, <2>1, <2>2, <2>3 DEF Fetched, Due
  <1>5. CASE depth > 0
    <2>. DEFINE g == Top.function_index
    <2>1. g \in DOMAIN program.functions
      BY <1>1, <1>5 DEF StackOK, Top
    <2>2. Active = Func(program, g)
      BY DEF Active, Func
    <2>3. Leads(program, Active, Now(Top), Top.repeat_remaining, Top.repeat_enter_pc, pc, rest)
      <3>1. InFunction(program, Func(program, g), Now(Top), Top.repeat_remaining,
                       Top.repeat_enter_pc, pc, rest)
        BY <1>1, <1>5 DEF Place
      <3>. QED  BY <1>1, <2>1, <2>2, <3>1, EveryPlaceLeads
    <2>4. pc \in Nat /\ Active.entry <= pc /\ pc < Active.end /\ rest >= 1
      BY <2>3 DEF Leads
    <2>5. Active.entry \in Nat /\ Active.end \in Nat /\ Active.end <= Size(program)
      BY <1>1, <2>1, <2>2, FunctionScanned DEF Function
    <2>6. Pcs(program) = 0..(Size(program) - 1) /\ Size(program) \in Nat
      BY <1>1 DEF Sound, IsBytecode, Pcs
    <2>. HIDE DEF g
    <2>7. pc \in Pcs(program) /\ pc \in Active.entry..(Active.end - 1)
      BY <2>4, <2>5, <2>6
    <2>. QED  BY <1>3, <1>5, <2>1, <2>2, <2>3, <2>4, <2>7 DEF Fetched, g
  <1>. QED  BY <1>1, <1>4, <1>5

\* A line that passes the scan passes the checks of the VM, an argument that
\* is its own result apart.
LEMMA LineRuns ==
    ASSUME NEW f, NEW ins \in Instruction, NEW bc, IsBytecode(bc), CallOK(bc, ins, Now(f)),
           ins.a \notin {ins.b, ins.flags}
    PROVE  /\ ins.op = "CALL" /\ ins.imm \in DOMAIN bc.functions /\ Fresh(ins, f)
           /\ bc.functions[ins.imm].params >= 1 => Reads(ins, {"b"}, f)
           /\ bc.functions[ins.imm].params >= 2 => Reads(ins, {"flags"}, f)
  <1>. DEFINE s == Now(f)
              t == [s EXCEPT !.init = @ \cup {ins.a}]
              params == bc.functions[ins.imm].params
  <1>1. /\ ins.op = "CALL" /\ ins.imm \in DOMAIN bc.functions /\ Fresh(ins, s)
        /\ params <= MaxParams
        /\ IF params >= 1 THEN Reads(ins, {"b"}, t) ELSE Blank(ins, {"b"})
        /\ IF params = 2 THEN Reads(ins, {"flags"}, t) ELSE Blank(ins, {"flags"})
    BY DEF CallOK
  <1>2. params \in Nat
    BY <1>1 DEF IsBytecode, Function
  <1>3. t.n = f.n /\ t.init = f.init \cup {ins.a} /\ t.bools = f.bools
    BY DEF Now, Known
  <1>4. Fresh(ins, f)
    BY <1>1, NowTells
  <1>. HIDE DEF t, params
  <1>5. params >= 1 => Reads(ins, {"b"}, f)
    BY <1>1, <1>3 DEF Reads
  <1>6. params >= 2 => Reads(ins, {"flags"}, f)
    <2>1. params >= 2 => params = 2
      BY <1>1, <1>2 DEF MaxParams
    <2>. QED  BY <1>1, <1>3, <2>1 DEF Reads
  <1>. QED  BY <1>1, <1>4, <1>5, <1>6 DEF params

\* A call is never nested deeper than the stack.
LEMMA RoomToCall ==
    ASSUME IInv, RunInv, status = "running", Fetched,
           Ins.op = "CALL", Ins.imm \in DOMAIN program.functions
    PROVE  depth < MaxCallDepth
  <1>1. /\ Sound(program) /\ StackOK /\ depth \in Nat /\ depth <= MaxCallDepth
    BY WhileRunning
  <1>2. CASE depth = 0
    BY <1>2, LimitsAssumption
  <1>3. CASE depth > 0
    <2>. DEFINE g == frames[depth].function_index
                C == CallChains(program)
    <2>1. g \in DOMAIN program.functions
      BY <1>1, <1>3 DEF StackOK
    <2>2. Ins.imm \in Calls(program, g)
      BY <1>3 DEF Calls, Fetched, Active, Top, Ins
    <2>3. Ins.imm \in C[1] /\ 1 \in 1..MaxCallDepth
      BY ChainsGrow, LimitsAssumption
    <2>4. g \in C[1 + 1]
      BY <2>1, <2>2, <2>3, ChainsGrow
    <2>. HIDE DEF C, g
    <2>5. g \in C[2] => (2 + depth <= MaxCallDepth + 2 => C[2 + depth - 1] # {})
      BY <1>1, <1>3, LimitsAssumption DEF StackOK, Chained, C, g
    <2>6. C[depth + 1] # {}
      BY <1>1, <2>4, <2>5, LimitsAssumption
    <2>7. C[MaxCallDepth + 1] = {}
      BY <1>1 DEF Sound, FunctionContract, DepthOK, C
    <2>8. depth # MaxCallDepth
      BY <2>6, <2>7
    <2>. QED  BY <1>1, <2>8, LimitsAssumption
  <1>. QED  BY <1>1, <1>2, <1>3

SelfArgument == Ins.op = "CALL" /\ Ins.a \in {Ins.b, Ins.flags}

\* A line of straight code.
LEMMA LineCan ==
    ASSUME IInv, RunInv, status = "running", Fetched,
           \/ LineOK(program, Ins, Now(Top))
           \/ depth > 0 /\ BinaryOK(Ins, Compare, Now(Top))
    PROVE  Can \/ SelfArgument
  <1>1. /\ Sound(program) /\ IsBytecode(program)
    BY WhileRunning DEF Sound
  <1>2. Ins \in Instruction
    BY FetchedType
  <1>3. CASE ConstOK(Ins, Now(Top))
    <2>1. Ins.op = "CONST" /\ Fresh(Ins, Top)
      BY <1>3, NowTells DEF ConstOK
    <2>. QED  BY <2>1 DEF Can, CanConst
  <1>4. ASSUME NEW ops, BinaryOK(Ins, ops, Now(Top)), ops = Arith \/ (ops = Compare /\ depth > 0)
        PROVE  Can
    <2>1. Ins.op \in ops /\ Fresh(Ins, Top) /\ Reads(Ins, {"b", "flags"}, Top)
      BY <1>4, NowTells DEF BinaryOK
    <2>. QED  BY <1>4, <2>1 DEF Can, CanCompute
  <1>5. CASE CallOK(program, Ins, Now(Top))
    <2>1. CASE SelfArgument
      BY <2>1
    <2>2. CASE ~SelfArgument
      <3>1. Ins.op = "CALL" /\ Ins.imm \in DOMAIN program.functions
        BY <1>5 DEF CallOK
      <3>2. Ins.a \notin {Ins.b, Ins.flags}
        BY <2>2, <3>1 DEF SelfArgument
      <3>3. /\ Fresh(Ins, Top)
            /\ program.functions[Ins.imm].params >= 1 => Reads(Ins, {"b"}, Top)
            /\ program.functions[Ins.imm].params >= 2 => Reads(Ins, {"flags"}, Top)
        BY <1>1, <1>2, <1>5, <3>2, LineRuns
      <3>4. depth < MaxCallDepth
        BY <3>1, RoomToCall
      <3>. QED  BY <3>1, <3>3, <3>4 DEF Can, CanCall
    <2>. QED  BY <2>1, <2>2
  <1>. QED  BY <1>3, <1>4, <1>5 DEF LineOK

\* In main.
LEMMA MainCan ==
    ASSUME IInv, RunInv, status = "running", Fetched, depth = 0,
           NEW rest, MainLeads(program, Now(Top), Top.repeat_remaining, pc, rest)
    PROVE  /\ Can \/ SelfArgument
           /\ CanEnd => rest = 1
  <1>1. pc + 1 = Size(program) - 1 => pc + 1 # Size(program)
    BY WhileRunning DEF Sound, IsBytecode
  <1>2. CASE emitted # {}
    <2>1. Ins.op = "END" /\ pc + 1 = Size(program) /\ rest = 1 /\ Top.repeat_remaining = 0
      BY <1>2 DEF MainLeads, Ins
    <2>. QED  BY <1>2, <2>1 DEF Can, CanEnd
  <1>3. CASE emitted = {} /\ Ins.op = "U32_EMIT"
    <2>1. Reads(Ins, {"a"}, Top)
      BY <1>3, NowTells DEF MainLeads, Ins
    <2>. QED  BY <1>3, <2>1 DEF Can, CanEmit, CanEnd
  <1>4. CASE emitted = {} /\ Ins.op # "U32_EMIT"
    <2>1. LineOK(program, Ins, Now(Top))
      BY <1>4 DEF MainLeads, Ins
    <2>. QED  BY <1>4, <2>1, LineCan DEF CanEnd
  <1>. QED  BY <1>2, <1>3, <1>4

\* In a function.
LEMMA FunctionCan ==
    ASSUME IInv, RunInv, status = "running", Fetched, depth > 0,
           NEW rest, Top.function_index \in DOMAIN program.functions,
           Leads(program, Active, Now(Top), Top.repeat_remaining, Top.repeat_enter_pc, pc, rest)
    PROVE  Can \/ SelfArgument
  <1>1. /\ Sound(program) /\ StackOK /\ depth \in Nat /\ depth \in Depths
    BY WhileRunning
  <1>2. Ins \in Instruction /\ Ins.op \in Opcodes /\ Ins.imm \in Nat /\ pc \in Nat
        /\ Ins.a \in Nat
    BY FetchedType DEF Instruction
  <1>3. Active \in Function /\ Active.entry \in Nat /\ Active.end \in Nat
    BY <1>1, FunctionScanned DEF Func, Active, Function
  <1>. DEFINE f == Top
              s == Now(f)
              k == f.repeat_remaining
              e == f.repeat_enter_pc
  <1>4. CASE Ins.op = "RETURN"
    <2>1. k = 0 /\ ReturnOK(Ins, s)
      BY <1>4 DEF Leads, Ins
    <2>2. Reads(Ins, {"a"}, Top) /\ Blank(Ins, {"b", "flags", "imm"})
      BY <2>1, NowTells DEF ReturnOK
    <2>3. depth \in 1..depth
      BY <1>1
    <2>4. /\ program.code[frames[depth].return_pc - 1].a = frames[depth].return_destination
          /\ Fresh(program.code[frames[depth].return_pc - 1], frames[depth - 1])
      BY <2>3 DEF IInv, CallersWait
    <2>. QED  BY <1>4, <2>1, <2>2, <2>4 DEF Can, CanReturn, Fresh, Top
  <1>5. CASE Ins.op = "REPEAT_ENTER"
    <2>1. RepeatOK(program, Active, pc, s)
      BY <1>5 DEF Leads, Ins
    <2>2. k = 0 \/ e = pc
      BY <1>5 DEF Leads, Ins
    <2>3. /\ Ins.a \in 1..MaxRepeat /\ Blank(Ins, {"flags"})
          /\ Ins.imm > pc + 2 /\ Ins.imm < Active.end
      BY <2>1 DEF RepeatOK, Ins, Blank
    <2>4. Ins.imm \in (pc + 2)..(Active.end - 1)
      BY <1>2, <1>3, <2>3
    <2>. QED  BY <1>5, <2>2, <2>3, <2>4 DEF Can, CanEnter
  <1>6. CASE Ins.op = "REPEAT_NEXT"
    BY <1>6 DEF Leads, Ins, Can, CanNext
  <1>7. CASE Ins.op \in Set
    <2>1. SetOK(Ins, s)
      BY <1>7 DEF Leads, Ins
    <2>. QED  BY <1>7, <2>1, NowTells DEF SetOK, Can, CanSet
  <1>8. CASE Ins.op = "JUMP_IF_FALSE"
    <2>1. IfOK(program, Active, pc, s)
      BY <1>8 DEF Leads, Ins
    <2>2. /\ Ins.a < s.n /\ Ins.a \in s.init /\ Ins.a \in s.bools
          /\ Blank(Ins, {"b", "flags"})
          /\ Ins.imm > pc + 1 /\ Ins.imm < Active.end
      BY <2>1 DEF IfOK, Ins
    <2>3. Ins.a < f.n /\ Ins.a \in f.init /\ Ins.a \in f.bools
      BY <2>2, NowTells
    <2>4. Top.values[Ins.a] <= 1
      BY <1>1, <2>3 DEF StackOK, Bits, Top
    <2>5. Ins.imm \in (pc + 1)..(Active.end - 1)
      BY <1>2, <1>3, <2>2
    <2>. QED  BY <1>8, <2>2, <2>3, <2>4, <2>5 DEF Can, CanBranch, Forward
  <1>9. CASE Ins.op = "JUMP"
    <2>1. Blank(Ins, {"a", "b", "flags"}) /\ Ins.imm \in (pc + 1)..(Active.end - 1)
      BY <1>9 DEF Leads, Ins
    <2>. QED  BY <1>9, <2>1 DEF Can, CanJump, Forward, Blank
  <1>10. CASE Ins.op \in Others
    <2>1. LineOK(program, Ins, s) \/ BinaryOK(Ins, Compare, s)
      BY <1>10 DEF Leads, Ins
    <2>. QED  BY <2>1, LineCan
  <1>. QED  BY <1>2, <1>4, <1>5, <1>6, <1>7, <1>8, <1>9, <1>10 DEF Others

\* While a program the validator accepted runs, nothing but a call with its
\* own result among its arguments can fail; and at END of straight code the
\* bound is spent.
LEMMA Progress ==
    ASSUME IInv, RunInv, status = "running"
    PROVE  /\ Fetched /\ (Can \/ SelfArgument)
           /\ CanEnd /\ Straight(program) => executed + 1 = bound
  <1>1. depth \in Nat /\ executed \in Nat /\ bound \in Nat /\ Budget
    BY WhileRunning
  <1>2. PICK rest \in Nat : \E due \in [0..depth -> Nat] :
           Place(Top, pc, rest) /\ Due(due) /\ Spends(executed + rest + due[depth])
    BY <1>1 DEF Budget
  <1>3. PICK due \in [0..depth -> Nat] :
           Place(Top, pc, rest) /\ Due(due) /\ Spends(executed + rest + due[depth])
    BY <1>2
  <1>4. /\ Fetched
        /\ depth = 0 => /\ MainLeads(program, Now(Top), Top.repeat_remaining, pc, rest)
                        /\ due[depth] = 0
        /\ depth > 0 => /\ Top.function_index \in DOMAIN program.functions
                        /\ Leads(program, Active, Now(Top), Top.repeat_remaining,
                                 Top.repeat_enter_pc, pc, rest)
    BY <1>3, HereLeads
  <1>5. CASE depth = 0
    <2>1. (Can \/ SelfArgument) /\ (CanEnd => rest = 1)
      BY <1>4, <1>5, MainCan
    <2>. QED  BY <1>1, <1>3, <1>4, <1>5, <2>1 DEF Spends
  <1>6. CASE depth > 0
    BY <1>4, <1>6, FunctionCan DEF CanEnd
  <1>. QED  BY <1>1, <1>5, <1>6

-----------------------------------------------------------------------------
(* Every step keeps the run where the validator was *)

\* A step that changes only the running frame, and leaves less to do.
LEMMA Stay ==
    ASSUME IInv, RunInv, status = "running",
           NEW rest \in Nat, NEW due \in [0..depth -> Nat], Due(due),
           Spends(executed + rest + due[depth]),
           NEW f \in FrameType, SameCall(f, Top), Bits(f), NEW next, Advance(f, next),
           NEW r \in Nat, Place(f, next, r), r + 1 <= rest, Straight(program) => r + 1 = rest
    PROVE  RunInv'
  <1>1. /\ StackOK /\ depth \in Nat /\ depth \in Depths /\ depth <= MaxCallDepth
        /\ executed \in Nat /\ bound \in Nat /\ frames \in [Depths -> FrameType]
    BY WhileRunning DEF IInv, TypeOK
  <1>2. /\ frames' = [frames EXCEPT ![depth] = f] /\ pc' = next /\ executed' = executed + 1
        /\ UNCHANGED <<program, given, status, depth, bound, emitted>>
    BY DEF Advance
  <1>3. /\ \A d \in 0..depth : d \in Depths
        /\ \A d \in 0..(depth - 1) : d \in Depths /\ d # depth /\ d + 1 \in Depths
                                     /\ d \in 0..depth /\ d + 1 \in 1..depth
        /\ \A d \in 1..depth : d \in 0..depth
    BY <1>1, LimitsAssumption DEF Depths
  <1>4. frames'[depth] = f /\ Top' = f
    BY <1>1, <1>2 DEF Top
  <1>5. \A d \in 0..(depth - 1) : frames'[d] = frames[d]
    BY <1>1, <1>2, <1>3
  <1>6. \A d \in 0..depth : SameCall(frames'[d], frames[d])
    BY <1>1, <1>2, <1>3 DEF SameCall, Top
  <1>7. StackOK'
    <2>1. \A d \in 1..depth : frames'[d].function_index \in DOMAIN program.functions
      BY <1>1, <1>3, <1>6 DEF StackOK, SameCall
    <2>2. \A d \in 0..depth : Bits(frames'[d])
      <3>1. ASSUME NEW d \in 0..depth PROVE Bits(frames'[d])
        <4>1. CASE d = depth
          BY <1>4, <4>1
        <4>2. CASE d # depth
          <5>1. d \in 0..(depth - 1)
            BY <1>1, <4>2
          <5>. QED  BY <1>1, <1>5, <5>1, <3>1 DEF StackOK
        <4>. QED  BY <4>1, <4>2
      <3>. QED  BY <3>1
    <2>3. \A d \in 0..(depth - 1) : Waits(d)'
      <3>1. ASSUME NEW d \in 0..(depth - 1) PROVE Waits(d)'
        <4>1. Waits(d)
          BY <1>1 DEF StackOK
        <4>2. frames'[d] = frames[d] /\ frames'[d + 1].return_pc = frames[d + 1].return_pc
          BY <1>3, <1>5, <1>6 DEF SameCall
        <4>. QED  BY <1>2, <4>1, <4>2 DEF Waits
      <3>. QED  BY <3>1
    <2>4. Chained'
      <3>1. \A d \in 1..depth : frames'[d].function_index = frames[d].function_index
        BY <1>3, <1>6 DEF SameCall
      <3>. QED  BY <1>1, <1>2, <3>1 DEF StackOK, Chained
    <2>. QED  BY <1>1, <1>2, <2>1, <2>2, <2>3, <2>4 DEF StackOK, Bits
  <1>8. Budget'
    <2>1. Place(Top, pc, r)'
      BY <1>2, <1>4 DEF Place, InMain
    <2>2. Due(due)'
      <3>1. \A d \in 0..(depth - 1) : frames'[d + 1].return_pc = frames[d + 1].return_pc
        BY <1>3, <1>6 DEF SameCall
      <3>2. \A d \in 0..(depth - 1) : due[d + 1] = due[d] + Owed(d)'
        BY <1>2, <3>1 DEF Due, Owed
      <3>. QED  BY <1>2, <3>2 DEF Due
    <2>3. Spends(executed + r + due[depth])'
      <3>. DEFINE m == due[depth]
      <3>1. m \in Nat
        BY <1>1
      <3>. HIDE DEF m
      <3>2. Spends(executed + rest + m)
        BY DEF m
      <3>3. (executed + 1) + r + m <= bound /\ (Straight(program) => (executed + 1) + r + m = bound)
        BY <1>1, <3>1, <3>2 DEF Spends
      <3>. QED  BY <1>2, <3>3 DEF Spends, Straight, m
    <2>. QED  BY <1>1, <1>2, <2>1, <2>2, <2>3 DEF Budget
  <1>. QED  BY <1>7, <1>8 DEF RunInv

Straightforward == {"CONST"} \cup Arith \cup Compare

\* A slot gets a value.
LEMMA AssignRun ==
    ASSUME IInv, RunInv, Fetched, Ins.op \in Straightforward, Ins.a \in Slots,
           NEW v \in U32, NEW isBool \in BOOLEAN, isBool <=> Ins.op \in Compare,
           isBool => v <= 1, Advance(Assigned(Top, Ins.a, v, isBool), pc + 1)
    PROVE  RunInv'
  <1>1. /\ status = "running" /\ Sound(program) /\ StackOK /\ Budget /\ depth \in Nat
        /\ Top \in FrameType /\ pc \in Nat
    BY WhileRunning, FetchedType DEF Fetched
  <1>2. PICK rest \in Nat : \E due \in [0..depth -> Nat] :
           Place(Top, pc, rest) /\ Due(due) /\ Spends(executed + rest + due[depth])
    BY <1>1 DEF Budget
  <1>3. PICK due \in [0..depth -> Nat] :
           Place(Top, pc, rest) /\ Due(due) /\ Spends(executed + rest + due[depth])
    BY <1>2
  <1>. DEFINE f == Assigned(Top, Ins.a, v, isBool)
  <1>4. f \in FrameType /\ SameCall(f, Top)
    BY <1>1, AssignedType
  <1>5. Bits(f)
    <2>1. Bits(Top)
      BY <1>1 DEF StackOK, Top
    <2>. QED  BY <1>1, <2>1, BitsAssigned
  <1>6. Now(f) = After(Ins, Now(Top))
    <2>1. CASE isBool
      <3>1. isBool = TRUE /\ Ins.op \in Compare
        BY <2>1
      <3>2. Now(Assigned(Top, Ins.a, v, TRUE)) = After(Ins, Now(Top))
        BY <1>1, <3>1, NowAfter
      <3>. QED  BY <3>1, <3>2
    <2>2. CASE ~isBool
      <3>1. isBool = FALSE /\ Ins.op \notin Compare
        BY <2>2
      <3>2. Now(Assigned(Top, Ins.a, v, FALSE)) = After(Ins, Now(Top))
        BY <1>1, <3>1, NowAfter
      <3>. QED  BY <3>1, <3>2
    <2>. HIDE DEF f
    <2>. QED  BY <2>1, <2>2
  <1>7. /\ f.repeat_remaining = Top.repeat_remaining
        /\ f.function_index = Top.function_index
    BY <1>1 DEF Assigned, FrameType
  <1>8. Advance(f, pc + 1)
    OBVIOUS
  <1>. HIDE DEF f
  <1>9. Ins.op \notin {"END", "U32_EMIT", "CALL"} /\ Ins.op \in Others
    BY DEF Straightforward, Others, Opcodes, Arith, Compare, Set
  <1>10. CASE depth = 0
    <2>. DEFINE r == MainCost(program)[pc + 1]
    <2>1. MainLeads(program, Now(Top), Top.repeat_remaining, pc, rest)
      BY <1>1, <1>3, <1>10, HereLeads
    <2>2. /\ emitted = {} /\ Top.repeat_remaining = 0 /\ r \in Nat /\ rest = 1 + r
          /\ MainScanned(program, pc + 1, After(Ins, Now(Top)))
      <3>1. emitted = {}
        BY <1>9, <2>1 DEF MainLeads, Ins
      <3>2. rest = 1 + 0 + r /\ r \in Nat
        BY <1>9, <2>1, <3>1 DEF MainLeads, Ins
      <3>. QED  BY <1>9, <2>1, <3>1, <3>2 DEF MainLeads, Ins
    <2>3. Place(f, pc + 1, r)
      BY <1>6, <1>7, <1>10, <2>2 DEF Place, InMain
    <2>. HIDE DEF r
    <2>4. r + 1 <= rest /\ r + 1 = rest
      BY <2>2
    <2>. QED  BY <1>1, <1>3, <1>4, <1>5, <1>8, <2>2, <2>3, <2>4, Stay
  <1>11. CASE depth > 0
    <2>. DEFINE r == CostFrom(program)[pc + 1]
    <2>1. Leads(program, Active, Now(Top), Top.repeat_remaining, Top.repeat_enter_pc, pc, rest)
      BY <1>1, <1>3, <1>11, HereLeads
    <2>2. /\ Top.repeat_remaining = 0 /\ r \in Nat /\ rest = 1 + r
          /\ Scanned(program, Active, pc + 1, After(Ins, Now(Top)))
      <3>1. rest = 1 + 0 + r /\ r \in Nat
        BY <1>9, <2>1 DEF Leads, Ins
      <3>. QED  BY <1>9, <2>1, <3>1 DEF Leads, Ins
    <2>3. AtLine(program, Active, Now(f), f.repeat_remaining, pc + 1, r)
      BY <1>6, <1>7, <2>2 DEF AtLine
    <2>4. Place(f, pc + 1, r)
      BY <1>1, <1>7, <1>11, <2>3 DEF Place, InFunction, Active, Func
    <2>. HIDE DEF r
    <2>5. r + 1 <= rest /\ r + 1 = rest
      BY <2>2
    <2>. QED  BY <1>1, <1>3, <1>4, <1>5, <1>8, <2>2, <2>4, <2>5, Stay
  <1>. QED  BY <1>1, <1>10, <1>11

\* A constant fills the slot the validator knew to be free.
LEMMA ConstRun == ASSUME IInv, RunInv, Const PROVE RunInv'
  <1>1. Fetched /\ Ins.op = "CONST" /\ Ins.a < Top.n
    BY DEF Const, CanConst, Fresh
  <1>2. Ins.a \in Slots /\ Ins.imm \in U32
    BY <1>1, FetchedType DEF Instruction
  <1>3. Ins.op \in Straightforward /\ Ins.op \notin Compare
    BY <1>1 DEF Straightforward, Compare
  <1>. QED
    BY <1>1, <1>2, <1>3, AssignRun DEF Const

\* So does the result of a computation; a comparison gives 0 or 1.
LEMMA ComputeRun == ASSUME IInv, RunInv, Compute PROVE RunInv'
  <1>. DEFINE x == Top.values[Ins.b]
              y == Top.values[Ins.flags]
              result == IF Ins.op \in Compare THEN Test(Ins.op, x, y)
                        ELSE Apply(Ins.op, x, y)
  <1>1. Fetched /\ CanCompute /\ ~ByZero
        /\ Advance(Assigned(Top, Ins.a, result, Ins.op \in Compare), pc + 1)
    BY DEF Compute
  <1>2. Ins.a < Top.n /\ Reads(Ins, {"b", "flags"}, Top) /\ Ins.op \in Straightforward
    BY <1>1 DEF CanCompute, Fresh, Straightforward
  <1>3. Ins.a \in Slots
    BY <1>1, <1>2, FetchedType DEF Instruction
  <1>4. result \in U32
    BY <1>1, <1>2, ResultType, TestType DEF ByZero
  <1>5. Ins.op \in Compare => result <= 1
    BY DEF Test
  <1>. HIDE DEF result
  <1>. DEFINE isBool == Ins.op \in Compare
  <1>6. isBool \in BOOLEAN /\ (isBool <=> Ins.op \in Compare) /\ (isBool => result <= 1)
        /\ Advance(Assigned(Top, Ins.a, result, isBool), pc + 1)
    BY <1>1, <1>5
  <1>. HIDE DEF isBool
  <1>. QED
    BY <1>1, <1>2, <1>3, <1>4, <1>6, AssignRun

\* The steps within a function that assign nothing new.
LEMMA WithinRun ==
    ASSUME IInv, RunInv, Fetched, depth > 0, NEW rest \in Nat, NEW due \in [0..depth -> Nat],
           Due(due), Spends(executed + rest + due[depth]),
           NEW f \in FrameType, SameCall(f, Top), Bits(f), Now(f) = Now(Top),
           NEW next, Advance(f, next), NEW r \in Nat,
           InFunction(program, Active, Now(Top), f.repeat_remaining, f.repeat_enter_pc, next, r),
           r + 1 <= rest, Straight(program) => r + 1 = rest
    PROVE  RunInv'
  <1>1. status = "running" /\ depth \in Nat
    BY WhileRunning DEF Fetched
  <1>2. f.function_index = Top.function_index
    BY DEF SameCall
  <1>3. Place(f, next, r)
    BY <1>1, <1>2 DEF Place, Active, Func
  <1>. QED  BY <1>1, <1>3, Stay

\* Where the run is in the running function.
LEMMA Within ==
    ASSUME IInv, RunInv, Fetched, depth > 0
    PROVE  \E rest \in Nat : \E due \in [0..depth -> Nat] :
             /\ rest >= 1 /\ rest - 1 \in Nat
             /\ Due(due) /\ Spends(executed + rest + due[depth])
             /\ Leads(program, Active, Now(Top), Top.repeat_remaining, Top.repeat_enter_pc, pc, rest)
  <1>1. status = "running" /\ Budget
    BY WhileRunning DEF Fetched
  <1>2. PICK rest \in Nat : \E due \in [0..depth -> Nat] :
           Place(Top, pc, rest) /\ Due(due) /\ Spends(executed + rest + due[depth])
    BY <1>1 DEF Budget
  <1>3. PICK due \in [0..depth -> Nat] :
           Place(Top, pc, rest) /\ Due(due) /\ Spends(executed + rest + due[depth])
    BY <1>2
  <1>4. Leads(program, Active, Now(Top), Top.repeat_remaining, Top.repeat_enter_pc, pc, rest)
    BY <1>1, <1>3, HereLeads
  <1>5. rest >= 1 /\ rest - 1 \in Nat
    BY <1>4 DEF Leads
  <1>. QED  BY <1>3, <1>4, <1>5

\* A store into a slot in use leaves what is known of the frame.
LEMMA SetSlotRun == ASSUME IInv, RunInv, SetSlot PROVE RunInv'
  <1>. DEFINE result == Apply(Ins.op, Top.values[Ins.b], Top.values[Ins.flags])
              f == [Top EXCEPT !.values[Ins.a] = result]
  <1>1. Fetched /\ CanSet /\ ~ByZero /\ Advance(f, pc + 1) /\ depth > 0
    BY DEF SetSlot, CanSet
  <1>2. /\ Ins.a < Top.n /\ Reads(Ins, {"b", "flags"}, Top) /\ Ins.op \in Set
        /\ Ins.a \notin Top.bools
    BY <1>1 DEF CanSet, Reads
  <1>3. Ins.a \in Slots /\ Top \in FrameType
    BY <1>1, <1>2, FetchedType DEF Instruction
  <1>4. result \in U32
    BY <1>1, <1>2, ResultType DEF ByZero
  <1>. HIDE DEF result
  <1>5. f \in FrameType /\ SameCall(f, Top)
    BY <1>3, <1>4 DEF FrameType, SameCall
  <1>6. /\ Now(f) = Now(Top) /\ f.repeat_remaining = Top.repeat_remaining
        /\ f.repeat_enter_pc = Top.repeat_enter_pc
    BY <1>3 DEF FrameType, Now
  <1>7. Bits(f)
    <2>1. Bits(Top)
      BY <1>1, WhileRunning DEF Fetched, StackOK, Top
    <2>2. /\ f.bools = Top.bools /\ f.values = [Top.values EXCEPT ![Ins.a] = result]
          /\ Top.bools \subseteq Slots /\ Top.values \in [Slots -> U32]
      BY <1>3 DEF FrameType
    <2>. HIDE DEF f
    <2>. QED  BY <1>2, <2>1, <2>2 DEF Bits
  <1>. HIDE DEF f
  <1>8. PICK rest \in Nat : \E due \in [0..depth -> Nat] :
          /\ rest >= 1 /\ rest - 1 \in Nat
          /\ Due(due) /\ Spends(executed + rest + due[depth])
          /\ Leads(program, Active, Now(Top), Top.repeat_remaining, Top.repeat_enter_pc, pc, rest)
    BY <1>1, Within
  <1>9. InFunction(program, Active, Now(Top), f.repeat_remaining, f.repeat_enter_pc, pc + 1,
                   rest - 1)
    BY <1>2, <1>6, <1>8 DEF Leads, Ins
  <1>. DEFINE r == rest - 1
  <1>10. r \in Nat /\ r + 1 = rest /\ r + 1 <= rest
    BY <1>8
  <1>. QED  BY <1>1, <1>5, <1>6, <1>7, <1>8, <1>9, <1>10, WithinRun

\* ENTER and NEXT count the runs of the repeat that are left.
LEMMA RepeatRun == ASSUME IInv, RunInv, RepeatEnter \/ RepeatNext PROVE RunInv'
  <1>1. Fetched /\ depth > 0
    BY DEF RepeatEnter, RepeatNext, CanEnter, CanNext
  <1>2. Bits(Top) /\ Top \in FrameType /\ SameCall(Top, Top) /\ pc \in Nat
    BY <1>1, WhileRunning, FetchedType DEF Fetched, StackOK, Top, SameCall
  <1>3. PICK rest \in Nat : \E due \in [0..depth -> Nat] :
          /\ rest >= 1 /\ rest - 1 \in Nat
          /\ Due(due) /\ Spends(executed + rest + due[depth])
          /\ Leads(program, Active, Now(Top), Top.repeat_remaining, Top.repeat_enter_pc, pc, rest)
    BY <1>1, Within
  <1>. DEFINE r == rest - 1
  <1>4. r \in Nat /\ r + 1 = rest /\ r + 1 <= rest
    BY <1>3
  <1>5. ASSUME NEW f \in FrameType, SameCall(f, Top), Bits(f), Now(f) = Now(Top),
               NEW next, Advance(f, next),
               InFunction(program, Active, Now(Top), f.repeat_remaining, f.repeat_enter_pc, next, r)
        PROVE  RunInv'
    <2>. HIDE DEF r
    <2>. QED  BY <1>1, <1>3, <1>4, <1>5, WithinRun
  <1>6. ASSUME NEW k \in 0..MaxRepeat, NEW e \in Nat \cup {None}
        PROVE  LET f == [Top EXCEPT !.repeat_remaining = k, !.repeat_enter_pc = e]
               IN  /\ f \in FrameType /\ SameCall(f, Top) /\ Bits(f) /\ Now(f) = Now(Top)
                   /\ f.repeat_remaining = k /\ f.repeat_enter_pc = e
    BY <1>2 DEF FrameType, SameCall, Bits, Now
  <1>7. CASE RepeatEnter
    <2>1. CanEnter /\ Ins.op = "REPEAT_ENTER" /\ Ins.a \in 0..MaxRepeat
          /\ Top.repeat_remaining \in Nat
      BY <1>2, <1>7, LimitsAssumption DEF RepeatEnter, CanEnter, FrameType
    <2>. DEFINE f == [Top EXCEPT !.repeat_remaining = Ins.a, !.repeat_enter_pc = pc]
    <2>2. /\ f \in FrameType /\ SameCall(f, Top) /\ Bits(f) /\ Now(f) = Now(Top)
          /\ f.repeat_remaining = Ins.a /\ f.repeat_enter_pc = pc
      BY <1>2, <1>6, <2>1
    <2>3. Advance(IF Top.repeat_remaining > 0 THEN Top ELSE f, pc + 1)
      BY <1>7 DEF RepeatEnter
    <2>. HIDE DEF f
    <2>4. \/ Top.repeat_remaining = 0
             /\ InFunction(program, Active, Now(Top), Ins.a, pc, pc + 1, r)
          \/ Top.repeat_remaining > 0
             /\ InFunction(program, Active, Now(Top), Top.repeat_remaining,
                           Top.repeat_enter_pc, pc + 1, r)
      BY <1>3, <2>1 DEF Leads, Ins
    <2>5. CASE Top.repeat_remaining = 0
      <3>1. Advance(f, pc + 1)
        BY <2>3, <2>5
      <3>. QED  BY <1>5, <2>2, <2>4, <2>5, <3>1
    <2>6. CASE Top.repeat_remaining > 0
      <3>1. Advance(Top, pc + 1)
        BY <2>3, <2>6
      <3>2. InFunction(program, Active, Now(Top), Top.repeat_remaining,
                       Top.repeat_enter_pc, pc + 1, r)
        BY <2>4, <2>6
      <3>. QED  BY <1>2, <1>5, <3>1, <3>2
    <2>. QED  BY <2>1, <2>5, <2>6
  <1>8. CASE RepeatNext
    <2>1. Ins.op = "REPEAT_NEXT" /\ Top.repeat_remaining > 0 /\ Top.repeat_remaining \in 0..MaxRepeat
      BY <1>2, <1>8 DEF RepeatNext, CanNext, FrameType
    <2>. DEFINE k == Top.repeat_remaining
                e == Top.repeat_enter_pc
    <2>2. /\ Ins.imm = e /\ e \in Nat \cup {None}
          /\ IF k > 1 THEN InFunction(program, Active, Now(Top), k - 1, e, e, r)
             ELSE InFunction(program, Active, Now(Top), 0, None, pc + 1, r)
      BY <1>2, <1>3, <2>1 DEF Leads, Ins, FrameType
    <2>3. CASE k > 1
      <3>. DEFINE f == [Top EXCEPT !.repeat_remaining = @ - 1]
      <3>1. f = [Top EXCEPT !.repeat_remaining = k - 1, !.repeat_enter_pc = e]
        BY <1>2 DEF FrameType
      <3>2. k - 1 \in 0..MaxRepeat
        BY <2>1, <2>3, LimitsAssumption
      <3>. HIDE DEF k, e
      <3>3. LET g == [Top EXCEPT !.repeat_remaining = k - 1, !.repeat_enter_pc = e]
            IN  /\ g \in FrameType /\ SameCall(g, Top) /\ Bits(g) /\ Now(g) = Now(Top)
                /\ g.repeat_remaining = k - 1 /\ g.repeat_enter_pc = e
        BY <1>6, <2>2, <3>2
      <3>4. Advance(f, Ins.imm)
        BY <1>8, <2>3 DEF RepeatNext, k
      <3>. HIDE DEF f
      <3>5. /\ f \in FrameType /\ SameCall(f, Top) /\ Bits(f) /\ Now(f) = Now(Top)
            /\ f.repeat_remaining = k - 1 /\ f.repeat_enter_pc = e
        BY <3>1, <3>3
      <3>6. InFunction(program, Active, Now(Top), f.repeat_remaining, f.repeat_enter_pc, Ins.imm, r)
        BY <2>2, <2>3, <3>5
      <3>. QED  BY <1>5, <3>4, <3>5, <3>6
    <2>4. CASE ~(k > 1)
      <3>. DEFINE f == [Top EXCEPT !.repeat_remaining = 0, !.repeat_enter_pc = None]
      <3>1. /\ f \in FrameType /\ SameCall(f, Top) /\ Bits(f) /\ Now(f) = Now(Top)
            /\ f.repeat_remaining = 0 /\ f.repeat_enter_pc = None
        <4>1. 0 \in 0..MaxRepeat /\ None \in Nat \cup {None}
          BY LimitsAssumption
        <4>. QED  BY <1>6, <4>1
      <3>2. Advance(f, pc + 1)
        BY <1>8, <2>4 DEF RepeatNext
      <3>. HIDE DEF f, r
      <3>3. InFunction(program, Active, Now(Top), 0, None, pc + 1, r)
        BY <2>2, <2>4
      <3>4. InFunction(program, Active, Now(Top), f.repeat_remaining, f.repeat_enter_pc, pc + 1, r)
        BY <3>1, <3>3
      <3>. QED  BY <1>5, <3>1, <3>2, <3>4
    <2>. QED  BY <2>3, <2>4
  <1>. QED  BY <1>7, <1>8

\* A jump leaves no more to do than the cost of the longer branch.
LEMMA JumpRun == ASSUME IInv, RunInv, Branch \/ Jump PROVE RunInv'
  <1>1. Fetched /\ depth > 0
    BY DEF Branch, Jump, CanBranch, CanJump, Forward
  <1>2. Bits(Top) /\ Top \in FrameType /\ SameCall(Top, Top) /\ pc \in Pcs(program)
    BY <1>1, WhileRunning, FetchedType DEF Fetched, StackOK, Top, SameCall
  <1>3. PICK rest \in Nat : \E due \in [0..depth -> Nat] :
          /\ rest >= 1 /\ rest - 1 \in Nat
          /\ Due(due) /\ Spends(executed + rest + due[depth])
          /\ Leads(program, Active, Now(Top), Top.repeat_remaining, Top.repeat_enter_pc, pc, rest)
    BY <1>1, Within
  <1>4. ASSUME NEW next, Advance(Top, next), NEW r \in Nat,
               InFunction(program, Active, Now(Top), Top.repeat_remaining, Top.repeat_enter_pc, next, r),
               r + 1 <= rest, Straight(program) => r + 1 = rest
        PROVE  RunInv'
    BY <1>1, <1>2, <1>3, <1>4, WithinRun
  <1>5. CASE Branch
    <2>1. Ins.op = "JUMP_IF_FALSE" /\ ~Straight(program)
      BY <1>2, <1>5 DEF Branch, CanBranch, Straight, Ins
    <2>2. /\ \E n \in Nat : n + 1 <= rest /\ InFunction(program, Active, Now(Top),
               Top.repeat_remaining, Top.repeat_enter_pc, pc + 1, n)
          /\ \E n \in Nat : n + 1 <= rest /\ InFunction(program, Active, Now(Top),
               Top.repeat_remaining, Top.repeat_enter_pc, Ins.imm, n)
      BY <1>3, <2>1 DEF Leads, Ins
    <2>3. Advance(Top, Ins.imm) \/ Advance(Top, pc + 1)
      BY <1>5 DEF Branch
    <2>. QED  BY <1>4, <2>1, <2>2, <2>3
  <1>6. CASE Jump
    <2>1. Ins.op = "JUMP" /\ Advance(Top, Ins.imm)
      BY <1>6 DEF Jump, CanJump
    <2>. DEFINE r == rest - 1
    <2>2. InFunction(program, Active, Now(Top), Top.repeat_remaining, Top.repeat_enter_pc, Ins.imm, r)
      BY <1>3, <2>1 DEF Leads, Ins
    <2>3. r \in Nat /\ r + 1 = rest /\ r + 1 <= rest
      BY <1>3
    <2>. HIDE DEF r
    <2>. QED  BY <1>4, <2>1, <2>2, <2>3
  <1>. QED  BY <1>5, <1>6

\* After the emit only END is left.
LEMMA EmitRun == ASSUME IInv, RunInv, Emit PROVE RunInv'
  <1>1. Fetched /\ Ins.op = "U32_EMIT" /\ depth = 0 /\ emitted = {}
    BY DEF Emit, CanEmit
  <1>2. /\ status = "running" /\ StackOK /\ Budget /\ executed \in Nat /\ bound \in Nat
    BY <1>1, WhileRunning DEF Fetched
  <1>3. PICK rest \in Nat : \E due \in [0..depth -> Nat] :
           Place(Top, pc, rest) /\ Due(due) /\ Spends(executed + rest + due[depth])
    BY <1>2 DEF Budget
  <1>4. PICK due \in [0..depth -> Nat] :
           Place(Top, pc, rest) /\ Due(due) /\ Spends(executed + rest + due[depth])
    BY <1>3
  <1>5. MainLeads(program, Now(Top), Top.repeat_remaining, pc, rest) /\ due[depth] = 0
    BY <1>1, <1>2, <1>4, HereLeads
  <1>. PICK r \in Nat : r = MainCost(program)[pc + 1]
    BY <1>1, <1>5 DEF MainLeads, Ins
  <1>6. /\ Top.repeat_remaining = 0 /\ pc + 1 = Size(program) - 1
        /\ rest = 1 + r
    BY <1>1, <1>5 DEF MainLeads, Ins
  <1>7. /\ emitted' # {} /\ pc' = pc + 1 /\ executed' = executed + 1
        /\ UNCHANGED <<program, given, status, frames, depth, bound>>
    BY DEF Emit
  <1>8. Place(Top, pc, r)'
    BY <1>1, <1>6, <1>7 DEF Place, InMain, Top
  <1>9. Due(due)'
    BY <1>1, <1>4, <1>7 DEF Due
  <1>10. Spends(executed + r + due[depth])'
    <2>1. executed + 1 + r + 0 <= bound /\ (Straight(program) => executed + 1 + r + 0 = bound)
      BY <1>2, <1>4, <1>5, <1>6 DEF Spends
    <2>. QED  BY <1>5, <1>7, <2>1 DEF Spends, Straight
  <1>11. Budget'
    BY <1>1, <1>2, <1>6, <1>7, <1>8, <1>9, <1>10 DEF Budget
  <1>12. StackOK'
    BY <1>1, <1>2, <1>7 DEF StackOK, Bits, Chained
  <1>. QED  BY <1>11, <1>12 DEF RunInv

\* The run begins with the whole bound to spend and the inputs in place.
LEMMA LoadRun == ASSUME IInv, Load \/ Refuse PROVE RunInv'
  <1>1. CASE Refuse
    BY <1>1 DEF Refuse, RunInv
  <1>2. CASE Load
    <2>1. status = "loading" /\ depth = 0
      BY <1>2 DEF Load, IInv, NotBegun
    <2>2. RunsWithFrames(program)
      BY ProgramsAssumption DEF IInv, Checked
    <2>3. FunctionContract(program) /\ bound' = FunctionBound(program)
      BY <1>2, <2>2 DEF Load, Accepted, IsTypedScalarProgram, ExecutionStepBound
    <2>4. Sound(program)
      BY <2>3 DEF IInv, TypeOK, Sound
    <2>. DEFINE f == Opened(program.scalars, given)
    <2>5. /\ frames' = [frames EXCEPT ![0] = f] /\ frames \in [Depths -> FrameType]
          /\ 0 \in Depths /\ pc' = program.main
          /\ UNCHANGED <<program, given, depth, executed, emitted>>
      BY <1>2, LimitsAssumption DEF Load, IInv, TypeOK, Depths
    <2>6. frames'[0] = f /\ Top' = f
      BY <2>1, <2>5 DEF Top
    <2>7. DOMAIN given = 0..(program.inputs - 1)
      <3>1. program.inputs \in Nat /\ Cardinality(DOMAIN given) = program.inputs
        BY <1>2 DEF Load, Accepted, IInv, TypeOK, IsBytecode
      <3>2. CASE given = <<>>
        <4>1. DOMAIN given = {} /\ program.inputs = 0
          BY <3>1, <3>2, FS_EmptySet
        <4>. QED  BY <4>1
      <3>3. CASE given \in [0..(program.inputs - 1) -> U32]
        BY <3>3
      <3>. QED  BY <3>2, <3>3 DEF IInv, TypeOK, Bindings
    <2>8. Now(f) = MainKnown(program) /\ f.repeat_remaining = 0 /\ f.bools = {}
      BY <2>7 DEF Opened, Frame, Now, MainKnown
    <2>9. MainScanned(program, program.main, MainKnown(program))
          /\ program.main \in Nat /\ Size(program) \in Nat /\ program.main + 1 < Size(program)
      BY <2>4, MainEntry
    <2>. PICK rest \in Nat : rest = MainCost(program)[program.main]
      <3>1. program.main \in program.main..Size(program)
        BY <2>9
      <3>. QED  BY <2>4, <3>1, MainCostSolves
    <2>10. bound' = rest
      BY <2>3 DEF FunctionBound
    <2>11. emitted = {} /\ executed = 0
      BY <2>1 DEF IInv, NotBegun
    <2>12. StackOK'
      <3>1. Bits(f)
        BY <2>8 DEF Bits
      <3>2. \A d \in 0..0 : d = 0
        OBVIOUS
      <3>3. /\ depth' = 0 /\ emitted' = {}
            /\ (1..0 = {}) /\ (0..(0 - 1) = {})
        BY <2>1, <2>5, <2>11
      <3>4. Bits(frames'[0])
        BY <2>6, <3>1
      <3>. HIDE DEF f
      <3>. QED  BY <3>2, <3>3, <3>4 DEF StackOK, Chained, Bits
    <2>13. Budget'
      <3>1. PICK due \in [0..0 -> Nat] : due[0] = 0
        <4>1. [d \in 0..0 |-> 0] \in [0..0 -> Nat] /\ [d \in 0..0 |-> 0][0] = 0
          OBVIOUS
        <4>. QED  BY <4>1
      <3>5. due \in [0..depth' -> Nat] /\ due[0] = 0 /\ depth' = 0 /\ depth = 0
        BY <2>1, <2>5, <3>1
      <3>. HIDE DEF f
      <3>2. Place(Top, pc, rest)'
        <4>1. InMain(program, Now(f), 0, program.main, rest)
          BY <2>8, <2>9, <2>11 DEF InMain
        <4>. QED  BY <2>5, <2>6, <2>8, <3>5, <2>9, <2>11 DEF Place, InMain
      <3>3. Due(due)'
        BY <3>5 DEF Due
      <3>4. Spends(executed + rest + due[depth])'
        <4>1. executed' + rest + due[0] = bound' /\ bound' \in Nat
          BY <2>5, <2>10, <2>11, <3>5
        <4>. QED  BY <3>5, <4>1 DEF Spends
      <3>. QED  BY <2>10, <3>5, <3>2, <3>3, <3>4 DEF Budget
    <2>. QED  BY <2>12, <2>13 DEF RunInv
  <1>. QED  BY <1>1, <1>2

\* Where the code of the frame at depth d is when it has come to i, knowing s.
Reached(d, f, i, s) ==
    IF d = 0 THEN MainScanned(program, i, s)
    ELSE Scanned(program, Func(program, f.function_index), i, s)

CostAt(d, i) == IF d = 0 THEN MainCost(program)[i] ELSE CostFrom(program)[i]

\* What is known where a function is called.
LEMMA AtCall ==
    ASSUME IInv, RunInv, Fetched, CanCall
    PROVE  \E rest \in Nat : \E due \in [0..depth -> Nat] : \E back \in Nat : \E body \in Nat :
             /\ Due(due) /\ Spends(executed + rest + due[depth])
             /\ back = CostAt(depth, pc + 1)
             /\ body = CostFrom(program)[program.functions[Ins.imm].entry]
             /\ rest = 1 + body + back
             /\ Top.repeat_remaining = 0 /\ emitted = {}
             /\ Reached(depth, Top, pc + 1, After(Ins, Now(Top)))
  <1>1. /\ status = "running" /\ Sound(program) /\ StackOK /\ Budget /\ depth \in Nat
        /\ Ins.op = "CALL" /\ Ins.imm \in DOMAIN program.functions
    BY WhileRunning DEF Fetched, CanCall
  <1>2. PICK rest \in Nat : \E due \in [0..depth -> Nat] :
           Place(Top, pc, rest) /\ Due(due) /\ Spends(executed + rest + due[depth])
    BY <1>1 DEF Budget
  <1>3. PICK due \in [0..depth -> Nat] :
           Place(Top, pc, rest) /\ Due(due) /\ Spends(executed + rest + due[depth])
    BY <1>2
  <1>. PICK body \in Nat : body = CostFrom(program)[program.functions[Ins.imm].entry]
    BY <1>1, EntryCost
  <1>4. CASE depth = 0
    <2>1. MainLeads(program, Now(Top), Top.repeat_remaining, pc, rest)
      BY <1>1, <1>3, <1>4, HereLeads
    <2>2. emitted = {} /\ Ins.op \notin {"END", "U32_EMIT"}
      BY <1>1, <2>1 DEF MainLeads, Ins
    <2>. PICK back \in Nat : back = MainCost(program)[pc + 1]
      BY <2>1, <2>2 DEF MainLeads, Ins
    <2>3. /\ Top.repeat_remaining = 0
          /\ MainScanned(program, pc + 1, After(Ins, Now(Top)))
          /\ rest = 1 + body + back
      BY <1>1, <2>1, <2>2, Zenon DEF MainLeads, Ins
    <2>4. Reached(depth, Top, pc + 1, After(Ins, Now(Top))) /\ back = CostAt(depth, pc + 1)
      BY <1>4, <2>3 DEF Reached, CostAt
    <2>. QED  BY <1>3, <2>2, <2>3, <2>4
  <1>5. CASE depth > 0
    <2>6. depth # 0
      BY <1>1, <1>5
    <2>1. Leads(program, Active, Now(Top), Top.repeat_remaining, Top.repeat_enter_pc, pc, rest)
      BY <1>1, <1>3, <1>5, HereLeads
    <2>2. Ins.op \in Others
      BY <1>1 DEF Others, Opcodes, Set
    <2>. PICK back \in Nat : back = CostFrom(program)[pc + 1]
      BY <2>1, <2>2 DEF Leads, Ins
    <2>3. /\ Top.repeat_remaining = 0
          /\ Scanned(program, Active, pc + 1, After(Ins, Now(Top)))
          /\ rest = 1 + body + back
      BY <1>1, <2>1, <2>2, Zenon DEF Leads, Ins
    <2>4. Reached(depth, Top, pc + 1, After(Ins, Now(Top))) /\ back = CostAt(depth, pc + 1)
      BY <2>3, <2>6 DEF Reached, CostAt, Active, Func
    <2>5. emitted = {}
      BY <1>1, <1>5 DEF StackOK
    <2>. QED  BY <1>3, <2>3, <2>4, <2>5
  <1>6. depth = 0 \/ depth > 0
    BY <1>1
  <1>. QED  BY <1>4, <1>5, <1>6, Zenon

\* The functions on the stack still begin a chain of calls when one more is
\* called.
LEMMA ChainLonger ==
    ASSUME IInv, RunInv, Fetched, CanCall, NEW k \in 1..(MaxCallDepth + 1),
           Ins.imm \in CallChains(program)[k], k + depth + 1 <= MaxCallDepth + 2
    PROVE  CallChains(program)[k + depth] # {}
  <1>. DEFINE C == CallChains(program)
              g == frames[depth].function_index
  <1>1. /\ StackOK /\ depth \in Nat /\ Ins.op = "CALL" /\ MaxCallDepth \in Nat
    BY WhileRunning, LimitsAssumption DEF Fetched, CanCall
  <1>2. CASE depth = 0
    BY <1>1, <1>2
  <1>3. CASE depth > 0
    <2>1. g \in DOMAIN program.functions /\ depth \in 1..depth
      BY <1>1, <1>3 DEF StackOK
    <2>2. Ins.imm \in Calls(program, g)
      <3>1. pc \in program.functions[g].entry..(program.functions[g].end - 1)
        BY <1>1, <1>3 DEF Fetched, Active, Top
      <3>. QED  BY <1>1, <3>1 DEF Calls, Ins
    <2>3. k \in 1..MaxCallDepth /\ k + 1 \in 1..(MaxCallDepth + 1)
          /\ (k + 1) + depth <= MaxCallDepth + 2 /\ (k + 1) + depth - 1 = k + depth
      BY <1>1, <1>3
    <2>4. g \in C[k + 1]
      <3>1. Calls(program, g) \cap C[k] # {}
        BY <2>2
      <3>. HIDE DEF C, g
      <3>. QED  BY <2>1, <2>3, <3>1, ChainsGrow DEF C
    <2>5. C[(k + 1) + depth - 1] # {}
      <3>1. \A m \in 1..(MaxCallDepth + 1) :
               g \in C[m] /\ m + depth <= MaxCallDepth + 2 => C[m + depth - 1] # {}
        BY <1>1, <2>1 DEF StackOK, Chained
      <3>. HIDE DEF C, g
      <3>. QED  BY <2>3, <2>4, <3>1
    <2>. HIDE DEF C
    <2>. QED  BY <2>3, <2>5 DEF C
  <1>. QED  BY <1>1, <1>2, <1>3

\* A call splits what is left into the callee's part and what the caller
\* owes after it.
LEMMA CallRun == ASSUME IInv, RunInv, Call PROVE RunInv'
  <1>1. /\ Fetched /\ CanCall /\ status = "running" /\ depth < MaxCallDepth
        /\ Ins.imm \in DOMAIN program.functions
    BY DEF Call, Fetched, CanCall
  <1>2. /\ Sound(program) /\ StackOK /\ depth \in Nat /\ depth \in Depths
        /\ executed \in Nat /\ bound \in Nat /\ frames \in [Depths -> FrameType]
        /\ pc \in Nat
    BY <1>1, WhileRunning DEF IInv, TypeOK
  <1>. DEFINE i == Ins.imm
              fn == program.functions[i]
              f == [Opened(fn.scalars, Args) EXCEPT
                      !.return_pc = pc + 1, !.return_destination = Ins.a,
                      !.function_index = i]
  <1>3. PICK rest \in Nat : \E due \in [0..depth -> Nat] : \E back \in Nat : \E body \in Nat :
             /\ Due(due) /\ Spends(executed + rest + due[depth])
             /\ back = CostAt(depth, pc + 1)
             /\ body = CostFrom(program)[fn.entry]
             /\ rest = 1 + body + back
             /\ Top.repeat_remaining = 0 /\ emitted = {}
             /\ Reached(depth, Top, pc + 1, After(Ins, Now(Top)))
    BY <1>1, AtCall
  <1>4. PICK due \in [0..depth -> Nat] : \E back \in Nat : \E body \in Nat :
             /\ Due(due) /\ Spends(executed + rest + due[depth])
             /\ back = CostAt(depth, pc + 1)
             /\ body = CostFrom(program)[fn.entry]
             /\ rest = 1 + body + back
             /\ Top.repeat_remaining = 0 /\ emitted = {}
             /\ Reached(depth, Top, pc + 1, After(Ins, Now(Top)))
    BY <1>3
  <1>5. PICK back \in Nat : \E body \in Nat :
             /\ Due(due) /\ Spends(executed + rest + due[depth])
             /\ back = CostAt(depth, pc + 1)
             /\ body = CostFrom(program)[fn.entry]
             /\ rest = 1 + body + back
             /\ Top.repeat_remaining = 0 /\ emitted = {}
             /\ Reached(depth, Top, pc + 1, After(Ins, Now(Top)))
    BY <1>4
  <1>6. PICK body \in Nat :
             /\ Due(due) /\ Spends(executed + rest + due[depth])
             /\ back = CostAt(depth, pc + 1)
             /\ body = CostFrom(program)[fn.entry]
             /\ rest = 1 + body + back
             /\ Top.repeat_remaining = 0 /\ emitted = {}
             /\ Reached(depth, Top, pc + 1, After(Ins, Now(Top)))
    BY <1>5
  <1>7. /\ f.return_pc = pc + 1 /\ f.function_index = i /\ f.repeat_remaining = 0
        /\ f.bools = {} /\ Now(f) = Known0(fn)
    <2>1. DOMAIN Args = 0..(fn.params - 1)
      BY DEF Args
    <2>. QED  BY <2>1 DEF Opened, Frame, Now, Known0
  <1>8. /\ frames' = [frames EXCEPT ![depth + 1] = f] /\ depth' = depth + 1
        /\ pc' = fn.entry /\ executed' = executed + 1
        /\ UNCHANGED <<program, given, status, bound, emitted>>
    BY DEF Call
  <1>9. AtLine(program, fn, Now(f), f.repeat_remaining, fn.entry, body)
    <2>1. Scanned(program, fn, fn.entry, Known0(fn))
      BY <1>1, <1>2, FunctionScanned DEF Func
    <2>. HIDE DEF f
    <2>. QED  BY <1>6, <1>7, <2>1 DEF AtLine
  <1>. HIDE DEF f
  <1>10. /\ depth + 1 \in Depths
         /\ \A d \in 0..depth : d \in Depths /\ d # depth + 1 /\ frames'[d] = frames[d]
         /\ frames'[depth + 1] = f
    BY <1>1, <1>2, <1>8, LimitsAssumption DEF Depths
  <1>11. /\ \A d \in 0..(depth - 1) : d \in 0..depth /\ d + 1 \in 0..depth /\ d # depth
         /\ \A d \in 0..((depth + 1) - 1) : d = depth \/ d \in 0..(depth - 1)
         /\ \A d \in 0..(depth + 1) : d = depth + 1 \/ d \in 0..depth
         /\ \A d \in 1..(depth + 1) : d = depth + 1 \/ (d \in 1..depth /\ d \in 0..depth)
         /\ depth \in 0..depth
    BY <1>2
  <1>12. StackOK'
    <2>1. \A d \in 1..(depth + 1) : frames'[d].function_index \in DOMAIN program.functions
      BY <1>1, <1>2, <1>7, <1>10, <1>11 DEF StackOK
    <2>2. \A d \in 0..(depth + 1) : Bits(frames'[d])
      <3>1. Bits(f)
        BY <1>7 DEF Bits
      <3>. QED  BY <1>2, <1>10, <1>11, <3>1 DEF StackOK
    <2>3. ASSUME NEW d \in 0..((depth + 1) - 1) PROVE Waits(d)'
      <3>1. CASE d = depth
        <4>1. frames'[d] = Top /\ frames'[d + 1].return_pc = pc + 1 /\ (pc + 1) - 1 = pc
          BY <1>2, <1>7, <1>10, <1>11, <3>1 DEF Top
        <4>2. program.code[(pc + 1) - 1] = Ins
          BY <4>1 DEF Ins
        <4>3. Top.repeat_remaining = 0
              /\ IF d = 0 THEN MainScanned(program, pc + 1, After(Ins, Now(Top)))
                 ELSE Scanned(program, Func(program, Top.function_index), pc + 1, After(Ins, Now(Top)))
          BY <1>6, <3>1 DEF Reached
        <4>. QED  BY <1>8, <4>1, <4>2, <4>3 DEF Waits
      <3>2. CASE d \in 0..(depth - 1)
        <4>1. Waits(d)
          BY <1>2, <3>2 DEF StackOK
        <4>2. frames'[d] = frames[d] /\ frames'[d + 1] = frames[d + 1]
          BY <1>10, <1>11, <3>2
        <4>. QED  BY <1>8, <4>1, <4>2 DEF Waits
      <3>. QED  BY <1>11, <3>1, <3>2
    <2>4. Chained'
      <3>1. ASSUME NEW d \in 1..(depth + 1), NEW k \in 1..(MaxCallDepth + 1),
                   frames'[d].function_index \in CallChains(program)[k], k + d <= MaxCallDepth + 2
            PROVE  CallChains(program)[k + d - 1] # {}
        <4>1. CASE d = depth + 1
          <5>1. Ins.imm \in CallChains(program)[k] /\ k + depth + 1 <= MaxCallDepth + 2
                /\ k + d - 1 = k + depth
            BY <1>2, <1>7, <1>10, <3>1, <4>1
          <5>. QED  BY <1>1, <5>1, ChainLonger
        <4>2. CASE d \in 1..depth /\ d \in 0..depth
          <5>1. frames[d].function_index \in CallChains(program)[k]
            BY <1>10, <3>1, <4>2
          <5>. QED  BY <1>2, <3>1, <4>2, <5>1 DEF StackOK, Chained
        <4>. QED  BY <1>11, <4>1, <4>2
      <3>. QED  BY <1>8, <3>1 DEF Chained
    <2>. QED  BY <1>6, <1>8, <2>1, <2>2, <2>3, <2>4 DEF StackOK, Bits
  <1>13. Budget'
    <2>. PICK more \in [0..(depth + 1) -> Nat] :
            more[depth + 1] = due[depth] + back /\ \A d \in 0..depth : more[d] = due[d]
      <3>. DEFINE m == [d \in 0..(depth + 1) |-> IF d = depth + 1 THEN due[depth] + back ELSE due[d]]
      <3>1. m \in [0..(depth + 1) -> Nat]
        BY <1>2, <1>11
      <3>2. m[depth + 1] = due[depth] + back /\ \A d \in 0..depth : m[d] = due[d]
        BY <1>2, <1>10
      <3>. HIDE DEF m
      <3>. QED  BY <3>1, <3>2
    <2>1. Place(Top, pc, body)'
      <3>1. Top' = f /\ depth' # 0
        BY <1>2, <1>8, <1>10 DEF Top
      <3>2. InFunction(program, Func(program, f.function_index), Now(f), f.repeat_remaining,
                       f.repeat_enter_pc, fn.entry, body)
        BY <1>7, <1>9 DEF InFunction, Func
      <3>. QED  BY <1>8, <3>1, <3>2 DEF Place
    <2>2. Due(more)'
      <3>1. ASSUME NEW d \in 0..((depth + 1) - 1) PROVE more[d + 1] = more[d] + Owed(d)'
        <4>1. CASE d = depth
          <5>1. frames'[d + 1].return_pc = pc + 1
            BY ONLY <1>7, <1>10, <4>1
          <5>2. Owed(d)' = back
            BY <1>6, <1>8, <4>1, <5>1 DEF Owed, CostAt
          <5>. QED  BY <1>11, <4>1, <5>2
        <4>2. CASE d \in 0..(depth - 1)
          <5>1. frames'[d + 1] = frames[d + 1] /\ more[d] = due[d] /\ more[d + 1] = due[d + 1]
            BY <1>10, <1>11, <4>2
          <5>2. Owed(d)' = Owed(d)
            BY <1>8, <5>1 DEF Owed
          <5>. QED  BY <1>6, <4>2, <5>1, <5>2 DEF Due
        <4>. QED  BY <1>11, <4>1, <4>2
      <3>2. more[0] = 0
        BY <1>2, <1>6 DEF Due
      <3>. QED  BY <1>8, <3>1, <3>2 DEF Due
    <2>3. Spends(executed + body + more[depth])'
      <3>. DEFINE m == due[depth]
      <3>1. m \in Nat
        BY <1>2
      <3>5. Spends(executed + rest + m)
        BY <1>6
      <3>6. more[depth'] = m + back
        BY <1>8
      <3>2. Spends(executed + rest + m) /\ more[depth'] = m + back
        BY <3>5, <3>6
      <3>. HIDE DEF m
      <3>7. rest = 1 + body + back /\ executed \in Nat
        BY <1>2, <1>6
      <3>3. executed + rest + m = (executed + 1) + body + (m + back)
        BY <3>1, <3>7
      <3>4. (executed + 1) + body + (m + back) <= bound
            /\ (Straight(program) => (executed + 1) + body + (m + back) = bound)
        BY <3>2, <3>3 DEF Spends
      <3>. QED  BY <1>8, <3>2, <3>4 DEF Spends, Straight
    <2>. QED  BY <1>2, <1>8, <2>1, <2>2, <2>3 DEF Budget
  <1>. QED  BY <1>12, <1>13 DEF RunInv

\* A frame on the stack called a function, and goes on behind that call.
LEMMA Resumes ==
    ASSUME IInv, RunInv, Fetched, NEW n \in 0..(depth - 1)
    PROVE  LET i == frames[n + 1].return_pc
               call == program.code[i - 1]
           IN  /\ call.op = "CALL" /\ call.a = frames[n + 1].return_destination
               /\ frames[n].repeat_remaining = 0
               /\ Reached(n, frames[n], i, After(call, Now(frames[n])))
               /\ CostAt(n, i) \in Nat /\ Owed(n) = CostAt(n, i)
  <1>1. /\ Sound(program) /\ StackOK /\ depth \in Nat
    BY WhileRunning DEF Fetched
  <1>2. n + 1 \in 1..depth /\ (n + 1) - 1 = n /\ n \in Nat
    BY <1>1
  <1>. DEFINE i == frames[n + 1].return_pc
              call == program.code[i - 1]
              s == After(call, Now(frames[n]))
  <1>3. call.op = "CALL" /\ call.a = frames[n + 1].return_destination
    BY <1>2 DEF IInv, CallersWait
  <1>4. Waits(n)
    BY <1>1 DEF StackOK
  <1>5. frames[n].repeat_remaining = 0 /\ Reached(n, frames[n], i, s)
    BY <1>4 DEF Waits, Reached
  <1>6. Owed(n) = CostAt(n, i)
    BY DEF Owed, CostAt
  <1>. HIDE DEF i, s
  <1>7. CostAt(n, i) \in Nat
    <2>1. CASE n = 0
      <3>1. MainScanned(program, i, s)
        BY <1>5, <2>1 DEF Reached
      <3>2. i \in program.main..Size(program)
        <4>1. i \in Nat /\ program.main <= i /\ i + 1 < Size(program)
              /\ program.main \in Nat /\ Size(program) \in Nat
          BY <1>1, <3>1, MainCases DEF Sound, IsBytecode
        <4>. QED  BY <4>1
      <3>. QED  BY <1>1, <2>1, <3>2, MainCostSolves DEF CostAt
    <2>2. CASE n # 0
      <3>1. Scanned(program, Func(program, frames[n].function_index), i, s)
        BY <1>5, <2>2 DEF Reached
      <3>2. n \in 1..depth
        BY <1>2, <2>2, <1>1
      <3>3. frames[n].function_index \in DOMAIN program.functions
        BY <1>1, <3>2 DEF StackOK
      <3>. QED  BY <1>1, <2>2, <3>1, <3>3, ScannedCost DEF CostAt
    <2>. QED  BY <2>1, <2>2
  <1>. QED  BY <1>3, <1>5, <1>6, <1>7 DEF i, s

\* A return hands the caller the slot the validator took the CALL to fill,
\* and the caller has left what it owed.
LEMMA ReturnRun == ASSUME IInv, RunInv, Return PROVE RunInv'
  <1>1. Fetched /\ CanReturn /\ depth > 0 /\ status = "running" /\ Ins.op = "RETURN"
    BY DEF Return, CanReturn, Fetched
  <1>2. /\ Sound(program) /\ StackOK /\ depth \in Nat /\ depth \in Depths
        /\ executed \in Nat /\ bound \in Nat /\ frames \in [Depths -> FrameType]
        /\ Top \in FrameType /\ emitted = {}
    BY <1>1, WhileRunning DEF IInv, TypeOK, StackOK
  <1>. PICK n \in Nat : n = depth - 1
    BY <1>1, <1>2
  <1>3. /\ n \in Depths /\ n \in 0..(depth - 1) /\ n + 1 = depth /\ n # depth
        /\ n \in 0..depth
    BY <1>1, <1>2, LimitsAssumption DEF Depths
  <1>. DEFINE to == Top.return_destination
              v == Top.values[Ins.a]
              f == Assigned(frames[n], to, v, FALSE)
  <1>4. PICK rest \in Nat : \E due \in [0..depth -> Nat] :
          /\ rest >= 1 /\ rest - 1 \in Nat
          /\ Due(due) /\ Spends(executed + rest + due[depth])
          /\ Leads(program, Active, Now(Top), Top.repeat_remaining, Top.repeat_enter_pc, pc, rest)
    BY <1>1, Within
  <1>5. PICK due \in [0..depth -> Nat] :
          /\ Due(due) /\ Spends(executed + rest + due[depth])
          /\ Leads(program, Active, Now(Top), Top.repeat_remaining, Top.repeat_enter_pc, pc, rest)
    BY <1>4
  <1>6. rest = 1
    BY <1>1, <1>5 DEF Leads, Ins
  <1>. PICK i : i = Top.return_pc
    OBVIOUS
  <1>7. frames[n + 1] = Top
    BY <1>3 DEF Top
  <1>. DEFINE call == program.code[i - 1]
  <1>8. /\ call.op = "CALL" /\ call.a = to /\ frames[n].repeat_remaining = 0
        /\ Reached(n, frames[n], i, After(call, Now(frames[n])))
        /\ CostAt(n, i) \in Nat /\ Owed(n) = CostAt(n, i)
    BY <1>1, <1>3, <1>7, Resumes
  <1>9. frames[n] \in FrameType
    BY <1>2, <1>3
  <1>10. to \in Slots
    <2>1. depth - 1 = n
      BY <1>2, <1>3
    <2>2. to < frames[n].n /\ to \in Nat
      BY <1>1, <1>2, <2>1 DEF CanReturn, FrameType
    <2>3. frames[n].n \in 0..MaxScalars
      BY <1>9 DEF FrameType
    <2>. HIDE DEF to
    <2>. QED  BY <2>2, <2>3, LimitsAssumption DEF Slots
  <1>11. v \in U32
    BY <1>1, FetchedType DEF CanReturn, Reads, Instruction
  <1>12. /\ frames' = [frames EXCEPT ![depth] = Cleared, ![n] = f] /\ depth' = n
         /\ pc' = i /\ executed' = executed + 1
         /\ UNCHANGED <<program, given, status, bound, emitted>>
    BY <1>2, <1>3 DEF Return
  <1>13. Now(f) = After(call, Now(frames[n]))
    <2>1. call.op \notin Compare
      BY <1>8 DEF Compare
    <2>2. Now(Assigned(frames[n], call.a, v, FALSE)) = After(call, Now(frames[n]))
      BY <1>9, <2>1, NowAfter
    <2>. QED  BY <1>8, <2>2
  <1>14. /\ f.repeat_remaining = 0 /\ f.function_index = frames[n].function_index
         /\ f.return_pc = frames[n].return_pc
    BY <1>8, <1>9 DEF Assigned, FrameType
  <1>15. Bits(f)
    <2>1. Bits(frames[n])
      BY <1>2, <1>3 DEF StackOK
    <2>. HIDE DEF to, v
    <2>. QED  BY <1>9, <1>10, <2>1, BitsAssigned
  <1>. HIDE DEF f, to, v
  <1>16. frames'[n] = f /\ Top' = f
    BY <1>2, <1>3, <1>12 DEF Top
  <1>17. /\ \A d \in 0..(n - 1) : /\ frames'[d] = frames[d] /\ d \in 0..(depth - 1)
                                  /\ frames'[d + 1].return_pc = frames[d + 1].return_pc
         /\ \A d \in 1..n : /\ frames'[d].function_index = frames[d].function_index
                            /\ d \in 1..depth
         /\ \A d \in 0..n : d = n \/ d \in 0..(n - 1)
    <2>1. ASSUME NEW d \in 0..n, d # n PROVE frames'[d] = frames[d]
      BY <1>2, <1>3, <1>12, <2>1, LimitsAssumption DEF Depths
    <2>2. ASSUME NEW d \in 0..(n - 1)
          PROVE  d \in 0..n /\ d # n /\ d + 1 \in 0..n /\ d \in 0..(depth - 1)
      BY <1>3
    <2>3. ASSUME NEW d \in 1..n PROVE d \in 0..n /\ d \in 1..depth
      BY <1>3
    <2>4. \A d \in 0..n : /\ frames'[d].function_index = frames[d].function_index
                          /\ frames'[d].return_pc = frames[d].return_pc
      BY <1>14, <1>16, <2>1
    <2>5. \A d \in 0..n : d = n \/ d \in 0..(n - 1)
      BY <1>3
    <2>. QED  BY <2>1, <2>2, <2>3, <2>4, <2>5
  <1>18. StackOK'
    <2>1. \A d \in 1..n : frames'[d].function_index \in DOMAIN program.functions
      BY <1>2, <1>17 DEF StackOK
    <2>2. \A d \in 0..n : Bits(frames'[d])
      <3>1. \A d \in 0..(n - 1) : Bits(frames[d])
        <4>1. \A d \in 0..(n - 1) : d \in 0..depth
          BY <1>3
        <4>. QED  BY <1>2, <4>1 DEF StackOK
      <3>. QED  BY <1>15, <1>16, <1>17, <3>1
    <2>3. ASSUME NEW d \in 0..(n - 1) PROVE Waits(d)'
      <3>1. Waits(d)
        BY <1>2, <1>17 DEF StackOK
      <3>2. frames'[d] = frames[d] /\ frames'[d + 1].return_pc = frames[d + 1].return_pc
        BY <1>17
      <3>. QED  BY <1>12, <3>1, <3>2 DEF Waits
    <2>4. Chained'
      BY <1>2, <1>12, <1>17 DEF StackOK, Chained
    <2>. QED  BY <1>2, <1>12, <2>1, <2>2, <2>3, <2>4 DEF StackOK, Bits
  <1>19. Budget'
    <2>. PICK r \in Nat : r = CostAt(n, i)
      BY <1>8
    <2>. PICK less \in [0..n -> Nat] : \A d \in 0..n : less[d] = due[d]
      <3>. DEFINE m == [d \in 0..n |-> due[d]]
      <3>1. \A d \in 0..n : d \in 0..depth
        BY <1>3
      <3>2. m \in [0..n -> Nat]
        BY <3>1
      <3>. QED  BY <3>2
    <2>1. Place(Top, pc, r)'
      <3>1. CASE n = 0
        <4>1. MainScanned(program, i, Now(f)) /\ r = MainCost(program)[i]
          BY <1>8, <1>13, <3>1 DEF Reached, CostAt
        <4>. QED  BY <1>2, <1>12, <1>14, <1>16, <3>1, <4>1 DEF Place, InMain
      <3>2. CASE n # 0
        <4>1. Scanned(program, Func(program, f.function_index), i, Now(f))
              /\ r = CostFrom(program)[i]
          BY <1>8, <1>13, <1>14, <3>2 DEF Reached, CostAt
        <4>2. InFunction(program, Func(program, f.function_index), Now(f),
                         f.repeat_remaining, f.repeat_enter_pc, i, r)
          BY <1>14, <4>1 DEF InFunction, AtLine
        <4>. QED  BY <1>12, <1>16, <3>2, <4>2 DEF Place
      <3>. QED  BY <3>1, <3>2
    <2>2. Due(less)'
      <3>1. ASSUME NEW d \in 0..(n - 1) PROVE less[d + 1] = less[d] + Owed(d)'
        <4>1. d \in 0..n /\ d + 1 \in 0..n /\ d \in 0..(depth - 1)
          BY <1>3
        <4>2. Owed(d)' = Owed(d)
          <5>1. frames'[d + 1].return_pc = frames[d + 1].return_pc
            BY <1>17
          <5>. QED  BY <1>12, <5>1 DEF Owed
        <4>3. due[d + 1] = due[d] + Owed(d)
          BY <1>5, <4>1 DEF Due
        <4>4. less[d] = due[d]
          BY <4>1
        <4>5. less[d + 1] = due[d + 1]
          BY <4>1
        <4>. QED  BY <4>2, <4>3, <4>4, <4>5
      <3>2. less[0] = 0
        BY <1>5 DEF Due
      <3>. QED  BY <1>12, <3>1, <3>2 DEF Due
    <2>3. Spends(executed + r + less[depth])'
      <3>1. due[n + 1] = due[n] + Owed(n)
        BY <1>3, <1>5 DEF Due
      <3>2. due[depth] = due[n] + r /\ less[depth'] = due[n] /\ due[n] \in Nat
        BY <1>3, <1>8, <1>12, <3>1
      <3>3. executed + 1 + due[depth] = (executed + 1) + r + due[n]
        BY <1>2, <3>2
      <3>4. Spends(executed + 1 + due[depth])
        BY <1>5, <1>6
      <3>5. (executed + 1) + r + due[n] <= bound
            /\ (Straight(program) => (executed + 1) + r + due[n] = bound)
        BY <3>3, <3>4 DEF Spends
      <3>. QED  BY <1>12, <3>2, <3>5 DEF Spends, Straight
    <2>. QED  BY <1>2, <1>12, <2>1, <2>2, <2>3 DEF Budget
  <1>. QED  BY <1>18, <1>19 DEF RunInv

-----------------------------------------------------------------------------
(* What validation is worth *)

\* The inductive invariant.
Validated == IInv /\ RunInv /\ OnlySelfArgumentFails /\ BoundIsExact

\* Nothing runs at first.
LEMMA ValidatedInit == ASSUME Init PROVE Validated
  BY InitInv DEF Init, Validated, RunInv, OnlySelfArgumentFails, BoundIsExact

\* Every instruction but the last leaves the run where the validator was.
LEMMA RunningRun ==
    ASSUME IInv, RunInv,
           Const \/ Compute \/ SetSlot \/ RepeatEnter \/ RepeatNext \/ Branch \/ Jump
             \/ Call \/ Return \/ Emit
    PROVE  RunInv' /\ status' = "running"
  <1>1. RunInv'
    BY ConstRun, ComputeRun, SetSlotRun, RepeatRun, JumpRun, CallRun, ReturnRun, EmitRun
  <1>2. Fetched => status = "running"
    BY DEF Fetched
  <1>3. status' = "running"
    BY <1>2 DEF Const, Compute, SetSlot, RepeatEnter, RepeatNext, Branch, Jump, Call,
                Return, Emit, Advance
  <1>. QED  BY <1>1, <1>3

\* The run ends in a fault only at a call of the excepted kind, and at END
\* with the bound spent.
LEMMA HaltRun ==
    ASSUME IInv, RunInv, Halt
    PROVE  RunInv' /\ OnlySelfArgumentFails' /\ BoundIsExact'
  <1>1. /\ status = "running" /\ status' = Outcome /\ Outcome # "running"
        /\ UNCHANGED <<program, given, frames, depth, pc, bound, emitted>>
        /\ executed' = IF Outcome = "fault" THEN executed ELSE executed + 1
    BY DEF Halt
  <1>2. /\ Fetched /\ (Can \/ SelfArgument)
        /\ CanEnd /\ Straight(program) => executed + 1 = bound
    BY <1>1, Progress
  <1>3. RunInv'
    BY <1>1 DEF RunInv
  <1>4. OnlySelfArgumentFails'
    <2>1. Outcome = "fault" => SelfArgument
      BY <1>2 DEF Outcome
    <2>. QED  BY <1>1, <2>1 DEF OnlySelfArgumentFails, SelfArgument, Ins
  <1>5. BoundIsExact'
    <2>1. Outcome = "done" => CanEnd
      BY DEF Outcome
    <2>. QED  BY <1>1, <1>2, <2>1 DEF BoundIsExact, Straight
  <1>. QED  BY <1>3, <1>4, <1>5

\* Every step preserves the invariant.
LEMMA ValidatedNext == ASSUME Validated, [Next]_vars PROVE Validated'
  <1>1. IInv'
    BY NextInv DEF Validated
  <1>2. CASE UNCHANGED vars
    <2>1. RunInv'
      BY <1>2 DEF vars, Validated, RunInv, StackOK, Bits, Waits, Chained, Budget, Place, InMain,
                  Due, Owed, Spends, Straight, Top
    <2>. QED  BY <1>1, <1>2, <2>1
              DEF vars, Validated, OnlySelfArgumentFails, BoundIsExact, Ins, Straight
  <1>3. CASE Load \/ Refuse
    <2>1. RunInv'
      BY <1>3, LoadRun DEF Validated
    <2>2. status' \in {"running", "refused"}
      BY <1>3 DEF Load, Refuse
    <2>. QED  BY <1>1, <2>1, <2>2 DEF Validated, OnlySelfArgumentFails, BoundIsExact
  <1>4. CASE Const \/ Compute \/ SetSlot \/ RepeatEnter \/ RepeatNext \/ Branch \/ Jump
             \/ Call \/ Return \/ Emit
    <2>1. RunInv' /\ status' = "running"
      BY <1>4, RunningRun DEF Validated
    <2>. QED  BY <1>1, <2>1 DEF Validated, OnlySelfArgumentFails, BoundIsExact
  <1>5. CASE Halt
    BY <1>1, <1>5, HaltRun DEF Validated
  <1>. QED  BY <1>2, <1>3, <1>4, <1>5 DEF Next

\* A program the validator accepted runs to END or to a division by zero:
\* no check of the VM fails, neither the step budget nor the room on the
\* stack, unless a call has its own result among its arguments.
THEOREM OnlySelfArgument == Spec => []OnlySelfArgumentFails
  <1>1. Validated => OnlySelfArgumentFails
    BY DEF Validated
  <1>. QED  BY <1>1, ValidatedInit, ValidatedNext, PTL DEF Spec

\* The bound computed before the run is what a run of straight code
\* executes, calls and repeats included.
THEOREM ExactBound == Spec => []BoundIsExact
  <1>1. Validated => BoundIsExact
    BY DEF Validated
  <1>. QED  BY <1>1, ValidatedInit, ValidatedNext, PTL DEF Spec

-----------------------------------------------------------------------------
(* What a program means (ScalarMeaning) *)

Calculates == {"CONST"} \cup Arith \cup Compare \cup Set

\* The operands of a line that calculates are slots, its constant fits one.
LineInSlots(ins) ==
    /\ ins.op \in Calculates /\ ins.a \in Slots
    /\ ins.op = "CONST" => ins.imm \in U32
    /\ ins.op # "CONST" => ins.b \in Slots /\ ins.flags \in Slots

\* The lines of the repeat at enter all do.
RepeatInSlots(bc, enter) ==
    /\ enter \in Nat /\ bc.code[enter].imm \in Nat /\ enter + 1 < bc.code[enter].imm
    /\ bc.code[enter].a \in Nat
    /\ \A i \in (enter + 1)..(bc.code[enter].imm - 2) : LineInSlots(bc.code[i])

\* The slots of a run that may have divided by zero.
Maybe == SlotValues \cup {Stuck}

\* Slots with values are not Stuck, and a value is not Undefined.
LEMMA NotStuck ==
    /\ \A env \in SlotValues : env # Stuck
    /\ \A v \in U32 : v # Undefined
  <1>1. ASSUME NEW env \in SlotValues, env = <<>> PROVE FALSE
    <2>1. 0 \in DOMAIN env
      BY LimitsAssumption DEF SlotValues
    <2>2. 0 \notin DOMAIN <<>>
      OBVIOUS
    <2>. QED  BY <1>1, <2>1, <2>2
  <1>2. \A v \in U32 : v # Undefined
    BY WidthAssumption DEF U32, Undefined
  <1>. QED  BY <1>1, <1>2 DEF Stuck

\* A line has a value, unless it divides by zero.
LEMMA CalculateType ==
    ASSUME NEW ins, LineInSlots(ins), NEW env \in SlotValues
    PROVE  /\ Calculate(ins, env) \in U32 \cup {Undefined}
           /\ ins.op # "CONST" /\ Divides(ins.op) /\ env[ins.flags] = 0 =>
                Calculate(ins, env) = Undefined
           /\ ins.op = "CONST" => Calculate(ins, env) = ins.imm
           /\ ins.op \in Compare =>
                Calculate(ins, env) = Test(ins.op, env[ins.b], env[ins.flags])
           /\ ins.op \in Arith \cup Set /\ (Divides(ins.op) => env[ins.flags] # 0) =>
                Calculate(ins, env) = Apply(ins.op, env[ins.b], env[ins.flags])
  <1>. DEFINE x == env[ins.b]
              y == env[ins.flags]
  <1>1. CASE ins.op = "CONST"
    BY <1>1 DEF Calculate, LineInSlots, Divides, Arith, Compare, Set
  <1>2. CASE ins.op # "CONST"
    <2>1. x \in U32 /\ y \in U32
      BY <1>2 DEF LineInSlots, SlotValues, Slots
    <2>2. CASE ins.op \in Compare
      <3>1. Calculate(ins, env) = Test(ins.op, x, y)
        BY <1>2, <2>2 DEF Calculate
      <3>2. ~Divides(ins.op) /\ ins.op \notin Arith \cup Set
        BY <2>2 DEF Divides, Arith, Compare, Set
      <3>3. Test(ins.op, x, y) \in U32
        BY TestType
      <3>. QED  BY <1>2, <3>1, <3>2, <3>3
    <2>3. CASE ins.op \notin Compare
      <3>1. ins.op \in Arith \cup Set
        BY <1>2, <2>3 DEF LineInSlots, Calculates
      <3>2. Calculate(ins, env) = IF Divides(ins.op) /\ y = 0 THEN Undefined
                                  ELSE Apply(ins.op, x, y)
        BY <1>2, <2>3 DEF Calculate
      <3>3. (Divides(ins.op) => y # 0) => Apply(ins.op, x, y) \in U32
        BY <2>1, <3>1, ApplyType
      <3>. QED  BY <1>2, <2>3, <3>1, <3>2, <3>3
    <2>. QED  BY <2>2, <2>3
  <1>. QED  BY <1>1, <1>2

\* A line leaves slots with values, or none.
LEMMA LineType ==
    ASSUME NEW ins, LineInSlots(ins), NEW env \in Maybe
    PROVE  /\ Line(ins, env) \in Maybe
           /\ env = Stuck => Line(ins, env) = Stuck
  <1>1. CASE env = Stuck
    BY <1>1 DEF Line, Maybe
  <1>2. CASE env # Stuck
    <2>1. env \in SlotValues /\ ins.a \in Slots
      BY <1>2 DEF Maybe, LineInSlots
    <2>2. Calculate(ins, env) \in U32 \cup {Undefined}
      BY <2>1, CalculateType
    <2>3. CASE Calculate(ins, env) = Undefined
      BY <2>3 DEF Line, Maybe
    <2>4. CASE Calculate(ins, env) # Undefined
      <3>1. [env EXCEPT ![ins.a] = Calculate(ins, env)] \in SlotValues
        BY <2>1, <2>2, <2>4 DEF SlotValues, Slots
      <3>. QED  BY <1>2, <2>4, <3>1 DEF Line, Maybe
    <2>. QED  BY <1>2, <2>3, <2>4
  <1>. QED  BY <1>1, <1>2

\* A line that gives a value stores it.
LEMMA LineStores ==
    ASSUME NEW ins, NEW env \in SlotValues, NEW v \in U32, Calculate(ins, env) = v
    PROVE  Line(ins, env) = [env EXCEPT ![ins.a] = v]
  BY NotStuck DEF Line

\* The slots in a turn of a repeat are what the lines before make of them, and
\* a turn that divides by zero stays so.
LEMMA TurnSolves ==
    ASSUME NEW bc, NEW enter, RepeatInSlots(bc, enter), NEW env \in Maybe
    PROVE  LET T == InTurn(bc, enter, env)
               places == (enter + 1)..(bc.code[enter].imm - 1)
           IN  /\ T[enter + 1] = env
               /\ \A i \in places : i + 1 \in places => T[i + 1] = Line(bc.code[i], T[i])
               /\ \A i \in places : T[i] \in Maybe
               /\ \A i, j \in places : i <= j /\ T[i] = Stuck => T[j] = Stuck
  <1>. DEFINE from == enter + 1
              to == bc.code[enter].imm - 1
              D == from..to
              V == Maybe
              Out(h) == [i \in D |-> IF i = from THEN env ELSE Line(bc.code[i - 1], h[i - 1])]
              F == [h \in [D -> V] |-> Out(h)]
              N == to - from
              rank == [i \in D |-> i - from]
              T == InTurn(bc, enter, env)
  <1>1. from \in Nat /\ to \in Nat /\ from <= to
        /\ \A i \in from..(to - 1) : LineInSlots(bc.code[i])
    BY DEF RepeatInSlots
  <1>2. env \in V /\ V # {} /\ N \in Nat /\ rank \in [D -> 0..N]
    BY <1>1
  <1>3. ASSUME NEW i \in D, i # from
        PROVE  i - 1 \in D /\ rank[i - 1] < rank[i] /\ LineInSlots(bc.code[i - 1])
    <2>1. i - 1 \in D /\ i - 1 \in from..(to - 1)
      BY <1>1, <1>3
    <2>2. rank[i - 1] = (i - 1) - from /\ rank[i] = i - from
      BY <2>1
    <2>3. rank[i - 1] < rank[i]
      <3>. HIDE DEF rank
      <3>. QED  BY <1>1, <2>1, <2>2
    <2>. QED  BY <1>1, <2>1, <2>3
  <1>4. ASSUME NEW h \in [D -> V] PROVE Out(h) \in [D -> V]
    <2>1. ASSUME NEW i \in D, i # from PROVE Line(bc.code[i - 1], h[i - 1]) \in V
      <3>1. i - 1 \in D /\ LineInSlots(bc.code[i - 1])
        BY <1>3, <2>1
      <3>2. h[i - 1] \in Maybe
        <4>. HIDE DEF D
        <4>. QED  BY <3>1
      <3>. QED  BY <3>1, <3>2, LineType
    <2>. HIDE DEF V, D, from
    <2>. QED  BY <1>2, <2>1
  <1>5. ASSUME NEW g \in [D -> V], NEW h \in [D -> V], NEW i \in D,
               \A j \in D : rank[j] < rank[i] => g[j] = h[j]
        PROVE  F[g][i] = F[h][i]
    <2>1. i # from => g[i - 1] = h[i - 1]
      <3>. HIDE DEF D, rank, from
      <3>. QED  BY <1>3, <1>5
    <2>2. Out(g)[i] = Out(h)[i]
      <3>. HIDE DEF D, from
      <3>. QED  BY <2>1
    <2>. HIDE DEF Out, D, V
    <2>. QED  BY <2>2
  <1>6. \E h \in [D -> V] : h = F[h]
    <2>1. F \in [[D -> V] -> [D -> V]]
      <3>. HIDE DEF D, V, Out
      <3>. QED  BY <1>4
    <2>2. \A g, h \in [D -> V] : \A i \in D :
            (\A j \in D : rank[j] < rank[i] => g[j] = h[j]) => F[g][i] = F[h][i]
      <3>. HIDE DEF D, V, F, rank
      <3>. QED  BY <1>5
    <2>. HIDE DEF D, V, F, N, rank
    <2>3. DependsDownwards(D, V, N, rank, F)
      BY <1>2, <2>1, <2>2 DEF DependsDownwards
    <2>. QED  BY ONLY <2>3, FixedPoint
  <1>7. \E h : h = Out(h)
    <2>1. PICK h \in [D -> V] : h = F[h]
      BY <1>6
    <2>. HIDE DEF D, V, Out
    <2>. QED  BY <2>1
  <1>8. T = CHOOSE h : h = Out(h)
    BY DEF InTurn
  <1>9. T = Out(T)
    <2>. HIDE DEF Out, T
    <2>. QED  BY <1>7, <1>8
  <1>. HIDE DEF T
  <1>10. \A i \in D : T[i] = IF i = from THEN env ELSE Line(bc.code[i - 1], T[i - 1])
    <2>. HIDE DEF D, from
    <2>. QED  BY <1>9
  <1>11. ASSUME NEW i \in D, i + 1 \in D
         PROVE  T[i + 1] = Line(bc.code[i], T[i]) /\ LineInSlots(bc.code[i])
    <2>1. i + 1 # from /\ (i + 1) - 1 = i
      BY <1>1
    <2>. HIDE DEF D, from
    <2>2. T[i + 1] = Line(bc.code[(i + 1) - 1], T[(i + 1) - 1])
      BY <1>10, <1>11, <2>1
    <2>3. LineInSlots(bc.code[(i + 1) - 1])
      BY <1>3, <1>11, <2>1
    <2>. QED  BY <2>1, <2>2, <2>3
  <1>12. T[from] = env /\ from \in D
    BY <1>1, <1>10
  <1>. HIDE DEF rank, F, N, Out
  <1>13. \A i \in D : T[i] \in Maybe
    <2>. DEFINE S == {n \in Nat : from + n \in D => T[from + n] \in Maybe}
    <2>1. 0 \in S
      <3>1. from + 0 = from
        BY <1>1
      <3>. QED  BY <1>12, <3>1
    <2>2. ASSUME NEW n \in Nat, n \in S PROVE n + 1 \in S
      <3>. SUFFICES ASSUME from + (n + 1) \in D PROVE T[from + (n + 1)] \in Maybe
        OBVIOUS
      <3>1. from + n \in D /\ from + (n + 1) = (from + n) + 1
        BY <1>1
      <3>2. T[from + n] \in Maybe
        BY <2>2, <3>1
      <3>. DEFINE i == from + n
      <3>3. i \in D /\ i + 1 \in D /\ T[i] \in Maybe
        BY <3>1, <3>2
      <3>. HIDE DEF D, i
      <3>4. T[i + 1] = Line(bc.code[i], T[i]) /\ LineInSlots(bc.code[i])
        BY <1>11, <3>3
      <3>5. T[i + 1] \in Maybe
        BY <3>3, <3>4, LineType
      <3>. QED  BY <3>1, <3>5 DEF i
    <2>3. \A n \in Nat : n \in S
      <3>. HIDE DEF S
      <3>. QED  BY <2>1, <2>2, SetInduction
    <2>4. ASSUME NEW i \in D PROVE T[i] \in Maybe
      <3>1. i - from \in Nat /\ from + (i - from) = i
        BY <1>1
      <3>2. i - from \in S
        BY <2>3, <3>1
      <3>. QED  BY <3>1, <3>2
    <2>. QED  BY <2>4
  <1>14. ASSUME NEW i \in D, NEW j \in D, i <= j, T[i] = Stuck PROVE T[j] = Stuck
    <2>. DEFINE S == {n \in Nat : i + n \in D => T[i + n] = Stuck}
    <2>1. 0 \in S
      <3>1. i + 0 = i
        BY <1>1
      <3>. QED  BY <1>14, <3>1
    <2>2. ASSUME NEW n \in Nat, n \in S PROVE n + 1 \in S
      <3>. SUFFICES ASSUME i + (n + 1) \in D PROVE T[i + (n + 1)] = Stuck
        OBVIOUS
      <3>1. i + n \in D /\ i + (n + 1) = (i + n) + 1
        BY <1>1
      <3>2. T[i + n] = Stuck
        BY <2>2, <3>1
      <3>. DEFINE m == i + n
      <3>3. m \in D /\ m + 1 \in D /\ T[m] = Stuck
        BY <3>1, <3>2
      <3>. HIDE DEF D, m
      <3>4. T[m + 1] = Line(bc.code[m], T[m]) /\ LineInSlots(bc.code[m])
        BY <1>11, <3>3
      <3>5. T[m + 1] = Stuck
        BY <3>3, <3>4 DEF Line
      <3>. QED  BY <3>1, <3>5 DEF m
    <2>3. \A n \in Nat : n \in S
      <3>. HIDE DEF S
      <3>. QED  BY <2>1, <2>2, SetInduction
    <2>4. j - i \in Nat /\ i + (j - i) = j
      BY <1>1, <1>14
    <2>5. j - i \in S
      BY <2>3, <2>4
    <2>. QED  BY <2>4, <2>5
  <1>15. \A i \in D : i + 1 \in D => T[i + 1] = Line(bc.code[i], T[i])
    BY <1>11
  <1>16. \A i, j \in D : i <= j /\ T[i] = Stuck => T[j] = Stuck
    BY <1>14
  <1>. QED  BY <1>12, <1>13, <1>15, <1>16 DEF T

\* So are the slots after the turns.
LEMMA TurnsSolve ==
    ASSUME NEW bc, NEW enter, RepeatInSlots(bc, enter), NEW env \in Maybe
    PROVE  LET A == AfterTurns(bc, enter, env)
               to == bc.code[enter].imm - 1
               turns == 0..bc.code[enter].a
           IN  /\ A[0] = env
               /\ \A k \in turns : k + 1 \in turns => A[k + 1] = InTurn(bc, enter, A[k])[to]
               /\ \A k \in turns : A[k] \in Maybe
               /\ \A k, m \in turns : k <= m /\ A[k] = Stuck => A[m] = Stuck
  <1>. DEFINE a == bc.code[enter].a
              to == bc.code[enter].imm - 1
              D == 0..a
              V == Maybe
              Out(h) == [k \in D |-> IF k = 0 THEN env ELSE InTurn(bc, enter, h[k - 1])[to]]
              F == [h \in [D -> V] |-> Out(h)]
              rank == [k \in D |-> k]
              A == AfterTurns(bc, enter, env)
  <1>1. a \in Nat /\ env \in V /\ V # {} /\ rank \in [D -> 0..a]
    BY DEF RepeatInSlots
  <1>2. ASSUME NEW k \in D, k # 0 PROVE k - 1 \in D /\ rank[k - 1] < rank[k]
    BY <1>1, <1>2
  <1>3. ASSUME NEW s \in Maybe
        PROVE  InTurn(bc, enter, s)[to] \in Maybe /\ (s = Stuck => InTurn(bc, enter, s)[to] = Stuck)
    <2>. DEFINE T == InTurn(bc, enter, s)
                places == (enter + 1)..to
    <2>1. /\ T[enter + 1] = s
          /\ \A i \in places : T[i] \in Maybe
          /\ \A i, j \in places : i <= j /\ T[i] = Stuck => T[j] = Stuck
      BY TurnSolves
    <2>2. to \in places /\ enter + 1 \in places /\ enter + 1 <= to
      BY DEF RepeatInSlots
    <2>. HIDE DEF T, to
    <2>. QED  BY <2>1, <2>2 DEF T
  <1>4. ASSUME NEW h \in [D -> V] PROVE Out(h) \in [D -> V]
    <2>1. ASSUME NEW k \in D, k # 0 PROVE InTurn(bc, enter, h[k - 1])[to] \in V
      <3>1. h[k - 1] \in Maybe
        <4>. HIDE DEF D
        <4>. QED  BY <1>2, <2>1
      <3>. QED  BY <1>3, <3>1
    <2>. HIDE DEF V, D, to
    <2>. QED  BY <1>1, <2>1
  <1>5. ASSUME NEW g \in [D -> V], NEW h \in [D -> V], NEW i \in D,
               \A j \in D : rank[j] < rank[i] => g[j] = h[j]
        PROVE  F[g][i] = F[h][i]
    <2>1. i # 0 => g[i - 1] = h[i - 1]
      <3>. HIDE DEF D, rank
      <3>. QED  BY <1>2, <1>5
    <2>2. Out(g)[i] = Out(h)[i]
      <3>. HIDE DEF D, to
      <3>. QED  BY <2>1
    <2>. HIDE DEF Out, D, V
    <2>. QED  BY <2>2
  <1>6. \E h \in [D -> V] : h = F[h]
    <2>1. F \in [[D -> V] -> [D -> V]]
      <3>. HIDE DEF D, V, Out
      <3>. QED  BY <1>4
    <2>2. \A g, h \in [D -> V] : \A i \in D :
            (\A j \in D : rank[j] < rank[i] => g[j] = h[j]) => F[g][i] = F[h][i]
      <3>. HIDE DEF D, V, F, rank
      <3>. QED  BY <1>5
    <2>. HIDE DEF D, V, F, a, rank
    <2>3. DependsDownwards(D, V, a, rank, F)
      BY <1>1, <2>1, <2>2 DEF DependsDownwards
    <2>. QED  BY ONLY <2>3, FixedPoint
  <1>7. \E h : h = Out(h)
    <2>1. PICK h \in [D -> V] : h = F[h]
      BY <1>6
    <2>. HIDE DEF D, V, Out
    <2>. QED  BY <2>1
  <1>8. A = CHOOSE h : h = Out(h)
    BY DEF AfterTurns
  <1>9. A = Out(A)
    <2>. HIDE DEF Out, A
    <2>. QED  BY <1>7, <1>8
  <1>. HIDE DEF A
  <1>10. \A k \in D : A[k] = IF k = 0 THEN env ELSE InTurn(bc, enter, A[k - 1])[to]
    <2>. HIDE DEF D, to
    <2>. QED  BY <1>9
  <1>11. A[0] = env /\ 0 \in D
    BY <1>1, <1>10
  <1>12. ASSUME NEW k \in D, k + 1 \in D PROVE A[k + 1] = InTurn(bc, enter, A[k])[to]
    <2>1. k + 1 # 0 /\ (k + 1) - 1 = k
      BY <1>1
    <2>. HIDE DEF D, to
    <2>2. A[k + 1] = InTurn(bc, enter, A[(k + 1) - 1])[to]
      BY <1>10, <1>12, <2>1
    <2>. QED  BY <2>1, <2>2
  <1>. HIDE DEF rank, F, Out, to
  <1>13. \A k \in D : A[k] \in Maybe
    <2>. DEFINE S == {n \in Nat : n \in D => A[n] \in Maybe}
    <2>1. 0 \in S
      BY <1>11
    <2>2. ASSUME NEW n \in Nat, n \in S PROVE n + 1 \in S
      <3>. SUFFICES ASSUME n + 1 \in D PROVE A[n + 1] \in Maybe
        OBVIOUS
      <3>1. n \in D
        BY <1>1
      <3>. HIDE DEF D
      <3>2. A[n] \in Maybe /\ A[n + 1] = InTurn(bc, enter, A[n])[to]
        BY <1>12, <2>2, <3>1
      <3>. QED  BY <1>3, <3>2
    <2>3. \A n \in Nat : n \in S
      <3>. HIDE DEF S
      <3>. QED  BY <2>1, <2>2, SetInduction
    <2>4. \A k \in D : k \in Nat
      BY <1>1
    <2>. HIDE DEF D
    <2>. QED  BY <2>3, <2>4
  <1>14. ASSUME NEW k \in D, NEW m \in D, k <= m, A[k] = Stuck PROVE A[m] = Stuck
    <2>. DEFINE S == {n \in Nat : k + n \in D => A[k + n] = Stuck}
    <2>1. 0 \in S
      <3>1. k + 0 = k
        BY <1>1
      <3>. QED  BY <1>14, <3>1
    <2>2. ASSUME NEW n \in Nat, n \in S PROVE n + 1 \in S
      <3>. SUFFICES ASSUME k + (n + 1) \in D PROVE A[k + (n + 1)] = Stuck
        OBVIOUS
      <3>. DEFINE j == k + n
      <3>1. j \in D /\ k + (n + 1) = j + 1
        BY <1>1
      <3>2. A[j] = Stuck
        BY <2>2, <3>1
      <3>. HIDE DEF D, j
      <3>3. A[j + 1] = InTurn(bc, enter, A[j])[to]
        BY <1>12, <3>1
      <3>4. A[j + 1] = Stuck
        BY <1>3, <3>2, <3>3 DEF Maybe
      <3>. QED  BY <3>1, <3>4
    <2>3. \A n \in Nat : n \in S
      <3>. HIDE DEF S
      <3>. QED  BY <2>1, <2>2, SetInduction
    <2>4. m - k \in Nat /\ k + (m - k) = m
      BY <1>1, <1>14
    <2>5. m - k \in S
      BY <2>3, <2>4
    <2>. QED  BY <2>4, <2>5
  <1>15. \A k \in D : k + 1 \in D => A[k + 1] = InTurn(bc, enter, A[k])[to]
    BY <1>12
  <1>16. \A k, m \in D : k <= m /\ A[k] = Stuck => A[m] = Stuck
    BY <1>14
  <1>. QED  BY <1>11, <1>13, <1>15, <1>16 DEF A, to

\* The slots of a function called with the operands of ins.
Passed(bc, ins, env) ==
    [s \in 0..(MaxScalars - 1) |->
        CASE s = 0 /\ bc.functions[ins.imm].params > 0 -> env[ins.b]
          [] s = 1 /\ bc.functions[ins.imm].params > 1 -> env[ins.flags]
          [] OTHER -> 0]

\* The slots with a value stored.
Stored(env, a, v) == [env EXCEPT ![a] = v]

\* What a run that goes on at next, with these slots, means.
Onward(Value, next, slots) ==
    IF slots = Stuck THEN Undefined ELSE Value[<<next, slots>>]

\* The value of the function called at i.
Called(bc, Value, i, env) ==
    Value[<<bc.functions[bc.code[i].imm].entry, Passed(bc, bc.code[i], env)>>]

\* What the meaning is at one place, given what it is at the others.
MeaningLine(bc, Value, at) ==
    LET i == at[1]
        env == at[2]
        ins == bc.code[i]
        called == Called(bc, Value, i, env)
    IN  CASE ins.op \in {"RETURN", "U32_EMIT", "BOOL_EMIT"} -> env[ins.a]
          [] ins.op \in {"REPEAT_NEXT", "END"} -> Undefined
          [] ins.op = "CALL" ->
               IF called = Undefined THEN Undefined
               ELSE Value[<<i + 1, Stored(env, ins.a, called)>>]
          [] ins.op = "REPEAT_ENTER" ->
               Onward(Value, ins.imm, AfterTurns(bc, i, env)[ins.a])
          [] ins.op = "JUMP_IF_FALSE" ->
               Value[<<IF env[ins.a] = 0 THEN ins.imm ELSE i + 1, env>>]
          [] ins.op = "JUMP" -> Value[<<ins.imm, env>>]
          [] OTHER -> Onward(Value, i + 1, Line(ins, env))

\* The place i needs the meaning at places of lower rank only, and its
\* operands are slots.
LeadsDown(bc, rank, i) ==
    LET ins == bc.code[i]
        Lower(j) == j \in Pcs(bc) /\ rank[j] < rank[i]
        fn == bc.functions[ins.imm]
    IN  /\ ins.op \in Opcodes
        /\ ins.op \in {"RETURN", "U32_EMIT", "BOOL_EMIT"} => ins.a \in Slots
        /\ ins.op \in Calculates => LineInSlots(ins) /\ Lower(i + 1)
        /\ ins.op = "REPEAT_ENTER" => RepeatInSlots(bc, i) /\ Lower(ins.imm)
        /\ ins.op = "JUMP_IF_FALSE" => ins.a \in Slots /\ Lower(ins.imm) /\ Lower(i + 1)
        /\ ins.op = "JUMP" => Lower(ins.imm)
        /\ ins.op = "CALL" =>
              /\ ins.a \in Slots /\ Lower(fn.entry) /\ Lower(i + 1)
              /\ fn.params > 0 => ins.b \in Slots
              /\ fn.params > 1 => ins.flags \in Slots

\* The places of bc are ranked so that all do.
Grounded(bc, N, rank) ==
    /\ N \in Nat /\ rank \in [Pcs(bc) -> 0..N]
    /\ \A i \in Pcs(bc) : LeadsDown(bc, rank, i)

\* Every opcode is one of those whose meaning is told.
LEMMA OpcodeKinds ==
    ASSUME NEW op \in Opcodes
    PROVE  \/ op \in {"RETURN", "U32_EMIT", "BOOL_EMIT"}
           \/ op \in {"REPEAT_NEXT", "END"}
           \/ op = "CALL" \/ op = "REPEAT_ENTER" \/ op = "JUMP_IF_FALSE" \/ op = "JUMP"
           \/ op \in Calculates
  BY DEF Opcodes, Calculates

\* No line that calculates is of another kind.
LEMMA CalculatesOnly ==
    ASSUME NEW op \in Calculates
    PROVE  op \notin {"RETURN", "U32_EMIT", "BOOL_EMIT", "REPEAT_NEXT", "END", "CALL",
                      "REPEAT_ENTER", "JUMP_IF_FALSE", "JUMP"}
  BY DEF Calculates, Arith, Compare, Set

\* The meaning at one place, kind by kind: a RETURN or an EMIT means its slot,
LEMMA MeansReturn ==
    ASSUME NEW bc, NEW Value, NEW i, NEW env, bc.code[i].op \in {"RETURN", "U32_EMIT", "BOOL_EMIT"}
    PROVE  MeaningLine(bc, Value, <<i, env>>) = env[bc.code[i].a]
  BY DEF MeaningLine

\* nothing goes on at a REPEAT_NEXT or an END,
LEMMA MeansNothing ==
    ASSUME NEW bc, NEW Value, NEW i, NEW env, bc.code[i].op \in {"REPEAT_NEXT", "END"}
    PROVE  MeaningLine(bc, Value, <<i, env>>) = Undefined
  BY DEF MeaningLine

\* a CALL goes on with the value of the function,
LEMMA MeansCall ==
    ASSUME NEW bc, NEW Value, NEW i, NEW env, bc.code[i].op = "CALL",
           Called(bc, Value, i, env) # Undefined,
           NEW next, next = <<i + 1, Stored(env, bc.code[i].a, Called(bc, Value, i, env))>>
    PROVE  MeaningLine(bc, Value, <<i, env>>) = Value[next]
  BY DEF MeaningLine

\* if it has one,
LEMMA MeansNoCall ==
    ASSUME NEW bc, NEW Value, NEW i, NEW env, bc.code[i].op = "CALL",
           Called(bc, Value, i, env) = Undefined
    PROVE  MeaningLine(bc, Value, <<i, env>>) = Undefined
  BY DEF MeaningLine

\* a repeat goes on behind its turns,
LEMMA MeansRepeat ==
    ASSUME NEW bc, NEW Value, NEW i, NEW env, bc.code[i].op = "REPEAT_ENTER"
    PROVE  MeaningLine(bc, Value, <<i, env>>) =
              Onward(Value, bc.code[i].imm, AfterTurns(bc, i, env)[bc.code[i].a])
  BY DEF MeaningLine

\* a branch goes on in one of two places,
LEMMA MeansBranch ==
    ASSUME NEW bc, NEW Value, NEW i, NEW env, bc.code[i].op = "JUMP_IF_FALSE",
           NEW next, next = <<IF env[bc.code[i].a] = 0 THEN bc.code[i].imm ELSE i + 1, env>>
    PROVE  MeaningLine(bc, Value, <<i, env>>) = Value[next]
  BY DEF MeaningLine

\* a JUMP at its target,
LEMMA MeansJump ==
    ASSUME NEW bc, NEW Value, NEW i, NEW env, bc.code[i].op = "JUMP",
           NEW next, next = <<bc.code[i].imm, env>>
    PROVE  MeaningLine(bc, Value, <<i, env>>) = Value[next]
  BY DEF MeaningLine

\* and a line that calculates goes on behind itself.
LEMMA MeansLine ==
    ASSUME NEW bc, NEW Value, NEW i, NEW env, bc.code[i].op \in Calculates
    PROVE  MeaningLine(bc, Value, <<i, env>>) = Onward(Value, i + 1, Line(bc.code[i], env))
  BY CalculatesOnly DEF MeaningLine

\* The slots of a called function have values.
LEMMA PassedType ==
    ASSUME NEW bc, NEW ins, NEW env \in SlotValues,
           bc.functions[ins.imm].params > 0 => ins.b \in Slots,
           bc.functions[ins.imm].params > 1 => ins.flags \in Slots
    PROVE  Passed(bc, ins, env) \in SlotValues
  <1>. DEFINE n == bc.functions[ins.imm].params
              arg(s) == CASE s = 0 /\ n > 0 -> env[ins.b]
                          [] s = 1 /\ n > 1 -> env[ins.flags]
                          [] OTHER -> 0
  <1>1. 0 \in U32
    BY WidthAssumption DEF U32
  <1>2. (n > 0 => env[ins.b] \in U32) /\ (n > 1 => env[ins.flags] \in U32)
    BY DEF SlotValues, Slots
  <1>. HIDE DEF n
  <1>3. ASSUME NEW s PROVE arg(s) \in U32
    <2>1. CASE s = 0 /\ n > 0
      BY <1>2, <2>1
    <2>2. CASE s = 1 /\ n > 1
      BY <1>2, <2>2
    <2>3. CASE ~(s = 0 /\ n > 0) /\ ~(s = 1 /\ n > 1)
      BY <1>1, <2>3
    <2>. QED  BY <2>1, <2>2, <2>3
  <1>4. Passed(bc, ins, env) = [s \in 0..(MaxScalars - 1) |-> arg(s)]
    BY DEF Passed, n
  <1>. HIDE DEF arg
  <1>. QED  BY <1>3, <1>4 DEF SlotValues

\* The meaning at a place is a value, if it is at the places it needs,
LEMMA MeaningLineType ==
    ASSUME NEW bc, NEW rank, NEW i \in Pcs(bc), LeadsDown(bc, rank, i), NEW env \in SlotValues,
           NEW Value \in [Pcs(bc) \X SlotValues -> U32 \cup {Undefined}]
    PROVE  MeaningLine(bc, Value, <<i, env>>) \in U32 \cup {Undefined}
  <1>. DEFINE ins == bc.code[i]
              line == MeaningLine(bc, Value, <<i, env>>)
              entry == bc.functions[ins.imm].entry
              called == Called(bc, Value, i, env)
              R == U32 \cup {Undefined}
  <1>1. \A j \in Pcs(bc), slots \in SlotValues : Value[<<j, slots>>] \in R
    <2>1. ASSUME NEW j \in Pcs(bc), NEW slots \in SlotValues PROVE Value[<<j, slots>>] \in R
      <3>1. <<j, slots>> \in Pcs(bc) \X SlotValues
        OBVIOUS
      <3>. HIDE DEF R
      <3>. QED  BY <3>1 DEF R
    <2>. QED  BY <2>1
  <1>2. \A j \in Pcs(bc), slots \in Maybe : Onward(Value, j, slots) \in R
    BY <1>1 DEF Onward, Maybe
  <1>3. CASE ins.op \in {"RETURN", "U32_EMIT", "BOOL_EMIT"}
    <2>1. line = env[ins.a] /\ ins.a \in Slots
      BY <1>3, MeansReturn DEF LeadsDown
    <2>. QED  BY <2>1 DEF SlotValues, Slots
  <1>4. CASE ins.op \in {"REPEAT_NEXT", "END"}
    BY <1>4, MeansNothing
  <1>5. CASE ins.op = "CALL"
    <2>1. /\ ins.a \in Slots /\ entry \in Pcs(bc) /\ i + 1 \in Pcs(bc)
          /\ bc.functions[ins.imm].params > 0 => ins.b \in Slots
          /\ bc.functions[ins.imm].params > 1 => ins.flags \in Slots
      BY <1>5 DEF LeadsDown
    <2>2. Passed(bc, ins, env) \in SlotValues
      BY <2>1, PassedType
    <2>3. called \in R
      <3>. HIDE DEF R
      <3>. QED  BY <1>1, <2>1, <2>2 DEF Called
    <2>4. CASE called = Undefined
      BY <1>5, <2>4, MeansNoCall
    <2>5. CASE called # Undefined
      <3>. DEFINE slots == Stored(env, ins.a, called)
                  next == <<i + 1, slots>>
      <3>1. slots \in SlotValues
        BY <2>1, <2>3, <2>5 DEF SlotValues, Slots, Stored
      <3>2. next = <<i + 1, slots>>
        OBVIOUS
      <3>. HIDE DEF next
      <3>3. line = Value[next]
        BY <1>5, <2>5, <3>2, MeansCall
      <3>. HIDE DEF slots, line, R
      <3>. QED  BY <1>1, <2>1, <3>1, <3>2, <3>3 DEF line, R
    <2>. QED  BY <2>4, <2>5
  <1>6. CASE ins.op = "REPEAT_ENTER"
    <2>. DEFINE A == AfterTurns(bc, i, env)
    <2>1. line = Onward(Value, ins.imm, A[ins.a])
      BY <1>6, MeansRepeat
    <2>2. RepeatInSlots(bc, i) /\ ins.imm \in Pcs(bc)
      BY <1>6 DEF LeadsDown
    <2>3. \A k \in 0..ins.a : A[k] \in Maybe
      BY <2>2, TurnsSolve DEF Maybe
    <2>4. ins.a \in 0..ins.a
      BY <2>2 DEF RepeatInSlots
    <2>. HIDE DEF A, line, R
    <2>. QED  BY <1>2, <2>1, <2>2, <2>3, <2>4 DEF line, R
  <1>7. CASE ins.op = "JUMP_IF_FALSE"
    <2>. DEFINE next == IF env[ins.a] = 0 THEN ins.imm ELSE i + 1
    <2>1. line = Value[<<next, env>>]
      BY <1>7, MeansBranch
    <2>2. next \in Pcs(bc)
      BY <1>7 DEF LeadsDown
    <2>. HIDE DEF line, R, next
    <2>. QED  BY <1>1, <2>1, <2>2 DEF line, R
  <1>8. CASE ins.op = "JUMP"
    <2>1. line = Value[<<ins.imm, env>>] /\ ins.imm \in Pcs(bc)
      BY <1>8, MeansJump DEF LeadsDown
    <2>. HIDE DEF line, R
    <2>. QED  BY <1>1, <2>1 DEF line, R
  <1>9. CASE ins.op \in Calculates
    <2>1. line = Onward(Value, i + 1, Line(ins, env)) /\ i + 1 \in Pcs(bc) /\ LineInSlots(ins)
      BY <1>9, MeansLine DEF LeadsDown
    <2>2. Line(ins, env) \in Maybe
      BY <2>1, LineType DEF Maybe
    <2>. HIDE DEF line, R
    <2>. QED  BY <1>2, <2>1, <2>2 DEF line, R
  <1>10. ins.op \in Opcodes
    BY DEF LeadsDown
  <1>. QED  BY <1>3, <1>4, <1>5, <1>6, <1>7, <1>8, <1>9, <1>10, OpcodeKinds

\* and does not depend on other places.
LEMMA MeaningLineLocal ==
    ASSUME NEW bc, NEW rank, NEW i \in Pcs(bc), LeadsDown(bc, rank, i), NEW env \in SlotValues,
           NEW g, NEW h, \A j \in Pcs(bc) : rank[j] < rank[i] =>
                            \A s \in SlotValues : g[<<j, s>>] = h[<<j, s>>],
           \A j \in Pcs(bc) : rank[j] < rank[i] =>
                            \A s \in SlotValues : g[<<j, s>>] \in U32 \cup {Undefined}
    PROVE  MeaningLine(bc, g, <<i, env>>) = MeaningLine(bc, h, <<i, env>>)
  <1>. DEFINE ins == bc.code[i]
              left == MeaningLine(bc, g, <<i, env>>)
              right == MeaningLine(bc, h, <<i, env>>)
              entry == bc.functions[ins.imm].entry
              args == Passed(bc, ins, env)
              Lower(j) == j \in Pcs(bc) /\ rank[j] < rank[i]
  <1>1. \A j, slots : Lower(j) /\ slots \in SlotValues => g[<<j, slots>>] = h[<<j, slots>>]
    OBVIOUS
  <1>2. \A j, slots : Lower(j) /\ slots \in Maybe => Onward(g, j, slots) = Onward(h, j, slots)
    BY <1>1 DEF Onward, Maybe
  <1>3. CASE ins.op \in {"RETURN", "U32_EMIT", "BOOL_EMIT"}
    <2>1. left = env[ins.a] /\ right = env[ins.a]
      BY <1>3, MeansReturn
    <2>. QED  BY <2>1
  <1>4. CASE ins.op \in {"REPEAT_NEXT", "END"}
    <2>1. left = Undefined /\ right = Undefined
      BY <1>4, MeansNothing
    <2>. QED  BY <2>1
  <1>5. CASE ins.op = "CALL"
    <2>. DEFINE x == Called(bc, g, i, env)
                y == Called(bc, h, i, env)
    <2>1. /\ ins.a \in Slots /\ Lower(entry) /\ Lower(i + 1)
          /\ bc.functions[ins.imm].params > 0 => ins.b \in Slots
          /\ bc.functions[ins.imm].params > 1 => ins.flags \in Slots
      BY <1>5 DEF LeadsDown
    <2>2. args \in SlotValues
      BY <2>1, PassedType
    <2>3. x = y /\ x \in U32 \cup {Undefined}
      <3>1. x = g[<<entry, args>>] /\ y = h[<<entry, args>>]
        BY DEF Called
      <3>. HIDE DEF args, entry, x, y
      <3>. QED  BY <1>1, <2>1, <2>2, <3>1
    <2>4. CASE x = Undefined
      <3>1. left = Undefined
        BY <1>5, <2>4, MeansNoCall
      <3>2. right = Undefined
        <4>1. y = Undefined
          BY <2>3, <2>4
        <4>. QED  BY <1>5, <4>1, MeansNoCall
      <3>. QED  BY <3>1, <3>2
    <2>5. CASE x # Undefined
      <3>. DEFINE slots == Stored(env, ins.a, x)
                  next == <<i + 1, slots>>
      <3>1. slots \in SlotValues
        <4>. HIDE DEF x
        <4>. QED  BY <2>1, <2>3, <2>5 DEF SlotValues, Slots, Stored
      <3>2. next = <<i + 1, Stored(env, ins.a, x)>>
        OBVIOUS
      <3>3. next = <<i + 1, Stored(env, ins.a, y)>> /\ y # Undefined
        <4>. HIDE DEF x, y
        <4>. QED  BY <2>3, <2>5
      <3>4. left = g[next]
        <4>. HIDE DEF next
        <4>. QED  BY <1>5, <2>5, <3>2, MeansCall
      <3>5. right = h[next]
        <4>. HIDE DEF next
        <4>. QED  BY <1>5, <3>3, MeansCall
      <3>. HIDE DEF slots, left, right, Lower
      <3>. QED  BY <1>1, <2>1, <3>1, <3>4, <3>5 DEF left, right
    <2>. QED  BY <2>4, <2>5
  <1>6. CASE ins.op = "REPEAT_ENTER"
    <2>. DEFINE A == AfterTurns(bc, i, env)
    <2>1. left = Onward(g, ins.imm, A[ins.a]) /\ right = Onward(h, ins.imm, A[ins.a])
      BY <1>6, MeansRepeat
    <2>2. RepeatInSlots(bc, i) /\ Lower(ins.imm)
      BY <1>6 DEF LeadsDown
    <2>3. \A k \in 0..ins.a : A[k] \in Maybe
      BY <2>2, TurnsSolve DEF Maybe
    <2>4. ins.a \in 0..ins.a
      BY <2>2 DEF RepeatInSlots
    <2>. HIDE DEF A, left, right, Lower
    <2>. QED  BY <1>2, <2>1, <2>2, <2>3, <2>4 DEF left, right
  <1>7. CASE ins.op = "JUMP_IF_FALSE"
    <2>. DEFINE j == IF env[ins.a] = 0 THEN ins.imm ELSE i + 1
    <2>1. left = g[<<j, env>>] /\ right = h[<<j, env>>]
      <3>1. left = g[<<j, env>>]
        BY <1>7, MeansBranch
      <3>2. right = h[<<j, env>>]
        BY <1>7, MeansBranch
      <3>. QED  BY <3>1, <3>2
    <2>2. Lower(j)
      BY <1>7 DEF LeadsDown
    <2>. HIDE DEF left, right, j, Lower
    <2>. QED  BY <1>1, <2>1, <2>2 DEF left, right
  <1>8. CASE ins.op = "JUMP"
    <2>1. left = g[<<ins.imm, env>>] /\ right = h[<<ins.imm, env>>]
      <3>1. left = g[<<ins.imm, env>>]
        <4>. DEFINE next == <<ins.imm, env>>
        <4>1. next = <<ins.imm, env>>
          OBVIOUS
        <4>. HIDE DEF next
        <4>2. left = g[next]
          BY <1>8, <4>1, MeansJump
        <4>. QED  BY <4>2 DEF next
      <3>2. right = h[<<ins.imm, env>>]
        <4>. DEFINE next == <<ins.imm, env>>
        <4>1. next = <<ins.imm, env>>
          OBVIOUS
        <4>. HIDE DEF next
        <4>2. right = h[next]
          BY <1>8, <4>1, MeansJump
        <4>. QED  BY <4>2 DEF next
      <3>. QED  BY <3>1, <3>2
    <2>2. Lower(ins.imm)
      BY <1>8 DEF LeadsDown
    <2>. HIDE DEF left, right, Lower
    <2>. QED  BY <1>1, <2>1, <2>2 DEF left, right
  <1>9. CASE ins.op \in Calculates
    <2>1. /\ left = Onward(g, i + 1, Line(ins, env)) /\ right = Onward(h, i + 1, Line(ins, env))
          /\ Lower(i + 1) /\ LineInSlots(ins)
      BY <1>9, MeansLine DEF LeadsDown
    <2>2. Line(ins, env) \in Maybe
      BY <2>1, LineType DEF Maybe
    <2>. HIDE DEF left, right, Lower
    <2>. QED  BY <1>2, <2>1, <2>2 DEF left, right
  <1>10. ins.op \in Opcodes
    BY DEF LeadsDown
  <1>. QED  BY <1>3, <1>4, <1>5, <1>6, <1>7, <1>8, <1>9, <1>10, OpcodeKinds

\* So the meaning of a program whose places are grounded exists, and at each
\* place it is what it should be.
LEMMA MeaningSolves ==
    ASSUME NEW bc, NEW N, NEW rank, Grounded(bc, N, rank)
    PROVE  \A i \in Pcs(bc), env \in SlotValues :
              MeaningFrom(bc)[<<i, env>>] = MeaningLine(bc, MeaningFrom(bc), <<i, env>>)
  <1>. DEFINE P == Pcs(bc)
              D == P \X SlotValues
              V == U32 \cup {Undefined}
              Out(h) == [at \in D |-> MeaningLine(bc, h, at)]
              F == [h \in [D -> V] |-> Out(h)]
              height == [at \in D |-> rank[at[1]]]
              M == MeaningFrom(bc)
  <1>1. V # {} /\ N \in Nat /\ height \in [D -> 0..N]
    <2>1. Undefined \in V
      OBVIOUS
    <2>2. N \in Nat /\ rank \in [P -> 0..N]
      BY DEF Grounded
    <2>. HIDE DEF V, P
    <2>. QED  BY <2>1, <2>2
  <1>2. ASSUME NEW at \in D PROVE at = <<at[1], at[2]>> /\ at[1] \in P /\ at[2] \in SlotValues
                                  /\ LeadsDown(bc, rank, at[1])
    <2>1. at = <<at[1], at[2]>> /\ at[1] \in P /\ at[2] \in SlotValues
      BY ONLY <1>2
    <2>. QED  BY <2>1 DEF Grounded
  <1>3. ASSUME NEW h \in [D -> V], NEW at \in D PROVE MeaningLine(bc, h, at) \in V
    <2>1. MeaningLine(bc, h, <<at[1], at[2]>>) \in V
      BY <1>2, MeaningLineType
    <2>. QED  BY <1>2, <2>1
  <1>4. ASSUME NEW g \in [D -> V], NEW h \in [D -> V], NEW at \in D,
               \A b \in D : height[b] < height[at] => g[b] = h[b]
        PROVE  MeaningLine(bc, g, at) = MeaningLine(bc, h, at)
    <2>. DEFINE i == at[1]
                env == at[2]
    <2>1. at = <<i, env>> /\ i \in P /\ env \in SlotValues /\ LeadsDown(bc, rank, i)
      BY <1>2
    <2>2. ASSUME NEW j \in P, rank[j] < rank[i], NEW s \in SlotValues
          PROVE  g[<<j, s>>] = h[<<j, s>>] /\ g[<<j, s>>] \in V
      <3>1. <<j, s>> \in D /\ height[<<j, s>>] = rank[j] /\ height[at] = rank[i]
        BY <2>1
      <3>. HIDE DEF D, V, height
      <3>. QED  BY <1>4, <2>2, <3>1
    <2>. HIDE DEF i, env
    <2>3. MeaningLine(bc, g, <<i, env>>) = MeaningLine(bc, h, <<i, env>>)
      BY <2>1, <2>2, MeaningLineLocal
    <2>. QED  BY <2>1, <2>3
  <1>5. F \in [[D -> V] -> [D -> V]]
    <2>. HIDE DEF D, V
    <2>. QED  BY <1>3
  <1>6. \E h \in [D -> V] : h = F[h]
    <2>1. \A g, h \in [D -> V] : \A at \in D :
            (\A b \in D : height[b] < height[at] => g[b] = h[b]) => F[g][at] = F[h][at]
      <3>. HIDE DEF D, V, height
      <3>. QED  BY <1>4
    <2>. HIDE DEF D, V, F, height
    <2>2. DependsDownwards(D, V, N, height, F)
      BY <1>1, <1>5, <2>1 DEF DependsDownwards
    <2>. QED  BY ONLY <2>2, FixedPoint
  <1>7. \E h : h = Out(h)
    <2>1. PICK h \in [D -> V] : h = F[h]
      BY <1>6
    <2>. HIDE DEF D, V, Out
    <2>. QED  BY <2>1
  <1>8. M = CHOOSE h : h = Out(h)
    BY DEF MeaningFrom, MeaningLine, Passed, Onward, Stored, Called
  <1>9. M = Out(M)
    <2>. HIDE DEF Out, M
    <2>. QED  BY <1>7, <1>8
  <1>. HIDE DEF M
  <1>10. \A at \in D : M[at] = MeaningLine(bc, M, at)
    <2>. HIDE DEF D
    <2>. QED  BY <1>9
  <1>11. ASSUME NEW i \in P, NEW env \in SlotValues
         PROVE  M[<<i, env>>] = MeaningLine(bc, M, <<i, env>>)
    <2>1. <<i, env>> \in D
      OBVIOUS
    <2>. HIDE DEF D
    <2>. QED  BY <1>10, <2>1
  <1>. QED  BY <1>11 DEF M

-----------------------------------------------------------------------------
(* An accepted program has a meaning *)

\* The operands of the line at i are slots.
LineSlots(bc, i) ==
    LET ins == bc.code[i]
        params == bc.functions[ins.imm].params
    IN  /\ ins.op \in Calculates => LineInSlots(ins)
        /\ ins.op \in {"RETURN", "U32_EMIT", "JUMP_IF_FALSE"} => ins.a \in Slots
        /\ ins.op = "REPEAT_ENTER" => RepeatInSlots(bc, i)
        /\ ins.op = "CALL" =>
             /\ ins.a \in Slots
             /\ params > 0 => ins.b \in Slots
             /\ params > 1 => ins.flags \in Slots

\* So are those of all lines from i on.
SlotsFrom(bc, fn, i) == \A j \in Nat : i <= j /\ j < fn.end => LineSlots(bc, j)

\* A field below the number of slots is a slot,
LEMMA BelowSlots ==
    ASSUME NEW s, s.n \in 1..MaxScalars, NEW a \in Nat, a < s.n
    PROVE  a \in Slots
  BY LimitsAssumption DEF Slots

\* and so is what a line that passes stores and reads.
LEMMA SetInSlots ==
    ASSUME NEW ins \in Instruction, NEW s, s.n \in 1..MaxScalars, SetOK(ins, s)
    PROVE  LineInSlots(ins)
  <1>1. ins.op \in Set /\ ins.a < s.n /\ ins.b < s.n /\ ins.flags < s.n
    BY DEF SetOK, Reads
  <1>2. ins.a \in Nat /\ ins.b \in Nat /\ ins.flags \in Nat
    BY DEF Instruction
  <1>3. ins.a \in Slots /\ ins.b \in Slots /\ ins.flags \in Slots
    BY <1>1, <1>2, BelowSlots
  <1>. QED  BY <1>1, <1>3 DEF LineInSlots, Calculates, Set

\* This holds of a RETURN,
LEMMA ReturnInSlots ==
    ASSUME NEW bc, NEW i, bc.code[i] \in Instruction, NEW s, s.n \in 1..MaxScalars,
           ReturnOK(bc.code[i], s)
    PROVE  LineSlots(bc, i)
  <1>1. bc.code[i].op = "RETURN" /\ bc.code[i].a < s.n /\ bc.code[i].a \in Nat
    BY DEF ReturnOK, Reads, Instruction
  <1>2. bc.code[i].a \in Slots
    BY <1>1, BelowSlots
  <1>. QED  BY <1>1, <1>2 DEF LineSlots, Calculates, Arith, Compare, Set

\* of the lines main and functions have in common, and of a comparison.
LEMMA LineOKInSlots ==
    ASSUME NEW bc, IsBytecode(bc), NEW i \in Pcs(bc), NEW s, s.n \in 1..MaxScalars,
           LineOK(bc, bc.code[i], s) \/ BinaryOK(bc.code[i], Compare, s)
    PROVE  LineSlots(bc, i)
  <1>. DEFINE ins == bc.code[i]
  <1>1. /\ ins.a \in Nat /\ ins.b \in Nat /\ ins.flags \in Nat
        /\ ins.op = "CONST" => ins.imm \in U32
    BY DEF IsBytecode, Pcs, Instruction
  <1>2. \A a \in Nat : a < s.n => a \in Slots
    BY BelowSlots
  <1>3. CASE ConstOK(ins, s)
    <2>1. ins.op = "CONST" /\ ins.a < s.n
      BY <1>3 DEF ConstOK, Fresh
    <2>2. LineInSlots(ins)
      BY <1>1, <1>2, <2>1 DEF LineInSlots, Calculates
    <2>. QED  BY <2>1, <2>2 DEF LineSlots
  <1>4. CASE BinaryOK(ins, Arith, s) \/ BinaryOK(ins, Compare, s)
    <2>1. ins.op \in Arith \cup Compare /\ ins.a < s.n /\ ins.b < s.n /\ ins.flags < s.n
      BY <1>4 DEF BinaryOK, Fresh, Reads
    <2>2. LineInSlots(ins)
      BY <1>1, <1>2, <2>1 DEF LineInSlots, Calculates, Arith, Compare
    <2>. QED  BY <2>1, <2>2 DEF LineSlots, Arith, Compare
  <1>5. CASE CallOK(bc, ins, s)
    <2>. DEFINE params == bc.functions[ins.imm].params
                t == [s EXCEPT !.init = @ \cup {ins.a}]
    <2>1. /\ ins.op = "CALL" /\ ins.a < s.n /\ ins.imm \in DOMAIN bc.functions
          /\ params <= MaxParams
          /\ IF params >= 1 THEN Reads(ins, {"b"}, t) ELSE Blank(ins, {"b"})
          /\ IF params = 2 THEN Reads(ins, {"flags"}, t) ELSE Blank(ins, {"flags"})
      BY <1>5 DEF CallOK, Fresh
    <2>2. params \in Nat
      BY <2>1 DEF IsBytecode, Function
    <2>3. t.n = s.n
      OBVIOUS
    <2>. HIDE DEF t, params
    <2>4. params > 0 => ins.b < s.n
      BY <2>1, <2>2, <2>3 DEF Reads
    <2>5. params > 1 => ins.flags < s.n
      <3>1. params > 1 => params = 2
        BY <2>1, <2>2 DEF MaxParams
      <3>. QED  BY <2>1, <2>3, <3>1 DEF Reads
    <2>6. ins.a \in Slots /\ (params > 0 => ins.b \in Slots) /\ (params > 1 => ins.flags \in Slots)
      BY <1>1, <1>2, <2>1, <2>4, <2>5
    <2>. QED  BY <2>1, <2>6 DEF LineSlots, Calculates, Arith, Compare, Set, params
  <1>. QED  BY <1>3, <1>4, <1>5 DEF LineOK

\* If it holds of what follows a place that passes, it does of the code from
\* the place on.
LEMMA SlotsStep ==
    ASSUME NEW bc, IsBytecode(bc), NEW fn \in Function, fn.end <= Size(bc),
           fn.scalars \in 1..MaxScalars, NEW i, NEW s, Scanned(bc, fn, i, s),
           \A n, t : Scanned(bc, fn, n, t) /\ i < n => SlotsFrom(bc, fn, n)
    PROVE  SlotsFrom(bc, fn, i)
  <1>. DEFINE ins == bc.code[i]
              op == ins.op
              to == ins.imm
              join == bc.code[to - 1].imm
  <1>1. fn.end \in Nat /\ i \in Nat /\ i < fn.end /\ Size(bc) \in Nat
    BY ScannedCases DEF Function, IsBytecode
  <1>2. ins \in Instruction /\ to \in Nat
    BY ScannedCases DEF Instruction
  <1>3. \A n \in Nat : \A t : Scanned(bc, fn, n, t) /\ i < n => SlotsFrom(bc, fn, n)
    OBVIOUS
  <1>4. \A j \in Nat : i <= j => j = i \/ i + 1 <= j
    BY <1>1
  <1>5. s.n \in 1..MaxScalars
    <2>1. s \in Slotted(fn.scalars)
      BY ScannedCases
    <2>. QED  BY <2>1 DEF Slotted, States
  <1>6. \A j \in Nat : j < fn.end => j \in Pcs(bc) /\ bc.code[j] \in Instruction
    <2>1. bc.code \in [0..(Size(bc) - 1) -> Instruction] /\ fn.end <= Size(bc)
      BY DEF IsBytecode
    <2>2. \A j \in Nat : j < fn.end => j \in 0..(Size(bc) - 1)
      BY <1>1, <2>1
    <2>. QED  BY <2>1, <2>2 DEF Pcs
  <1>7. \A j \in Nat : j < fn.end /\ SetOK(bc.code[j], s) =>
            LineInSlots(bc.code[j]) /\ LineSlots(bc, j)
    <2>. SUFFICES ASSUME NEW j \in Nat, j < fn.end, SetOK(bc.code[j], s)
                  PROVE  LineInSlots(bc.code[j]) /\ LineSlots(bc, j)
      OBVIOUS
    <2>1. bc.code[j].op \in Set
      BY DEF SetOK
    <2>2. LineInSlots(bc.code[j])
      BY <1>5, <1>6, SetInSlots
    <2>. QED  BY <2>1, <2>2 DEF LineSlots, Set
  <1>8. \A j \in Nat : j < fn.end /\ ReturnOK(bc.code[j], s) => LineSlots(bc, j)
    BY <1>5, <1>6, ReturnInSlots
  <1>9. \A j : bc.code[j].op \in {"REPEAT_NEXT", "JUMP"} => LineSlots(bc, j)
    BY DEF LineSlots, Calculates, Arith, Compare, Set
  <1>10. CASE op = "RETURN"
    <2>1. i + 1 = fn.end /\ ReturnOK(ins, s)
      BY <1>10, ScannedCases
    <2>2. LineSlots(bc, i)
      BY <1>1, <1>8, <2>1
    <2>3. \A j \in Nat : i <= j /\ j < fn.end => j = i
      <3>. HIDE DEF ins
      <3>. QED  BY <1>1, <2>1
    <2>. QED  BY <2>2, <2>3 DEF SlotsFrom
  <1>11. CASE op = "REPEAT_ENTER"
    <2>1. RepeatOK(bc, fn, i, s) /\ Scanned(bc, fn, to, s)
      BY <1>11, ScannedCases
    <2>2. /\ to > i + 2 /\ to < fn.end /\ ins.a \in 1..MaxRepeat
          /\ bc.code[to - 1].op = "REPEAT_NEXT"
          /\ \A j \in (i + 1)..(to - 2) : SetOK(bc.code[j], s)
      BY <2>1 DEF RepeatOK
    <2>. HIDE DEF to, join
    <2>3. \A j \in (i + 1)..(to - 2) : j \in Nat /\ j < fn.end
      BY <1>1, <1>2, <2>2
    <2>4. \A j \in (i + 1)..(to - 2) : LineInSlots(bc.code[j]) /\ LineSlots(bc, j)
      BY <1>7, <2>2, <2>3
    <2>5. LineSlots(bc, i)
      <3>1. i + 1 < to /\ ins.a \in Nat
        BY <1>1, <1>2, <2>2, LimitsAssumption
      <3>2. RepeatInSlots(bc, i)
        BY <1>1, <1>2, <2>4, <3>1 DEF RepeatInSlots, to
      <3>. QED  BY <1>11, <3>2 DEF LineSlots, Calculates, Arith, Compare, Set
    <2>. HIDE DEF ins, op
    <2>6. SlotsFrom(bc, fn, to)
      <3>1. i < to
        BY <1>1, <1>2, <2>2
      <3>. QED  BY <1>2, <1>3, <2>1, <3>1
    <2>7. \A j \in Nat : i <= j => j = i \/ j \in (i + 1)..(to - 2) \/ j = to - 1 \/ to <= j
      BY <1>1, <1>2
    <2>. QED  BY <1>9, <2>2, <2>4, <2>5, <2>6, <2>7 DEF SlotsFrom
  <1>12. CASE op \in Set
    <2>1. SetOK(ins, s) /\ Scanned(bc, fn, i + 1, s)
      BY <1>12, ScannedCases
    <2>2. LineSlots(bc, i)
      BY <1>1, <1>7, <2>1
    <2>3. SlotsFrom(bc, fn, i + 1)
      <3>1. i + 1 \in Nat /\ i < i + 1
        BY <1>1
      <3>. QED  BY <1>3, <2>1, <3>1
    <2>. QED  BY <1>4, <2>2, <2>3 DEF SlotsFrom
  <1>13. CASE op = "JUMP_IF_FALSE"
    <2>1. /\ IfOK(bc, fn, i, s)
          /\ IF BothReturn(bc, i) THEN join + 1 = fn.end /\ ReturnOK(bc.code[join], s)
             ELSE Scanned(bc, fn, join, s)
      BY <1>13, ScannedCases
    <2>2. join \in Nat /\ i + 1 < to /\ to <= join /\ join < fn.end
      BY <1>1, <2>1, JoinPlace
    <2>3. /\ ins.a < s.n /\ bc.code[to - 1].op = "JUMP"
          /\ BranchOK(bc, i + 1, to - 1, s) /\ BranchOK(bc, to, join, s)
      BY <2>1 DEF IfOK
    <2>4. LineSlots(bc, i)
      <3>1. ins.a \in Slots
        BY <1>2, <1>5, <2>3, BelowSlots DEF Instruction
      <3>. QED  BY <1>13, <3>1 DEF LineSlots, Calculates, Arith, Compare, Set
    <2>5. /\ \A j \in (i + 1)..((to - 1) - 1) : SetOK(bc.code[j], s) \/ ReturnOK(bc.code[j], s)
          /\ \A j \in to..(join - 1) : SetOK(bc.code[j], s) \/ ReturnOK(bc.code[j], s)
      <3>. HIDE DEF to, join
      <3>. QED  BY <2>3 DEF BranchOK
    <2>. HIDE DEF ins, op, to, join
    <2>6. ASSUME NEW j \in Nat, i + 1 <= j, j < join PROVE LineSlots(bc, j)
      <3>1. j < fn.end
        BY <1>1, <2>2, <2>6
      <3>2. j = to - 1 \/ j \in (i + 1)..((to - 1) - 1) \/ j \in to..(join - 1)
        BY <1>1, <1>2, <2>2, <2>6
      <3>3. j = to - 1 \/ SetOK(bc.code[j], s) \/ ReturnOK(bc.code[j], s)
        BY <2>5, <3>2
      <3>. QED  BY <1>7, <1>8, <1>9, <2>3, <3>1, <3>3
    <2>7. SlotsFrom(bc, fn, join)
      <3>1. CASE BothReturn(bc, i)
        <4>1. LineSlots(bc, join)
          BY <1>8, <2>1, <2>2, <3>1
        <4>2. \A j \in Nat : join <= j /\ j < fn.end => j = join
          BY <1>1, <2>1, <2>2, <3>1
        <4>. QED  BY <4>1, <4>2 DEF SlotsFrom
      <3>2. CASE ~BothReturn(bc, i)
        <4>1. i < join
          BY <1>1, <1>2, <2>2
        <4>. QED  BY <1>3, <2>1, <2>2, <3>2, <4>1
      <3>. QED  BY <3>1, <3>2
    <2>8. \A j \in Nat : i <= j => j = i \/ (i + 1 <= j /\ j < join) \/ join <= j
      BY <1>1, <2>2
    <2>. QED  BY <2>4, <2>6, <2>7, <2>8 DEF SlotsFrom
  <1>14. CASE op \notin {"RETURN", "REPEAT_ENTER", "JUMP_IF_FALSE"} \cup Set
    <2>1. /\ LineOK(bc, ins, s) \/ BinaryOK(ins, Compare, s)
          /\ Scanned(bc, fn, i + 1, After(ins, s))
      BY <1>14, ScannedCases
    <2>2. LineSlots(bc, i)
      BY <1>1, <1>5, <1>6, <2>1, LineOKInSlots
    <2>3. SlotsFrom(bc, fn, i + 1)
      <3>1. i + 1 \in Nat /\ i < i + 1
        BY <1>1
      <3>. QED  BY <1>3, <2>1, <3>1
    <2>. QED  BY <1>4, <2>2, <2>3 DEF SlotsFrom
  <1>. QED  BY <1>10, <1>11, <1>12, <1>13, <1>14

\* So the operands of every line of a function are slots.
LEMMA BodySlots ==
    ASSUME NEW bc, Sound(bc), NEW f \in DOMAIN bc.functions, NEW i \in Nat, In(bc, f, i)
    PROVE  LineSlots(bc, i)
  <1>. DEFINE fn == Func(bc, f)
              D == BodyPlaces(fn)
              rank == [at \in D |-> fn.end - at[1]]
              S == {at \in D : Scanned(bc, fn, at[1], at[2]) => SlotsFrom(bc, fn, at[1])}
  <1>1. /\ fn \in Function /\ fn.end <= Size(bc) /\ fn.scalars \in 1..MaxScalars
        /\ Scanned(bc, fn, fn.entry, Known0(fn)) /\ IsBytecode(bc)
        /\ fn.entry \in Nat /\ fn.end \in Nat
    BY FunctionScanned DEF Function, Sound
  <1>. HIDE DEF fn
  <1>2. rank \in [D -> 0..fn.end]
    BY <1>1 DEF BodyPlaces
  <1>3. ASSUME NEW at \in D, \A x \in D : rank[x] < rank[at] => x \in S,
               Scanned(bc, fn, at[1], at[2])
        PROVE  SlotsFrom(bc, fn, at[1])
    <2>1. ASSUME NEW n, NEW t, Scanned(bc, fn, n, t), at[1] < n PROVE SlotsFrom(bc, fn, n)
      <3>1. <<n, t>> \in D /\ n \in Nat /\ n <= fn.end /\ at[1] \in Nat
        BY <1>1, <2>1 DEF Scanned, BodyPlaces
      <3>2. rank[<<n, t>>] = fn.end - n /\ rank[at] = fn.end - at[1]
        BY <3>1
      <3>3. rank[<<n, t>>] < rank[at]
        BY <1>1, <2>1, <3>1, <3>2
      <3>4. <<n, t>> \in S
        <4>. HIDE DEF D, rank, S
        <4>. QED  BY <1>3, <3>1, <3>3
      <3>. QED  BY <2>1, <3>4
    <2>. HIDE DEF D, rank, S
    <2>. QED  BY <1>1, <1>3, <2>1, SlotsStep
  <1>4. \A at \in D : at \in S
    <2>1. \A at \in D : (\A x \in D : rank[x] < rank[at] => x \in S) => at \in S
      BY <1>3
    <2>. HIDE DEF D, S, rank
    <2>. QED  BY <1>1, <1>2, <2>1, RankInduction
  <1>5. <<fn.entry, Known0(fn)>> \in S
    <2>. HIDE DEF S
    <2>. QED  BY <1>1, <1>4 DEF Scanned
  <1>6. SlotsFrom(bc, fn, fn.entry)
    BY <1>1, <1>5
  <1>. QED  BY <1>6 DEF SlotsFrom, In, fn

\* The opcode of a function's line, and where it leads, if not to a call.
LEMMA BodyLeads ==
    ASSUME NEW bc, Sound(bc), NEW f \in DOMAIN bc.functions, NEW i \in Nat, In(bc, f, i)
    PROVE  LET ins == bc.code[i]
               Later(j) == j \in Nat /\ i < j /\ In(bc, f, j)
           IN  /\ ins.op \in BodyOps
               /\ ins.op \in Calculates => Later(i + 1)
               /\ ins.op = "REPEAT_ENTER" => Later(ins.imm)
               /\ ins.op = "JUMP_IF_FALSE" => Later(ins.imm) /\ Later(i + 1)
               /\ ins.op = "JUMP" => Later(ins.imm)
               /\ ins.op = "CALL" =>
                    Later(i + 1) /\ ins.imm \in DOMAIN bc.functions /\ ins.imm \in Calls(bc, f)
  <1>. DEFINE fn == Func(bc, f)
              ins == bc.code[i]
              Later(j) == j \in Nat /\ i < j /\ In(bc, f, j)
  <1>1. /\ fn.entry \in Nat /\ fn.end \in Nat /\ FormedFrom(bc, fn, fn.entry)
        /\ fn.end <= Size(bc) /\ Size(bc) \in Nat
    BY FunctionScanned DEF Function, Sound, IsBytecode
  <1>2. fn.entry <= i /\ i < fn.end
    BY DEF In
  <1>3. LineForm(bc, fn, i) /\ LineKept(bc, fn, i)
    <2>. HIDE DEF fn
    <2>. QED  BY <1>1, <1>2 DEF FormedFrom
  <1>4. ins.imm \in Nat
    <2>1. bc.code \in [0..(Size(bc) - 1) -> Instruction]
      BY DEF Sound, IsBytecode
    <2>2. i \in 0..(Size(bc) - 1)
      <3>. HIDE DEF fn
      <3>. QED  BY <1>1, <1>2
    <2>3. ins \in Instruction
      BY <2>1, <2>2
    <2>. QED  BY <2>3 DEF Instruction
  <1>5. \A j \in Nat : i < j /\ j < fn.end => Later(j)
    <2>1. \A j \in Nat : i < j /\ j < fn.end => fn.entry <= j
      <3>. HIDE DEF fn
      <3>. QED  BY <1>1, <1>2
    <2>. QED  BY <2>1 DEF In
  <1>. HIDE DEF Later, fn
  <1>6. i + 1 < fn.end => Later(i + 1)
    <2>1. i + 1 \in Nat /\ i < i + 1
      OBVIOUS
    <2>. QED  BY <1>5, <2>1
  <1>7. i < ins.imm /\ ins.imm < fn.end => Later(ins.imm)
    BY <1>4, <1>5
  <1>8. ins.op \in BodyOps
    BY <1>3 DEF LineKept
  <1>9. ins.op \in Calculates => Later(i + 1)
    <2>1. ins.op \in Calculates => i + 1 < fn.end
      BY <1>3, CalculatesOnly DEF LineForm
    <2>. QED  BY <1>6, <2>1
  <1>10. ins.op = "REPEAT_ENTER" => Later(ins.imm)
    BY <1>3, <1>7 DEF LineKept
  <1>11. ins.op = "JUMP_IF_FALSE" => Later(ins.imm) /\ Later(i + 1)
    <2>1. ins.op = "JUMP_IF_FALSE" => i < ins.imm /\ ins.imm < fn.end /\ i + 1 < ins.imm
      BY <1>3 DEF LineForm, LineKept
    <2>2. ins.op = "JUMP_IF_FALSE" => i + 1 < fn.end
      <3>. HIDE DEF ins
      <3>. QED  BY <1>1, <1>4, <2>1
    <2>. QED  BY <1>6, <1>7, <2>1, <2>2
  <1>12. ins.op = "JUMP" => Later(ins.imm)
    BY <1>3, <1>7 DEF LineKept
  <1>13. ins.op = "CALL" =>
            Later(i + 1) /\ ins.imm \in DOMAIN bc.functions /\ ins.imm \in Calls(bc, f)
    <2>. SUFFICES ASSUME ins.op = "CALL"
                  PROVE  Later(i + 1) /\ ins.imm \in DOMAIN bc.functions
                         /\ ins.imm \in Calls(bc, f)
      OBVIOUS
    <2>1. ins.imm \in DOMAIN bc.functions /\ i + 1 < fn.end
      BY <1>3 DEF LineForm
    <2>2. i \in fn.entry..(fn.end - 1)
      BY <1>1, <1>2
    <2>3. ins.imm \in Calls(bc, f)
      BY <2>2 DEF Calls, fn, Func
    <2>. QED  BY <1>6, <2>1, <2>3
  <1>. HIDE DEF ins
  <1>. QED  BY <1>8, <1>9, <1>10, <1>11, <1>12, <1>13 DEF Later, ins

\* A line of main, but the last, is a call, an emit or one that calculates.
LEMMA MainSlots ==
    ASSUME NEW bc, Sound(bc), NEW i \in Nat, bc.main <= i, i < Size(bc) - 1
    PROVE  LET ins == bc.code[i]
           IN  /\ LineSlots(bc, i)
               /\ ins.op \in {"CALL", "U32_EMIT"} \cup Calculates
               /\ ins.op = "CALL" => ins.imm \in DOMAIN bc.functions
  <1>. DEFINE ins == bc.code[i]
  <1>1. PICK s : MainScanned(bc, i, s)
    BY MainReached
  <1>2. /\ s \in States(bc.scalars, {{}}) /\ ins \in Instruction /\ i \in Pcs(bc)
        /\ ins.op = "U32_EMIT" => Reads(ins, {"a"}, s)
        /\ ins.op # "U32_EMIT" => LineOK(bc, ins, s)
    BY <1>1, MainCases DEF Sound
  <1>3. s.n \in 1..MaxScalars
    BY <1>2, MainEntry DEF States
  <1>4. CASE ins.op = "U32_EMIT"
    <2>1. ins.a \in Nat /\ ins.a < s.n
      BY <1>2, <1>4 DEF Reads, Instruction
    <2>2. ins.a \in Slots
      BY <1>3, <2>1, BelowSlots
    <2>. QED  BY <1>4, <2>2 DEF LineSlots, Calculates, Arith, Compare, Set
  <1>5. CASE ins.op # "U32_EMIT"
    <2>1. LineOK(bc, ins, s)
      BY <1>2, <1>5
    <2>2. LineSlots(bc, i)
      BY <1>2, <1>3, <2>1, LineOKInSlots DEF Sound
    <2>3. ins.op \in {"CONST", "CALL"} \cup Arith
      BY <2>1 DEF LineOK, ConstOK, BinaryOK, CallOK
    <2>4. ins.op = "CALL" => ins.imm \in DOMAIN bc.functions
      BY <2>1 DEF LineOK, ConstOK, BinaryOK, CallOK, Arith
    <2>. QED  BY <2>2, <2>3, <2>4 DEF Calculates
  <1>. QED  BY <1>4, <1>5

\* The places of a program are ranked: those of main above all others,
\* backwards, and those of functions by height, then backwards.
LEMMA ProgramGrounded ==
    ASSUME NEW bc, Sound(bc)
    PROVE  \E N, rank : Grounded(bc, N, rank)
  <1>. DEFINE F == DOMAIN bc.functions
              last == Size(bc) - 1
  <1>1. /\ bc.main \in Nat /\ Size(bc) \in Nat /\ bc.main < last /\ Pcs(bc) = 0..last
        /\ bc.code[last].op = "END" /\ bc.code \in [Pcs(bc) -> Instruction]
    <2>1. /\ bc.main \in Nat /\ Size(bc) \in Nat /\ bc.main + 1 < Size(bc)
          /\ bc.code[Size(bc) - 1].op = "END"
      BY MainEntry
    <2>2. bc.code \in [0..last -> Instruction]
      BY DEF Sound, IsBytecode
    <2>3. Pcs(bc) = 0..last
      BY <2>2 DEF Pcs
    <2>. QED  BY <2>1, <2>2, <2>3
  <1>2. PICK K \in Nat : \E low \in [0..(bc.main - 1) -> 0..K] :
          \A f \in F, i \in Nat : In(bc, f, i) =>
             /\ i \in 0..(bc.main - 1)
             /\ \A j \in Nat : i < j /\ In(bc, f, j) => low[j] < low[i]
             /\ \A e \in F : e \in Calls(bc, f) => low[bc.functions[e].entry] < low[i]
    BY Ranked
  <1>3. PICK low \in [0..(bc.main - 1) -> 0..K] :
          \A f \in F, i \in Nat : In(bc, f, i) =>
             /\ i \in 0..(bc.main - 1)
             /\ \A j \in Nat : i < j /\ In(bc, f, j) => low[j] < low[i]
             /\ \A e \in F : e \in Calls(bc, f) => low[bc.functions[e].entry] < low[i]
    BY <1>2
  <1>. DEFINE N == K + 1 + Size(bc)
              rank == [i \in Pcs(bc) |-> IF i < bc.main THEN low[i] ELSE N - i]
  <1>4. /\ N \in Nat
        /\ \A i \in Pcs(bc) : rank[i] = IF i < bc.main THEN low[i] ELSE N - i
        /\ \A i \in Pcs(bc) : i < bc.main => low[i] \in 0..K
    BY <1>1
  <1>5. rank \in [Pcs(bc) -> 0..N]
    <2>1. \A i \in Pcs(bc) : (IF i < bc.main THEN low[i] ELSE N - i) \in 0..N
      BY <1>1, <1>4
    <2>. QED  BY <2>1
  <1>. HIDE DEF rank
  <1>6. \A e \in F : /\ bc.functions[e].entry \in Pcs(bc) /\ bc.functions[e].entry < bc.main
                     /\ In(bc, e, bc.functions[e].entry)
    <2>. SUFFICES ASSUME NEW e \in F
                  PROVE  /\ bc.functions[e].entry \in Pcs(bc) /\ bc.functions[e].entry < bc.main
                         /\ In(bc, e, bc.functions[e].entry)
      OBVIOUS
    <2>. DEFINE n == Func(bc, e).entry
                m == Func(bc, e).end
    <2>1. n \in Nat /\ m \in Nat /\ n < m /\ m <= bc.main
      BY FunctionScanned DEF Function
    <2>2. In(bc, e, n)
      BY <2>1 DEF In
    <2>. HIDE DEF n, m
    <2>3. n \in 0..last /\ n < bc.main
      BY <1>1, <2>1
    <2>. QED  BY <1>1, <2>2, <2>3 DEF n, Func
  <1>7. ASSUME NEW i \in Pcs(bc), i < bc.main PROVE LeadsDown(bc, rank, i)
    <2>. DEFINE ins == bc.code[i]
                Lower(j) == j \in Pcs(bc) /\ rank[j] < rank[i]
    <2>1. i \in Nat
      BY <1>1
    <2>2. PICK f \in F : In(bc, f, i)
      BY <1>7, <2>1, Partition
    <2>3. \A j \in Nat : i < j /\ In(bc, f, j) => Lower(j)
      <3>1. \A j \in Nat : i < j /\ In(bc, f, j) => j \in 0..(bc.main - 1) /\ low[j] < low[i]
        BY <1>3, <2>1, <2>2
      <3>2. \A j \in 0..(bc.main - 1) : j \in Pcs(bc) /\ j < bc.main
        BY <1>1
      <3>. QED  BY <1>4, <1>7, <3>1, <3>2
    <2>4. \A e \in F : e \in Calls(bc, f) => Lower(bc.functions[e].entry)
      <3>1. \A e \in F : e \in Calls(bc, f) => low[bc.functions[e].entry] < low[i]
        BY <1>3, <2>1, <2>2
      <3>. QED  BY <1>4, <1>6, <1>7, <3>1
    <2>. HIDE DEF Lower
    <2>5. /\ ins.op \in BodyOps
          /\ ins.op \in Calculates => Lower(i + 1)
          /\ ins.op = "REPEAT_ENTER" => Lower(ins.imm)
          /\ ins.op = "JUMP_IF_FALSE" => Lower(ins.imm) /\ Lower(i + 1)
          /\ ins.op = "JUMP" => Lower(ins.imm)
          /\ ins.op = "CALL" => Lower(i + 1) /\ Lower(bc.functions[ins.imm].entry)
      BY <2>1, <2>2, <2>3, <2>4, BodyLeads
    <2>6. LineSlots(bc, i)
      BY <2>1, <2>2, BodySlots
    <2>7. ins.op \in Opcodes /\ ins.op \notin {"U32_EMIT", "BOOL_EMIT"}
      <3>1. ins.op \notin {"U32_EMIT", "BOOL_EMIT"}
        BY <2>5 DEF BodyOps, Arith, Compare, Set
      <3>. QED  BY <1>1, <3>1 DEF Instruction
    <2>. QED  BY <2>5, <2>6, <2>7 DEF LeadsDown, LineSlots, Lower
  <1>8. ASSUME NEW i \in Pcs(bc), ~(i < bc.main) PROVE LeadsDown(bc, rank, i)
    <2>. DEFINE ins == bc.code[i]
                Lower(j) == j \in Pcs(bc) /\ rank[j] < rank[i]
    <2>1. i \in Nat /\ bc.main <= i /\ ins.op \in Opcodes
      BY <1>1, <1>8 DEF Instruction
    <2>2. CASE i = last
      BY <1>1, <2>1, <2>2, CalculatesOnly DEF LeadsDown
    <2>3. CASE i # last
      <3>1. i < last /\ i + 1 \in Pcs(bc) /\ ~(i + 1 < bc.main)
        BY <1>1, <2>1, <2>3
      <3>2. Lower(i + 1)
        BY <1>1, <1>4, <1>8, <3>1
      <3>3. \A j \in Pcs(bc) : j < bc.main => Lower(j)
        <4>1. N - i > K
          BY <1>1
        <4>. HIDE DEF N
        <4>2. \A j \in Pcs(bc) : j < bc.main => low[j] < N - i
          BY <1>1, <1>4, <4>1
        <4>. QED  BY <1>4, <1>8, <4>2
      <3>. HIDE DEF Lower
      <3>4. /\ LineSlots(bc, i) /\ ins.op \in {"CALL", "U32_EMIT"} \cup Calculates
            /\ ins.op = "CALL" => ins.imm \in F
        BY <2>1, <3>1, MainSlots
      <3>5. ins.op = "CALL" => Lower(bc.functions[ins.imm].entry)
        BY <1>6, <3>3, <3>4
      <3>. QED  BY <2>1, <3>2, <3>4, <3>5, CalculatesOnly DEF LeadsDown, LineSlots, Lower
    <2>. QED  BY <2>2, <2>3
  <1>9. Grounded(bc, N, rank)
    <2>. HIDE DEF N
    <2>. QED  BY <1>4, <1>5, <1>7, <1>8 DEF Grounded
  <1>. QED  BY <1>9

\* What an accepted program means is well defined, however it calls and jumps:
\* at each place and for all slots, the recursive definition of the meaning does
\* equal its body; and the operands there are slots.
THEOREM ProgramMeans ==
    ASSUME NEW bc, Sound(bc)
    PROVE  /\ \A i \in Pcs(bc), env \in SlotValues :
                 MeaningFrom(bc)[<<i, env>>] = MeaningLine(bc, MeaningFrom(bc), <<i, env>>)
           /\ \A i \in Pcs(bc) :
                 /\ bc.code[i].op \in Calculates => LineInSlots(bc.code[i])
                 /\ bc.code[i].op = "REPEAT_ENTER" => RepeatInSlots(bc, i)
  <1>1. PICK N, rank : Grounded(bc, N, rank)
    BY ProgramGrounded
  <1>2. \A i \in Pcs(bc) : LeadsDown(bc, rank, i)
    BY <1>1 DEF Grounded
  <1>3. \A i \in Pcs(bc) : /\ bc.code[i].op \in Calculates => LineInSlots(bc.code[i])
                           /\ bc.code[i].op = "REPEAT_ENTER" => RepeatInSlots(bc, i)
    BY <1>2 DEF LeadsDown
  <1>. QED  BY <1>1, <1>3, MeaningSolves

-----------------------------------------------------------------------------
(* A run computes what the program means *)

Whole == Meaning(program, given)

\* What the program means that goes on at a place with these slots.
Rest(at, env) == MeaningFrom(program)[<<at, env>>]

\* A repeat turned the slots env it began with into those of the frame at i.
Turning(f, i, env) ==
    LET enter == f.repeat_enter_pc
        turn == AfterTurns(program, enter, env)[program.code[enter].a - f.repeat_remaining]
    IN  /\ env \in SlotValues
        /\ f.values = IF i = enter THEN turn ELSE InTurn(program, enter, turn)[i]

\* The frame at i means v: the lines from there on do, or those from the repeat on.
FrameMeans(f, i, v) ==
    IF f.repeat_remaining = 0 THEN Rest(i, f.values) = v
    ELSE \E env : Turning(f, i, env) /\ Rest(f.repeat_enter_pc, env) = v

\* What frame d means, when the call it waits for returns v.
Resumed(d, v) ==
    IF v = Undefined THEN Undefined
    ELSE Rest(frames[d + 1].return_pc,
              Stored(frames[d].values, frames[d + 1].return_destination, v))

\* The frames mean the results: the last what is left of the running function,
\* each of the others what it does with the result of the next, and the first
\* what the program means.
Results(results) ==
    /\ results[0] = Whole
    /\ \A d \in 0..(depth - 1) : results[d] = Resumed(d, results[d + 1])
    /\ FrameMeans(Top, pc, results[depth])

\* What is left to run means what the program does, until that is emitted.
MeaningInv ==
    /\ status = "running" =>
          IF emitted = {} THEN \E results : Results(results)
          ELSE {e.value : e \in emitted} = {Whole}
    /\ ResultIsMeaning

\* The slots of a frame have values.
LEMMA FrameValues == ASSUME NEW f \in FrameType PROVE f.values \in SlotValues
  BY DEF FrameType, SlotValues, Slots

\* A place with values means what its line does with them.
LEMMA RestHere ==
    ASSUME IInv, RunInv, status = "running", NEW i \in Pcs(program), NEW env \in SlotValues
    PROVE  Rest(i, env) = MeaningLine(program, MeaningFrom(program), <<i, env>>)
  <1>1. Sound(program)
    BY WhileRunning
  <1>. QED  BY <1>1, ProgramMeans DEF Rest

\* The operands of the next line are slots, if it calculates or repeats.
LEMMA InsInSlots ==
    ASSUME IInv, RunInv, Fetched
    PROVE  /\ pc \in Pcs(program) /\ status = "running"
           /\ Ins.op \in Calculates => LineInSlots(Ins)
           /\ Ins.op = "REPEAT_ENTER" => RepeatInSlots(program, pc)
  <1>1. pc \in Pcs(program) /\ status = "running"
    BY DEF Fetched
  <1>2. Sound(program)
    BY <1>1, WhileRunning
  <1>. QED  BY <1>1, <1>2, ProgramMeans DEF Ins

\* The place of a run in a repeat.
LEMMA TurnPlace ==
    ASSUME IInv, RunInv, status = "running", Top.repeat_remaining # 0
    PROVE  LET enter == Top.repeat_enter_pc
               count == program.code[enter].a
               next == program.code[enter].imm - 1
           IN  /\ RepeatInSlots(program, enter)
               /\ enter \in Nat /\ next \in Nat /\ next > enter + 1
               /\ pc \in enter..next /\ enter \in Pcs(program)
               /\ program.code[enter].op = "REPEAT_ENTER"
               /\ program.code[enter].imm = next + 1
               /\ program.code[next].op = "REPEAT_NEXT"
               /\ \A i \in (enter + 1)..(next - 1) : program.code[i].op \in Set
               /\ count \in Nat /\ Top.repeat_remaining \in 1..count
               /\ count - Top.repeat_remaining \in 0..count
               /\ (count - Top.repeat_remaining) + 1 \in 0..count
               /\ count \in 0..count
  <1>. DEFINE e == Top.repeat_enter_pc
              k == Top.repeat_remaining
              ins == program.code[e]
              fn == Func(program, Top.function_index)
  <1>1. /\ Sound(program) /\ StackOK /\ Budget /\ depth \in Nat
        /\ IsBytecode(program)
    BY WhileRunning DEF Sound
  <1>2. PICK rest \in Nat : Place(Top, pc, rest)
    BY <1>1 DEF Budget
  <1>3. depth > 0 /\ InFunction(program, fn, Now(Top), k, e, pc, rest)
    <2>1. depth # 0
      BY <1>2 DEF Place, InMain
    <2>. QED  BY <1>1, <1>2, <2>1 DEF Place
  <1>4. InRepeat(program, fn, Now(Top), k, e, pc, rest)
    BY <1>3, Zenon DEF InFunction, AtLine, InBranch
  <1>5. /\ Scanned(program, fn, e, Now(Top)) /\ ins.op = "REPEAT_ENTER"
        /\ k \in 1..ins.a /\ pc \in e..(ins.imm - 1)
    BY <1>4 DEF InRepeat
  <1>6. Top.function_index \in DOMAIN program.functions
    <2>1. depth \in 1..depth
      BY <1>1, <1>3
    <2>. QED  BY <1>1, <2>1 DEF StackOK, Top
  <1>7. fn \in Function /\ fn.end <= Size(program)
    BY <1>1, <1>6, FunctionScanned
  <1>. HIDE DEF fn, k
  <1>8. /\ e \in Nat /\ e < fn.end /\ ins \in Instruction /\ RepeatOK(program, fn, e, Now(Top))
    BY <1>1, <1>5, <1>7, ScannedCases
  <1>9. /\ ins.a \in 1..MaxRepeat /\ ins.imm > e + 2 /\ program.code[ins.imm - 1].op = "REPEAT_NEXT"
        /\ \A i \in (e + 1)..(ins.imm - 2) : program.code[i].op \in Set
    BY <1>8 DEF RepeatOK, SetOK
  <1>10. e \in Pcs(program)
    <2>1. Size(program) \in Nat /\ program.code \in [0..(Size(program) - 1) -> Instruction]
      BY <1>1 DEF IsBytecode
    <2>2. fn.end \in Nat
      BY <1>7 DEF Function
    <2>. HIDE DEF e
    <2>3. e \in 0..(Size(program) - 1)
      BY <1>7, <1>8, <2>1, <2>2
    <2>. QED  BY <2>1, <2>3 DEF Pcs
  <1>11. RepeatInSlots(program, e)
    BY <1>1, <1>5, <1>10, ProgramMeans
  <1>12. ins.a \in Nat /\ ins.imm \in Nat
    BY <1>11 DEF RepeatInSlots
  <1>. HIDE DEF e, ins
  <1>. DEFINE next == ins.imm - 1
              count == ins.a
  <1>13. /\ next \in Nat /\ next > e + 1 /\ ins.imm = next + 1 /\ pc \in e..next
         /\ \A i \in (e + 1)..(next - 1) : i \in (e + 1)..(ins.imm - 2)
    BY <1>5, <1>8, <1>9, <1>12
  <1>14. count - k \in 0..count /\ (count - k) + 1 \in 0..count /\ count \in 0..count
    BY <1>5, <1>12
  <1>. QED  BY <1>5, <1>8, <1>9, <1>10, <1>11, <1>12, <1>13, <1>14 DEF e, ins, k

\* So only a few lines are run in one.
LEMMA OutOfRepeat ==
    ASSUME IInv, RunInv, Fetched, Ins.op \notin Set \cup {"REPEAT_ENTER", "REPEAT_NEXT"}
    PROVE  Top.repeat_remaining = 0
  <1>. SUFFICES ASSUME Top.repeat_remaining # 0 PROVE FALSE
    OBVIOUS
  <1>. DEFINE enter == Top.repeat_enter_pc
              next == program.code[enter].imm - 1
  <1>1. /\ enter \in Nat /\ next \in Nat /\ next > enter + 1 /\ pc \in enter..next
        /\ program.code[enter].op = "REPEAT_ENTER" /\ program.code[next].op = "REPEAT_NEXT"
        /\ \A i \in (enter + 1)..(next - 1) : program.code[i].op \in Set
    BY TurnPlace DEF Fetched
  <1>. HIDE DEF enter, next
  <1>2. pc = enter \/ pc = next \/ pc \in (enter + 1)..(next - 1)
    BY <1>1
  <1>. QED  BY <1>1, <1>2 DEF Ins

\* A line other than END is run before the emit.
LEMMA StillToEmit ==
    ASSUME IInv, RunInv, Fetched, Ins.op # "END"
    PROVE  emitted = {}
  <1>1. StackOK /\ Budget /\ depth \in Nat /\ status = "running"
    BY WhileRunning DEF Fetched
  <1>2. CASE depth = 0
    <2>1. PICK rest \in Nat : \E due \in [0..depth -> Nat] :
             Place(Top, pc, rest) /\ Due(due) /\ Spends(executed + rest + due[depth])
      BY <1>1 DEF Budget
    <2>2. PICK due \in [0..depth -> Nat] :
             Place(Top, pc, rest) /\ Due(due) /\ Spends(executed + rest + due[depth])
      BY <2>1
    <2>3. MainLeads(program, Now(Top), Top.repeat_remaining, pc, rest)
      BY <1>1, <1>2, <2>2, HereLeads
    <2>. QED  BY <2>3 DEF MainLeads, Ins
  <1>3. CASE depth > 0
    BY <1>1, <1>3 DEF StackOK
  <1>. QED  BY <1>1, <1>2, <1>3

\* A step of the running frame that leaves what it means leaves what the
\* program does.
LEMMA KeepsMeaning ==
    ASSUME IInv, RunInv, MeaningInv, Fetched, Ins.op # "END",
           NEW f \in FrameType, SameCall(f, Top), NEW next, Advance(f, next),
           \A v : FrameMeans(Top, pc, v) => FrameMeans(f, next, v)
    PROVE  MeaningInv'
  <1>1. /\ status = "running" /\ emitted = {} /\ depth \in Nat /\ depth \in Depths
        /\ frames \in [Depths -> FrameType]
    BY StillToEmit, WhileRunning DEF Fetched, IInv, TypeOK
  <1>2. PICK results : Results(results)
    BY <1>1 DEF MeaningInv
  <1>3. /\ frames' = [frames EXCEPT ![depth] = f] /\ pc' = next
        /\ UNCHANGED <<program, given, status, depth, bound, emitted>>
    BY DEF Advance
  <1>4. Top' = f
    BY <1>1, <1>3 DEF Top
  <1>5. Whole' = Whole
    BY <1>3 DEF Whole
  <1>6. ASSUME NEW d \in 0..(depth - 1) PROVE results[d] = Resumed(d, results[d + 1])'
    <2>1. /\ d \in Depths /\ d + 1 \in Depths /\ d # depth
      BY <1>1, LimitsAssumption DEF Depths
    <2>2. frames'[d] = frames[d]
      BY <1>1, <1>3, <2>1
    <2>3. /\ frames'[d + 1].return_pc = frames[d + 1].return_pc
          /\ frames'[d + 1].return_destination = frames[d + 1].return_destination
      <3>1. CASE d + 1 = depth
        BY <1>1, <1>3, <3>1 DEF SameCall, Top
      <3>2. CASE d + 1 # depth
        BY <1>1, <1>3, <2>1, <3>2
      <3>. QED  BY <3>1, <3>2
    <2>4. results[d] = Resumed(d, results[d + 1])
      BY <1>2 DEF Results
    <2>. QED  BY <1>3, <2>2, <2>3, <2>4 DEF Resumed, Rest
  <1>7. FrameMeans(Top, pc, results[depth])'
    <2>1. FrameMeans(f, next, results[depth])
      BY <1>2 DEF Results
    <2>. QED  BY <1>3, <1>4, <2>1 DEF FrameMeans, Turning, Rest
  <1>8. Results(results)'
    BY <1>2, <1>3, <1>5, <1>6, <1>7 DEF Results
  <1>9. ResultIsMeaning'
    BY <1>1, <1>3 DEF ResultIsMeaning
  <1>. QED  BY <1>1, <1>3, <1>8, <1>9 DEF MeaningInv

\* The meaning of a repeat goes on behind it.
LEMMA RepeatMeans ==
    ASSUME IInv, RunInv, status = "running", NEW enter \in Pcs(program),
           program.code[enter].op = "REPEAT_ENTER", NEW env \in SlotValues
    PROVE  Rest(enter, env) =
              Onward(MeaningFrom(program), program.code[enter].imm,
                     AfterTurns(program, enter, env)[program.code[enter].a])
  <1>1. Rest(enter, env) = MeaningLine(program, MeaningFrom(program), <<enter, env>>)
    BY RestHere
  <1>. QED  BY <1>1, MeansRepeat

\* A line of a repeat that calculates leaves what the turn makes of it.
LEMMA TurnStep ==
    ASSUME IInv, RunInv, Fetched, Top.repeat_remaining # 0, Ins.op \in Calculates,
           NEW env, Turning(Top, pc, env)
    PROVE  LET enter == Top.repeat_enter_pc
               next == program.code[enter].imm - 1
               turn == AfterTurns(program, enter, env)[program.code[enter].a - Top.repeat_remaining]
           IN  /\ pc + 1 \in (enter + 1)..next /\ pc # enter /\ turn \in Maybe
               /\ Top.values = InTurn(program, enter, turn)[pc]
               /\ InTurn(program, enter, turn)[pc + 1] = Line(Ins, Top.values)
  <1>. DEFINE enter == Top.repeat_enter_pc
              next == program.code[enter].imm - 1
              count == program.code[enter].a
              k == count - Top.repeat_remaining
              A == AfterTurns(program, enter, env)
              turn == A[k]
              T == InTurn(program, enter, turn)
  <1>1. /\ RepeatInSlots(program, enter)
        /\ enter \in Nat /\ next \in Nat /\ next > enter + 1 /\ pc \in enter..next
        /\ program.code[enter].op = "REPEAT_ENTER" /\ program.code[next].op = "REPEAT_NEXT"
        /\ k \in 0..count
    BY TurnPlace DEF Fetched
  <1>2. pc # enter /\ pc # next
    BY <1>1, CalculatesOnly DEF Ins
  <1>3. pc \in (enter + 1)..next /\ pc + 1 \in (enter + 1)..next
    BY <1>1, <1>2
  <1>4. env \in SlotValues /\ Top.values = T[pc]
    BY <1>2 DEF Turning
  <1>5. turn \in Maybe
    <2>. HIDE DEF k, count
    <2>. QED  BY <1>1, <1>4, TurnsSolve DEF Maybe, count
  <1>6. \A i \in (enter + 1)..next : i + 1 \in (enter + 1)..next => T[i + 1] = Line(program.code[i], T[i])
    BY <1>1, <1>5, TurnSolves
  <1>7. T[pc + 1] = Line(Ins, Top.values)
    <2>. HIDE DEF T
    <2>. QED  BY <1>3, <1>4, <1>6 DEF Ins
  <1>. QED  BY <1>2, <1>3, <1>4, <1>5, <1>7

\* The turns of a repeat are made one after another.
LEMMA TurnsStep ==
    ASSUME IInv, RunInv, status = "running", Top.repeat_remaining # 0, NEW env \in SlotValues
    PROVE  LET enter == Top.repeat_enter_pc
               next == program.code[enter].imm - 1
               count == program.code[enter].a
               k == count - Top.repeat_remaining
               A == AfterTurns(program, enter, env)
           IN  /\ A[k + 1] = InTurn(program, enter, A[k])[next]
               /\ A[k + 1] = Stuck => A[count] = Stuck
  <1>. DEFINE enter == Top.repeat_enter_pc
              next == program.code[enter].imm - 1
              count == program.code[enter].a
              k == count - Top.repeat_remaining
              A == AfterTurns(program, enter, env)
  <1>1. /\ RepeatInSlots(program, enter) /\ count \in Nat /\ Top.repeat_remaining \in 1..count
        /\ k \in 0..count /\ k + 1 \in 0..count /\ count \in 0..count
    BY TurnPlace
  <1>2. k + 1 <= count
    BY <1>1
  <1>3. /\ \A m \in 0..count : m + 1 \in 0..count => A[m + 1] = InTurn(program, enter, A[m])[next]
        /\ \A m, n \in 0..count : m <= n /\ A[m] = Stuck => A[n] = Stuck
    <2>1. RepeatInSlots(program, enter) /\ env \in Maybe
      BY <1>1 DEF Maybe
    <2>. HIDE DEF enter
    <2>. QED  BY <2>1, TurnsSolve
  <1>. HIDE DEF A, k, next, count
  <1>4. A[k + 1] = InTurn(program, enter, A[k])[next]
    BY <1>1, <1>3
  <1>5. A[k + 1] = Stuck => A[count] = Stuck
    BY <1>1, <1>2, <1>3
  <1>. QED  BY <1>4, <1>5 DEF A, k, next, count

\* The frame with what the line calculates stored.
Stores(f, v) ==
    /\ f \in FrameType /\ SameCall(f, Top) /\ f.values = Stored(Top.values, Ins.a, v)
    /\ f.repeat_remaining = Top.repeat_remaining /\ f.repeat_enter_pc = Top.repeat_enter_pc

\* The VM calculates what the line means,
LEMMA CalculatedValue ==
    ASSUME IInv, RunInv, Fetched, Ins.op \in Arith \cup Compare \cup Set,
           Divides(Ins.op) => Top.values[Ins.flags] # 0, NEW v,
           Ins.op \in Compare => v = Test(Ins.op, Top.values[Ins.b], Top.values[Ins.flags]),
           Ins.op \notin Compare => v = Apply(Ins.op, Top.values[Ins.b], Top.values[Ins.flags])
    PROVE  v \in U32 /\ Calculate(Ins, Top.values) = v /\ Ins.op \in Calculates
  <1>. DEFINE x == Top.values[Ins.b]
              y == Top.values[Ins.flags]
  <1>1. Top.values \in SlotValues
    BY FetchedType, FrameValues
  <1>2. Ins.op \in Calculates /\ Ins.op # "CONST"
    BY DEF Calculates, Arith, Compare, Set
  <1>3. LineInSlots(Ins)
    BY <1>2, InsInSlots
  <1>4. CASE Ins.op \in Compare
    <2>1. Calculate(Ins, Top.values) = Test(Ins.op, x, y) /\ Test(Ins.op, x, y) \in U32
      BY <1>1, <1>3, <1>4, CalculateType, TestType
    <2>. QED  BY <1>2, <1>4, <2>1
  <1>5. CASE Ins.op \notin Compare
    <2>1. Ins.op \in Arith \cup Set
      BY <1>5
    <2>2. Calculate(Ins, Top.values) = Apply(Ins.op, x, y)
      BY <1>1, <1>3, <2>1, CalculateType
    <2>3. x \in U32 /\ y \in U32
      BY <1>1, <1>2, <1>3 DEF LineInSlots, SlotValues, Slots
    <2>4. Apply(Ins.op, x, y) \in U32
      BY <2>1, <2>3, ApplyType
    <2>. QED  BY <1>2, <1>5, <2>2, <2>4
  <1>. QED  BY <1>4, <1>5

\* and stores it in its slot.
LEMMA CalculatesStep ==
    ASSUME IInv, RunInv, Const \/ Compute \/ SetSlot
    PROVE  \E v \in U32 : \E f : /\ Fetched /\ Ins.op \in Calculates
                                 /\ Calculate(Ins, Top.values) = v
                                 /\ Stores(f, v) /\ Advance(f, pc + 1)
  <1>1. Fetched /\ Ins.a \in Slots
    <2>1. Fetched
      BY DEF Const, Compute, SetSlot
    <2>2. Ins.a < Top.n
      BY DEF Const, Compute, SetSlot, CanConst, CanCompute, CanSet, Fresh, Reads
    <2>. QED  BY <2>1, <2>2, FetchedType DEF Instruction
  <1>2. Top \in FrameType
    BY <1>1, FetchedType
  <1>3. ASSUME NEW v \in U32, NEW isBool \in BOOLEAN PROVE Stores(Assigned(Top, Ins.a, v, isBool), v)
    <2>. DEFINE f == Assigned(Top, Ins.a, v, isBool)
    <2>1. f \in FrameType /\ SameCall(f, Top)
      BY <1>1, <1>2, AssignedType
    <2>2. /\ f.values = Stored(Top.values, Ins.a, v)
          /\ f.repeat_remaining = Top.repeat_remaining /\ f.repeat_enter_pc = Top.repeat_enter_pc
      BY <1>2 DEF Assigned, FrameType, Stored
    <2>. HIDE DEF f
    <2>. QED  BY <2>1, <2>2 DEF Stores, f
  <1>4. CASE Const
    <2>1. Ins.op = "CONST" /\ Ins.imm \in U32
      BY <1>1, <1>4, FetchedType DEF Const, CanConst
    <2>2. Ins.op \in Calculates
      BY <2>1 DEF Calculates
    <2>3. Calculate(Ins, Top.values) = Ins.imm
      <3>1. LineInSlots(Ins) /\ Top.values \in SlotValues
        BY <1>1, <1>2, <2>2, InsInSlots, FrameValues
      <3>. QED  BY <2>1, <3>1, CalculateType
    <2>4. Stores(Assigned(Top, Ins.a, Ins.imm, FALSE), Ins.imm)
      BY <1>3, <2>1
    <2>5. Advance(Assigned(Top, Ins.a, Ins.imm, FALSE), pc + 1)
      BY <1>4 DEF Const
    <2>. QED  BY <1>1, <2>1, <2>2, <2>3, <2>4, <2>5
  <1>5. CASE Compute
    <2>. DEFINE x == Top.values[Ins.b]
                y == Top.values[Ins.flags]
                v == IF Ins.op \in Compare THEN Test(Ins.op, x, y) ELSE Apply(Ins.op, x, y)
                isBool == Ins.op \in Compare
                f == Assigned(Top, Ins.a, v, isBool)
    <2>1. CanCompute /\ ~ByZero /\ Advance(f, pc + 1) /\ isBool \in BOOLEAN
      BY <1>5 DEF Compute
    <2>2. /\ Ins.op \in Arith \cup Compare \cup Set /\ (Divides(Ins.op) => y # 0)
          /\ isBool => v = Test(Ins.op, x, y)
          /\ ~isBool => v = Apply(Ins.op, x, y)
      BY <2>1 DEF CanCompute, ByZero
    <2>. HIDE DEF v
    <2>3. v \in U32 /\ Calculate(Ins, Top.values) = v /\ Ins.op \in Calculates
      BY <1>1, <2>2, CalculatedValue
    <2>. HIDE DEF isBool
    <2>4. Stores(f, v)
      BY <1>3, <2>1, <2>3
    <2>. HIDE DEF f
    <2>. QED  BY <1>1, <2>1, <2>3, <2>4
  <1>6. CASE SetSlot
    <2>. DEFINE v == Apply(Ins.op, Top.values[Ins.b], Top.values[Ins.flags])
                f == [Top EXCEPT !.values[Ins.a] = v]
    <2>1. CanSet /\ ~ByZero /\ Advance(f, pc + 1)
      BY <1>6 DEF SetSlot
    <2>2. Ins.op \in Set /\ Ins.op \notin Compare /\ (Divides(Ins.op) => Top.values[Ins.flags] # 0)
      BY <2>1 DEF CanSet, ByZero, Set, Compare
    <2>3. v = Apply(Ins.op, Top.values[Ins.b], Top.values[Ins.flags])
      OBVIOUS
    <2>. HIDE DEF v
    <2>4. v \in U32 /\ Calculate(Ins, Top.values) = v /\ Ins.op \in Calculates
      BY <1>1, <2>2, <2>3, CalculatedValue
    <2>5. Stores(f, v)
      <3>1. f \in FrameType /\ SameCall(f, Top)
        BY <1>1, <1>2, <2>4 DEF FrameType, SameCall
      <3>2. /\ f.values = Stored(Top.values, Ins.a, v)
            /\ f.repeat_remaining = Top.repeat_remaining /\ f.repeat_enter_pc = Top.repeat_enter_pc
        BY <1>2 DEF FrameType, Stored
      <3>. HIDE DEF f
      <3>. QED  BY <3>1, <3>2 DEF Stores
    <2>. HIDE DEF f
    <2>. QED  BY <1>1, <2>1, <2>4, <2>5
  <1>. QED  BY <1>4, <1>5, <1>6

\* Behind a line that calculates the frame means what it meant before.
LEMMA LineMeans ==
    ASSUME IInv, RunInv, Fetched, Ins.op \in Calculates, NEW v \in U32,
           Calculate(Ins, Top.values) = v, NEW f, Stores(f, v),
           NEW result, FrameMeans(Top, pc, result)
    PROVE  FrameMeans(f, pc + 1, result)
  <1>1. /\ pc \in Pcs(program) /\ status = "running" /\ LineInSlots(Ins)
        /\ Top.values \in SlotValues /\ f.values \in SlotValues
        /\ f.repeat_remaining = Top.repeat_remaining /\ f.repeat_enter_pc = Top.repeat_enter_pc
    BY InsInSlots, FetchedType, FrameValues DEF Stores
  <1>2. Line(Ins, Top.values) = f.values
    <2>1. Line(Ins, Top.values) = [Top.values EXCEPT ![Ins.a] = v]
      BY <1>1, LineStores
    <2>. QED  BY <2>1 DEF Stores, Stored
  <1>3. CASE Top.repeat_remaining = 0
    <2>1. Rest(pc, Top.values) = result
      BY <1>3 DEF FrameMeans
    <2>2. Rest(pc, Top.values) = MeaningLine(program, MeaningFrom(program), <<pc, Top.values>>)
      BY <1>1, RestHere
    <2>3. MeaningLine(program, MeaningFrom(program), <<pc, Top.values>>)
            = Onward(MeaningFrom(program), pc + 1, Line(Ins, Top.values))
      BY MeansLine DEF Ins
    <2>4. Onward(MeaningFrom(program), pc + 1, f.values) = Rest(pc + 1, f.values)
      BY <1>1, NotStuck DEF Onward, Rest
    <2>. QED  BY <1>1, <1>2, <1>3, <2>1, <2>2, <2>3, <2>4 DEF FrameMeans
  <1>4. CASE Top.repeat_remaining # 0
    <2>1. PICK env : Turning(Top, pc, env) /\ Rest(Top.repeat_enter_pc, env) = result
      BY <1>4 DEF FrameMeans
    <2>. DEFINE enter == Top.repeat_enter_pc
                next == program.code[enter].imm - 1
                turn == AfterTurns(program, enter, env)[program.code[enter].a - Top.repeat_remaining]
    <2>2. /\ pc + 1 \in (enter + 1)..next
          /\ InTurn(program, enter, turn)[pc + 1] = Line(Ins, Top.values)
      BY <1>4, <2>1, TurnStep
    <2>3. enter \in Nat
      BY <1>1, <1>4, TurnPlace
    <2>4. pc + 1 # enter
      BY <2>2, <2>3
    <2>5. env \in SlotValues
      BY <2>1 DEF Turning
    <2>6. f.values = InTurn(program, enter, turn)[pc + 1]
      BY <1>2, <2>2
    <2>7. Turning(f, pc + 1, env)
      BY <1>1, <2>4, <2>5, <2>6 DEF Turning
    <2>. QED  BY <1>1, <1>4, <2>1, <2>7 DEF FrameMeans
  <1>. QED  BY <1>3, <1>4

\* So such a line leaves what the program means.
LEMMA MeaningCalculates ==
    ASSUME IInv, RunInv, MeaningInv, Const \/ Compute \/ SetSlot
    PROVE  MeaningInv'
  <1>1. PICK v \in U32 : \E f : /\ Fetched /\ Ins.op \in Calculates
                                /\ Calculate(Ins, Top.values) = v
                                /\ Stores(f, v) /\ Advance(f, pc + 1)
    BY CalculatesStep
  <1>2. PICK f : /\ Fetched /\ Ins.op \in Calculates
                 /\ Calculate(Ins, Top.values) = v
                 /\ Stores(f, v) /\ Advance(f, pc + 1)
    BY <1>1
  <1>3. f \in FrameType /\ SameCall(f, Top) /\ Ins.op # "END"
    BY <1>2, CalculatesOnly DEF Stores
  <1>4. \A result : FrameMeans(Top, pc, result) => FrameMeans(f, pc + 1, result)
    BY <1>2, LineMeans
  <1>. QED  BY <1>2, <1>3, <1>4, KeepsMeaning

\* A repeat is entered with the slots it begins with.
LEMMA MeaningEnter ==
    ASSUME IInv, RunInv, MeaningInv, RepeatEnter
    PROVE  MeaningInv'
  <1>. DEFINE new == [Top EXCEPT !.repeat_remaining = Ins.a, !.repeat_enter_pc = pc]
              k == Top.repeat_remaining
  <1>1. /\ Fetched /\ status = "running" /\ Ins.op = "REPEAT_ENTER" /\ Ins.a \in 1..MaxRepeat
        /\ Advance(IF k > 0 THEN Top ELSE new, pc + 1)
        /\ k = 0 \/ Top.repeat_enter_pc = pc
    BY DEF RepeatEnter, CanEnter, Fetched
  <1>2. /\ Top \in FrameType /\ k \in Nat /\ pc \in Nat /\ pc \in Pcs(program)
        /\ RepeatInSlots(program, pc) /\ Top.values \in SlotValues /\ Ins.a \in Nat /\ Ins.a # 0
    BY <1>1, FetchedType, FrameValues, InsInSlots, LimitsAssumption DEF FrameType
  <1>3. InTurn(program, pc, Top.values)[pc + 1] = Top.values
    BY <1>2, TurnSolves DEF Maybe
  <1>4. SameCall(Top, Top)
    BY DEF SameCall
  <1>5. CASE k = 0
    <2>1. new \in FrameType /\ SameCall(new, Top)
      <3>1. Ins.a \in 0..MaxRepeat /\ pc \in Nat \cup {None}
        BY <1>1, <1>2, LimitsAssumption
      <3>. QED  BY <1>2, <3>1, RepeatType
    <2>2. new.values = Top.values /\ new.repeat_remaining = Ins.a /\ new.repeat_enter_pc = pc
      BY <1>2 DEF FrameType
    <2>3. Advance(new, pc + 1)
      BY <1>1, <1>5
    <2>. HIDE DEF new
    <2>4. AfterTurns(program, pc, Top.values)[Ins.a - Ins.a] = Top.values
      <3>1. AfterTurns(program, pc, Top.values)[0] = Top.values
        BY <1>2, TurnsSolve DEF Maybe
      <3>2. Ins.a - Ins.a = 0
        BY <1>2
      <3>. QED  BY <3>1, <3>2
    <2>5. Turning(new, pc + 1, Top.values)
      <3>1. new.values = InTurn(program, pc, AfterTurns(program, pc, Top.values)[Ins.a - Ins.a])[pc + 1]
        BY <1>3, <2>2, <2>4
      <3>2. pc + 1 # pc
        BY <1>2
      <3>. QED  BY <1>2, <2>2, <3>1, <3>2, Zenon DEF Turning, Ins
    <2>6. ASSUME NEW v, FrameMeans(Top, pc, v) PROVE FrameMeans(new, pc + 1, v)
      <3>1. Rest(pc, Top.values) = v
        BY <1>5, <2>6 DEF FrameMeans
      <3>. QED  BY <1>2, <2>2, <2>5, <3>1 DEF FrameMeans
    <2>. QED  BY <1>1, <2>1, <2>3, <2>6, KeepsMeaning
  <1>6. CASE k # 0
    <2>1. Advance(Top, pc + 1)
      BY <1>1, <1>2, <1>6
    <2>2. Top.repeat_enter_pc = pc
      BY <1>1, <1>6
    <2>3. ASSUME NEW v, FrameMeans(Top, pc, v) PROVE FrameMeans(Top, pc + 1, v)
      <3>1. PICK env : Turning(Top, pc, env) /\ Rest(pc, env) = v
        BY <1>6, <2>2, <2>3 DEF FrameMeans
      <3>2. env \in SlotValues /\ Top.values = AfterTurns(program, pc, env)[program.code[pc].a - k]
        BY <2>2, <3>1 DEF Turning
      <3>3. pc + 1 # pc
        BY <1>2
      <3>4. Top.values = InTurn(program, pc, AfterTurns(program, pc, env)[program.code[pc].a - k])[pc + 1]
        BY <1>3, <3>2
      <3>5. Turning(Top, pc + 1, env)
        BY <2>2, <3>2, <3>3, <3>4 DEF Turning
      <3>. QED  BY <1>6, <2>2, <3>1, <3>5 DEF FrameMeans
    <2>. QED  BY <1>1, <1>2, <1>4, <2>1, <2>3, KeepsMeaning
  <1>. QED  BY <1>5, <1>6

\* A turn ends with the slots the next one begins with, or the code behind.
LEMMA MeaningNext ==
    ASSUME IInv, RunInv, MeaningInv, RepeatNext
    PROVE  MeaningInv'
  <1>. DEFINE enter == Top.repeat_enter_pc
              next == program.code[enter].imm - 1
              count == program.code[enter].a
              k == count - Top.repeat_remaining
              more == [Top EXCEPT !.repeat_remaining = @ - 1]
              over == [Top EXCEPT !.repeat_remaining = 0, !.repeat_enter_pc = None]
  <1>1. /\ Fetched /\ status = "running" /\ Ins.op = "REPEAT_NEXT" /\ Top.repeat_remaining > 0
        /\ Ins.imm = enter
        /\ IF Top.repeat_remaining > 1 THEN Advance(more, Ins.imm) ELSE Advance(over, pc + 1)
    BY DEF RepeatNext, CanNext, Fetched
  <1>2. /\ Top \in FrameType /\ Top.values \in SlotValues /\ pc \in Nat /\ pc \in Pcs(program)
        /\ Top.repeat_remaining \in 0..MaxRepeat /\ Top.repeat_remaining \in Nat
        /\ Top.repeat_remaining # 0
    BY <1>1, FetchedType, FrameValues, InsInSlots, LimitsAssumption DEF FrameType
  <1>3. /\ RepeatInSlots(program, enter) /\ enter \in Pcs(program)
        /\ enter \in Nat /\ next \in Nat /\ next > enter + 1 /\ pc \in enter..next
        /\ program.code[enter].op = "REPEAT_ENTER" /\ program.code[enter].imm = next + 1
        /\ \A i \in (enter + 1)..(next - 1) : program.code[i].op \in Set
        /\ count \in Nat /\ Top.repeat_remaining \in 1..count
    BY <1>1, <1>2, TurnPlace
  <1>4. pc = next
    <2>1. pc # enter /\ pc \notin (enter + 1)..(next - 1)
      <3>1. Ins.op \notin Set /\ Ins.op # "REPEAT_ENTER"
        BY <1>1 DEF Set
      <3>. QED  BY <1>3, <3>1 DEF Ins
    <2>. HIDE DEF enter, next
    <2>. QED  BY <1>3, <2>1
  <1>5. ASSUME NEW v, FrameMeans(Top, pc, v)
        PROVE  \E env \in SlotValues : /\ Rest(enter, env) = v
                                       /\ AfterTurns(program, enter, env)[k + 1] = Top.values
    <2>1. PICK env : Turning(Top, pc, env) /\ Rest(enter, env) = v
      BY <1>2, <1>5 DEF FrameMeans
    <2>2. pc # enter
      BY <1>3, <1>4
    <2>3. env \in SlotValues /\ Top.values = InTurn(program, enter, AfterTurns(program, enter, env)[k])[next]
      BY <1>4, <2>1, <2>2 DEF Turning
    <2>4. AfterTurns(program, enter, env)[k + 1]
            = InTurn(program, enter, AfterTurns(program, enter, env)[k])[next]
      BY <1>1, <1>2, <2>3, TurnsStep, Zenon
    <2>. QED  BY <2>1, <2>3, <2>4, Zenon
  <1>6. CASE Top.repeat_remaining > 1
    <2>1. more \in FrameType /\ SameCall(more, Top)
      <3>1. Top.repeat_remaining - 1 \in 0..MaxRepeat
        BY <1>2, <1>6, LimitsAssumption
      <3>. QED  BY <1>2, <3>1 DEF FrameType, SameCall
    <2>2. /\ more.values = Top.values /\ more.repeat_remaining = Top.repeat_remaining - 1
          /\ more.repeat_enter_pc = enter
      BY <1>2 DEF FrameType
    <2>3. Advance(more, enter)
      BY <1>1, <1>6
    <2>. HIDE DEF more
    <2>4. count - more.repeat_remaining = k + 1 /\ more.repeat_remaining # 0
      BY <1>2, <1>3, <1>6, <2>2
    <2>5. ASSUME NEW v, FrameMeans(Top, pc, v) PROVE FrameMeans(more, enter, v)
      <3>1. PICK env \in SlotValues : /\ Rest(enter, env) = v
                                      /\ AfterTurns(program, enter, env)[k + 1] = Top.values
        BY <1>5, <2>5
      <3>2. Turning(more, enter, env)
        <4>1. more.values = AfterTurns(program, enter, env)[count - more.repeat_remaining]
          BY <2>2, <2>4, <3>1
        <4>. QED  BY <2>2, <4>1 DEF Turning
      <3>. QED  BY <2>2, <2>4, <3>1, <3>2 DEF FrameMeans
    <2>. QED  BY <1>1, <2>1, <2>3, <2>5, KeepsMeaning
  <1>7. CASE ~(Top.repeat_remaining > 1)
    <2>1. over \in FrameType /\ SameCall(over, Top)
      <3>1. 0 \in 0..MaxRepeat /\ None \in Nat \cup {None}
        BY LimitsAssumption
      <3>. QED  BY <1>2, <3>1, RepeatType
    <2>2. over.values = Top.values /\ over.repeat_remaining = 0
      BY <1>2 DEF FrameType
    <2>3. Advance(over, pc + 1)
      BY <1>1, <1>7
    <2>. HIDE DEF over
    <2>4. k + 1 = count
      <3>1. Top.repeat_remaining = 1
        BY <1>2, <1>7
      <3>2. count \in Nat
        BY <1>3
      <3>. HIDE DEF count
      <3>. QED  BY <3>1, <3>2
    <2>5. ASSUME NEW v, FrameMeans(Top, pc, v) PROVE FrameMeans(over, pc + 1, v)
      <3>1. PICK env \in SlotValues : /\ Rest(enter, env) = v
                                      /\ AfterTurns(program, enter, env)[k + 1] = Top.values
        BY <1>5, <2>5
      <3>2. Rest(enter, env) = Onward(MeaningFrom(program), program.code[enter].imm,
                                      AfterTurns(program, enter, env)[count])
        BY <1>1, <1>3, RepeatMeans
      <3>3. program.code[enter].imm = pc + 1
        BY <1>3, <1>4
      <3>4. AfterTurns(program, enter, env)[count] = Top.values
        BY <2>4, <3>1
      <3>5. v = Onward(MeaningFrom(program), pc + 1, Top.values)
        BY <3>1, <3>2, <3>3, <3>4
      <3>6. Rest(pc + 1, Top.values) = v
        BY <1>2, <3>5, NotStuck DEF Onward, Rest
      <3>. QED  BY <2>2, <3>6 DEF FrameMeans
    <2>. QED  BY <1>1, <1>2, <2>1, <2>3, <2>5, KeepsMeaning
  <1>. QED  BY <1>6, <1>7

\* A jump goes on with what the frame means.
LEMMA MeaningJump ==
    ASSUME IInv, RunInv, MeaningInv, Branch \/ Jump
    PROVE  MeaningInv'
  <1>1. Fetched /\ status = "running" /\ Ins.op \in {"JUMP", "JUMP_IF_FALSE"}
    BY DEF Branch, Jump, CanBranch, CanJump, Fetched
  <1>2. Top.repeat_remaining = 0
    BY <1>1, OutOfRepeat DEF Set
  <1>3. Top \in FrameType /\ Top.values \in SlotValues /\ pc \in Pcs(program)
    BY <1>1, FetchedType, FrameValues, InsInSlots
  <1>4. Rest(pc, Top.values) = MeaningLine(program, MeaningFrom(program), <<pc, Top.values>>)
    BY <1>1, <1>3, RestHere
  <1>5. PICK to : Advance(Top, to) /\ Rest(pc, Top.values) = Rest(to, Top.values)
    <2>1. CASE Branch
      <3>. DEFINE to == IF Top.values[Ins.a] = 0 THEN Ins.imm ELSE pc + 1
                  next == <<to, Top.values>>
      <3>1. Ins.op = "JUMP_IF_FALSE" /\ Advance(Top, to)
        BY <2>1 DEF Branch, CanBranch
      <3>2. next = <<IF Top.values[Ins.a] = 0 THEN Ins.imm ELSE pc + 1, Top.values>>
        OBVIOUS
      <3>3. MeaningLine(program, MeaningFrom(program), <<pc, Top.values>>) = MeaningFrom(program)[next]
        <4>. HIDE DEF next
        <4>. QED  BY <3>1, <3>2, MeansBranch DEF Ins
      <3>. HIDE DEF to
      <3>. QED  BY <1>4, <3>1, <3>3 DEF Rest
    <2>2. CASE Jump
      <3>. DEFINE next == <<Ins.imm, Top.values>>
      <3>1. Ins.op = "JUMP" /\ Advance(Top, Ins.imm)
        BY <2>2 DEF Jump, CanJump
      <3>2. next = <<Ins.imm, Top.values>>
        OBVIOUS
      <3>3. MeaningLine(program, MeaningFrom(program), <<pc, Top.values>>) = MeaningFrom(program)[next]
        <4>. HIDE DEF next
        <4>. QED  BY <3>1, <3>2, MeansJump DEF Ins
      <3>. QED  BY <1>4, <3>1, <3>3 DEF Rest
    <2>. QED  BY <2>1, <2>2
  <1>6. \A v : FrameMeans(Top, pc, v) => FrameMeans(Top, to, v)
    BY <1>2, <1>5 DEF FrameMeans
  <1>7. SameCall(Top, Top)
    BY DEF SameCall
  <1>. QED  BY <1>1, <1>3, <1>5, <1>6, <1>7, KeepsMeaning

\* A function is called with the slots its meaning is taken at.
LEMMA ArgumentsPassed ==
    ASSUME IInv, RunInv, Fetched, CanCall
    PROVE  Filled(Args) = Passed(program, Ins, Top.values)
  <1>. DEFINE params == program.functions[Ins.imm].params
              env == Top.values
  <1>1. params \in 0..2
    <2>1. Sound(program) /\ Ins.imm \in DOMAIN program.functions
      BY WhileRunning DEF Fetched, CanCall
    <2>2. Func(program, Ins.imm).params \in 0..MaxParams
      BY <2>1, FunctionScanned
    <2>. QED  BY <2>2 DEF Func, MaxParams
  <1>2. ASSUME NEW s \in Slots
        PROVE  (IF s \in DOMAIN Args THEN Args[s] ELSE 0) =
                  CASE s = 0 /\ params > 0 -> env[Ins.b]
                    [] s = 1 /\ params > 1 -> env[Ins.flags]
                    [] OTHER -> 0
    <2>1. Args = [i \in 0..(params - 1) |-> env[IF i = 0 THEN Ins.b ELSE Ins.flags]]
      BY DEF Args
    <2>2. s \in Nat
      BY LimitsAssumption DEF Slots
    <2>. HIDE DEF params, env
    <2>3. s \in 0..(params - 1) <=> (s = 0 /\ params > 0) \/ (s = 1 /\ params > 1)
      BY <1>1, <2>2
    <2>4. DOMAIN Args = 0..(params - 1)
      BY <2>1
    <2>5. CASE s = 0 /\ params > 0
      BY <2>1, <2>3, <2>4, <2>5
    <2>6. CASE s = 1 /\ params > 1
      BY <2>1, <2>3, <2>4, <2>6
    <2>7. CASE ~(s = 0 /\ params > 0) /\ ~(s = 1 /\ params > 1)
      BY <2>3, <2>4, <2>7
    <2>. QED  BY <2>5, <2>6, <2>7
  <1>. QED  BY <1>2 DEF Filled, Passed, Slots

\* A call asks the function for its result, and goes on with it.
LEMMA MeaningCall ==
    ASSUME IInv, RunInv, MeaningInv, Call
    PROVE  MeaningInv'
  <1>. DEFINE fn == program.functions[Ins.imm]
              f == [Opened(fn.scalars, Args) EXCEPT
                      !.return_pc = pc + 1, !.return_destination = Ins.a,
                      !.function_index = Ins.imm]
              called == Called(program, MeaningFrom(program), pc, Top.values)
  <1>1. /\ Fetched /\ CanCall /\ status = "running" /\ Ins.op = "CALL" /\ depth < MaxCallDepth
        /\ frames' = [frames EXCEPT ![depth + 1] = f] /\ depth' = depth + 1
        /\ pc' = fn.entry /\ UNCHANGED <<program, given, status, bound, emitted>>
    BY DEF Call, CanCall, Fetched
  <1>2. /\ depth \in Nat /\ emitted = {} /\ frames \in [Depths -> FrameType]
        /\ Top.values \in SlotValues /\ pc \in Pcs(program) /\ Top.repeat_remaining = 0
    <2>1. emitted = {}
      BY <1>1, StillToEmit
    <2>2. Top.repeat_remaining = 0
      BY <1>1, OutOfRepeat DEF Set
    <2>3. frames \in [Depths -> FrameType]
      BY DEF IInv, TypeOK
    <2>. QED  BY <1>1, <2>1, <2>2, <2>3, WhileRunning, FetchedType, FrameValues, InsInSlots
  <1>3. PICK results : Results(results)
    BY <1>1, <1>2 DEF MeaningInv
  <1>4. /\ f.return_pc = pc + 1 /\ f.return_destination = Ins.a /\ f.repeat_remaining = 0
        /\ f.values = Filled(Args)
    BY DEF Opened, Frame
  <1>. HIDE DEF f
  <1>5. Rest(fn.entry, f.values) = called
    <2>1. f.values = Passed(program, Ins, Top.values)
      BY <1>1, <1>4, ArgumentsPassed
    <2>. QED  BY <2>1 DEF Rest, Called, Ins
  <1>6. /\ depth + 1 \in Depths /\ frames'[depth + 1] = f
        /\ \A d \in 0..depth : d \in Depths /\ d # depth + 1 /\ frames'[d] = frames[d]
    BY <1>1, <1>2, LimitsAssumption DEF Depths
  <1>7. results[depth] = IF called = Undefined THEN Undefined
                         ELSE Rest(pc + 1, Stored(Top.values, Ins.a, called))
    <2>1. results[depth] = Rest(pc, Top.values)
      BY <1>2, <1>3 DEF Results, FrameMeans
    <2>2. Rest(pc, Top.values) = MeaningLine(program, MeaningFrom(program), <<pc, Top.values>>)
      BY <1>1, <1>2, RestHere
    <2>3. CASE called = Undefined
      <3>1. MeaningLine(program, MeaningFrom(program), <<pc, Top.values>>) = Undefined
        BY <1>1, <2>3, MeansNoCall DEF Ins
      <3>. QED  BY <2>1, <2>2, <2>3, <3>1
    <2>4. CASE called # Undefined
      <3>. DEFINE next == <<pc + 1, Stored(Top.values, Ins.a, called)>>
      <3>1. next = <<pc + 1, Stored(Top.values, Ins.a, called)>>
        OBVIOUS
      <3>2. MeaningLine(program, MeaningFrom(program), <<pc, Top.values>>) = MeaningFrom(program)[next]
        <4>. HIDE DEF next
        <4>. QED  BY <1>1, <2>4, <3>1, MeansCall DEF Ins
      <3>. HIDE DEF called
      <3>. QED  BY <2>1, <2>2, <2>4, <3>2 DEF Rest
    <2>. QED  BY <2>3, <2>4
  <1>. HIDE DEF called
  <1>8. PICK more : more[depth + 1] = called /\ \A d \in 0..depth : more[d] = results[d]
    <2>. DEFINE m == [d \in 0..(depth + 1) |-> IF d = depth + 1 THEN called ELSE results[d]]
    <2>1. \A d \in 0..depth : d \in 0..(depth + 1) /\ d # depth + 1
      BY <1>2
    <2>2. depth + 1 \in 0..(depth + 1)
      BY <1>2
    <2>3. m[depth + 1] = called /\ \A d \in 0..depth : m[d] = results[d]
      BY <2>1, <2>2
    <2>. HIDE DEF m
    <2>. QED  BY <2>3
  <1>9. ASSUME NEW d \in 0..((depth + 1) - 1) PROVE more[d] = Resumed(d, more[d + 1])'
    <2>1. CASE d = depth
      <3>1. d \in 0..depth /\ more[d] = results[depth] /\ more[d + 1] = called
        BY <1>2, <1>8, <2>1
      <3>2. /\ frames'[d].values = Top.values
            /\ frames'[d + 1].return_pc = pc + 1 /\ frames'[d + 1].return_destination = Ins.a
        BY <1>4, <1>6, <2>1, <3>1 DEF Top
      <3>. QED  BY <1>1, <1>7, <3>1, <3>2 DEF Resumed, Rest
    <2>2. CASE d # depth
      <3>1. d \in 0..(depth - 1) /\ d \in 0..depth /\ d + 1 \in 0..depth
        BY <1>2, <2>2
      <3>2. results[d] = Resumed(d, results[d + 1])
        BY <1>3, <3>1 DEF Results
      <3>3. frames'[d] = frames[d] /\ frames'[d + 1] = frames[d + 1]
            /\ more[d] = results[d] /\ more[d + 1] = results[d + 1]
        BY <1>6, <1>8, <3>1
      <3>. QED  BY <1>1, <3>2, <3>3 DEF Resumed, Rest
    <2>. QED  BY <2>1, <2>2
  <1>10. FrameMeans(Top, pc, more[depth])'
    <2>1. Top' = f /\ more[depth'] = called
      BY <1>1, <1>6, <1>8 DEF Top
    <2>2. Rest(pc, Top.values)' = called
      BY <1>1, <1>5, <2>1 DEF Rest
    <2>. QED  BY <1>4, <2>1, <2>2 DEF FrameMeans
  <1>11. more[0] = Whole'
    <2>1. Whole' = Whole
      BY <1>1 DEF Whole
    <2>2. 0 \in 0..depth
      BY <1>2
    <2>. QED  BY <1>3, <1>8, <2>1, <2>2 DEF Results
  <1>12. Results(more)'
    BY <1>1, <1>9, <1>10, <1>11 DEF Results
  <1>13. ResultIsMeaning'
    BY <1>1 DEF ResultIsMeaning
  <1>. QED  BY <1>1, <1>2, <1>12, <1>13 DEF MeaningInv

\* A return hands the caller the result it waits for.
LEMMA MeaningReturn ==
    ASSUME IInv, RunInv, MeaningInv, Return
    PROVE  MeaningInv'
  <1>1. Fetched /\ CanReturn /\ depth > 0 /\ status = "running" /\ Ins.op = "RETURN"
        /\ Top.repeat_remaining = 0
    BY DEF Return, CanReturn, Fetched
  <1>2. /\ depth \in Nat /\ depth \in Depths /\ frames \in [Depths -> FrameType]
        /\ Top \in FrameType /\ Top.values \in SlotValues /\ emitted = {} /\ pc \in Pcs(program)
    <2>1. emitted = {}
      BY <1>1, StillToEmit
    <2>2. frames \in [Depths -> FrameType]
      BY DEF IInv, TypeOK
    <2>. QED  BY <1>1, <2>1, <2>2, WhileRunning, FrameValues, InsInSlots
  <1>3. PICK results : Results(results)
    BY <1>1, <1>2 DEF MeaningInv
  <1>. PICK n \in Nat : n = depth - 1
    BY <1>1, <1>2
  <1>4. /\ n \in Depths /\ n \in 0..(depth - 1) /\ n + 1 = depth /\ n # depth /\ depth - 1 = n
    BY <1>1, <1>2, LimitsAssumption DEF Depths
  <1>. DEFINE to == Top.return_destination
              v == Top.values[Ins.a]
              f == Assigned(frames[n], to, v, FALSE)
  <1>5. /\ frames' = [frames EXCEPT ![depth] = Cleared, ![n] = f] /\ depth' = n
        /\ pc' = Top.return_pc /\ UNCHANGED <<program, given, status, bound, emitted>>
    BY <1>2, <1>4 DEF Return
  <1>6. v \in U32 /\ v # Undefined
    <2>1. v \in U32
      BY <1>1, FetchedType DEF CanReturn, Reads, Instruction
    <2>. HIDE DEF v
    <2>. QED  BY <2>1, NotStuck
  <1>7. frames[n] \in FrameType /\ frames[n + 1] = Top
    BY <1>2, <1>4 DEF Top
  <1>8. frames[n].repeat_remaining = 0
    BY <1>1, <1>4, Resumes
  <1>9. /\ f.values = Stored(frames[n].values, to, v)
        /\ f.repeat_remaining = 0
        /\ f.return_pc = frames[n].return_pc /\ f.return_destination = frames[n].return_destination
    BY <1>7, <1>8 DEF Assigned, FrameType, Stored
  <1>10. results[depth] = v
    <2>1. results[depth] = Rest(pc, Top.values)
      BY <1>1, <1>3 DEF Results, FrameMeans
    <2>2. Rest(pc, Top.values) = MeaningLine(program, MeaningFrom(program), <<pc, Top.values>>)
      BY <1>1, <1>2, RestHere
    <2>3. program.code[pc].op \in {"RETURN", "U32_EMIT", "BOOL_EMIT"}
      BY <1>1 DEF Ins
    <2>4. MeaningLine(program, MeaningFrom(program), <<pc, Top.values>>) = Top.values[program.code[pc].a]
      BY <2>3, MeansReturn
    <2>. QED  BY <2>1, <2>2, <2>4 DEF Ins
  <1>. HIDE DEF f, v, to
  <1>11. results[n] = Rest(Top.return_pc, f.values)
    <2>1. results[n] = Resumed(n, results[n + 1])
      BY <1>3, <1>4 DEF Results
    <2>2. results[n] = Resumed(n, v)
      BY <1>4, <1>10, <2>1
    <2>. QED  BY <1>6, <1>7, <1>9, <2>2 DEF Resumed, to
  <1>12. frames'[n] = f /\ Top' = f
    BY <1>2, <1>4, <1>5 DEF Top
  <1>13. ASSUME NEW d \in 0..(n - 1) PROVE results[d] = Resumed(d, results[d + 1])'
    <2>1. /\ d \in 0..(depth - 1) /\ d # n /\ d # depth /\ d + 1 # depth
          /\ d \in Depths /\ d + 1 \in Depths
      BY <1>2, <1>4, LimitsAssumption DEF Depths
    <2>2. frames'[d] = frames[d]
      BY <1>2, <1>5, <2>1
    <2>3. /\ frames'[d + 1].return_pc = frames[d + 1].return_pc
          /\ frames'[d + 1].return_destination = frames[d + 1].return_destination
      <3>1. CASE d + 1 = n
        BY <1>9, <1>12, <3>1
      <3>2. CASE d + 1 # n
        BY <1>2, <1>5, <2>1, <3>2
      <3>. QED  BY <3>1, <3>2
    <2>4. results[d] = Resumed(d, results[d + 1])
      BY <1>3, <2>1 DEF Results
    <2>. QED  BY <1>5, <2>2, <2>3, <2>4 DEF Resumed, Rest
  <1>14. FrameMeans(Top, pc, results[depth])'
    <2>1. Rest(pc, Top.values)' = results[depth']
      BY <1>5, <1>11, <1>12 DEF Rest
    <2>. QED  BY <1>9, <1>12, <2>1 DEF FrameMeans
  <1>15. Whole' = Whole
    BY <1>5 DEF Whole
  <1>16. Results(results)'
    BY <1>3, <1>5, <1>13, <1>14, <1>15 DEF Results
  <1>17. ResultIsMeaning'
    BY <1>1, <1>5 DEF ResultIsMeaning
  <1>. QED  BY <1>2, <1>5, <1>16, <1>17 DEF MeaningInv

\* What is emitted is what the program means.
LEMMA MeaningEmit ==
    ASSUME IInv, RunInv, MeaningInv, Emit
    PROVE  MeaningInv'
  <1>1. /\ Fetched /\ status = "running" /\ Ins.op = "U32_EMIT" /\ depth = 0 /\ emitted = {}
        /\ emitted' = {[id |-> Ins.a, value |-> Top.values[Ins.a]]}
        /\ UNCHANGED <<program, given, status>>
    BY DEF Emit, CanEmit, Fetched
  <1>2. Top.values \in SlotValues /\ pc \in Pcs(program) /\ Top.repeat_remaining = 0
    <2>1. Top.repeat_remaining = 0
      BY <1>1, OutOfRepeat DEF Set
    <2>. QED  BY <1>1, <2>1, FetchedType, FrameValues, InsInSlots
  <1>3. PICK results : Results(results)
    BY <1>1 DEF MeaningInv
  <1>4. Whole = Rest(pc, Top.values)
    BY <1>1, <1>2, <1>3 DEF Results, FrameMeans
  <1>5. Rest(pc, Top.values) = Top.values[Ins.a]
    <2>1. Rest(pc, Top.values) = MeaningLine(program, MeaningFrom(program), <<pc, Top.values>>)
      BY <1>1, <1>2, RestHere
    <2>2. program.code[pc].op \in {"RETURN", "U32_EMIT", "BOOL_EMIT"}
      BY <1>1 DEF Ins
    <2>3. MeaningLine(program, MeaningFrom(program), <<pc, Top.values>>) = Top.values[program.code[pc].a]
      BY <2>2, MeansReturn
    <2>. QED  BY <2>1, <2>3 DEF Ins
  <1>6. Whole' = Whole
    BY <1>1 DEF Whole
  <1>7. {e.value : e \in emitted'} = {Whole'}
    BY <1>1, <1>4, <1>5, <1>6
  <1>8. ResultIsMeaning'
    BY <1>1 DEF ResultIsMeaning
  <1>. QED  BY <1>1, <1>7, <1>8 DEF MeaningInv

\* A frame about to divide by zero means nothing.
LEMMA NothingLeft ==
    ASSUME IInv, RunInv, Fetched, Ins.op \in Calculates, Line(Ins, Top.values) = Stuck,
           NEW result, FrameMeans(Top, pc, result)
    PROVE  result = Undefined
  <1>1. pc \in Pcs(program) /\ status = "running" /\ Top.values \in SlotValues /\ pc \in Nat
    BY InsInSlots, FetchedType, FrameValues DEF IInv, TypeOK
  <1>2. CASE Top.repeat_remaining = 0
    <2>1. Rest(pc, Top.values) = result
      BY <1>2 DEF FrameMeans
    <2>2. Rest(pc, Top.values) = MeaningLine(program, MeaningFrom(program), <<pc, Top.values>>)
      BY <1>1, RestHere
    <2>3. MeaningLine(program, MeaningFrom(program), <<pc, Top.values>>)
            = Onward(MeaningFrom(program), pc + 1, Line(Ins, Top.values))
      BY MeansLine DEF Ins
    <2>. QED  BY <2>1, <2>2, <2>3 DEF Onward
  <1>3. CASE Top.repeat_remaining # 0
    <2>. DEFINE enter == Top.repeat_enter_pc
                next == program.code[enter].imm - 1
                count == program.code[enter].a
                k == count - Top.repeat_remaining
    <2>1. PICK env : Turning(Top, pc, env) /\ Rest(enter, env) = result
      BY <1>3 DEF FrameMeans
    <2>. DEFINE A == AfterTurns(program, enter, env)
                T == InTurn(program, enter, A[k])
    <2>2. env \in SlotValues
      BY <2>1 DEF Turning
    <2>3. /\ RepeatInSlots(program, enter) /\ enter \in Pcs(program)
          /\ program.code[enter].op = "REPEAT_ENTER" /\ next \in Nat /\ enter \in Nat
          /\ program.code[enter].imm = next + 1
      BY <1>1, <1>3, TurnPlace
    <2>4. pc + 1 \in (enter + 1)..next /\ A[k] \in Maybe /\ T[pc + 1] = Stuck
      BY <1>3, <2>1, TurnStep
    <2>5. \A i, j \in (enter + 1)..next : i <= j /\ T[i] = Stuck => T[j] = Stuck
      BY <2>3, <2>4, TurnSolves
    <2>6. next \in (enter + 1)..next /\ pc + 1 <= next
      <3>. HIDE DEF next
      <3>. QED  BY <1>1, <2>3, <2>4
    <2>7. T[next] = Stuck
      <3>. HIDE DEF T, next, A, k
      <3>. QED  BY <2>4, <2>5, <2>6
    <2>8. A[count] = Stuck
      <3>1. A[k + 1] = T[next] /\ (A[k + 1] = Stuck => A[count] = Stuck)
        BY <1>1, <1>3, <2>2, TurnsStep
      <3>. QED  BY <2>7, <3>1
    <2>9. Rest(enter, env) = Onward(MeaningFrom(program), program.code[enter].imm, A[count])
      BY <1>1, <2>2, <2>3, RepeatMeans
    <2>. QED  BY <2>1, <2>8, <2>9 DEF Onward
  <1>. QED  BY <1>2, <1>3

\* The callers wait for a value in vain.
LEMMA NothingReturned ==
    ASSUME depth \in Nat, NEW results, Results(results), results[depth] = Undefined
    PROVE  Whole = Undefined
  <1>. DEFINE S == {n \in Nat : n <= depth => results[depth - n] = Undefined}
  <1>1. 0 \in S
    <2>1. depth - 0 = depth
      OBVIOUS
    <2>. QED  BY <2>1
  <1>2. ASSUME NEW n \in Nat, n \in S PROVE n + 1 \in S
    <2>1. CASE n + 1 <= depth
      <3>. PICK d \in Nat : d = depth - (n + 1)
        BY <2>1
      <3>1. d \in 0..(depth - 1) /\ d + 1 = depth - n /\ n <= depth
        BY <2>1
      <3>2. results[d + 1] = Undefined
        BY <1>2, <3>1
      <3>3. results[d] = Resumed(d, results[d + 1])
        BY <3>1 DEF Results
      <3>4. results[d] = Undefined
        BY <3>2, <3>3 DEF Resumed
      <3>. QED  BY <3>4
    <2>2. CASE ~(n + 1 <= depth)
      BY <2>2
    <2>. QED  BY <2>1, <2>2
  <1>3. depth \in S
    <2>. HIDE DEF S
    <2>1. S \subseteq Nat
      BY DEF S
    <2>. QED  BY <1>1, <1>2, <2>1, SetInduction
  <1>4. results[0] = Undefined
    <2>1. depth - depth = 0
      OBVIOUS
    <2>. QED  BY <1>3, <2>1
  <1>. QED  BY <1>4 DEF Results

\* So a program that divides by zero means nothing.
LEMMA DividedMeans ==
    ASSUME IInv, RunInv, MeaningInv, Fetched, ByZero
    PROVE  Whole = Undefined
  <1>1. /\ Ins.op \in Calculates /\ Ins.op # "CONST" /\ Ins.op # "END"
        /\ Divides(Ins.op) /\ Top.values[Ins.flags] = 0
    BY DEF ByZero, CanCompute, CanSet, Calculates, Arith, Compare, Set
  <1>2. /\ status = "running" /\ emitted = {} /\ depth \in Nat
        /\ Top.values \in SlotValues /\ LineInSlots(Ins)
    BY <1>1, StillToEmit, WhileRunning, FrameValues, InsInSlots DEF Fetched
  <1>3. Calculate(Ins, Top.values) = Undefined
    BY <1>1, <1>2, CalculateType
  <1>4. Line(Ins, Top.values) = Stuck
    BY <1>3 DEF Line
  <1>5. PICK results : Results(results)
    BY <1>2 DEF MeaningInv
  <1>6. results[depth] = Undefined
    BY <1>1, <1>4, <1>5, NothingLeft DEF Results
  <1>. QED  BY <1>2, <1>5, <1>6, NothingReturned

\* The run ends with the value emitted, or with a division by zero.
LEMMA MeaningHalt ==
    ASSUME IInv, RunInv, MeaningInv, Halt
    PROVE  MeaningInv'
  <1>1. /\ status = "running" /\ status' = Outcome /\ Outcome # "running"
        /\ UNCHANGED <<program, given, emitted>>
    BY DEF Halt
  <1>2. Outcome = "done" => {e.value : e \in emitted} = {Whole}
    BY <1>1 DEF Outcome, CanEnd, MeaningInv
  <1>3. Outcome = "divided_by_zero" => Whole = Undefined
    BY DividedMeans DEF Outcome
  <1>. QED  BY <1>1, <1>2, <1>3 DEF MeaningInv, ResultIsMeaning, Whole

\* A run begins with what the program means.
LEMMA MeaningLoad ==
    ASSUME IInv, Load
    PROVE  MeaningInv'
  <1>. DEFINE f == Opened(program.scalars, given)
  <1>1. /\ frames' = [frames EXCEPT ![0] = f] /\ frames \in [Depths -> FrameType]
        /\ 0 \in Depths /\ pc' = program.main /\ status' = "running"
        /\ UNCHANGED <<program, given, depth, emitted>>
    BY LimitsAssumption DEF Load, IInv, TypeOK, Depths
  <1>2. depth' = 0 /\ emitted' = {}
    BY <1>1 DEF Load, IInv, NotBegun
  <1>3. f.repeat_remaining = 0 /\ f.values = Filled(given)
    BY DEF Opened, Frame
  <1>. HIDE DEF f
  <1>4. Top' = f
    BY <1>1, <1>2 DEF Top
  <1>5. Rest(program.main, Filled(given)) = Whole
    BY DEF Rest, Whole, Meaning, Filled, Slots
  <1>6. Rest(pc, Top.values)' = Whole'
    BY <1>1, <1>3, <1>4, <1>5 DEF Rest, Whole
  <1>7. PICK results : results[0] = Whole'
    <2>. DEFINE r == [d \in {0} |-> Whole']
    <2>1. r[0] = Whole'
      OBVIOUS
    <2>. HIDE DEF r
    <2>. QED  BY <2>1
  <1>8. FrameMeans(Top, pc, results[depth])'
    BY <1>2, <1>3, <1>4, <1>6, <1>7 DEF FrameMeans
  <1>9. Results(results)'
    <2>1. 0..(depth' - 1) = {}
      BY <1>2
    <2>. QED  BY <1>7, <1>8, <2>1 DEF Results
  <1>. QED  BY <1>1, <1>2, <1>9 DEF MeaningInv, ResultIsMeaning

\* So every step leaves it.
LEMMA MeaningStep ==
    ASSUME IInv, RunInv, MeaningInv, [Next]_vars
    PROVE  MeaningInv'
  <1>1. CASE UNCHANGED vars
    BY <1>1 DEF vars, MeaningInv, Results, FrameMeans, Turning, Resumed, Rest, Whole, Top,
                ResultIsMeaning
  <1>2. CASE Refuse
    BY <1>2 DEF Refuse, MeaningInv, ResultIsMeaning
  <1>. QED  BY <1>1, <1>2, MeaningLoad, MeaningCalculates, MeaningEnter, MeaningNext,
               MeaningJump, MeaningCall, MeaningReturn, MeaningEmit, MeaningHalt DEF Next

\* The machine of frames computes what the program means without one, whatever
\* it calls, repeats and jumps over: a run that ends has emitted the value of
\* the meaning, and one that divides by zero has none.
THEOREM ResultsAreMeanings == Spec => []ResultIsMeaning
  <1>1. Init => MeaningInv
    BY DEF Init, MeaningInv, ResultIsMeaning
  <1>2. Validated /\ MeaningInv /\ [Next]_vars => MeaningInv'
    BY MeaningStep DEF Validated
  <1>3. MeaningInv => ResultIsMeaning
    BY DEF MeaningInv
  <1>. QED  BY <1>1, <1>2, <1>3, ValidatedInit, ValidatedNext, PTL DEF Spec

-----------------------------------------------------------------------------
(* Stored programs *)

\* The sizes of the header.
LEMMA HeaderType == \A v \in 1..9 : HeaderSize[v] \in Nat
  BY DEF HeaderSize

\* A program has no function just if the number of its functions is 0.
LEMMA FunctionNumber ==
    ASSUME NEW bc, IsBytecode(bc)
    PROVE  /\ NumberOfFunctions(bc) \in Nat
           /\ NumberOfFunctions(bc) = 0 <=> ~HasFunctions(bc)
           /\ NumberOfFunctions(bc) = 0 <=> DOMAIN bc.functions = {}
  <1>1. /\ NumberOfFunctions(bc) \in Nat
        /\ bc.functions \in [0..(NumberOfFunctions(bc) - 1) -> Function]
    BY DEF IsBytecode, NumberOfFunctions
  <1>2. ASSUME NumberOfFunctions(bc) = 0 PROVE ~HasFunctions(bc) /\ DOMAIN bc.functions = {}
    <2>1. 0..(NumberOfFunctions(bc) - 1) = {}
      BY <1>2
    <2>2. bc.functions \in [{} -> Function]
      BY <1>1, <2>1
    <2>. QED  BY <2>2 DEF HasFunctions
  <1>3. ASSUME ~HasFunctions(bc) \/ DOMAIN bc.functions = {} PROVE NumberOfFunctions(bc) = 0
    <2>1. DOMAIN bc.functions = {}
      BY <1>3 DEF HasFunctions
    <2>. QED  BY <2>1, FS_EmptySet DEF NumberOfFunctions
  <1>. QED  BY <1>1, <1>2, <1>3

\* The version of a program with frames, and what the encoder writes of it.
LEMMA FramedFile ==
    ASSUME NEW bc, IsBytecode(bc), RunsWithFrames(bc)
    PROVE  /\ Version(bc) \in {8, 9}
           /\ Version(bc) = 9 <=> bc.inputs > 0
           /\ Version(bc) = 8 => HasFunctions(bc) /\ bc.inputs = 0
  <1>1. bc.inputs \in Nat
    BY DEF IsBytecode
  <1>. QED  BY <1>1 DEF RunsWithFrames, Version

\* The fields of a file of a version with functions.
LEMMA FramedFields ==
    ASSUME NEW bc, NEW v \in {8, 9}
    PROVE  /\ FileOf(bc, v).version = v /\ FileOf(bc, v).header = HeaderSize[v]
           /\ FileOf(bc, v).count = Size(bc) /\ FileOf(bc, v).code = bc.code
           /\ FileOf(bc, v).scalars = bc.scalars /\ FileOf(bc, v).bools = bc.bools
           /\ FileOf(bc, v).functionCount = NumberOfFunctions(bc)
           /\ FileOf(bc, v).functionSize = FunctionSize
           /\ FileOf(bc, v).main = bc.main /\ FileOf(bc, v).functions = bc.functions
           /\ FileOf(bc, v).inputs = [i \in 0..(bc.inputs - 1) |-> [slot |-> i, name |-> i]]
           /\ FileOf(bc, v).size = BytesOf(v, NumberOfFunctions(bc), bc.inputs, Size(bc))
           /\ v = 9 => FileOf(bc, v).inputCount = bc.inputs /\ FileOf(bc, v).inputSize = InputSize
           /\ v = 8 => FileOf(bc, v).inputCount = 0 /\ FileOf(bc, v).inputSize = 0
  <1>1. v \in WithFunctions /\ v \in 4..9 /\ v \in 5..9 /\ (v = 9 <=> v \in {9}) /\ (v = 8 => v # 9)
    BY DEF WithFunctions
  <1>2. /\ FileOf(bc, v).version = v /\ FileOf(bc, v).header = HeaderSize[v]
        /\ FileOf(bc, v).count = Size(bc) /\ FileOf(bc, v).code = bc.code
        /\ FileOf(bc, v).scalars = bc.scalars /\ FileOf(bc, v).bools = bc.bools
        /\ FileOf(bc, v).functions = bc.functions
    BY <1>1 DEF FileOf
  <1>3. /\ FileOf(bc, v).functionCount = NumberOfFunctions(bc)
        /\ FileOf(bc, v).functionSize = FunctionSize
        /\ FileOf(bc, v).main = bc.main
        /\ FileOf(bc, v).inputs = [i \in 0..(bc.inputs - 1) |-> [slot |-> i, name |-> i]]
        /\ FileOf(bc, v).size = BytesOf(v, NumberOfFunctions(bc), bc.inputs, Size(bc))
    BY <1>1 DEF FileOf
  <1>4. v = 9 => FileOf(bc, v).inputCount = bc.inputs /\ FileOf(bc, v).inputSize = InputSize
    BY <1>1 DEF FileOf
  <1>5. v = 8 => FileOf(bc, v).inputCount = 0 /\ FileOf(bc, v).inputSize = 0
    BY <1>1 DEF FileOf
  <1>. QED  BY <1>2, <1>3, <1>4, <1>5

\* A file of a program with frames holds the program itself.
LEMMA FramedContents ==
    ASSUME NEW bc, IsBytecode(bc), AsDecoded(bc), RunsWithFrames(bc)
    PROVE  Contents(Encode(bc)) = bc
  <1>. PICK v : v = Version(bc)
    OBVIOUS
  <1>1. v \in {8, 9} /\ (v = 8 => bc.inputs = 0)
    BY FramedFile
  <1>2. bc = [code |-> bc.code, main |-> bc.main, functions |-> bc.functions,
              scalars |-> bc.scalars, bools |-> bc.bools, inputs |-> bc.inputs]
    BY DEF AsDecoded
  <1>. PICK f : f = FileOf(bc, v)
    OBVIOUS
  <1>3. /\ f.code = bc.code /\ f.main = bc.main /\ f.functions = bc.functions
        /\ f.scalars = bc.scalars /\ f.bools = bc.bools
    BY <1>1, FramedFields
  <1>4. f.inputCount = bc.inputs
    BY <1>1, FramedFields
  <1>. QED  BY <1>2, <1>3, <1>4 DEF Contents, Encode

\* A place before main is in a function, and holds what the decoder lets stand
\* in one.
LEMMA InnerLines ==
    ASSUME NEW bc, Sound(bc), NEW i \in Nat, i < bc.main
    PROVE  /\ NumberOfFunctions(bc) > 0
           /\ \E fn \in Function : LineKept(bc, fn, i) /\ fn.end <= bc.main
  <1>1. PICK f \in DOMAIN bc.functions : In(bc, f, i)
    BY Partition
  <1>2. NumberOfFunctions(bc) \in Nat /\ NumberOfFunctions(bc) # 0
    BY <1>1, FunctionNumber DEF Sound
  <1>3. LineKept(bc, Func(bc, f), i) /\ Func(bc, f) \in Function /\ Func(bc, f).end <= bc.main
    BY <1>1, FunctionScanned DEF In, FormedFrom
  <1>. QED  BY <1>2, <1>3

\* What stands in main before its END.
MainLine0(bc, ins) ==
    /\ ins.op \in {"CONST", "CALL", "U32_EMIT"} \cup Arith
    /\ ins.op = "CONST" => ins.a < bc.scalars /\ Blank(ins, {"b", "flags"})
    /\ ins.op \in Arith =>
        /\ ins.a < bc.scalars /\ ins.b < bc.scalars /\ ins.flags < bc.scalars
        /\ Blank(ins, {"imm"})

\* Every line of an accepted main but the last is such a line.
LEMMA OuterLines ==
    ASSUME NEW bc, Sound(bc), NEW i \in Nat, bc.main <= i, i < Size(bc) - 1
    PROVE  MainLine0(bc, bc.code[i])
  <1>. PICK ins : ins = bc.code[i]
    OBVIOUS
  <1>1. PICK s : MainScanned(bc, i, s)
    BY MainReached
  <1>2. /\ s \in States(bc.scalars, {{}})
        /\ ins.op # "U32_EMIT" => LineOK(bc, ins, s)
    BY <1>1, MainCases DEF Sound
  <1>3. s.n = bc.scalars
    BY <1>2 DEF States
  <1>4. CASE ins.op = "U32_EMIT"
    BY <1>4 DEF MainLine0, Arith
  <1>5. CASE ConstOK(ins, s)
    BY <1>3, <1>5 DEF MainLine0, ConstOK, Fresh, Arith
  <1>6. CASE BinaryOK(ins, Arith, s)
    BY <1>3, <1>6 DEF MainLine0, BinaryOK, Fresh, Reads, Arith
  <1>7. CASE CallOK(bc, ins, s)
    BY <1>7 DEF MainLine0, CallOK, Arith
  <1>. QED  BY <1>2, <1>4, <1>5, <1>6, <1>7 DEF LineOK

\* The decoder accepts every instruction of a function,
LEMMA InnerFits ==
    ASSUME NEW f, NEW at \in Nat, f.version \in {8, 9}, f.functionCount > 0, at < f.main,
           NEW bc, f.code = bc.code, NEW fn \in Function, LineKept(bc, fn, at),
           fn.end <= f.main, f.main \in Nat, f.count \in Nat, f.main < f.count,
           bc.code[at] \in Instruction
    PROVE  InstructionOK(f, at)
  <1>. PICK ins : ins = bc.code[at]
    OBVIOUS
  <1>1. ins = f.code[at] /\ ins \in Instruction /\ ins.imm \in Nat /\ fn.end \in Nat
    BY DEF Instruction, Function
  <1>2. InFunctions(f, at)
    BY DEF InFunctions, WithFunctions
  <1>3. ins.op \in BodyOps
    BY DEF LineKept
  <1>4. ins.op \in Opcodes
    BY <1>3 DEF BodyOps, Opcodes
  <1>5. Placeable(f, at)
    <2>1. CASE ins.op \in InnerOpcodes
      BY <1>1, <1>2, <2>1 DEF Placeable
    <2>2. CASE ins.op \in {"CONST"} \cup Arith
      <3>1. Versions(ins.op) = 4..9
        BY <2>2 DEF Versions, Arith, Compare, Set
      <3>. QED  BY <1>1, <3>1 DEF Placeable
    <2>3. CASE ins.op \in {"CALL", "RETURN"}
      <3>1. Versions(ins.op) = WithFunctions
        BY <2>3 DEF Versions, Arith, Compare, Set
      <3>. QED  BY <1>1, <3>1 DEF Placeable, WithFunctions
    <2>. QED  BY <1>3, <2>1, <2>2, <2>3 DEF BodyOps, InnerOpcodes
  <1>6. ins.imm < fn.end => ins.imm < f.count
    BY <1>1
  <1>7. ShapeOK(f, at)
    <2>1. CASE ins.op = "REPEAT_ENTER"
      BY <1>1, <1>6, <2>1 DEF ShapeOK, LineKept
    <2>2. CASE ins.op = "REPEAT_NEXT"
      BY <1>1, <2>2 DEF ShapeOK, LineKept
    <2>3. CASE ins.op = "JUMP_IF_FALSE"
      BY <1>1, <1>6, <2>3 DEF ShapeOK, LineKept
    <2>4. CASE ins.op = "JUMP"
      BY <1>1, <1>6, <2>4 DEF ShapeOK, LineKept
    <2>5. CASE ins.op \notin {"REPEAT_ENTER", "REPEAT_NEXT", "JUMP_IF_FALSE", "JUMP"}
      <3>1. ins.op # "BOOL_EMIT"
        BY <1>3 DEF BodyOps, Arith, Compare, Set
      <3>. QED  BY <1>1, <2>5, <3>1 DEF ShapeOK
    <2>. QED  BY <2>1, <2>2, <2>3, <2>4, <2>5
  <1>. QED  BY <1>1, <1>2, <1>4, <1>5, <1>7 DEF InstructionOK

\* and of main.
LEMMA OuterFits ==
    ASSUME NEW f, NEW at, f.version \in {8, 9}, NEW bc, f.code = bc.code,
           f.scalars = bc.scalars, MainLine0(bc, bc.code[at]) \/ bc.code[at].op = "END"
    PROVE  InstructionOK(f, at)
  <1>. PICK ins : ins = bc.code[at]
    OBVIOUS
  <1>1. ins = f.code[at] /\ ins.op \in {"CONST", "CALL", "U32_EMIT", "END"} \cup Arith
    BY DEF MainLine0
  <1>2. ins.op \in Opcodes
    BY <1>1 DEF Opcodes
  <1>3. Placeable(f, at)
    <2>1. f.version \in Versions(ins.op)
      BY <1>1 DEF Versions, WithFunctions, Arith, Compare, Set
    <2>. QED  BY <1>1, <2>1 DEF Placeable
  <1>4. ShapeOK(f, at)
    BY <1>1 DEF ShapeOK, Arith
  <1>5. ASSUME ins.op = "CONST" PROVE OperandsExist(f, at)
    <2>1. SlotsExist(f, ins, {"a"}) /\ Blank(ins, {"b", "flags"})
      BY <1>5 DEF SlotsExist, MainLine0
    <2>. QED  BY <1>1, <1>5, <2>1 DEF OperandsExist, Arith, Compare, Set
  <1>6. ASSUME ins.op \in Arith PROVE OperandsExist(f, at)
    <2>1. SlotsExist(f, ins, {"a", "b", "flags"}) /\ Blank(ins, {"imm"})
      BY <1>6 DEF SlotsExist, MainLine0, Arith
    <2>. QED  BY <1>1, <1>6, <2>1 DEF OperandsExist, Arith, Compare, Set
  <1>7. ASSUME ins.op \in {"CALL", "U32_EMIT", "END"} PROVE OperandsExist(f, at)
    <2>1. f.version \in WithFunctions
      BY DEF WithFunctions
    <2>. QED  BY <1>1, <1>7, <2>1 DEF OperandsExist, Arith, Compare, Set
  <1>. QED  BY <1>1, <1>2, <1>3, <1>4, <1>5, <1>6, <1>7 DEF InstructionOK

\* The decoder accepts the file of a program the VM runs.
LEMMA FramedDecodes ==
    ASSUME NEW bc, IsBytecode(bc), AsDecoded(bc), RunsWithFrames(bc), FunctionContract(bc),
           Size(bc) <= MaxInstructions
    PROVE  Decodes(Encode(bc))
  <1>. PICK v : v = Version(bc)
    OBVIOUS
  <1>. PICK f : f = FileOf(bc, v)
    OBVIOUS
  <1>1. /\ v \in {8, 9} /\ (v = 9 => bc.inputs > 0) /\ (v = 8 => HasFunctions(bc) /\ bc.inputs = 0)
        /\ f = Encode(bc)
    BY FramedFile DEF Encode
  <1>10. v \in {8, 9}
    BY <1>1
  <1>2. /\ f.version = v /\ f.header = HeaderSize[v] /\ f.count = Size(bc) /\ f.code = bc.code
        /\ f.scalars = bc.scalars /\ f.bools = bc.bools
        /\ f.functionCount = NumberOfFunctions(bc) /\ f.functionSize = FunctionSize
        /\ f.main = bc.main
    <2>1. f.version = v /\ f.header = HeaderSize[v] /\ f.count = Size(bc) /\ f.code = bc.code
      BY <1>10, FramedFields
    <2>2. f.scalars = bc.scalars /\ f.bools = bc.bools /\ f.main = bc.main
      BY <1>10, FramedFields
    <2>3. f.functionCount = NumberOfFunctions(bc) /\ f.functionSize = FunctionSize
      BY <1>10, FramedFields
    <2>. QED  BY <2>1, <2>2, <2>3
  <1>3. /\ f.inputs = [i \in 0..(bc.inputs - 1) |-> [slot |-> i, name |-> i]]
        /\ f.size = BytesOf(v, NumberOfFunctions(bc), bc.inputs, Size(bc))
        /\ f.inputCount = bc.inputs /\ (v = 9 => f.inputSize = InputSize)
    <2>1. f.inputs = [i \in 0..(bc.inputs - 1) |-> [slot |-> i, name |-> i]]
      BY <1>10, FramedFields
    <2>2. f.size = BytesOf(v, NumberOfFunctions(bc), bc.inputs, Size(bc))
      BY <1>10, FramedFields
    <2>3. /\ v = 9 => f.inputCount = bc.inputs /\ f.inputSize = InputSize
          /\ v = 8 => f.inputCount = 0 /\ f.inputSize = 0
      BY <1>10, FramedFields
    <2>. QED  BY <1>1, <2>1, <2>2, <2>3
  <1>4. /\ Sound(bc) /\ bc.scalars \in 1..MaxScalars /\ bc.bools = {}
        /\ (bc.inputs > 0 => bc.inputs <= MaxInputs)
        /\ NumberOfFunctions(bc) <= MaxFunctions
        /\ bc.inputs \in Nat
        /\ bc.inputs <= bc.scalars /\ bc.main \in Nat /\ Size(bc) \in Nat /\ bc.main + 1 < Size(bc)
        /\ bc.code[Size(bc) - 1].op = "END"
        /\ (bc.inputs = 0 => MainCalls(bc) # {})
    <2>1. Sound(bc)
      BY DEF Sound
    <2>2. NumberOfFunctions(bc) <= MaxFunctions
      BY DEF FunctionContract, FunctionsOK, NumberOfFunctions
    <2>3. bc.bools = {} /\ (bc.inputs > 0 => bc.inputs <= MaxInputs) /\ bc.inputs \in Nat
          /\ (bc.inputs = 0 => MainCalls(bc) # {})
      BY DEF FunctionContract, IsBytecode
    <2>. QED  BY <2>1, <2>2, <2>3, MainEntry
  <1>5. LimitsOK(f)
    <2>1. f.version \in 1..9 /\ f.scalars <= MaxScalars /\ f.functionCount <= MaxFunctions
          /\ f.count <= MaxInstructions /\ \A s \in f.bools : s < f.scalars
      BY <1>1, <1>2, <1>4
    <2>2. f.version = 8 => f.functionCount > 0
      BY <1>1, <1>2, FunctionNumber
    <2>3. f.version = 9 => f.inputCount \in 1..MaxInputs /\ f.inputSize = InputSize
      BY <1>1, <1>2, <1>3, <1>4, LimitsAssumption
    <2>. QED  BY <1>2, <2>1, <2>2, <2>3 DEF LimitsOK
  <1>6. SizeOK(f)
    BY <1>2, <1>3 DEF SizeOK
  <1>7. InputsOK(f)
    <2>. SUFFICES ASSUME NEW i \in 0..(f.inputCount - 1)
                  PROVE  /\ f.inputs[i].slot = i /\ i < f.scalars
                         /\ \A j \in 0..(i - 1) : f.inputs[i].name # f.inputs[j].name
      BY DEF InputsOK
    <2>1. i \in 0..(bc.inputs - 1) /\ i < f.scalars
      BY <1>2, <1>3, <1>4
    <2>2. \A j \in 0..(i - 1) : j \in 0..(bc.inputs - 1) /\ i # j
      BY <2>1, <1>4
    <2>. QED  BY <1>3, <2>1, <2>2
  <1>8. ASSUME NEW at \in DOMAIN f.code PROVE InstructionOK(f, at)
    <2>1. /\ at \in 0..(Size(bc) - 1) /\ at \in Nat /\ bc.code[at] \in Instruction
          /\ Size(bc) \in Nat
      BY <1>2 DEF IsBytecode
    <2>2. CASE at < bc.main
      <3>1. PICK fn \in Function : LineKept(bc, fn, at) /\ fn.end <= bc.main
        BY <1>4, <2>1, <2>2, InnerLines
      <3>2. f.functionCount > 0
        BY <1>2, <1>4, <2>1, <2>2, InnerLines
      <3>3. /\ f.version \in {8, 9} /\ at < f.main /\ fn.end <= f.main /\ f.main \in Nat
            /\ f.count \in Nat /\ f.main < f.count
        BY <1>1, <1>2, <1>4, <2>2, <3>1
      <3>. QED  BY <1>2, <2>1, <3>1, <3>2, <3>3, InnerFits
    <2>3. CASE bc.main <= at /\ at < Size(bc) - 1
      <3>1. MainLine0(bc, bc.code[at])
        BY <1>4, <2>1, <2>3, OuterLines
      <3>. QED  BY <1>1, <1>2, <3>1, OuterFits
    <2>4. CASE at = Size(bc) - 1
      BY <1>1, <1>2, <1>4, <2>4, OuterFits
    <2>. QED  BY <1>4, <2>1, <2>2, <2>3, <2>4
  <1>9. VersionContract(f)
    <2>1. Contents(f) = bc /\ IsTypedScalarProgram(bc)
      BY <1>1, FramedContents DEF IsTypedScalarProgram
    <2>2. \E i \in Pcs(bc) : bc.code[i].op \in Opcodes \ {"END"}
      <3>1. bc.main \in Nat /\ bc.main < Size(bc) - 1 /\ bc.main \in Pcs(bc) /\ bc.main <= bc.main
        BY <1>4 DEF IsBytecode, Pcs
      <3>2. MainLine0(bc, bc.code[bc.main])
        BY <1>4, <3>1, OuterLines
      <3>. QED  BY <3>1, <3>2 DEF MainLine0, Opcodes, Arith
    <2>3. ASSUME NEW i \in Pcs(bc), ~InFunctions(f, i)
          PROVE  bc.code[i].op \in {"CONST", "CALL", "U32_EMIT", "END"} \cup Arith
      <3>1. i \in Nat /\ i \in 0..(Size(bc) - 1)
        BY DEF Pcs, IsBytecode
      <3>2. ~(i < bc.main)
        <4>. SUFFICES ASSUME i < bc.main PROVE FALSE
          OBVIOUS
        <4>1. NumberOfFunctions(bc) > 0
          BY <1>4, <3>1, InnerLines
        <4>. QED  BY <1>1, <1>2, <2>3, <4>1 DEF InFunctions, WithFunctions
      <3>3. i = Size(bc) - 1 \/ (bc.main <= i /\ i < Size(bc) - 1)
        BY <1>4, <3>1, <3>2
      <3>. QED  BY <1>4, <3>1, <3>3, OuterLines DEF MainLine0
    <2>4. ~ \E i \in Pcs(bc) :
              /\ ~InFunctions(f, i)
              /\ bc.code[i].op \in (Set \cup {"REPEAT_ENTER", "REPEAT_NEXT"})
                                       \cup {"JUMP", "JUMP_IF_FALSE"}
      BY <2>3 DEF Set, Arith
    <2>5. v = 8 => \E i \in Pcs(bc) : bc.code[i].op \in {"CALL", "RETURN"}
      <3>. SUFFICES ASSUME v = 8 PROVE \E i \in Pcs(bc) : bc.code[i].op \in {"CALL", "RETURN"}
        OBVIOUS
      <3>1. PICK i \in bc.main..(Size(bc) - 1) : bc.code[i].op = "CALL"
        BY <1>1, <1>4 DEF MainCalls
      <3>2. i \in Pcs(bc)
        BY <1>4, <3>1 DEF Pcs, IsBytecode
      <3>. QED  BY <3>1, <3>2
    <2>6. CASE v = 8
      BY <1>2, <1>4, <2>1, <2>2, <2>4, <2>5, <2>6 DEF VersionContract
    <2>7. CASE v = 9
      BY <1>2, <1>4, <2>1, <2>2, <2>4, <2>7 DEF VersionContract
    <2>. QED  BY <1>1, <2>6, <2>7
  <1>. QED  BY <1>1, <1>5, <1>6, <1>7, <1>8, <1>9 DEF Decodes

\* And of no other: the file of a program with frames is read back as that
\* program, or refused if the VM would not run it.
LEMMA FramedSurvives ==
    ASSUME NEW bc, IsBytecode(bc), AsDecoded(bc), RunsWithFrames(bc)
    PROVE  SurvivesStorage(bc)
  <1>. DEFINE Kept == /\ IsTypedScalarProgram(bc) /\ Size(bc) <= MaxInstructions
                      /\ ~JumpsWithoutBool(bc)
  <1>1. Version(bc) \in {8, 9} /\ ~JumpsWithoutBool(bc) /\ Contents(Encode(bc)) = bc
    BY FramedFile, FramedContents DEF JumpsWithoutBool
  <1>2. ASSUME Kept PROVE Decode(Encode(bc)) = {bc}
    <2>1. FunctionContract(bc) /\ Size(bc) <= MaxInstructions
      BY <1>2 DEF IsTypedScalarProgram
    <2>. QED  BY <1>1, <2>1, FramedDecodes DEF Decode
  <1>3. ASSUME Decodes(Encode(bc)) PROVE Kept
    <2>1. VersionContract(Encode(bc)) /\ LimitsOK(Encode(bc))
      BY <1>3 DEF Decodes
    <2>2. Encode(bc).count = Size(bc)
      BY DEF Encode, FileOf
    <2>. QED  BY <1>1, <2>1, <2>2 DEF VersionContract, LimitsOK
  <1>. HIDE DEF Kept
  <1>4. CASE Kept
    BY <1>2, <1>4 DEF SurvivesStorage, Kept
  <1>5. CASE ~Kept
    <2>1. Decode(Encode(bc)) = {}
      BY <1>3, <1>5 DEF Decode
    <2>. QED  BY <1>5, <2>1 DEF SurvivesStorage, Kept
  <1>. QED  BY <1>4, <1>5

\* A file of a version with functions whose sections are as long as it says,
\* with its inputs in order.
FramedLayout(f) ==
    /\ f = [version |-> f.version, header |-> f.header, count |-> f.count,
            scalars |-> f.scalars, bools |-> f.bools, functionCount |-> f.functionCount,
            functionSize |-> f.functionSize, main |-> f.main, inputCount |-> f.inputCount,
            inputSize |-> f.inputSize, functions |-> f.functions, inputs |-> f.inputs,
            code |-> f.code, size |-> f.size]
    /\ f.version \in {8, 9}
    /\ f.version = 8 => f.inputCount = 0 /\ f.inputSize = 0
    /\ f.functionSize = FunctionSize
    /\ f.functionCount = Cardinality(DOMAIN f.functions)
    /\ f.inputs = [i \in 0..(f.inputCount - 1) |-> [slot |-> i, name |-> i]]
    /\ f.count = Cardinality(DOMAIN f.code)
    /\ IsBytecode(Contents(f))

\* What is decoded would be written as the very same file again.
LEMMA SameFileAgain ==
    ASSUME NEW f, FramedLayout(f), Decodes(f)
    PROVE  Encode(Contents(f)) = f
  <1>. PICK p : p = Contents(f)
    OBVIOUS
  <1>. PICK v : v = f.version
    OBVIOUS
  <1>1. /\ p.code = f.code /\ p.scalars = f.scalars /\ p.bools = f.bools /\ p.main = f.main
        /\ p.functions = f.functions /\ p.inputs = f.inputCount
    BY DEF Contents
  <1>2. /\ IsBytecode(p) /\ v \in {8, 9} /\ LimitsOK(f) /\ SizeOK(f)
        /\ f.functionCount = NumberOfFunctions(p) /\ f.count = Size(p)
    BY <1>1 DEF FramedLayout, Decodes, NumberOfFunctions, Size
  <1>3. /\ v = 9 => p.inputs > 0 /\ f.inputSize = InputSize
        /\ v = 8 => p.inputs = 0 /\ f.inputSize = 0 /\ HasFunctions(p)
    <2>1. v = 9 => p.inputs > 0 /\ f.inputSize = InputSize
      BY <1>1, <1>2 DEF LimitsOK
    <2>2. v = 8 => p.inputs = 0 /\ f.inputSize = 0
      BY <1>1 DEF FramedLayout
    <2>3. v = 8 => f.functionCount # 0
      BY <1>2 DEF LimitsOK
    <2>4. v = 8 => HasFunctions(p)
      BY <1>2, <2>3, FunctionNumber
    <2>. QED  BY <2>1, <2>2, <2>4
  <1>4. RunsWithFrames(p) /\ Version(p) = v
    <2>1. RunsWithFrames(p)
      BY <1>2, <1>3 DEF RunsWithFrames
    <2>2. Version(p) \in {8, 9} /\ (Version(p) = 9 <=> p.inputs > 0)
      BY <1>2, <2>1, FramedFile
    <2>. QED  BY <1>2, <1>3, <2>1, <2>2
  <1>. PICK g : g = FileOf(p, v)
    OBVIOUS
  <1>5. g = Encode(p)
    BY <1>4 DEF Encode
  <1>6. v \in {8, 9}
    BY <1>2
  <1>7. g.version = v /\ g.header = HeaderSize[v] /\ g.count = Size(p) /\ g.code = p.code
    BY <1>6, FramedFields
  <1>8. g.scalars = p.scalars /\ g.bools = p.bools /\ g.main = p.main
    BY <1>6, FramedFields
  <1>9. /\ g.functionCount = NumberOfFunctions(p) /\ g.functionSize = FunctionSize
        /\ g.functions = p.functions
    BY <1>6, FramedFields
  <1>10. g.inputs = [i \in 0..(p.inputs - 1) |-> [slot |-> i, name |-> i]]
    BY <1>6, FramedFields
  <1>11. g.size = BytesOf(v, NumberOfFunctions(p), p.inputs, Size(p))
    BY <1>6, FramedFields
  <1>12. /\ v = 9 => g.inputCount = p.inputs /\ g.inputSize = InputSize
         /\ v = 8 => g.inputCount = 0 /\ g.inputSize = 0
    BY <1>6, FramedFields
  <1>13. g = [version |-> g.version, header |-> g.header, count |-> g.count,
              scalars |-> g.scalars, bools |-> g.bools, functionCount |-> g.functionCount,
              functionSize |-> g.functionSize, main |-> g.main, inputCount |-> g.inputCount,
              inputSize |-> g.inputSize, functions |-> g.functions, inputs |-> g.inputs,
              code |-> g.code, size |-> g.size]
    BY DEF FileOf
  <1>14. f.header = HeaderSize[v] /\ f.size = BytesOf(v, NumberOfFunctions(p), p.inputs, Size(p))
    BY <1>1, <1>2 DEF LimitsOK, SizeOK
  <1>15. f.functionSize = FunctionSize /\ f.inputs = [i \in 0..(p.inputs - 1) |-> [slot |-> i, name |-> i]]
    BY <1>1 DEF FramedLayout
  <1>16. g.inputCount = f.inputCount /\ g.inputSize = f.inputSize
    BY <1>1, <1>3, <1>6, <1>12
  <1>17. /\ g.version = f.version /\ g.header = f.header /\ g.count = f.count
         /\ g.scalars = f.scalars /\ g.bools = f.bools /\ g.functionCount = f.functionCount
         /\ g.functionSize = f.functionSize /\ g.main = f.main /\ g.functions = f.functions
         /\ g.inputs = f.inputs /\ g.code = f.code /\ g.size = f.size
    BY <1>1, <1>2, <1>7, <1>8, <1>9, <1>10, <1>11, <1>14, <1>15
  <1>18. f = [version |-> f.version, header |-> f.header, count |-> f.count,
              scalars |-> f.scalars, bools |-> f.bools, functionCount |-> f.functionCount,
              functionSize |-> f.functionSize, main |-> f.main, inputCount |-> f.inputCount,
              inputSize |-> f.inputSize, functions |-> f.functions, inputs |-> f.inputs,
              code |-> f.code, size |-> f.size]
    BY DEF FramedLayout
  <1>19. g = f
    BY ONLY <1>13, <1>16, <1>17, <1>18
  <1>. QED  BY <1>5, <1>19

\* The size of a file tells that it has neither functions nor inputs,
LEMMA NothingElse ==
    ASSUME NEW v \in 1..9, NEW k \in Nat, NEW n \in Nat, NEW c \in Nat,
           BytesOf(v, k, n, c) = BytesOf(v, 0, 0, c)
    PROVE  k = 0 /\ n = 0
  <1>. PICK h \in Nat : h = HeaderSize[v]
    BY HeaderType
  <1>. QED  BY DEF BytesOf, FunctionSize, InputSize, InstructionSize

\* or no inputs.
LEMMA NoInputs ==
    ASSUME NEW v \in 1..9, NEW k \in Nat, NEW n \in Nat, NEW c \in Nat,
           BytesOf(v, k, n, c) = BytesOf(v, k, 0, c)
    PROVE  n = 0
  <1>. PICK h \in Nat : h = HeaderSize[v]
    BY HeaderType
  <1>. QED  BY DEF BytesOf, FunctionSize, InputSize, InstructionSize

\* The size of a file is a number.
LEMMA BytesType ==
    ASSUME NEW v \in 1..9, NEW k \in Nat, NEW n \in Nat, NEW c \in Nat
    PROVE  BytesOf(v, k, n, c) \in Nat
  <1>. PICK h \in Nat : h = HeaderSize[v]
    BY HeaderType
  <1>. QED  BY DEF BytesOf, FunctionSize, InputSize, InstructionSize

\* A file with the sections of a program with frames is laid out like one of
\* the encoder's.
LEMMA FramedAlike ==
    ASSUME NEW bc, IsBytecode(bc), NEW f,
           f = [version |-> f.version, header |-> f.header, count |-> f.count,
                scalars |-> f.scalars, bools |-> f.bools,
                functionCount |-> f.functionCount, functionSize |-> f.functionSize,
                main |-> f.main, inputCount |-> f.inputCount, inputSize |-> f.inputSize,
                functions |-> f.functions, inputs |-> f.inputs, code |-> f.code,
                size |-> f.size],
           f.version \in {8, 9}, f.version = 8 => bc.inputs = 0 /\ f.inputSize = 0,
           f.scalars \in Nat, f.main \in Nat, f.count = Size(bc), f.code = bc.code,
           f.functionCount = NumberOfFunctions(bc), f.functionSize = FunctionSize,
           f.functions = bc.functions, f.inputCount = bc.inputs,
           f.inputs = [i \in 0..(bc.inputs - 1) |-> [slot |-> i, name |-> i]]
    PROVE  FramedLayout(f)
  <1>1. IsBytecode(Contents(f))
    <2>1. /\ Contents(f).code = bc.code /\ Contents(f).functions = bc.functions
          /\ Contents(f).main \in Nat /\ Contents(f).scalars \in Nat
          /\ Contents(f).inputs \in Nat
      BY DEF Contents, IsBytecode
    <2>. QED  BY <2>1 DEF IsBytecode, Size, Pcs
  <1>2. f.inputs = [i \in 0..(f.inputCount - 1) |-> [slot |-> i, name |-> i]]
    OBVIOUS
  <1>3. /\ f.functionCount = Cardinality(DOMAIN f.functions)
        /\ f.count = Cardinality(DOMAIN f.code)
    BY DEF NumberOfFunctions, Size
  <1>. QED  BY <1>1, <1>2, <1>3 DEF FramedLayout

\* The file of another version is refused,
LEMMA OtherVersion ==
    ASSUME NEW bc, IsBytecode(bc), RunsWithFrames(bc), NEW v \in 1..9, NEW f,
           f = FileOf(bc, v), SizeOK(f)
    PROVE  v \in {8, 9} /\ (v = 8 => bc.inputs = 0)
  <1>. PICK k \in Nat : k = NumberOfFunctions(bc)
    BY FunctionNumber
  <1>. PICK n \in Nat : n = bc.inputs
    BY DEF IsBytecode
  <1>. PICK c \in Nat : c = Size(bc)
    BY DEF IsBytecode
  <1>1. k > 0 \/ n > 0
    <2>1. k = 0 => n > 0
      BY FunctionNumber DEF RunsWithFrames
    <2>. QED  BY <2>1
  <1>2. /\ f.version = v /\ f.count = c /\ f.size = BytesOf(v, k, n, c)
    BY DEF FileOf
  <1>3. BytesOf(v, k, n, c) = BytesOf(v, f.functionCount, f.inputCount, c)
    BY <1>2 DEF SizeOK
  <1>4. ASSUME v \notin {8, 9} PROVE FALSE
    <2>1. f.functionCount = 0 /\ f.inputCount = 0
      BY <1>4 DEF FileOf, WithFunctions
    <2>2. BytesOf(v, k, n, c) = BytesOf(v, 0, 0, c)
      BY <1>3, <2>1
    <2>3. k = 0 /\ n = 0
      BY <2>2, NothingElse
    <2>. QED  BY <1>1, <2>3
  <1>5. ASSUME v = 8 PROVE n = 0
    <2>1. f.functionCount = k /\ f.inputCount = 0
      BY <1>5, FramedFields
    <2>2. BytesOf(v, k, n, c) = BytesOf(v, k, 0, c)
      BY <1>3, <2>1
    <2>. QED  BY <2>2, NoInputs
  <1>. QED  BY <1>4, <1>5

\* unless it is laid out like the encoder's.
LEMMA OtherVersionAlike ==
    ASSUME NEW bc, IsBytecode(bc), AsDecoded(bc), RunsWithFrames(bc), NEW v \in 1..9, NEW f,
           f = FileOf(bc, v), SizeOK(f)
    PROVE  FramedLayout(f)
  <1>1. v \in {8, 9} /\ (v = 8 => bc.inputs = 0)
    BY OtherVersion
  <1>2. /\ f.version = v /\ f.count = Size(bc) /\ f.code = bc.code
        /\ f.scalars = bc.scalars /\ f.main = bc.main
        /\ f.functionCount = NumberOfFunctions(bc) /\ f.functionSize = FunctionSize
        /\ f.functions = bc.functions
        /\ f.inputs = [i \in 0..(bc.inputs - 1) |-> [slot |-> i, name |-> i]]
    BY <1>1, FramedFields
  <1>3. v = 9 => f.inputCount = bc.inputs
    BY <1>1, FramedFields
  <1>4. v = 8 => f.inputCount = 0 /\ f.inputSize = 0
    BY <1>1, FramedFields
  <1>5. f = [version |-> f.version, header |-> f.header, count |-> f.count,
             scalars |-> f.scalars, bools |-> f.bools,
             functionCount |-> f.functionCount, functionSize |-> f.functionSize,
             main |-> f.main, inputCount |-> f.inputCount, inputSize |-> f.inputSize,
             functions |-> f.functions, inputs |-> f.inputs, code |-> f.code,
             size |-> f.size]
    BY DEF FileOf
  <1>6. bc.scalars \in Nat /\ bc.main \in Nat
    BY DEF IsBytecode
  <1>. QED  BY <1>1, <1>2, <1>3, <1>4, <1>5, <1>6, FramedAlike

\* What the encoder writes of a program with frames.
LEMMA FramedEncoding ==
    ASSUME NEW bc, IsBytecode(bc), RunsWithFrames(bc)
    PROVE  /\ Encode(bc) = [version |-> Encode(bc).version, header |-> Encode(bc).header,
              count |-> Encode(bc).count, scalars |-> Encode(bc).scalars,
              bools |-> Encode(bc).bools, functionCount |-> Encode(bc).functionCount,
              functionSize |-> Encode(bc).functionSize, main |-> Encode(bc).main,
              inputCount |-> Encode(bc).inputCount, inputSize |-> Encode(bc).inputSize,
              functions |-> Encode(bc).functions, inputs |-> Encode(bc).inputs,
              code |-> Encode(bc).code, size |-> Encode(bc).size]
           /\ Encode(bc).version \in {8, 9}
           /\ Encode(bc).version = 8 => bc.inputs = 0 /\ Encode(bc).inputSize = 0
           /\ Encode(bc).header = HeaderSize[Encode(bc).version]
           /\ Encode(bc).count = Size(bc) /\ Encode(bc).code = bc.code
           /\ Encode(bc).functions = bc.functions
           /\ Encode(bc).scalars = bc.scalars /\ Encode(bc).main = bc.main
           /\ Encode(bc).functionCount = NumberOfFunctions(bc)
           /\ Encode(bc).functionSize = FunctionSize
           /\ Encode(bc).inputCount = bc.inputs
           /\ Encode(bc).inputs = [i \in 0..(bc.inputs - 1) |-> [slot |-> i, name |-> i]]
           /\ Encode(bc).size = BytesOf(Encode(bc).version, Encode(bc).functionCount,
                                        Encode(bc).inputCount, Encode(bc).count)
  <1>. PICK e : e = Encode(bc)
    OBVIOUS
  <1>. PICK v : v = Version(bc)
    OBVIOUS
  <1>1. v \in {8, 9} /\ (v = 8 => bc.inputs = 0)
    BY FramedFile
  <1>2. e = FileOf(bc, v)
    BY DEF Encode
  <1>3. /\ e.version = v /\ e.header = HeaderSize[v] /\ e.count = Size(bc)
        /\ e.code = bc.code /\ e.scalars = bc.scalars /\ e.main = bc.main
        /\ e.functionCount = NumberOfFunctions(bc) /\ e.functionSize = FunctionSize
        /\ e.functions = bc.functions
        /\ e.inputs = [i \in 0..(bc.inputs - 1) |-> [slot |-> i, name |-> i]]
        /\ e.size = BytesOf(v, NumberOfFunctions(bc), bc.inputs, Size(bc))
    BY <1>1, <1>2, FramedFields
  <1>4. v = 9 => e.inputCount = bc.inputs
    BY <1>2 DEF FileOf
  <1>5. v = 8 => e.inputCount = 0 /\ e.inputSize = 0
    BY <1>2 DEF FileOf
  <1>6. e = [version |-> e.version, header |-> e.header, count |-> e.count,
             scalars |-> e.scalars, bools |-> e.bools,
             functionCount |-> e.functionCount, functionSize |-> e.functionSize,
             main |-> e.main, inputCount |-> e.inputCount, inputSize |-> e.inputSize,
             functions |-> e.functions, inputs |-> e.inputs, code |-> e.code,
             size |-> e.size]
    BY <1>2 DEF FileOf
  <1>. QED  BY <1>1, <1>3, <1>4, <1>5, <1>6

\* A file that differs from the encoder's at most in the number of slots, the
\* start of main and the bools is laid out alike.
LEMMA OtherFields ==
    ASSUME NEW bc, IsBytecode(bc), RunsWithFrames(bc), NEW e, e = Encode(bc), NEW f,
           f = [version |-> f.version, header |-> f.header, count |-> f.count,
                scalars |-> f.scalars, bools |-> f.bools,
                functionCount |-> f.functionCount, functionSize |-> f.functionSize,
                main |-> f.main, inputCount |-> f.inputCount, inputSize |-> f.inputSize,
                functions |-> f.functions, inputs |-> f.inputs, code |-> f.code,
                size |-> f.size],
           f.scalars \in Nat, f.main \in Nat, f.version = e.version, f.count = e.count,
           f.code = e.code, f.functionCount = e.functionCount,
           f.functionSize = e.functionSize, f.functions = e.functions,
           f.inputCount = e.inputCount, f.inputSize = e.inputSize, f.inputs = e.inputs
    PROVE  FramedLayout(f)
  <1>1. /\ e.version \in {8, 9} /\ (e.version = 8 => bc.inputs = 0 /\ e.inputSize = 0)
        /\ e.count = Size(bc) /\ e.code = bc.code /\ e.functions = bc.functions
        /\ e.functionCount = NumberOfFunctions(bc) /\ e.functionSize = FunctionSize
        /\ e.inputCount = bc.inputs
        /\ e.inputs = [i \in 0..(bc.inputs - 1) |-> [slot |-> i, name |-> i]]
    BY FramedEncoding
  <1>. QED  BY <1>1, FramedAlike

\* A file of another size is refused,
LEMMA OtherSize ==
    ASSUME NEW bc, IsBytecode(bc), RunsWithFrames(bc), NEW e, e = Encode(bc), NEW f,
           f.version = e.version, f.functionCount = e.functionCount,
           f.inputCount = e.inputCount, f.count = e.count, SizeOK(f)
    PROVE  f.size = e.size
  <1>1. e.size = BytesOf(e.version, e.functionCount, e.inputCount, e.count)
    BY FramedEncoding
  <1>. QED  BY <1>1 DEF SizeOK

\* another number of instructions
LEMMA OtherCount ==
    ASSUME NEW bc, IsBytecode(bc), RunsWithFrames(bc), NEW e, e = Encode(bc), NEW f,
           f.version = e.version, f.functionCount = e.functionCount,
           f.inputCount = e.inputCount, f.count = e.count + 1, f.size = e.size, SizeOK(f)
    PROVE  FALSE
  <1>1. /\ e.size = BytesOf(e.version, e.functionCount, e.inputCount, e.count)
        /\ e.version \in {8, 9}
        /\ e.count = Size(bc) /\ e.functionCount = NumberOfFunctions(bc)
        /\ e.inputCount = bc.inputs
    BY FramedEncoding
  <1>. PICK v \in 1..9 : v = e.version
    BY <1>1
  <1>. PICK k \in Nat : k = e.functionCount
    BY <1>1, FunctionNumber
  <1>. PICK n \in Nat : n = e.inputCount
    BY <1>1 DEF IsBytecode
  <1>. PICK c \in Nat : c = e.count
    BY <1>1 DEF IsBytecode
  <1>2. BytesOf(v, k, n, c + 1) = BytesOf(v, k, n, c)
    BY <1>1 DEF SizeOK
  <1>. PICK h \in Nat : h = HeaderSize[v]
    BY HeaderType
  <1>. QED
    BY ONLY k \in Nat, n \in Nat, c \in Nat, h \in Nat, h = HeaderSize[v], <1>2
       DEF BytesOf, FunctionSize, InputSize, InstructionSize

\* or another header,
LEMMA OtherHeader ==
    ASSUME NEW bc, IsBytecode(bc), RunsWithFrames(bc), NEW e, e = Encode(bc), NEW f,
           f.header = e.header + 8, f.version = e.version, LimitsOK(f)
    PROVE  FALSE
  <1>1. e.version \in {8, 9} /\ e.header = HeaderSize[e.version]
    BY FramedEncoding
  <1>2. f.header = HeaderSize[f.version]
    BY DEF LimitsOK
  <1>. PICK h \in Nat : h = HeaderSize[e.version]
    BY <1>1, HeaderType
  <1>. QED  BY <1>1, <1>2

\* or other inputs: each is in its place, and none is named like another.
LEMMA OtherInputs ==
    ASSUME NEW bc, IsBytecode(bc), RunsWithFrames(bc), NEW e, e = Encode(bc), NEW f, NEW g,
           f.inputCount = e.inputCount, f.inputs = g, InputsOK(f),
           NEW i \in 0..(bc.inputs - 1), NEW j \in 0..(bc.inputs - 1),
           \/ g = [e.inputs EXCEPT ![i].slot = j]
           \/ g = [e.inputs EXCEPT ![i].name = j]
    PROVE  g = e.inputs
  <1>. PICK n \in Nat : n = bc.inputs
    BY DEF IsBytecode
  <1>. PICK ins : ins = e.inputs
    OBVIOUS
  <1>1. e.inputCount = n /\ ins = [x \in 0..(n - 1) |-> [slot |-> x, name |-> x]]
    BY FramedEncoding
  <1>2. i \in 0..(n - 1) /\ j \in 0..(n - 1)
    OBVIOUS
  <1>3. /\ g[i].slot = i
        /\ \A x \in 0..(n - 1) : \A y \in 0..(x - 1) : g[x].name # g[y].name
    BY <1>1 DEF InputsOK
  <1>4. ASSUME g = [ins EXCEPT ![i].slot = j] PROVE g = ins
    <2>1. g[i].slot = j
      BY ONLY n \in Nat, <1>1, <1>2, <1>4
    <2>2. j = i
      BY ONLY <1>3, <2>1
    <2>3. [ins[i] EXCEPT !.slot = i] = ins[i]
      BY ONLY n \in Nat, <1>1, <1>2
    <2>. QED  BY ONLY <1>1, <1>4, <2>2, <2>3
  <1>5. ASSUME g = [ins EXCEPT ![i].name = j] PROVE g = ins
    <2>1. g[i].name = j /\ (j # i => g[j].name = j)
      BY ONLY n \in Nat, <1>1, <1>2, <1>5
    <2>2. \A x, y \in 0..(n - 1) : y < x => g[x].name # g[y].name
      BY ONLY n \in Nat, <1>3
    <2>3. j = i
      BY ONLY n \in Nat, <1>2, <2>1, <2>2
    <2>4. [ins[i] EXCEPT !.name = i] = ins[i]
      BY ONLY n \in Nat, <1>1, <1>2
    <2>. QED  BY ONLY <1>1, <1>5, <2>3, <2>4
  <1>. QED  BY <1>4, <1>5

\* Of the files that vary one of a program with frames, those the decoder
\* accepts are laid out like the encoder's.
LEMMA FramedVariation ==
    ASSUME NEW bc, IsBytecode(bc), AsDecoded(bc), RunsWithFrames(bc),
           NEW f \in Variations(bc), Decodes(f)
    PROVE  FramedLayout(f)
  <1>. PICK e : e = Encode(bc)
    OBVIOUS
  <1>1. \/ \E v \in 1..9 : f = FileOf(bc, v)
        \/ f = [e EXCEPT !.scalars = @ + 1] \/ f = [e EXCEPT !.header = @ + 8]
        \/ f = [e EXCEPT !.size = @ + InstructionSize] \/ f = [e EXCEPT !.size = @ - 1]
        \/ f = [e EXCEPT !.count = @ + 1] \/ f = [e EXCEPT !.main = @ + 1]
        \/ \E b : f = [e EXCEPT !.bools = b]
        \/ \E i, j \in DOMAIN e.inputs : f = [e EXCEPT !.inputs = [@ EXCEPT ![i].name = j]]
        \/ \E i, j \in DOMAIN e.inputs : f = [e EXCEPT !.inputs = [@ EXCEPT ![i].slot = j]]
    BY DEF Variations
  <1>2. LimitsOK(f) /\ SizeOK(f) /\ InputsOK(f)
    BY DEF Decodes
  <1>3. e = [version |-> e.version, header |-> e.header, count |-> e.count,
             scalars |-> e.scalars, bools |-> e.bools,
             functionCount |-> e.functionCount, functionSize |-> e.functionSize,
             main |-> e.main, inputCount |-> e.inputCount, inputSize |-> e.inputSize,
             functions |-> e.functions, inputs |-> e.inputs, code |-> e.code,
             size |-> e.size]
    BY FramedEncoding
  <1>4. /\ e.scalars \in Nat /\ e.main \in Nat /\ e.size \in Nat
        /\ DOMAIN e.inputs = 0..(bc.inputs - 1)
    <2>1. /\ e.scalars = bc.scalars /\ e.main = bc.main /\ e.count = Size(bc)
          /\ e.functionCount = NumberOfFunctions(bc) /\ e.inputCount = bc.inputs
          /\ e.version \in 1..9
          /\ e.size = BytesOf(e.version, e.functionCount, e.inputCount, e.count)
          /\ e.inputs = [i \in 0..(bc.inputs - 1) |-> [slot |-> i, name |-> i]]
      BY FramedEncoding
    <2>2. /\ bc.scalars \in Nat /\ bc.main \in Nat /\ Size(bc) \in Nat
          /\ NumberOfFunctions(bc) \in Nat /\ bc.inputs \in Nat
      BY FunctionNumber DEF IsBytecode
    <2>3. e.size \in Nat
      <3>. PICK v \in 1..9 : v = e.version
        BY <2>1
      <3>. PICK k \in Nat : k = e.functionCount
        BY <2>1, <2>2
      <3>. PICK n \in Nat : n = e.inputCount
        BY <2>1, <2>2
      <3>. PICK c \in Nat : c = e.count
        BY <2>1, <2>2
      <3>1. BytesOf(v, k, n, c) \in Nat
        BY BytesType
      <3>. QED  BY <2>1, <3>1
    <2>. QED  BY <2>1, <2>2, <2>3
  <1>5. ASSUME NEW v \in 1..9, f = FileOf(bc, v) PROVE FramedLayout(f)
    BY <1>2, <1>5, OtherVersionAlike
  \* What can differ in a file laid out alike.
  <1>6. CASE f = [e EXCEPT !.scalars = @ + 1]
    <2>1. f = [version |-> f.version, header |-> f.header, count |-> f.count,
             scalars |-> f.scalars, bools |-> f.bools,
             functionCount |-> f.functionCount, functionSize |-> f.functionSize,
             main |-> f.main, inputCount |-> f.inputCount, inputSize |-> f.inputSize,
             functions |-> f.functions, inputs |-> f.inputs, code |-> f.code,
             size |-> f.size]
      BY ONLY <1>3, <1>6
    <2>2. /\ f.version = e.version /\ f.count = e.count /\ f.code = e.code
          /\ f.functionCount = e.functionCount /\ f.functionSize = e.functionSize
          /\ f.functions = e.functions /\ f.inputCount = e.inputCount
          /\ f.inputSize = e.inputSize /\ f.inputs = e.inputs
      BY ONLY <1>3, <1>6
    <2>3. f.scalars = e.scalars + 1 /\ f.main = e.main
      BY ONLY <1>3, <1>6
    <2>. QED  BY <1>4, <2>1, <2>2, <2>3, OtherFields
  <1>7. CASE f = [e EXCEPT !.main = @ + 1]
    <2>1. f = [version |-> f.version, header |-> f.header, count |-> f.count,
             scalars |-> f.scalars, bools |-> f.bools,
             functionCount |-> f.functionCount, functionSize |-> f.functionSize,
             main |-> f.main, inputCount |-> f.inputCount, inputSize |-> f.inputSize,
             functions |-> f.functions, inputs |-> f.inputs, code |-> f.code,
             size |-> f.size]
      BY ONLY <1>3, <1>7
    <2>2. /\ f.version = e.version /\ f.count = e.count /\ f.code = e.code
          /\ f.functionCount = e.functionCount /\ f.functionSize = e.functionSize
          /\ f.functions = e.functions /\ f.inputCount = e.inputCount
          /\ f.inputSize = e.inputSize /\ f.inputs = e.inputs
      BY ONLY <1>3, <1>7
    <2>3. f.scalars = e.scalars /\ f.main = e.main + 1
      BY ONLY <1>3, <1>7
    <2>. QED  BY <1>4, <2>1, <2>2, <2>3, OtherFields
  <1>8. ASSUME NEW b, f = [e EXCEPT !.bools = b] PROVE FramedLayout(f)
    <2>1. f = [version |-> f.version, header |-> f.header, count |-> f.count,
             scalars |-> f.scalars, bools |-> f.bools,
             functionCount |-> f.functionCount, functionSize |-> f.functionSize,
             main |-> f.main, inputCount |-> f.inputCount, inputSize |-> f.inputSize,
             functions |-> f.functions, inputs |-> f.inputs, code |-> f.code,
             size |-> f.size]
      BY ONLY <1>3, <1>8
    <2>2. /\ f.version = e.version /\ f.count = e.count /\ f.code = e.code
          /\ f.functionCount = e.functionCount /\ f.functionSize = e.functionSize
          /\ f.functions = e.functions /\ f.inputCount = e.inputCount
          /\ f.inputSize = e.inputSize /\ f.inputs = e.inputs
      BY ONLY <1>3, <1>8
    <2>3. f.scalars = e.scalars /\ f.main = e.main
      BY ONLY <1>3, <1>8
    <2>. QED  BY <1>4, <2>1, <2>2, <2>3, OtherFields
  <1>9. CASE f = e
    <2>1. f = [e EXCEPT !.bools = e.bools]
      BY ONLY <1>3, <1>9
    <2>. QED  BY <1>8, <2>1
  \* What cannot.
  <1>10. f # [e EXCEPT !.header = @ + 8]
    <2>. SUFFICES ASSUME f = [e EXCEPT !.header = @ + 8] PROVE FALSE
      OBVIOUS
    <2>1. f.header = e.header + 8 /\ f.version = e.version
      BY ONLY <1>3, f = [e EXCEPT !.header = @ + 8]
    <2>. QED  BY <1>2, <2>1, OtherHeader
  <1>11. f # [e EXCEPT !.count = @ + 1]
    <2>. SUFFICES ASSUME f = [e EXCEPT !.count = @ + 1] PROVE FALSE
      OBVIOUS
    <2>1. /\ f.size = e.size /\ f.version = e.version /\ f.functionCount = e.functionCount
          /\ f.inputCount = e.inputCount /\ f.count = e.count + 1
      BY ONLY <1>3, f = [e EXCEPT !.count = @ + 1]
    <2>. QED  BY <1>2, <2>1, OtherCount
  <1>12. ASSUME NEW size, f = [e EXCEPT !.size = size] PROVE size = e.size
    <2>1. /\ f.size = size /\ f.version = e.version /\ f.functionCount = e.functionCount
          /\ f.inputCount = e.inputCount /\ f.count = e.count
      BY ONLY <1>3, <1>12
    <2>. QED  BY <1>2, <2>1, OtherSize
  <1>13. f # [e EXCEPT !.size = @ + InstructionSize] /\ f # [e EXCEPT !.size = @ - 1]
    <2>1. e.size + InstructionSize # e.size /\ e.size - 1 # e.size
      BY <1>4 DEF InstructionSize
    <2>. QED  BY <1>12, <2>1
  <1>14. ASSUME NEW i \in DOMAIN e.inputs, NEW j \in DOMAIN e.inputs,
                \/ f = [e EXCEPT !.inputs = [@ EXCEPT ![i].name = j]]
                \/ f = [e EXCEPT !.inputs = [@ EXCEPT ![i].slot = j]]
         PROVE  FramedLayout(f)
    <2>1. i \in 0..(bc.inputs - 1) /\ j \in 0..(bc.inputs - 1)
      BY <1>4
    <2>2. PICK g : /\ f = [e EXCEPT !.inputs = g]
                   /\ \/ g = [e.inputs EXCEPT ![i].slot = j]
                      \/ g = [e.inputs EXCEPT ![i].name = j]
      BY <1>14
    <2>3. f.inputCount = e.inputCount /\ f.inputs = g
      BY ONLY <1>3, <2>2
    <2>4. g = e.inputs
      <3>1. f.inputCount = e.inputCount /\ f.inputs = g
        BY <2>3
      <3>2. InputsOK(f)
        BY <1>2
      <3>3. g = [e.inputs EXCEPT ![i].slot = j] \/ g = [e.inputs EXCEPT ![i].name = j]
        BY <2>2
      <3>4. IsBytecode(bc) /\ RunsWithFrames(bc) /\ e = Encode(bc)
        OBVIOUS
      <3>. QED  BY ONLY <2>1, <3>1, <3>2, <3>3, <3>4, OtherInputs
    <2>5. f = e
      BY ONLY <1>3, <2>2, <2>4
    <2>. QED  BY <1>9, <2>5
  <1>. QED  BY <1>1, <1>5, <1>6, <1>7, <1>8, <1>10, <1>11, <1>13, <1>14

\* A program with frames has one file.
LEMMA FramedCanonical ==
    ASSUME NEW bc, IsBytecode(bc), AsDecoded(bc), RunsWithFrames(bc)
    PROVE  Canonical(bc)
  <1>. SUFFICES ASSUME NEW f \in Variations(bc), NEW p \in Decode(f)
                PROVE  Encode(p) = f
    BY DEF Canonical
  <1>1. Decodes(f) /\ p = Contents(f)
    BY DEF Decode
  <1>. QED  BY <1>1, FramedVariation, SameFileAgain

-----------------------------------------------------------------------------

\* Every program, of any size and for any limits, has one file, and the file
\* is the program: what the encoder writes the decoder reads back if and only
\* if the VM would run it, and no other file says the same.
THEOREM ExactFormat == Spec => []FormatIsExact
  <1>. DEFINE Inv == program \in Programs
  <1>1. Init => Inv
    BY DEF Init
  <1>2. Inv /\ [Next]_vars => Inv'
    BY DEF Next, vars, Load, Refuse, Const, Compute, SetSlot, RepeatEnter, RepeatNext,
           Branch, Jump, Call, Return, Emit, Halt, Advance
  <1>3. Inv => FormatIsExact
    BY ProgramsAssumption, FramedSurvives, FramedCanonical DEF FormatIsExact
  <1>. QED  BY <1>1, <1>2, <1>3, PTL DEF Spec
=============================================================================
