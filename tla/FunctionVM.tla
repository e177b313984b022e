----------------------------- MODULE FunctionVM -----------------------------
(***************************************************************************)
(* qn_vm_run_function_scalar of src/vm.c: the VM of programs with          *)
(* functions or runtime inputs.  Frames are reused by depth, RETURN clears *)
(* the callee's frame, and every instruction checks its operands again.    *)
(*                                                                         *)
(* repeat_active of the code is repeat_remaining > 0 here.  An             *)
(* uninitialized frame field is 0, as memset leaves it; an unused          *)
(* repeat_enter_pc (SIZE_MAX) is None.                                     *)
(***************************************************************************)
EXTENDS QbcCodec, ScalarMeaning

CONSTANT Programs

ASSUME ProgramsAssumption ==
    \A bc \in Programs : IsBytecode(bc) /\ AsDecoded(bc) /\ RunsWithFrames(bc)

VARIABLES
    program,    \* the decoded bytecode
    given,      \* the runtime input bindings, in the order of the inputs
    status, frames, depth, pc, executed, bound,
    emitted     \* {}, or {[id, value]} after U32_EMIT

vars == <<program, given, status, frames, depth, pc, executed, bound, emitted>>

None == -1
Slots == 0..(MaxScalars - 1)
Depths == 0..MaxCallDepth

Frame(n, values, init, enter) ==
    [n |-> n, values |-> values, init |-> init, bools |-> {},
     return_pc |-> 0, return_destination |-> 0, function_index |-> 0,
     repeat_enter_pc |-> enter, repeat_remaining |-> 0]

Filled(args) == [s \in Slots |-> IF s \in DOMAIN args THEN args[s] ELSE 0]

\* A frame as memset leaves it.
Cleared == Frame(0, Filled(<<>>), {}, 0)

\* A frame of n slots whose first slots hold the values of args, a function
\* on 0..k-1.
Opened(n, args) == Frame(n, Filled(args), DOMAIN args, None)

-----------------------------------------------------------------------------

Bindings(bc) == {<<>>} \cup [0..(bc.inputs - 1) -> U32]

Init ==
    /\ program \in Programs
    /\ given \in Bindings(program)
    /\ status = "loading"
    /\ frames = [d \in Depths |-> Cleared]
    /\ depth = 0 /\ pc = 0 /\ executed = 0 /\ bound = 0
    /\ emitted = {}

Accepted ==
    IsTypedScalarProgram(program) /\ Cardinality(DOMAIN given) = program.inputs

Load ==
    /\ status = "loading" /\ Accepted
    /\ status' = "running"
    /\ bound' = ExecutionStepBound(program)
    /\ frames' = [frames EXCEPT ![0] = Opened(program.scalars, given)]
    /\ pc' = program.main
    /\ UNCHANGED <<program, given, depth, executed, emitted>>

Refuse ==
    /\ status = "loading" /\ ~Accepted
    /\ status' = "refused"
    /\ UNCHANGED <<program, given, frames, depth, pc, executed, bound, emitted>>

-----------------------------------------------------------------------------
(* The checks before an instruction.                                       *)

Ins == program.code[pc]
Top == frames[depth]
Active == program.functions[Top.function_index]

\* The step budget and the interval of the running function.
Fetched ==
    /\ status = "running" /\ pc \in Pcs(program)
    /\ executed < bound /\ executed < MaxSteps
    /\ IF depth = 0 THEN pc >= program.main
       ELSE /\ Top.function_index \in DOMAIN program.functions
            /\ pc \in Active.entry..(Active.end - 1)

Forward == depth > 0 /\ Blank(Ins, {"b", "flags"}) /\ Ins.imm \in (pc + 1)..(Active.end - 1)

CanConst == Ins.op = "CONST" /\ Fresh(Ins, Top)

CanCompute ==
    /\ Ins.op \in Arith \/ (Ins.op \in Compare /\ depth > 0)
    /\ Fresh(Ins, Top) /\ Reads(Ins, {"b", "flags"}, Top)

CanSet == Ins.op \in Set /\ depth > 0 /\ Reads(Ins, {"a", "b", "flags"}, Top)

CanEnter ==
    /\ Ins.op = "REPEAT_ENTER" /\ depth > 0
    /\ Ins.a \in 1..MaxRepeat /\ Blank(Ins, {"flags"})
    /\ Ins.imm \in (pc + 2)..(Active.end - 1)
    /\ Top.repeat_remaining = 0 \/ Top.repeat_enter_pc = pc

CanNext ==
    /\ Ins.op = "REPEAT_NEXT" /\ depth > 0 /\ Top.repeat_remaining > 0
    /\ Blank(Ins, {"a", "b", "flags"})
    /\ Ins.imm = Top.repeat_enter_pc /\ Ins.imm \in Active.entry..(pc - 1)

CanBranch ==
    /\ Ins.op = "JUMP_IF_FALSE" /\ Forward
    /\ Ins.a < Top.n /\ Ins.a \in Top.init /\ Ins.a \in Top.bools
    /\ Top.values[Ins.a] <= 1

CanJump == Ins.op = "JUMP" /\ Forward /\ Blank(Ins, {"a"})

CanCall ==
    /\ Ins.op = "CALL" /\ Ins.imm \in DOMAIN program.functions
    /\ Fresh(Ins, Top) /\ depth < MaxCallDepth
    /\ program.functions[Ins.imm].params >= 1 => Reads(Ins, {"b"}, Top)
    /\ program.functions[Ins.imm].params >= 2 => Reads(Ins, {"flags"}, Top)

CanReturn ==
    /\ Ins.op = "RETURN" /\ depth > 0
    /\ Reads(Ins, {"a"}, Top) /\ Blank(Ins, {"b", "flags", "imm"})
    /\ Top.repeat_remaining = 0
    /\ Top.return_destination < frames[depth - 1].n
    /\ Top.return_destination \notin frames[depth - 1].init

CanEmit == Ins.op = "U32_EMIT" /\ depth = 0 /\ emitted = {} /\ Reads(Ins, {"a"}, Top)

CanEnd ==
    /\ Ins.op = "END" /\ depth = 0 /\ pc + 1 = Size(program)
    /\ emitted # {} /\ Top.repeat_remaining = 0

Can == \/ CanConst \/ CanCompute \/ CanSet \/ CanEnter \/ CanNext \/ CanBranch
       \/ CanJump \/ CanCall \/ CanReturn \/ CanEmit \/ CanEnd

ByZero == (CanCompute \/ CanSet) /\ Divides(Ins.op) /\ Top.values[Ins.flags] = 0

-----------------------------------------------------------------------------
(* One instruction.                                                        *)

\* Slot a of the frame gets a value, of type bool if isBool.
Assigned(frame, a, value, isBool) ==
    [frame EXCEPT !.values[a] = value, !.init = @ \cup {a},
                  !.bools = IF isBool THEN @ \cup {a} ELSE @ \ {a}]

\* The step changes no more than the running frame and pc.
Advance(frame, next) ==
    /\ frames' = [frames EXCEPT ![depth] = frame]
    /\ pc' = next
    /\ executed' = executed + 1
    /\ UNCHANGED <<program, given, status, depth, bound, emitted>>

Const ==
    /\ Fetched /\ CanConst
    /\ Advance(Assigned(Top, Ins.a, Ins.imm, FALSE), pc + 1)

Compute ==
    /\ Fetched /\ CanCompute /\ ~ByZero
    /\ LET x == Top.values[Ins.b]
           y == Top.values[Ins.flags]
           result == IF Ins.op \in Compare THEN Test(Ins.op, x, y) ELSE Apply(Ins.op, x, y)
       IN  Advance(Assigned(Top, Ins.a, result, Ins.op \in Compare), pc + 1)

SetSlot ==
    /\ Fetched /\ CanSet /\ ~ByZero
    /\ LET result == Apply(Ins.op, Top.values[Ins.b], Top.values[Ins.flags])
       IN  Advance([Top EXCEPT !.values[Ins.a] = result], pc + 1)

RepeatEnter ==
    /\ Fetched /\ CanEnter
    /\ Advance(IF Top.repeat_remaining > 0 THEN Top
               ELSE [Top EXCEPT !.repeat_remaining = Ins.a, !.repeat_enter_pc = pc],
               pc + 1)

RepeatNext ==
    /\ Fetched /\ CanNext
    /\ IF Top.repeat_remaining > 1
       THEN Advance([Top EXCEPT !.repeat_remaining = @ - 1], Ins.imm)
       ELSE Advance([Top EXCEPT !.repeat_remaining = 0, !.repeat_enter_pc = None], pc + 1)

Branch ==
    /\ Fetched /\ CanBranch
    /\ Advance(Top, IF Top.values[Ins.a] = 0 THEN Ins.imm ELSE pc + 1)

Jump ==
    /\ Fetched /\ CanJump
    /\ Advance(Top, Ins.imm)

\* Mutant of Args: the arguments change places.
ArgsSwapped ==
    [i \in 0..(program.functions[Ins.imm].params - 1) |->
        Top.values[IF i = 0 THEN Ins.flags ELSE Ins.b]]

Args ==
    [i \in 0..(program.functions[Ins.imm].params - 1) |->
        Top.values[IF i = 0 THEN Ins.b ELSE Ins.flags]]

\* Mutant of Call: the caller resumes at the call.
CallAgain ==
    /\ Fetched /\ CanCall
    /\ depth' = depth + 1
    /\ frames' = [frames EXCEPT ![depth + 1] =
                    [Opened(program.functions[Ins.imm].scalars, Args) EXCEPT
                        !.return_pc = pc, !.return_destination = Ins.a,
                        !.function_index = Ins.imm]]
    /\ pc' = program.functions[Ins.imm].entry
    /\ executed' = executed + 1
    /\ UNCHANGED <<program, given, status, bound, emitted>>

Call ==
    /\ Fetched /\ CanCall
    /\ depth' = depth + 1
    /\ frames' = [frames EXCEPT ![depth + 1] =
                    [Opened(program.functions[Ins.imm].scalars, Args) EXCEPT
                        !.return_pc = pc + 1, !.return_destination = Ins.a,
                        !.function_index = Ins.imm]]
    /\ pc' = program.functions[Ins.imm].entry
    /\ executed' = executed + 1
    /\ UNCHANGED <<program, given, status, bound, emitted>>

Return ==
    /\ Fetched /\ CanReturn
    /\ depth' = depth - 1
    /\ frames' = [frames EXCEPT ![depth] = Cleared,
                    ![depth - 1] = Assigned(@, Top.return_destination,
                                            Top.values[Ins.a], FALSE)]
    /\ pc' = Top.return_pc
    /\ executed' = executed + 1
    /\ UNCHANGED <<program, given, status, bound, emitted>>

Emit ==
    /\ Fetched /\ CanEmit
    /\ emitted' = {[id |-> Ins.a, value |-> Top.values[Ins.a]]}
    /\ pc' = pc + 1
    /\ executed' = executed + 1
    /\ UNCHANGED <<program, given, status, frames, depth, bound>>

\* How the run ends before or at this instruction, if it does.
Outcome ==
    IF ~(Fetched /\ Can) THEN "fault"
    ELSE IF ByZero THEN "divided_by_zero"
    ELSE IF CanEnd THEN "done" ELSE "running"

Halt ==
    /\ status = "running" /\ Outcome # "running"
    /\ status' = Outcome
    /\ executed' = IF Outcome = "fault" THEN executed ELSE executed + 1
    /\ UNCHANGED <<program, given, frames, depth, pc, bound, emitted>>

Next ==
    \/ Load \/ Refuse
    \/ Const \/ Compute \/ SetSlot \/ RepeatEnter \/ RepeatNext \/ Branch \/ Jump
    \/ Call \/ Return \/ Emit \/ Halt

Spec == Init /\ [][Next]_vars

-----------------------------------------------------------------------------

FrameType ==
    [n : 0..MaxScalars, values : [Slots -> U32], init : SUBSET Slots, bools : SUBSET Slots,
     return_pc : Nat, return_destination : Nat, function_index : Nat,
     repeat_enter_pc : Nat \cup {None}, repeat_remaining : 0..MaxRepeat]

\* The call stack never outgrows its array and every frame stays within the
\* 64 slots of its arrays, whatever program is loaded.
TypeOK ==
    /\ IsBytecode(program) /\ given \in Bindings(program)
    /\ status \in {"loading", "running", "refused", "done", "divided_by_zero", "fault"}
    /\ frames \in [Depths -> FrameType] /\ depth \in Depths
    /\ pc \in Nat /\ executed \in 0..MaxSteps /\ bound <= MaxSteps
    /\ emitted \subseteq [id : Slots, value : U32]

\* Every frame on the stack belongs to a CALL that its caller is waiting at:
\* to this function, with its result slot still free.  (vm.c:649, vm.c:705)
CallersWait ==
    \A d \in 1..depth :
        LET call == program.code[frames[d].return_pc - 1]
        IN  /\ call.op = "CALL" /\ call.imm = frames[d].function_index
            /\ call.a = frames[d].return_destination
            /\ Fresh(call, frames[d - 1])

\* A program that qn_qbc_is_typed_scalar_program accepts runs to END or to a
\* division by zero.  Of the checks of the VM, its step budget included, only
\* one can still fail: that the arguments of a CALL are initialized, when its
\* own result is among them.
OnlySelfArgumentFails ==
    status = "fault" => Ins.op = "CALL" /\ Ins.a \in {Ins.b, Ins.flags}

\* Without branches the bound computed before the run (7 steps in
\* test_native_functions.c) is the number of instructions executed.
Straight(bc) == \A i \in Pcs(bc) : bc.code[i].op # "JUMP_IF_FALSE"
BoundIsExact == status = "done" /\ Straight(program) => executed = bound

\* What the frame machine emits is what the program means, and it divides by
\* zero only if the meaning does.  (vm.c:277: frames reused by depth, return
\* destinations, repeat counters and jump targets.)
ResultIsMeaning ==
    /\ status = "done" => {e.value : e \in emitted} = {Meaning(program, given)}
    /\ status = "divided_by_zero" => Meaning(program, given) = Undefined

\* A file of bytecode says one program and a program has one file, whatever
\* the program: the decoder (qbc.c:1480) accepts what the encoder writes of any
\* program the VM accepts, and nothing else, so the digest of the program that
\* vm.c:162 encodes once more is the digest of the file.
FormatIsExact == status = "loading" => SurvivesStorage(program) /\ Canonical(program)
=============================================================================
