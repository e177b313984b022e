------------------------------ MODULE ScalarVM ------------------------------
(***************************************************************************)
(* qn_vm_run_typed_scalar of src/vm.c: the VM of programs without          *)
(* functions and inputs.  It indexes its arrays with the operands of the   *)
(* bytecode unchecked, and reads the emitted slot only at END.             *)
(*                                                                         *)
(* repeat_active of the code is repeat_remaining > 0 here, and an unused   *)
(* repeat_enter_pc (SIZE_MAX) is None.                                     *)
(***************************************************************************)
EXTENDS QbcCodec, ScalarMeaning

CONSTANT Programs

ASSUME ProgramsAssumption ==
    \A bc \in Programs : IsBytecode(bc) /\ AsDecoded(bc) /\ ~RunsWithFrames(bc)

VARIABLES
    program, status, values, initialized, pc, executed, bound,
    repeat_enter_pc, repeat_remaining,
    emitted     \* the slots emitted: none or one

repeat == <<repeat_enter_pc, repeat_remaining>>
vars == <<program, status, values, initialized, pc, executed, bound, repeat, emitted>>

None == -1
Slots == 0..(MaxScalars - 1)

Init ==
    /\ program \in Programs
    /\ status = "loading"
    /\ values = [s \in Slots |-> 0] /\ initialized = {}
    /\ pc = 0 /\ executed = 0 /\ bound = 0
    /\ repeat_enter_pc = None /\ repeat_remaining = 0
    /\ emitted = {}

Load ==
    /\ status = "loading" /\ IsTypedScalarProgram(program)
    /\ status' = "running"
    /\ bound' = ExecutionStepBound(program)
    /\ UNCHANGED <<program, values, initialized, pc, executed, repeat, emitted>>

\* A command that brings input bindings is refused whatever the program.
Refuse ==
    /\ status = "loading"
    /\ status' = "refused"
    /\ UNCHANGED <<program, values, initialized, pc, executed, bound, repeat, emitted>>

-----------------------------------------------------------------------------

Ins == program.code[pc]

Fetched ==
    /\ status = "running" /\ pc \in Pcs(program)
    /\ executed < bound /\ executed < MaxSteps

Forward == Ins.imm \in (pc + 1)..(Size(program) - 1)

CanConst == Ins.op = "CONST"

CanCompute == Ins.op \in Arith \cup Compare /\ {Ins.b, Ins.flags} \subseteq initialized

CanSet == Ins.op \in Set /\ {Ins.a, Ins.b, Ins.flags} \subseteq initialized

CanEnter ==
    /\ Ins.op = "REPEAT_ENTER" /\ Ins.a \in 1..MaxRepeat
    /\ Forward /\ Ins.imm > pc + 1
    /\ repeat_remaining = 0 \/ repeat_enter_pc = pc

CanNext ==
    /\ Ins.op = "REPEAT_NEXT" /\ repeat_remaining > 0
    /\ Ins.imm = repeat_enter_pc /\ Ins.imm < pc

CanEmit ==
    Ins.op \in {"U32_EMIT", "BOOL_EMIT"} /\ Ins.a \in initialized /\ emitted = {}

CanBranch ==
    /\ Ins.op = "JUMP_IF_FALSE" /\ Forward
    /\ Ins.a \in initialized /\ values[Ins.a] <= 1

CanJump == Ins.op = "JUMP" /\ Forward

CanEnd ==
    /\ Ins.op = "END" /\ pc + 1 = Size(program)
    /\ emitted # {} /\ repeat_remaining = 0

Can == \/ CanConst \/ CanCompute \/ CanSet \/ CanEnter \/ CanNext
       \/ CanEmit \/ CanBranch \/ CanJump \/ CanEnd

ByZero == (CanCompute \/ CanSet) /\ Divides(Ins.op) /\ values[Ins.flags] = 0

-----------------------------------------------------------------------------

Advance(next) ==
    /\ pc' = next
    /\ executed' = executed + 1
    /\ UNCHANGED <<program, status, bound>>

Assign(value) ==
    /\ values' = [values EXCEPT ![Ins.a] = value]
    /\ initialized' = initialized \cup {Ins.a}
    /\ Advance(pc + 1)
    /\ UNCHANGED <<repeat, emitted>>

Const == Fetched /\ CanConst /\ Assign(Ins.imm)

Compute ==
    /\ Fetched /\ (CanCompute \/ CanSet) /\ ~ByZero
    /\ LET x == values[Ins.b]
           y == values[Ins.flags]
       IN  Assign(IF Ins.op \in Compare THEN Test(Ins.op, x, y) ELSE Apply(Ins.op, x, y))

RepeatEnter ==
    /\ Fetched /\ CanEnter
    /\ IF repeat_remaining > 0 THEN UNCHANGED repeat
       ELSE repeat_remaining' = Ins.a /\ repeat_enter_pc' = pc
    /\ Advance(pc + 1)
    /\ UNCHANGED <<values, initialized, emitted>>

RepeatNext ==
    /\ Fetched /\ CanNext
    /\ IF repeat_remaining > 1
       THEN /\ repeat_remaining' = repeat_remaining - 1
            /\ Advance(Ins.imm) /\ UNCHANGED repeat_enter_pc
       ELSE /\ repeat_remaining' = 0 /\ repeat_enter_pc' = None
            /\ Advance(pc + 1)
    /\ UNCHANGED <<values, initialized, emitted>>

Emit ==
    /\ Fetched /\ CanEmit
    /\ emitted' = {Ins.a}
    /\ Advance(pc + 1)
    /\ UNCHANGED <<values, initialized, repeat>>

\* Mutant of Branch: a true condition jumps.
BranchInverted ==
    /\ Fetched /\ CanBranch
    /\ Advance(IF values[Ins.a] = 0 THEN pc + 1 ELSE Ins.imm)
    /\ UNCHANGED <<values, initialized, repeat, emitted>>

Branch ==
    /\ Fetched /\ CanBranch
    /\ Advance(IF values[Ins.a] = 0 THEN Ins.imm ELSE pc + 1)
    /\ UNCHANGED <<values, initialized, repeat, emitted>>

Jump ==
    /\ Fetched /\ CanJump
    /\ Advance(Ins.imm)
    /\ UNCHANGED <<values, initialized, repeat, emitted>>

\* How the run ends before or at this instruction, if it does.
Outcome ==
    IF ~(Fetched /\ Can) THEN "fault"
    ELSE IF ByZero THEN "divided_by_zero"
    ELSE IF CanEnd THEN "done" ELSE "running"

Halt ==
    /\ status = "running" /\ Outcome # "running"
    /\ status' = Outcome
    /\ executed' = IF Outcome = "fault" THEN executed ELSE executed + 1
    /\ UNCHANGED <<program, values, initialized, pc, bound, repeat, emitted>>

Next ==
    \/ Load \/ Refuse
    \/ Const \/ Compute \/ RepeatEnter \/ RepeatNext \/ Emit \/ Branch \/ Jump
    \/ Halt

Spec == Init /\ [][Next]_vars

\* scalar_output_value of a finished run.
Output == {values[s] : s \in emitted}

-----------------------------------------------------------------------------

TypeOK ==
    /\ IsBytecode(program)
    /\ status \in {"loading", "running", "refused", "done", "divided_by_zero", "fault"}
    /\ values \in [Slots -> U32] /\ initialized \subseteq Slots
    /\ pc \in Nat /\ executed \in 0..MaxSteps /\ bound <= MaxSteps
    /\ repeat_enter_pc \in Nat \cup {None} /\ repeat_remaining \in 0..MaxRepeat
    /\ emitted \subseteq initialized

\* The slots an instruction reads or writes.
Touched(ins) ==
    IF ins.op \in Arith \cup Compare \cup Set THEN {ins.a, ins.b, ins.flags}
    ELSE IF ins.op \in {"CONST", "U32_EMIT", "BOOL_EMIT", "JUMP_IF_FALSE"} THEN {ins.a}
    ELSE {}

\* No instruction of an accepted program indexes values or initialized
\* beyond scalar_count: the VM has no check of its own (vm.c:830).
SlotsInBounds == Fetched => \A s \in Touched(Ins) : s < program.scalars

\* An accepted program runs to END or to a division by zero.
AcceptedNeverFails == status # "fault"

\* The bound computed before the run (16 steps in test_bounded_repeat.c) is
\* what a program without jumps executes.
JumpFree(bc) == \A i \in Pcs(bc) : bc.code[i].op \notin {"JUMP", "JUMP_IF_FALSE"}
BoundIsExact == status = "done" /\ JumpFree(program) => executed = bound

\* A file of bytecode says one program and a program has one file, whatever
\* the program: the decoder (qbc.c:1480) accepts what the encoder writes of any
\* program the VM accepts, and nothing else, so the digest of the program that
\* vm.c:162 encodes once more is the digest of the file.
FormatIsExact == status = "loading" => SurvivesStorage(program) /\ Canonical(program)

\* One instruction outside repeats computes each slot, as in what the compiler
\* makes of distinct variables.
AssignedOnce(bc) ==
    \A i, j \in Pcs(bc) :
        /\ bc.code[i].op \in {"CONST"} \cup Arith \cup Compare
        /\ bc.code[j].op \in {"CONST"} \cup Arith \cup Compare
        /\ bc.code[i].a = bc.code[j].a
        => i = j

\* The output, read at END, is the value the program means by its emit.  A
\* division by zero ends the run only if it leaves the program without a value;
\* or if it stands behind the emit, where the validator lets it pass.
ResultIsMeaning ==
    /\ status = "done" /\ AssignedOnce(program) => Output = {Meaning(program, <<>>)}
    /\ status = "divided_by_zero" /\ emitted = {} => Meaning(program, <<>>) = Undefined
=============================================================================
