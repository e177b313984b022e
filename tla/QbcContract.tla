---------------------------- MODULE QbcContract ----------------------------
(***************************************************************************)
(* What src/qbc.c requires of typed scalar bytecode before the VM runs it: *)
(* the contracts of plain, repeat, function and runtime-input programs,    *)
(* and the static bound on executed instructions.                          *)
(*                                                                         *)
(* bc.code is a function on 0..n-1; an instruction is a record with fields *)
(* op, a, b, flags, imm.  bc.functions is a function on 0..k-1.  A set of  *)
(* slots stands for a mask.  REPEAT_ENTER has its count in a (b is the     *)
(* high byte in the code).  The header fields of a scalar program (qubits, *)
(* capabilities, shots, seed) are constants and left out, and so are the   *)
(* digests of the input names.                                             *)
(***************************************************************************)
EXTENDS U32Arithmetic, FiniteSetsExt

CONSTANTS MaxScalars, MaxFunctions, MaxInputs, MaxCallDepth, MaxRepeat, MaxSteps

ASSUME LimitsAssumption ==
    /\ MaxScalars \in Nat \ {0} /\ MaxFunctions \in Nat /\ MaxInputs \in Nat
    /\ MaxCallDepth \in Nat \ {0} /\ MaxRepeat \in Nat \ {0} /\ MaxSteps \in Nat

MaxParams == 2

Size(bc) == Cardinality(DOMAIN bc.code)
Pcs(bc) == DOMAIN bc.code

Opcodes ==
    {"CONST", "CALL", "RETURN", "REPEAT_ENTER", "REPEAT_NEXT", "JUMP",
     "JUMP_IF_FALSE", "U32_EMIT", "BOOL_EMIT", "END"} \cup Arith \cup Compare \cup Set

Instruction == [op : Opcodes, a : Nat, b : Nat, flags : Nat, imm : Nat]
Function == [entry : Nat, end : Nat, scalars : Nat, params : Nat]

\* What the decoder returns: operands are unsigned, constants 32 bits wide.
IsBytecode(bc) ==
    /\ Size(bc) \in Nat \ {0} /\ bc.code \in [0..(Size(bc) - 1) -> Instruction]
    /\ \A i \in Pcs(bc) : bc.code[i].op = "CONST" => bc.code[i].imm \in U32
    /\ Cardinality(DOMAIN bc.functions) \in Nat
    /\ bc.functions \in [0..(Cardinality(DOMAIN bc.functions) - 1) -> Function]
    /\ bc.main \in Nat /\ bc.scalars \in Nat /\ bc.inputs \in Nat

HasFunctions(bc) == bc.functions # <<>>
HasRepeat(bc) == \E pc \in Pcs(bc) : bc.code[pc].op \in {"REPEAT_ENTER", "REPEAT_NEXT"}

-----------------------------------------------------------------------------
(* One instruction, given what the validator knows before it: the number   *)
(* of slots n, the initialized ones and the bool ones.                     *)

Known(n, init, bools) == [n |-> n, init |-> init, bools |-> bools]

Blank(ins, fields) == \A f \in fields : ins[f] = 0

\* Mutant of Fresh: any slot will do.
FreshUnbounded(ins, s) == ins.a \notin s.init

Fresh(ins, s) == ins.a < s.n /\ ins.a \notin s.init
Reads(ins, fields, s) ==
    \A f \in fields : ins[f] < s.n /\ ins[f] \in s.init /\ ins[f] \notin s.bools

After(ins, s) ==
    [s EXCEPT !.init = @ \cup {ins.a},
              !.bools = IF ins.op \in Compare THEN @ \cup {ins.a} ELSE @ \ {ins.a}]

ConstOK(ins, s) == ins.op = "CONST" /\ Fresh(ins, s) /\ Blank(ins, {"b", "flags"})

BinaryOK(ins, ops, s) ==
    /\ ins.op \in ops
    /\ Fresh(ins, s) /\ Reads(ins, {"b", "flags"}, s) /\ Blank(ins, {"imm"})

SetOK(ins, s) ==
    ins.op \in Set /\ Reads(ins, {"a", "b", "flags"}, s) /\ Blank(ins, {"imm"})

ReturnOK(ins, s) ==
    ins.op = "RETURN" /\ Reads(ins, {"a"}, s) /\ Blank(ins, {"b", "flags", "imm"})

\* The destination counts as initialized when the arguments are looked at.
CallOK(bc, ins, s) ==
    /\ ins.op = "CALL"
    /\ ins.imm \in DOMAIN bc.functions
    /\ Fresh(ins, s)
    /\ LET params == bc.functions[ins.imm].params
           t == [s EXCEPT !.init = @ \cup {ins.a}]
       IN  /\ params <= MaxParams
           /\ IF params >= 1 THEN Reads(ins, {"b"}, t) ELSE Blank(ins, {"b"})
           /\ IF params = 2 THEN Reads(ins, {"flags"}, t) ELSE Blank(ins, {"flags"})

\* What main and functions have in common.
LineOK(bc, ins, s) == ConstOK(ins, s) \/ BinaryOK(ins, Arith, s) \/ CallOK(bc, ins, s)

-----------------------------------------------------------------------------
(* Functions *)

RepeatOK(bc, fn, pc, s) ==
    LET ins == bc.code[pc]
        next == bc.code[ins.imm - 1]
    IN  /\ ins.a \in 1..MaxRepeat /\ Blank(ins, {"b", "flags"})
        /\ ins.imm > pc + 2 /\ ins.imm < fn.end
        /\ next.op = "REPEAT_NEXT" /\ Blank(next, {"a", "b", "flags"}) /\ next.imm = pc
        /\ \A i \in (pc + 1)..(ins.imm - 2) : SetOK(bc.code[i], s)

BranchOK(bc, from, to, s) ==
    \A pc \in from..(to - 1) :
        SetOK(bc.code[pc], s) \/ (ReturnOK(bc.code[pc], s) /\ pc = to - 1)

Returns(bc, from, to) == from < to /\ bc.code[to - 1].op = "RETURN"

\* Both branches of the JUMP_IF_FALSE at pc return.
BothReturn(bc, pc) ==
    LET else == bc.code[pc].imm
    IN  Returns(bc, pc + 1, else - 1) /\ Returns(bc, else, bc.code[else - 1].imm)

IfOK(bc, fn, pc, s) ==
    LET ins == bc.code[pc]
        jump == bc.code[ins.imm - 1]
    IN  /\ ins.a < s.n /\ ins.a \in s.init /\ ins.a \in s.bools
        /\ Blank(ins, {"b", "flags"})
        /\ ins.imm > pc + 1 /\ ins.imm < fn.end
        /\ jump.op = "JUMP" /\ Blank(jump, {"a", "b", "flags"})
        /\ jump.imm >= ins.imm /\ jump.imm < fn.end
        /\ BranchOK(bc, pc + 1, ins.imm - 1, s)
        /\ BranchOK(bc, ins.imm, jump.imm, s)

\* What the scan of a function knows: the slots in use and their types.
States(slots, bools) == [n : {slots}, init : SUBSET (0..(slots - 1)), bools : bools]

\* BodyScan(bc, fn)[<<pc, s>>]: the code from pc on passes, when s is known
\* before it.
BodyScan(bc, fn) ==
    LET Scan[at \in (fn.entry..fn.end) \X States(fn.scalars, SUBSET (0..(fn.scalars - 1)))] ==
            LET pc == at[1]
                s == at[2]
                ins == bc.code[pc]
            IN  /\ pc < fn.end
                /\ CASE ins.op = "RETURN" -> ReturnOK(ins, s) /\ pc + 1 = fn.end
                     [] ins.op = "REPEAT_ENTER" ->
                          RepeatOK(bc, fn, pc, s) /\ Scan[<<ins.imm, s>>]
                     [] ins.op \in Set -> SetOK(ins, s) /\ Scan[<<pc + 1, s>>]
                     [] ins.op = "JUMP_IF_FALSE" ->
                          /\ IfOK(bc, fn, pc, s)
                          /\ LET join == bc.code[ins.imm - 1].imm
                             IN  IF BothReturn(bc, pc)
                                 THEN join + 1 = fn.end /\ ReturnOK(bc.code[join], s)
                                 ELSE Scan[<<join, s>>]
                     [] OTHER ->
                          /\ LineOK(bc, ins, s) \/ BinaryOK(ins, Compare, s)
                          /\ Scan[<<pc + 1, After(ins, s)>>]
    IN  Scan

BodyOK(bc, fn) ==
    BodyScan(bc, fn)[<<fn.entry, Known(fn.scalars, 0..(fn.params - 1), {})>>]

RangeOK(bc, fn) ==
    /\ fn.entry < fn.end /\ fn.end <= bc.main
    /\ fn.scalars \in 1..MaxScalars /\ fn.params \in 0..MaxParams
    /\ fn.params <= fn.scalars

\* Functions fill the code before main, in order.
FunctionsOK(bc) ==
    LET k == Cardinality(DOMAIN bc.functions)
        entry(f) == IF f = 0 THEN 0 ELSE bc.functions[f - 1].end
    IN  /\ k <= MaxFunctions
        /\ \A f \in 0..(k - 1) :
            /\ bc.functions[f].entry = entry(f)
            /\ RangeOK(bc, bc.functions[f]) /\ BodyOK(bc, bc.functions[f])
        /\ bc.main = entry(k)

Calls(bc, f) ==
    {bc.code[pc].imm : pc \in {i \in bc.functions[f].entry..(bc.functions[f].end - 1) :
                                  bc.code[i].op = "CALL"}}

\* CallChains(bc)[k]: the functions at which a chain of k calls starts.
CallChains(bc) ==
    LET Chain[k \in 1..(MaxCallDepth + 1)] ==
            IF k = 1 THEN DOMAIN bc.functions
            ELSE {f \in DOMAIN bc.functions : Calls(bc, f) \cap Chain[k - 1] # {}}
    IN  Chain

\* No chain of calls is longer than MaxCallDepth; recursion has chains of
\* every length.
DepthOK(bc) == CallChains(bc)[MaxCallDepth + 1] = {}

MainScan(bc) ==
    LET last == Size(bc) - 1
        Scan[at \in Pcs(bc) \X States(bc.scalars, {{}})] ==
            LET pc == at[1]
                s == at[2]
                ins == bc.code[pc]
            IN  /\ pc < last
                /\ CASE ins.op = "U32_EMIT" ->
                          /\ Reads(ins, {"a"}, s) /\ Blank(ins, {"b", "flags", "imm"})
                          /\ pc + 1 = last
                     [] OTHER -> LineOK(bc, ins, s) /\ Scan[<<pc + 1, After(ins, s)>>]
    IN  Scan

MainOK(bc) ==
    LET last == Size(bc) - 1
    IN  /\ bc.code[last].op = "END" /\ Blank(bc.code[last], {"a", "b", "flags", "imm"})
        /\ MainScan(bc)[<<bc.main, Known(bc.scalars, 0..(bc.inputs - 1), {})>>]

MainCalls(bc) == {pc \in bc.main..(Size(bc) - 1) : bc.code[pc].op = "CALL"}

\* Mutant of RepeatCost: ENTER counts twice.
RepeatCostPlusOne(ins, pc) == ins.a * (ins.imm - pc + 1)

\* ENTER, the body and NEXT of the repeat at pc.
RepeatCost(ins, pc) == ins.a * (ins.imm - pc)

\* Mutant of IfCost: the JUMP behind the first branch is free.
IfCostWithoutJump(bc, pc, rest) ==
    LET else == bc.code[pc].imm
        join == bc.code[else - 1].imm
    IN  Max({else - pc - 2 + IF Returns(bc, pc + 1, else - 1) THEN 0 ELSE rest,
             join - else + IF Returns(bc, else, join) THEN 0 ELSE rest})

\* The branches of the JUMP_IF_FALSE at pc, when what follows them costs rest.
\* A branch that does not return goes on behind them, the first one by a JUMP.
IfCost(bc, pc, rest) ==
    LET else == bc.code[pc].imm
        join == bc.code[else - 1].imm
    IN  Max({else - pc - 2 + IF Returns(bc, pc + 1, else - 1) THEN 0 ELSE 1 + rest,
             join - else + IF Returns(bc, else, join) THEN 0 ELSE rest})

\* The most instructions a function executes from pc on, calls included.
CostFrom(bc) ==
    LET Cost[pc \in 0..(bc.main - 1)] ==
            LET ins == bc.code[pc]
            IN  CASE ins.op = "RETURN" -> 1
                  [] ins.op = "REPEAT_ENTER" -> RepeatCost(ins, pc) + Cost[ins.imm]
                  [] ins.op = "JUMP_IF_FALSE" ->
                       1 + IfCost(bc, pc, IF BothReturn(bc, pc) THEN 0
                                          ELSE Cost[bc.code[ins.imm - 1].imm])
                  [] ins.op = "CALL" ->
                       1 + Cost[bc.functions[ins.imm].entry] + Cost[pc + 1]
                  [] OTHER -> 1 + Cost[pc + 1]
    IN  Cost

\* The instructions main executes from pc on, calls included.
MainCost(bc) ==
    LET cost == CostFrom(bc)
        Cost[pc \in bc.main..Size(bc)] ==
            LET ins == bc.code[pc]
            IN  IF pc = Size(bc) THEN 0
                ELSE 1 + (IF ins.op = "CALL" THEN cost[bc.functions[ins.imm].entry] ELSE 0)
                       + Cost[pc + 1]
    IN  Cost

FunctionBound(bc) == MainCost(bc)[bc.main]

FunctionContract(bc) ==
    /\ bc.scalars \in 1..MaxScalars /\ bc.bools = {}
    /\ bc.main < Size(bc) - 1
    /\ IF bc.inputs > 0
       THEN bc.inputs <= MaxInputs /\ bc.inputs <= bc.scalars /\ Size(bc) >= 2
       ELSE HasFunctions(bc) /\ Size(bc) >= 4 /\ MainCalls(bc) # {}
    /\ FunctionsOK(bc) /\ DepthOK(bc) /\ MainOK(bc)
    /\ FunctionBound(bc) <= MaxSteps

-----------------------------------------------------------------------------
(* Programs without functions and inputs: every slot has one type, bc.bools. *)

TypedOK(bc, ins, init) ==
    LET s == Known(bc.scalars, init, bc.bools)
    IN  \/ ins.a \notin bc.bools /\ (ConstOK(ins, s) \/ BinaryOK(ins, Arith, s))
        \/ ins.a \in bc.bools /\ BinaryOK(ins, Compare, s)

EmitOK(bc, ins, init) ==
    /\ ins.op = IF ins.a \in bc.bools THEN "BOOL_EMIT" ELSE "U32_EMIT"
    /\ ins.a < bc.scalars /\ ins.a \in init
    /\ Blank(ins, {"b", "flags", "imm"})

At(bc, op) == {pc \in Pcs(bc) : bc.code[pc].op = op}
Defined(bc, from, to) == {bc.code[pc].a : pc \in from..(to - 1)}
AllSlots(bc) == 0..(bc.scalars - 1)
EndOK(bc, pc) == bc.code[pc].op = "END" /\ Blank(bc.code[pc], {"a", "b", "flags", "imm"})

\* Straight code, one repeat, an emit and END.
RepeatContract(bc) ==
    /\ Size(bc) >= 6
    /\ At(bc, "JUMP") \cup At(bc, "JUMP_IF_FALSE") = {}
    /\ \E enter, next \in Pcs(bc) :
        /\ At(bc, "REPEAT_ENTER") = {enter} /\ At(bc, "REPEAT_NEXT") = {next}
        /\ bc.code[enter].a \in 1..MaxRepeat /\ Blank(bc.code[enter], {"b", "flags"})
        /\ next > enter + 1 /\ bc.code[enter].imm = next + 1
        /\ Blank(bc.code[next], {"a", "b", "flags"}) /\ bc.code[next].imm = enter
        /\ next + 3 = Size(bc)
        /\ \A pc \in 0..(enter - 1) : TypedOK(bc, bc.code[pc], Defined(bc, 0, pc))
        /\ AllSlots(bc) \subseteq Defined(bc, 0, enter)
        /\ \A pc \in (enter + 1)..(next - 1) :
            SetOK(bc.code[pc], Known(bc.scalars, AllSlots(bc), bc.bools))
        /\ EmitOK(bc, bc.code[next + 1], AllSlots(bc))
        /\ EndOK(bc, next + 2)

Successors(bc, pc) ==
    LET ins == bc.code[pc]
    IN  CASE ins.op = "JUMP" -> {ins.imm}
          [] ins.op = "JUMP_IF_FALSE" -> {pc + 1, ins.imm}
          [] OTHER -> {pc + 1}

Predecessors(bc, pc) == {i \in 0..(pc - 1) : pc \in Successors(bc, i)}

\* Mutant of Joined: one path is enough.
JoinedAny(bc, paths) ==
    [init |-> UNION {p.init : p \in paths},
     emit |-> UNION {p.emit : p \in paths},
     types |-> UNION {p.types : p \in paths}]

\* What is known where paths with knowledge paths meet: the slots initialized
\* on all of them; whether some emit and some do not; the types emitted.
Joined(bc, paths) ==
    [init |-> {a \in AllSlots(bc) : \A p \in paths : a \in p.init},
     emit |-> UNION {p.emit : p \in paths},
     types |-> UNION {p.types : p \in paths}]

Flow(bc) ==
    LET In[pc \in Pcs(bc)] ==
            LET Out(i) ==
                    LET ins == bc.code[i]
                    IN  CASE ins.op \in {"CONST"} \cup Arith \cup Compare ->
                               [In[i] EXCEPT !.init = @ \cup {ins.a}]
                          [] ins.op \in {"U32_EMIT", "BOOL_EMIT"} ->
                               [In[i] EXCEPT !.emit = {TRUE}, !.types = {ins.op}]
                          [] OTHER -> In[i]
            IN  IF pc = 0 THEN [init |-> {}, emit |-> {FALSE}, types |-> {}]
                ELSE Joined(bc, {Out(i) : i \in Predecessors(bc, pc)})
    IN  In

FlowContract(bc) ==
    LET last == Size(bc) - 1
        In == Flow(bc)
        computes == {pc \in Pcs(bc) : bc.code[pc].op \in {"CONST"} \cup Arith \cup Compare}
        StepOK(pc) ==
            LET ins == bc.code[pc]
            IN  \/ TypedOK(bc, ins, In[pc].init)
                \/ EmitOK(bc, ins, In[pc].init) /\ In[pc].emit = {FALSE}
                \/ /\ ins.op = "JUMP_IF_FALSE"
                   /\ ins.a < bc.scalars /\ ins.a \in bc.bools /\ ins.a \in In[pc].init
                   /\ Blank(ins, {"b", "flags"}) /\ ins.imm \in (pc + 1)..last
                \/ /\ ins.op = "JUMP"
                   /\ Blank(ins, {"a", "b", "flags"}) /\ ins.imm \in (pc + 1)..last
    IN  /\ Size(bc) >= 3
        /\ \A pc \in 1..last : Predecessors(bc, pc) # {}
        /\ \A pc \in 0..(last - 1) : StepOK(pc)
        /\ EndOK(bc, last)
        /\ In[last].emit = {TRUE} /\ Cardinality(In[last].types) = 1
        /\ AllSlots(bc) \subseteq {bc.code[pc].a : pc \in computes}

PlainBound(bc) ==
    IF HasRepeat(bc)
    THEN LET enter == CHOOSE pc \in Pcs(bc) : bc.code[pc].op = "REPEAT_ENTER"
         IN  Size(bc) + RepeatCost(bc.code[enter], enter) - (bc.code[enter].imm - enter)
    ELSE Size(bc)

PlainContract(bc) ==
    /\ bc.scalars \in 1..MaxScalars /\ bc.bools \subseteq AllSlots(bc)
    /\ IF HasRepeat(bc) THEN RepeatContract(bc) ELSE FlowContract(bc)
    /\ PlainBound(bc) <= MaxSteps

-----------------------------------------------------------------------------

RunsWithFrames(bc) == bc.inputs > 0 \/ HasFunctions(bc)

IsTypedScalarProgram(bc) ==
    IF RunsWithFrames(bc) THEN FunctionContract(bc) ELSE PlainContract(bc)

ExecutionStepBound(bc) == IF RunsWithFrames(bc) THEN FunctionBound(bc) ELSE PlainBound(bc)
=============================================================================
