--------------------------- MODULE ScalarMeaning ---------------------------
(***************************************************************************)
(* What a typed scalar program computes, without a machine: calls by       *)
(* recursion with the arguments' values, repeats by iteration, no frames,  *)
(* program counters to return to, or counters.                             *)
(***************************************************************************)
EXTENDS QbcContract

Undefined == -1     \* a value, after a division by zero
Stuck == <<>>       \* the slots, after a division by zero

Calculate(ins, env) ==
    LET x == env[ins.b]
        y == env[ins.flags]
    IN  IF ins.op = "CONST" THEN ins.imm
        ELSE IF ins.op \in Compare THEN Test(ins.op, x, y)
        ELSE IF Divides(ins.op) /\ y = 0 THEN Undefined
        ELSE Apply(ins.op, x, y)

SlotValues == [0..(MaxScalars - 1) -> U32]     \* the values of the slots

\* The slots after a line that neither calls nor jumps.
Line(ins, env) ==
    IF env = Stuck \/ Calculate(ins, env) = Undefined THEN Stuck
    ELSE [env EXCEPT ![ins.a] = Calculate(ins, env)]

\* InTurn(bc, enter, env)[pc]: the slots before the line at pc of a repeat,
\* when they are env before its body.
InTurn(bc, enter, env) ==
    LET Before[pc \in (enter + 1)..(bc.code[enter].imm - 1)] ==
            IF pc = enter + 1 THEN env ELSE Line(bc.code[pc - 1], Before[pc - 1])
    IN  Before

\* AfterTurns(bc, enter, env)[k]: the slots after k turns of a repeat.
AfterTurns(bc, enter, env) ==
    LET Turned[k \in 0..bc.code[enter].a] ==
            IF k = 0 THEN env
            ELSE InTurn(bc, enter, Turned[k - 1])[bc.code[enter].imm - 1]
    IN  Turned

\* MeaningFrom(bc)[<<pc, env>>]: what the function or main returns or emits
\* that goes on at pc with the slots env.
MeaningFrom(bc) ==
    LET Value[at \in Pcs(bc) \X SlotValues] ==
            LET pc == at[1]
                env == at[2]
                ins == bc.code[pc]
                fn == bc.functions[ins.imm]
                args == [s \in 0..(MaxScalars - 1) |->
                            CASE s = 0 /\ fn.params > 0 -> env[ins.b]
                              [] s = 1 /\ fn.params > 1 -> env[ins.flags]
                              [] OTHER -> 0]
                called == Value[<<fn.entry, args>>]
                Then(next, slots) ==
                    IF slots = Stuck THEN Undefined ELSE Value[<<next, slots>>]
            IN  CASE ins.op \in {"RETURN", "U32_EMIT", "BOOL_EMIT"} -> env[ins.a]
                  [] ins.op \in {"REPEAT_NEXT", "END"} -> Undefined
                  [] ins.op = "CALL" ->
                       IF called = Undefined THEN Undefined
                       ELSE Value[<<pc + 1, [env EXCEPT ![ins.a] = called]>>]
                  [] ins.op = "REPEAT_ENTER" ->
                       Then(ins.imm, AfterTurns(bc, pc, env)[ins.a])
                  [] ins.op = "JUMP_IF_FALSE" ->
                       Value[<<IF env[ins.a] = 0 THEN ins.imm ELSE pc + 1, env>>]
                  [] ins.op = "JUMP" -> Value[<<ins.imm, env>>]
                  [] OTHER -> Then(pc + 1, Line(ins, env))
    IN  Value

Meaning(bc, given) ==
    MeaningFrom(bc)[<<bc.main,
        [s \in 0..(MaxScalars - 1) |-> IF s \in DOMAIN given THEN given[s] ELSE 0]>>]
=============================================================================
