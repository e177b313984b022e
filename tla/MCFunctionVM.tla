---------------------------- MODULE MCFunctionVM ----------------------------
(***************************************************************************)
(* Families of bytecode for the function VM: skeletons of function bodies  *)
(* and mains whose operands, counts and targets are chosen freely, most of *)
(* them refused by the validator.                                          *)
(***************************************************************************)
EXTENDS FunctionVM, SequencesExt

I(op, a, b, f, imm) == [op |-> op, a |-> a, b |-> b, flags |-> f, imm |-> imm]
ReturnOf(a) == I("RETURN", a, 0, 0, 0)
CallOf(a, b, f, fn) == I("CALL", a, b, f, fn)
EmitEnd(a) == <<I("U32_EMIT", a, 0, 0, 0), I("END", 0, 0, 0, 0)>>

FromZero(seq) == [i \in 0..(Len(seq) - 1) |-> seq[i + 1]]

\* Functions are records body, scalars, params, in the order of their code.
Bytecode(fns, main, scalars, inputs) ==
    LET start(k) == FoldLeft(LAMBDA n, f : n + Len(f.body), 0, SubSeq(fns, 1, k))
        bodies == FoldLeft(LAMBDA code, f : code \o f.body, <<>>, fns)
    IN  [code |-> FromZero(bodies \o main), main |-> Len(bodies),
         functions |-> FromZero([k \in 1..Len(fns) |->
            [entry |-> start(k - 1), end |-> start(k),
             scalars |-> fns[k].scalars, params |-> fns[k].params]]),
         scalars |-> scalars, bools |-> {}, inputs |-> inputs]

Fn(body, scalars, params) == [body |-> body, scalars |-> scalars, params |-> params]

-----------------------------------------------------------------------------

\* Both inputs are passed, in one order or the other, or one of them twice.
Mains(dest) == {<<CallOf(dest, b, f, 0)>> \o EmitEnd(dest) : b, f \in 0..1}

\* A branch on a comparison, or on no bool, whose branches fall through or
\* return; the targets of the jumps are free.
BranchBodies ==
    {<<I(cmp, 2, 0, 1, 0), I("JUMP_IF_FALSE", c, 0, 0, else), then,
       I("JUMP", 0, 0, 0, join), otherwise, ReturnOf(r)>> :
        cmp \in {"LT", "NE"}, c \in {0, 2}, r \in 0..1, else \in 3..5, join \in 4..6,
        then \in {ReturnOf(0), I("SET_SUB", 0, 1, 0, 0), I("SET_ADD", 2, 1, 0, 0)},
        otherwise \in {ReturnOf(1), I("SET_DIV", 1, 0, 1, 0)}}

RepeatBodies ==
    {<<I("CONST", 1, 0, 0, 1), I("REPEAT_ENTER", k, 0, 0, 5),
       I(op, a, 1, 0, 0), I("SET_SUB", 1, 1, f, 0),
       I("REPEAT_NEXT", 0, 0, 0, enter), ReturnOf(r)>> :
        k \in 0..(MaxRepeat + 1), op \in {"SET_ADD", "SET_MUL", "SET_DIV"},
        a, f, r \in 0..2, enter \in 0..1}

Branches ==
    {Bytecode(<<Fn(body, 3, 2)>>, main, 3, 2) : body \in BranchBodies, main \in Mains(2)}

\* The value passed is a constant of main: a program without inputs.
Repeats ==
    {Bytecode(<<Fn(body, 2, 1)>>,
              <<I("CONST", 0, 0, 0, v), CallOf(1, 0, 0, 0)>> \o EmitEnd(e), 2, 0) :
        body \in RepeatBodies, v \in {0, 2, 3}, e \in 0..1}

\* No function at all: main computes with its inputs.
Inputs ==
    {Bytecode(<<>>, <<I(op, a, b, f, 0)>> \o EmitEnd(e), 3, 2) :
        op \in {"ADD", "DIV", "LT"}, a, b, f, e \in 1..3}

-----------------------------------------------------------------------------

\* Three functions that may call each other and themselves: one without a
\* parameter, one with one, one with two.
Calls3 ==
    {Bytecode(<<Fn(<<I("CONST", 0, 0, 0, 2), first, ReturnOf(r)>>, 2, 0),
                Fn(<<I("ADD", 1, 0, 0, 0), second, CallOf(3, x, y, callee), ReturnOf(3)>>, 4, 1),
                Fn(<<I("DIV", 2, 0, 1, 0), third, ReturnOf(3)>>, 4, 2)>>,
              <<CallOf(1, 0, 0, g), CallOf(2, 1, f, h)>> \o EmitEnd(2), 3, 1) :
        first \in {CallOf(1, 0, 0, 1), I("MUL", 1, 0, 0, 0)}, r \in 0..1,
        second \in {CallOf(2, 0, 1, 2), CallOf(2, 0, 0, 0), I("SUB", 2, 1, 0, 0)},
        x \in {0, 2, 3}, y, callee \in {0, 2},
        third \in {CallOf(3, 2, 0, 1), CallOf(3, 0, 0, 0), I("SUB", 3, 2, 0, 0)},
        g, h \in 0..2, f \in 0..1}

\* The first call of main has its own result as an argument.
SelfArgument ==
    {Bytecode(<<Fn(<<I("ADD", 1, 0, 0, 0), ReturnOf(1)>>, 2, 1)>>,
              <<CallOf(1, b, 0, 0)>> \o EmitEnd(1), 2, 1) : b \in 0..1}

Family == Branches \cup Repeats \cup Inputs \cup Calls3 \cup SelfArgument
=============================================================================
