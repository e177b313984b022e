----------------------------- MODULE MCScalarVM -----------------------------
(***************************************************************************)
(* Families of bytecode for the plain VM: skeletons with free operands and *)
(* targets, most of them refused by the validator.                         *)
(***************************************************************************)
EXTENDS ScalarVM, Sequences

I(op, a, b, f, imm) == [op |-> op, a |-> a, b |-> b, flags |-> f, imm |-> imm]

Bytecode(seq, scalars, bools) ==
    [code |-> [i \in 0..(Len(seq) - 1) |-> seq[i + 1]], main |-> 0, functions |-> <<>>,
     scalars |-> scalars, bools |-> bools, inputs |-> 0]

\* Two constants and a repeat of two assignments.
Repeats ==
    {Bytecode(<<I("CONST", 0, 0, 0, 2), I("CONST", c, 0, 0, 1),
                I("REPEAT_ENTER", k, 0, 0, 6),
                I(op, a, b, 1, 0), I("SET_SUB", 1, 1, f, 0),
                I("REPEAT_NEXT", 0, 0, 0, enter),
                I("U32_EMIT", e, 0, 0, 0), I("END", 0, 0, 0, 0)>>, 2, {}) :
        c \in 0..1, k \in 0..(MaxRepeat + 1), op \in {"SET_ADD", "SET_MUL", "SET_DIV"},
        a, b, f, e \in 0..2, enter \in 2..3}

\* What may stand behind a branch in any place and order.
Anything ==
    {I("U32_EMIT", 0, 0, 0, 0), I("BOOL_EMIT", 2, 0, 0, 0), I("U32_EMIT", 3, 0, 0, 0),
     I("ADD", 3, 0, 1, 0), I("SUB", 3, 0, 1, 0), I("JUMP", 0, 0, 0, 7),
     I("JUMP", 0, 0, 0, 8)}

Branching(n, tail) ==
    Bytecode(<<I("CONST", 0, 0, 0, 2), I("CONST", 1, 0, 0, 1)>> \o tail, n, {2})

\* A branch taken or not, its target free, and four free instructions; the
\* last slot they use may be one too many.
Branches ==
    {Branching(bn[2], <<I("GE", 2, bn[1], 1 - bn[1], 0), I("JUMP_IF_FALSE", 2, 0, 0, else),
                        w, x, y, z, I("END", 0, 0, 0, 0)>>) :
        bn \in {<<0, 4>>, <<1, 4>>, <<0, 3>>}, else \in {3, 6, 7, 8},
        w, x, y, z \in Anything}

\* A slot assigned on one path, emitted, and assigned again where the paths
\* meet: bytecode no source program compiles to.
Reassigned ==
    {Branching(4, <<I("GE", 2, b, 1 - b, 0), I("JUMP_IF_FALSE", 2, 0, 0, 7),
                 I("ADD", 3, 0, 1, 0), I("U32_EMIT", 3, 0, 0, 0), I("JUMP", 0, 0, 0, 8),
                 I("U32_EMIT", e, 0, 0, 0), I("SUB", 3, 0, 1, 0), I("END", 0, 0, 0, 0)>>) :
        b \in 0..1, e \in {0, 3}}

\* No branch: a comparison or not, of declared type or not, or a JUMP.
Straight ==
    {Bytecode(<<I("CONST", 0, 0, 0, 2), I("CONST", 1, 0, 0, 1), x, I(emit, e, 0, 0, 0),
                I("END", 0, 0, 0, 0)>>, n, bools) :
        x \in {I(op, 2, 1, 0, 0) : op \in {"ADD", "LT", "SET_ADD"}} \cup {I("JUMP", 0, 0, 0, 3)},
        emit \in {"U32_EMIT", "BOOL_EMIT"}, e \in 0..3, n \in 2..4, bools \in {{}, {1}, {2}}}

\* A division, by zero or not, before the emit or behind it.
Divisions ==
    {Bytecode(<<I("CONST", 0, 0, 0, 2), I("CONST", 1, 0, 0, c)>> \o lines
              \o <<I("END", 0, 0, 0, 0)>>, 3, {}) :
        c \in 0..1,
        lines \in {<<I("DIV", 2, 0, 1, 0), I("U32_EMIT", e, 0, 0, 0)>> : e \in {0, 2}}
            \cup {<<I("U32_EMIT", 0, 0, 0, 0), I("DIV", 2, 0, 1, 0)>>}}

Family == Repeats \cup Branches \cup Reassigned \cup Straight \cup Divisions
=============================================================================
