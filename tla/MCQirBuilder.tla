---------------------------- MODULE MCQirBuilder ----------------------------
(***************************************************************************)
(* Families of source programs: skeletons with free names, branches and    *)
(* tails, many of them refused; and what compiling them must preserve.     *)
(***************************************************************************)
EXTENDS QirBuilder, SourceMeaning

Let(x, v) == [kind |-> "CONST", out |-> x, value |-> v]
Op(op, x, y, z) == [kind |-> op, out |-> x, left |-> y, right |-> z]
CallTo(x, f, args) == [kind |-> "CALL", out |-> x, function |-> f, args |-> args]
ReturnOf(x) == [kind |-> "RETURN", name |-> x]
EmitOf(x) == [kind |-> "EMIT", name |-> x]
IfElse(c, t, e) == [kind |-> "IF", condition |-> c, then |-> t, else |-> e]
RepeatOf(n, body) == [kind |-> "REPEAT", count |-> n, body |-> body]

FunctionOf(name, params, body) == [name |-> name, params |-> params, body |-> body]
Source(fns, inputs, statements) == [functions |-> fns, inputs |-> inputs, main |-> statements]

-----------------------------------------------------------------------------

\* Branches of a function: they fall through, return, or are refused.
FunctionBranches ==
    {<<>>, <<ReturnOf("a")>>, <<Op("SET_SUB", "a", "b", "a")>>,
     <<Op("SET_DIV", "b", "a", "b"), ReturnOf("b")>>,
     <<ReturnOf("a"), Op("SET_ADD", "a", "a", "b")>>, <<Op("ADD", "d", "a", "b")>>}

FunctionTails ==
    {<<>>, <<ReturnOf("a")>>, <<ReturnOf("c")>>,
     <<Op("MUL", "d", "a", "b"), ReturnOf("d")>>,
     <<RepeatOf(2, <<Op("SET_ADD", "b", "b", "a"), Op("SET_SUB", "a", "a", "b")>>), ReturnOf("b")>>,
     <<IfElse("c", <<ReturnOf("b")>>, <<ReturnOf("a")>>)>>}

\* One function with a branch, called with two inputs or two constants.
Branches ==
    {Source(<<FunctionOf("f", <<"a", "b">>,
                <<Op("LT", "c", x, "b"), IfElse(cond, t, e)>> \o tail)>>, i[1], i[2]) :
        x \in {"a", "b"}, cond \in {"c", "a"}, t, e \in FunctionBranches,
        tail \in FunctionTails,
        i \in {<<<<"x", "y">>, <<CallTo("r", "f", <<"y", "x">>), EmitOf("r")>>>>,
               <<<<>>, <<Let("y", 3), CallTo("r", "f", <<"y", "y">>), EmitOf("r")>>>>}}

Repeats ==
    {Source(<<FunctionOf("f", <<"a">>,
                <<Let("b", 1), RepeatOf(n, body), ReturnOf(r)>>)>>, <<"x">>,
            <<CallTo("r", "f", <<"x">>), EmitOf("r")>>) :
        n \in 0..(MaxRepeat + 1), r \in {"a", "b", "z"},
        body \in {<<>>, <<Op("SET_ADD", "a", "a", "b")>>,
                  <<Op("SET_MUL", "a", "a", "a"), Op("SET_SUB", "b", "b", "a")>>,
                  <<ReturnOf("a")>>, <<Op("SET_ADD", "z", "a", "b")>>}}

\* Functions that call each other, called before or after they are declared.
CallGraphs ==
    {Source(<<FunctionOf("f", <<>>, <<Let("a", 3), s, ReturnOf("r")>>),
              FunctionOf("g", <<"a">>, <<t, ReturnOf("r")>>),
              FunctionOf("h", <<"a", "b">>, <<u, ReturnOf("r")>>)>>,
            <<"x">>, <<v, EmitOf("o")>>) :
        s \in {Op("ADD", "r", "a", "a"), CallTo("r", "h", <<"a", "a">>), CallTo("r", "f", <<>>)},
        t \in {Op("DIV", "r", "a", "a"), CallTo("r", "h", <<"a", "a">>),
               CallTo("r", "f", <<>>), CallTo("a", "f", <<>>)},
        u \in {Op("SUB", "r", "a", "b"), CallTo("r", "g", <<"b">>), CallTo("r", "g", <<"a", "b">>)},
        v \in {CallTo("o", "g", <<"x">>), CallTo("o", "f", <<>>), CallTo("o", "h", <<"x", "o">>),
               CallTo("o", "k", <<>>), Op("MUL", "o", "x", "x")}}

\* Branches of main, which have variables of their own and emit.
MainBranches ==
    {<<EmitOf("a")>>, <<Op("ADD", "d", "a", "b"), EmitOf("d")>>,
     <<Op("GE", "d", "b", "a"), EmitOf("d")>>, <<EmitOf("c")>>, <<EmitOf("d")>>,
     <<Op("MUL", "e", "b", "b"), Op("DIV", "d", "e", "a"), EmitOf("d")>>,
     <<Op("SUB", "e", "d", "a"), EmitOf("e")>>, <<Let("d", 1)>>,
     <<EmitOf("a"), Let("d", 1)>>, <<Op("SET_ADD", "a", "a", "b"), EmitOf("a")>>}

Plain ==
    {Source(<<>>, <<>>,
            <<Let("a", v), Let("b", 2), Op(cmp, "c", "a", "b"), IfElse(cond, t, e)>> \o tail) :
        v \in {0, 3}, cmp \in {"EQ", "GT"}, cond \in {"a", "c"}, t, e \in MainBranches,
        tail \in {<<>>, <<Let("z", 1)>>}}

PlainRepeats ==
    {Source(<<>>, <<>>,
            <<Let("a", 3), y, RepeatOf(n, body)>> \o tail) :
        y \in {Let("b", 2), Op("EQ", "b", "a", "a"), Let("a", 1)}, n \in {0, 2, 3, 4},
        body \in {<<>>, <<Op("SET_SUB", "a", "a", "b")>>,
                  <<Op("SET_ADD", "b", "a", "b"), Op("SET_DIV", "a", "a", "b")>>},
        tail \in {<<>>, <<EmitOf("a")>>, <<EmitOf("b")>>, <<Let("z", 1), EmitOf("z")>>,
                  <<EmitOf("a"), Op("MUL", "z", "a", "a")>>}}

\* A result is emitted, and something follows: a plain program may go on with
\* new variables, one with inputs may not, and neither with anything else.
Trailers ==
    {Source(<<>>, i, <<Let("a", 1), x, EmitOf(y)>> \o tail) :
        i \in {<<>>, <<"b">>}, x \in {Let("b", 2), Op("EQ", "c", "a", "a"), Let("d", 0)},
        y \in {"a", "c"},
        tail \in {<<>>, <<Let("e", 1)>>, <<Op("ADD", "e", "a", "b")>>, <<EmitOf("a")>>,
                  <<Op("LT", "e", "a", "a")>>, <<Op("DIV", "e", "a", "d")>>,
                  <<Let("e", 1), Op("GE", "f", "e", "b")>>, <<Op("ADD", "e", "a", "c")>>,
                  <<Let("e", 1), EmitOf("e")>>,
                  <<RepeatOf(1, <<Op("SET_ADD", "a", "a", "a")>>), EmitOf("a")>>,
                  <<IfElse("c", <<EmitOf("a")>>, <<EmitOf("a")>>)>>}}

\* As many instructions as fit, one less, one and two more.
Longest ==
    {Source(<<>>, <<>>,
            <<Let("a", 1), RepeatOf(1, [i \in 1..n |-> Op("SET_ADD", "a", "a", "a")]),
              EmitOf("a")>>) : n \in (MaxInstructions - 5)..(MaxInstructions - 2)}

Family ==
    UNION {Branches, Repeats, CallGraphs, Plain, PlainRepeats, Trailers, Longest}

-----------------------------------------------------------------------------

Patient == INSTANCE QbcContract WITH MaxSteps <- 1000

\* The one known gap: END as the instruction after the last one that fits
\* (qir.c:2365).
NoRoomForEnd == Len(qir) = MaxInstructions

\* What the builder accepts and lowers, the validator accepts, but for its
\* bound on executed instructions and that gap; QN-E7594 and QN-E7566 are not
\* reached.  (qir.c:1592 qn_qir_build and qbc.c:1112 check the same rules in
\* two ways: scopes here, masks and jump targets there; what may follow an emit
\* is decided in both, at qir.c:1989, 2054 and 2161 and at qbc.c:1190.)
BuiltIsAccepted ==
    status \in {"compiled", "rejected"} /\ ~NoRoomForEnd =>
        /\ Patient!IsTypedScalarProgram(bytecode)
        /\ status = "compiled" => IsTypedScalarProgram(bytecode)

\* Compiled bytecode computes what the source says, for all inputs: slots stand
\* for the names in scope, jumps for branches and repeats, indices for
\* functions.
MeaningPreserved ==
    status = "compiled" /\ Accepted(bytecode) =>
        \A given \in [0..(bytecode.inputs - 1) -> U32] :
            Meaning(bytecode, given) = SourceValue(source, given)

\* Building a file and executing it is running the source: the decoder returns
\* the program that was compiled, if the VM would run it, and refuses it
\* otherwise.  (qbc.c:1373 and :1480 know nine versions of the format, and
\* which opcode may stand where in each.)
StoredAsCompiled ==
    status = "compiled" =>
        Decode(Encode(bytecode)) = IF Accepted(bytecode) THEN {bytecode} ELSE {}
=============================================================================
