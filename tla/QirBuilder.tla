----------------------------- MODULE QirBuilder -----------------------------
(***************************************************************************)
(* The compiler of typed scalar programs: qn_qir_build (src/qir.c), one    *)
(* step per statement, and qn_qir_lower, which turns the typed QIR into    *)
(* the bytecode that QbcContract is about.                                 *)
(*                                                                         *)
(* A source is what the parser returns: functions, runtime inputs and the  *)
(* statements of main.  A statement is a record whose kind is the opcode   *)
(* it becomes, or IF, REPEAT, EMIT.  Quantum, vector and tensor programs,  *)
(* requires, seed and shots are left out, and so are the digest, names in  *)
(* diagnostics and failing allocations.                                    *)
(***************************************************************************)
EXTENDS QbcCodec, SequencesExt

CONSTANT Sources        \* the programs compiled

ASSUME CompilerAssumption == MaxInstructions < MaxSteps

VARIABLES
    source,
    status,     \* "unit" before a function or main, "body" in one, ...
    unit,       \* the function compiled; main comes after the last
    at,         \* the statement: its index, the block it is in, its index there
    slots,      \* the scalars declared, a name and a type each
    hidden,     \* those of the first branch of an if, while in the second
    ended,      \* "return" or the type emitted, when the block has ended
    first,      \* ended of the first branch
    mark,       \* the jump or REPEAT_ENTER whose target is not known yet (its
                \* place in qir), and the number of slots before the if
    qir, functions, main,
    graph,      \* calls of functions, as pairs
    bytecode

context == <<slots, hidden>>
position == <<source, unit, functions, main, bytecode>>
vars == <<source, status, unit, at, slots, hidden, ended, first, mark, qir,
          functions, main, graph, bytecode>>

FunctionCount == Len(source.functions)
InMain == unit > FunctionCount
Items == IF InMain THEN source.main ELSE source.functions[unit].body

\* Which of the three builders compiles main.
Mode ==
    IF source.inputs # <<>> THEN "inputs"
    ELSE IF FunctionCount > 0 \/ \E i \in DOMAIN source.main : source.main[i].kind = "CALL"
         THEN "calls"
    ELSE "plain"

Nested == at.block # "top"
Block == IF Nested THEN Items[at.item][at.block] ELSE Items
Index == IF Nested THEN at.line ELSE at.item
AtStatement == status = "body" /\ Index <= Len(Block)
AtEnd(block) == status = "body" /\ at.block = block /\ Index > Len(Block)
St == Block[Index]

Onward == [at EXCEPT !.line = IF Nested THEN @ + 1 ELSE @, !.item = IF Nested THEN @ ELSE @ + 1]
Enter(block) == [at EXCEPT !.block = block, !.line = 1]
Leave == [item |-> at.item + 1, block |-> "top", line |-> 1]

TypeOK ==
    /\ status \in {"unit", "body", "built", "compiled", "refused", "rejected"}
    /\ unit \in 1..(FunctionCount + 1)
    /\ at.block \in {"top", "then", "else", "body"}
    /\ Len(slots) <= MaxScalars /\ hidden \subseteq DOMAIN slots
    /\ \A s \in DOMAIN slots : slots[s].type \in {"u32", "bool"}
    /\ ended \in {"no", "return", "u32", "bool"} /\ first \in {"no", "return", "u32", "bool"}
    /\ mark.pc \in 0..Len(qir) /\ mark.slots \in 0..MaxScalars
    /\ Len(qir) <= MaxInstructions
    /\ main \in Nat /\ Len(functions) <= FunctionCount
    /\ graph \subseteq (DOMAIN source.functions) \X (DOMAIN source.functions)

-----------------------------------------------------------------------------
(* Scopes.  Slots are numbered from 0; names are unique among those seen.  *)

Seen == DOMAIN slots \ hidden

HasType(x, type) == \E s \in Seen : slots[s] = [name |-> x, type |-> type]
SlotOf(x) == (CHOOSE s \in Seen : slots[s].name = x) - 1

CanDeclare(x) == Len(slots) < MaxScalars /\ \A s \in Seen : slots[s].name # x
Declare(x, type) == slots' = Append(slots, [name |-> x, type |-> type])

\* QIR instructions, and the room append_qir asks for.
Q(op, out, a, b, imm) == [op |-> op, out |-> out, a |-> a, b |-> b, imm |-> imm]
Room(n) == Len(qir) + n <= MaxInstructions
Target(code, i, imm) == [code EXCEPT ![i].imm = imm]

-----------------------------------------------------------------------------
(* What may stand where, and when it is accepted *)

Place ==
    IF at.block = "body" THEN "repeat"
    ELSE IF Nested THEN IF InMain THEN "branch" ELSE "function branch"
    ELSE IF InMain THEN Mode ELSE "function"

Permitted(place) ==
    CASE place = "plain" -> {"CONST", "IF", "REPEAT", "EMIT"} \cup Arith \cup Compare
      [] place \in {"calls", "inputs"} -> {"CONST", "CALL", "EMIT"} \cup Arith
      [] place = "function" ->
           {"CONST", "CALL", "IF", "REPEAT", "RETURN"} \cup Arith \cup Compare \cup Set
      [] place = "branch" -> {"CONST", "EMIT"} \cup Arith \cup Compare
      [] place = "function branch" -> {"RETURN"} \cup Set
      [] place = "repeat" -> Set

\* Nothing follows a return, or an emit: but in a plain main only a second
\* result is refused.
MayFollow ==
    ended = "no" \/ (Place = "plain" /\ St.kind \notin {"IF", "REPEAT", "EMIT"})

Ready == AtStatement /\ St.kind \in Permitted(Place) /\ MayFollow /\ Room(1)

OperandsOK == HasType(St.left, "u32") /\ HasType(St.right, "u32")

CanDefine ==
    /\ Ready /\ St.kind \in {"CONST"} \cup Arith \cup Compare
    /\ St.kind # "CONST" => OperandsOK
    /\ CanDeclare(St.out)

CanSet == Ready /\ St.kind \in Set /\ OperandsOK /\ HasType(St.out, "u32")

Callee == {f \in DOMAIN source.functions : source.functions[f].name = St.function}

CanCall ==
    /\ Ready /\ St.kind = "CALL"
    /\ \E f \in Callee : Len(St.args) = Len(source.functions[f].params)
    /\ \A i \in DOMAIN St.args : HasType(St.args[i], "u32")
    /\ CanDeclare(St.out)

CanReturn == Ready /\ St.kind = "RETURN" /\ HasType(St.name, "u32")

CanEmit ==
    /\ Ready /\ St.kind = "EMIT"
    /\ \/ HasType(St.name, "u32")
       \/ HasType(St.name, "bool") /\ Place \in {"plain", "branch"}
    /\ Place \in {"calls", "inputs"} => at.item = Len(Items)

CanBranch ==
    /\ Ready /\ St.kind = "IF" /\ HasType(St.condition, "bool")
    /\ Place = "plain" => at.item = Len(Items)

CanRepeat ==
    /\ Ready /\ St.kind = "REPEAT"
    /\ St.count \in 1..MaxRepeat /\ St.body # <<>>
    /\ Place = "plain" => at.item + 1 = Len(Items) /\ Items[at.item + 1].kind = "EMIT"

-----------------------------------------------------------------------------

Init ==
    /\ source \in Sources
    /\ status = "unit" /\ unit = 1
    /\ at = [item |-> 1, block |-> "top", line |-> 1]
    /\ slots = <<>> /\ hidden = {} /\ ended = "no" /\ first = "no" /\ mark = [pc |-> 0, slots |-> 0]
    /\ qir = <<>> /\ functions = <<>> /\ main = 0 /\ graph = {}
    /\ bytecode = <<>>

Named(names) == [i \in DOMAIN names |-> [name |-> names[i], type |-> "u32"]]

\* Parameters, or the inputs of main, are declared first.
DeclareAll(names) ==
    /\ slots' = Named(names) /\ hidden' = {} /\ ended' = "no"
    /\ at' = [item |-> 1, block |-> "top", line |-> 1]
    /\ status' = "body"

Declarable(names) == IsInjective(names) /\ Len(names) <= MaxScalars

\* Mutant of CallsOK: functions of every depth.
CallsUnchecked == TRUE

\* The depth of every function is bounded, and none calls itself.
CallsOK ==
    LET Deep[k \in 1..(MaxCallDepth + 1)] ==
            IF k = 1 THEN DOMAIN source.functions
            ELSE {f \in DOMAIN source.functions : \E g \in Deep[k - 1] : <<f, g>> \in graph}
    IN  Deep[MaxCallDepth + 1] = {}

\* A plain program has a scalar statement, and not both of if and repeat.
KindsOK ==
    LET kinds == {source.main[i].kind : i \in DOMAIN source.main}
    IN  Mode = "plain" => kinds \cap (Permitted("plain") \ {"EMIT"}) # {}
                          /\ ~({"IF", "REPEAT"} \subseteq kinds)

CanStart ==
    /\ FunctionCount <= MaxFunctions /\ Len(source.inputs) <= MaxInputs
    /\ IF InMain THEN KindsOK /\ CallsOK /\ Declarable(source.inputs)
       ELSE Declarable(source.functions[unit].params)

StartFunction ==
    /\ status = "unit" /\ ~InMain /\ CanStart
    /\ LET fn == source.functions[unit]
       IN  /\ DeclareAll(fn.params)
           /\ functions' = Append(functions,
                [entry |-> Len(qir), end |-> 0, scalars |-> 0, params |-> Len(fn.params)])
    /\ UNCHANGED <<source, unit, main, bytecode, first, mark, qir, graph>>

StartMain ==
    /\ status = "unit" /\ InMain /\ CanStart
    /\ DeclareAll(source.inputs)
    /\ main' = Len(qir)
    /\ UNCHANGED <<source, unit, functions, bytecode, first, mark, qir, graph>>

\* let, arithmetic and comparisons
Define ==
    /\ CanDefine
    /\ Declare(St.out, IF St.kind \in Compare THEN "bool" ELSE "u32")
    /\ qir' = Append(qir,
         IF St.kind = "CONST" THEN Q("CONST", Len(slots), 0, 0, St.value)
         ELSE Q(St.kind, Len(slots), SlotOf(St.left), SlotOf(St.right), 0))
    /\ at' = Onward
    /\ UNCHANGED <<position, status, hidden, ended, first, mark, graph>>

Assign ==
    /\ CanSet
    /\ qir' = Append(qir, Q(St.kind, SlotOf(St.out), SlotOf(St.left), SlotOf(St.right), 0))
    /\ at' = Onward
    /\ UNCHANGED <<position, status, context, ended, first, mark, graph>>

Call ==
    /\ CanCall
    /\ LET callee == CHOOSE f \in Callee : TRUE
           Arg(i) == IF i \in DOMAIN St.args THEN SlotOf(St.args[i]) ELSE 0
       IN  /\ qir' = Append(qir, Q("CALL", Len(slots), Arg(1), Arg(2), callee - 1))
           /\ graph' = IF InMain THEN graph ELSE graph \cup {<<unit, callee>>}
    /\ Declare(St.out, "u32")
    /\ at' = Onward
    /\ UNCHANGED <<position, status, hidden, ended, first, mark>>

Return ==
    /\ CanReturn
    /\ qir' = Append(qir, Q("RETURN", 0, SlotOf(St.name), 0, 0))
    /\ ended' = "return"
    /\ at' = Onward
    /\ UNCHANGED <<position, status, context, first, mark, graph>>

Emit ==
    /\ CanEmit
    /\ LET type == IF HasType(St.name, "bool") THEN "bool" ELSE "u32"
       IN  /\ qir' = Append(qir, Q(IF type = "bool" THEN "BOOL_EMIT" ELSE "U32_EMIT",
                                   0, SlotOf(St.name), 0, 0))
           /\ ended' = type
    /\ at' = Onward
    /\ UNCHANGED <<position, status, context, first, mark, graph>>

If ==
    /\ CanBranch
    /\ qir' = Append(qir, Q("JUMP_IF_FALSE", 0, SlotOf(St.condition), 0, 0))
    /\ mark' = [pc |-> Len(qir'), slots |-> Len(slots)]
    /\ at' = Enter("then")
    /\ UNCHANGED <<position, status, context, ended, first, graph>>

\* A branch of main ends in an emit.
BranchEnded == InMain => ended # "no"

CanElse == BranchEnded /\ Room(1)

\* The JUMP behind the first branch; the second one starts after it.  In main
\* each branch has its own variables.
Else ==
    /\ AtEnd("then") /\ CanElse
    /\ LET code == Append(qir, Q("JUMP", 0, 0, 0, 0))
       IN  /\ qir' = Target(code, mark.pc, Len(code))
           /\ mark' = [mark EXCEPT !.pc = Len(code)]
    /\ hidden' = {s \in DOMAIN slots : InMain /\ s > mark.slots}
    /\ first' = ended /\ ended' = "no"
    /\ at' = Enter("else")
    /\ UNCHANGED <<position, status, slots, graph>>

AllReturn == first = "return" /\ ended = "return"

\* function_scope_first_u32
Anchor == SelectInSeq(slots, LAMBDA s : s.type = "u32") - 1

CanEndIf == BranchEnded /\ (InMain => first = ended) /\ (AllReturn => Room(1))

\* Where the JUMP goes: behind the second branch.  If both branches return, a
\* RETURN nobody reaches stands there.
JoinTarget(code) == IF AllReturn THEN Len(code) - 1 ELSE Len(code)

EndIf ==
    /\ AtEnd("else") /\ CanEndIf
    /\ LET code == IF AllReturn THEN Append(qir, Q("RETURN", 0, Anchor, 0, 0)) ELSE qir
       IN  qir' = Target(code, mark.pc, JoinTarget(code))
    /\ ended' = IF InMain \/ AllReturn THEN ended ELSE "no"
    /\ at' = Leave
    /\ UNCHANGED <<position, status, context, first, mark, graph>>

Repeat ==
    /\ CanRepeat
    /\ qir' = Append(qir, Q("REPEAT_ENTER", 0, St.count, 0, 0))
    /\ mark' = [mark EXCEPT !.pc = Len(qir')]
    /\ at' = Enter("body")
    /\ UNCHANGED <<position, status, context, ended, first, graph>>

EndRepeat ==
    /\ AtEnd("body") /\ Room(1)
    /\ LET code == Append(qir, Q("REPEAT_NEXT", 0, 0, 0, mark.pc - 1))
       IN  qir' = Target(code, mark.pc, Len(code))
    /\ at' = Leave
    /\ UNCHANGED <<position, status, context, ended, first, mark, graph>>

CanEnd ==
    IF InMain
    THEN /\ ended # "no"
         /\ Mode = "calls" => \E i \in DOMAIN Items : Items[i].kind = "CALL"
    ELSE ended = "return"

EndFunction ==
    /\ AtEnd("top") /\ ~InMain /\ CanEnd
    /\ functions' = [functions EXCEPT ![unit].end = Len(qir), ![unit].scalars = Len(slots)]
    /\ unit' = unit + 1 /\ status' = "unit"
    /\ UNCHANGED <<source, main, bytecode, at, context, ended, first, mark, qir, graph>>

EndMain ==
    /\ AtEnd("top") /\ InMain /\ CanEnd
    /\ status' = "built"
    /\ UNCHANGED <<position, at, context, ended, first, mark, qir, graph>>

Refuse ==
    /\ \/ status = "unit" /\ ~CanStart
       \/ AtStatement /\ ~(\/ CanDefine \/ CanSet \/ CanCall \/ CanReturn \/ CanEmit
                           \/ CanBranch \/ CanRepeat)
       \/ AtEnd("then") /\ ~CanElse
       \/ AtEnd("else") /\ ~CanEndIf
       \/ AtEnd("body") /\ ~Room(1)
       \/ AtEnd("top") /\ ~CanEnd
    /\ status' = "refused"
    /\ UNCHANGED <<position, at, context, ended, first, mark, qir, graph>>

-----------------------------------------------------------------------------
(* Lowering *)

\* One source: it stands in a.
OneSource == {"U32_EMIT", "BOOL_EMIT", "JUMP_IF_FALSE", "RETURN", "REPEAT_ENTER"}

Placed(q, x, y, z) == [op |-> q.op, a |-> x, b |-> y, flags |-> z, imm |-> q.imm]

\* Mutant of Lowered: left and right change places.
LoweredSwapped(q) ==
    IF q.op \in OneSource THEN Placed(q, q.a, 0, 0)
    ELSE IF q.op \in Arith \cup Compare \cup Set THEN Placed(q, q.out, q.b, q.a)
    ELSE Placed(q, q.out, q.a, q.b)

\* The operands in the order of the bytecode.
Lowered(q) ==
    IF q.op \in OneSource THEN Placed(q, q.a, 0, 0) ELSE Placed(q, q.out, q.a, q.b)

End == [op |-> "END", a |-> 0, b |-> 0, flags |-> 0, imm |-> 0]

FromZero(seq) == [i \in 0..(Len(seq) - 1) |-> seq[i + 1]]

LoweredProgram ==
    [code |-> FromZero(Append([i \in DOMAIN qir |-> Lowered(qir[i])], End)),
     main |-> main, functions |-> FromZero(functions),
     scalars |-> Len(slots), inputs |-> Len(source.inputs),
     bools |-> {s - 1 : s \in {i \in DOMAIN slots : slots[i].type = "bool"}}]

\* What a VM, and the decoder, accept.
Accepted(bc) == Size(bc) <= MaxInstructions /\ IsTypedScalarProgram(bc)

\* Programs with functions or a repeat are validated here, others by the VM.
Lower ==
    /\ status = "built"
    /\ bytecode' = LoweredProgram
    /\ status' = IF (HasFunctions(bytecode') \/ HasRepeat(bytecode')) /\ ~Accepted(bytecode')
                 THEN "rejected" ELSE "compiled"
    /\ UNCHANGED <<source, unit, functions, main, at, context, ended, first, mark, qir, graph>>

Next ==
    \/ StartFunction \/ StartMain
    \/ Define \/ Assign \/ Call \/ Return \/ Emit
    \/ If \/ Else \/ EndIf \/ Repeat \/ EndRepeat
    \/ EndFunction \/ EndMain \/ Refuse \/ Lower

Spec == Init /\ [][Next]_vars
=============================================================================
