------------------------------ MODULE QbcCodec ------------------------------
(***************************************************************************)
(* The QBC file format of src/qbc.c: qn_qbc_encode, which chooses a        *)
(* version by what a program contains, and qn_qbc_decode, which checks     *)
(* every instruction against version and region before it applies the      *)
(* contract of QbcContract.                                                *)
(*                                                                         *)
(* A file is a record of the header fields, the three sections and its     *)
(* size in bytes; a field its version has no room for is read as 0.        *)
(* Typed scalar programs only: qubits, registers, capabilities, shots,     *)
(* seed and source digest are constants of their contract and left out,    *)
(* and so are the two bytes nobody reads (78 and 79).  The digest of an    *)
(* input name is a number.                                                 *)
(***************************************************************************)
EXTENDS QbcContract

CONSTANT MaxInstructions    \* QN_MAX_INSTRUCTIONS

ASSUME CodecAssumption == MaxInstructions \in Nat \ {0}

HeaderSize == <<64, 72, 80, 80, 88, 88, 88, 96, 104>>
FunctionSize == 12
InputSize == 36
InstructionSize == 8

WithFunctions == {8, 9}     \* versions that have a function section

-----------------------------------------------------------------------------
(* Encoding *)

HasControlFlow(bc) == At(bc, "JUMP") \cup At(bc, "JUMP_IF_FALSE") # {} \/ HasRepeat(bc)

\* Mutant of Version: a program is one of bools before it is one of branches.
VersionBoolsFirst(bc) ==
    IF bc.inputs > 0 THEN 9
    ELSE IF HasFunctions(bc) THEN 8
    ELSE IF HasRepeat(bc) THEN 7
    ELSE IF bc.bools # {} THEN 5
    ELSE IF HasControlFlow(bc) THEN 6
    ELSE IF bc.scalars > 0 THEN 4 ELSE 3

Version(bc) ==
    IF bc.inputs > 0 THEN 9
    ELSE IF HasFunctions(bc) THEN 8
    ELSE IF HasRepeat(bc) THEN 7
    ELSE IF HasControlFlow(bc) THEN 6
    ELSE IF bc.bools # {} THEN 5
    ELSE IF bc.scalars > 0 THEN 4 ELSE 3

NumberOfFunctions(bc) == Cardinality(DOMAIN bc.functions)

BytesOf(version, functions, inputs, instructions) ==
    HeaderSize[version] + functions * FunctionSize + inputs * InputSize
        + instructions * InstructionSize

\* What the encoder writes once the version is chosen.
FileOf(bc, version) ==
    LET From(v, value, none) == IF version \in v THEN value ELSE none
    IN  [version |-> version, header |-> HeaderSize[version],
         count |-> Size(bc),
         scalars |-> From(4..9, bc.scalars, 0), bools |-> From(5..9, bc.bools, {}),
         functionCount |-> From(WithFunctions, NumberOfFunctions(bc), 0),
         functionSize |-> From(WithFunctions, FunctionSize, 0),
         main |-> From(WithFunctions, bc.main, 0),
         inputCount |-> From({9}, bc.inputs, 0), inputSize |-> From({9}, InputSize, 0),
         functions |-> bc.functions,
         inputs |-> [i \in 0..(bc.inputs - 1) |-> [slot |-> i, name |-> i]],
         code |-> bc.code,
         size |-> BytesOf(version, NumberOfFunctions(bc), bc.inputs, Size(bc))]

Encode(bc) == FileOf(bc, Version(bc))

-----------------------------------------------------------------------------
(* Decoding *)

LimitsOK(f) ==
    /\ f.version \in 1..9 /\ f.header = HeaderSize[f.version]
    /\ f.scalars <= MaxScalars /\ f.functionCount <= MaxFunctions
    /\ f.count <= MaxInstructions
    /\ f.version \in WithFunctions => f.functionSize = FunctionSize
    /\ f.version = 8 => f.functionCount > 0
    /\ f.version = 9 => f.inputCount \in 1..MaxInputs /\ f.inputSize = InputSize
    /\ \A s \in f.bools : s < f.scalars

\* Mutant of SizeOK: a longer file will do.
SizeOKAtLeast(f) == f.size >= BytesOf(f.version, f.functionCount, f.inputCount, f.count)

SizeOK(f) == f.size = BytesOf(f.version, f.functionCount, f.inputCount, f.count)

InputsOK(f) ==
    \A i \in 0..(f.inputCount - 1) :
        /\ f.inputs[i].slot = i /\ i < f.scalars
        /\ \A j \in 0..(i - 1) : f.inputs[i].name # f.inputs[j].name

\* Whether an instruction stands in a function.
InFunctions(f, pc) ==
    f.version \in WithFunctions /\ f.functionCount > 0 /\ pc < f.main

\* Mutant of Versions: comparisons came with branches.
VersionsLateCompare(op) ==
    CASE op \in Compare \cup {"BOOL_EMIT"} -> 6..7
      [] op \in Set \cup {"REPEAT_ENTER", "REPEAT_NEXT"} -> {7}
      [] op \in {"JUMP_IF_FALSE", "JUMP"} -> {6}
      [] op \in {"CALL", "RETURN"} -> WithFunctions
      [] op \in {"CONST", "U32_EMIT"} \cup Arith -> 4..9
      [] OTHER -> 1..9

\* The versions in which an opcode may stand in main.
Versions(op) ==
    CASE op \in Compare \cup {"BOOL_EMIT"} -> 5..7
      [] op \in Set \cup {"REPEAT_ENTER", "REPEAT_NEXT"} -> {7}
      [] op \in {"JUMP_IF_FALSE", "JUMP"} -> {6}
      [] op \in {"CALL", "RETURN"} -> WithFunctions
      [] op \in {"CONST", "U32_EMIT"} \cup Arith -> 4..9
      [] OTHER -> 1..9

\* Opcodes that stand in functions of every version that has functions.
InnerOpcodes ==
    Compare \cup Set \cup {"REPEAT_ENTER", "REPEAT_NEXT", "JUMP_IF_FALSE", "JUMP"}

Placeable(f, pc) ==
    LET op == f.code[pc].op
    IN  f.version \in Versions(op) \/ (op \in InnerOpcodes /\ InFunctions(f, pc))

SlotsExist(f, ins, fields) == \A x \in fields : ins[x] < f.scalars

\* The shape of an instruction wherever it stands.
ShapeOK(f, pc) ==
    LET ins == f.code[pc]
        forward == ins.imm > pc /\ ins.imm < f.count
    IN  CASE ins.op = "REPEAT_ENTER" ->
               ins.a \in 1..MaxRepeat /\ ins.flags = 0 /\ forward /\ ins.imm # pc + 1
          [] ins.op = "REPEAT_NEXT" -> Blank(ins, {"a", "b", "flags"}) /\ ins.imm < pc
          [] ins.op = "JUMP_IF_FALSE" -> Blank(ins, {"b", "flags"}) /\ forward
          [] ins.op = "JUMP" -> Blank(ins, {"a", "b", "flags"}) /\ forward
          [] ins.op = "BOOL_EMIT" ->
               SlotsExist(f, ins, {"a"}) /\ Blank(ins, {"b", "flags", "imm"})
          [] OTHER -> TRUE

\* Its operands, outside functions.
OperandsExist(f, pc) ==
    LET ins == f.code[pc]
        slots == {ins.a, ins.b, ins.flags}
    IN  CASE ins.op = "CONST" -> SlotsExist(f, ins, {"a"}) /\ Blank(ins, {"b", "flags"})
          [] ins.op \in Arith \cup Compare ->
               SlotsExist(f, ins, {"a", "b", "flags"}) /\ Blank(ins, {"imm"})
          [] ins.op \in Set ->
               /\ SlotsExist(f, ins, {"a", "b", "flags"}) /\ Blank(ins, {"imm"})
               /\ slots \cap f.bools = {}
          [] ins.op = "JUMP_IF_FALSE" -> SlotsExist(f, ins, {"a"}) /\ ins.a \in f.bools
          [] ins.op = "U32_EMIT" /\ f.version \notin WithFunctions ->
               SlotsExist(f, ins, {"a"}) /\ Blank(ins, {"b", "flags", "imm"})
          [] OTHER -> TRUE

InstructionOK(f, pc) ==
    /\ f.code[pc].op \in Opcodes
    /\ Placeable(f, pc) /\ ShapeOK(f, pc)
    /\ InFunctions(f, pc) \/ OperandsExist(f, pc)

Contents(f) ==
    [code |-> f.code, main |-> f.main, functions |-> f.functions,
     scalars |-> f.scalars, bools |-> f.bools, inputs |-> f.inputCount]

\* A program as the decoder leaves it: without functions and inputs, and hence
\* without a place in the header for its start, main starts at 0.
AsDecoded(bc) ==
    /\ bc \in [code : {bc.code}, main : Nat, functions : {bc.functions},
               scalars : Nat, bools : SUBSET Nat, inputs : Nat]
    /\ RunsWithFrames(bc) \/ bc.main = 0

\* The end of qn_qbc_decode: what its version says a program is.  A program
\* without a scalar opcode is a quantum one, of which these have no qubits.
VersionContract(f) ==
    LET bc == Contents(f)
        Has(ops) == \E pc \in Pcs(bc) : bc.code[pc].op \in ops
        InMain(ops) == \E pc \in Pcs(bc) : ~InFunctions(f, pc) /\ bc.code[pc].op \in ops
        jumps == {"JUMP", "JUMP_IF_FALSE"}
        repeats == Set \cup {"REPEAT_ENTER", "REPEAT_NEXT"}
    IN  /\ Has(Opcodes \ {"END"})
        /\ CASE f.version = 4 -> bc.bools = {} /\ ~Has(jumps)
             [] f.version = 5 -> bc.bools # {} /\ ~Has(jumps)
             [] f.version = 6 -> bc.bools # {} /\ Has(jumps) /\ ~Has(repeats)
             [] f.version = 7 -> Has(repeats) /\ ~Has(jumps)
             [] f.version = 8 ->
                  Has({"CALL", "RETURN"}) /\ ~InMain(repeats \cup jumps) /\ bc.bools = {}
             [] f.version = 9 -> ~InMain(repeats \cup jumps) /\ bc.bools = {}
             [] OTHER -> FALSE
        /\ IsTypedScalarProgram(bc)

Decodes(f) ==
    /\ LimitsOK(f) /\ SizeOK(f) /\ InputsOK(f)
    /\ \A pc \in DOMAIN f.code : InstructionOK(f, pc)
    /\ VersionContract(f)

\* The program a file holds: none, if it is refused.
Decode(f) == IF Decodes(f) THEN {Contents(f)} ELSE {}

-----------------------------------------------------------------------------

\* A program with jumps and no bool; the compiler makes none.
JumpsWithoutBool(bc) == Version(bc) = 6 /\ bc.bools = {}

\* What build writes of a program that may run, exec reads, and it is the same
\* program.  Not so for a program with jumps and no bool, which the VM runs and
\* the decoder refuses.
SurvivesStorage(bc) ==
    Decode(Encode(bc)) =
        IF IsTypedScalarProgram(bc) /\ Size(bc) <= MaxInstructions /\ ~JumpsWithoutBool(bc)
        THEN {bc} ELSE {}

\* Files that say something else than the encoder would: another version, a
\* number of slots, a start of main, a size, an order or name of inputs that is
\* not the program's.
Variations(bc) ==
    LET f == Encode(bc)
        Renamed(i, j) == [f EXCEPT !.inputs = [@ EXCEPT ![i].name = j]]
        Moved(i, j) == [f EXCEPT !.inputs = [@ EXCEPT ![i].slot = j]]
    IN  {FileOf(bc, v) : v \in 1..9}
        \cup {[f EXCEPT !.scalars = @ + 1], [f EXCEPT !.header = @ + 8],
              [f EXCEPT !.size = @ + InstructionSize], [f EXCEPT !.size = @ - 1],
              [f EXCEPT !.count = @ + 1]}
        \cup {[f EXCEPT !.main = @ + 1] : v \in {f.version} \cap WithFunctions}
        \cup {[f EXCEPT !.bools = b] : b \in {{}, {0}, bc.bools \cup {0}}, v \in {f.version} \cap 5..9}
        \cup {Renamed(i, j) : i, j \in DOMAIN f.inputs}
        \cup {Moved(i, j) : i, j \in DOMAIN f.inputs}

\* A program has one file: whatever is decoded would be written as the very
\* same file again.
Canonical(bc) == \A f \in Variations(bc) : \A p \in Decode(f) : Encode(p) = f
=============================================================================
