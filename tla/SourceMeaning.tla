--------------------------- MODULE SourceMeaning ---------------------------
(***************************************************************************)
(* What a source program computes: variables by name, calls by recursion,  *)
(* no slots, jumps or addresses.                                           *)
(***************************************************************************)
EXTENDS ScalarMeaning, SequencesExt, TLC

NoResult == -2      \* the function or main goes on

\* Variables and result of a function or main.
Frame(env, result) == [env |-> env, result |-> result]
Bind(s, x, v) ==
    IF v = Undefined THEN [s EXCEPT !.result = v] ELSE [s EXCEPT !.env = (x :> v) @@ @]

Computed(op, x, y) ==
    IF Divides(op) /\ y = 0 THEN Undefined
    ELSE IF op \in Compare THEN Test(op, x, y)
    ELSE Apply(op, x, y)

RECURSIVE Do(_, _, _), DoAll(_, _, _), Again(_, _, _, _)

Do(src, st, s) ==
    CASE st.kind = "CONST" -> Bind(s, st.out, st.value)
      [] st.kind \in Arith \cup Compare \cup Set ->
           Bind(s, st.out, Computed(st.kind, s.env[st.left], s.env[st.right]))
      [] st.kind = "CALL" ->
           LET fn == CHOOSE f \in ToSet(src.functions) : f.name = st.function
               args == [x \in ToSet(fn.params) |->
                           LET i == CHOOSE i \in DOMAIN fn.params : fn.params[i] = x
                           IN  s.env[st.args[i]]]
           IN  Bind(s, st.out, DoAll(src, fn.body, Frame(args, NoResult)).result)
      [] st.kind = "IF" ->
           DoAll(src, IF s.env[st.condition] = 1 THEN st.then ELSE st.else, s)
      [] st.kind = "REPEAT" -> Again(st.count, src, st.body, s)
      [] st.kind \in {"RETURN", "EMIT"} -> [s EXCEPT !.result = s.env[st.name]]

DoAll(src, items, s) ==
    IF items = <<>> \/ s.result # NoResult THEN s
    ELSE DoAll(src, Tail(items), Do(src, Head(items), s))

Again(n, src, items, s) ==
    IF n = 0 \/ s.result # NoResult THEN s
    ELSE Again(n - 1, src, items, DoAll(src, items, s))

\* The value emitted when the inputs have the values given.
SourceValue(src, given) ==
    LET inputs == [x \in ToSet(src.inputs) |->
                      LET i == CHOOSE i \in DOMAIN src.inputs : src.inputs[i] = x
                      IN  given[i - 1]]
    IN  DoAll(src, src.main, Frame(inputs, NoResult)).result
=============================================================================
