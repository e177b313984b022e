--------------------------- MODULE U32Arithmetic ---------------------------
(***************************************************************************)
(* The typed scalar operations of the VM (src/vm.c): unsigned arithmetic   *)
(* modulo Width (2^32 in the code) and comparisons with result 0 or 1.     *)
(***************************************************************************)
EXTENDS Integers

CONSTANT Width

ASSUME WidthAssumption == Width \in Nat \ {0, 1}

U32 == 0..(Width - 1)

Arith == {"ADD", "SUB", "MUL", "DIV"}
Compare == {"EQ", "NE", "LT", "LE", "GT", "GE"}
Set == {"SET_ADD", "SET_SUB", "SET_MUL", "SET_DIV"}

Divides(op) == op \in {"DIV", "SET_DIV"}

Apply(op, x, y) ==
    IF Divides(op) THEN x \div y
    ELSE IF op \in {"ADD", "SET_ADD"} THEN (x + y) % Width
    ELSE IF op \in {"SUB", "SET_SUB"} THEN (x - y) % Width
    ELSE (x * y) % Width

Truth(op, x, y) ==
    CASE op = "EQ" -> x = y
      [] op = "NE" -> x # y
      [] op = "LT" -> x < y
      [] op = "LE" -> x <= y
      [] op = "GT" -> x > y
      [] op = "GE" -> x >= y

Test(op, x, y) == IF Truth(op, x, y) THEN 1 ELSE 0
=============================================================================
