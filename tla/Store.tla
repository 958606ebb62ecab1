-------------------------------- MODULE Store --------------------------------
(***************************************************************************)
(* What the source language and Pinkie have in common: the operators on    *)
(* integers (primitive.cpp), operands, and a memory in which every symbol   *)
(* of every activation has a block of its own.  Pointers are addresses.    *)
(***************************************************************************)
EXTENDS Integers, Sequences, FiniteSets, TLC

CONSTANT Width  \* bits of an integer

ASSUME WidthAssumption == Width \in Nat \ {0}

Bool(b) == IF b THEN 1 ELSE 0

Half == 2 ^ (Width - 1)
INT_MIN == -Half
Wrap(x) == ((x + Half) % (2 * Half)) - Half

toUnaryOP(op, x) ==
    CASE op = "+" -> x [] op = "-" -> Wrap(-x) [] op = "!" -> Bool(x = 0)

Magnitude(x) == IF x < 0 THEN -x ELSE x

\* Division of a processor: towards zero, and defined for a divisor of zero.
Quotient(x, y) ==
    CASE y = 0 -> -1
      [] y # 0 /\ (x < 0) = (y < 0) -> Wrap(Magnitude(x) \div Magnitude(y))
      [] y # 0 /\ (x < 0) # (y < 0) -> -(Magnitude(x) \div Magnitude(y))

Remainder(x, y) == IF y = 0 THEN x ELSE Wrap(x - y * Quotient(x, y))

\* The host of the compiler has no result for these.
Traps(op, x, y) == op \in {"/", "%"} /\ (y = 0 \/ (x = INT_MIN /\ y = -1))

toOP(op, x, y) ==
    CASE op = "+"  -> Wrap(x + y)
      [] op = "-"  -> Wrap(x - y)
      [] op = "*"  -> Wrap(x * y)
      [] op = "/"  -> Quotient(x, y)
      [] op = "%"  -> Remainder(x, y)
      [] op = "<"  -> Bool(x < y)
      [] op = ">"  -> Bool(x > y)
      [] op = "<=" -> Bool(x <= y)
      [] op = ">=" -> Bool(x >= y)
      [] op = "!=" -> Bool(x # y)
      [] op = "==" -> Bool(x = y)

-----------------------------------------------------------------------------
Literal(n) == [ns |-> "literal", id |-> n]
Temp(n) == [ns |-> "temp", id |-> n]
Param(n) == [ns |-> "param", id |-> n]
Var(n) == [ns |-> "var", id |-> n]

\* Activations are numbered by their depth, main being 1; globals are at 0.
Frame(depth) == 1000000 * depth

Address(depth, o) ==
    Frame(depth) + 1000 * (3 * o.id + CASE o.ns = "temp" -> 0 [] o.ns = "param" -> 1
                                        [] o.ns = "var" -> 2)

\* What a cell holds that nothing was written to.
Junk == 77

Read(mem, a) == IF a \in DOMAIN mem THEN mem[a] ELSE Junk
Write(mem, a, x) == (a :> x) @@ mem

\* A call begins with a frame of which nothing is known, but for its arguments.
Enter(mem, depth, args) ==
    [a \in {b \in DOMAIN mem : b < Frame(depth)}
              \cup {Address(depth, Param(i - 1)) : i \in DOMAIN args} |->
        IF a < Frame(depth) THEN mem[a]
        ELSE args[CHOOSE i \in DOMAIN args : a = Address(depth, Param(i - 1))]]

\* Globals are zero before the program starts; symbols have a size in bytes.
Zeroed(symbols) ==
    [a \in UNION {{Address(0, s.name) + k :
                      k \in {j \in 0 .. s.len : j % 4 = 0 /\ (j < s.len \/ j = 0)}} :
                  s \in symbols} |-> 0]

\* What the n-th call of a library function answers: input that differs each time.
Input(n) == (2 * n + 1) % 3

=============================================================================
