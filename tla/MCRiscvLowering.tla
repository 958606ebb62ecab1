---------------------------- MODULE MCRiscvLowering ----------------------------
(* RiscvLowering with words of seven bits and immediates of three: offsets 4  *)
(* and 8 and every frame are out of an immediate's reach, offset 0 is not.    *)
EXTENDS RiscvLowering, FiniteSetsExt

Narrow(n) == ((n + 64) % 128) - 64
Abs(a) == IF a < 0 THEN -a ELSE a
Sign(a) == IF a < 0 THEN -1 ELSE 1
Quot(a, b) == IF b = 0 THEN -1 ELSE Narrow(Sign(a) * Sign(b) * (Abs(a) \div Abs(b)))
Bit(n, k) == (n \div 2 ^ k) % 2
Xor(a, b) == Narrow(MapThenSumSet(LAMBDA k : 2 ^ k * ((Bit(a, k) + Bit(b, k)) % 2), 0 .. WordBits - 1))

MCTable == [f \in {"mul", "div", "rem", "xor"} |-> [p \in Word \X Word |->
    CASE f = "mul" -> Narrow(p[1] * p[2])
      [] f = "div" -> Quot(p[1], p[2])
      [] f = "rem" -> IF p[2] = 0 THEN p[1] ELSE Narrow(p[1] - p[2] * Quot(p[1], p[2]))
      [] f = "xor" -> Xor(p[1], p[2])]]

MCImm == {-64, -5, -4, 0, 3, 4, 63}
MCGloAddr == [g \in Global |-> -8 - 4 * g]
MCBegin == {-64, -8, 4}

=============================================================================
