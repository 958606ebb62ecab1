----------------------------- MODULE RiscvLowering -----------------------------
(***************************************************************************)
(* From Dashie to RISC-V instructions (riscv_output.cpp).                  *)
(*                                                                         *)
(* convert() gives every Dashie unit one to three instructions; imm_elim,  *)
(* imm_opt and imm_shrink then see to it that every immediate fits its     *)
(* field, with t0 as the scratch register; convert_func() wraps them with  *)
(* the frame and the return address.  Here a processor runs the            *)
(* instructions of a unit one at a time, and next to it the unit's meaning *)
(* (want) is computed in one step.                                         *)
(*                                                                         *)
(* Registers keep the names of the code, as the injective reg() of         *)
(* riscv_output.cpp:11-27 maps them.                                       *)
(***************************************************************************)
EXTENDS Integers, Sequences, SequencesExt

CONSTANTS
    Pool,         \* the registers generated code uses
    CallerSaved,  \* those of them a callee may overwrite
    WordBits,     \* width of a register (32)
    ImmBits,      \* width of the immediate field of addi, slti, lw and sw (12)
    Align,        \* bytes of frame for every word of locals (16)
    Table,        \* mul, div, rem and xor on words
    Imm,          \* immediates of the Dashie code
    Global,       \* global ids
    GloAddr,      \* addresses of the globals
    Frames,       \* frame sizes, in bytes
    Begin,        \* what registers may hold when the function is entered
    CallerSp,     \* the stack pointer then
    MaxUnits      \* bound: Dashie units in the body

Word    == -(2 ^ (WordBits - 1)) .. 2 ^ (WordBits - 1) - 1
Address == {a \in Word : a % 4 = 0}

ASSUME RiscvAssumption ==
    /\ Pool \cap {"x0", "t0", "sp", "ra", "imm"} = {}
    /\ CallerSaved \subseteq Pool
    /\ Table \in [{"mul", "div", "rem", "xor"} -> [Word \X Word -> Word]]
    /\ \A a, b \in Word : Table["xor"][<<a, b>>] = 0 <=> a = b
    /\ Imm \subseteq Word /\ Begin \subseteq Word
    /\ MaxUnits \in Nat

\* A word has two bits at least below its sign, an immediate its sign.
ASSUME WidthAssumption ==
    /\ 2 ^ (WordBits - 1) \in Nat \ {0} /\ 2 ^ (WordBits - 1) % 4 = 0
    /\ 2 ^ WordBits = 2 * 2 ^ (WordBits - 1)
    /\ 2 ^ (ImmBits - 1) \in Nat \ {0}

\* The frame is on the stack and the stack does not run into the globals.
ASSUME StackAssumption ==
    /\ Align \in Nat /\ Align >= 8 /\ Align % 4 = 0
    /\ Frames \subseteq Nat
    /\ CallerSp \in Address
    /\ GloAddr \in [Global -> Address]
    /\ \A f \in Frames :
         LET bytes == (f \div 4 + 1) * Align
         IN  /\ bytes \in Word /\ CallerSp - bytes \in Word
             /\ \A g \in Global : GloAddr[g] < CallerSp - bytes

VARIABLES
    cpu,     \* registers, memory by address, and the way the last branch went
    want,    \* the same after the Dashie units so far
    todo,    \* instructions of the current unit that have not run
    entry,   \* the processor when the function was entered
    frame,   \* Function::frame
    phase,   \* "caller", "body" or "returned"
    units    \* Dashie units so far

vars == <<cpu, want, todo, entry, frame, phase, units>>

-----------------------------------------------------------------------------
(* Instructions. *)

I(code, r1, r2, r3, imm) ==
    [code |-> code, reg1 |-> r1, reg2 |-> r2, reg3 |-> r3, imm |-> imm]
Li(r, n)      == I("li", r, "x0", "x0", n)
RR(c, d, s)   == I(c, d, s, "x0", 0)
Addi(d, s, n) == I("addi", d, s, "x0", n)
Lw(d, a, n)   == I("lw", d, a, "x0", n)
Sw(a, s, n)   == I("sw", a, s, "x0", n)

RRR == {"add", "sub", "mul", "div", "rem", "slt", "sgt", "xor"}
RRI == {"addi", "slti", "sw", "lw"}

\* Mutant of toRiscVOP: <= is finished like >=.
toRiscVOPSwapped == [op \in {"+", "-", "*", "/", "%", "<", ">", "<=", ">=", "!=", "=="} |->
    CASE op = "+"  -> <<"add", "n_rr">>  [] op = "-"  -> <<"sub", "n_rr">>
      [] op = "*"  -> <<"mul", "n_rr">>  [] op = "/"  -> <<"div", "n_rr">>
      [] op = "%"  -> <<"rem", "n_rr">>  [] op = "<"  -> <<"slt", "n_rr">>
      [] op = ">"  -> <<"sgt", "n_rr">>  [] op = "<=" -> <<"slt", "seqz">>
      [] op = ">=" -> <<"sgt", "seqz">>  [] op = "!=" -> <<"xor", "snez">>
      [] op = "==" -> <<"xor", "seqz">>]

\* The instruction for an operator, and the one that finishes its result.
toRiscVOP == [op \in {"+", "-", "*", "/", "%", "<", ">", "<=", ">=", "!=", "=="} |->
    CASE op = "+"  -> <<"add", "n_rr">>  [] op = "-"  -> <<"sub", "n_rr">>
      [] op = "*"  -> <<"mul", "n_rr">>  [] op = "/"  -> <<"div", "n_rr">>
      [] op = "%"  -> <<"rem", "n_rr">>  [] op = "<"  -> <<"slt", "n_rr">>
      [] op = ">"  -> <<"sgt", "n_rr">>  [] op = "<=" -> <<"sgt", "seqz">>
      [] op = ">=" -> <<"slt", "seqz">>  [] op = "!=" -> <<"xor", "snez">>
      [] op = "==" -> <<"xor", "seqz">>]

toRiscVUnary == [op \in {"+", "-", "!"} |->
    CASE op = "+" -> "mv" [] op = "-" -> "neg" [] op = "!" -> "seqz"]

Operate(op, d, a, b, n) ==
    <<I(toRiscVOP[op][1], d, a, b, n)>>
      \o IF toRiscVOP[op][2] = "n_rr" THEN <<>> ELSE <<RR(toRiscVOP[op][2], d, d)>>

\* Mutant of Prologue: the return address is saved before the frame is opened.
PrologueSavesFirst(size) == <<Sw("sp", "ra", -4), Addi("sp", "sp", -size)>>

Prologue(size) == <<Addi("sp", "sp", -size), Sw("sp", "ra", size - 4)>>

\* Mutant of Ret: the frame is gone when the return address is read.
RetPopsFirst(size) ==
    <<Addi("sp", "sp", size), Lw("ra", "sp", size - 4), I("ret", "x0", "ra", "x0", 0)>>

Ret(size) ==
    <<Lw("ra", "sp", size - 4), Addi("sp", "sp", size), I("ret", "x0", "ra", "x0", 0)>>

\* jmp and label move no data; jc compares with x0.
convert(u, STK) ==
    CASE u.type = "rbr"    -> Operate(u.op, u.dst, u.src1, u.src2, 0)
      [] u.type = "rbi"    -> Operate(u.op, u.dst, u.src1, "imm", u.imm)
      [] u.type = "ur"     -> <<RR(toRiscVUnary[u.op], u.dst, u.src1)>>
      [] u.type = "cr"     -> <<RR("mv", u.dst, u.src1)>>
      [] u.type = "ci"     -> <<Li(u.dst, u.imm)>>
      [] u.type = "ar"     -> <<Lw(u.dst, u.src1, u.imm)>>
      [] u.type = "aw"     -> <<Sw(u.dst, u.src1, u.imm)>>
      [] u.type = "jc"     -> <<I("beq", u.src1, "x0", "x0", 0)>>
      [] u.type = "call"   -> <<I("call", "ra", "x0", "x0", u.imm)>>
      [] u.type = "wstk"   -> <<Sw("sp", u.src1, u.imm)>>
      [] u.type = "rstk"   -> <<Lw(u.dst, "sp", u.imm)>>
      [] u.type = "ptrstk" -> <<Addi(u.dst, "sp", u.imm)>>
      [] u.type = "ptrglo" -> <<I("la", u.dst, "x0", "x0", GloAddr[u.id])>>
      [] u.type = "rglo"   -> <<I("la", u.dst, "x0", "x0", GloAddr[u.id]), Lw(u.dst, u.dst, 0)>>
      [] u.type = "ret"    -> Ret(STK)

-----------------------------------------------------------------------------
(* Immediates that do not fit. *)

\* Mutant of is_int12: the bound counts.
is_int12Closed(x) == -(2 ^ (ImmBits - 1)) <= x /\ x <= 2 ^ (ImmBits - 1)

is_int12(x) == -(2 ^ (ImmBits - 1)) <= x /\ x < 2 ^ (ImmBits - 1)

imm_elim(x) ==
    LET far == x.code \in RRI /\ ~is_int12(x.imm)
        li  == Li("t0", x.imm)
    IN  CASE far /\ x.code = "addi" -> <<li, I("add", x.reg1, x.reg2, "t0", 0)>>
          [] far /\ x.code = "slti" -> <<li, I("slt", x.reg1, x.reg2, "t0", 0)>>
          [] far /\ x.code = "lw"   ->
               <<li, I("add", "t0", x.reg2, "t0", 0), Lw(x.reg1, "t0", 0)>>
          [] far /\ x.code = "sw"   ->
               <<li, I("add", "t0", x.reg1, "t0", 0), Sw("t0", x.reg2, 0)>>
          [] OTHER -> <<x>>

\* reg3 stays behind as "imm": addi and slti do not look at it.
imm_opt(x) ==
    <<IF x.code \in {"add", "slt"} /\ x.reg3 = "imm" /\ is_int12(x.imm)
      THEN [x EXCEPT !.code = IF x.code = "add" THEN "addi" ELSE "slti"]
      ELSE x>>

imm_shrink(x) ==
    IF x.code \in RRR /\ x.reg3 = "imm"
    THEN <<Li("t0", x.imm), [x EXCEPT !.reg3 = "t0"]>>
    ELSE <<x>>

\* operator>> of util.hpp.
Through(pass(_), code) == FlattenSeq([i \in DOMAIN code |-> pass(code[i])])

Lower(code) == Through(imm_shrink, Through(imm_opt, Through(imm_elim, code)))

-----------------------------------------------------------------------------
(* The processor. *)

Wrap(n) == ((n + 2 ^ (WordBits - 1)) % 2 ^ WordBits) - 2 ^ (WordBits - 1)
Bool(b) == IF b THEN 1 ELSE 0

Set(c, r, v)  == [c EXCEPT !.reg = [c.reg EXCEPT ![r] = v]]
Put(c, a, v)  == [c EXCEPT !.mem = [c.mem EXCEPT ![a] = v]]
Back(c, h, rs) == [c EXCEPT !.reg = [r \in DOMAIN c.reg |-> IF r \in rs THEN h ELSE c.reg[r]]]

\* A callee (call) leaves the same word in everything that it may overwrite.
Do(c, x) ==
    LET r == c.reg
        b == IF x.reg3 = "imm" THEN 0 ELSE r[x.reg3]
    IN  CASE x.code = "add"  -> Set(c, x.reg1, Wrap(r[x.reg2] + b))
          [] x.code = "sub"  -> Set(c, x.reg1, Wrap(r[x.reg2] - b))
          [] x.code \in {"mul", "div", "rem", "xor"} ->
               Set(c, x.reg1, Table[x.code][<<r[x.reg2], b>>])
          [] x.code = "slt"  -> Set(c, x.reg1, Bool(r[x.reg2] < b))
          [] x.code = "sgt"  -> Set(c, x.reg1, Bool(r[x.reg2] > b))
          [] x.code = "addi" -> Set(c, x.reg1, Wrap(r[x.reg2] + x.imm))
          [] x.code = "slti" -> Set(c, x.reg1, Bool(r[x.reg2] < x.imm))
          [] x.code = "mv"   -> Set(c, x.reg1, r[x.reg2])
          [] x.code = "neg"  -> Set(c, x.reg1, Wrap(-r[x.reg2]))
          [] x.code = "seqz" -> Set(c, x.reg1, Bool(r[x.reg2] = 0))
          [] x.code = "snez" -> Set(c, x.reg1, Bool(r[x.reg2] # 0))
          [] x.code \in {"li", "la"} -> Set(c, x.reg1, x.imm)
          [] x.code = "lw"   -> Set(c, x.reg1, c.mem[Wrap(r[x.reg2] + x.imm)])
          [] x.code = "sw"   -> Put(c, Wrap(r[x.reg1] + x.imm), r[x.reg2])
          [] x.code = "beq"  -> [c EXCEPT !.taken = r[x.reg1] = r[x.reg2]]
          [] x.code = "call" -> Back(c, x.imm, CallerSaved \cup {"t0", "ra"})
          [] x.code = "ret"  -> c

-----------------------------------------------------------------------------
(* What the units mean. *)

Meaning(op, a, b) ==
    CASE op = "+"  -> Wrap(a + b)
      [] op = "-"  -> Wrap(a - b)
      [] op = "*"  -> Table["mul"][<<a, b>>]
      [] op = "/"  -> Table["div"][<<a, b>>]
      [] op = "%"  -> Table["rem"][<<a, b>>]
      [] op = "<"  -> Bool(a < b)
      [] op = ">"  -> Bool(a > b)
      [] op = "<=" -> Bool(a <= b)
      [] op = ">=" -> Bool(a >= b)
      [] op = "!=" -> Bool(a # b)
      [] op = "==" -> Bool(a = b)

MeaningUnary(op, a) ==
    CASE op = "+" -> a [] op = "-" -> Wrap(-a) [] op = "!" -> Bool(a = 0)

Dashie(m, u) ==
    LET r == m.reg
        local == Wrap(r["sp"] + u.imm)
    IN  CASE u.type = "rbr"    -> Set(m, u.dst, Meaning(u.op, r[u.src1], r[u.src2]))
          [] u.type = "rbi"    -> Set(m, u.dst, Meaning(u.op, r[u.src1], u.imm))
          [] u.type = "ur"     -> Set(m, u.dst, MeaningUnary(u.op, r[u.src1]))
          [] u.type = "cr"     -> Set(m, u.dst, r[u.src1])
          [] u.type = "ci"     -> Set(m, u.dst, u.imm)
          [] u.type = "ar"     -> Set(m, u.dst, m.mem[Wrap(r[u.src1] + u.imm)])
          [] u.type = "aw"     -> Put(m, Wrap(r[u.dst] + u.imm), r[u.src1])
          [] u.type = "jc"     -> [m EXCEPT !.taken = r[u.src1] = 0]
          [] u.type = "call"   -> Back(m, u.imm, CallerSaved)
          [] u.type = "wstk"   -> Put(m, local, r[u.src1])
          [] u.type = "rstk"   -> Set(m, u.dst, m.mem[local])
          [] u.type = "ptrstk" -> Set(m, u.dst, local)
          [] u.type = "ptrglo" -> Set(m, u.dst, GloAddr[u.id])
          [] u.type = "rglo"   -> Set(m, u.dst, m.mem[GloAddr[u.id]])

-----------------------------------------------------------------------------
(* Actions. *)

Locals == {o \in 0 .. frame - 1 : o % 4 = 0}

\* Mutant of stk: the frame is counted in bytes.
stkInBytes == (frame + 4) * Align

stk == (frame \div 4 + 1) * Align

\* The memory that the source speaks of: the locals and the globals.
Owned == {entry.reg["sp"] - stk + o : o \in Locals} \cup {GloAddr[g] : g \in Global}

\* Dashie units; array accesses stay within what the source speaks of, and all
\* conditional jumps are on equality with zero (interop.hpp:88-96).
Unit ==
    [type : {"rbr"}, op : DOMAIN toRiscVOP, dst : Pool, src1 : Pool, src2 : Pool]
      \cup [type : {"rbi"}, op : DOMAIN toRiscVOP, dst : Pool, src1 : Pool, imm : Imm]
      \cup [type : {"ur"}, op : DOMAIN toRiscVUnary, dst : Pool, src1 : Pool]
      \cup [type : {"cr"}, dst : Pool, src1 : Pool \cup {"x0"}]
      \cup [type : {"ci"}, dst : Pool, imm : Imm]
      \cup [type : {"ar", "aw"}, dst : Pool, src1 : Pool, imm : Imm]
      \cup [type : {"jc"}, src1 : Pool]
      \cup [type : {"call"}, imm : Begin]
      \cup [type : {"wstk"}, src1 : Pool, imm : Locals]
      \cup [type : {"rstk", "ptrstk"}, dst : Pool, imm : Locals]
      \cup [type : {"ptrglo", "rglo"}, dst : Pool, id : Global]

Defined(u) ==
    /\ u.type = "ar" => Wrap(want.reg[u.src1] + u.imm) \in Owned
    /\ u.type = "aw" => Wrap(want.reg[u.dst] + u.imm) \in Owned

Init ==
    /\ \E held \in [Pool -> Begin], left \in Begin : \E ra \in Begin \ {left} :
         cpu = [reg   |-> [r \in Pool \cup {"x0", "t0", "sp", "ra"} |->
                             CASE r \in Pool -> held[r]
                               [] r = "x0"   -> 0
                               [] r = "t0"   -> left
                               [] r = "sp"   -> CallerSp
                               [] r = "ra"   -> ra],
                mem   |-> [a \in Address |-> left],
                taken |-> FALSE]
    /\ want = cpu
    /\ todo = <<>>
    /\ entry = cpu
    /\ frame \in Frames
    /\ phase = "caller"
    /\ units = 0

\* One instruction.
Step ==
    /\ todo # <<>>
    /\ cpu' = Do(cpu, Head(todo))
    /\ todo' = Tail(todo)
    /\ UNCHANGED <<want, entry, frame, phase, units>>

\* convert_func() opens the frame and saves the return address.
Enter ==
    /\ phase = "caller"
    /\ phase' = "body"
    /\ todo' = Lower(Prologue(stk))
    /\ want' = Set(want, "sp", Wrap(want.reg["sp"] - stk))
    /\ UNCHANGED <<cpu, entry, frame, units>>

Issue(u) ==
    /\ phase = "body" /\ todo = <<>> /\ units < MaxUnits
    /\ Defined(u)
    /\ todo' = Lower(convert(u, stk))
    /\ want' = Dashie(want, u)
    /\ units' = units + 1
    /\ UNCHANGED <<cpu, entry, frame, phase>>

Return ==
    /\ phase = "body" /\ todo = <<>>
    /\ phase' = "returned"
    /\ todo' = Lower(convert([type |-> "ret"], stk))
    /\ want' = Set(want, "sp", entry.reg["sp"])
    /\ UNCHANGED <<cpu, entry, frame, units>>

Next == Enter \/ Step \/ Return \/ \E u \in Unit : Issue(u)

Spec == Init /\ [][Next]_vars

-----------------------------------------------------------------------------
(* Properties. *)

\* Registers and memory hold words of the machine's width.
TypeOK ==
    /\ cpu \in [reg : [Pool \cup {"x0", "t0", "sp", "ra"} -> Word],
                mem : [Address -> Word], taken : BOOLEAN]
    /\ frame \in Frames
    /\ units \in 0 .. MaxUnits

\* Whatever the operand, offset or frame size, the assembler is given an
\* immediate that its field holds, and no immediate where a register goes.
Encodable ==
    \A i \in DOMAIN todo :
       /\ todo[i].code \in RRI =>
            todo[i].imm \in -(2 ^ (ImmBits - 1)) .. 2 ^ (ImmBits - 1) - 1
       /\ todo[i].code \in RRR => todo[i].reg3 # "imm"

\* When the instructions of a unit are through, the registers, the locals and
\* the globals hold what Dashie says, and a branch went its way: the scratch
\* register and half-made results (dst of a comparison) never show.
UnitsImplemented ==
    todo = <<>> =>
       /\ \A r \in Pool \cup {"x0", "sp"} : cpu.reg[r] = want.reg[r]
       /\ \A a \in Owned : cpu.mem[a] = want.mem[a]
       /\ cpu.taken = want.taken

\* The function goes back to where it was called from, with the caller's stack
\* pointer, whatever the body stored in the frame and whatever it called, and
\* it leaves what the caller has on the stack alone.
ReturnsToCaller ==
    /\ (todo # <<>> /\ Head(todo).code = "ret") => cpu.reg["ra"] = entry.reg["ra"]
    /\ (phase = "returned" /\ todo = <<>>) => cpu.reg["sp"] = entry.reg["sp"]
    /\ \A a \in Address : a >= entry.reg["sp"] => cpu.mem[a] = entry.mem[a]

\* A step stores nothing below the stack pointer that it leaves, other than in
\* a global: what is there is not the function's to keep.
NothingBelowSp ==
    [][\A a \in Address \ {GloAddr[g] : g \in Global} :
          cpu'.mem[a] # cpu.mem[a] => a >= cpu'.reg["sp"]]_vars

=============================================================================
