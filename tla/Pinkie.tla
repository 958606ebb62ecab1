-------------------------------- MODULE Pinkie --------------------------------
(***************************************************************************)
(* Pinkie, the three-address code of the middle end (pinkie.hpp): operands, *)
(* symbols, functions and units.                                           *)
(*                                                                         *)
(* A function's code is not given: PinkieMachine and CodeGen run every     *)
(* unit that is well formed at every point, so what they establish holds   *)
(* of every sequence of units, loops included.  The unary and the binary   *)
(* operators are one operator each, on the small set of words Word.        *)
(***************************************************************************)
EXTENDS Integers, Sequences, FiniteSets

CONSTANTS
    Global,  \* global symbols, [name |-> operand, len |-> bytes or 0 for a scalar]
    Fun,     \* sequence of functions: arity, decl (its symbols), ptr (the parameters and
             \* temporaries that hold pointers), uses (the names that its code mentions)
    Reach,   \* by function, the words that the functions it calls can change: global
             \* scalars and elements of the arrays that they see or get a pointer to
    Word,    \* the integers that scalars hold, literals and byte offsets included
    Un, Bin  \* what the unary and the binary operator give on Word

ASSUME PinkieAssumption ==
    /\ Word \subseteq Nat /\ 0 \in Word
    /\ Un \in [Word -> Word]
    /\ Bin \in [Word \X Word -> Word]

Literal == [ns : {"literal"}, id : Word]
Param(i) == [ns |-> "param", id |-> i]

\* interop.cpp:100-108: parameters are scalars to the back end, pointers too.
Local == [f \in DOMAIN Fun |->
            Fun[f].decl \cup [name : {Param(i) : i \in 0 .. Fun[f].arity - 1}, len : {0}]]

Symbols == [f \in DOMAIN Fun |-> Global \cup Local[f]]

\* What the front end guarantees: numbers make names distinct (Scopes), elements
\* have 4 bytes, and only parameters and temporaries hold pointers.
Declared(kinds) == [name : [ns : kinds, id : Nat], len : {n \in Nat : n % 4 = 0}]

ASSUME SymbolAssumption ==
    /\ Global \subseteq Declared({"var"})
    /\ IsFiniteSet(Global)
    /\ \A f \in DOMAIN Fun :
         /\ Fun[f].arity \in Nat
         /\ Fun[f].decl \subseteq Declared({"var", "temp"})
         /\ IsFiniteSet(Fun[f].decl)
         /\ \A s, t \in Symbols[f] : s.name = t.name => s = t
         /\ \A o \in Fun[f].ptr :
              o.ns \in {"param", "temp"} /\ [name |-> o, len |-> 0] \in Local[f]

Arrays == [f \in DOMAIN Fun |-> {s.name : s \in {y \in Symbols[f] : y.len > 0}}]
Scalars == [f \in DOMAIN Fun |->
              {s.name : s \in {y \in Symbols[f] : y.len = 0}} \ Fun[f].ptr]

\* The words a symbol is made of, by byte offset.
Offsets(len) == IF len = 0 THEN {0} ELSE {k \in 0 .. len - 1 : k % 4 = 0}
CellsOf(symbols) == UNION {{s.name} \X Offsets(s.len) : s \in symbols}
Cells == [f \in DOMAIN Fun |-> CellsOf(Symbols[f])]
GlobalCells == CellsOf(Global)
GlobalScalars == CellsOf({g \in Global : g.len = 0})

Elements == [f \in DOMAIN Fun |-> {c \in Cells[f] : c[1] \in Arrays[f]}]

ASSUME ReachAssumption ==
    \A f \in DOMAIN Fun : Reach[f] \subseteq GlobalScalars \cup Elements[f]

\* Units as the front end and optimize_pinkie.cpp leave them.  Arithmetic is on
\* scalars, but for the pointer to a sub-array; an argument is computed into a
\* temporary (gen_eeyore.cpp:176-213); const_fold leaves no unary or jc on a
\* literal.
Units == [f \in DOMAIN Fun |->
    LET dst == Scalars[f] \cap Fun[f].uses
        val == dst \cup Literal
        ptr == {o \in Fun[f].ptr \cap Fun[f].uses : o.ns = "temp"}
        arr == (Arrays[f] \cup Fun[f].ptr) \cap Fun[f].uses
        tmp == {o \in dst \cup ptr : o.ns = "temp"}
    IN  [type : {"unary"}, dst : dst, src : dst]
          \cup [type : {"binary"}, bop : {"bop"}, dst : dst, src1 : val, src2 : val]
          \cup [type : {"binary"}, bop : {"plus"}, dst : ptr, src1 : arr, src2 : val]
          \cup [type : {"copy"}, dst : dst, src : val]
          \cup [type : {"copy"}, dst : ptr, src : arr]
          \cup [type : {"aw"}, dst : arr, incr : val, src : val]
          \cup [type : {"ar"}, dst : dst, src : arr, incr : val]
          \cup [type : {"jc"}, src1 : dst]
          \cup [type : {"param"}, src : tmp \cup Literal]
          \cup [type : {"calli"}, dst : dst]
          \cup [type : {"reti"}, src : val]
          \cup [type : {"label", "jmp", "callv", "retv"}]]

=============================================================================
