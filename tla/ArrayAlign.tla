------------------------------ MODULE ArrayAlign ------------------------------
(***************************************************************************)
(* Array initialisers (array_align.cpp, and clean_up() of typec.cpp).      *)
(*                                                                         *)
(* _array_align() gives every expression of a nested initialiser its       *)
(* offset in the array.  A local array gets code for every element, so     *)
(* array_align_expand() fills the gaps with zeros; a global one keeps the  *)
(* list.  Constant evaluation finds an element of either by binary search. *)
(* The recursion is on a stack of braces; expressions are numbered in the  *)
(* order in which they are written.                                        *)
(***************************************************************************)
EXTENDS Integers, Sequences, SequencesExt

CONSTANT Input    \* [dims |-> dimensions, items |-> what is between the braces]

\* An item is an expression or a brace.
Expr     == [brace |-> FALSE, items |-> <<>>]
Brace(s) == [brace |-> TRUE, items |-> s]

\* What can be between the braces of depth j in an array of n dimensions: the
\* elements of the last dimension have no braces.
Lists(n) ==
    LET lists[j \in 1 .. n] ==
          Seq({Expr} \cup (IF j = n THEN {} ELSE [brace : {TRUE}, items : lists[j + 1]]))
    IN  lists

ASSUME InputAssumption ==
    \A in \in Input :
        /\ in.dims \in Seq(Nat \ {0}) /\ in.dims # <<>>
        /\ in.items \in Lists(Len(in.dims))[1]

VARIABLES
    dims,      \* SemanticType::dimensions
    global,    \* env->global
    stack,     \* _array_align() calls: items to go, offset of the brace, current
    result,    \* [offset, exp]
    pc,        \* "align", "expand" or "done"
    expanded,  \* the filled list, its expressions by offset
    it,        \* array_align_expand()'s place in result
    pushes     \* push_back() calls of its last loop, modulo 2

vars == <<dims, global, stack, result, pc, expanded, it, pushes>>

\* SemanticType::offsets, from 1, and length().
Offsets(d) ==
    LET offset[j \in 1 .. Len(d)] ==
          IF j = Len(d) THEN 1 ELSE offset[j + 1] * d[j + 1]
    IN  offset

offsets == Offsets(dims)
size    == dims[1] * offsets[1]

\* Mutant of round_up: a multiple of base is moved on too.
round_upPast(x, base) == (x \div base) * base + base

round_up(x, base) ==
    LET down == (x \div base) * base IN IF down = x THEN x ELSE down + base

Init ==
    /\ \E in \in Input :
         /\ dims = in.dims
         /\ stack = <<[items |-> in.items, base |-> 0, current |-> 0]>>
    /\ global \in BOOLEAN
    /\ result = <<>>
    /\ pc = "align"
    /\ expanded = <<>>
    /\ it = 1
    /\ pushes = 0

-----------------------------------------------------------------------------
(* _array_align: the top of the stack is the call that is running; j of the *)
(* code is its depth.                                                      *)

top == Last(stack)

Aligning == pc = "align" /\ UNCHANGED <<dims, global, expanded, it, pushes>>

TakeExpr ==
    /\ Aligning
    /\ top.items # <<>> /\ ~Head(top.items).brace
    /\ result' = Append(result, [offset |-> top.base + top.current, exp |-> Len(result) + 1])
    /\ stack' = Append(Front(stack), [items |-> Tail(top.items), base |-> top.base,
                                      current |-> top.current + 1])
    /\ UNCHANGED pc

OpenBrace ==
    /\ Aligning
    /\ top.items # <<>> /\ Head(top.items).brace
    /\ LET at == round_up(top.current, offsets[Len(stack)]) IN
         stack' = Front(stack)
                    \o <<[items |-> Tail(top.items), base |-> top.base, current |-> at],
                         [items |-> Head(top.items).items, base |-> top.base + at, current |-> 0]>>
    /\ UNCHANGED <<result, pc>>

CloseBrace ==
    /\ Aligning
    /\ top.items = <<>> /\ Len(stack) > 1
    /\ LET outer == Front(stack) IN
         stack' = [outer EXCEPT ![Len(outer)].current = @ + offsets[Len(outer)]]
    /\ UNCHANGED <<result, pc>>

Aligned ==
    /\ Aligning
    /\ top.items = <<>> /\ Len(stack) = 1
    /\ pc' = IF global THEN "done" ELSE "expand"
    /\ UNCHANGED <<stack, result>>

-----------------------------------------------------------------------------
(* array_align_expand. *)

Expanding == pc = "expand" /\ UNCHANGED <<dims, global, stack, result>>

\* Mutant of Fill: it stays where it is.
FillStuck ==
    /\ Expanding
    /\ Len(expanded) < size
    /\ LET here == it <= Len(result) /\ result[it].offset = Len(expanded) IN
         expanded' = Append(expanded, IF here THEN result[it].exp ELSE 0)
    /\ UNCHANGED <<it, pc, pushes>>

\* Mutant of Fill: the next expression is taken wherever it belongs.
FillUnchecked ==
    /\ Expanding
    /\ Len(expanded) < size
    /\ expanded' = Append(expanded, IF it <= Len(result) THEN result[it].exp ELSE 0)
    /\ it' = IF it <= Len(result) THEN it + 1 ELSE it
    /\ UNCHANGED <<pc, pushes>>

\* The for loop over the elements; expression 0 is the zero.
Fill ==
    /\ Expanding
    /\ Len(expanded) < size
    /\ LET here == it <= Len(result) /\ result[it].offset = Len(expanded) IN
         /\ expanded' = Append(expanded, IF here THEN result[it].exp ELSE 0)
         /\ it' = IF here THEN it + 1 ELSE it
    /\ UNCHANGED <<pc, pushes>>

\* The while loop after it: expanded.push_back(*it), and nothing else.
Leftover ==
    /\ Expanding
    /\ Len(expanded) = size /\ it <= Len(result)
    /\ pushes' = 1 - pushes
    /\ UNCHANGED <<expanded, it, pc>>

Expanded ==
    /\ Expanding
    /\ Len(expanded) = size /\ it > Len(result)
    /\ pc' = "done"
    /\ UNCHANGED <<expanded, it, pushes>>

Next ==
    \/ TakeExpr \/ OpenBrace \/ CloseBrace \/ Aligned
    \/ Fill \/ Leftover \/ Expanded

-----------------------------------------------------------------------------
(* Constant evaluation. *)

\* std::lower_bound on the offsets: the first of the n entries from index f on
\* that is not below o, provided that they are in order.
lower_bound(list, o) ==
    LET Part == {x \in (1 .. Len(list) + 1) \X (0 .. Len(list)) :
                     x[1] + x[2] <= Len(list) + 1}
        search[x \in Part] ==
          LET f    == x[1]
              n    == x[2]
              half == n \div 2
              mid  == f + half
          IN  IF n = 0 THEN f
              ELSE IF list[mid].offset < o THEN search[<<mid + 1, n - half - 1>>]
                   ELSE search[<<f, half>>]
    IN  search[<<1, Len(list)>>]

\* Mutant of clean_up: the entry found is not checked.
clean_upTrusting(list, o) ==
    LET p == lower_bound(list, o) IN IF p > Len(list) THEN 0 ELSE list[p].exp

\* The element at offset o of a constant array.
clean_up(list, o) ==
    LET p == lower_bound(list, o)
    IN  IF p > Len(list) THEN 0 ELSE IF list[p].offset # o THEN 0 ELSE list[p].exp

=============================================================================
