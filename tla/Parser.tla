------------------------------- MODULE Parser -------------------------------
(***************************************************************************)
(* parse() (parser_wrapper.cpp): the shift-reduce parser that bison makes  *)
(* of parser.ypp, and the actions of its rules.  A token has a type and    *)
(* what the tree keeps of it; the ranges of the nodes are left out.        *)
(***************************************************************************)
EXTENDS Grammar, SequencesExt

CONSTANT Texts      \* sequences of tokens

Node(kind, of) == [kind |-> kind, of |-> of]
Nothing == Node("NoneLiteral", <<>>)

VARIABLES
    text,
    at,         \* the token to be read next
    stack,      \* states, each with the value of the symbol that led to it
    unit,       \* driver.unit
    phase       \* "parsing", and then what parse() answers

vars == <<text, at, stack, unit, phase>>

Init ==
    /\ text \in Texts
    /\ at = 1
    /\ stack = <<[state |-> Initial, value |-> Nothing]>>
    /\ unit = [globals |-> <<>>, functions |-> <<>>]
    /\ phase = "parsing"

Lookahead == IF at <= Len(text) THEN text[at].type ELSE "EOF"
State == Last(stack).state

Top(n) == SubSeq(stack, Len(stack) - n + 1, Len(stack))

(* The node a rule makes of the entries of its right side.                 *)
Built(does, entries) ==
    LET Value(i) == IF i = 0 THEN Nothing ELSE entries[i].value
    IN  Node(IF does.from = 0 THEN does.kind ELSE Value(does.from).kind,
             Value(does.from).of \o [i \in DOMAIN does.items |-> Value(does.items[i])]
                 \o Value(does.rest).of)

(* insert_declaration() and insert_function().                             *)
Inserted(rule, entries) ==
    CASE rule.rhs = <<"comp_unit", "declaration">> ->
            [unit EXCEPT !.globals = @ \o entries[2].value.of]
      [] rule.rhs = <<"comp_unit", "function_definition">> ->
            [unit EXCEPT !.functions = Append(@, entries[2].value)]
      [] OTHER -> unit

-----------------------------------------------------------------------------

Shift ==
    /\ phase = "parsing"
    /\ Shifts(State, Lookahead) # {}
    /\ stack' = Append(stack, [state |-> Goto(State, Lookahead),
                               value |-> Node(text[at].text, <<>>)])
    /\ at' = at + 1
    /\ UNCHANGED <<text, unit, phase>>

Reduced(r, entries, below) ==
    /\ stack' = Append(below, [state |-> Goto(Last(below).state, Lhs(r)),
                               value |-> Built(Rules[r].does, entries)])
    /\ unit' = Inserted(Rules[r], entries)

Reduce ==
    /\ phase = "parsing"
    /\ \E r \in Reductions(State, Lookahead) :
        /\ Lhs(r) # "result"
        /\ Reduced(r, Top(Len(Rhs(r))), SubSeq(stack, 1, Len(stack) - Len(Rhs(r))))
    /\ UNCHANGED <<text, at, phase>>

Accept ==
    /\ phase = "parsing"
    /\ \E r \in Reductions(State, Lookahead) : Lhs(r) = "result"
    /\ phase' = "accepted"
    /\ UNCHANGED <<text, at, stack, unit>>

(* There is no rule for errors: parse() gives up, and answers nullptr.     *)
Error ==
    /\ phase = "parsing"
    /\ Shifts(State, Lookahead) = {} /\ Reductions(State, Lookahead) = {}
    /\ phase' = "refused"
    /\ UNCHANGED <<text, at, stack, unit>>

Next == Shift \/ Reduce \/ Accept \/ Error

Spec == Init /\ [][Next]_vars
=============================================================================
