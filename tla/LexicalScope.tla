---------------------------- MODULE LexicalScope ----------------------------
(***************************************************************************)
(* What a name means in a language with nested blocks: the innermost       *)
(* declaration that has been read so far.  A block is over, and what it    *)
(* declared is gone.                                                       *)
(***************************************************************************)
EXTENDS Integers, Sequences

CONSTANTS
    Name,
    Library,    \* the names that mean something from the start
    Decl        \* the declarations a program can have

Free == [decl |-> -1, const |-> FALSE]
OfLibrary == [decl |-> 0, const |-> FALSE]

VARIABLES
    bind,       \* what each name means
    here,       \* the names declared in the current block
    outer,      \* the same of the blocks around it, outermost first
    answer,     \* the meaning that was asked for last
    failed      \* a name was used for what it is not

vars == <<bind, here, outer, answer, failed>>

Init ==
    /\ bind = [n \in Name |-> IF n \in Library THEN OfLibrary ELSE Free]
    /\ here = Library
    /\ outer = <<>>
    /\ answer = Free
    /\ failed = FALSE

(* The language has one declaration of a name in a block.  Where there is  *)
(* another, either may count.                                              *)
Declare(n) ==
    /\ ~failed
    /\ here' = here \cup {n}
    /\ \/ \E b \in [decl : Decl, const : BOOLEAN] :
              bind' = [bind EXCEPT ![n] = b]
       \/ n \in here /\ bind' = bind
    /\ UNCHANGED <<outer, answer, failed>>

Enter ==
    /\ ~failed
    /\ outer' = Append(outer, [bind |-> bind, here |-> here])
    /\ here' = {}
    /\ UNCHANGED <<bind, answer, failed>>

Leave ==
    /\ ~failed
    /\ outer # <<>>
    /\ bind' = outer[Len(outer)].bind /\ here' = outer[Len(outer)].here
    /\ outer' = SubSeq(outer, 1, Len(outer) - 1)
    /\ UNCHANGED <<answer, failed>>

Ask(n) ==
    /\ ~failed
    /\ bind[n] # Free
    /\ answer' = bind[n]
    /\ UNCHANGED <<bind, here, outer, failed>>

(* Where a constant is needed, only constants will do.                     *)
Fail(n) ==
    /\ ~failed
    /\ ~bind[n].const
    /\ failed' = TRUE
    /\ UNCHANGED <<bind, here, outer, answer>>

Next ==
    \/ Enter \/ Leave
    \/ \E n \in Name : Ask(n) \/ Fail(n) \/ Declare(n)

Spec == Init /\ [][Next]_vars
=============================================================================
