------------------------------- MODULE Scopes -------------------------------
(***************************************************************************)
(* typecheck() (typec.cpp) as it walks a program: the environments, which  *)
(* levels of names they see, the declarations it numbers and the names it  *)
(* resolves.  The program is what the walk happens to meet.                *)
(*                                                                         *)
(* An environment is known by its number.  The parent pointers of levelmap *)
(* never change, so an environment has its chain: itself, its parent and   *)
(* so on.  Clones share the counter of variables.                          *)
(***************************************************************************)
EXTENDS Integers, Sequences

CONSTANTS
    Name,
    Library,        \* the functions of new_primitive_env()
    MaxNodes,       \* how many declarations a program has
    MaxEnvs         \* how many functions and blocks, both with the global one

ASSUME ScopesAssumption ==
    Library \subseteq Name /\ MaxNodes \in Nat /\ MaxEnvs \in Nat \ {0}

VARIABLES
    data,           \* the names that each environment adds
    chain,          \* the environments that each one looks through
    calls,          \* the environments of the calls of typecheck() under way
    where,          \* what the walk is in the middle of
    pending,        \* the declaration being checked
    nodes,          \* the declarations that have been entered, in order
    variable_count, param_cnt,
    answer,         \* the symbol that was made last
    outcome

vars == <<data, chain, calls, where, pending, nodes, variable_count, param_cnt,
          answer, outcome>>

NoInfo == [category |-> "none", count |-> 0, ptr |-> -1]
Nothing == [kind |-> "none"]

Info == [category : {"variable", "parameter", "function"}, count : Nat, ptr : Nat]
Kind == {"variable", "const", "parameter"}
Pending == [kind : Kind, name : Name, dims : BOOLEAN, used : SUBSET Name]
Node == [kind : Kind \cup {"function"}, name : Name, env : Nat \ {0}, count : Nat]

category_of(kind) == IF kind = "const" THEN "variable" ELSE kind

env == calls[Len(calls)]

(* levelmap::at() and count(): the first level that has the name.          *)
Hits(e, n) == {i \in 1 .. Len(chain[e]) : data[chain[e][i]][n] # NoInfo}

at(e, n) ==
    IF Hits(e, n) = {} THEN NoInfo
    ELSE LET i == CHOOSE h \in Hits(e, n) : \A j \in Hits(e, n) : h <= j
         IN  data[chain[e][i]][n]

IsConst(info) == info.ptr > 0 /\ nodes[info.ptr].kind = "const"

Running == outcome = "running"

-----------------------------------------------------------------------------

Init ==
    /\ data = <<[n \in Name |->
                   IF n \in Library
                   THEN [category |-> "function", count |-> 0, ptr |-> 0]
                   ELSE NoInfo]>>
    /\ chain = <<<<1>>>>
    /\ calls = <<1>>
    /\ where = "globals"
    /\ pending = Nothing
    /\ nodes = <<>>
    /\ variable_count = 0 /\ param_cnt = 0
    /\ answer = NoInfo
    /\ outcome = "running"

(* levelmap::insert() leaves a name that is there as it is.                *)
insertOver(n, info) == data' = [data EXCEPT ![env][n] = info]

insert(n, info) ==
    data' = IF data[env][n] = NoInfo THEN [data EXCEPT ![env][n] = info]
                                     ELSE data

Entered(kind, n, count) ==
    /\ Len(nodes) < MaxNodes
    /\ nodes' = Append(nodes, [kind |-> kind, name |-> n, env |-> env,
                               count |-> count])
    /\ insert(n, [category |-> category_of(kind), count |-> count,
                  ptr |-> Len(nodes) + 1])

cloneShared ==
    /\ Len(data) < MaxEnvs
    /\ data' = Append(data, [n \in Name |-> NoInfo])
    /\ chain' = Append(chain, chain[env])
    /\ calls' = Append(calls, env)

clone ==
    /\ Len(data) < MaxEnvs
    /\ data' = Append(data, [n \in Name |-> NoInfo])
    /\ chain' = Append(chain, <<Len(data) + 1>> \o chain[env])
    /\ calls' = Append(calls, Len(data) + 1)

(* verify() has seen that no two globals of the program have one name.     *)
Global(n) == \A d \in 1 .. Len(nodes) : nodes[d].env = 1 => nodes[d].name # n

-----------------------------------------------------------------------------

(* A declaration: first its dimensions, then its initialiser, and only     *)
(* then is the name entered.                                               *)
BeginDeclaration(kind, n) ==
    /\ Running /\ pending = Nothing
    /\ \/ where = "globals" /\ kind # "parameter" /\ Global(n)
       \/ where = "body" /\ kind # "parameter"
       \/ where = "params" /\ kind = "parameter"
    /\ pending' = [kind |-> kind, name |-> n, dims |-> TRUE, used |-> {}]
    /\ UNCHANGED <<data, chain, calls, where, nodes, variable_count, param_cnt,
                   answer, outcome>>

(* k_eval() of a name in a dimension.                                      *)
Dimension(n) ==
    /\ Running /\ pending # Nothing
    /\ pending.dims
    /\ \/ /\ IsConst(at(env, n))
          /\ answer' = at(env, n)
          /\ UNCHANGED outcome
       \/ /\ ~IsConst(at(env, n))
          /\ outcome' = "refused"
          /\ UNCHANGED answer
    /\ UNCHANGED <<data, chain, calls, where, pending, nodes, variable_count,
                   param_cnt>>

(* Only constants have their initialisers evaluated.                       *)
Evaluated(used, n) == IF pending.kind = "const" THEN used \cup {n} ELSE used

(* disambiguate() of a name in an initialiser or in a statement.           *)
Use(n) ==
    /\ Running
    /\ \/ pending # Nothing /\ pending.kind # "parameter"
       \/ pending = Nothing /\ where = "body"
    /\ \/ /\ at(env, n) # NoInfo
          /\ answer' = at(env, n)
          /\ pending' = IF pending = Nothing THEN pending
                        ELSE [pending EXCEPT !.dims = FALSE,
                                             !.used = Evaluated(@, n)]
          /\ UNCHANGED outcome
       \/ /\ at(env, n) = NoInfo
          /\ outcome' = "aborted"
          /\ UNCHANGED <<answer, pending>>
    /\ UNCHANGED <<data, chain, calls, where, nodes, variable_count, param_cnt>>

(* The initialiser of a constant has to be one.                            *)
Evaluates == \A n \in pending.used : IsConst(at(env, n))

(* Blocks and the unit take numbers from the one counter, parameters from  *)
(* the count of the function's parameters.                                 *)
EndDeclarationFreeConst ==
    /\ Running /\ pending # Nothing
    /\ Evaluates
    /\ Entered(pending.kind, pending.name,
               IF pending.kind = "parameter" THEN param_cnt ELSE variable_count)
    /\ param_cnt' = param_cnt + (IF pending.kind = "parameter" THEN 1 ELSE 0)
    /\ variable_count' = variable_count + (IF pending.kind = "variable" THEN 1 ELSE 0)
    /\ pending' = Nothing
    /\ UNCHANGED <<chain, calls, where, answer, outcome>>

EndDeclaration ==
    /\ Running /\ pending # Nothing
    /\ Evaluates
    /\ \/ /\ pending.kind = "parameter"
          /\ Entered("parameter", pending.name, param_cnt)
          /\ param_cnt' = param_cnt + 1
          /\ UNCHANGED variable_count
       \/ /\ pending.kind # "parameter"
          /\ Entered(pending.kind, pending.name, variable_count)
          /\ variable_count' = variable_count + 1
          /\ UNCHANGED param_cnt
    /\ pending' = Nothing
    /\ UNCHANGED <<chain, calls, where, answer, outcome>>

RefuseDeclaration ==
    /\ Running /\ pending # Nothing
    /\ ~Evaluates
    /\ outcome' = "refused"
    /\ UNCHANGED <<data, chain, calls, where, pending, nodes, variable_count,
                   param_cnt, answer>>

(* A function is entered before its own body is checked.                   *)
BeginFunction(n) ==
    /\ Running /\ pending = Nothing
    /\ where \in {"globals", "functions"}
    /\ Global(n)
    /\ Entered("function", n, 0)
    /\ where' = "entering"
    /\ UNCHANGED <<chain, calls, pending, variable_count, param_cnt, answer, outcome>>

EnterFunction ==
    /\ Running /\ where = "entering"
    /\ clone
    /\ param_cnt' = 0
    /\ where' = "params"
    /\ UNCHANGED <<pending, nodes, variable_count, answer, outcome>>

BeginBody ==
    /\ Running /\ where = "params" /\ pending = Nothing
    /\ clone
    /\ where' = "body"
    /\ UNCHANGED <<pending, nodes, variable_count, param_cnt, answer, outcome>>

OpenBlock ==
    /\ Running /\ where = "body" /\ pending = Nothing
    /\ clone
    /\ UNCHANGED <<where, pending, nodes, variable_count, param_cnt, answer, outcome>>

ReturnTwice == calls' = SubSeq(calls, 1, Len(calls) - 2)

Return == calls' = SubSeq(calls, 1, Len(calls) - 1)

CloseBlock ==
    /\ Running /\ where = "body" /\ pending = Nothing
    /\ Return
    /\ where' = IF Len(calls) = 3 THEN "leaving" ELSE "body"
    /\ UNCHANGED <<data, chain, pending, nodes, variable_count, param_cnt, answer,
                   outcome>>

EndFunction ==
    /\ Running /\ where = "leaving"
    /\ Return
    /\ where' = "functions"
    /\ UNCHANGED <<data, chain, pending, nodes, variable_count, param_cnt, answer,
                   outcome>>

Next ==
    \/ \E kind \in Kind, n \in Name : BeginDeclaration(kind, n)
    \/ \E n \in Name : Dimension(n) \/ Use(n) \/ BeginFunction(n)
    \/ EndDeclaration \/ RefuseDeclaration
    \/ EnterFunction \/ BeginBody \/ OpenBlock \/ CloseBlock \/ EndFunction

Spec == Init /\ [][Next]_vars

-----------------------------------------------------------------------------

TypeOK ==
    /\ data \in Seq([Name -> Info \cup {NoInfo}])
    /\ Len(data) \in 1 .. MaxEnvs
    /\ chain \in Seq(Seq(Nat)) /\ Len(chain) = Len(data)
    /\ calls \in Seq(1 .. Len(data)) /\ Len(calls) > 0
    /\ where \in {"globals", "functions", "entering", "params", "body", "leaving"}
    /\ pending \in Pending \cup {Nothing}
    /\ nodes \in Seq(Node) /\ Len(nodes) <= MaxNodes
    /\ variable_count \in Nat /\ param_cnt \in Nat
    /\ answer \in Info \cup {NoInfo}
    /\ outcome \in {"running", "refused", "aborted"}

(* What an information stands for.                                         *)
Meaning(info) == [decl |-> info.ptr, const |-> IsConst(info)]

Bound(e) == [n \in Name |-> Meaning(at(e, n))]
Declared(e) == {n \in Name : data[e][n] # NoInfo}

(* Environments that see through each other give every name the meaning of *)
(* lexical scoping: a block hides and then uncovers what is around it, a   *)
(* name is known after its declaration, also in the functions that follow, *)
(* constants are told from variables where it matters, and the walk stops  *)
(* at a name without a meaning and nowhere else.                           *)
Lexical == INSTANCE LexicalScope WITH
    Decl <- 1 .. MaxNodes,
    bind <- Bound(env),
    here <- Declared(env),
    outer <- [i \in 1 .. Len(calls) - 1 |->
                 [bind |-> Bound(calls[i]), here |-> Declared(calls[i])]],
    answer <- Meaning(answer),
    failed <- ~Running

ImplementsScoping == Lexical!Spec

(* generate_dec() (gen_eeyore.cpp:70) looks a declaration up by its name   *)
(* in the environment as it is when everything has been checked, and finds *)
(* the first declaration of that name in the block: no later declaration,  *)
(* of that block or of one inside it, comes between.                       *)
SameBlock(d) ==
    {c \in 1 .. Len(nodes) :
        nodes[c].env = nodes[d].env /\ nodes[c].name = nodes[d].name}

LateLookup ==
    \A d \in 1 .. Len(nodes) :
        LET info == at(nodes[d].env, nodes[d].name) IN
        \/ info.ptr \in SameBlock(d) /\ \A c \in SameBlock(d) : info.ptr <= c
        \/ nodes[d].env = 1 /\ nodes[d].name \in Library /\ info.ptr = 0

(* Variables of the whole program, and the parameters of a function, have  *)
(* numbers of their own: T3 and p1 of Eeyore are one variable each.        *)
DistinctIds ==
    \A c, d \in 1 .. Len(nodes) :
        /\ c # d
        /\ category_of(nodes[c].kind) = category_of(nodes[d].kind)
        /\ \/ category_of(nodes[c].kind) = "variable"
           \/ nodes[c].kind = "parameter" /\ nodes[c].env = nodes[d].env
        => nodes[c].count # nodes[d].count
=============================================================================
