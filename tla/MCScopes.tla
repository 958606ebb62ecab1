------------------------------ MODULE MCScopes ------------------------------
EXTENDS Scopes, TLC

CONSTANTS a, b, f           \* two names of the program, one of the library

Renamings == Permutations({a, b})
=============================================================================
