------------------------------ MODULE MCLexer ------------------------------
EXTENDS LexerSpec

(* Every short text, and longer ones of the characters that comments and   *)
(* lines are made of, that numbers are made of, and that words and pairs   *)
(* are made of.                                                            *)
MCSources ==
    SeqOf(Char, 3) \cup SeqOf({"nl", "/", "*", "i"}, 7)
      \cup SeqOf({"0", "1", "8", "f", "x", "+"}, 4)
      \cup SeqOf({"i", "f", "=", "<", "&", "sp"}, 4)

ShortSources == SeqOf(Char, 3)
=============================================================================
