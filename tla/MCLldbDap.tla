----------------------------- MODULE MCLldbDap -----------------------------
(* A small instance of DebugClient: two lines of a file, one of another.      *)
EXTENDS DebugClient

TwoFiles == {<<1, 1>>, <<1, 2>>, <<2, 1>>}
OneFile == {<<1, 1>>, <<1, 2>>}
SecondLineNot == TwoFiles \ {<<1, 2>>}
StartUp == {"initialize", "launch"}
=============================================================================
