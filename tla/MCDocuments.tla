---------------------------- MODULE MCDocuments ----------------------------
(* Small instances of Documents.                                              *)
EXTENDS Documents

CONSTANTS p1, p2

OneFile == {[p \in Paths |-> IF p = p1 THEN "t1" ELSE NoFile]}
=============================================================================
