---------------------------- MODULE MCLspClient ----------------------------
(* Small instances of LspClient.                                              *)
EXTENDS LspClient

CONSTANTS p1, p2, k1, k2

OnePath == {p1}
TwoPaths == {p1, p2}
OneKind == {k1}
TwoKinds == {k1, k2}
=============================================================================
