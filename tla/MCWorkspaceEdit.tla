---------------------------- MODULE MCWorkspaceEdit ----------------------------
(* Small instances of WorkspaceEdit: a project of two files, a directory and  *)
(* a file in it. Requests without changes have every edit of at most two      *)
(* operations on these paths and chains of three; requests with changes a few *)
(* operations, one or two changes and up to two open documents.               *)
EXTENDS WorkspaceEdit
CONSTANTS d, e

Name(base) == <<base, 0>>
A == <<Name("a")>>
B == <<Name("b")>>
D == <<Name("d")>>
X == <<Name("d"), Name("x")>>
New == <<Name("n")>>

MCBases == {"a", "b", "d", "x", "n"}
OneTree == {(A :> "a") @@ (B :> "b") @@ (D :> "dir") @@ (X :> "x")}
MCChanged == "a" :> "a2" @@ "b" :> "b2" @@ "x" :> "x2" @@ "new" :> "new2" @@ "buffer" :> "buffer2"

Operation(kind, path, newPath, overwrite, ignoreIfExists, recursive, ignoreIfNotExists) ==
  [kind |-> kind, path |-> path, newPath |-> newPath, overwrite |-> overwrite,
   ignoreIfExists |-> ignoreIfExists, recursive |-> recursive,
   ignoreIfNotExists |-> ignoreIfNotExists]

Creates(paths, ignore) ==
  {Operation("create", p, <<>>, o, i, FALSE, FALSE) : p \in paths, o \in BOOLEAN, i \in ignore}
Renames(from, to, ignore) ==
  {Operation("rename", p, q, o, i, FALSE, FALSE) : p \in from, q \in to, o \in BOOLEAN, i \in ignore}
Deletes(paths, ignore) ==
  {Operation("delete", p, <<>>, FALSE, FALSE, r, i) : p \in paths, r \in BOOLEAN, i \in ignore}

AllOperations ==
  LET paths == {<<>>, A, D, X, New} IN
  Creates(paths, BOOLEAN) \union Renames(paths, paths, BOOLEAN) \union Deletes(paths, BOOLEAN)

TwoOperations == {<<o>> : o \in AllOperations} \union (AllOperations \X AllOperations)
ThreeOperations ==
  LET paths == {A, B, D, New}
      few == Renames({A, B, D}, paths, {FALSE}) \union Deletes({A, X}, {FALSE})
               \union Creates({A, New}, {FALSE})
  IN few \X few \X few

Request(kind, operation, changes, open) == [kind |-> kind, operations |-> operation, changes |-> changes, open |-> open]
WithoutChanges == {Request("edit", o, <<>>, <<>>) : o \in TwoOperations \union ThreeOperations}

(* Operations on one path after the other, with a change there, are left out: *)
(* the README records that the text is then taken from the wrong file.        *)
Change(path, version, fits) == [path |-> path, version |-> version, fits |-> fits]
FewOperations ==
  LET few == {Operation("create", New, <<>>, FALSE, FALSE, FALSE, FALSE), Operation("create", B, <<>>, TRUE, FALSE, FALSE, FALSE),
              Operation("rename", A, New, FALSE, FALSE, FALSE, FALSE), Operation("rename", B, A, TRUE, FALSE, FALSE, FALSE),
              Operation("rename", D, New, FALSE, FALSE, FALSE, FALSE), Operation("delete", B, <<>>, FALSE, FALSE, TRUE, FALSE)}
      Paths(o) == {o.path, o.newPath} \ {<<>>}
  IN  {<<>>} \union {<<o>> : o \in few}
        \union {pair \in few \X few : Paths(pair[1]) \cap Paths(pair[2]) = {}}
FewChanges ==
  LET plain == {Change(p, "none", TRUE) : p \in {A, B, X, New}}
  IN  {<<c>> : c \in plain} \union (plain \X plain)
        \union {<<Change(A, "current", TRUE)>>, <<Change(A, "stale", TRUE)>>, <<Change(X, "none", FALSE)>>}
Opened ==
  {<<>>, d :> [path |-> A, text |-> "buffer"], d :> [path |-> X, text |-> "x"],
   (d :> [path |-> A, text |-> "buffer"]) @@ (e :> [path |-> B, text |-> "b"])}
WithChanges ==
  {Request("edit", o, c, open) : o \in FewOperations, c \in FewChanges, open \in Opened}
    \union {Request("replace", <<>>, <<Change(A, "none", TRUE), Change(X, "none", TRUE)>>, open) : open \in Opened}

MCRequests == WithoutChanges \union WithChanges
MCEdits == {r.operations : r \in MCRequests}
=============================================================================
