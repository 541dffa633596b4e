----------------------------- MODULE MCProjects -----------------------------
(* Three projects: p1 has a second build directory, which p3 shares, and p2   *)
(* has one of its own. Two configure presets (one with a directory of its     *)
(* own) and a build preset for each.                                          *)
EXTENDS Projects

CONSTANTS p1, p2, p3, d1, d2, e1, t1, t2, c1, c2, b1, b2, own
Dirs2 == p1 :> {d1, e1} @@ p2 :> {d2} @@ p3 :> {e1}
Default2 == p1 :> d1 @@ p2 :> d2 @@ p3 :> e1
Marks2 == p1 :> {"m1"} @@ p2 :> {"m2"} @@ p3 :> {"m3"}
Own == c1 :> None @@ c2 :> own
Both == [bad |-> FALSE, badBuild |-> FALSE, configure |-> {c1, c2}, build |-> b1 :> c1 @@ b2 :> c2]
Crossed == [bad |-> FALSE, badBuild |-> FALSE, configure |-> {c1, c2}, build |-> b1 :> c2]
NoBuild == [bad |-> FALSE, badBuild |-> TRUE, configure |-> {c2}, build |-> <<>>]
Files == {Both, Crossed, NoBuild}
FirstIsBoth == {Both}
OneTarget == {<<t1>>}
FirstIsOpen == {p1 :> "project" @@ p2 :> c @@ p3 :> "project" : c \in {"absent", "sources", "project"}}
Lists2 == {<<t1>>, <<t2, t1>>}
=============================================================================
