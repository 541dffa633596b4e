----------------------------- MODULE MCCodeEditor -----------------------------
(* The editor and, with variables of its own, the Outline page beside it, from *)
(* which the user jumps into the text: a behaviour is one of either.           *)
EXTENDS CodeEditor

wide == <<Lead2, Continuation>>
MCFirstText == {
  <<"(", "a", ")", Break, " ">> \o wide,
  <<"a">> \o wide \o <<"a", "a", Break>>,
  <<"/", "/", " ", "b", Break, "b">>}
Use(gives, most) == [gives |-> gives, most |-> most]
MCUses == {
  Use({"end", "backspace", "undo", "redo", "save"}, 5),
  Use({"delete", "return", "undo", "redo"}, 5),
  Use({"type", "left", "backspace", "delete", "undo", "redo", "save"}, 4),
  Use({"select", "type", "undo", "redo"}, 4),
  Use({"right", "select", "backspace"}, 5),
  Use({"select", "backspace", "delete", "return", "tab"}, 3),
  Use({"down", "end", "up", "type", "mouse"}, 3),
  Use({"select all", "select", "cut", "copy", "paste", "home", "undo"}, 4),
  Use({"comment", "duplicate", "line up", "line down", "delete line", "undo", "redo", "down", "save"}, 4),
  Use({"select", "comment", "line down", "duplicate", "delete line"}, 3),
  Use({"find", "find previous", "replace", "replace all", "undo", "redo", "end"}, 4),
  Use({"select", "format", "backspace", "complete", "undo", "reload"}, 3),
  Use({"right", "return", "complete", "undo", "page down", "page up", "delete"}, 3)}
MCTyped == {<<"a">>, <<"(">>, <<")">>, <<"\"">>, wide}
MCQuery == {[query |-> <<"a">>, by |-> <<"b", "a">>, word |-> FALSE], [query |-> <<"b">>, by |-> <<>>, word |-> TRUE]}
MCFormatted == {<<"a">> \o wide, <<"(", Break, "a", ")">>}
MCCompletions == {[from |-> <<0, 1>>, to |-> <<0, 2>>, text |-> <<"a", "b">>]}

VARIABLES
  part,  \* what this behaviour is about: "editor" or "outline"
  o_docs, o_current, o_filter, o_ready, o_asked, o_ui, o_shown, o_settled, o_loads, o_left

outlineVars ==
  <<o_docs, o_current, o_filter, o_ready, o_asked, o_ui, o_shown, o_settled, o_loads, o_left>>

Page == INSTANCE Outline WITH
  Paths <- {"a.cpp", "b.cpp", "notes"}, Sources <- {"a.cpp", "b.cpp"}, Debounce <- 1, Most <- 5,
  docs <- o_docs, current <- o_current, filter <- o_filter, ready <- o_ready,
  asked <- o_asked, ui <- o_ui, shown <- o_shown, settled <- o_settled,
  loads <- o_loads, left <- o_left

BothInit ==
  /\ Init /\ Page!Init /\ part \in {"editor", "outline"}
  /\ part = "outline" => disk = (CHOOSE t \in FirstText : TRUE) /\ use = (CHOOSE u \in Uses : TRUE)
BothNext ==
  /\ \/ part = "editor" /\ Next /\ UNCHANGED outlineVars
     \/ part = "outline" /\ Page!Next /\ UNCHANGED vars
  /\ UNCHANGED part
BothSpec == BothInit /\ [][BothNext]_<<vars, outlineVars, part>>

\* The places that a search or the outline leads to are those of the text on the screen, all
\* of them: see FindVisitsAll of CodeEditor and OutlineKept of Outline.
PlacesFound == IF part = "editor" THEN FindVisitsAll ELSE Page!OutlineKept
=============================================================================
