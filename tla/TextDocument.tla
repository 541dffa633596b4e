----------------------------- MODULE TextDocument -----------------------------
(* The text of a Document, its cursor and its undo history (document.cpp).    *)
(*                                                                            *)
(* A text is a sequence of bytes. The code keeps it as lines and addresses it *)
(* by line and column; here a place is an offset, and a <<line, column>> pair *)
(* only where the code keeps a position across a change of the text.          *)
(* A document is a record; every operation is an operator from documents to   *)
(* documents.                                                                 *)
EXTENDS Naturals, SequencesExt, FiniteSetsExt

CONSTANT HistoryLimit  \* entries the undo history holds: 200 in the code

ASSUME HistoryPositive == HistoryLimit \in Nat \ {0}

Break == "\n"
Blanks == {" ", "\t"}
Continuation == "tail" \* a byte 10xxxxxx
Lead2 == "lead2"       \* the first of the two bytes of a character
Lead4 == "lead4"       \* of the four bytes of a character outside the BMP
Letters == {"a", "b", "_"}

-----------------------------------------------------------------------------
(* Places *)

LineCount(t) == Cardinality({i \in DOMAIN t : t[i] = Break}) + 1
LineOf(t, at) == Cardinality({i \in 1..at : t[i] = Break})
LineStart(t, line) == Min({at \in 0..Len(t) : LineOf(t, at) = line})
LineEnd(t, line) == Max({at \in 0..Len(t) : LineOf(t, at) = line})
Line(t, line) == SubSeq(t, LineStart(t, line) + 1, LineEnd(t, line))
Position(t, at) == <<LineOf(t, at), at - LineStart(t, LineOf(t, at))>>

Smaller(m, n) == IF m < n THEN m ELSE n
(* the place a position names, both coordinates cut to the text *)
Offset(t, p) ==
  LET line == Smaller(p[1], LineCount(t) - 1)
  IN  Smaller(LineStart(t, line) + p[2], LineEnd(t, line))
Between(t, from, to) == SubSeq(t, from + 1, to)
Replaced(t, from, to, by) == SubSeq(t, 1, from) \o by \o SubSeq(t, to + 1, Len(t))

(* whether a character may start at the place: no byte there continues one *)
Boundary(t, at) == at = Len(t) \/ t[at + 1] # Continuation
(* Mutant: one byte back. *)
PreviousByte(t, at) == at - 1
PreviousCodepoint(t, at) ==
  LET start == LineStart(t, LineOf(t, at))
      places == {i \in start..(at - 1) : Boundary(t, i)}
  IN  IF places = {} THEN start ELSE Max(places)
NextCodepoint(t, at) == Min({i \in (at + 1)..LineEnd(t, LineOf(t, at)) : Boundary(t, i) \/ i = LineEnd(t, LineOf(t, at))})
(* back to the first byte of the character, but never at the end of a line *)
Clamped(t, p) ==
  LET at == Offset(t, p) IN
  IF at = LineEnd(t, LineOf(t, at)) THEN at
  ELSE Max({i \in LineStart(t, LineOf(t, at))..at : Boundary(t, i) \/ i = LineStart(t, LineOf(t, at))})

FirstOf(line, tests) ==     \* the first place of a line, none: its length
  LET at == {i \in DOMAIN line : line[i] \in tests} IN IF at = {} THEN Len(line) ELSE Min(at) - 1
Indentation(line) ==
  LET at == {i \in DOMAIN line : line[i] \notin Blanks} IN IF at = {} THEN Len(line) ELSE Min(at) - 1

-----------------------------------------------------------------------------
(* Columns of the language server, in UTF-16 units *)

CharacterLength(line, at) ==
  CASE line[at + 1] = Lead2 /\ at + 1 < Len(line) -> 2
    [] line[at + 1] = Lead4 /\ at + 3 < Len(line) -> 4
    [] OTHER -> 1
Characters(line) ==   \* the first bytes of the characters, as the loops of the code step
  LET From[at \in 0..Len(line)] ==
        IF at = Len(line) THEN {} ELSE {at} \union From[at + CharacterLength(line, at)]
  IN  From[0]
Units(line, at) == IF CharacterLength(line, at) = 4 THEN 2 ELSE 1
Utf16Column(line, column) ==
  FoldSet(LAMBDA at, sum : sum + Units(line, at), 0,
          {at \in Characters(line) : at + CharacterLength(line, at) <= column})
ByteColumn(line, units) ==
  Max({0} \union {at + CharacterLength(line, at) : at \in
         {c \in Characters(line) : Utf16Column(line, c) + Units(line, c) <= units}})

-----------------------------------------------------------------------------
(* Changes *)

NewDocument(t) ==
  [text |-> t, cursor |-> 0, undo |-> <<>>, redo |-> <<>>, open |-> FALSE,
   state |-> 0, next |-> 0, saved |-> 0]

BreakGroup(d) == [d EXCEPT !.open = FALSE]
SetCursor(d, p) == [BreakGroup(d) EXCEPT !.cursor = Clamped(d.text, p)]

Commit(d, entry) ==
  LET made == [entry EXCEPT !.from = d.state, !.to = d.next + 1]
      grown == Append(d.undo, made)
  IN  [d EXCEPT !.state = d.next + 1, !.next = @ + 1, !.redo = <<>>,
                !.undo = IF Len(grown) > HistoryLimit THEN Tail(grown) ELSE grown,
                !.open = entry.group # "none"]

SetCursorAfterEdit(d, p) ==
  LET at == Clamped(d.text, p) IN
  [d EXCEPT !.cursor = at, !.undo = IF @ = <<>> THEN @ ELSE [@ EXCEPT ![Len(@)].after = at]]

(* the change continues the edit the last entry holds *)
Continues(entry, d, from, to, by, group) ==
  LET atom == entry.atoms[1] IN
  \/ group = "insert" /\ from = to /\ from = entry.after
  \/ group = "backspace" /\ by = <<>> /\ to = atom.start /\ d.cursor = entry.after
  \/ group = "delete" /\ by = <<>> /\ from = atom.start /\ d.cursor = entry.after
(* Mutant: what a second Backspace removes is put behind what the first did. *)
MergedBackwards(atom, from, removed, by, group) ==
  CASE group = "insert" -> [atom EXCEPT !.inserted = @ \o by]
    [] group = "backspace" -> [atom EXCEPT !.start = from, !.removed = @ \o removed]
    [] group = "delete" -> [atom EXCEPT !.removed = @ \o removed]
Merged(atom, from, removed, by, group) ==
  CASE group = "insert" -> [atom EXCEPT !.inserted = @ \o by]
    [] group = "backspace" -> [atom EXCEPT !.start = from, !.removed = removed \o @]
    [] group = "delete" -> [atom EXCEPT !.removed = @ \o removed]

ReplaceSingle(d, from, to, by, group) ==
  LET removed == Between(d.text, from, to)
      after == from + Len(by)
      changed == [d EXCEPT !.text = Replaced(@, from, to, by), !.cursor = after]
  IN  IF /\ d.open /\ d.undo # <<>>
         /\ Last(d.undo).group = group /\ Len(Last(d.undo).atoms) = 1
         /\ Continues(Last(d.undo), d, from, to, by, group)
      THEN [changed EXCEPT !.state = d.next + 1, !.next = @ + 1,
              !.undo[Len(d.undo)].atoms[1] = Merged(@, from, removed, by, group),
              !.undo[Len(d.undo)].after = after, !.undo[Len(d.undo)].to = d.next + 1]
      ELSE Commit(changed,
             [atoms |-> <<[start |-> from, removed |-> removed, inserted |-> by]>>,
              before |-> d.cursor, after |-> after, from |-> 0, to |-> 0, group |-> group])

(* Replacements by positions, from the last to the first, as one entry.       *)
ApplyReplacements(d, replacements) ==
  LET Before(x, y) == x.from[1] > y.from[1] \/ (x.from[1] = y.from[1] /\ x.from[2] > y.from[2])
      Apply(acc, r) ==
        LET from == Offset(acc.text, r.from)   to == Offset(acc.text, r.to) IN
        IF r.from[1] >= LineCount(acc.text) \/ r.to[1] >= LineCount(acc.text) THEN acc
        ELSE [text |-> Replaced(acc.text, from, to, r.text),
              atoms |-> Append(acc.atoms, [start |-> from, removed |-> Between(acc.text, from, to), inserted |-> r.text])]
      done == FoldLeft(Apply, [text |-> d.text, atoms |-> <<>>], SortSeq(replacements, Before))
      cursor == Clamped(done.text, Position(d.text, d.cursor))
  IN  IF done.atoms = <<>> THEN BreakGroup(d)
      ELSE Commit([d EXCEPT !.text = done.text, !.cursor = cursor],
             [atoms |-> done.atoms, before |-> d.cursor, after |-> cursor, from |-> 0, to |-> 0, group |-> "none"])

Undone(text, entry) ==
  FoldRight(LAMBDA atom, t : Replaced(t, atom.start, atom.start + Len(atom.inserted), atom.removed), entry.atoms, text)
Redone(text, entry) ==
  FoldLeft(LAMBDA t, atom : Replaced(t, atom.start, atom.start + Len(atom.removed), atom.inserted), text, entry.atoms)
Undo(d) ==
  IF d.undo = <<>> THEN d
  ELSE [BreakGroup(d) EXCEPT !.text = Undone(@, Last(d.undo)), !.cursor = Last(d.undo).before,
          !.state = Last(d.undo).from, !.undo = Front(@), !.redo = Append(@, Last(d.undo))]
Redo(d) ==
  IF d.redo = <<>> THEN d
  ELSE [BreakGroup(d) EXCEPT !.text = Redone(@, Last(d.redo)), !.cursor = Last(d.redo).after,
          !.state = Last(d.redo).to, !.redo = Front(@), !.undo = Append(@, Last(d.redo))]
Save(d) == [BreakGroup(d) EXCEPT !.saved = d.state]

-----------------------------------------------------------------------------
(* The commands of the editor *)

Here(d) == LineOf(d.text, d.cursor)
At(d) == Position(d.text, d.cursor)
CurrentLine(d) == Line(d.text, Here(d))

Insert(d, by) ==
  IF by = <<>> THEN d
  ELSE ReplaceSingle(d, d.cursor, d.cursor, by, IF Contains(by, Break) THEN "none" ELSE "insert")

ReplaceIdentifierBeforeCursor(d, by) ==
  LET starts == {i \in LineStart(d.text, Here(d))..d.cursor :
                   \A k \in (i + 1)..d.cursor : d.text[k] \in Letters}
  IN  ReplaceSingle(d, Min(starts), d.cursor, by, "none")

ReplaceTextPreservingCursor(d, by) ==
  SetCursorAfterEdit(ReplaceSingle(d, 0, Len(d.text), by, "none"), At(d))

Closing(opening) == CASE opening = "(" -> ")" [] OTHER -> opening
SmartNewline(d, unit) ==
  LET line == CurrentLine(d)
      column == At(d)[2]
      indentation == SubSeq(line, 1, Indentation(line))
      before == SelectSeq(SubSeq(line, 1, column), LAMBDA c : c \notin Blanks)
      suffix == SubSeq(line, column + 1, Len(line))
      opens == before # <<>> /\ Last(before) = "("
      blank == Indentation(suffix)
      closes == opens /\ blank < Len(suffix) /\ suffix[blank + 1] = ")"
      inner == indentation \o (IF opens THEN unit ELSE <<>>)
  IN  IF closes
      THEN SetCursorAfterEdit(
             ReplaceSingle(d, d.cursor, d.cursor + blank, <<Break>> \o inner \o <<Break>> \o indentation, "none"),
             <<Here(d) + 1, Len(inner)>>)
      ELSE ReplaceSingle(d, d.cursor, d.cursor, <<Break>> \o inner, "none")

InsertPair(d, opening) ==
  SetCursorAfterEdit(ReplaceSingle(d, d.cursor, d.cursor, <<opening, Closing(opening)>>, "none"),
                     <<Here(d), At(d)[2] + 1>>)

Slashes == <<"/", "/">>
Written(t, lines) == SelectSeq(lines, LAMBDA l : Indentation(Line(t, l)) < Len(Line(t, l)))
Commented(line) == SubSeq(line, Indentation(line) + 1, Smaller(Indentation(line) + 2, Len(line))) = Slashes
CommentLength(line) ==
  LET first == Indentation(line) IN
  IF first + 2 < Len(line) /\ line[first + 3] = " " THEN 3 ELSE 2
ToggleLineComment(d, first, last) ==
  LET lines == Written(d.text, [i \in 1..(last - first + 1) |-> first + i - 1])
      written == ToSet(lines)
      uncomment == \A l \in written : Commented(Line(d.text, l))
      Column(l) == Indentation(Line(d.text, l))
      Removed(l) == IF uncomment THEN CommentLength(Line(d.text, l)) ELSE 0
      Edit(l) == [from |-> <<l, Column(l)>>, to |-> <<l, Column(l) + Removed(l)>>,
                  text |-> IF uncomment THEN <<>> ELSE Slashes \o <<" ">>]
      edits == [i \in DOMAIN lines |-> Edit(lines[i])]
      column == At(d)[2]
      moved == CASE Here(d) \notin written -> column
                 [] uncomment /\ column > Column(Here(d)) ->
                      column - Smaller(Removed(Here(d)), column - Column(Here(d)))
                 [] ~uncomment /\ column >= Column(Here(d)) -> column + 3
                 [] OTHER -> column
  IN  IF written = {} THEN d
      ELSE SetCursorAfterEdit(ApplyReplacements(d, edits),
                              <<Here(d), moved>>)

DuplicateLines(d, first, last) ==
  LET end == LineEnd(d.text, last) IN
  SetCursorAfterEdit(
    ReplaceSingle(d, end, end, <<Break>> \o Between(d.text, LineStart(d.text, first), end), "none"),
    <<Here(d) + last - first + 1, At(d)[2]>>)

MoveLines(d, first, last, down) ==
  LET selected == Between(d.text, LineStart(d.text, first), LineEnd(d.text, last)) IN
  CASE down /\ last + 1 < LineCount(d.text) ->
         SetCursorAfterEdit(
           ReplaceSingle(d, LineStart(d.text, first), LineEnd(d.text, last + 1),
                         Line(d.text, last + 1) \o <<Break>> \o selected, "none"),
           <<Here(d) + 1, At(d)[2]>>)
    [] ~down /\ first > 0 ->
         SetCursorAfterEdit(
           ReplaceSingle(d, LineStart(d.text, first - 1), LineEnd(d.text, last),
                         selected \o <<Break>> \o Line(d.text, first - 1), "none"),
           <<Here(d) - 1, At(d)[2]>>)
    [] OTHER -> d

DeleteLines(d, first, last) ==
  CASE last + 1 < LineCount(d.text) ->
         SetCursorAfterEdit(ReplaceSingle(d, LineStart(d.text, first), LineStart(d.text, last + 1), <<>>, "none"),
                            <<first, At(d)[2]>>)
    [] last + 1 = LineCount(d.text) /\ first > 0 ->
         SetCursorAfterEdit(ReplaceSingle(d, LineEnd(d.text, first - 1), LineEnd(d.text, last), <<>>, "none"),
                            <<first - 1, At(d)[2]>>)
    [] OTHER -> SetCursorAfterEdit(ReplaceSingle(d, 0, Len(d.text), <<>>, "none"), <<0, 0>>)

AtLineStart(d) == d.cursor = LineStart(d.text, Here(d))
AtLineEnd(d) == d.cursor = LineEnd(d.text, Here(d))
Backspace(d) ==
  CASE d.cursor = 0 -> d
    [] d.cursor > 0 /\ AtLineStart(d) -> ReplaceSingle(d, d.cursor - 1, d.cursor, <<>>, "none")
    [] OTHER -> ReplaceSingle(d, PreviousCodepoint(d.text, d.cursor), d.cursor, <<>>, "backspace")
DeleteForward(d) ==
  CASE d.cursor = Len(d.text) -> d
    [] d.cursor < Len(d.text) /\ AtLineEnd(d) -> ReplaceSingle(d, d.cursor, d.cursor + 1, <<>>, "none")
    [] OTHER -> ReplaceSingle(d, d.cursor, NextCodepoint(d.text, d.cursor), <<>>, "delete")

MoveLeft(d) ==
  [BreakGroup(d) EXCEPT !.cursor =
     IF AtLineStart(d) THEN (IF @ = 0 THEN 0 ELSE @ - 1) ELSE PreviousCodepoint(d.text, @)]
MoveRight(d) ==
  [BreakGroup(d) EXCEPT !.cursor =
     IF AtLineEnd(d) THEN Smaller(@ + 1, Len(d.text)) ELSE NextCodepoint(d.text, @)]
MoveHome(d) == [BreakGroup(d) EXCEPT !.cursor = LineStart(d.text, Here(d))]
MoveEnd(d) == [BreakGroup(d) EXCEPT !.cursor = LineEnd(d.text, Here(d))]
=============================================================================
