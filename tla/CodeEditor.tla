------------------------------ MODULE CodeEditor ------------------------------
(* The editor widget over one document: keys, mouse and selection             *)
(* (code_editor.cpp), the clipboard, find and replace (text_search.cpp,       *)
(* IdeWindow::findNext ... replaceAll), and the edits that come from          *)
(* elsewhere: clang-format, completion, edits of the language server, reload. *)
(*                                                                            *)
(* The selection runs from `anchor` to the cursor. The anchor is a position   *)
(* <<line, column>> of the text it was set in and survives edits that do not  *)
(* clear it.                                                                  *)
(* was is history: the text of every revision the undo entries name.          *)
EXTENDS TextDocument

CONSTANTS
  FirstText,     \* texts a document may be loaded with
  Uses,          \* what the user does in one behaviour: which gestures, at most how many
  Typed,         \* characters the user types, as sequences of bytes
  Query,         \* searches: [query, by, word]
  Formatted,     \* texts clang-format may answer
  Completions,   \* edits a completion may carry: [from, to, text], in UTF-16 columns
  TabWidth, PageHeight,
  None

ASSUME Display == TabWidth \in Nat \ {0} /\ PageHeight \in Nat \ {0}

VARIABLES
  doc,           \* the document, see TextDocument
  anchor,        \* selection_anchor_
  selecting,     \* mouse_selecting_
  clipboard,
  disk,          \* the text of the file when it was last loaded or saved
  was,
  use, gestures

vars == <<doc, anchor, selecting, clipboard, disk, was, use, gestures>>
editing == <<anchor, selecting, clipboard, disk>>

-----------------------------------------------------------------------------
(* Screen columns *)

CharWidth(c, column) == CASE c = "\t" -> TabWidth - (column % TabWidth) [] c = Continuation -> 0 [] OTHER -> 1
DisplayColumn(line, column) ==
  FoldLeft(LAMBDA sum, c : sum + CharWidth(c, sum), 0, SubSeq(line, 1, column))
ByteColumnAtDisplay(line, column) ==
  LET Starts == {i \in 0..(Len(line) - 1) : line[i + 1] # Continuation}
      Next(i) == Min({k \in Starts \cup {Len(line)} : k > i})
      Begin(i) == DisplayColumn(line, i)
      Width(i) == DisplayColumn(line, Next(i)) - Begin(i)
      reached == {i \in Starts : column < Begin(i) + Width(i)}
      at == Min(reached)
  IN  CASE reached = {} -> Len(line)
        [] reached # {} /\ (column <= Begin(at) \/ (column - Begin(at)) * 2 < Width(at)) -> at
        [] OTHER -> Next(at)

-----------------------------------------------------------------------------
(* The selection *)

HasSelection == anchor # None /\ anchor # At(doc)
Before(p, q) == p[1] < q[1] \/ (p[1] = q[1] /\ p[2] < q[2])
SelectionStart == IF Before(At(doc), anchor) THEN At(doc) ELSE anchor
SelectionEnd == IF Before(At(doc), anchor) THEN anchor ELSE At(doc)
SelectedText == Between(doc.text, Offset(doc.text, SelectionStart), Offset(doc.text, SelectionEnd))
SelectedLines ==
  IF ~HasSelection THEN <<Here(doc), Here(doc)>>
  ELSE <<SelectionStart[1],
         IF SelectionEnd[2] = 0 /\ SelectionEnd[1] > SelectionStart[1] THEN SelectionEnd[1] - 1 ELSE SelectionEnd[1]>>
(* the lines as the commands of Document cut them to the text *)
FirstLine == Smaller(SelectedLines[1], LineCount(doc.text) - 1)
LastLine == Smaller(IF SelectedLines[2] < FirstLine THEN FirstLine ELSE SelectedLines[2], LineCount(doc.text) - 1)

(* What the key does to the selected text, and otherwise to the document. *)
ReplaceSelection(by, otherwise) ==
  IF HasSelection
  THEN /\ doc' = ReplaceSingle(doc, Offset(doc.text, SelectionStart), Offset(doc.text, SelectionEnd), by, "none")
       /\ anchor' = None
  ELSE doc' = otherwise /\ UNCHANGED anchor

StartSelection == anchor' = IF anchor = None THEN At(doc) ELSE anchor
ClearSelection == anchor' = None
Still == UNCHANGED <<selecting, clipboard, disk>>

-----------------------------------------------------------------------------
(* Keys *)

MoveVertical(d, down) ==
  LET line == IF down THEN Here(d) + 1 ELSE Here(d) - 1 IN
  IF (down /\ Here(d) + 1 = LineCount(d.text)) \/ (~down /\ Here(d) = 0) THEN d
  ELSE SetCursor(d, <<line, ByteColumnAtDisplay(Line(d.text, line), DisplayColumn(CurrentLine(d), At(d)[2]))>>)
Moved(d, to) ==
  CASE to = "left" -> MoveLeft(d)
    [] to = "right" -> MoveRight(d)
    [] to = "up" -> MoveVertical(d, FALSE)
    [] to = "down" -> MoveVertical(d, TRUE)
    [] to = "home" -> MoveHome(d)
    [] to = "end" -> MoveEnd(d)
    [] to \in {"page up", "page down"} ->
         FoldLeft(LAMBDA e, i : MoveVertical(e, to = "page down"), d, [i \in 1..PageHeight |-> i])

Move(to) == doc' = Moved(doc, to) /\ ClearSelection /\ Still
ShiftMove(to) == doc' = Moved(doc, to) /\ StartSelection /\ Still
SelectAll ==
  /\ anchor' = <<0, 0>>
  /\ doc' = [BreakGroup(doc) EXCEPT !.cursor = Len(doc.text)]
  /\ Still
Copy == clipboard' = (IF HasSelection THEN SelectedText ELSE clipboard) /\ UNCHANGED <<doc, anchor, selecting, disk>>
Cut ==
  /\ HasSelection
  /\ clipboard' = SelectedText
  /\ ReplaceSelection(<<>>, doc) /\ UNCHANGED <<selecting, disk>>
Paste == clipboard # <<>> /\ ReplaceSelection(clipboard, Insert(doc, clipboard)) /\ Still

IndentationUnit == [i \in 1..TabWidth |-> " "]
Return == ReplaceSelection(<<Break>>, SmartNewline(doc, IndentationUnit)) /\ Still
BackspaceKey == ReplaceSelection(<<>>, Backspace(doc)) /\ Still
DeleteKey == ReplaceSelection(<<>>, DeleteForward(doc)) /\ Still
TabKey ==
  LET unit == [i \in 1..(TabWidth - (DisplayColumn(CurrentLine(doc), At(doc)[2]) % TabWidth)) |-> " "] IN
  ReplaceSelection(unit, Insert(doc, unit)) /\ Still
UndoKey == doc' = Undo(doc) /\ ClearSelection /\ Still
RedoKey == doc' = Redo(doc) /\ ClearSelection /\ Still

(* A typed character: over its own closing half, as a pair, or as itself.     *)
NextByte == IF AtLineEnd(doc) THEN None ELSE doc.text[doc.cursor + 1]
Type(c) ==
  /\ IF HasSelection \/ Len(c) > 1 THEN ReplaceSelection(c, Insert(doc, c))
     ELSE /\ UNCHANGED anchor
          /\ doc' = CASE c[1] \in {")", "\""} /\ NextByte = c[1] -> MoveRight(doc)
                      [] c[1] = "(" -> InsertPair(doc, "(")
                      [] c[1] = "\"" /\ NextByte \in Blanks \cup {None, ")"} -> InsertPair(doc, "\"")
                      [] OTHER -> Insert(doc, c)
  /\ Still

-----------------------------------------------------------------------------
(* Mouse: a click at a line and a screen column, dragging, the release *)

PointedAt(line, column) ==
  SetCursor(doc, <<line, ByteColumnAtDisplay(Line(doc.text, line), column)>>)
Places == {<<l, c>> : l \in 0..(LineCount(doc.text) - 1), c \in 0..2}
MouseDown ==
  \E p \in Places :
    /\ doc' = PointedAt(p[1], p[2])
    /\ anchor' = At(doc') /\ selecting' = TRUE /\ UNCHANGED <<clipboard, disk>>
MouseMove ==
  /\ selecting
  /\ \E p \in Places : doc' = PointedAt(p[1], p[2])
  /\ UNCHANGED <<anchor, selecting, clipboard, disk>>
MouseUp ==
  /\ selecting /\ selecting' = FALSE
  /\ anchor' = (IF HasSelection THEN anchor ELSE None)
  /\ UNCHANGED <<doc, clipboard, disk>>

-----------------------------------------------------------------------------
(* Line commands of the menu *)

ToggleComment == doc' = ToggleLineComment(doc, FirstLine, LastLine) /\ ClearSelection /\ Still
DuplicateLine == doc' = DuplicateLines(doc, FirstLine, LastLine) /\ ClearSelection /\ Still
MoveLine(down) == doc' = MoveLines(doc, FirstLine, LastLine, down) /\ ClearSelection /\ Still
DeleteLine == doc' = DeleteLines(doc, FirstLine, LastLine) /\ ClearSelection /\ Still

-----------------------------------------------------------------------------
(* Find and replace *)

WordByte(c) == c \in Letters \cup {Lead2, Lead4, Continuation}
(* the places of the query in the text, from the left, not overlapping *)
Occurrences(t, query) ==
  LET From[i \in 0..Len(t)] ==
        LET next == {k \in i..(Len(t) - Len(query)) : Between(t, k, k + Len(query)) = query}
        IN  IF next = {} THEN <<>> ELSE <<Min(next)>> \o From[Min(next) + Len(query)]
  IN  From[0]
WholeWord(t, from, to) ==
  /\ ~(from > 0 /\ WordByte(t[from]))
  /\ ~(to < Len(t) /\ WordByte(t[to + 1]))
SearchText(t, q) ==
  LET found == SelectSeq(Occurrences(t, q.query),
                         LAMBDA i : q.word => WholeWord(t, i, i + Len(q.query)))
  IN  [k \in DOMAIN found |->
         [from |-> Position(t, found[k]), to |-> Position(t, found[k] + Len(q.query)), text |-> q.by]]

(* Mutant: a match that begins where the selected one ends is passed over. *)
NextMatchApart(d, selected, start, end, q, previous) ==
  LET matches == SearchText(d.text, q)
      hit == {k \in DOMAIN matches :
                IF previous THEN Before(matches[k].to, IF selected THEN start ELSE At(d))
                ELSE Before(IF selected THEN end ELSE At(d), matches[k].from)}
  IN  IF previous THEN matches[IF hit = {} THEN Len(matches) ELSE Max(hit)]
      ELSE matches[IF hit = {} THEN 1 ELSE Min(hit)]
(* The next match after the selection or the cursor, round the end. *)
NextMatch(d, selected, start, end, q, previous) ==
  LET matches == SearchText(d.text, q)
      Place == IF selected THEN (IF previous THEN start ELSE end) ELSE At(d)
      Other(m) == ~selected \/ m.from # start
      hit == {k \in DOMAIN matches :
                Other(matches[k]) /\ IF previous THEN ~Before(Place, matches[k].to) ELSE ~Before(matches[k].from, Place)}
  IN  IF previous THEN matches[IF hit = {} THEN Len(matches) ELSE Max(hit)]
      ELSE matches[IF hit = {} THEN 1 ELSE Min(hit)]
SelectRange(d, p, q) == doc' = SetCursor(d, q) /\ anchor' = p
Found(q) == SearchText(doc.text, q) # <<>>
FindNext(q, previous) ==
  /\ Found(q)
  /\ LET m == NextMatch(doc, HasSelection, IF HasSelection THEN SelectionStart ELSE <<0, 0>>,
                        IF HasSelection THEN SelectionEnd ELSE <<0, 0>>, q, previous)
     IN  SelectRange(doc, m.from, m.to)
  /\ Still
IsSelected(m) == HasSelection /\ m.from = SelectionStart /\ m.to = SelectionEnd
ReplaceCurrent(q) ==
  /\ Found(q)
  /\ IF \E k \in DOMAIN SearchText(doc.text, q) : IsSelected(SearchText(doc.text, q)[k])
     THEN LET edited == ReplaceSingle(doc, Offset(doc.text, SelectionStart), Offset(doc.text, SelectionEnd), q.by, "none")
              revealed == SetCursor(edited, At(edited))
              next == NextMatch(revealed, FALSE, <<0, 0>>, <<0, 0>>, q, FALSE)
          IN  /\ IF SearchText(edited.text, q) = <<>> THEN doc' = revealed /\ ClearSelection
                 ELSE SelectRange(revealed, next.from, next.to)
              /\ Still
     ELSE FindNext(q, FALSE)
ReplaceAllMatches(q) ==
  /\ Found(q)
  /\ LET edited == ApplyReplacements(doc, SearchText(doc.text, q))
     IN  doc' = SetCursor(edited, At(edited)) /\ ClearSelection
  /\ Still

-----------------------------------------------------------------------------
(* Edits that come from elsewhere *)

CutTo(t, p) ==
  LET line == Smaller(p[1], LineCount(t) - 1) IN <<line, Smaller(p[2], Len(Line(t, line)))>>
ApplyFormattedText(t) ==
  /\ t # doc.text
  /\ LET formatted == ReplaceTextPreservingCursor(doc, t) IN
     IF HasSelection
     THEN doc' = SetCursor(formatted, CutTo(t, SelectionEnd)) /\ anchor' = CutTo(t, SelectionStart)
     ELSE doc' = formatted /\ UNCHANGED anchor
  /\ Still
(* A completion of clangd carries an edit or the word to insert. *)
Complete(by) ==
  /\ doc' = ReplaceIdentifierBeforeCursor(doc, by)
  /\ UNCHANGED editing
CompleteWithEdit(e) ==
  /\ e.from[1] < LineCount(doc.text) /\ e.to[1] < LineCount(doc.text)
  /\ LET In(p) == LineStart(doc.text, p[1]) + ByteColumn(Line(doc.text, p[1]), p[2])
     IN  doc' = ReplaceSingle(doc, In(e.from), In(e.to), e.text, "none")
  /\ UNCHANGED editing
SaveFile ==
  /\ doc' = Save(doc) /\ disk' = doc.text
  /\ UNCHANGED <<anchor, selecting, clipboard>>
Reload(t) ==   \* another program has written the file
  /\ doc' = SetCursor(NewDocument(t), At(doc)) /\ disk' = t
  /\ ClearSelection /\ UNCHANGED <<selecting, clipboard>>

-----------------------------------------------------------------------------
Motions == {"left", "right", "up", "down", "home", "end", "page up", "page down"}
Gesture(g) ==
  \/ g \in Motions /\ Move(g)
  \/ g = "select" /\ \E m \in Motions \ {"page up", "page down"} : ShiftMove(m)
  \/ g = "select all" /\ SelectAll
  \/ g = "copy" /\ Copy
  \/ g = "cut" /\ Cut
  \/ g = "paste" /\ Paste
  \/ g = "return" /\ Return
  \/ g = "backspace" /\ BackspaceKey
  \/ g = "delete" /\ DeleteKey
  \/ g = "tab" /\ TabKey
  \/ g = "undo" /\ UndoKey
  \/ g = "redo" /\ RedoKey
  \/ g = "type" /\ \E c \in Typed : Type(c)
  \/ g = "mouse" /\ (MouseDown \/ MouseMove \/ MouseUp)
  \/ g = "comment" /\ ToggleComment
  \/ g = "duplicate" /\ DuplicateLine
  \/ g = "line up" /\ MoveLine(FALSE)
  \/ g = "line down" /\ MoveLine(TRUE)
  \/ g = "delete line" /\ DeleteLine
  \/ g = "find" /\ \E q \in Query : FindNext(q, FALSE)
  \/ g = "find previous" /\ \E q \in Query : FindNext(q, TRUE)
  \/ g = "replace" /\ \E q \in Query : ReplaceCurrent(q)
  \/ g = "replace all" /\ \E q \in Query : ReplaceAllMatches(q)
  \/ g = "format" /\ \E t \in Formatted : ApplyFormattedText(t)
  \/ g = "complete" /\ (Complete(<<"b", "a">>) \/ \E e \in Completions : CompleteWithEdit(e))
  \/ g = "save" /\ SaveFile
  \/ g = "reload" /\ \E t \in FirstText : Reload(t)

Revisions(d) == {0, d.state} \cup {d.undo[i].from : i \in DOMAIN d.undo} \cup {d.redo[i].to : i \in DOMAIN d.redo}
Remembered ==
  was' = IF doc'.next = 0 THEN (0 :> doc'.text)
         ELSE [r \in Revisions(doc') |-> IF r = doc'.next /\ doc'.next > doc.next THEN doc'.text ELSE was[r]]

Init ==
  /\ \E t \in FirstText : doc = NewDocument(t) /\ disk = t /\ was = (0 :> t)
  /\ anchor = None /\ selecting = FALSE /\ clipboard = <<>>
  /\ use \in Uses /\ gestures = use.most

Next ==
  /\ gestures > 0 /\ gestures' = gestures - 1 /\ UNCHANGED use
  /\ \E g \in use.gives : Gesture(g)
  /\ Remembered

Spec == Init /\ [][Next]_vars

-----------------------------------------------------------------------------
(* Properties *)

TypeOK ==
  /\ doc.cursor \in 0..Len(doc.text)
  /\ Len(doc.undo) <= HistoryLimit /\ Cardinality(Revisions(doc)) <= doc.next + 1
  /\ anchor = None \/ anchor \in Nat \X Nat
  /\ selecting \in BOOLEAN /\ gestures \in 0..use.most
  /\ \A i \in DOMAIN doc.undo : doc.undo[i].group # "none" => Len(doc.undo[i].atoms) = 1

(* Undo and redo bring back exactly the text of the revision they name, over  *)
(* merged typing, moved lines, replacements in many places, formatting and a  *)
(* history that has dropped its oldest entries; and a document that counts as *)
(* unmodified shows the text of its file.                                     *)
UndoExact ==
  /\ TypeOK
  /\ doc.text = was[doc.state]
  /\ doc.state = doc.saved => doc.text = disk

(* Bytes that form whole characters, and an anchor that lies between two.     *)
Whole(t) ==
  \A at \in Characters(t) :
    /\ t[at + 1] # Continuation
    /\ CharacterLength(t, at) = (CASE t[at + 1] = Lead2 -> 2 [] t[at + 1] = Lead4 -> 4 [] OTHER -> 1)
    /\ \A k \in 1..(CharacterLength(t, at) - 1) : t[at + 1 + k] = Continuation
Aligned == anchor = None \/ Boundary(doc.text, Offset(doc.text, anchor))

(* A text of whole characters stays one, and the cursor stays between two of  *)
(* them, whatever the user does, as long as no anchor from an earlier text    *)
(* lies within a character.                                                   *)
CharactersKept ==
  [][Whole(doc.text) /\ Boundary(doc.text, doc.cursor) /\ Aligned
       => Whole(doc'.text) /\ Boundary(doc'.text, doc'.cursor)]_vars

(* The matches that repeating Find selects until it has made its round.      *)
Visited(q, previous) ==
  LET first == NextMatch(doc, FALSE, <<0, 0>>, <<0, 0>>, q, previous)
      Walk(path, k) == Append(path, NextMatch(doc, TRUE, Last(path).from, Last(path).to, q, previous))
  IN  IF Found(q) THEN ToSet(FoldLeft(Walk, <<first>>, Tail(SearchText(doc.text, q)))) ELSE {}

(* Find Next, repeated, selects every match of the query before it comes back *)
(* to one, and so does Find Previous.                                         *)
FindVisitsAll ==
  \A q \in Query, previous \in BOOLEAN : Cardinality(Visited(q, previous)) = Len(SearchText(doc.text, q))
=============================================================================
