------------------------------ MODULE Outline ------------------------------
(***************************************************************************)
(* The Outline page: LspUiController (src/src/lsp_ui_controller.cpp), the  *)
(* part of IdeWindow that draws the page and jumps from it, and the one    *)
(* request for document symbols LspClient has under way.                   *)
(*                                                                         *)
(* The code knows a text as path and version, which starts again when the  *)
(* document is closed and reopened. Here a text also has the number of the *)
(* load it descends from, so that two texts of one path are told apart.    *)
(***************************************************************************)
EXTENDS Naturals, Functions, TLC

CONSTANTS
  Paths, Sources,  \* files, and those isCppSource() accepts
  None,
  Debounce,        \* ticks; 5 in the code
  Most             \* bound on the user's commands

VARIABLES
  docs,       \* the open documents: path |-> [load, version]
  current,    \* the path of the active one, or None
  filter,     \* active_document_path_ of LspClient
  ready,      \* clangd is initialized
  asked,      \* the request under way, [path, text], or None
  ui,         \* fields of LspUiController; age counts ticks since outline_stable_tick_
  shown,      \* the text whose symbols the page shows, or None
  settled,    \* no command since the last timer event
  loads, left

session == <<docs, current, filter>>
vars == <<session, ready, asked, ui, shown, settled, loads, left>>

FirstVersion == 2
Identity(path, text) == <<path, text.version>>
\* What refreshOutline() passes on.
Active == IF current \in Sources THEN Identity(current, docs[current]) ELSE None

Unwatched ==
  [observed |-> None, requested |-> None, rendered |-> None, age |-> 0, reset |-> TRUE]

Init ==
  /\ docs = <<>> /\ current = None /\ filter = None /\ ready = FALSE /\ asked = None
  /\ ui = Unwatched /\ shown = None /\ settled = TRUE /\ loads = 0 /\ left = Most

----------------------------------------------------------------------------
(* Commands that change the active text. *)

Command == left > 0 /\ left' = left - 1 /\ settled' = FALSE

\* setActiveDocument() cancels the requests of other documents.
Activate(path) ==
  /\ current' = path /\ filter' = path
  /\ asked' = IF asked # None /\ asked.path # path THEN None ELSE asked

\* A path does not go to another document before a timer event has seen the change: with
\* a path and version that come again, the code would take the old text for the new one.
Unseen(path) == ui.observed # None => ui.observed[1] # path

OpenFile(path) ==
  /\ Command /\ path \notin DOMAIN docs
  /\ Unseen(path)
  /\ loads' = loads + 1
  /\ docs' = path :> [load |-> loads', version |-> FirstVersion] @@ docs
  /\ Activate(path)
  /\ UNCHANGED <<ready, ui, shown>>

SwitchDocument(path) ==
  /\ Command /\ path \in DOMAIN docs \ {current}
  /\ Activate(path)
  /\ UNCHANGED <<docs, ready, ui, shown, loads>>

\* Typing, undo, or a reload from the disk.
Edit ==
  /\ Command /\ current # None
  /\ docs' = [docs EXCEPT ![current].version = @ + 1]
  /\ asked' = IF asked # None /\ asked.path = current THEN None ELSE asked
  /\ UNCHANGED <<current, filter, ready, ui, shown, loads>>

CloseActiveDocument ==
  /\ Command /\ current # None
  /\ docs' = Restrict(docs, DOMAIN docs \ {current})
  /\ asked' = None
  /\ current' \in (IF DOMAIN docs' = {} THEN {None} ELSE DOMAIN docs') /\ filter' = current'
  /\ UNCHANGED <<ready, ui, shown, loads>>

\* The active document, in the project tree; the filter keeps its old path.
RenameProjectEntry(path) ==
  /\ Command /\ current # None /\ path \notin DOMAIN docs /\ Unseen(path)
  /\ docs' = path :> [docs[current] EXCEPT !.version = @ + 1]
               @@ Restrict(docs, DOMAIN docs \ {current})
  /\ current' = path /\ asked' = None
  /\ UNCHANGED <<filter, ready, ui, shown, loads>>

RestartLanguageServer ==
  /\ Command
  /\ ready' = FALSE /\ asked' = None /\ ui' = Unwatched /\ filter' = current
  /\ UNCHANGED <<docs, current, shown, loads>>

\* Another project is loaded afterwards, with a clangd of its own.
UnloadProject ==
  /\ Command /\ docs' = <<>> /\ current' = None /\ filter' = None
  /\ ready' = FALSE /\ asked' = None /\ ui' = Unwatched /\ shown' = None
  /\ UNCHANGED loads

----------------------------------------------------------------------------
(* The timer. *)

\* What LspClient::handle() passes on of an answer.
Accepted ==
  /\ asked.path \in DOMAIN docs /\ docs[asked.path].version = asked.text.version
  /\ filter \in {None, asked.path}

\* [ui, shown] after an answer, or without one.
AcceptOutline(answered) ==
  IF ~answered THEN [ui |-> ui, shown |-> shown]
  ELSE LET response == Identity(asked.path, asked.text)
       IN IF response = Active
          THEN [ui |-> [ui EXCEPT !.rendered = response], shown |-> asked.text]
          ELSE [ui |-> [ui EXCEPT !.requested = IF @ = response THEN None ELSE @],
                shown |-> shown]

\* Mutant: the page is left as it is when the active document changes.
ObservedKept(u) == {[ui |-> [u EXCEPT !.observed = Active, !.age = 0], decision |-> "None"]}

\* The active text is another than at the last tick.
Observed(u) ==
  LET stale == u.rendered # None /\ u.rendered # Active
  IN {[ui |-> [u EXCEPT !.observed = Active, !.age = 0,
                        !.rendered = IF stale THEN None ELSE @],
       decision |-> IF stale THEN "Clear" ELSE "None"]}

\* The one element is what updateOutline() leaves and returns at a tick.
UpdateOutline(u, isReady) ==
  CASE u.reset -> {[ui |-> [u EXCEPT !.reset = FALSE, !.observed = Active, !.age = 0],
                    decision |-> "Clear"]}
    [] ~u.reset /\ Active = None ->
         {[ui |-> [Unwatched EXCEPT !.reset = FALSE, !.age = u.age],
           decision |-> IF {u.observed, u.requested, u.rendered} = {None} THEN "None" ELSE "Clear"]}
    [] ~u.reset /\ Active # None /\ u.observed # Active -> Observed(u)
    [] OTHER ->
         {IF ~isReady \/ u.age < Debounce \/ u.requested = Active
          THEN [ui |-> u, decision |-> "None"]
          ELSE [ui |-> [u EXCEPT !.requested = Active], decision |-> "Request"]}

Older(u) == [u EXCEPT !.age = IF @ < Debounce THEN @ + 1 ELSE @]

\* clangd may have initialized, and have answered the request or refused it.
OnTimer(reply) ==
  /\ reply # "none" => asked # None
  /\ ready' \in {ready, TRUE}
  /\ LET accepted == AcceptOutline(reply = "answer" /\ Accepted)
     IN \E update \in UpdateOutline(Older(accepted.ui), ready') :
          /\ ui' = update.ui
          /\ shown' = IF update.decision = "None" THEN accepted.shown ELSE None
          /\ asked' = IF update.decision = "Request"
                      THEN [path |-> current, text |-> docs[current]]
                      ELSE IF reply = "none" THEN asked ELSE None
  /\ settled' = TRUE
  /\ UNCHANGED <<session, loads, left>>

Next ==
  \/ \E p \in Paths : OpenFile(p) \/ SwitchDocument(p) \/ RenameProjectEntry(p)
  \/ Edit \/ CloseActiveDocument \/ RestartLanguageServer \/ UnloadProject
  \/ \E reply \in {"none", "answer", "error"} : OnTimer(reply)

----------------------------------------------------------------------------
(* Properties *)

\* openSelectedOutlineSymbol() goes to the place of the selected symbol.
MayJump ==
  /\ current # None /\ ui.rendered = Identity(current, docs[current]) /\ shown # None

(* A jump from the outline uses the places of symbols in the very text on  *)
(* the screen, whatever was typed, closed, renamed or restarted since the  *)
(* outline was asked for; after each timer event the page shows nothing or *)
(* the symbols of that text; and the request under way is about the active *)
(* text ("so that an old answer of clangd never redraws a new text",       *)
(* lsp_ui_controller.hpp:58).                                              *)
OutlineKept ==
  /\ MayJump => shown = docs[current]
  /\ settled /\ shown # None => current \in Sources /\ shown = docs[current]
  /\ asked # None => asked.path = current /\ asked.text = docs[current]
=============================================================================
