------------------------------ MODULE Documents ------------------------------
(* The open documents of the IDE, their history, the files behind them and    *)
(* the recovery file of the project (document.cpp, document_session.cpp,      *)
(* recovery.cpp and the handlers of ide_window.cpp that use them).            *)
(*                                                                            *)
(* A text is a value; a file holds a text or is absent. Line endings and the  *)
(* byte order mark that a document remembers and writes back are part of its  *)
(* text, so files here have uniform line endings: load() makes others uniform. *)
(* A history entry keeps the texts it leads between instead of the atoms that *)
(* turn one into the other, and a fingerprint is the text it was taken of.    *)
(* closeAllDocuments(), closeOtherDocuments() and saveAllDocuments() are       *)
(* sequences of the steps below: their message boxes let the timer run.       *)
(* Opening a project or the recovery dialog do not: choose() stops the timer. *)
EXTENDS Integers, Sequences, SequencesExt

CONSTANTS
  Paths,          \* names of files
  NoPath,         \* the path of an untitled document
  Texts,          \* texts a document or a file can have
  Empty,          \* the empty text
  NoFile,         \* no file, no fingerprint
  HistoryLimit,   \* 200 in commit()
  ClosedLimit,    \* 20 in closeActive()
  MaxOps,         \* bound on what the user does
  Foreign,        \* what another program may leave at a path
  MaxExternal,    \* bound on what other programs do to the files
  MaxCrashes,     \* bound on crashes
  InitialDisks    \* the files at first

ASSUME DocumentsAssumption ==
  /\ NoPath \notin Paths /\ NoFile \notin Texts /\ Empty \in Texts
  /\ HistoryLimit \in Nat \ {0} /\ ClosedLimit \in Nat
  /\ Foreign \subseteq Texts \union {NoFile}
  /\ MaxOps \in Nat /\ MaxExternal \in Nat /\ MaxCrashes \in Nat
  /\ InitialDisks \subseteq [Paths -> Texts \union {NoFile}]

VARIABLES
  ide,         \* "down", "welcome" (no project) or "project"
  documents,   \* documents_
  active,      \* active_index_ + 1, 0 when active_document_ is null
  closed,      \* the paths of closed_documents_
  disk,        \* the files
  recovery,    \* the recovery file of the project, <<>> when there is none
  spent        \* what was used of the bounds

vars == <<ide, documents, active, closed, disk, recovery, spent>>

-----------------------------------------------------------------------------
(* Document. "base" is the text of the last load or save, "kept" says that    *)
(* since then the user has answered Keep, or read that the file could not be  *)
(* looked at after a save, "autosaved" is the text the last autosave wrote    *)
(* for the document: none of the three is in the code.                        *)
NewDocument ==
  [path |-> NoPath, text |-> Empty, current |-> 0, saved |-> 0, next |-> 0,
   undo |-> <<>>, redo |-> <<>>, group |-> FALSE, existed |-> FALSE, fingerprint |-> NoFile,
   base |-> Empty, kept |-> FALSE, autosaved |-> NoFile]

Modified(d) == d.current # d.saved

SetText(d, t) ==
  [d EXCEPT !.text = t, !.current = 0, !.saved = 0, !.next = 0, !.undo = <<>>, !.redo = <<>>,
            !.group = FALSE, !.base = t]

RestoreText(d, t) == [SetText(d, t) EXCEPT !.next = 1, !.current = 1]

LoadFingerprint(d, p) ==
  [d EXCEPT !.path = p, !.existed = TRUE, !.fingerprint = disk[p], !.kept = FALSE]

Load(d, p) == SetText(LoadFingerprint(d, p), disk[p])

Saved(d, p) ==
  [d EXCEPT !.path = p, !.existed = TRUE, !.fingerprint = d.text, !.saved = d.current,
            !.group = FALSE, !.base = d.text, !.kept = FALSE]

SavedUnseen(d, p) == [d EXCEPT !.path = p, !.existed = FALSE, !.kept = TRUE]

Acknowledged(d) ==
  [d EXCEPT !.existed = disk[d.path] # NoFile, !.fingerprint = disk[d.path], !.kept = TRUE]

DiskChange(d) ==
  CASE d.path = NoPath -> "unchanged"
    [] d.path # NoPath /\ disk[d.path] = NoFile -> IF d.existed THEN "deleted" ELSE "unchanged"
    [] OTHER -> IF d.existed /\ disk[d.path] = d.fingerprint THEN "unchanged" ELSE "modified"

CommitCountsUp(d, t, grouped) ==    \* a mistaken variant: numbers states by the depth of the history
  LET entry == [before |-> d.current, after |-> d.current + 1, from |-> d.text, to |-> t]
      undo == Append(d.undo, entry)
  IN [d EXCEPT !.text = t, !.next = @ + 1, !.current = @ + 1, !.redo = <<>>,
               !.undo = IF Len(undo) > HistoryLimit THEN Tail(undo) ELSE undo,
               !.group = grouped]

(* An edit that starts a history entry, "grouped" when typing may extend it.  *)
Commit(d, t, grouped) ==
  LET entry == [before |-> d.current, after |-> d.next + 1, from |-> d.text, to |-> t]
      undo == Append(d.undo, entry)
  IN [d EXCEPT !.text = t, !.next = @ + 1, !.current = d.next + 1, !.redo = <<>>,
               !.undo = IF Len(undo) > HistoryLimit THEN Tail(undo) ELSE undo,
               !.group = grouped]

(* An edit that extends the last entry: typing or erasing goes on where it was. *)
Merge(d, t) ==
  [d EXCEPT !.text = t, !.next = @ + 1, !.current = d.next + 1,
            !.undo = Append(Front(@), [Last(@) EXCEPT !.after = d.next + 1, !.to = t])]

Undo(d) ==
  LET entry == Last(d.undo) IN
  [d EXCEPT !.text = entry.from, !.current = entry.before, !.undo = Front(@),
            !.redo = Append(@, entry), !.group = FALSE]

Redo(d) ==
  LET entry == Last(d.redo) IN
  [d EXCEPT !.text = entry.to, !.current = entry.after, !.redo = Front(@),
            !.undo = Append(@, entry), !.group = FALSE]

-----------------------------------------------------------------------------
(* DocumentSession *)

Open(p) == {i \in DOMAIN documents : documents[i].path = p}
First(S) == CHOOSE i \in S : \A j \in S : i <= j

(* The elements of s that are in S, in their order: SelectSeq() for a set, as *)
(* a recursive function, which the proofs can unfold.                         *)
Among(s, S) ==
  LET among[n \in 0..Len(s)] == IF n = 0 THEN <<>>
                                ELSE IF s[n] \in S THEN Append(among[n - 1], s[n])
                                ELSE among[n - 1]
  IN among[Len(s)]

Forget(list, p) == Among(list, Paths \ {p})

(* open(): an open document is activated, another file is loaded.             *)
OpenDocument(p, list) ==
  /\ Open(p) # {} \/ disk[p] # NoFile
  /\ closed' = Forget(list, p)
  /\ IF Open(p) # {}
     THEN documents' = documents /\ active' = First(Open(p))
     ELSE documents' = Append(documents, Load(NewDocument, p)) /\ active' = Len(documents) + 1

(* closeActive(), when document i is the active one.                          *)
RemoveDocument(i, remember) ==
  LET p == documents[i].path
      list == Append(Forget(closed, p), p)
      rest == RemoveAt(documents, i)
  IN /\ documents' = rest
     /\ active' = IF i <= Len(rest) THEN i ELSE Len(rest)
     /\ closed' = CASE ~remember \/ p = NoPath -> closed
                    [] Len(list) > ClosedLimit /\ remember /\ p # NoPath -> Tail(list)
                    [] OTHER -> list

-----------------------------------------------------------------------------
(* The user: IdeWindow on the UI thread *)

Init ==
  /\ ide = "down" /\ documents = <<>> /\ active = 0 /\ closed = <<>>
  /\ disk \in InitialDisks /\ recovery = <<>>
  /\ spent = [ops |-> 0, external |-> 0, crashes |-> 0]

UserStep == ide # "down" /\ spent.ops < MaxOps /\ spent' = [spent EXCEPT !.ops = @ + 1]
OnActive == UserStep /\ active # 0
Become(d) ==
  /\ documents' = [documents EXCEPT ![active] = d]
  /\ UNCHANGED <<ide, active, closed, disk, recovery>>

NewFile ==
  /\ UserStep
  /\ documents' = Append(documents, NewDocument) /\ active' = Len(documents) + 1
  /\ UNCHANGED <<ide, closed, disk, recovery>>

OpenFile(p) ==
  /\ UserStep /\ OpenDocument(p, closed)
  /\ UNCHANGED <<ide, disk, recovery>>

ReopenClosedDocument ==
  /\ UserStep /\ closed # <<>>
  /\ IF disk[Last(closed)] = NoFile
     THEN closed' = Front(closed) /\ UNCHANGED <<documents, active>>
     ELSE OpenDocument(Last(closed), Front(closed))
  /\ UNCHANGED <<ide, disk, recovery>>

SwitchDocument(i) ==
  /\ UserStep /\ i \in DOMAIN documents /\ i # active
  /\ active' = i
  /\ UNCHANGED <<ide, documents, closed, disk, recovery>>

EditDocument ==
  /\ OnActive
  /\ \E t \in Texts :
       \/ \E grouped \in BOOLEAN : Become(Commit(documents[active], t, grouped))
       \/ documents[active].group /\ Become(Merge(documents[active], t))

UndoEdit == OnActive /\ documents[active].undo # <<>> /\ Become(Undo(documents[active]))
RedoEdit == OnActive /\ documents[active].redo # <<>> /\ Become(Redo(documents[active]))

(* saveAs() and save(). A write that fails changes nothing.                   *)
Destinations(i) == {p \in Paths : Open(p) \subseteq {i}}
SaveTargets(i) == IF documents[i].path = NoPath THEN Destinations(i) ELSE {documents[i].path}
Write(p, t) == disk' = [disk EXCEPT ![p] = t]

SaveTo(p) ==
  /\ Write(p, documents[active].text)
  /\ documents' = [documents EXCEPT ![active] = Saved(@, p)]
  /\ UNCHANGED <<ide, active, closed, recovery>>

SaveDocument == OnActive /\ \E p \in SaveTargets(active) : SaveTo(p)
SaveAs == OnActive /\ \E p \in Destinations(active) : SaveTo(p)

(* saveAs() has written the file, but another program removes it, or makes it *)
(* unreadable for a while, before its fingerprint is taken: saving "fails",   *)
(* also when the document was to be closed after it.                          *)
SaveUnseen ==
  /\ ide # "down" /\ active # 0 /\ spent.ops < MaxOps /\ spent.external < MaxExternal
  /\ spent' = [spent EXCEPT !.ops = @ + 1, !.external = @ + 1]
  /\ \E p \in SaveTargets(active) \union Destinations(active) :
       /\ \E left \in {documents[active].text, NoFile} : Write(p, left)
       /\ documents' = [documents EXCEPT ![active] = SavedUnseen(@, p)]
  /\ UNCHANGED <<ide, active, closed, recovery>>

(* closeActiveDocument(): an unmodified document closes at once, a modified   *)
(* one after Yes and a save that succeeds, or after No.                       *)
CloseWithoutAsking ==
  /\ OnActive /\ ~Modified(documents[active])
  /\ RemoveDocument(active, TRUE)
  /\ UNCHANGED <<ide, disk, recovery>>

CloseSaving ==
  /\ OnActive /\ Modified(documents[active])
  /\ \E p \in SaveTargets(active) :
       /\ Write(p, documents[active].text)
       /\ LET saved == [documents EXCEPT ![active] = Saved(@, p)]
              list == Append(Forget(closed, p), p)
              rest == RemoveAt(saved, active)
          IN /\ documents' = rest
             /\ active' = IF active <= Len(rest) THEN active ELSE Len(rest)
             /\ closed' = IF Len(list) > ClosedLimit THEN Tail(list) ELSE list
  /\ UNCHANGED <<ide, recovery>>

CloseDiscarding ==
  /\ OnActive /\ Modified(documents[active])
  /\ RemoveDocument(active, TRUE)
  /\ UNCHANGED <<ide, disk, recovery>>

(* renameSelectedProjectEntry(). The relative path of an untitled document is *)
(* empty, not "..", so untitled documents are moved to the new name as well.  *)
RenameProjectEntry(p, q) ==
  /\ UserStep /\ ide = "project"
  /\ disk[p] # NoFile /\ disk[q] = NoFile
  /\ disk' = [disk EXCEPT ![p] = NoFile, ![q] = disk[p]]
  /\ documents' = [i \in DOMAIN documents |->
       IF documents[i].path \in {p, NoPath} THEN [documents[i] EXCEPT !.path = q] ELSE documents[i]]
  /\ UNCHANGED <<ide, active, closed, recovery>>

RemoveModifiedFile(p) ==    \* a mistaken variant: unsaved changes are not looked at
  /\ UserStep /\ ide = "project" /\ disk[p] # NoFile
  /\ disk' = [disk EXCEPT ![p] = NoFile]
  /\ IF Open(p) = {} THEN UNCHANGED <<documents, active, closed>>
     ELSE RemoveDocument(First(Open(p)), FALSE)
  /\ UNCHANGED <<ide, recovery>>

(* removeSelectedProjectFile() with "delete from disk".                       *)
RemoveProjectFile(p) ==
  /\ UserStep /\ ide = "project" /\ disk[p] # NoFile
  /\ disk' = [disk EXCEPT ![p] = NoFile]
  /\ IF Open(p) = {} THEN UNCHANGED <<documents, active, closed>>
     ELSE /\ ~Modified(documents[First(Open(p))])
          /\ RemoveDocument(First(Open(p)), FALSE)
  /\ UNCHANGED <<ide, recovery>>

-----------------------------------------------------------------------------
(* The timer *)

(* checkExternalChanges() deals with the first document whose file changed    *)
(* and can be read: any of them, since the others may be unreadable just now. *)
Noticed == {i \in DOMAIN documents : DiskChange(documents[i]) # "unchanged"}
Asking(i) == ide # "down" /\ i \in Noticed /\ active' = i

Reload ==
  \E i \in Noticed :
    /\ Asking(i) /\ DiskChange(documents[i]) = "modified"
    /\ documents' = [documents EXCEPT ![i] = Load(@, @.path)]
    /\ UNCHANGED <<ide, closed, disk, recovery, spent>>

Keep ==
  \E i \in Noticed :
    /\ Asking(i)
    /\ documents' = [documents EXCEPT ![i] = Acknowledged(@)]
    /\ UNCHANGED <<ide, closed, disk, recovery, spent>>

(* Compare, or the dialog is closed: the question comes again.                *)
Postpone ==
  \E i \in Noticed :
    /\ Asking(i)
    /\ UNCHANGED <<ide, documents, closed, disk, recovery, spent>>

Entry(d) == [path |-> d.path, text |-> d.text]
AutosaveActive ==    \* a mistaken variant: only the active document is written
  /\ ide = "project"
  /\ recovery' = IF active # 0 /\ Modified(documents[active]) THEN <<Entry(documents[active])>>
                 ELSE <<>>
  /\ documents' = [i \in DOMAIN documents |->
       [documents[i] EXCEPT !.autosaved = IF Modified(documents[i]) THEN documents[i].text
                                          ELSE NoFile]]
  /\ UNCHANGED <<ide, active, closed, disk, spent>>

(* autosaveRecovery(): saveRecovery() installs the file with rename(2), or    *)
(* fails and leaves the old one; with nothing modified it removes the file.   *)
AutosaveRecovery ==
  /\ ide = "project"
  /\ LET modified == Among(documents, {d \in Range(documents) : Modified(d)}) IN
     recovery' = [i \in DOMAIN modified |-> Entry(modified[i])]
  /\ documents' = [i \in DOMAIN documents |->
       [documents[i] EXCEPT !.autosaved = IF Modified(documents[i]) THEN documents[i].text
                                          ELSE NoFile]]
  /\ UNCHANGED <<ide, active, closed, disk, spent>>

-----------------------------------------------------------------------------
(* Projects, exit and crash *)

Forgotten == documents' = <<>> /\ active' = 0 /\ closed' = <<>>

(* Closing all documents comes first, so there are none when a project opens. *)
ProjectOpens == ide \in {"down", "welcome"} /\ documents = <<>> /\ ide' = "project"

StartWithoutProject ==
  /\ ide = "down" /\ ide' = "welcome"
  /\ UNCHANGED <<documents, active, closed, disk, recovery, spent>>

(* No recovery file, or the dialog about it is closed without an answer.      *)
OpenProject ==
  /\ ProjectOpens /\ Forgotten
  /\ UNCHANGED <<disk, recovery, spent>>

DiscardRecovery ==
  /\ ProjectOpens /\ recovery # <<>> /\ Forgotten
  /\ recovery' = <<>>
  /\ UNCHANGED <<disk, spent>>

(* One round of the loop of restoreRecovery(): s is the documents so far.     *)
RestoreEntry(s, e) ==
  LET opened == {i \in DOMAIN s : e.path # NoPath /\ s[i].path = e.path}
      fresh == IF e.path # NoPath /\ disk[e.path] # NoFile THEN Load(NewDocument, e.path)
               ELSE [NewDocument EXCEPT !.path = e.path]
  IN IF opened # {} THEN [s EXCEPT ![First(opened)] = RestoreText(@, e.text)]
     ELSE Append(s, RestoreText(fresh, e.text))

Restored[n \in 0..Len(recovery)] ==
  IF n = 0 THEN <<>> ELSE RestoreEntry(Restored[n - 1], recovery[n])

RestoreRecovery ==
  /\ ProjectOpens /\ recovery # <<>>
  /\ LET restored == Restored[Len(recovery)]
         last == Last(recovery).path
     IN /\ documents' = restored
        /\ active' = IF last = NoPath THEN Len(restored)
                     ELSE First({i \in DOMAIN restored : restored[i].path = last})
  /\ closed' = <<>> /\ recovery' = <<>>
  /\ UNCHANGED <<disk, spent>>

CloseProject ==
  /\ ide = "project" /\ documents = <<>>
  /\ ide' = "welcome" /\ Forgotten /\ recovery' = <<>>
  /\ UNCHANGED <<disk, spent>>

(* onClose(): clearRecovery() does nothing without a project.                 *)
Leave ==
  /\ ide # "down" /\ ide' = "down" /\ Forgotten
  /\ recovery' = IF ide = "project" THEN <<>> ELSE recovery
  /\ UNCHANGED <<disk, spent>>

Exit == Leave /\ \A i \in DOMAIN documents : ~Modified(documents[i])
ExitDiscarding == Leave /\ \E i \in DOMAIN documents : Modified(documents[i])

Crash ==
  /\ ide # "down" /\ spent.crashes < MaxCrashes
  /\ ide' = "down" /\ Forgotten
  /\ spent' = [spent EXCEPT !.crashes = @ + 1]
  /\ UNCHANGED <<disk, recovery>>

(* Another program writes or removes a file.                                  *)
External(p, t) ==
  /\ spent.external < MaxExternal /\ t # disk[p]
  /\ Write(p, t)
  /\ spent' = [spent EXCEPT !.external = @ + 1]
  /\ UNCHANGED <<ide, documents, active, closed, recovery>>

Next ==
  \/ StartWithoutProject \/ OpenProject \/ DiscardRecovery \/ RestoreRecovery \/ CloseProject
  \/ NewFile \/ ReopenClosedDocument \/ EditDocument \/ UndoEdit \/ RedoEdit
  \/ \E p \in Paths : OpenFile(p) \/ RemoveProjectFile(p)
  \/ \E i \in DOMAIN documents : SwitchDocument(i)
  \/ SaveDocument \/ SaveAs \/ SaveUnseen \/ CloseWithoutAsking \/ CloseSaving \/ CloseDiscarding
  \/ \E p, q \in Paths : RenameProjectEntry(p, q)
  \/ Reload \/ Keep \/ Postpone \/ AutosaveRecovery
  \/ Exit \/ ExitDiscarding \/ Crash
  \/ \E p \in Paths, t \in Foreign : External(p, t)

Spec == Init /\ [][Next]_vars

-----------------------------------------------------------------------------
(* Properties *)

Entries == Seq([before : Nat, after : Nat, from : Texts, to : Texts])
DocumentSet ==
  [path : Paths \union {NoPath}, text : Texts, current : Nat, saved : Nat, next : Nat,
   undo : Entries, redo : Entries, group : BOOLEAN, existed : BOOLEAN,
   fingerprint : Texts \union {NoFile}, base : Texts, kept : BOOLEAN,
   autosaved : Texts \union {NoFile}]

(* The fields hold what the classes declare, the active index names an open   *)
(* document, and an open group is the last history entry with nothing undone. *)
TypeOK ==
  /\ ide \in {"down", "welcome", "project"}
  /\ documents \in Seq(DocumentSet)
  /\ \A i \in DOMAIN documents :
       documents[i].group => documents[i].undo # <<>> /\ documents[i].redo = <<>>
  /\ active \in (IF documents = <<>> THEN {0} ELSE DOMAIN documents)
  /\ closed \in Seq(Paths) /\ Len(closed) <= ClosedLimit
  /\ disk \in [Paths -> Texts \union {NoFile}]
  /\ recovery \in Seq([path : Paths \union {NoPath}, text : Texts])

(* A document without the mark of unsaved changes has the text that was last  *)
(* loaded or saved, wherever grouped edits, undo, redo and saves have led.    *)
UnmodifiedIsSaved ==
  \A i \in DOMAIN documents : ~Modified(documents[i]) => documents[i].text = documents[i].base

(* A document that differs from its file is marked modified, or is reported   *)
(* by the next look at the files, or was kept by the user's own choice, or    *)
(* its last save was reported as failed. (An empty document without a file    *)
(* has nothing to lose.)                                                      *)
OutOfSyncNoticed ==
  \A i \in DOMAIN documents :
    LET d == documents[i] IN
    d.path # NoPath /\ disk[d.path] # d.text /\ (disk[d.path] # NoFile \/ d.text # Empty) =>
      Modified(d) \/ DiskChange(d) # "unchanged" \/ d.kept

(* The window knows where it stands: what is saved, and what is on disk.      *)
StandingKnown == TypeOK /\ UnmodifiedIsSaved /\ OutOfSyncNoticed

(* The recovery file has the text of every modified document that has not     *)
(* changed since the last autosave: a crash loses the changes since then only. *)
RecoveryCovers ==
  ide = "project" =>
    \A i \in DOMAIN documents :
      LET d == documents[i] IN
      Modified(d) /\ d.autosaved = d.text => \E e \in Range(recovery) : e.text = d.text

(* Accepted recovery data is all there: every entry, untitled ones included,  *)
(* is the text of a modified document, unless a later entry has its path.     *)
RestoreComplete ==
  [][RestoreRecovery =>
       \A m \in DOMAIN recovery :
         \/ \E n \in (m + 1)..Len(recovery) :
              recovery[n].path = recovery[m].path /\ recovery[m].path # NoPath
         \/ \E i \in DOMAIN documents' : /\ documents'[i].text = recovery[m].text
                                         /\ documents'[i].path = recovery[m].path
                                         /\ Modified(documents'[i])]_vars

(* The text of a modified document is still open or on disk after every step  *)
(* but an edit, a crash, and those in which the user has chosen to give it up. *)
Held == {documents[i].text : i \in DOMAIN documents} \union Range(disk)
GivenUp == CloseDiscarding \/ ExitDiscarding \/ Reload \/ EditDocument \/ UndoEdit \/ RedoEdit
NothingDiscardedSilently ==
  [][\/ GivenUp \/ Crash
     \/ \A i \in DOMAIN documents : Modified(documents[i]) => documents[i].text \in Held']_vars

(* Nothing but a rename in the project tree gives two documents one path.     *)
Shared == {p \in Paths : \E i, j \in Open(p) : i # j}
OnlyRenameShares ==
  [][(\E p, q \in Paths : RenameProjectEntry(p, q)) \/ Shared' \subseteq Shared]_vars

(* What is in the window, in the files and in the recovery file is accounted  *)
(* for at every step.                                                         *)
TextsKept == NothingDiscardedSilently /\ RestoreComplete /\ OnlyRenameShares

-----------------------------------------------------------------------------
(* The inductive invariant: what the numbers of a document's states mean.     *)

Steps(d) == Range(d.undo) \union Range(d.redo)

(* The states a document can still say it is in, with the texts they had.     *)
Revisions(d) ==
  {<<d.current, d.text>>, <<d.saved, d.base>>}
    \union {<<e.before, e.from>> : e \in Steps(d)} \union {<<e.after, e.to>> : e \in Steps(d)}

(* Editing, undoing and redoing can lead back to the saved state.             *)
SavedReachable(d) == d.saved = d.current \/ \E e \in Steps(d) : d.saved \in {e.before, e.after}

(* One number never stands for two texts, and a document that can be          *)
(* unmodified has the saved text in its file as far as it knows the file.     *)
RevisionInv(d) ==
  /\ \A r \in Revisions(d) : r[1] <= d.next
  /\ \A r, s \in Revisions(d) : r[1] = s[1] => r[2] = s[2]
FileInv(d) ==
  SavedReachable(d) /\ ~d.kept => d.base = IF d.existed THEN d.fingerprint ELSE Empty

(* What was autosaved in this project is in its recovery file.                *)
AutosaveInv ==
  ide = "project" =>
    \A i \in DOMAIN documents :
      documents[i].autosaved # NoFile =>
        \E e \in Range(recovery) : e.text = documents[i].autosaved

IInv ==
  /\ TypeOK /\ AutosaveInv
  /\ \A i \in DOMAIN documents : RevisionInv(documents[i]) /\ FileInv(documents[i])
=============================================================================
