----------------------------- MODULE WorkspaceEdit -----------------------------
(* A workspace edit of the language server (IdeWindow::applyWorkspaceEdit) and *)
(* a replacement in the whole project (IdeWindow::replaceAll): file            *)
(* operations, run by WorkspaceFileTransaction, and changes of the text of     *)
(* files, some of them open in the editor. A closed file is loaded, changed    *)
(* and saved at once; an open document is only changed. Whatever fails on the  *)
(* way takes back what was done before.                                        *)
(*                                                                             *)
(* The text of a file is a value and Changed[t] the text after the change the  *)
(* edit makes in it. A request is the operations, the changes, and the         *)
(* documents that are open when it arrives.                                    *)
EXTENDS WorkspaceFileTransaction

CONSTANTS
  Requests,    \* [kind, operations, changes, open]
  Changed,     \* text |-> the text after the change
  None

VARIABLES
  request,
  docs,        \* the open documents: [path, text]
  prepared,    \* the changes still to make: [path, doc, original], doc is None for a closed file
  saved,       \* the closed files already written
  relocated,   \* the documents moved with a renamed file: [doc, path]
  step         \* how far applyWorkspaceEdit() has got

editVars == <<request, docs, prepared, saved, relocated, step>>
allVars == <<vars, editVars>>

Docs == DOMAIN docs
Renaming(o) == o.kind = "rename"
Ops == {operations[i] : i \in DOMAIN operations}

-----------------------------------------------------------------------------
(* Preparation: nothing is changed before the user has seen the preview.      *)

(* An open document may not be deleted, nor replaced by a renamed file. *)
OpenInTheWay ==
  \E d \in Docs, o \in Ops :
    \/ o.kind = "delete" /\ docs[d].path = o.path
    \/ Renaming(o) /\ docs[d].path = o.newPath

(* where the text of the file is before the operations: the last rename of    *)
(* the list that leads to its path                                            *)
SourcePath(path) ==
  LET to == {i \in DOMAIN operations : Renaming(operations[i]) /\ operations[i].newPath = path}
  IN  IF to = {} THEN path ELSE operations[CHOOSE i \in to : \A j \in to : j <= i].path
CreatesFile(path) == \E o \in Ops : o.kind = "create" /\ o.path = path
Target(path) ==
  LET same == {d \in Docs : docs[d].path = SourcePath(path)}
  IN  IF same = {} THEN None ELSE CHOOSE d \in same : TRUE
IsFile(f, p) == p \in DOMAIN f /\ f[p] # "dir"
(* what the loaded document holds *)
Original(path) ==
  IF CreatesFile(path) /\ ~Exists(fs, SourcePath(path)) THEN "new" ELSE fs[SourcePath(path)]
Loads(path) ==
  \/ CreatesFile(path) /\ ~Exists(fs, SourcePath(path))
  \/ IsFile(fs, SourcePath(path))

Acceptable(c) ==
  /\ c.version = "current" => Target(c.path) # None
  /\ c.version # "stale"
  /\ Target(c.path) = None => Loads(c.path)
  /\ c.fits
Prepared(c) ==
  [path |-> c.path, doc |-> Target(c.path),
   original |-> IF Target(c.path) = None THEN Original(c.path) ELSE docs[Target(c.path)].text]

Duplicates == \E i, j \in DOMAIN request.changes : i # j /\ request.changes[i].path = request.changes[j].path

PrepareEdit ==
  /\ step = "received" /\ request.kind = "edit"
  /\ Prepare
  /\ IF \/ phase' = "rejected" \/ OpenInTheWay \/ Duplicates
        \/ \E i \in DOMAIN request.changes : ~Acceptable(request.changes[i])
        \/ request.changes = <<>> /\ operations = <<>>
     THEN step' = "refused" /\ UNCHANGED prepared
     ELSE step' = "asking" /\ prepared' = [i \in DOMAIN request.changes |-> Prepared(request.changes[i])]
  /\ UNCHANGED <<request, docs, saved, relocated>>

(* A replacement in the project has no operations; its changes are the files  *)
(* of the tree in which the text was found.                                   *)
PrepareReplace ==
  /\ step = "received" /\ request.kind = "replace"
  /\ Prepare
  /\ IF \E i \in DOMAIN request.changes : Target(request.changes[i].path) = None /\ ~Loads(request.changes[i].path)
     THEN step' = "refused" /\ UNCHANGED prepared
     ELSE step' = "asking" /\ prepared' = [i \in DOMAIN request.changes |-> Prepared(request.changes[i])]
  /\ UNCHANGED <<request, docs, saved, relocated>>

Answer ==   \* the preview: Apply or Cancel
  /\ step = "asking" /\ step' \in {"applying", "refused"}
  /\ UNCHANGED <<vars, request, docs, prepared, saved, relocated>>

-----------------------------------------------------------------------------
(* The operations, and the documents of renamed files *)

Operate ==
  /\ step = "applying"
  /\ ApplyCreate \/ ApplyRename \/ ApplyDelete \/ Applied \/ UndoLast \/ RolledBack
  /\ UNCHANGED <<request, docs, prepared, saved, relocated>>
  /\ step' = CASE phase' = "applied" -> "relocating" [] phase' = "rolledBack" -> "refused" [] OTHER -> step

(* In the order of the operations, each for the documents at its old path.    *)
Relocation(moved, a) ==
  LET o == operations[a.index]
      here == {d \in Docs : Renaming(o) /\ moved.docs[d].path = o.path}
  IN  [docs |-> [d \in Docs |-> IF d \in here THEN [moved.docs[d] EXCEPT !.path = o.newPath] ELSE moved.docs[d]],
       log |-> moved.log \o SetToSeq({[doc |-> d, path |-> o.path] : d \in here})]
Relocated == FoldLeft(Relocation, [docs |-> docs, log |-> <<>>], applied)
Relocate ==
  /\ step = "relocating" /\ step' = "saving"
  /\ docs' = Relocated.docs /\ relocated' = Relocated.log
  /\ UNCHANGED <<vars, request, prepared, saved>>

-----------------------------------------------------------------------------
(* The closed files are written one after the other. *)

Write(s, p, text, undoing) ==
  (IF IsDirectory(s.fs, p) \/ ~IsDirectory(s.fs, Parent(p)) THEN {[s EXCEPT !.ok = FALSE]}
   ELSE {[s EXCEPT !.fs = (p :> text) @@ @, !.ok = TRUE]})
  \union Failures(s, undoing)

Closed == SelectSeq(prepared, LAMBDA f : f.doc = None)
ToSave == Closed[Len(saved) + 1]
SaveClosed ==
  /\ step = "saving" /\ Len(saved) < Len(Closed)
  /\ \E s \in Write(State, ToSave.path, Changed[ToSave.original], FALSE) :
       /\ Become(s)
       /\ IF s.ok THEN saved' = Append(saved, ToSave) /\ UNCHANGED step
          ELSE saved' = <<ToSave>> \o saved /\ step' = "restoring"
  /\ UNCHANGED <<before, operations, next, applied, phase, request, docs, prepared, relocated>>

(* A variant that writes back only the file that failed. *)
RestoreFailedOnly ==
  /\ step = "restoring"
  /\ IF saved # <<>>
     THEN /\ \E s \in Write(State, Head(saved).path, Head(saved).original, TRUE) : Become(s)
          /\ saved' = <<>>
          /\ UNCHANGED <<phase, step, next, applied>>
     ELSE /\ RollBack /\ step' = "rolling back"
          /\ UNCHANGED saved
  /\ UNCHANGED <<before, operations, request, docs, prepared, relocated>>

(* The texts that were loaded are written back, that of the file that failed  *)
(* first, then the operations undone, then the documents moved back.          *)
RestoreSaved ==
  /\ step = "restoring"
  /\ IF saved # <<>>
     THEN /\ \E s \in Write(State, Head(saved).path, Head(saved).original, TRUE) : Become(s)
          /\ saved' = Tail(saved)
          /\ UNCHANGED <<phase, step, next, applied>>
     ELSE /\ RollBack /\ step' = "rolling back"
          /\ UNCHANGED saved
  /\ UNCHANGED <<before, operations, request, docs, prepared, relocated>>

UndoOperations ==
  /\ step = "rolling back"
  /\ UndoLast \/ RolledBack
  /\ step' = IF phase' = "rolledBack" THEN "moving back" ELSE step
  /\ UNCHANGED <<request, docs, prepared, saved, relocated>>

(* A variant that forgets to move the documents back. *)
LeaveRelocated ==
  /\ step = "moving back" /\ step' = "refused"
  /\ UNCHANGED <<vars, request, docs, prepared, saved, relocated>>

MoveBack ==
  /\ step = "moving back" /\ step' = "refused"
  /\ docs' = FoldRight(LAMBDA r, open : [open EXCEPT ![r.doc].path = r.path], relocated, docs)
  /\ UNCHANGED <<vars, request, prepared, saved, relocated>>

(* The open documents are changed last, when nothing can fail any more.       *)
ChangeOpen ==
  /\ step = "saving" /\ Len(saved) = Len(Closed) /\ step' = "committing"
  /\ LET changes == {prepared[i].doc : i \in DOMAIN prepared} IN
     docs' = [d \in Docs |-> IF d \in changes THEN [docs[d] EXCEPT !.text = Changed[@]] ELSE docs[d]]
  /\ UNCHANGED <<vars, request, prepared, saved, relocated>>

CommitEdit ==
  /\ step = "committing"
  /\ Commit \/ Committed
  /\ step' = IF phase' = "committed" THEN "done" ELSE step
  /\ UNCHANGED <<request, docs, prepared, saved, relocated>>

EditInit ==
  /\ request \in Requests /\ operations = request.operations
  /\ fs \in Trees /\ before = fs /\ next = 1 /\ applied = <<>> /\ phase = "received"
  /\ faults = 0 /\ cleanup = 0
  /\ docs = request.open
  /\ prepared = <<>> /\ saved = <<>> /\ relocated = <<>> /\ step = "received"

EditNext ==
  \/ PrepareEdit \/ PrepareReplace \/ Answer \/ Operate \/ Relocate \/ SaveClosed
  \/ RestoreSaved \/ UndoOperations \/ MoveBack \/ ChangeOpen \/ CommitEdit

EditSpec == EditInit /\ [][EditNext]_allVars

-----------------------------------------------------------------------------
(* Properties *)

EditTypeOK ==
  /\ TypeOK
  /\ step \in {"received", "refused", "asking", "applying", "relocating", "saving", "restoring",
               "rolling back", "moving back", "committing", "done"}
  /\ Len(saved) <= Len(Closed)
  /\ \A i \in DOMAIN relocated : relocated[i].doc \in Docs

(* The tree the edit asks for, its changes of closed files included.          *)
Edited(f) ==
  FoldLeft(LAMBDA tree, c : IF c.doc = None THEN [tree EXCEPT ![c.path] = Changed[@]] ELSE tree, f, prepared)
(* A change of a closed file is made in the text the file has before the      *)
(* operations and written to the path it names. That is the requested file    *)
(* unless a created file replaces it, or the path is the old one of a renamed *)
(* file.                                                                      *)
Addressed(c) ==
  c.doc = None => /\ c.path \in DOMAIN Requested
                  /\ \A o \in Ops : ~(o.kind = "create" /\ o.overwrite /\ o.path = c.path)

(* Which documents follow which operations, and what a finished edit has done. *)
DirectoryOperation(o) == o.kind \in {"rename", "delete"} /\ IsDirectory(before, o.path)
Follows(path) ==
  FoldLeft(LAMBDA p, o : IF Renaming(o) /\ o.path = p THEN o.newPath ELSE p, path, operations)
AllDone ==
  /\ Requested # Refused
  /\ (\A i \in DOMAIN prepared : Addressed(prepared[i])) => Visible(fs) = Edited(Requested)
  /\ \A d \in Docs :
       /\ docs[d].text = IF \E i \in DOMAIN prepared : prepared[i].doc = d THEN Changed[request.open[d].text]
                         ELSE request.open[d].text
       /\ docs[d].path = request.open[d].path \/ docs[d].path = Follows(request.open[d].path)
       /\ (\A o \in Ops : ~DirectoryOperation(o)) => docs[d].path \in DOMAIN fs
(* No backup is left in the project, except one in a directory that a later   *)
(* operation has renamed: commit() looks for it at its old path.              *)
BackupsGone == \A p \in DOMAIN fs : ~HasBackup(p)

(* When the command is over it has done everything or nothing, in the tree    *)
(* and in the documents: each document that was open shows its own text,      *)
(* changed or not, under the path its file has now; unless a step that takes  *)
(* something back has failed. Directories that are moved or deleted with open *)
(* documents in them are the exception, as the README records.                *)
AllOrNothing ==
  /\ EditTypeOK
  /\ step = "refused" /\ cleanup = 0 => fs = before /\ docs = request.open
  /\ step = "done" => AllDone
  /\ step = "done" /\ faults = 0 /\ (\A o \in Ops : ~DirectoryOperation(o)) => BackupsGone

(* No text the edit found is lost before it is committed: at every step some  *)
(* file holds it, as it was or changed.                                       *)
TextKept ==
  phase \notin {"committing", "committed"} /\ cleanup = 0 =>
    \A p \in DOMAIN before : before[p] # "dir" =>
      \E q \in DOMAIN fs : fs[q] \in {before[p], Changed[before[p]]}
=============================================================================
