---------------------- MODULE WorkspaceFileTransaction ----------------------
(* WorkspaceFileTransaction (src/src/workspace_file_transaction.cpp): the      *)
(* create / rename / delete part of a workspace edit, applied with backups so  *)
(* that IdeWindow::applyWorkspaceEdit can roll it back.                        *)
(*                                                                             *)
(* The project tree is a function from the paths that exist to "dir" or to the *)
(* content of a file. A path is a sequence of names, the root is <<>>, and a   *)
(* name is <<base, n>>: n = 0 for a user's name, n > 0 for the backup          *)
(* ".base.tuiide-lsp-backup-(n-1)". Every system call that changes the tree    *)
(* may fail without having done anything; at most MaxFaults of them do.        *)
EXTENDS Naturals, Sequences, SequencesExt, FiniteSets

CONSTANTS
  Bases,       \* the names a user gives
  Trees,       \* the trees a transaction may start from
  Edits,       \* the lists of operations clangd may send
  MaxFaults    \* bound on the system calls that fail for no visible reason

VARIABLES
  fs,          \* the tree
  before,      \* the tree when apply() was called
  operations,  \* operations_
  next,        \* the operation apply() is at
  applied,     \* applied_: the operation's index, the backup, <<>> for none, and the tree
               \* before the operation, which is not in the code
  phase,       \* how far the owner has got with the transaction
  faults,      \* system calls that have failed so far
  cleanup      \* those of them that were undoing something
vars == <<fs, before, operations, next, applied, phase, faults, cleanup>>

-----------------------------------------------------------------------------
(* The file system *)

PathSet == Seq(Bases \X Nat)
HasBackup(p) == \E i \in DOMAIN p : p[i][2] > 0

Exists(f, p) == p = <<>> \/ p \in DOMAIN f
IsDirectory(f, p) == p = <<>> \/ (p \in DOMAIN f /\ f[p] = "dir")
Parent(p) == Front(p)
Below(f, p) == {q \in DOMAIN f : IsStrictPrefix(p, q)}
IsEmpty(f, p) == Below(f, p) = {}
WithNew(f, p) == [q \in DOMAIN f \union {p} |-> IF q = p THEN "new" ELSE f[q]]
RemoveAll(f, p) == [q \in {r \in DOMAIN f : ~IsPrefix(p, r)} |-> f[q]]

(* What a project can be: every entry but those at the root is in a directory. *)
IsTree(f) ==
  /\ f = [p \in DOMAIN f |-> f[p]] /\ IsFiniteSet(DOMAIN f)
  /\ DOMAIN f \subseteq PathSet \ {<<>>}
  /\ \A p \in DOMAIN f : \A n \in 1..(Len(p) - 1) : IsDirectory(f, SubSeq(p, 1, n))

OperationSet ==
  [kind : {"create", "rename", "delete"}, path : PathSet, newPath : PathSet, overwrite : BOOLEAN,
   ignoreIfExists : BOOLEAN, recursive : BOOLEAN, ignoreIfNotExists : BOOLEAN]

ASSUME TransactionAssumption ==
  /\ MaxFaults \in Nat /\ Edits \subseteq Seq(OperationSet)
  /\ \A f \in Trees : IsTree(f)
(* clangd knows nothing of the backups, and names none of them. *)
ASSUME NamesAssumption ==
  \A e \in Edits : \A i \in DOMAIN e : ~HasBackup(e[i].path) /\ ~HasBackup(e[i].newPath)

(* rename(2): a whole subtree moves, an existing destination is replaced when *)
(* it is a file and so is the source.                                         *)
CanMove(f, p, q) ==
  /\ p \in DOMAIN f /\ IsDirectory(f, Parent(q)) /\ ~IsPrefix(p, q)
  /\ Exists(f, q) => (f[p] # "dir" /\ ~IsDirectory(f, q))
Moved(p, q, r) == q \o SubSeq(r, Len(p) + 1, Len(r))
Move(f, p, q) ==
  LET tree == {r \in DOMAIN f : IsPrefix(p, r)}
      rest == DOMAIN f \ (tree \union {q})
  IN [r \in rest \union {Moved(p, q, t) : t \in tree} |->
        IF r \in rest THEN f[r] ELSE f[Moved(q, p, r)]]

(* The outcomes of a call on the state s, a record of the tree and of the     *)
(* faults: done, refused by the file system, or failed for no visible reason. *)
State == [fs |-> fs, faults |-> faults, cleanup |-> cleanup, ok |-> TRUE]
Failures(s, undoing) ==
  IF s.faults < MaxFaults
  THEN {[s EXCEPT !.faults = @ + 1, !.cleanup = IF undoing THEN @ + 1 ELSE @, !.ok = FALSE]}
  ELSE {}
Rename(s, p, q, undoing) ==
  {IF CanMove(s.fs, p, q) THEN [s EXCEPT !.fs = Move(@, p, q), !.ok = TRUE]
   ELSE [s EXCEPT !.ok = FALSE]} \union Failures(s, undoing)
Delete(s, p, undoing) ==
  {[s EXCEPT !.fs = RemoveAll(@, p), !.ok = TRUE]} \union
  (IF Exists(s.fs, p) THEN Failures(s, undoing) ELSE {})
CreateFile(s, p) ==
  {IF IsDirectory(s.fs, p) THEN [s EXCEPT !.ok = FALSE]
   ELSE [s EXCEPT !.fs = WithNew(@, p), !.ok = TRUE]} \union Failures(s, FALSE)

(* The first backup name that is free next to p.                              *)
BackupPath(f, p) ==
  LET candidate(n) == Append(Parent(p), <<Last(p)[1], n + 1>>)
      n == CHOOSE k \in 0..Cardinality(DOMAIN f) :
             /\ candidate(k) \notin DOMAIN f
             /\ \A j \in 0..(k - 1) : candidate(j) \in DOMAIN f
  IN candidate(n)

-----------------------------------------------------------------------------
Init ==
  /\ fs \in Trees /\ before = fs
  /\ operations \in Edits
  /\ next = 1 /\ applied = <<>> /\ phase = "received"
  /\ faults = 0 /\ cleanup = 0

Valid(o) ==
  /\ o.path # <<>>
  /\ o.kind = "rename" => o.newPath # <<>> /\ o.newPath # o.path

Prepare ==
  /\ phase = "received"
  /\ phase' = IF \A i \in DOMAIN operations : Valid(operations[i]) THEN "applying" ELSE "rejected"
  /\ UNCHANGED <<fs, before, operations, next, applied, faults, cleanup>>

Op == operations[next]
Applying(kind) == phase = "applying" /\ next <= Len(operations) /\ Op.kind = kind

Become(s) == fs' = s.fs /\ faults' = s.faults /\ cleanup' = s.cleanup

Skip ==
  /\ next' = next + 1
  /\ UNCHANGED <<fs, before, operations, applied, phase, faults, cleanup>>

(* An error ends the loop; rollback() follows.                                *)
Stop(s) ==
  /\ Become(s) /\ phase' = "failing"
  /\ UNCHANGED <<before, operations, next, applied>>

Done(s, backup) ==
  /\ Become(s)
  /\ applied' = Append(applied, [index |-> next, backup |-> backup, tree |-> fs])
  /\ next' = next + 1
  /\ UNCHANGED <<before, operations, phase>>

(* Moves an existing target out of the way; <<>> when there is none.          *)
Preserve(target) ==
  IF Exists(fs, target)
  THEN LET b == BackupPath(fs, target) IN
       {[state |-> s, backup |-> b] : s \in Rename(State, target, b, FALSE)}
  ELSE {[state |-> State, backup |-> <<>>]}

(* Puts the preserved target back after the operation itself failed.          *)
Restore(s, backup, target) ==
  IF backup = <<>> THEN {s} ELSE Rename(s, backup, target, TRUE)

ApplyCreate ==
  /\ Applying("create")
  /\ CASE Exists(fs, Op.path) /\ Op.ignoreIfExists -> Skip
       [] Exists(fs, Op.path) /\ ~Op.ignoreIfExists /\ ~Op.overwrite -> Stop(State)
       [] ~Exists(fs, Op.path) /\ ~IsDirectory(fs, Parent(Op.path)) -> Stop(State)
       [] OTHER ->
          \E kept \in Preserve(Op.path) :
            IF ~kept.state.ok THEN Stop(kept.state)
            ELSE \E made \in CreateFile(kept.state, Op.path) :
                   IF made.ok THEN Done(made, kept.backup)
                   ELSE \E back \in Restore(made, kept.backup, Op.path) : Stop(back)

(* A variant that lets rename(2) replace the destination.                     *)
RenameWithoutBackup ==
  /\ Applying("rename")
  /\ IF ~Exists(fs, Op.path) THEN Stop(State)
     ELSE \E moved \in Rename(State, Op.path, Op.newPath, FALSE) :
            IF moved.ok THEN Done(moved, <<>>) ELSE Stop(moved)

ApplyRename ==
  /\ Applying("rename")
  /\ CASE ~Exists(fs, Op.path) -> Stop(State)
       [] Exists(fs, Op.path) /\ Exists(fs, Op.newPath) /\ Op.ignoreIfExists -> Skip
       [] Exists(fs, Op.path) /\ Exists(fs, Op.newPath) /\ ~Op.ignoreIfExists /\ ~Op.overwrite ->
            Stop(State)
       [] Exists(fs, Op.path) /\ ~Exists(fs, Op.newPath) /\ ~IsDirectory(fs, Parent(Op.newPath)) ->
            Stop(State)
       [] OTHER ->
          \E kept \in Preserve(Op.newPath) :
            IF ~kept.state.ok THEN Stop(kept.state)
            ELSE \E moved \in Rename(kept.state, Op.path, Op.newPath, FALSE) :
                   IF moved.ok THEN Done(moved, kept.backup)
                   ELSE \E back \in Restore(moved, kept.backup, Op.newPath) : Stop(back)

DeleteNeedsTarget ==    \* a mistaken variant: ignoreIfNotExists is not looked at
  /\ Applying("delete")
  /\ IF ~Exists(fs, Op.path) \/ (~Op.recursive /\ ~IsEmpty(fs, Op.path)) THEN Stop(State)
     ELSE \E kept \in Preserve(Op.path) :
            IF kept.state.ok THEN Done(kept.state, kept.backup) ELSE Stop(kept.state)

ApplyDelete ==
  /\ Applying("delete")
  /\ CASE ~Exists(fs, Op.path) /\ Op.ignoreIfNotExists -> Skip
       [] ~Exists(fs, Op.path) /\ ~Op.ignoreIfNotExists -> Stop(State)
       [] Exists(fs, Op.path) /\ ~Op.recursive /\ ~IsEmpty(fs, Op.path) -> Stop(State)
       [] OTHER ->
          \E kept \in Preserve(Op.path) :
            IF kept.state.ok THEN Done(kept.state, kept.backup) ELSE Stop(kept.state)

Applied ==
  /\ phase = "applying" /\ next > Len(operations)
  /\ phase' = "applied"
  /\ UNCHANGED <<fs, before, operations, next, applied, faults, cleanup>>

-----------------------------------------------------------------------------
(* rollback(), called by apply() itself or by the owner whose own step failed *)

RollBack ==
  /\ phase = "applied"
  /\ phase' = "failing"
  /\ UNCHANGED <<fs, before, operations, next, applied, faults, cleanup>>

(* The calls that undo the last applied operation a: each is made only if the *)
(* one before it succeeded.                                                   *)
Undo(a) ==
  LET o == operations[a.index]
      Back(s, target) ==
        IF s.ok /\ a.backup # <<>> THEN Rename(s, a.backup, target, TRUE) ELSE {s}
  IN CASE o.kind = "create" -> UNION {Back(s, o.path) : s \in Delete(State, o.path, TRUE)}
       [] o.kind = "rename" ->
            UNION {Back(s, o.newPath) : s \in Rename(State, o.newPath, o.path, TRUE)}
       [] o.kind = "delete" -> Rename(State, a.backup, o.path, TRUE)

UndoLast ==
  /\ phase = "failing" /\ applied # <<>>
  /\ \E s \in Undo(Last(applied)) : Become(s)
  /\ applied' = Front(applied)
  /\ UNCHANGED <<before, operations, next, phase>>

RolledBack ==
  /\ phase = "failing" /\ applied = <<>>
  /\ phase' = "rolledBack"
  /\ UNCHANGED <<fs, before, operations, next, applied, faults, cleanup>>

(* commit(): the backups go, oldest first; one that cannot be removed stays.  *)
Commit ==
  /\ phase \in {"applied", "committing"} /\ applied # <<>>
  /\ phase' = "committing"
  /\ IF Head(applied).backup = <<>> THEN Become(State)
     ELSE \E s \in Delete(State, Head(applied).backup, TRUE) : Become(s)
  /\ applied' = Tail(applied)
  /\ UNCHANGED <<before, operations, next>>

Committed ==
  /\ phase \in {"applied", "committing"} /\ applied = <<>>
  /\ phase' = "committed"
  /\ UNCHANGED <<fs, before, operations, next, applied, faults, cleanup>>

Next ==
  \/ Prepare \/ ApplyCreate \/ ApplyRename \/ ApplyDelete \/ Applied
  \/ RollBack \/ UndoLast \/ RolledBack \/ Commit \/ Committed

Spec == Init /\ [][Next]_vars

-----------------------------------------------------------------------------
(* What the edit asks for, with no backups and no faults: the tree after its   *)
(* first n operations, or Refused, which is no tree.                          *)
Refused == [p \in {<<>>} |-> "refused"]
Perform(f, o) ==
  IF f = Refused THEN f ELSE
  CASE o.kind = "create" ->
         CASE Exists(f, o.path) /\ o.ignoreIfExists -> f
           [] ~Exists(f, o.path) /\ ~IsDirectory(f, Parent(o.path)) -> Refused
           [] Exists(f, o.path) /\ ~o.ignoreIfExists /\ ~o.overwrite -> Refused
           [] OTHER -> WithNew(RemoveAll(f, o.path), o.path)
    [] o.kind = "rename" ->
         LET cleared == RemoveAll(f, o.newPath) IN
         CASE ~Exists(f, o.path) -> Refused
           [] Exists(f, o.path) /\ Exists(f, o.newPath) /\ o.ignoreIfExists -> f
           [] Exists(f, o.path) /\ Exists(f, o.newPath) /\ ~o.ignoreIfExists /\ ~o.overwrite -> Refused
           [] OTHER -> IF CanMove(cleared, o.path, o.newPath)
                       THEN Move(cleared, o.path, o.newPath) ELSE Refused
    [] o.kind = "delete" ->
         CASE ~Exists(f, o.path) /\ o.ignoreIfNotExists -> f
           [] ~Exists(f, o.path) /\ ~o.ignoreIfNotExists -> Refused
           [] Exists(f, o.path) /\ ~o.recursive /\ ~IsEmpty(f, o.path) -> Refused
           [] OTHER -> RemoveAll(f, o.path)

Performed(f, edit, n) ==
  LET after[i \in 0..Len(edit)] == IF i = 0 THEN f ELSE Perform(after[i - 1], edit[i])
  IN  after[n]
Requested == Performed(before, operations, Len(operations))
Visible(f) == [p \in {q \in DOMAIN f : ~HasBackup(q)} |-> f[p]]

(* The fields hold what the class declares, and the tree is a tree.           *)
TypeOK ==
  /\ next \in 1..(Len(operations) + 1)
  /\ faults \in 0..MaxFaults /\ cleanup \in 0..faults
  /\ phase \in {"received", "rejected", "applying", "applied", "failing", "rolledBack",
                "committing", "committed"}
  /\ \A i \in DOMAIN applied : applied[i].index \in 1..Len(operations)
  /\ IsTree(fs)

(* All or nothing: a transaction that failed, or that its owner rolled back,  *)
(* leaves exactly the tree it found, unless undoing itself met a fault.       *)
RollbackRestores ==
  phase \in {"rejected", "rolledBack"} /\ cleanup = 0 => fs = before

HoldsBackup(p) == \E q \in DOMAIN fs : IsPrefix(p, q) /\ HasBackup(q)

(* Without faults, only an edit that cannot be performed is refused. The       *)
(* exception is a directory to be deleted when empty in which an earlier       *)
(* operation of the same edit has left a backup.                               *)
RefusedRightly ==
  [][phase = "applying" /\ phase' = "failing" /\ faults' = 0 =>
       Requested = Refused \/ (Op.kind = "delete" /\ ~Op.recursive /\ HoldsBackup(Op.path))]_vars

(* A plan that apply() has carried out, whatever backups it took on the way,   *)
(* shows the user exactly the tree the edit asks for.                          *)
Clean == \A p \in DOMAIN before : ~HasBackup(p)
AppliedAsRequested ==
  [][phase = "applying" /\ phase' = "applied" /\ Clean => Visible(fs') = Requested]_vars

(* The two together: apply() ends as the edit says, for better or worse.      *)
OutcomeAsRequested == RefusedRightly /\ AppliedAsRequested

-----------------------------------------------------------------------------
(* The inductive invariant: what undoing the applied operations will do.      *)

(* Undoing the applied operation a in the tree f meets no refusal, and gives  *)
(* the tree the operation was applied to.                                     *)
Returns(f, p, q, g) == CanMove(f, p, q) /\ Move(f, p, q) = g
Undoes(a, f) ==
  LET o == operations[a.index] IN
  CASE o.kind = "create" ->
         IF a.backup = <<>> THEN RemoveAll(f, o.path) = a.tree
         ELSE Returns(RemoveAll(f, o.path), a.backup, o.path, a.tree)
    [] o.kind = "rename" ->
         /\ CanMove(f, o.newPath, o.path)
         /\ IF a.backup = <<>> THEN Move(f, o.newPath, o.path) = a.tree
            ELSE Returns(Move(f, o.newPath, o.path), a.backup, o.newPath, a.tree)
    [] o.kind = "delete" -> Returns(f, a.backup, o.path, a.tree)

(* The trees between the operations, up to the one there is now.              *)
TreeAfter(i) == IF i = Len(applied) THEN fs ELSE applied[i + 1].tree
Undoable ==
  /\ TreeAfter(0) = before
  /\ \A i \in DOMAIN applied : Undoes(applied[i], TreeAfter(i))

IInv ==
  /\ TypeOK /\ operations \in Seq(OperationSet)
  /\ applied \in Seq(Range(applied))
  /\ \A i \in DOMAIN applied : applied[i].backup \in PathSet /\ IsTree(applied[i].tree)
  /\ phase \in {"received", "rejected"} => applied = <<>> /\ fs = before
  /\ phase \in {"applying", "applied", "failing"} => \A i \in DOMAIN operations : Valid(operations[i])
  /\ phase \in {"received", "applying", "applied"} => cleanup = 0
  /\ phase \in {"applying", "applied", "failing"} /\ cleanup = 0 => Undoable
  /\ phase = "rolledBack" /\ cleanup = 0 => fs = before

(* The inductive invariant of what apply() has done: the operations behind it  *)
(* are refused only for a backup in a directory, and if they are not they give *)
(* what the user sees.                                                        *)
SameFiles(f, g) ==
  \A p \in PathSet : ~HasBackup(p) =>
    /\ p \in DOMAIN f <=> p \in DOMAIN g
    /\ p \in DOMAIN f => f[p] = g[p]
Agreed(f, g) ==
  IF g = Refused THEN ~Clean
  ELSE IsTree(g) /\ SameFiles(f, g) /\ (Clean => \A p \in DOMAIN g : ~HasBackup(p))
RInv ==
  /\ \A i \in DOMAIN operations : ~HasBackup(operations[i].path) /\ ~HasBackup(operations[i].newPath)
  /\ phase = "received" => next = 1
  /\ phase = "applying" => Agreed(fs, Performed(before, operations, next - 1))
=============================================================================
