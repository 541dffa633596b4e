# Formal models of tuiide

TLA+ specifications of tuiide, a C++20 terminal IDE: the child processes it talks
to and the decoders of their output, the language client, the two debugger
clients, builds, tests, analysis and git, the open documents with their editor and
their recovery, refactorings, projects, settings. TLC checks the models on small
instances; TLAPS proves theorems about `AsyncProcess`, `PseudoTerminal`, `Documents`,
`WorkspaceFileTransaction`, `Workbench`, `LspClient`, `GdbClient`, `LldbDap` and `Projects` for every instance.

Paths below are relative to the repository's source directory (`process.cpp` is
src/process.cpp, headers are in include/tuiide).

1. [The system](#1-the-system) · 2. [The plan](#2-the-plan) · 3. [Modules](#3-modules) ·
4. [Runs](#4-runs) · 5. [Proofs](#5-proofs) ·
6. [Where the code disagrees with what one would expect](#6-where-the-code-disagrees-with-what-one-would-expect) ·
7. [Not modelled](#7-not-modelled)

## 1. The system

One UI thread runs everything. `IdeWindow` (ide_window.cpp) owns all other
components and calls them from two places: a command of the user
(`handleCommand`, menus, dialogs) and the timer (`onTimer`, every 100 ms), which
polls every component that has a process behind it. Only `AsyncProcess` and
`PseudoTerminal` have threads of their own. Nothing else is concurrent inside the
program, but each tool (clangd, gdb, lldb-dap, cmake, ctest, git, the program being
run) is a process that answers when it likes, and other programs change the same
files. A modal dialog stops the timer until it is closed.

| Component | State | Operations | Where it can go wrong |
|---|---|---|---|
| `AsyncProcess` | pid, process group, input, `running_`, `exit_code_`, `output_`, two threads | start, write, closeInput, drain, stop | two threads against `stop()`; descendants that outlive the leader, leave the group, keep the pipe |
| `PseudoTerminal`, `RunSession` | master side, two threads, output, the run's mode | start, write, stop, poll | the reader's end against the last output; a debuggee that outlives its session |
| `JsonRpcFramer`, `BuildOutputCollector`, `parseGitStatus`, `TerminalBuffer` | what has arrived of an unfinished message | append, finish, clear | messages cut anywhere |
| `LspClient` | open documents with versions, pending requests, semantic-token queue | start, stop, open, change, close, request…, poll | answers after the text, the document or the session changed; didOpen/didChange/didClose pairing |
| `LspUiController` | outline observed, asked for, shown | observe, route, updateOutline, acceptOutline | the outline of another text |
| `WorkspaceFileTransaction`, `applyWorkspaceEdit` | operations, backups; changes of open and closed files | prepare, apply, rollback, commit | one of several steps fails |
| `GdbClient`, `LldbDapClient`, `DebugClient` | outstanding commands, breakpoints, stop state, stack, variables, watches | start, attach, run, stop, breakpoints, selectFrame, poll | answers after the request became moot; optimistic state; records of a dead debugger |
| `Document`, `CodeEditor` | text, history, revisions, fingerprint; cursor, anchor, folds | load, save, edit, undo, redo; keys, find, replace, complete | the modified flag; byte offsets in a text of wide characters |
| `DocumentSession`, recovery | open documents, closed paths, the recovery file | open, close, reopen, autosave, restore | crash between autosaves; one path twice |
| `BuildSession`, `CTestSession`, `AnalysisSession`, `GitSession` | a process and the stage or operation it is for | start, poll, cancel | cancel against completion; chained stages; the deferred command |
| `ProjectSession`, `CMakeSession`, debug model, history | open project, its settings, presets and targets, its session file | open, close, create, import, configure, select | what is restored, and what is left of the project before |
| settings, launch configurations, presets | three JSON files and the dialogs over them | edit, preview, cancel, save | a file refused, a write that fails, a choice that another one invalidates |
| helpers over tools, parsers, dialogs, drawing | none between calls | | not a matter of these models |

How they interact: `IdeWindow` → clients and sessions → `AsyncProcess` →
external process; output comes back through `drain()` inside `poll()`. A text
change goes `Document` → `LspClient::change` (debounced) → clangd. A refactoring
answer goes `LspClient` → `applyWorkspaceEdit` → `WorkspaceFileTransaction` +
`Document` + `LspClient`. A menu command goes into one deferred slot that the next
timer event executes; so does the launch that waited for a build. Opening a project
replaces the state of nearly everything.

What makes each part correct is stated by the properties of section 4.

## 2. The plan

Done, in the order it was written, from the bottom up: `ProcessStream` and
`AsyncProcess` with proofs; `LspClient`; `WorkspaceFileTransaction`; `GdbClient`;
`Documents`; `LldbDap`; `Projects`; `Workbench`; `TextDocument` and `CodeEditor`;
`WorkspaceEdit`; `PseudoTerminal`; `Preferences`, `LaunchConfigurations` and
`PresetFiles`; `OutputStreams`; `Outline`.

Proved, in this order: `AsyncProcess`, `Documents`, `WorkspaceFileTransaction`,
`Workbench`, `LspClient`, `GdbClient`, `PseudoTerminal`, `Projects`, `LldbDap`; section 5 says what. Still to
prove, in the order of what it is worth:

* `LldbDap`: `ShownIsCurrent`;
* `CodeEditor`: `UndoExact`;
* `Outline`: `OutlineKept`.

The modules are written for it: parameters are CONSTANTS with a named assumption,
one action per operation, recursion as recursive functions, no RECURSIVE operator anywhere.

## 3. Modules

Comments in each module say what is abstracted. `PROJECT.json` maps every
definition to its lines. Operators marked "mutant" or "a mistaken variant" are not
part of any specification: each replaces the definition after it to show that a
property would notice the mistake.

A pattern that several modules share: the user could give any number of commands,
so `MaxOps`, `Most` or `Uses` bound them. `Uses` is a set of [which commands, at
most how many]; a behaviour keeps to one of them, so that long sequences of a few
kinds of commands are checked without the product of all kinds.

Components that share no state are checked side by side where their questions
belong together: the MC module gives each its variables, and a behaviour is one of
one component (`part`).

### ProcessStream, AsyncProcess

`ProcessStream` is what an owner may rely on: chunks of output in order, each
once, those of an earlier start before those of a later one, and an exit code
that a start publishes once. `AsyncProcess` implements it with
`emitted <- delivered \o output \o pipe`.

State: the private fields under their names; `ui` and `after` are the program
counter of the UI thread inside `stop()`/`start()` (start begins with stop);
`reader` and `waiter` are the two threads; `alive`, `outside`, `doomed`, `holds`,
`unreaped`, `pipe` are the part of the kernel they depend on. A step is what one
thread does between two points where another can see it: `WaiterReap` stores
`exit_code_`, `WaiterPublish` clears `running_`; `Stop`/`BeginStop` takes the pid
and signals SIGTERM, `GraceExpired` sends SIGKILL when 250 ms are over, `JoinReader`
and `JoinWaiter` wait for the threads. A `start()` whose second thread cannot be created kills
and reaps the child itself (`SpawnUnwaited` to `JoinUnwaited`). Children may fork, call setsid, close
stdout, write and exit whenever they are alive. `write()` is not a step: it
changes no field. The leader never leaves its group: it was made the group leader
by `setpgid` before exec.

### PseudoTerminal

`PseudoTerminal` with `RunSession` above it: a run, a debug session that only
borrows the terminal, or nothing. Its reader looks at `running_` every 100 ms
instead of waiting for the end of file, which is why `stop()` returns here, and why
output can be left behind. Chunks written after the reader's last `poll(2)` are in
`late`, a history variable.

`ChildProcesses` puts `AsyncProcess` and `PseudoTerminal` beside each other; run *process* and
`ChildProcesses_proofs` are about both.

### OutputStreams

A process writes messages, each with its meaning; `Read(n)` gives the next n bytes
to the decoder as one chunk. All cuts are tried, and stopping, restarting and
clearing at every place. A byte is a symbol; the header line of a frame, and the
path of a git record, are one symbol each. Overlong headers come last in a stream
(section 6).

### LspClient

`client` is the record of the fields of `LspClient` and its `AsyncProcess`; a
method is an operator from record to record, so a handler of `IdeWindow` that
calls several methods (`close`, `relocate`, `open`) is one step, as in the code:
no callback runs in between. A loop over documents (`OpenAll`, `AnnounceAll`, `QueueAll`)
is a function of the number of documents done. `Told(docs, messages)[n]` is what clangd holds
when it has read n more messages. `clangd` reads its input in order and answers in any
order. A text is `<<load, version>>`: the code sees only the version, the load
number tells two lives of a document apart. `HandleMessage` is one message of
`poll()`, chosen by its id as `handle()` does; `FlushDue` is the debounced
`didChange`. `Receive` is what clangd does with a message, and sets `fault` when
the protocol of documents is broken.

### Outline

`LspUiController` and the part of `IdeWindow` that draws the Outline page and
jumps from it, with the one request of `LspClient` it depends on. `OnTimer` is the
whole of `lsp_.poll()`, `acceptOutline` and `updateOutline` in one timer event.

### WorkspaceFileTransaction, WorkspaceEdit

The tree is a function from paths to `"dir"` or a content. `Valid` is `prepare`,
`ApplyCreate`, `ApplyRename` and `ApplyDelete` are the three branches of `apply`,
`UndoLast` one round of `rollback`, `Commit` one of `commit`. An entry of `applied` also
has, as a history variable, the tree it was applied to. Every system call
may fail (`Failures`), and a failed call has changed nothing; at most `MaxFaults`
do. `Perform` is an independent definition of what one operation asks for, with no backups
and no faults; `Performed` applies it to the first n of an edit, and `Requested` to all.

`WorkspaceEdit` is `applyWorkspaceEdit` around it, and the replacement in the whole
project: the checks before the preview, the file operations, the documents that
move with a renamed file, the changes of closed files (loaded, changed, saved) and
of open ones, and taking all of it back in reverse.

### GdbClient, LldbDap

`client` as above; `gdb` numbers breakpoints, reads commands in order while no
program is running under it, and prints records. `Poll` handles one record. A
panel is identified by the stop and the frame it shows, so that a late answer can
be told from a current one. `stop()` is two steps, `Stop` and `FinishStop`,
because in attach mode it polls for up to a second in between.

`LldbDap` is the same for the adapter protocol: whole sets of breakpoints per file,
`initialized` and `configurationDone`, threads, scopes, variables with children,
watches, registers. A value is identified by the frame it was read in and the
number of assignments before it. `DebugClient` hands every call on to the client of its back end;
the module of that name has the one with the lldb-dap back end, and names its properties for run *dap*
and for the proofs.

### Documents, TextDocument, CodeEditor

`Documents` is the file side: texts are values, a history entry keeps the texts it
leads between. `base`, `kept` and `autosaved` are history variables. A crash
forgets everything but the files and the recovery file. `CloseSaving`,
`CloseDiscarding` and `CloseWithoutAsking` are the outcomes of one handler, as are
`Reload`, `Keep`, `Postpone` of `checkExternalChanges`, and `OpenProject`,
`DiscardRecovery`, `RestoreRecovery` of opening a project.

`TextDocument` is the text side: a sequence of bytes with characters of one to four
of them, the editing commands, and the history with its groups. `CodeEditor` adds
the keys, the mouse, selection, folding, find and replace, formatting and
completion.

### Projects

The project open in `IdeWindow` and what is kept of it: settings, presets,
targets, the debug model in both backends, the session file whose place depends on
the build directory, the recent projects, creation and import. `disk` is what
other programs may change and what a failing write leaves.

### Workbench

The operations of the window as processes that exclude each other: stages of a
build with their continuation, ctest with its parsed verdicts, analyzers with
their chained stages, the run, the debugger (only: is there a session, is its
program alive), git, and the deferred command. Keys act at once, menus through the
slot.

### Preferences, LaunchConfigurations, PresetFiles

What the user chooses: shortcuts, theme, colours, language and recent files in
settings.json; the launch configurations in .tuiide-project.json; the presets in
CMakePresets.json and CMakeUserPresets.json. Each has the file with what may have
been written into it by hand, the validation that accepts or refuses it, the dialog
with its own copy, and saving, cancelling and failing.

## 4. Runs

| Run | Module, configuration | Instance |
|---|---|---|
| process | `MCAsyncProcess`, AsyncProcess.cfg | a leader with 2 descendants that may leave the group, 2 starts, 2 chunks, exit codes 0 and 137; a terminal with a leader and 1 descendant; streams of up to 3 messages, a header limit of 7, an output limit of 12, 1 console line |
| lsp_safety | `MCLspClient`, LspClient_safety.cfg | 1 document, 2 kinds of request, 2 clangd processes, 4 calls, error answers and crashes |
| lsp_paths | `MCLspClient`, LspClient_paths.cfg | 2 documents, 1 kind of request, 3 calls, rename and Save As |
| transaction | `MCWorkspaceEdit`, WorkspaceEdit.cfg | a tree of 4 entries; all edits of 1 or 2 operations with all flags, chains of 3; with changes: up to 2 operations, 1 or 2 changes of open and closed files, up to 2 open documents; 1 failing system call |
| gdb_sessions | `MCGdbClient`, GdbClient_sessions.cfg | 1 breakpoint, launch, attach and core, 2 gdb processes, 4 commands, refusals, clearing, a gdb that dies |
| gdb_exec | `MCGdbClient`, GdbClient_exec.cfg | 1 breakpoint, 1 frame, 1 launched session, 5 commands, 2 stops |
| documents | `MCDocuments`, Documents.cfg | 2 paths, 3 texts, 5 commands, 1 file changed to a certain text or removed by another program, 1 crash, a history of 2, 1 closed path |
| dap | `MCLldbDap`, LldbDap.cfg | breakpoints in 2 files, one that cannot be set, 2 threads, a stack of 2, 1 watch, 2 sessions, 2 commands, 2 stops, 1 message left behind, an adapter that refuses the start or dies |
| projects | `MCProjects`, Projects.cfg | 3 projects of which 2 share a build directory, 3 build directories, 2 configure and 2 build presets in 3 versions of the file, 5 commands, 1 outside change or failing write |
| workbench | `MCWorkbench`, Workbench.cfg | 2 projects, 2 tests, 2 analyzers, 13 sets of commands with at most 2 to 4 of them, sources saved twice |
| editing | `MCCodeEditor`, CodeEditor.cfg | 3 texts with a two-byte character, brackets, comments and blank lines; 13 sets of keys with at most 3 to 5 of them; a history of 2; for the outline 2 sources and 1 other file, 5 commands |
| preferences | `MCPreferences`, Preferences.cfg | 2 commands and 3 keys, 2 themes and one of the user's, 3 files of which 2 are kept, up to 5 steps with 2 mishaps; 3 launch configurations, 5 commands; 3 presets in two files, 3 commands |

What the properties say:

* process — `ExitPublished`: an owner that finds a started process not running finds its
  exit code, on which every session waits. `StopReleasesAll`: after `stop()` no thread,
  descriptor or unkilled member of the group is left. `StreamSpec`: `AsyncProcess`
  implements `ProcessStream`. `OwnerServed`: the end of the child is noticed, and a call
  comes back unless a descendant has escaped with the pipe. `OutputShown`: a run that is
  reported as ended has shown what was written to its terminal, but for the `late` chunks
  (section 6). `CallsReturn`: the
  terminal's calls return. `DecodedWhole`: whatever the cuts, the decoders give what the
  whole messages mean, and nothing of an earlier process.
* lsp_safety — `ServerInSync`: clangd will hold exactly the documents the client has
  announced, with the editor's texts. `ProtocolKept`: no didOpen twice, no didChange or
  didClose of a document that is not open, no request lost or tracked twice, no document
  without colours that is not in the queue. `AnswersMatch`: an answer is used only for
  the text it is about.
* lsp_paths — `PathsKept`: the mirror in clangd and the answers stay right over renames and
  Save As. `Settles`: when the user stops, every open document gets its own colours and
  diagnostics, and no closed one keeps any.
* transaction — `RollbackRestores`: the file operations are taken back exactly.
  `AllOrNothing`: the whole command, with buffers, closed files and names of open
  documents, has done all or nothing, and left no backup. `TextKept`: at no step a text
  is in no file. `OutcomeAsRequested`: only edits that cannot be performed are refused
  (`RefusedRightly`), and an applied plan, backups left out, is the tree the edit asks for
  (`AppliedAsRequested`).
* gdb_sessions — `DesiredInserted`: a breakpoint shown as set exists in this gdb under the
  number it would be deleted by, with its last properties. `LogpointsArmed`: no run before
  every logpoint goes on by itself. `DetachHonest`: "detached" is reported only if it is so.
* gdb_exec — `PanelsFollow`: at rest the client and gdb agree whether the program runs
  and everything shown is of the current stop and frame, and no late watch is shown before
  that either. `RunStarts`: a requested run is sent once the breakpoints are answered.
* documents — `StandingKnown`: an unmodified document equals its file as last seen, and
  any other content of the file is noticed. `RecoveryCovers`: a crash loses no more than
  the changes since the last autosave. `TextsKept`: no text is discarded without a
  question, restoring restores all, and only renaming makes two documents share a path.
* dap — `BreakpointsAgree`, `SessionAgrees`, `ShownIsCurrent`: breakpoints, state of the
  program, and the contents of the panels are those of the adapter. But for the sets of
  breakpoints sent, this is for sessions that began with nothing left unread by an earlier adapter.
* projects — `SessionKept`: opening a project brings back the session it was left with, and
  marks only of projects joined to it by shared build directories. `BuildAsSelected`: a build uses presets that exist and belong together, in the
  directory CMake would use. `FilesTellTheTruth`: imports list the sources there are;
  the recent projects are in order.
* workbench — `Exclusive`: CMake, ctest and analysis do not run beside each other, nor
  tests beside the program or a debugger. `LaunchFresh`: a launch that waited for a build
  starts what was built from the saved sources. `TestsSettle`: verdicts are final and
  those of ctest. `OfThisProject`: nothing of an earlier project runs, waits or is shown.
  `GitCurrent`: an idle git panel shows the index. `OperationsEnd`: every operation ends,
  and the slot empties.
* editing — `UndoExact`: each revision has one text, also over merged typing and a
  history that drops entries, and an unmodified document shows its file's. `CharactersKept`:
  no character is split. `PlacesFound`: repeating Find selects every match, and the
  Outline page shows and jumps in the text on the screen, never in an earlier one.
* preferences — `ChoicesKept`. User settings: key, accelerator, menu item and palette agree on
  the command of a shortcut, and no two commands share one; what is in force is what the next
  start finds, unless a write was reported to have failed; the editor shows what was chosen
  whatever was previewed and given up; the recent files are the last used, in order. Launch
  configurations: memory and file agree, and what runs is the active one, before and after every
  change of the list. Presets: what the IDE has written can be read, and a build uses presets that
  exist, may be selected and fit each other.

`TypeOK` of each module is a conjunct of one of its checked properties. Each property has in
`PROJECT.json` a mutant: a plausible mistake in the code under which TLC finds the property
violated.

Why the bounds are enough for the cases they are after:

* process: two starts let output and threads of the first meet the second; with
  two descendants one may escape or hold the pipe while the other is killed. Three
  messages give a broken one between two good ones, and every length of chunk is tried.
* lsp: open, edit, close, reopen with requests in between fits in four calls; a
  second session is there for answers that cross a restart; a second path is
  needed for switching and renaming only.
* transaction: two operations are enough for one to work on what the other left;
  three for a file moved away, replaced, and replaced again. One fault hits every
  call of apply, rollback and commit in turn.
* gdb: toggling twice and editing once while the first insert is unanswered takes
  three commands after Start; two sessions let answers of one meet the other.
* dap: two files because breakpoints are sent per file, two threads and two frames for
  answers about the one that is no longer selected; what the adapter does on its own is
  bounded by `MaxStops` only.
* documents: a history of two overflows after three edits; one closed path makes
  the list drop one; two untitled documents fit in five commands.
* projects: go to another project and back, with a change in between, is three commands;
  a build directory and its change are two more.
* workbench: each set has the commands that meet in one guard or one continuation, and
  enough of them for a first operation, one that waits for it, and one that interferes.
* editing: five keys are a selection or a group of typing, a change, undo, redo and an
  edit after it; a history of two drops entries after three.

`CHECK_DEADLOCK FALSE` is in all configurations but AsyncProcess.cfg and Documents.cfg: these
systems may stop, when the budget of commands is spent and nothing is outstanding, or the
transaction is over. In `AsyncProcess`, `PseudoTerminal`, `OutputStreams` and `Documents`
something is always possible.

### Fairness

* `AsyncProcess`, `PseudoTerminal`: weak fairness of the UI thread inside a call, of the
  two threads, and of the death of a process with SIGKILL pending. The operating system
  schedules threads, `stop()` waits with a deadline. No other process has to exit,
  no owner has to call.
* `LspClient`: weak fairness of the debounced flush, of handling a message and of
  reporting the exit — `onTimer` calls `poll()` every 100 ms whatever the user does —
  and of clangd reading and answering, which is an assumption about clangd.
* `GdbClient`: weak fairness of `Poll`, for the same reason, and of gdb reading
  commands while no program runs under it.
* `Workbench`: weak fairness of `OnTimer`, and of the end of cmake, ctest, the analyzers and
  git; the program being run and the debugger need not end, and their operations are not
  among those of `OperationsEnd`. That the tools end is an assumption about them: the code
  has no timeout for any.

Liveness runs leave out death and failure of the tool where these would make the
property false for reasons outside this code.

## 5. Proofs

Each theorem below holds for every value of the constants that satisfies the assumption named
with it. Each component has its theorems in a module of its own, but for `PseudoTerminal` and `LldbDap`, whose
theorems stand beside those of `AsyncProcess`, in instances that share no variable with it. The invariant `IInv` of
each was an invariant of a TLC run before it was proved. What the runs check and no theorem states
is listed at the end.

### AsyncProcess

`ChildProcesses_proofs`: every set of descendants, every set of exit codes and every bound on
starts and chunks, under `AsyncProcessAssumption` (the leader is not one of the
descendants, there is an exit code and `None` is not one, the bounds are natural numbers).

| Theorem | States |
|---|---|
| `SpecTypeOK` | `Spec => []TypeOK` |
| `SpecExitPublished` | an owner that finds `running()` false after a start finds an exit code |
| `SpecStopReleasesAll` | after `stop()`: no thread, no input, no reader of a pipe, no group member that is not being killed |
| `SpecStream` | `AsyncProcess` implements `ProcessStream` |

The argument. Neither `ExitPublished` nor `StopReleasesAll` is inductive: the
first needs that `running_` is true exactly while the waiter has not published and
that the code is stored before; the second needs to know, at each point of
`stop()`, what has been done already. `IInv` is `TypeOK` with

* `ThreadsInv` — `running` is true iff the waiter waits or has reaped; a code is
  there once it has reaped;
* `PipeInv` — only the pipe of the last start has holders, and a reader that has
  ended has read everything and left no holder;
* `StopInv` — from the head of `stop()` to the next fork no group is owned and the
  input is closed; after the grace period every member of the group is doomed;
  after each join its thread is gone.

`InitIInv`, one lemma for each part of `Next` and `NextIInv` give `SpecIInv`;
each property follows from `IInv`. For the refinement, a chunk never leaves
`delivered \o output \o pipe` out of order: `HeadConcatTail` is the step of the
reader, and each part of `Next` maps to a step of `ProcessStream` or a stutter,
using `IInv`. Run *process* checks the three properties of the theorems on its instance.

### PseudoTerminal

`ChildProcesses_proofs`, of `Terminal`, the `PseudoTerminal` of `ChildProcesses`: every set of descendants,
every set of exit codes, any number of starts and chunks, under `TerminalAssumption`.

| Theorem | States |
|---|---|
| `SpecOutputShown` | what a terminal shows is in the order written, nothing twice; when `poll()` reports the end of a run, all of it is shown but for what is late |

`OutputShown` says nothing of a run in progress, so `IInv` has what leads up to it. `OrderInv`: the chunks
shown, those in `output_` and those in the terminal follow each other. `RunInv`: as long as there is a run,
each chunk of it is at one of these places or late, and what is in the terminal of a reader that has
timed out or ended is late; hence joining the reader, which gives up the master side, loses nothing else.
`StopInv`: what is closed, joined and emptied at each point of `stop()` and `start()`. No fairness is
used: the theorem says what is shown when a completion is reported, not that it will be.

### Documents

`Documents_proofs`: every set of paths and texts, every history limit of at least one and every
number of closed paths kept, under `DocumentsAssumption`.

| Theorem | States |
|---|---|
| `SpecStandingKnown` | an unmodified document has the text last loaded or saved; one that differs from its file is marked, noticed, or kept by choice |
| `SpecRecoveryCovers` | the recovery file has every modified text that the last autosave saw |
| `SpecNothingDiscardedSilently`, `SpecRestoreComplete`, `SpecOnlyRenameShares`, together `SpecTextsKept` | what no step may do to a text or a path |

The modified flag compares revision numbers, so `StandingKnown` needs that a number names one
text among all that a document can still reach: `RevisionInv` says so of the current text,
the saved one and both ends of every history entry, and that no number exceeds `next`.
`FileInv` ties the saved text to the fingerprint as long as the saved revision can be reached and
the user has not chosen Keep. Both speak of one document, so an action on one leaves the
others to a frame argument. `AutosaveInv` says that `autosaved` is in the recovery
file of the open project. Restoring is a loop over the entries of the file; its invariant
(`RestoredInv`, `RestoredProperties`) is carried by induction over the number of entries done, and
holds as well what `RestoreComplete` needs at its end. `NextKeeps` shows the action
properties for all actions at once.

### WorkspaceFileTransaction

`WorkspaceFileTransaction_proofs`: every finite tree, every list of operations with all flags, every
bound on faults, under `TransactionAssumption`. `SpecRefusedRightly` and `SpecAppliedAsRequested`
also need `NamesAssumption`: an edit of clangd names no backup.

| Theorem | States |
|---|---|
| `SpecRollbackRestores` | a transaction rejected, failed or rolled back leaves the tree it found, unless undoing met a fault |
| `SpecTypeOK` | the tree stays a tree |
| `SpecRefusedRightly` | only what cannot be performed is refused while no system call fails; the exception is an empty directory with a backup in it |
| `SpecAppliedAsRequested` | a plan reported as applied shows exactly the tree the edit asks for, in a project without left-over backups |
| `SpecOutcomeAsRequested` | both, as the run checks them |
| `MoveReturns` | moving a subtree to a free place and back gives the tree there was |
| `BackupFree` | there is a free name for a backup, whatever is in the directory |

`IInv` says of every applied operation that undoing it can be done in the tree after it, and gives
the tree it was applied to (`Undoes`); so the trees form a chain from the present one back to the first
(`Undoable`), and a rollback walks it. An apply adds a link, `UndoLast` takes the last. That
`rename(2)` there and back is the identity needs the algebra of paths (`MovedBack`, `BeforeMoved`,
`Above`): a moved path has one origin, and nothing but the subtree lies below its root.
The other two compare the tree on disk, which holds backups, with a tree that never had any. `RInv`
says that while `apply` goes on the two agree on every path that is no backup (`SameFiles`), or that
the operations so far are `Refused`, which only a project with old backups can hide from the
code (`Clean`). Each branch of `apply` is compared with its case of `Perform`; what moves away into
a backup is invisible afterwards, and what lies below a moved directory keeps its name.
`Performed` is a recursive function over the operations (`PerformedMeans`), and a refused prefix
stays refused by induction (`RefusedForGood`), so the refusal of one operation is one of the edit.

All of these are about the specification of the transaction; run *transaction* checks the
properties where `WorkspaceEdit` uses it.

### Workbench

`Workbench_proofs`: every set of projects, tests and analyzers, any verdicts and files, any number of
commands.

| Theorem | States |
|---|---|
| `SpecExclusive` | what the sessions may not do beside each other |
| `SpecLaunchFresh` | a launch that waited for a build starts what was built from the saved sources |
| `SpecTestsSettle` | verdicts are final, and those of ctest |
| `SpecOfThisProject` | nothing of an earlier project runs, waits or is shown |
| `SpecGitCurrent` | an idle git panel shows the index |

`IInv` has a part for each session and three that relate them. `SlotInv`: while a launch waits in
the slot nothing runs that excludes it, and what it waits for is built, or is read by the build
in progress; without it neither `Exclusive` nor `LaunchFresh` is inductive, since the slot
is executed without asking again. `TestsAre`: reading the output that is still unread would
give every test what ctest said last of it. `GitInv`: the status being read, or the next
one, will show the index. The lemmas `Together` and `LaunchTogether` put an action's parts
together from what it changes and what it leaves (`BuildKept`, `TestsKept`, …).

### LspClient

`LspClient_proofs`: every set of paths and kinds of request, any number of clangd processes and
calls, with or without failing answers, crashes, renames and Save As, under `Constants`.

| Theorem | States |
|---|---|
| `SpecServerInSync` | when clangd has read what was sent, it holds the documents the client believes announced, with the editor's texts unless a change is held back |
| `SpecAnswersMatch` | an answer is shown only for the text it is about; colours are never of an older version of a load |
| `SpecPathsKept` | both, over renames and Save As |
| `SpecProtocolKept` | without Save As: no didOpen twice, no didChange or didClose of what is not open, no request lost or tracked twice, no document left unpainted and unasked |

`ProtocolKept` has the hypothesis `~MaySaveAs` because Save As really sends a second didOpen (section 6).

All methods of the client work on the same record, so the invariant of client and clangd is one
operator, `Sound(c, s, T)`, and there is a lemma for each method that says that it gives a sound
client back; a handler is then a chain of these lemmas, also where it loops over documents
(`OpenAll`, `AnnounceAll`, `QueueAll`). Its parts are about the future of the messages in
the pipe. `Linked`: what clangd will hold after reading all of them (`Told`) is what the client
believes, and none of them breaks the protocol where it will be read (`Faultless`). `Answered`:
every request still tracked will be, is being, or has been answered from the text it was made for.
`Tracked`: ids are distinct, and no id is used in two ways. `Painted`: a document that is not queued
has been asked about or painted as it is. Around it are `EditorInv`, `AllOrNone` (documents are
announced exactly when the handshake is done) and `CopyInv` (the client's copies are the
editor's). What a step may show is not a matter of the state alone: each action lemma
also concludes `Shown`, from which the action properties follow.

### GdbClient

`GdbClient_proofs`: every finite set of breakpoints, every subset of the three modes, any frames, any
bounds on sessions, commands and stops, with or without refusals, clearing and a gdb that dies.

| Theorem | States |
|---|---|
| `SpecDesiredInserted` | at rest, a breakpoint shown as set is in this gdb under the number the client knows, with the text the user last gave it, armed if it is a logpoint; a gdb with a core dump has been told to read only |
| `SpecLogpointsArmed` | gdb reads no run command before the commands of every logpoint that is set |
| `SpecDetachHonest` | `stop()` reports a detach only of a program that gdb no longer holds |

`DesiredInserted` speaks of rest; what happens on the way there is that the answer to an insert may
find its breakpoint removed, edited or inserted again, and numbers of breakpoints that were deleted
meanwhile. The invariant `IInv` is therefore about commands and records in the pipes:

* `Wired` — tokens grow along stdin, and along the answers except for what gdb prints unasked;
  every answer is older than every command;
* `Tracked` — a token is waited for in one way only, so an answer is never taken for another's;
* `InSession` — which commands each mode can have in its pipe; with it a core is only read;
* `Booked` — an insert under way (`Underway`) is a command, or an answer whose breakpoint exists
  (`MadeFor`) and nothing deletes or arms; if it is the last for its key it is what the user wants (`Latest`,
  `AsDesired`). Two answers never name one breakpoint (`Apart`). A number the client has (`Known`) is of a
  breakpoint in gdb, armed or about to be (`Arming`: before any run command). Every wish is under way,
  rejected, or known. `Orders`: a delete-all or a run command is older than any insert still unanswered;
* `Attached` — the attach is known until its program is gone, by an answer or a record on its way.

`SoundFor(c, g, K)` is `IInv` of a client and a debugger with the wishes K already sent: `start()` and
restarting insert them one after the other (`InsertEach`, by induction over the keys done), and a removed key
is one that no longer counts. There is a lemma for each method of the client, for each of the
commands gdb executes and for each kind of record handled. `LogpointsArmed` and `DetachHonest` are about
steps, and follow from the invariant before the step.

### LldbDap

`ChildProcesses_proofs`, of `Lldb`, the `LldbDap` of `DebugClient`: every finite set of breakpoint positions and
watches, any threads and frames, any subset of positions that resolve, any bounds on commands, sessions and stops,
whether or not the adapter refuses the start or dies, under `LldbAssumption` (lines are numbers, a
thread id is not 0).

| Theorem | States |
|---|---|
| `SpecBreakpointsAgree` | the adapter has, or will have read, the enabled breakpoints of each file that has some; at rest a breakpoint is shown verified exactly when it could be set |
| `SpecSessionAgrees` | at rest the window says of the program what it does: running, stopped or over; for sessions that began with nothing left by an earlier adapter |
| `SpecLldbIInv` | the inductive invariant |

Both properties speak of rest, so `IInv` is about the requests on the wire and the messages not yet handled:

* `Matched` — requests are numbered in the order they were sent, each is awaited as the command it is, for the
  file it is about, and an answer answers no other; so a list of verified flags is never applied to another file;
* `Started` — there is one `launch`, after the answer to `initialize`;
* `Follows` — the last message that changes the state shown (`Turn`) gives the state of the program, or none is left
  and the window shows it already (`WillShow`). The exception is a program that is stopped and told to go on: the client
  takes it to run before the adapter has read the request, so there is then one such request and no other;
* `Told` — the last `setBreakpoints` for a file that the adapter has not read has what is enabled, or the adapter has
  it already;
* `Learns` — what is shown as verified is right, or the last answer about the file will make it so, or a request for
  the file has not been read yet.

A new session starts with what the old adapter left unread, and the numbers begin at 1 again, so an old message can
be taken for an answer of the new session: `Follows` and `Learns` are claimed only while nothing of that kind is left
(`leftover`), `Told` always. `poll()` handles a list of messages: `SoundAll` carries the invariant over it by induction
(`Sound` of the client after n of them and of the rest). `RequestEach` sends several requests at once, and the lemmas `Sent*`
say what any number of them does to each part. The client matches the flags of an answer with its enabled
breakpoints by position; `Places` and `Resolving` show that this is right when both sides have the same ones.

### Projects

`Projects_proofs`: every set of projects, build directories, presets and targets, every length of the
list of projects, any number of commands, writes that fail and changes by other programs, under
`Constants`. Nothing is assumed of the build directories: projects may name the same ones, as the
dialogs let them. `Around(p)` are the projects joined to p by shared directories, directly or through
others; `NearMarks[p]` are their marks.

| Theorem | States |
|---|---|
| `SpecSessionKept` | opening a project brings back the session it was left with, except for what a failed write or a command that drops the selection has lost; marks come with it only from projects around it |
| `SpecOwnDirectories` | a project that shares no build directory shows and stores no marks but its own, whatever the others share |
| `SpecBuildAsSelected` | a build is started with presets that are in the file and belong together, in the directory CMake uses for them |
| `SpecFilesTellTheTruth` | an imported project lists the sources that are there; the recent projects are in the order of their last opening, none twice |

`IInv` has a part for each of the files, the window and the log:

* `DiskOK` — a session file in a build directory of a project has only marks of the projects around it, and no build preset without the configure preset (`Paired`);
* `IdeOK` — the models of both backends have marks only of the projects around the open one, not only that of the backend in
  use: a change of backend (`Configure`) moves one to the other. When nothing is open both are empty.
  The selection is `Paired` too. `BuildAsSelected` needs that: when the preset file cannot be read,
  `refreshPresets()` takes every selection without a configure preset for valid;
* `SessionSaved` — `Same(d, i, moved, forgot)` says of any disk and window that the one would be brought back
  from the other. A command is a chain of methods over records, and there is one lemma for each method in these terms
  (`SavedOK`, `SavedIfDirtyOK`, `LoadDebugStateOK`, `LoadedOK`, `UnloadOK`), cited by every command
  that calls it;
* `Recent` — the list of projects against the log of openings, as a relation (`Follows`: this one is somewhere
  before that one) and not by positions, which shift with each entry. `OnlyProperties`, `Headed` and
  `CutShort` say what removing the others, putting one at the head and cutting at the limit do to it, and
  `OpenedRecent` that the two stay in step whether or not the list could be written.

`Stepped` puts the parts of a step together; each command is one lemma.

### DataLemmas

What the proofs need of numbers and sequences. The induction theorems of the library take a predicate
as a parameter, which the provers cannot instantiate. `NatSetInduction` and `IntervalInduction`
speak of a set of numbers instead, and are proved from `LeastNumber`; `Recursion`
gives the values of a function defined from the one before. The rest is about `Append`, `Tail`,
`Front` and `RemoveAt`.

### Only model-checked

* Liveness: `OwnerServed`, `CallsReturn`, `Settles`, `RunStarts`, `OperationsEnd`. The prover does not
  reason about fairness and ENABLED.
* `TextKept` and `AllOrNothing` of refactorings: they are about the changes of texts as well, for the
  edits of the instance. For all edits they need the exceptions of section 6 as hypotheses
  (changes of a file that several operations name).
* `PanelsFollow` of `GdbClient`: it speaks of rest with a gdb that lives and refuses nothing
  (section 6), and of what a panel shows after the last of several answers.
* `ShownIsCurrent` of `LldbDap`: what is shown at rest is the end of chains of four requests (threads, stack, scopes,
  variables), each made when the one before is answered, with rows opened and closed in between.
* The properties of `CodeEditor`, `Outline`, `OutputStreams` and the settings. What a fold
  over data computes there (the decoders, the atoms of undo) is opaque to the provers as it is
  written.

## 6. Where the code disagrees with what one would expect

Met while modelling. The models contain the behaviour unless it is said otherwise; where a
property would be broken by it, its comment or its precondition names the exception, or the
instance leaves out the command that causes it.

**Processes and output**

* A descendant that has called setsid and holds the pipe keeps `stop()` waiting for its reader
  (process.cpp). `OwnerServed` names it.
* `PseudoTerminal`: a chunk written between a `poll` that timed out and the test of
  `running_` is not read (pseudo_terminal.cpp:296-311), nor is what descendants write after
  100 ms of silence once the leader has ended. EIO while `running_` is still true is a busy
  loop. A descendant outside the group that never stops writing keeps `stop()` from returning.
* `JsonRpcFramer` treats a header near its limit differently when it comes whole and when
  it is split; what is left of it may be taken as a new header and swallow the next frame.
* `TerminalBuffer` prints the B of `ESC ( B`; a backspace over a wide character followed by
  typing leaves a byte of it. git output over 1 MiB is cut without a word. Clearing the
  diagnostics of an analysis drops the beginning of the line in progress, and a line cut by a
  kill may parse as another diagnostic.

**Language client and outline**

* A token request that survives `close()` matches the reopened document: the colours of a text
  from before the close may be painted on it.
* `saveAs` (ide_window.cpp:2767) opens a document in clangd without closing the old name: a
  second didOpen, or an old path open until clangd stops. `ProtocolKept` is therefore checked
  without Save As.
* Renaming the active file (ide_window.cpp:1397) leaves `active_document_path_` at the old
  path: answers are dropped until another tab is activated.
* Diagnostics of an unloaded project can appear after `stop()` (lsp_client.cpp:271), and an
  initialize answer read after the exit of clangd makes `ready()` true (lsp_client.cpp:536, 726).
* The outline may never come (lsp_ui_controller.cpp:100): switching away and back within the
  debounce, a refused request, or an answer dropped after renaming the active file leaves
  `requested` set, and it is not asked for again. No liveness of the outline is checked.
* Closing a path and opening another text under it within one timer interval repeats path and
  version, so the old outline counts as current. The guard `Unseen` of `Outline` excludes it.

**Refactorings**

* A rollback goes on after one operation could not be undone, and can then remove or overwrite
  the only copy of a file. `RollbackRestores` and `TextKept` are for rollbacks without such a fault.
* A backup inside a directory that a later operation renames is not found by `commit()`
  (workspace_file_transaction.cpp:155); a directory that holds only a backup cannot be deleted
  as empty (:99).
* A change in an edit that renames files in a chain takes its text from the wrong file; one
  addressed to the old path of a renamed closed file re-creates that file; a file created with
  overwrite is changed as its old text. The order of `documentChanges` is lost. The instance
  has no changes together with chains.
* Open documents do not follow a directory that is renamed, and deleting a directory that
  has open documents is not refused. A file that another program changes while the preview is
  shown is overwritten (not modelled).

**Debuggers**

* Removing and adding a breakpoint before its insert is answered leaves one in gdb
  that the client does not know (gdb_client.cpp:414). `DesiredInserted` speaks of the
  breakpoints the client knows.
* Records of a stopped gdb are handled after `stop()` and set lifecycle state. A gdb that dies by
  itself leaves `active()` as it was; in attach mode `*stopped` and the answer to attach are
  handled in different polls. `PanelsFollow` is checked for launched sessions whose gdb lives.
* A refused `-exec-run` or step leaves the client "running" (gdb_client.cpp:293), and
  removing all breakpoints forgets the answers a run waits for (gdb_client.cpp:422).
  *gdb_exec* is checked without refusals and without clearing.
* lldb-dap: removing the last breakpoint of a file, one by one or with `clearBreakpoints`, sends
  nothing, so the adapter keeps those it had. Opening a variable while locals are being read
  can put the fields of another frame below it (lldb_dap_client.cpp:432-442). A response left by
  an earlier adapter matches the new session's numbers (:50). An adapter that dies before the
  launch is never reported (:275). The properties name these.
* `debugRestart` asks for an external gdb also when the backend is lldb (ide_window.cpp:4240).

**Documents, editor**

* A save whose file is written but cannot be read back (document.cpp:118-119) is reported as failed and leaves
  the new name and no fingerprint. If the file is then removed and the user undoes to the saved state,
  the document counts as unmodified and nothing is noticed. `kept` covers it (`SavedUnseen`).
* Dismissing the recovery dialog (ide_window.cpp:3247) and then an autosave erase the
  recovery data; after restoring, the file is cleared up to five seconds before the
  next autosave.
* "Keep" (ide_window.cpp:3202) leaves `modified()` false, so closing drops the text in
  the editor without a question.
* Renaming an entry of the project relocates untitled documents too (ide_window.cpp:1379), so
  two documents share a path, which document_session.hpp:28 excludes. `OnlyRenameShares`.
* An anchor survives edits that move text below it; the next selecting command may then cut
  inside a character (document.hpp:37-38 says that positions lie between characters):
  Backspace twice after Shift+Right removes half of one. Formatting clamps the anchor without
  aligning it, and completions and refactorings leave it. `CharactersKept` speaks of the
  steps from an aligned anchor. When the cursor returns to a left-over anchor and the user types,
  the next character replaces the one just typed.
* Find Next does not advance over an empty match of a regular expression; pasted text keeps
  its carriage returns.

**Projects, builds, tests**

* Changing the settings or the kit forgets target and presets, and the next save of the session
  stores the empty selection. Changing the build directory moves the place of the session file
  and not its content. `replaceTargets` keeps a target taken by default when the preferred one
  reappears.
* Two projects may name one build directory (project_settings.cpp:126-130 allows any path). They then
  share the session file in it (project_session.cpp:46): breakpoints of one are shown in the other, and the next
  save overwrites the session of the other, target and presets included. The instance has such a pair;
  `SessionKept` says how far marks can go, and that what comes back is what was saved last.
* Project Settings writes the settings and then .gitignore (ide_window.cpp:2008). When the second fails the
  window goes on with the old build directory, and the next opening uses the new one. `Projects` has
  this step.
* `createNewProject` that fails after CMakeLists.txt leaves a directory without settings; a
  failed import may remove a settings file that was there before. `loadDebugState` ignores
  presets it cannot read; `refreshPresets` with bad build presets leaves the default
  directory. Sidebar sizes are not reset when a project is unloaded.
* There is one deferred slot: a menu command within 100 ms of the end of a pre-launch build
  replaces the Run or Debug that waited for it; a key in that window starts a build, beside
  which the deferred launch then runs (against ide_window.cpp:3980). A later stage of an
  analysis starts in `poll` without looking at what was started meanwhile (against :3279),
  also when Stop Analysis was refused in that window (:3966). `Exclusive` exempts them.
* `runAnalysis` clears `sanitizer_target_` (:3740) before it may return. A ctest that exited
  before its output was polled loses it when another test command starts. `run()` does not look
  at the debugger: Run while debugging closes the debuggee's terminal. With parallel jobs in a
  test preset, failure locations may go to the wrong test.
* `OperationsEnd` is for a user who stops filling the slot.

**Settings**

* A cleared shortcut makes the menu item and the palette entry dead too; when another command
  took its key, the menu item runs that one (`queueMenuCommand`, ide_window.cpp:827-846).
  Keys that are built in but no commands (Ctrl+Q, Ctrl+D, Ctrl+P …) can be assigned without
  a conflict being reported; a file edited by hand may hold conflicts, and the first command wins.
* A settings file that cannot be read, or is newer, is replaced by defaults at the next save. A
  recent file that is missing while settings are saved leaves the file but not the memory.
  Two running IDEs share settings.json and its temporary name: the last one wins (not modelled).
* Project Settings writes .tuiide-project.json and then .gitignore: when the second fails, the file
  has changed while memory and message say that it has not (ide_window.cpp:2008; `split`).
  Arguments and environment lose what their fields cannot hold at every edit
  (project_settings.cpp:356-425). A refused file means defaults, which the next save writes over it.
* Choosing another preset after the selected one was deleted or renamed in the same dialog is
  ignored; changes of presets are written at once and Cancel keeps them; on an unreadable file
  the dialog offers an empty list, in which Select means no preset.

## 7. Not modelled

* Reuse of process numbers: the kernel part of `AsyncProcess` names processes.
* Bytes of JSON, of the MI syntax and of encodings; the capacity of pipes, and so a
  `write()` that blocks.
* Results of requests beyond the text they are about; call and type hierarchies.
* Registers, memory and variable objects of gdb.
* Formats: compiler diagnostics, CMake progress, the reports of analyzers, git logs and diffs.
  What is modelled is when they are complete and whose they are.
* The parser of CMake files and the edits of CMakeLists.txt; conditions, macros, includes and
  several parents of presets; templates of new projects.
* Files in `Documents` have uniform line endings (loading makes mixed ones uniform). A change
  of a file between reading it and taking its fingerprint (document.cpp:88, 118), temporary
  files left by a crash, a crash inside a save, and a write error that shows only at close. A file that
  cannot be read is passed over by the check against the disk, as in the code, but a Reload or Keep of
  a file that becomes unreadable while the question is shown is not modelled.
* In `LspClient`, a Save As that fails after the name has changed; in `Documents` it is `SaveUnseen`.
* Programs other than one per project: `LaunchFresh` does not have a target chosen while a launch waits
  in the slot.
* Helpers that run a tool once and return its output, and everything that only draws: widgets,
  dialogs' layout, texts in their languages, the project tree, the event log.
* `PROJECT.json` lists under "hazards" what no property covers, with the reason.
