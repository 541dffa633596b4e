------------------------------ MODULE Projects ------------------------------
(* The project open in IdeWindow and what is kept of it between sessions:     *)
(* ProjectSession, CMakeSession, the debug model of both backends behind      *)
(* DebugClient, the session file, the list of recent projects, and the        *)
(* creation and the import of a project.                                      *)
(*                                                                            *)
(* disk   the files: what each project directory holds, its settings and its  *)
(*        presets file, the targets and the session file of each build        *)
(*        directory, the list of recent projects.                             *)
(* ide    the fields of the program.                                          *)
(*                                                                            *)
(* A mark is a breakpoint or a watch expression of a project. A target stands *)
(* for a target name with its configuration, as CMakeSession compares both.   *)
EXTENDS Naturals, SequencesExt

CONSTANTS
  Root,          \* the project directories
  Marks,         \* project |-> its breakpoints and watches
  DirsOf,        \* project |-> the build directories its settings may name;
                 \* several projects may name the same one
  DefaultDir,    \* project |-> the build directory of the default settings
  PresetFiles,   \* the states of CMakePresets.json
  BinaryDir,     \* configure preset |-> its binaryDir, or NoDir
  TargetLists,   \* the lists of executable targets a build may leave
  Contents,      \* what the directories may hold at first
  FirstPresets, FirstTargets,   \* the presets and targets they may have at first
  Limit,         \* length of the list of recent projects
  MaxOps,        \* bound on the user's commands
  MaxTrouble,    \* bound on the writes that fail and on the changes by other programs
  None, Bad      \* nothing, and a file that cannot be read

Backends == {"gdb-mi", "lldb-dap"}
Dirs == UNION {DirsOf[p] : p \in Root}
ConfigureNames == DOMAIN BinaryDir
Places == Dirs \cup {BinaryDir[c] : c \in ConfigureNames}
BuildNames == UNION {DOMAIN f.build : f \in PresetFiles}
Targets == UNION {ToSet(list) : list \in TargetLists}
Kinds == {"absent", "sources", "partial", "project"}

SessionSet ==
  [marks : SUBSET UNION {Marks[p] : p \in Root}, registers : BOOLEAN, target : Targets \cup {None},
   cpreset : ConfigureNames \cup {None}, bpreset : BuildNames \cup {None}]

ASSUME Constants ==
  /\ FirstPresets \subseteq PresetFiles /\ FirstTargets \subseteq TargetLists
  /\ Contents \subseteq [Root -> Kinds] /\ TargetLists \subseteq Seq(Targets)
  /\ \A f \in PresetFiles : f.configure \subseteq ConfigureNames
  /\ None \notin Root \cup Dirs \cup ConfigureNames \cup BuildNames \cup Targets
  /\ {None, Bad} \cap SessionSet = {} /\ Bad \notin [dir : Dirs, backend : Backends]
  /\ {Limit, MaxOps, MaxTrouble} \subseteq Nat
  /\ \A p \in Root : DefaultDir[p] \in DirsOf[p] /\ None \notin Marks[p]

VARIABLES disk, ide
vars == <<disk, ide>>

NoModel == [marks |-> {}, registers |-> FALSE]
NoSession == [marks |-> {}, registers |-> FALSE, target |-> None, cpreset |-> None, bpreset |-> None]
CMakeReset(dir) ==
  [dir |-> dir, configure |-> {}, build |-> <<>>, targets |-> <<>>, selected |-> 0,
   cpreset |-> None, bpreset |-> None, preferred |-> None]

IdleIde ==
  [root |-> None, dir |-> None, backend |-> "gdb-mi", model |-> [b \in Backends |-> NoModel],
   cmake |-> CMakeReset(None), dirty |-> FALSE]

-----------------------------------------------------------------------------
(* CMakeSession *)

SelectedTarget(c) == IF c.selected \in DOMAIN c.targets THEN c.targets[c.selected] ELSE None
ClearTargets(c) == [c EXCEPT !.targets = <<>>, !.selected = 0, !.preferred = None]

(* The directory of the selected configure preset, when the list just loaded  *)
(* has it and it names one.                                                   *)
UpdateBuildDirectory(c, default) ==
  [c EXCEPT !.dir = IF c.cpreset \in c.configure /\ BinaryDir[c.cpreset] # None
                    THEN BinaryDir[c.cpreset] ELSE default]

(* A presets file with an error leaves no presets; one that only the build    *)
(* presets make unusable leaves the configure presets, and the default        *)
(* directory when a build preset is selected.                                 *)
RefreshPresets(c, file, default) ==
  LET loaded == [c EXCEPT !.configure = IF file.bad THEN {} ELSE file.configure,
                          !.build = IF file.bad \/ file.badBuild THEN <<>> ELSE file.build]
  IN IF file.badBuild /\ c.bpreset # None
     THEN [loaded EXCEPT !.dir = default]
     ELSE UpdateBuildDirectory(loaded, default)

(* Mutant: the configure preset of the build preset is not compared.          *)
PresetsExist(c, file) ==
  IF file.bad THEN c.cpreset = None
  ELSE /\ file.badBuild => c.bpreset = None
       /\ c.cpreset # None => c.cpreset \in file.configure
       /\ c.bpreset # None => c.bpreset \in DOMAIN file.build

PresetsValid(c, file) ==
  IF file.bad THEN c.cpreset = None
  ELSE /\ file.badBuild => c.bpreset = None
       /\ c.cpreset # None => c.cpreset \in file.configure
       /\ c.bpreset # None => /\ c.bpreset \in DOMAIN file.build
                              /\ file.build[c.bpreset] = c.cpreset

CanSelectConfigurePreset(c, name) == name = None \/ name \in c.configure
SelectConfigurePreset(c, name, default) ==
  LET keeps == c.bpreset \in DOMAIN c.build /\ c.build[c.bpreset] = name
      chosen == [c EXCEPT !.cpreset = name, !.bpreset = IF name # None /\ keeps THEN @ ELSE None]
  IN ClearTargets(UpdateBuildDirectory(chosen, default))

CanSelectBuildPreset(c, name) ==
  name = None \/ (name \in DOMAIN c.build /\ c.build[name] \in c.configure)
SelectBuildPreset(c, name, default) ==
  IF name = None THEN [c EXCEPT !.bpreset = None]
  ELSE ClearTargets(UpdateBuildDirectory(
         [c EXCEPT !.bpreset = name, !.cpreset = c.build[name]], default))

(* The target selected before, or else the preferred one, or else the first.  *)
ReplaceTargets(c, targets) ==
  LET previous == IF SelectedTarget(c) # None THEN SelectedTarget(c) ELSE c.preferred
  IN [c EXCEPT !.targets = targets,
               !.selected = IF targets = <<>> THEN 0
                            ELSE SelectInSeq(targets, LAMBDA t : t = previous)
                                 + (IF previous \in ToSet(targets) THEN 0 ELSE 1)]

RestoreSelection(c, session) ==
  [c EXCEPT !.preferred = session.target, !.cpreset = session.cpreset,
            !.bpreset = session.bpreset, !.selected = 0]
RememberTarget(c, target) == [c EXCEPT !.preferred = target]

-----------------------------------------------------------------------------
(* The debug model and its file *)

ModelOf(i) == i.model[i.backend]

(* Mutant: a change of backend that starts from an empty model.               *)
ConfigureForgets(i, backend) == [i EXCEPT !.backend = backend]

(* A change of backend moves the model to it.                                 *)
Configure(i, backend) ==
  IF backend = i.backend THEN i
  ELSE [i EXCEPT !.model[backend] = i.model[i.backend], !.backend = backend]

ClearSessionState(i) == [i EXCEPT !.model = [b \in Backends |-> NoModel]]

(* A missing file is an empty session and a bad one is reported.              *)
Stored(session) == IF session \in {None, Bad} THEN NoSession ELSE session

CurrentSession(i) ==
  [marks |-> ModelOf(i).marks, registers |-> ModelOf(i).registers,
   target |-> i.cmake.preferred, cpreset |-> i.cmake.cpreset, bpreset |-> i.cmake.bpreset]

LoadDebugState(d, i) ==
  IF d.session[i.dir] = Bad THEN i
  ELSE LET session == Stored(d.session[i.dir])
       IN [i EXCEPT
             !.model[i.backend] = [marks |-> @.marks \cup session.marks, registers |-> session.registers],
             !.cmake = RefreshPresets(RestoreSelection(@, session), d.presets[i.root], i.dir)]

Fault(d) == [d EXCEPT !.trouble = @ + 1]      \* a file could not be written

(* The outcomes of saveDebugState(): the file is written whole or not at all. *)
SaveDebugState(d, i) ==
  IF i.root = None THEN {<<d, [i EXCEPT !.dirty = FALSE]>>}
  ELSE {<<[d EXCEPT !.session[i.dir] = CurrentSession(i)], [i EXCEPT !.dirty = FALSE]>>,
        <<Fault(d), [i EXCEPT !.dirty = TRUE]>>}

SaveIfDirty(d, i) == IF i.dirty /\ i.root # None THEN SaveDebugState(d, i) ELSE {<<d, i>>}

-----------------------------------------------------------------------------
(* Opening and closing *)

Valid(d, p) == d.content[p] = "project"

(* Settings that cannot be read are replaced by the default ones.             *)
LoadedSettings(d, p) ==
  IF d.settings[p] = Bad THEN [dir |-> DefaultDir[p], backend |-> "gdb-mi"] ELSE d.settings[p]

(* The entries of the list that are kept, in their order.                     *)
Only(list, kept) ==
  LET upto[n \in 0..Len(list)] ==
        IF n = 0 THEN <<>>
        ELSE IF list[n] \in kept THEN Append(upto[n - 1], list[n]) ELSE upto[n - 1]
  IN upto[Len(list)]

LoadRecentProjects(d) == Only(d.history, {p \in Root : Valid(d, p)})
(* Mutant: an earlier entry for the project stays in the list.                *)
RememberedTwice(d, p) ==
  LET list == <<p>> \o LoadRecentProjects(d)
  IN IF Len(list) > Limit THEN SubSeq(list, 1, Limit) ELSE list

Remembered(d, p) ==
  LET list == <<p>> \o Only(LoadRecentProjects(d), Root \ {p})
  IN IF Len(list) > Limit THEN SubSeq(list, 1, Limit) ELSE list
RememberRecentProject(d, p) == {[d EXCEPT !.history = Remembered(d, p)], Fault(d)}

(* stop() of everything, then both debug models and the selection are empty.  *)
Unloaded(i) ==
  [Configure(ClearSessionState(i), "gdb-mi") EXCEPT
     !.root = None, !.dir = None, !.cmake = CMakeReset(None), !.dirty = FALSE]
UnloadProject(d, i) == {<<s[1], Unloaded(s[2])>> : s \in SaveIfDirty(d, i)}

(* `build` is the build directory given by an import or a new project.        *)
LoadProject(d, i, p, build) ==
  LET settings == LoadedSettings(d, p)
      dir == IF build = None THEN settings.dir ELSE build
      Opened(j) == Configure([j EXCEPT !.root = p, !.dir = dir, !.cmake = CMakeReset(dir)],
                             settings.backend)
  IN UNION {{<<kept, LoadDebugState(s[1], Opened(s[2]))>> : kept \in RememberRecentProject(s[1], p)} :
            s \in UnloadProject(d, i)}

-----------------------------------------------------------------------------
(* Commands of IdeWindow. `log` is what the properties look back on: the      *)
(* projects in the order they were last opened, whether the settings changed  *)
(* since the session was last saved, and the projects imported with the       *)
(* sources their CMakeLists.txt lists. `build` is the command just started.   *)
VARIABLES plan, build, log, ops
all == <<disk, ide, plan, build, log, ops>>

StepBuilding(outcome, command) ==
  /\ ops < MaxOps /\ ops' = ops + 1
  /\ build' = command
  /\ outcome[1].trouble <= MaxTrouble
  /\ disk' = outcome[1] /\ ide' = outcome[2]
Step(outcome) == StepBuilding(outcome, None)

(* An opening counts in the order when the list could be written.            *)
LogOpened(p) ==
  [log EXCEPT !.opened = IF disk'.history # <<>> /\ Head(disk'.history) = p
                         THEN <<p>> \o Only(@, Root \ {p}) ELSE @,
              !.moved = FALSE, !.forgot = FALSE]
LogSaved == IF ide'.dirty THEN log ELSE [log EXCEPT !.moved = FALSE, !.forgot = FALSE]

(* openProject(), openRecentProject() and the project named at start-up.      *)
OpenProject(p) ==
  /\ p # ide.root /\ Valid(disk, p)
  /\ \E outcome \in LoadProject(disk, ide, p, None) : Step(outcome)
  /\ log' = LogOpened(p)
  /\ UNCHANGED plan

CloseProject ==
  /\ ide.root # None
  /\ \E outcome \in UnloadProject(disk, ide) : Step(outcome)
  /\ UNCHANGED <<plan, log>>

(* The destructor of the window saves what could not be saved before; a       *)
(* process that is killed does not. The next one starts without a project.    *)
Restart(crashed) ==
  /\ ide.root # None
  /\ \E s \in IF crashed THEN {<<disk, ide>>} ELSE SaveIfDirty(disk, ide) : Step(<<s[1], IdleIde>>)
  /\ plan' = None
  /\ UNCHANGED log

(* toggleBreakpoint(), the watch dialogs and the registers command.           *)
EditDebugModel ==
  /\ ide.root # None
  /\ \E m \in Marks[ide.root] \cup ModelOf(ide).marks \cup {None} :
       LET model == ModelOf(ide)
           edited == IF m = None THEN [model EXCEPT !.registers = ~@]
                     ELSE [model EXCEPT !.marks = IF m \in @ THEN @ \ {m} ELSE @ \cup {m}]
       IN \E outcome \in SaveDebugState(disk, [ide EXCEPT !.model[ide.backend] = edited]) : Step(outcome)
  /\ log' = LogSaved
  /\ UNCHANGED plan

(* The presets are read again before and after the dialog; a refusal leaves   *)
(* what was read.                                                             *)
ChoosePreset(Can(_, _), Select(_, _, _), name) ==
  /\ ide.root # None
  /\ LET c == RefreshPresets(ide.cmake, disk.presets[ide.root], ide.dir)
         read == [ide EXCEPT !.cmake = c]
     IN IF PresetsValid(ide.cmake, disk.presets[ide.root]) /\ Can(c, name)
        THEN /\ \E outcome \in SaveDebugState(disk, [read EXCEPT !.cmake = Select(c, name, ide.dir)]) :
                  Step(outcome)
             /\ log' = LogSaved
        ELSE Step(<<disk, read>>) /\ UNCHANGED log
  /\ UNCHANGED plan
SelectCMakePreset(name) == ChoosePreset(CanSelectConfigurePreset, SelectConfigurePreset, name)
SelectCMakeBuildPreset(name) == ChoosePreset(CanSelectBuildPreset, SelectBuildPreset, name)

TargetsOnDisk == disk.targets[ide.cmake.dir]
RefreshCMakeTargets ==
  /\ ide.root # None
  /\ Step(<<disk, [ide EXCEPT !.cmake = ReplaceTargets(@, TargetsOnDisk)]>>)
  /\ UNCHANGED <<plan, log>>

SelectCMakeTarget ==
  /\ ide.root # None
  /\ LET c == ReplaceTargets(ide.cmake, TargetsOnDisk)
     IN \E n \in DOMAIN c.targets :
          \E outcome \in SaveDebugState(disk,
               [ide EXCEPT !.cmake = RememberTarget([c EXCEPT !.selected = n], c.targets[n])]) :
            Step(outcome)
  /\ log' = LogSaved
  /\ UNCHANGED plan

(* launchCommand(): Run and Debug prefer the target they start.               *)
LaunchTarget ==
  /\ ide.root # None
  /\ LET c == ReplaceTargets(ide.cmake, TargetsOnDisk)
     IN /\ SelectedTarget(c) # None
        /\ \E outcome \in SaveDebugState(disk, [ide EXCEPT !.cmake = RememberTarget(c, SelectedTarget(c))]) :
             Step(outcome)
  /\ log' = LogSaved
  /\ UNCHANGED plan

(* beginBuildOperation() and the stages it starts: the command is made from   *)
(* the selection and the directory as they are now.                           *)
StartBuild ==
  /\ ide.root # None
  /\ LET c == RefreshPresets(ide.cmake, disk.presets[ide.root], ide.dir)
     IN StepBuilding(<<disk, [ide EXCEPT !.cmake = c]>>,
          IF PresetsValid(ide.cmake, disk.presets[ide.root])
          THEN [dir |-> c.dir, cpreset |-> c.cpreset, bpreset |-> c.bpreset]
          ELSE None)
  /\ UNCHANGED <<plan, log>>

(* projectSettings() saves a dirty session first, manageToolchainKits() does  *)
(* not and keeps the build directory. Both forget the selection.              *)
ApplySettings(i, settings) ==
  Configure([i EXCEPT !.dir = settings.dir, !.cmake = CMakeReset(settings.dir)], settings.backend)

(* A .gitignore that cannot be written leaves the new settings in their file  *)
(* and the window with the old ones.                                          *)
ProjectSettings ==
  /\ ide.root # None
  /\ \E settings \in [dir : DirsOf[ide.root], backend : Backends] :
       LET written == [disk EXCEPT !.settings[ide.root] = settings]
       IN \/ /\ \E s \in SaveIfDirty(written, ide) : Step(<<s[1], ApplySettings(s[2], settings)>>)
             /\ log' = [log EXCEPT !.moved = @ \/ settings.dir # ide.dir, !.forgot = TRUE]
          \/ Step(<<Fault(written), ide>>) /\ UNCHANGED log
  /\ UNCHANGED plan

ManageToolchainKits ==
  /\ ide.root # None
  /\ \E backend \in Backends :
       LET settings == [dir |-> ide.dir, backend |-> backend]
       IN Step(<<[disk EXCEPT !.settings[ide.root] = settings], ApplySettings(ide, settings)>>)
  /\ log' = [log EXCEPT !.forgot = TRUE]
  /\ UNCHANGED plan

-----------------------------------------------------------------------------
(* Creating and importing. A directory is "absent" (or empty), "sources"      *)
(* (no CMakeLists.txt), "partial" (a creation that failed) or "project".      *)

(* createNewProject() writes CMakeLists.txt before the settings and removes   *)
(* nothing when a later file cannot be written.                               *)
NewProject(p) ==
  /\ p # ide.root
  /\ \E dir \in DirsOf[p] :
       LET created == [disk EXCEPT !.content[p] = "project",
                                   !.settings[p] = [dir |-> dir, backend |-> "gdb-mi"]]
       IN \/ /\ disk.content[p] = "absent"
             /\ \E outcome \in LoadProject(created, ide, p, dir) : Step(outcome)
             /\ log' = LogOpened(p)
          \/ /\ disk.content[p] = "absent"
             /\ \E left \in {"partial", "project"} : Step(<<Fault([disk EXCEPT !.content[p] = left]), ide>>)
             /\ UNCHANGED log
  /\ UNCHANGED plan

(* planProjectImport() and the preview the user is shown.                     *)
PlanImport(p) ==
  /\ p # ide.root /\ disk.content[p] = "sources"
  /\ plan' = [project |-> p, sources |-> disk.sources[p]]
  /\ Step(<<disk, ide>>)
  /\ UNCHANGED log

Unchanged(p) == disk.content[p] = "sources" /\ disk.sources[p] = plan.sources

(* createImportedProject() plans again and gives up when anything differs; a  *)
(* step that fails takes back what was installed, the settings of an earlier  *)
(* project in that directory included.                                        *)
ImportProject ==
  /\ plan # None
  /\ LET p == plan.project IN
     \/ /\ ~Unchanged(p)
        /\ Step(<<disk, ide>>) /\ UNCHANGED log
     \/ /\ Unchanged(p)
        /\ \E dir \in DirsOf[p] :
             LET installed == [disk EXCEPT !.content[p] = "project",
                                           !.settings[p] = [dir |-> dir, backend |-> "gdb-mi"]]
             IN \E outcome \in LoadProject(installed, ide, p, dir) : Step(outcome)
        /\ log' = [LogOpened(p) EXCEPT !.imported = @ \cup {[listed |-> plan.sources, found |-> disk.sources[p]]}]
     \/ /\ Unchanged(p)
        /\ \E settings \in {disk.settings[p], Bad} : Step(<<Fault([disk EXCEPT !.settings[p] = settings]), ide>>)
        /\ UNCHANGED log
  /\ plan' = None

-----------------------------------------------------------------------------
(* Other programs: the user's editor, CMake, git.                             *)
Change(d) == ops < MaxOps /\ disk.trouble < MaxTrouble /\ disk' = [d EXCEPT !.trouble = @ + 1]

OtherPrograms ==
  /\ \/ \E p \in Root, f \in PresetFiles : Change([disk EXCEPT !.presets[p] = f])
     \/ \E dir \in Places, list \in TargetLists : Change([disk EXCEPT !.targets[dir] = list])
     \/ \E p \in Root : /\ disk.content[p] = "sources"
                        /\ Change([disk EXCEPT !.sources[p] = @ + 1])
     \/ \E p \in Root : /\ disk.content[p] \in {"sources", "project"}
                        /\ \E c \in {"sources", "project"} \ {disk.content[p]} :
                             Change([disk EXCEPT !.content[p] = c])
     \/ \E p \in Root : Change([disk EXCEPT !.settings[p] = Bad])
     \/ \E dir \in Dirs : ide.dir # dir /\ Change([disk EXCEPT !.session[dir] = Bad])
  /\ build' = None
  /\ UNCHANGED <<ide, plan, log, ops>>

Init ==
  /\ \E content \in Contents, file \in FirstPresets, list \in FirstTargets :
       disk = [content |-> content, sources |-> [p \in Root |-> 0],
               settings |-> [p \in Root |-> [dir |-> DefaultDir[p], backend |-> "gdb-mi"]],
               presets |-> [p \in Root |-> file],
               targets |-> [dir \in Places |-> list],
               session |-> [dir \in Dirs |-> None], history |-> <<>>, trouble |-> 0]
  /\ ide = IdleIde /\ plan = None /\ build = None
  /\ log = [opened |-> <<>>, moved |-> FALSE, forgot |-> FALSE, imported |-> {}]
  /\ ops = 0

Next ==
  \/ \E p \in Root : OpenProject(p) \/ NewProject(p) \/ PlanImport(p)
  \/ CloseProject \/ ImportProject
  \/ \E crashed \in BOOLEAN : Restart(crashed)
  \/ EditDebugModel \/ RefreshCMakeTargets \/ SelectCMakeTarget \/ LaunchTarget \/ StartBuild
  \/ \E name \in ConfigureNames \cup {None} : SelectCMakePreset(name)
  \/ \E name \in BuildNames \cup {None} : SelectCMakeBuildPreset(name)
  \/ ProjectSettings \/ ManageToolchainKits
  \/ OtherPrograms

Spec == Init /\ [][Next]_all

-----------------------------------------------------------------------------
(* Properties *)

(* The fields stay in their types: a selected target is one of the list, the  *)
(* open project has a build directory and the list of projects is bounded.    *)
TypeOK ==
  /\ ide.root \in Root \cup {None} /\ ide.backend \in Backends /\ ide.dirty \in BOOLEAN
  /\ ide.dir \in (IF ide.root = None THEN {None} ELSE DirsOf[ide.root])
  /\ \A b \in Backends : /\ ide.model[b].marks \subseteq UNION {Marks[p] : p \in Root}
                         /\ ide.model[b].registers \in BOOLEAN
  /\ ide.cmake.targets \in TargetLists \cup {<<>>}
  /\ ide.cmake.selected \in 0..Len(ide.cmake.targets)
  /\ (ide.cmake.selected = 0) = (ide.cmake.targets = <<>>)
  /\ ide.cmake.cpreset \in ConfigureNames \cup {None} /\ ide.cmake.bpreset \in BuildNames \cup {None}
  /\ ToSet(disk.history) \subseteq Root /\ Len(disk.history) <= Limit

(* While nothing waits to be saved, opening the project again with its build  *)
(* directory would bring back what the window shows: its breakpoints, watches *)
(* and registers also after a change of backend, and its target and presets.  *)
(* A build directory changed in the window and the selection that a change of *)
(* settings forgets are the exceptions, until the next save.                  *)
Same(d, i, moved, forgot) ==
  i.root # None /\ ~i.dirty =>
    LET saved == Stored(d.session[i.dir])
        shown == CurrentSession(i)
    IN /\ ~moved => saved.marks = shown.marks /\ saved.registers = shown.registers
       /\ ~forgot => /\ saved.target = shown.target
                     /\ saved.cpreset = shown.cpreset /\ saved.bpreset = shown.bpreset
SessionSaved == Same(disk, ide, log.moved, log.forgot)

(* No build directory of the group is one of a project outside it. Around(p)  *)
(* is the smallest such group with p: {p} for a project whose directories are *)
(* its own, and otherwise the projects joined to it by shared directories.    *)
Apart(group) == \A p \in group, q \in Root \ group : DirsOf[p] \cap DirsOf[q] = {}
Around(p) == {q \in Root : \A group \in SUBSET Root : p \in group /\ Apart(group) => q \in group}
NearMarks == [p \in Root |-> UNION {Marks[q] : q \in Around(p)}]

(* A breakpoint or watch of another project is in neither backend and comes   *)
(* back from no session file, whatever projects were open and whichever       *)
(* backend they used, unless shared build directories join the two projects:  *)
(* nothing but the directory tells their sessions apart.                      *)
MarksStayHome ==
  /\ \A b \in Backends : ide.model[b].marks \subseteq (IF ide.root = None THEN {} ELSE NearMarks[ide.root])
  /\ \A p \in Root : \A dir \in DirsOf[p] : Stored(disk.session[dir]).marks \subseteq NearMarks[p]

(* Opening a project brings back the session last saved in its directory,     *)
(* which is its own unless it shares that directory.                          *)
SessionKept == TypeOK /\ SessionSaved /\ MarksStayHome

(* A build is only started with presets that the file had when it was         *)
(* started: the build preset belongs to the configure preset, and the         *)
(* directory is the one that CMake would use for it.                          *)
BuildAsSelected ==
  build # None =>
    LET file == disk.presets[ide.root]
        Named(d) == IF d = None THEN ide.dir ELSE d
    IN /\ build.cpreset # None => build.cpreset \in file.configure
       /\ build.bpreset # None => /\ build.bpreset \in DOMAIN file.build
                                 /\ file.build[build.bpreset] = build.cpreset
       /\ build.dir = IF build.cpreset = None THEN ide.dir ELSE Named(BinaryDir[build.cpreset])

ImportIsCurrent == \A i \in log.imported : i.listed = i.found
Position(p) == CHOOSE n \in DOMAIN log.opened : log.opened[n] = p
HistoryIsRecency ==
  /\ ToSet(disk.history) \subseteq ToSet(log.opened)
  /\ \A m, n \in DOMAIN disk.history :
       m < n => Position(disk.history[m]) < Position(disk.history[n])

(* An import lists the sources the directory has, also when they change while *)
(* the preview is shown; and the recent projects are in the order in which    *)
(* they were last opened, none twice.                                         *)
FilesTellTheTruth == ImportIsCurrent /\ HistoryIsRecency

-----------------------------------------------------------------------------
(* The inductive invariant, of any disk, window and log.                      *)

CMakeSet ==
  [dir : Places \cup {None}, configure : SUBSET ConfigureNames,
   build : {f.build : f \in PresetFiles} \cup {<<>>}, targets : TargetLists \cup {<<>>},
   selected : Nat, cpreset : ConfigureNames \cup {None}, bpreset : BuildNames \cup {None},
   preferred : Targets \cup {None}]
ModelSet == [marks : SUBSET UNION {Marks[p] : p \in Root}, registers : BOOLEAN]
IdeSet ==
  [root : Root \cup {None}, dir : Dirs \cup {None}, backend : Backends,
   model : [Backends -> ModelSet], cmake : CMakeSet, dirty : BOOLEAN]
SettingsSet == [dir : Dirs, backend : Backends]
DiskSet ==
  [content : [Root -> Kinds], sources : [Root -> Nat], settings : [Root -> SettingsSet \cup {Bad}],
   presets : [Root -> PresetFiles], targets : [Places -> TargetLists],
   session : [Dirs -> SessionSet \cup {None, Bad}], history : Seq(Root), trouble : Nat]
LogSet ==
  [opened : Seq(Root), moved : BOOLEAN, forgot : BOOLEAN, imported : SUBSET [listed : Nat, found : Nat]]

(* A build preset is not selected without its configure preset.               *)
Paired(s) == s.bpreset # None => s.cpreset # None

DiskOK(d) ==
  /\ d \in DiskSet /\ Len(d.history) <= Limit
  /\ \A p \in Root : d.settings[p] # Bad => d.settings[p].dir \in DirsOf[p]
  /\ \A p \in Root : \A dir \in DirsOf[p] :
       Stored(d.session[dir]).marks \subseteq NearMarks[p] /\ Paired(Stored(d.session[dir]))

CMakeOK(c) ==
  /\ c \in CMakeSet /\ Paired(c)
  /\ c.selected \in 0..Len(c.targets) /\ (c.selected = 0) = (c.targets = <<>>)

IdeOK(i) ==
  /\ i \in IdeSet /\ CMakeOK(i.cmake)
  /\ IF i.root = None THEN i.dir = None ELSE i.dir \in DirsOf[i.root] /\ i.cmake.dir \in Places
  /\ \A b \in Backends : i.model[b].marks \subseteq (IF i.root = None THEN {} ELSE NearMarks[i.root])

(* x is somewhere before y. No project is before itself among the opened, and *)
(* what is before another in the list of projects was opened later.           *)
Follows(s, x, y) == \E m, n \in 1..Len(s) : m < n /\ s[m] = x /\ s[n] = y
Recent(history, opened) ==
  /\ ToSet(history) \subseteq ToSet(opened)
  /\ \A p, q \in Root : Follows(history, p, q) => Follows(opened, p, q)
  /\ \A p \in Root : ~Follows(opened, p, p)

IInv ==
  /\ DiskOK(disk) /\ IdeOK(ide) /\ SessionSaved
  /\ log \in LogSet /\ plan \in [project : Root, sources : Nat] \cup {None}
  /\ Recent(disk.history, log.opened)
  /\ ImportIsCurrent /\ BuildAsSelected
=============================================================================
