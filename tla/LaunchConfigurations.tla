------------------------ MODULE LaunchConfigurations ------------------------
(***************************************************************************)
(* The Run/Debug configurations of a project: the settings file that keeps *)
(* them (src/src/project_settings.cpp), the dialog that manages them       *)
(* (LaunchConfigurationManagerDialog, src/src/run_dialogs.cpp) and the     *)
(* commands of IdeWindow that choose the one Run and Debug use.            *)
(*                                                                         *)
(* A configuration is a value of Configurations. "running" is history: the *)
(* configuration the build, program or debugger at work was started with.  *)
(***************************************************************************)
EXTENDS Integers, Sequences, SequencesExt

CONSTANTS Names, Default,    \* names; the one of a new project
          Configurations, Plain, \* and the one of a new project
          Refused,           \* those without the terminal they ask for
          Reread,            \* what the dialog reads back of one it shows
          Others, Usual,     \* values of the other project settings
          NoName, None,
          Written,           \* what .tuiide-project.json may hold at first
          Absent, Corrupt,
          Most               \* bound: how much the user does

LaunchAssumption ==
  /\ Default \in Names /\ Plain \in Configurations \ Refused
  /\ Usual \in Others /\ Refused \subseteq Configurations /\ Reread \in [Configurations -> Configurations]

VARIABLES
  settings,  \* project_settings_
  disk,      \* .tuiide-project.json
  split,     \* .gitignore failed after the settings were saved
  dialog, running,
  left       \* what the user may still do

vars == <<settings, disk, split, dialog, running, left>>

Named(n, c) == [name |-> n, configuration |-> c]
NamesOf(cs) == {cs[i].name : i \in DOMAIN cs}
Position(cs, n) == SelectInSeq(cs, LAMBDA x : x.name = n)

-----------------------------------------------------------------------------
\* The settings and their file.

DefaultSettings == [configurations |-> <<Named(Default, Plain)>>, active |-> Default,
                    launch |-> Plain, other |-> Usual]

\* For a name that is there.
SelectLaunchConfiguration(cs, n, other) ==
  [configurations |-> cs, active |-> n, launch |-> cs[Position(cs, n)].configuration,
   other |-> other]

SynchronizeActive(s) ==
  IF s.active \in NamesOf(s.configurations)
  THEN [s EXCEPT !.configurations[Position(s.configurations, s.active)].configuration = s.launch]
  ELSE s

Valid(s) ==
  LET cs == s.configurations
  IN /\ s.active \in NamesOf(cs)
     /\ \A i, j \in DOMAIN cs : cs[i].name = cs[j].name => i = j
     /\ \A i \in DOMAIN cs :
          (IF cs[i].name = s.active THEN s.launch ELSE cs[i].configuration) \notin Refused

\* loadProjectSettings(), and the defaults ProjectSession takes when it refuses.
Loaded(d) ==
  IF d \in {Absent, Corrupt} THEN DefaultSettings
  ELSE LET cs == SelectSeq(d.configurations, LAMBDA x : x.name # NoName)
           s == SelectLaunchConfiguration(cs, d.active, d.other)
       IN IF d.active \in NamesOf(cs) /\ Valid(s) THEN s ELSE DefaultSettings

\* saveProjectSettings(): the file that is left.
Saved(s, ok) ==
  IF ok /\ Valid(s)
  THEN [configurations |-> SynchronizeActive(s).configurations, active |-> s.active,
        other |-> s.other]
  ELSE disk

\* Settings take effect once they are saved.
Accept(s, ok) ==
  /\ disk' = Saved(s, ok)
  /\ settings' = IF ok /\ Valid(s) THEN s ELSE settings
  /\ split' = (split /\ ~(ok /\ Valid(s)))

-----------------------------------------------------------------------------
NoDialog == [configurations |-> <<>>]
Idle == dialog = NoDialog
Step == left > 0 /\ left' = left - 1

Init ==
  /\ disk \in Written /\ settings = Loaded(disk)
  /\ split = FALSE
  /\ dialog = NoDialog /\ running = None /\ left = Most

\* The project is opened again, perhaps after a crash of the IDE.
Reopen ==
  /\ Step /\ settings' = Loaded(disk) /\ split' = FALSE /\ dialog' = NoDialog /\ running' = None
  /\ UNCHANGED disk

\* A build, a program, its console or the debugger begins and ends.
Start ==
  /\ Idle /\ running = None /\ Step /\ running' = settings.launch
  /\ UNCHANGED <<settings, disk, split, dialog>>
Finish ==
  /\ running # None /\ running' = None /\ UNCHANGED <<settings, disk, split, dialog, left>>

\* Another setting is changed, with a toolchain kit or in the Project Settings.
ManageToolchainKits(other, ok) ==
  /\ Idle /\ running = None /\ Step /\ UNCHANGED <<dialog, running>>
  /\ Accept([settings EXCEPT !.other = other], ok)

\* Here .gitignore is updated before the settings take effect.
ProjectSettings(other, ok, ignored) ==
  /\ Idle /\ running = None /\ Step /\ UNCHANGED <<dialog, running>>
  /\ LET updated == [settings EXCEPT !.other = other]
     IN IF ignored THEN Accept(updated, ok)
        ELSE /\ disk' = Saved(updated, ok) /\ split' = (split \/ ok) /\ UNCHANGED settings

-----------------------------------------------------------------------------
\* LaunchConfigurationManagerDialog, over a copy of the configurations.

Refresh(cs, selected, preferred) ==
  [configurations |-> cs, selected |-> selected, row |-> Position(cs, preferred)]

LaunchSettings ==
  /\ Idle /\ running = None /\ Step
  /\ LET current == SynchronizeActive(settings)
     IN dialog' = Refresh(current.configurations, current.active, current.active)
  /\ UNCHANGED <<settings, disk, split, running>>

Managing == ~Idle /\ UNCHANGED <<settings, disk, split, running>>

MoveTo(row) ==
  /\ Managing /\ row \in DOMAIN dialog.configurations /\ dialog' = [dialog EXCEPT !.row = row]
  /\ UNCHANGED left

\* requestUniqueName()
Unused(n) == n \notin NamesOf(dialog.configurations)

AddConfiguration(n, c) ==
  /\ Managing /\ Step /\ Unused(n) /\ c \notin Refused
  /\ dialog' = Refresh(Append(dialog.configurations, Named(n, c)), dialog.selected, n)

CloneConfiguration(n) ==
  /\ Managing /\ Step /\ Unused(n)
  /\ LET c == dialog.configurations[dialog.row].configuration
     IN dialog' = Refresh(Append(dialog.configurations, Named(n, c)), dialog.selected, n)

\* The user leaves the fields as they are, or types another configuration.
EditConfiguration(c) ==
  /\ Managing /\ Step /\ c \notin Refused
  /\ dialog' = [dialog EXCEPT !.configurations[dialog.row].configuration = c]

DeleteConfiguration ==
  /\ Managing /\ Step /\ Len(dialog.configurations) > 1
  /\ LET kept == RemoveAt(dialog.configurations, dialog.row)
         selected == IF dialog.configurations[dialog.row].name = dialog.selected
                     THEN Head(kept).name ELSE dialog.selected
     IN dialog' = Refresh(kept, selected, selected)

SelectConfiguration(ok) ==
  /\ ~Idle /\ dialog' = NoDialog
  /\ Accept(SelectLaunchConfiguration(dialog.configurations,
                                      dialog.configurations[dialog.row].name,
                                      settings.other), ok)
  /\ UNCHANGED <<running, left>>

Cancel == Managing /\ dialog' = NoDialog /\ UNCHANGED left

\* Another configuration is chosen from a list.
SelectLaunchProfile(row, ok) ==
  /\ Idle /\ running = None /\ Step
  /\ LET current == SynchronizeActive(settings)
     IN /\ row \in DOMAIN current.configurations
        /\ Accept(SelectLaunchConfiguration(current.configurations,
                                            current.configurations[row].name,
                                            settings.other), ok)
  /\ UNCHANGED <<dialog, running>>

Next ==
  \/ Reopen \/ Start \/ Finish \/ LaunchSettings \/ DeleteConfiguration \/ Cancel
  \/ \E row \in 1 .. Most : MoveTo(row)
  \/ \E n \in Names : CloneConfiguration(n) \/ \E c \in Configurations : AddConfiguration(n, c)
  \/ \E c \in Configurations : EditConfiguration(c)
  \/ ~Idle /\ EditConfiguration(Reread[dialog.configurations[dialog.row].configuration])
  \/ \E ok \in BOOLEAN :
       \/ SelectConfiguration(ok)
       \/ \E other \in Others : ManageToolchainKits(other, ok)
            \/ \E ignored \in BOOLEAN : ProjectSettings(other, ok, ignored)
       \/ \E row \in 1 .. Most : SelectLaunchProfile(row, ok)

-----------------------------------------------------------------------------
\* The settings in force are those the next start finds, unless .gitignore could
\* not be written after them; one configuration has the active name and is the
\* one Run and Debug use; nothing changes it under a build, a program or the
\* debugger that was started with it; and whatever is added, edited or deleted in
\* the dialog, the configuration it marks as active is one of its list, each name
\* once.
LaunchesKept ==
  /\ [settings EXCEPT !.other = Usual] = [Loaded(disk) EXCEPT !.other = Usual]
  /\ ~split => settings = Loaded(disk)
  /\ SynchronizeActive(settings) = settings /\ running \in {None, settings.launch}
  /\ ~Idle => /\ dialog.selected \in NamesOf(dialog.configurations)
              /\ Cardinality(NamesOf(dialog.configurations)) = Len(dialog.configurations)
=============================================================================
