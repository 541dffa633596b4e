--------------------------- MODULE MCPreferences ---------------------------
(***************************************************************************)
(* What the user chooses and keeps: a behaviour is one of the user         *)
(* settings (Preferences), of the launch configurations of a project or of *)
(* its CMake presets, with variables of their own. The three share no      *)
(* state in the code either: each has its file, its dialog and its part of *)
(* IdeWindow.                                                              *)
(***************************************************************************)
EXTENDS Preferences, FiniteSets

CONSTANTS dark, build, hop, k1, k2, k3, light, mine, keyword, red, f, g, h,
          a, b, c1, c2, c3, bad, odd, usual, noName, none

MCOrder == <<build, hop>>
MCDefault == build :> k1 @@ hop :> k2
With2(s) == [Defaults EXCEPT !.shortcuts = s]
MCWritten == {
  Absent, Corrupt,
  With2(build :> k2),
  With2(build :> Reserved @@ hop :> Nonsense),
  [Defaults EXCEPT !.theme = mine, !.customs = mine :> light, !.recents = <<f, g>>]}
MCFirstFiles == {{f}, {f, g, h}}
Use(gives, most, bad_) == [gives |-> gives, most |-> most, troubles |-> bad_]
MCUses == {Use({"shortcuts"}, 2, 1), Use({"theme", "colors", "language"}, 3, 1),
           Use({"files", "recent"}, 5, 2), Use({"language", "files", "theme"}, 3, 1)}

VARIABLES
  part,  \* what this behaviour is about: "user", "launch" or "presets"
  l_settings, l_disk, l_split, l_dialog, l_running, l_left,
  p_project, p_user, p_configure, p_build, p_dialog, p_writer, p_fresh, p_left

launchVars == <<l_settings, l_disk, l_split, l_dialog, l_running, l_left>>
presetVars == <<p_project, p_user, p_configure, p_build, p_dialog, p_writer, p_fresh, p_left>>

\* Shown and read back, a configuration loses what the fields cannot hold.
ReadBack == [x \in {c1, c2, c3, bad} |-> IF x = c1 THEN c2 ELSE x]
LaunchFile(active, cs) ==
  [active |-> active, other |-> odd,
   configurations |-> [i \in DOMAIN cs |-> [name |-> cs[i][1], configuration |-> cs[i][2]]]]
LaunchFiles == {
  Absent, Corrupt,
  LaunchFile(b, <<<<a, c1>>, <<b, c3>>>>), LaunchFile(a, <<<<a, c1>>, <<noName, c3>>>>),
  LaunchFile(a, <<<<a, bad>>>>), LaunchFile(a, <<<<a, c1>>, <<a, c3>>>>),
  LaunchFile(b, <<<<a, c1>>>>)}

Launch == INSTANCE LaunchConfigurations WITH
  Names <- {a, b, mine}, Default <- mine, Configurations <- {c1, c2, c3, bad},
  Plain <- c2, Refused <- {bad}, Reread <- ReadBack, Others <- {odd, usual}, Usual <- usual,
  NoName <- noName, None <- none, Written <- LaunchFiles, Most <- 5,
  settings <- l_settings, disk <- l_disk, split <- l_split, dialog <- l_dialog,
  running <- l_running, left <- l_left

Preset(parent, hidden, configures) ==
  [parent |-> parent, hidden |-> hidden, configure |-> configures]
PresetFile(configures, builds) == [configure |-> configures, build |-> builds]
ProjectFile == PresetFile(mine :> Preset(none, TRUE, none) @@ a :> Preset(mine, FALSE, none),
                          a :> Preset(none, FALSE, a))
UserFile == PresetFile(b :> Preset(a, FALSE, none), b :> Preset(a, FALSE, b))
TypedPresets ==
  [configure |-> {Preset(parent, FALSE, none) : parent \in {none, a, b}},
   build |-> {Preset(none, FALSE, b), Preset(a, FALSE, none), Preset(b, FALSE, a)}]

Presets == INSTANCE PresetFiles WITH
  Names <- {a, b, mine}, NoPreset <- none, Unknown <- noName, Broken <- Corrupt,
  FirstFiles <- {<<ProjectFile, Absent>>, <<ProjectFile, UserFile>>, <<Absent, Corrupt>>},
  Others <- {Corrupt, Absent, UserFile}, Typed <- TypedPresets, Most <- 3,
  project <- p_project, user <- p_user, configure <- p_configure, build <- p_build,
  dialog <- p_dialog, writer <- p_writer, fresh <- p_fresh, left <- p_left

ASSUME LaunchesAssumption == Launch!LaunchAssumption

\* The variables of the parts a behaviour is not about.
NoUser ==
  /\ settings = none /\ disk = none /\ unsaved = none /\ shown = none
  /\ accelerators = none /\ menu = none /\ dialog = none /\ deferred = none
  /\ files = none /\ missed = none /\ used = none /\ doing = none
  /\ troubles = none
NoLaunch ==
  /\ l_settings = none /\ l_disk = none /\ l_split = none
  /\ l_dialog = none /\ l_running = none /\ l_left = none
NoPresets ==
  /\ p_project = none /\ p_user = none /\ p_configure = none
  /\ p_build = none /\ p_dialog = none /\ p_writer = none /\ p_fresh = none
  /\ p_left = none

AllInit ==
  \/ part = "user" /\ Init /\ NoLaunch /\ NoPresets
  \/ part = "launch" /\ Launch!Init /\ NoUser /\ NoPresets
  \/ part = "presets" /\ Presets!Init /\ NoUser /\ NoLaunch
AllNext ==
  /\ \/ part = "user" /\ Next /\ UNCHANGED <<launchVars, presetVars>>
     \/ part = "launch" /\ Launch!Next /\ UNCHANGED <<vars, presetVars>>
     \/ part = "presets" /\ Presets!Next /\ UNCHANGED <<vars, launchVars>>
  /\ UNCHANGED part
AllSpec == AllInit /\ [][AllNext]_<<vars, launchVars, presetVars, part>>

\* What was chosen is kept and in force: see PreferencesKept of Preferences,
\* LaunchesKept of LaunchConfigurations and PresetsKept of PresetFiles.
ChoicesKept ==
  /\ part = "user" => PreferencesKept
  /\ part = "launch" => Launch!LaunchesKept
  /\ part = "presets" => Presets!PresetsKept
=============================================================================
