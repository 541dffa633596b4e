----------------------------- MODULE PresetFiles -----------------------------
(***************************************************************************)
(* The CMake presets: the files that hold them (src/src/cmake_presets.cpp),*)
(* the dialog that edits those of CMakeUserPresets.json                    *)
(* (CMakePresetManagerDialog, src/src/run_dialogs.cpp), and the choice of  *)
(* a configure and a build preset (selectCMakePreset of IdeWindow,         *)
(* src/src/cmake_session.cpp).                                             *)
(*                                                                         *)
(* A file maps each kind of preset to its presets by name. A preset has at *)
(* most one parent (bound); the project's file stands for all it includes. *)
(* "writer" is history: who changed a file last; "fresh" is whether no     *)
(* file has changed since the last choice.                                 *)
(***************************************************************************)
EXTENDS Integers, FiniteSets, Functions, TLC

CONSTANTS Names,       \* of configure presets and of build presets
          NoPreset, Unknown,
          Absent, Broken, \* no file; one that is not JSON
          FirstFiles,  \* the pairs of files there may be at first
          Others,      \* what another program may make of them
          Typed,       \* the presets of each kind one may type
          Most         \* bound: how often presets and files are changed

Kinds == {"configure", "build"}

VARIABLES
  project, user,     \* CMakePresets.json and CMakeUserPresets.json
  configure, build,  \* configure_preset_ and build_preset_ of CMakeSession
  dialog,
  writer, fresh,
  left               \* the changes still to come

vars == <<project, user, configure, build, dialog, writer, fresh, left>>

Nothing == <<>>
NoPresets == [k \in Kinds |-> Nothing]

-----------------------------------------------------------------------------
\* The presets of two files.

PresetsOf(file) == IF file = Absent THEN NoPresets ELSE file

\* collectPresets()
Collects(p, u) ==
  /\ Broken \notin {p, u}
  /\ \A k \in Kinds : DOMAIN PresetsOf(p)[k] \cap DOMAIN PresetsOf(u)[k] = {}
Raw(p, u, k) == PresetsOf(p)[k] @@ PresetsOf(u)[k]

\* The ancestors of a preset, itself first, until one that is not there.
Lineage(presets, name) ==
  LET up[n \in 0 .. Cardinality(Names)] ==
        IF n = 0 THEN name
        ELSE IF up[n - 1] \in DOMAIN presets THEN presets[up[n - 1]].parent ELSE Unknown
  IN up

\* resolvePreset() knows every ancestor and meets none twice.
Resolves(presets, name) == NoPreset \in Range(Lineage(presets, name))

\* The configure preset a build preset has, or inherits from the nearest.
ConfigureOf(presets, name) ==
  LET up == Lineage(presets, name)
      has == {n \in DOMAIN up : /\ up[n] \in DOMAIN presets
                                /\ presets[up[n]].configure # NoPreset}
  IN IF has = {} THEN NoPreset
     ELSE presets[up[CHOOSE n \in has : \A m \in has : n <= m]].configure

AllResolve(presets) == \A name \in DOMAIN presets : Resolves(presets, name)

\* validatePresets()
Valid(p, u) ==
  /\ Collects(p, u)
  /\ \A k \in Kinds : AllResolve(Raw(p, u, k))
  /\ LET builds == Raw(p, u, "build")
     IN \A name \in DOMAIN builds :
          ConfigureOf(builds, name) \in DOMAIN Raw(p, u, "configure") \cup {NoPreset}

Visible(presets) == {name \in DOMAIN presets : ~presets[name].hidden}

-----------------------------------------------------------------------------
\* What the IDE does with CMakeUserPresets.json: the file it would write, or
\* Broken when it refuses.

SaveUserPreset(k, original, name, preset) ==
  LET all == Raw(project, user, k)
      entries == PresetsOf(user)[k]
      kept == Restrict(entries, DOMAIN entries \ {original})
      value == [preset EXCEPT !.hidden = original # NoPreset /\ entries[original].hidden]
  IN IF ~Collects(project, user) \/ (name \in DOMAIN all /\ name # original)
        \/ original \notin DOMAIN entries \cup {NoPreset}
     THEN Broken ELSE [PresetsOf(user) EXCEPT ![k] = (name :> value) @@ kept]

ClonePreset(k, source, name) ==
  LET all == Raw(project, user, k)
  IN IF ~Collects(project, user) \/ source \notin DOMAIN all \/ name \in DOMAIN all
     THEN Broken ELSE [PresetsOf(user) EXCEPT ![k] = (name :> all[source]) @@ @]

DeleteUserPreset(k, name) ==
  IF ~Collects(project, user) \/ name \notin DOMAIN PresetsOf(user)[k] THEN Broken
  ELSE [PresetsOf(user) EXCEPT ![k] = Restrict(@, DOMAIN @ \ {name})]

\* writeUserPresets(): written as a whole.
WriteUserPresets(file, ok) == ok /\ file # Broken /\ Valid(project, file) /\ user' = file

-----------------------------------------------------------------------------
\* CMakeSession.

\* refreshPresets(): are the presets chosen last still good?
RefreshPresets ==
  LET configures == Raw(project, user, "configure")
      builds == Raw(project, user, "build")
  IN IF ~Collects(project, user) \/ ~AllResolve(configures) THEN configure = NoPreset
     ELSE IF ~AllResolve(builds) /\ build # NoPreset THEN FALSE
     ELSE IF configure = NoPreset THEN build = NoPreset
     ELSE /\ configure \in Visible(configures)
          /\ build = NoPreset \/
             (build \in Visible(builds) /\ ConfigureOf(builds, build) = configure)

\* The lists it keeps: empty when they cannot be read.
ConfigurePresets ==
  LET configures == Raw(project, user, "configure")
  IN IF Collects(project, user) /\ AllResolve(configures) THEN Visible(configures) ELSE {}
BuildPresets ==
  LET builds == Raw(project, user, "build")
  IN IF /\ Collects(project, user) /\ AllResolve(Raw(project, user, "configure"))
        /\ AllResolve(builds)
     THEN Visible(builds) ELSE {}
Requires(name) == ConfigureOf(Raw(project, user, "build"), name)

SelectConfigurePreset(name) ==
  /\ configure' = name
  /\ build' = IF name # NoPreset /\ build \in BuildPresets /\ Requires(build) = name
              THEN build ELSE NoPreset

SelectBuildPreset(name) ==
  /\ build' = name
  /\ configure' = IF name = NoPreset THEN configure ELSE Requires(name)

-----------------------------------------------------------------------------
NoDialog == [kind |-> "none"]
Idle == dialog.kind = "none"
Step == left > 0 /\ left' = left - 1
Chosen(k) == IF k = "configure" THEN configure ELSE build

Init ==
  /\ \E files \in FirstFiles : project = files[1] /\ user = files[2]
  /\ configure = NoPreset /\ build = NoPreset /\ dialog = NoDialog
  /\ writer = "other" /\ fresh = TRUE /\ left = Most

\* Another program changes a file.
External ==
  /\ Step /\ writer' = "other" /\ fresh' = FALSE
  /\ \/ project' \in Others /\ UNCHANGED user
     \/ user' \in Others /\ UNCHANGED project
  /\ UNCHANGED <<configure, build, dialog>>

\* reload(): the list of the files as they are now, or the last one that could
\* be read.
Reloaded(d, p, u, preferred) ==
  IF ~Collects(p, u) THEN d
  ELSE LET all == Raw(p, u, d.kind)
       IN [d EXCEPT !.list = all, !.entries = DOMAIN PresetsOf(u)[d.kind],
                    !.row = IF preferred \in DOMAIN all THEN preferred ELSE NoPreset]

Open(k) ==
  /\ Idle
  /\ dialog' = Reloaded([kind |-> k, initial |-> Chosen(k), list |-> Nothing, entries |-> {},
                         row |-> NoPreset, changed |-> FALSE], project, user, Chosen(k))
  /\ UNCHANGED <<project, user, configure, build, writer, fresh, left>>

Managing == ~Idle /\ UNCHANGED <<project, configure, build>>
Still == UNCHANGED <<user, writer, fresh, left>>

MoveTo(name) ==
  /\ Managing /\ Still
  /\ name \in DOMAIN dialog.list \cup {NoPreset} /\ dialog' = [dialog EXCEPT !.row = name]

Reload == Managing /\ Still /\ dialog' = Reloaded(dialog, project, user, dialog.initial)

\* What the dialog shows after it has written the file.
Changed(preferred) ==
  /\ Step /\ writer' = "ide" /\ fresh' = FALSE
  /\ dialog' = Reloaded([dialog EXCEPT !.changed = TRUE], project, user', preferred)

AddPreset(name, preset, ok) ==
  /\ Managing /\ WriteUserPresets(SaveUserPreset(dialog.kind, NoPreset, name, preset), ok)
  /\ Changed(name)

CloneRow(name, ok) ==
  /\ Managing /\ dialog.row # NoPreset
  /\ WriteUserPresets(ClonePreset(dialog.kind, dialog.row, name), ok) /\ Changed(name)

EditPreset(name, preset, ok) ==
  /\ Managing /\ dialog.row \in dialog.entries
  /\ WriteUserPresets(SaveUserPreset(dialog.kind, dialog.row, name, preset), ok)
  /\ Changed(name)

DeletePreset(ok) ==
  /\ Managing /\ dialog.row \in dialog.entries
  /\ WriteUserPresets(DeleteUserPreset(dialog.kind, dialog.row), ok)
  /\ Changed(dialog.initial)

\* A choice that is refused leaves what was chosen before, and is reported.
Accepted(k, name) ==
  /\ RefreshPresets
  /\ \/ name = NoPreset
     \/ k = "configure" /\ name \in ConfigurePresets
     \/ k = "build" /\ name \in BuildPresets /\ Requires(name) \in ConfigurePresets

Select ==
  /\ ~Idle /\ (dialog.row # NoPreset => ~dialog.list[dialog.row].hidden)
  /\ dialog' = NoDialog /\ UNCHANGED <<project, user, writer, left>>
  /\ IF ~Accepted(dialog.kind, dialog.row) THEN UNCHANGED <<configure, build, fresh>>
     ELSE /\ fresh' = TRUE
          /\ IF dialog.kind = "configure" THEN SelectConfigurePreset(dialog.row)
             ELSE SelectBuildPreset(dialog.row)

Cancel == Managing /\ Still /\ dialog' = NoDialog

Next ==
  \/ External \/ Reload \/ Select \/ Cancel
  \/ \E k \in Kinds : Open(k)
  \/ \E name \in Names \cup {NoPreset} : MoveTo(name)
  \/ \E name \in Names, ok \in BOOLEAN :
       \/ CloneRow(name, ok) \/ DeletePreset(ok)
       \/ ~Idle /\ \E preset \in Typed[dialog.kind] :
            AddPreset(name, preset, ok) \/ EditPreset(name, preset, ok)

-----------------------------------------------------------------------------
\* Presets the IDE has written can be read and resolved, whatever was added,
\* cloned, renamed or deleted, and whatever other presets refer to what was
\* changed; and until a file changes again a build uses presets that exist, may
\* be selected, and fit each other.
PresetsKept ==
  /\ writer = "ide" => Valid(project, user)
  /\ fresh =>
       /\ configure \in ConfigurePresets \cup {NoPreset}
       /\ build # NoPreset => build \in BuildPresets /\ Requires(build) = configure
=============================================================================
