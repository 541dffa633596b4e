---------------------------- MODULE Preferences ----------------------------
(***************************************************************************)
(* The user settings (src/src/user_settings.cpp), the dialogs that edit    *)
(* them (src/src/ui_dialogs.cpp) and the commands of IdeWindow that put    *)
(* them into effect: the keys of the commands, the theme and colours of    *)
(* the editor, the language of the menus and the Recent Files menu.        *)
(*                                                                         *)
(* A command of ideCommands() is a name in Order. A shortcut is a key, or  *)
(* one of the texts the two parsers of shortcuts treat differently.        *)
(* "missed" and "used" are history: the files that were once missing, and  *)
(* the files of the history, last used first.                              *)
(***************************************************************************)
EXTENDS Integers, Sequences, SequencesExt, Functions, TLC

CONSTANTS Order,       \* ideCommands(), in order
          WithItem,    \* the commands that have a menu item
          Keys,        \* keys that may be assigned
          Default,     \* the default key of each command
          Half,        \* a shortcut only the dialog knows (Ctrl+Shift+B)
          Reserved,    \* a shortcut reservedShortcutReason() refuses
          Nonsense,    \* a text that names no key
          Cleared,     \* the empty text
          NoKey, NoCommand,
          Builtins, Names, Dark,  \* the themes, names for copies, the default
          Roles, Colors,
          Files, Limit,
          Written,     \* what settings.json may hold at first
          Absent, Corrupt, \* no file; one that loadUserSettings() refuses
          FirstFiles,  \* the files that may exist at first
          Uses         \* bound: what the user does, [gives, most], and how many
                       \* writes fail or files come and go, [troubles]

Commands == ToSet(Order)
Languages == {"en", "ru"}
Shortcuts == Keys \cup {Half, Reserved, Nonsense, Cleared}
Nothing == <<>>

ASSUME PreferencesAssumption ==
  /\ WithItem \subseteq Commands /\ Default \in [Commands -> Keys]
  /\ Dark \in Builtins /\ Builtins \cap Names = {} /\ Limit \in Nat

VARIABLES
  settings,     \* user_settings_
  disk,         \* settings.json
  unsaved,      \* the last persistUserSettings() failed
  shown,        \* the theme and colours of the editor
  accelerators, \* the key of each menu item
  menu,         \* the language of the menus and the files in Recent Files
  dialog,       \* the modal dialog
  deferred,     \* deferred_command_, as far as Recent Files sets it
  files,        \* the regular files on disk
  missed, used,
  doing, troubles

vars == <<settings, disk, unsaved, shown, accelerators, menu, dialog, deferred, files,
          missed, used, doing, troubles>>

-----------------------------------------------------------------------------
\* The settings and their file.

Without(f, x) == Restrict(f, DOMAIN f \ {x})
With(f, x, v) == (x :> v) @@ f
Filtered(s, S) == SelectSeq(s, LAMBDA x : x \in S)

Defaults == [language |-> "en", shortcuts |-> Nothing, theme |-> Dark,
             customs |-> Nothing, colors |-> Nothing, recents |-> Nothing]

NormalizeRecentFiles(s) ==
  FoldLeft(LAMBDA kept, f : IF f \in files /\ ~Contains(kept, f) /\ Len(kept) < Limit
                            THEN Append(kept, f) ELSE kept, <<>>, s)

RememberRecentFile(s, f) ==
  IF f \in files THEN NormalizeRecentFiles(<<f>> \o SelectSeq(s, LAMBDA x : x # f)) ELSE s

Valid(s) ==
  /\ Reserved \notin Range(s.shortcuts)
  /\ DOMAIN s.customs \cap Builtins = {} /\ Range(s.customs) \subseteq Builtins
  /\ s.theme \in Builtins \cup DOMAIN s.customs
  /\ DOMAIN s.colors \subseteq Roles /\ Range(s.colors) \subseteq Colors

\* What loadUserSettings() makes of the file; the window takes the defaults
\* when it refuses.
Loaded(d) ==
  IF d \in {Absent, Corrupt} THEN Defaults
  ELSE LET kept == {c \in DOMAIN d.shortcuts : d.shortcuts[c] # Reserved}
           s == [d EXCEPT !.shortcuts = Restrict(@, kept), !.recents = NormalizeRecentFiles(@)]
       IN IF Valid(s) THEN s ELSE Defaults

Outcomes == IF troubles < doing.troubles THEN BOOLEAN ELSE {TRUE}
Counted(ok) == troubles' = IF ok THEN troubles ELSE troubles + 1

\* saveUserSettings(): the file is replaced as a whole or not at all.
Save(s, ok) ==
  /\ Counted(ok)
  /\ disk' = IF ok /\ Valid(s) THEN [s EXCEPT !.recents = NormalizeRecentFiles(@)] ELSE disk

\* persistUserSettings(): a failure is only reported.
Persist(ok) == Save(settings', ok) /\ unsaved' = ~(ok /\ Valid(settings'))

EffectiveEditorTheme(s) ==
  IF s.theme \in DOMAIN s.customs THEN s.customs[s.theme] ELSE s.theme

-----------------------------------------------------------------------------
\* Keys.

ShortcutKey(v) == IF v \in Keys THEN v ELSE NoKey

\* The key of a command under these overrides.
KeyOf(shortcuts, c) ==
  IF c \in DOMAIN shortcuts THEN ShortcutKey(shortcuts[c]) ELSE Default[c]

ApplyShortcutAccelerators(shortcuts) == [c \in WithItem |-> KeyOf(shortcuts, c)]
NoAccelerators == [c \in WithItem |-> NoKey]

\* The command handleCommand() runs for a key: the first that was given it,
\* else the one whose default it is, unless that one was given another.
HandleCommand(shortcuts, key) ==
  LET given == SelectSeq(Order, LAMBDA c :
                 c \in DOMAIN shortcuts /\ ShortcutKey(shortcuts[c]) = key)
      own == SelectSeq(Order, LAMBDA c : Default[c] = key)
  IN IF given # <<>> THEN Head(given)
     ELSE IF own = <<>> \/ \E c \in ToSet(own) : c \in DOMAIN shortcuts THEN NoCommand
     ELSE Head(own)

\* What a click on the menu item of c, and on its line of the palette, runs.
QueueMenuCommand(shortcuts, c) ==
  HandleCommand(shortcuts, IF KeyOf(shortcuts, c) = NoKey THEN Default[c] ELSE KeyOf(shortcuts, c))
ShowCommandPalette(shortcuts, c) ==
  IF KeyOf(shortcuts, c) = NoKey THEN NoCommand ELSE HandleCommand(shortcuts, KeyOf(shortcuts, c))

-----------------------------------------------------------------------------
NoDialog == [kind |-> "none"]
Idle == dialog.kind = "none"

\* The user begins something.
Does(what) ==
  /\ Idle /\ what \in doing.gives /\ doing.most > 0
  /\ doing' = [doing EXCEPT !.most = @ - 1]

RefreshRecentFilesMenu(s) == [s EXCEPT !.recents = NormalizeRecentFiles(@)]
\* The menus after applyUiLanguage() or refreshRecentFilesMenu().
MenuOf(s) == [language |-> s.language, recents |-> s.recents]
ShownOf(s) == [theme |-> EffectiveEditorTheme(s), colors |-> s.colors]

\* The constructor.
StartWith(s) ==
  /\ settings = s /\ unsaved = FALSE /\ shown = ShownOf(s)
  /\ accelerators = ApplyShortcutAccelerators(s.shortcuts) /\ menu = MenuOf(s)
  /\ dialog = NoDialog /\ deferred = NoCommand /\ used = s.recents

Init ==
  /\ disk \in Written /\ files \in FirstFiles /\ missed = Files \ files
  /\ StartWith(Loaded(disk)) /\ doing \in Uses /\ troubles = 0

\* The IDE ends, in a dialog or not, and is started again.
Restart ==
  /\ doing.most > 0 /\ doing' = [doing EXCEPT !.most = @ - 1]
  /\ LET s == Loaded(disk)
     IN /\ settings' = s /\ unsaved' = FALSE /\ shown' = ShownOf(s)
        /\ accelerators' = ApplyShortcutAccelerators(s.shortcuts) /\ menu' = MenuOf(s)
        /\ dialog' = NoDialog /\ deferred' = NoCommand /\ used' = s.recents
  /\ UNCHANGED <<disk, files, missed, troubles>>

\* A dialog ends with settings s to keep: they take effect when they are saved.
Accept(s, ok) ==
  /\ dialog' = NoDialog /\ Save(s, ok)
  /\ LET kept == IF ok /\ Valid(s) THEN s ELSE settings
     IN /\ settings' = kept /\ unsaved' = (unsaved /\ ~(ok /\ Valid(s)))
        /\ shown' = ShownOf(kept)
        /\ accelerators' = ApplyShortcutAccelerators(kept.shortcuts)
  /\ UNCHANGED <<menu, deferred, files, missed, used, doing>>

\* A dialog is left without applying it.
Cancel ==
  /\ ~Idle /\ dialog' = NoDialog /\ shown' = ShownOf(settings)
  /\ accelerators' = ApplyShortcutAccelerators(settings.shortcuts)
  /\ UNCHANGED <<settings, disk, unsaved, menu, deferred, files, missed, used, doing, troubles>>

Untouched == <<settings, disk, unsaved, menu, deferred, files, missed, used, troubles>>

-----------------------------------------------------------------------------
\* ShortcutEditorDialog.

ConfigureShortcut ==
  /\ Does("shortcuts") /\ accelerators' = NoAccelerators
  /\ dialog' = [kind |-> "shortcuts", overrides |-> settings.shortcuts,
                selected |-> Head(Order), visible |-> Commands, capturing |-> FALSE]
  /\ UNCHANGED <<shown, Untouched>>

Editing(kind) == dialog.kind = kind /\ UNCHANGED <<accelerators, doing, Untouched>>

\* The list is narrowed: the selection stays on its command while it is listed.
RefreshList(visible) ==
  /\ Editing("shortcuts") /\ UNCHANGED shown
  /\ dialog' = [dialog EXCEPT !.visible = visible,
       !.selected = IF @ \in visible THEN @ ELSE Head(Filtered(Order, visible) \o Order)]

SelectCurrent(c) ==
  /\ Editing("shortcuts") /\ UNCHANGED shown
  /\ c \in dialog.visible /\ dialog' = [dialog EXCEPT !.selected = c]

\* Typed, captured or cleared: the shortcut of the selected command.
UpdateCurrentValue(v) ==
  /\ Editing("shortcuts") /\ UNCHANGED shown /\ dialog.visible # {}
  /\ dialog' = [dialog EXCEPT !.overrides = With(@, dialog.selected, v)]

Capture ==
  /\ Editing("shortcuts") /\ UNCHANGED shown /\ dialog' = [dialog EXCEPT !.capturing = TRUE]

\* The key is taken by the dialog instead of doing what it does.
CaptureKey(v) ==
  /\ Editing("shortcuts") /\ UNCHANGED shown /\ dialog.capturing
  /\ dialog' = [dialog EXCEPT !.capturing = FALSE,
       !.overrides = IF dialog.visible = {} \/ v = NoKey THEN @ ELSE With(@, dialog.selected, v)]

ResetSelected ==
  /\ Editing("shortcuts") /\ UNCHANGED shown /\ dialog.visible # {}
  /\ dialog' = [dialog EXCEPT !.overrides = Without(@, dialog.selected)]

ResetAllShortcuts ==
  /\ Editing("shortcuts") /\ UNCHANGED shown
  /\ dialog' = [dialog EXCEPT !.overrides = Nothing]

\* Mutant: only the shortcuts that were changed are compared.
ApplicableAmongChanged(shortcuts) ==
  /\ \A c \in DOMAIN shortcuts : shortcuts[c] \notin {Reserved, Nonsense}
  /\ \A c, d \in DOMAIN shortcuts : c # d /\ shortcuts[c] = shortcuts[d] => shortcuts[c] = Cleared

\* validate(): each command has a shortcut of its own, or none.
Applicable(shortcuts) ==
  LET value(c) == IF c \in DOMAIN shortcuts THEN shortcuts[c] ELSE Default[c]
  IN /\ \A c \in Commands : value(c) \notin {Reserved, Nonsense}
     /\ \A c, d \in Commands : c # d /\ value(c) = value(d) => value(c) = Cleared

ApplyShortcuts(ok) ==
  /\ dialog.kind = "shortcuts" /\ Applicable(dialog.overrides)
  /\ Accept([settings EXCEPT !.shortcuts = dialog.overrides], ok)

-----------------------------------------------------------------------------
\* ThemeEditorDialog: the editor shows the theme of the row.

BaseOf(customs, name) == IF name \in DOMAIN customs THEN customs[name] ELSE name

SelectTheme ==
  /\ Does("theme")
  /\ dialog' = [kind |-> "theme", customs |-> settings.customs, row |-> settings.theme]
  /\ shown' = [shown EXCEPT !.theme = EffectiveEditorTheme(settings)]
  /\ UNCHANGED <<accelerators, Untouched>>

Preview(name) ==
  /\ Editing("theme") /\ name \in Builtins \cup DOMAIN dialog.customs
  /\ dialog' = [dialog EXCEPT !.row = name]
  /\ shown' = [theme |-> BaseOf(dialog.customs, name), colors |-> settings.colors]

\* A name that is reserved or taken is refused.
CreateCopy(name) ==
  /\ Editing("theme") /\ name \notin Builtins \cup DOMAIN dialog.customs
  /\ dialog' = [dialog EXCEPT !.row = name,
       !.customs = With(@, name, BaseOf(dialog.customs, dialog.row))]
  /\ shown' = [theme |-> BaseOf(dialog.customs, dialog.row), colors |-> settings.colors]

ResetTheme == Preview(Dark)

ApplyTheme(ok) ==
  /\ dialog.kind = "theme"
  /\ Accept([settings EXCEPT !.theme = dialog.row, !.customs = dialog.customs], ok)

-----------------------------------------------------------------------------
\* ColorEditorDialog: the editor shows the overrides.

ConfigureEditorColor ==
  /\ Does("colors") /\ accelerators' = NoAccelerators
  /\ dialog' = [kind |-> "colors", theme |-> EffectiveEditorTheme(settings), overrides |-> settings.colors]
  /\ shown' = ShownOf(settings)
  /\ UNCHANGED Untouched

RefreshRoles(overrides) ==
  /\ Editing("colors") /\ dialog' = [dialog EXCEPT !.overrides = overrides]
  /\ shown' = [theme |-> dialog.theme, colors |-> overrides]

SelectColor(role, color) == Editing("colors") /\ RefreshRoles(With(dialog.overrides, role, color))
ResetRole(role) == Editing("colors") /\ RefreshRoles(Without(dialog.overrides, role))
ResetAllColors == RefreshRoles(Nothing)

ApplyColors(ok) ==
  /\ dialog.kind = "colors"
  /\ Accept([settings EXCEPT !.colors = dialog.overrides], ok)

-----------------------------------------------------------------------------
\* The language of the menus; applyUiLanguage() refreshes Recent Files too.

SetUiLanguage(language, ok) ==
  /\ Does("language") /\ (language = settings.language => ok)
  /\ LET s == [settings EXCEPT !.language = language]
         saved == language # settings.language /\ ok /\ Valid(s)
         kept == RefreshRecentFilesMenu(IF saved THEN s ELSE settings)
     IN /\ Counted(ok)
        /\ disk' = IF saved THEN RefreshRecentFilesMenu(s) ELSE disk
        /\ settings' = kept /\ unsaved' = (unsaved /\ ~saved) /\ menu' = MenuOf(kept)
  /\ UNCHANGED <<shown, accelerators, dialog, deferred, files, missed, used>>

-----------------------------------------------------------------------------
\* Recent Files.

\* A change of the history is persisted and shown.
KeepRecents(recents, ok) ==
  /\ settings' = [settings EXCEPT !.recents = recents]
  /\ Persist(ok) /\ menu' = MenuOf(settings')
  /\ UNCHANGED <<shown, accelerators, dialog, files, missed>>

Opened(f, ok) ==
  /\ used' = <<f>> \o SelectSeq(used, LAMBDA x : x # f)
  /\ KeepRecents(NormalizeRecentFiles(RememberRecentFile(settings.recents, f)), ok)

\* openFile(), save() and saveAs(), as far as the history goes.
UseFile(f, ok) ==
  /\ Does("files") /\ f \in files /\ Opened(f, ok) /\ UNCHANGED deferred

\* A click takes the path that is in the settings now.
ClickRecent(i) ==
  /\ Does("recent") /\ i <= Len(menu.recents)
  /\ deferred' = IF i <= Len(settings.recents) THEN settings.recents[i] ELSE deferred
  /\ UNCHANGED <<settings, disk, unsaved, shown, accelerators, menu, dialog, files,
                 missed, used, troubles>>

ClickClear ==
  /\ Does("recent") /\ menu.recents # <<>> /\ deferred' = Cleared
  /\ UNCHANGED <<settings, disk, unsaved, shown, accelerators, menu, dialog, files,
                 missed, used, troubles>>

OpenRecentFile(f, ok) ==
  IF f \in files THEN Opened(f, ok)
  ELSE /\ KeepRecents(NormalizeRecentFiles(SelectSeq(settings.recents, LAMBDA x : x # f)), ok)
       /\ UNCHANGED used

ClearRecentFiles(ok) == KeepRecents(<<>>, ok) /\ used' = <<>>

\* The timer runs what the menu has left; a modal dialog has no timer.
RunDeferred(ok) ==
  /\ Idle /\ deferred # NoCommand /\ deferred' = NoCommand
  /\ IF deferred = Cleared THEN ClearRecentFiles(ok) ELSE OpenRecentFile(deferred, ok)
  /\ UNCHANGED doing

\* Another program removes a file, or puts it back.
Replace(f) ==
  /\ troubles < doing.troubles /\ troubles' = troubles + 1
  /\ files' = IF f \in files THEN files \ {f} ELSE files \cup {f}
  /\ missed' = missed \cup {f}
  /\ UNCHANGED <<settings, disk, unsaved, shown, accelerators, menu, dialog, deferred,
                 used, doing>>

Next ==
  \/ Restart \/ Cancel
  \/ ConfigureShortcut \/ Capture \/ ResetSelected \/ ResetAllShortcuts
  \/ \E visible \in SUBSET Commands : RefreshList(visible)
  \/ \E c \in Commands : SelectCurrent(c)
  \/ \E v \in Shortcuts : UpdateCurrentValue(v)
  \/ \E v \in Keys \cup {Reserved, NoKey} : CaptureKey(v)
  \/ SelectTheme \/ ResetTheme \/ ConfigureEditorColor \/ ResetAllColors
  \/ \E name \in Builtins \cup Names : Preview(name) \/ CreateCopy(name)
  \/ \E role \in Roles : ResetRole(role) \/ \E color \in Colors : SelectColor(role, color)
  \/ ClickClear \/ \E i \in 1 .. Limit : ClickRecent(i)
  \/ \E f \in Files : Replace(f)
  \/ \E ok \in Outcomes :
       \/ ApplyShortcuts(ok) \/ ApplyTheme(ok) \/ ApplyColors(ok) \/ RunDeferred(ok)
       \/ \E language \in Languages : SetUiLanguage(language, ok)
       \/ \E f \in Files : UseFile(f, ok)

Spec == Init /\ [][Next]_vars

-----------------------------------------------------------------------------
Chosen(s) == [s EXCEPT !.recents = <<>>]

\* Every way to a command agrees: a command that has a key is run by that key
\* alone, by its accelerator, its menu item and its line of the palette, and one
\* that was cleared by no key and not from the palette; unless settings.json was
\* written by hand, no two commands share a key. The menu keeps its keys to
\* itself while a dialog uses them.
KeysAgree ==
  LET s == settings.shortcuts
      key(c) == KeyOf(s, c)
      shared == \E c, d \in Commands : c # d /\ key(c) = key(d) /\ key(c) # NoKey
  IN /\ \A k \in Keys : HandleCommand(s, k) = NoCommand \/ key(HandleCommand(s, k)) = k
     /\ shared => \E w \in Written : s = Loaded(w).shortcuts
     /\ ~shared => \A c \in Commands :
          /\ ShowCommandPalette(s, c) = IF key(c) = NoKey THEN NoCommand ELSE c
          /\ key(c) # NoKey => HandleCommand(s, key(c)) = c /\ QueueMenuCommand(s, c) = c
     /\ accelerators = IF dialog.kind \in {"shortcuts", "colors"} THEN NoAccelerators
                       ELSE ApplyShortcutAccelerators(s)

\* What is in force is what the next start will find, unless a write was
\* reported to have failed; of the history only files that were missing meanwhile
\* may differ.
SettingsDurable ==
  LET next == Loaded(disk)
  IN ~unsaved =>
       /\ Chosen(settings) = Chosen(next)
       /\ Filtered(settings.recents, Files \ missed) = Filtered(next.recents, Files \ missed)

\* The editor shows the theme and the colours that were chosen, or that an open
\* dialog is previewing, whatever was previewed and given up before.
ShownAsChosen ==
  shown = CASE dialog.kind = "theme" -> [theme |-> BaseOf(dialog.customs, dialog.row),
                                         colors |-> settings.colors]
            [] dialog.kind = "colors" -> [theme |-> EffectiveEditorTheme(settings),
                                          colors |-> dialog.overrides]
            [] OTHER -> ShownOf(settings)

\* Recent Files lists each file once, last used first; a used file is missing
\* from the first Limit only if it was missing on disk, and a click opens the
\* file the line names.
RecentsServed ==
  /\ menu = MenuOf(settings)
  /\ settings.recents = Filtered(used, ToSet(settings.recents))
  /\ \A i \in 1 .. Len(used) : i <= Limit => used[i] \in ToSet(settings.recents) \cup missed

\* The four together.
PreferencesKept == KeysAgree /\ SettingsDurable /\ ShownAsChosen /\ RecentsServed
=============================================================================
