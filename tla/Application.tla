---------------------------- MODULE Application ----------------------------
(* The program from start to exit and over restarts: main.cpp, the main loop  *)
(* of Core::Application with its layers (UILayer, ShellLayer, SettingsLayer;  *)
(* AboutLayer keeps no state but its request to open), the window, the column *)
(* settings of ProcessesPanel, and what is kept in the config file. All of it *)
(* runs on one thread: a frame polls the window's events, updates the layers, *)
(* then renders UILayer, ShellLayer and SettingsLayer in turn, and the user   *)
(* does one thing at a time. While the program is down, the user may edit the *)
(* config file and put files in the themes directory.                         *)
EXTENDS UserConfig

CONSTANTS
    BuiltInThemes,      \* assets/themes beside the executable
    UserThemeDirs,      \* what the user's own themes directory may hold
    HandWritten,        \* config files a user may write
    RefreshRates,       \* REFRESH_RATE_OPTIONS
    Histories,          \* HISTORY_OPTIONS
    Places,             \* where the user may move the window
    WindowSizes,        \* what the user, or maximizing, may size it to
    NoPrefs             \* value of a history variable without one

ASSUME AppAssumption ==
    /\ DefaultInterval \in RefreshRates /\ RefreshRates \subseteq MinInterval..MaxInterval
    /\ DefaultHistory \in Histories /\ Histories \subseteq MinHistory..MaxHistory
    (* load() takes these keys from a file only where they are integers. *)
    /\ \A f \in HandWritten : \A k \in {"interval", "history", "size", "pos"} \cap DOMAIN f : f[k] \in Int
    (* Directories are finite, and no desktop is larger than what passes for sane. *)
    /\ IsFiniteSet(BuiltInThemes) /\ \A dir \in UserThemeDirs : IsFiniteSet(dir)
    /\ Places \subseteq -FarthestPos..FarthestPos /\ WindowSizes \subseteq 0..IntMax

VARIABLES
    pc,                 \* what comes next: "down", "poll", "update", "begin", "shell", "dialog"
    file,               \* config.toml
    userThemes,         \* files in the user's themes directory
    theme,              \* Theme::get()
    settings,           \* UserConfig::get().settings()
    panel,              \* of the panels: m_RefreshInterval, m_MaxHistorySeconds, m_ColumnSettings
    table,              \* ImGui's columns of the process table: those enabled, and from the next drawing on
    activeTab,          \* m_ActiveTab: "processes" or another
    settingsDialog,     \* of SettingsLayer: requested, open, and the options selected
    window,             \* the window's size and place, and whether it is maximized
    atClose,            \* history variable, see RestartKeeps; NoPrefs while it has nothing to say
    edited              \* history variable: the file was edited since the program started and not written since

appVars == <<pc, file, userThemes, theme, settings, panel, table, activeTab, settingsDialog, window, atClose, edited>>
appHistory == <<atClose, edited>>

ClosedSettings == [requested |-> FALSE, open |-> FALSE, themes |-> <<>>, theme |-> 1, font |-> Medium,
                   interval |-> DefaultInterval, history |-> DefaultHistory]

NoPanel == [interval |-> DefaultInterval, history |-> DefaultHistory, columns |-> DefaultColumns]
NoTable == [drawn |-> FALSE, enabled |-> {}, next |-> {}]

AppInit ==
    /\ pc = "down"
    /\ file = <<>>
    /\ userThemes \in UserThemeDirs
    /\ theme = NewTheme
    /\ settings = DefaultSettings
    /\ panel = NoPanel
    /\ table = NoTable
    /\ activeTab = "other"
    /\ settingsDialog = ClosedSettings
    /\ window = [size |-> DefaultSize, pos |-> 0, maximized |-> FALSE]
    /\ atClose = NoPrefs
    /\ edited = FALSE

(* What the user has set and sees: the theme in force, or about to be. *)
InForce(t, p, w) ==
    [theme |-> IF t.pending = NoTheme THEN CurrentThemeId(t) ELSE t.ids[t.pending],
     font |-> t.font, interval |-> p.interval, history |-> p.history, columns |-> p.columns,
     size |-> w.size, pos |-> w.pos, maximized |-> w.maximized]
-----------------------------------------------------------------------------
(* UILayer::onAttach: the built-in themes, then the user's in their place. *)
AttachThemes(t) == LoadThemes(userThemes, LoadThemes(BuiltInThemes, t))

(* Configuring the theme before its files are loaded, a wrong order. *)
ConfigureFirst(loaded) == AttachThemes(ApplyToApplication(loaded, NewTheme))

(* UILayer and then ShellLayer are attached. *)
AttachedTheme(loaded) == ApplyToApplication(loaded, AttachThemes(NewTheme))

(* The window is made no smaller or larger than it can be, then placed. *)
NewWindow(loaded) ==
    [size |-> ClampTo(MinSize, MaxSize, loaded.size),
     pos |-> IF loaded.pos = NoPos THEN 0 ELSE loaded.pos,
     maximized |-> loaded.maximized]

(* runApp() up to the main loop: settings are loaded, the window made from    *)
(* them, placed and maximized, and the layers attached in their order.        *)
Start ==
    /\ pc = "down"
    /\ LET loaded == Load(DefaultSettings, file)
       IN  /\ settings' = loaded
           /\ theme' = AttachedTheme(loaded)
           /\ panel' = [interval |-> loaded.interval, history |-> loaded.history, columns |-> loaded.columns]
           /\ window' = NewWindow(loaded)
    /\ pc' = "poll"
    /\ UNCHANGED <<file, userThemes, table, activeTab, settingsDialog, appHistory>>

(* glfwPollEvents without a request to close; the user may move, resize or *)
(* maximize the window.                                                     *)
Poll ==
    /\ pc = "poll"
    /\ \/ window' = window
       \/ \E size \in WindowSizes, pos \in Places, maximized \in BOOLEAN :
             window' = [size |-> size, pos |-> pos, maximized |-> maximized]
    /\ atClose' = NoPrefs
    /\ pc' = "update"
    /\ UNCHANGED <<file, userThemes, theme, settings, panel, table, activeTab, settingsDialog, edited>>

(* ShellLayer::onDetach with the theme and font left as they were last applied. *)
CapturedWindow == [settings EXCEPT !.size = window.size, !.pos = window.pos, !.maximized = window.maximized]

(* ShellLayer::onDetach up to save(): theme, font and window are captured. *)
Captured == [CaptureFromApplication(settings, theme) EXCEPT
                !.size = window.size, !.pos = window.pos, !.maximized = window.maximized]

(* The process has ended, with all it had in memory. *)
Ended ==
    /\ pc' = "down"
    /\ theme' = NewTheme
    /\ settings' = DefaultSettings
    /\ panel' = NoPanel
    /\ table' = NoTable
    /\ activeTab' = "other"
    /\ settingsDialog' = ClosedSettings
    /\ window' = [size |-> DefaultSize, pos |-> 0, maximized |-> FALSE]
    /\ edited' = FALSE

(* What the user would expect to find again: the theme on the screen, the     *)
(* interval and history chosen, the columns of the table as last drawn.       *)
LastSeen ==
    InForce(theme,
            [interval |-> settings.interval, history |-> settings.history,
             columns |-> IF table.drawn THEN table.enabled ELSE panel.columns],
            [window EXCEPT !.size = ClampTo(MinSize, MaxSize, @)])

(* The window is closed: run() ends and ~Application detaches the layers in   *)
(* reverse; ShellLayer captures and saves the settings before its panels are  *)
(* detached, so that what ProcessesPanel then puts into them is not written.  *)
Close ==
    /\ pc = "poll"
    /\ file' \in AfterSave(Captured, file)
    /\ atClose' = IF file' = Saved(Captured) /\ theme.pending = NoTheme /\ ~edited THEN LastSeen ELSE NoPrefs
    /\ Ended
    /\ UNCHANGED userThemes

(* The process is killed: nothing is saved. *)
Crash ==
    /\ pc # "down"
    /\ atClose' = NoPrefs
    /\ Ended
    /\ UNCHANGED <<file, userThemes>>

(* ShellLayer::onUpdate: the shortcuts of the font size, whatever is open. *)
Update ==
    /\ pc = "update"
    /\ theme' \in {theme, IncreaseFontSize(theme), DecreaseFontSize(theme)}
    /\ pc' = "begin"
    /\ UNCHANGED <<file, userThemes, settings, panel, table, activeTab, settingsDialog, window, appHistory>>

(* UILayer::onRender, beginFrame. *)
BeginFrame ==
    /\ pc = "begin"
    /\ theme' = ApplyPendingTheme(theme)
    /\ pc' = "shell"
    /\ UNCHANGED <<file, userThemes, settings, panel, table, activeTab, settingsDialog, window, appHistory>>

(* ProcessesPanel::renderContent, its table: the columns enabled when it is   *)
(* first drawn are those of the settings, later those ImGui keeps; what is    *)
(* enabled is copied back, and into the settings if it differs.               *)
DrawTable(toggled) ==
    LET enabled == IF table.drawn THEN table.next ELSE panel.columns
    IN  /\ table' = [drawn |-> TRUE, enabled |-> enabled,
                     next |-> (enabled \ toggled) \cup (toggled \ enabled)]
        /\ panel' = [panel EXCEPT !.columns = enabled]
        /\ settings' = IF enabled = panel.columns THEN settings ELSE [settings EXCEPT !.columns = enabled]

(* SettingsLayer::loadCurrentSettings: an option for each setting, a default  *)
(* one where the setting is no option, the first theme where it is unknown.   *)
CurrentSettings ==
    [requested |-> settingsDialog.requested, open |-> settingsDialog.open, themes |-> theme.ids,
     theme |-> IF Listed(theme.ids, settings.themeId) THEN IndexOf(theme.ids, settings.themeId) ELSE 1,
     font |-> settings.fontSize,
     interval |-> IF settings.interval \in RefreshRates THEN settings.interval ELSE DefaultInterval,
     history |-> IF settings.history \in Histories THEN settings.history ELSE DefaultHistory]

(* The gear of the tab bar: SettingsLayer::requestOpen. *)
RequestOpen == settingsDialog' = [CurrentSettings EXCEPT !.requested = TRUE]

(* The tabs that may be active once the tab bar is drawn. *)
Tabs == IF settingsDialog.open THEN {activeTab} ELSE {"processes", "other"}

(* ShellLayer::onRender. The user can click in it unless the modal dialog is  *)
(* open: change the tab, open the settings, or show or hide a column, which   *)
(* takes effect when the table is next drawn.                                 *)
RenderShell ==
    /\ pc = "shell"
    /\ \/ settingsDialog' = settingsDialog
       \/ ~settingsDialog.open /\ RequestOpen
    /\ activeTab' \in Tabs
    /\ \/ activeTab' = "processes" /\ DrawTable({})
       \/ \E c \in Columns : activeTab' = "processes" /\ table.drawn /\ ~settingsDialog.open /\ DrawTable({c})
       \/ activeTab' # "processes" /\ UNCHANGED <<table, panel, settings>>
    /\ pc' = "dialog"
    /\ UNCHANGED <<file, userThemes, theme, window, appHistory>>

(* SettingsLayer::applySettings: what differs from the settings is set there  *)
(* and, of theme and font, in the Theme; then all is saved.                   *)
ApplySettings ==
    LET themeId == settingsDialog.themes[settingsDialog.theme]
        applied == [settings EXCEPT !.themeId = themeId, !.fontSize = settingsDialog.font,
                                    !.interval = settingsDialog.interval, !.history = settingsDialog.history]
        themed == IF themeId # settings.themeId THEN SetThemeById(themeId, theme) ELSE theme
    IN  /\ settings' = applied
        /\ theme' = IF settingsDialog.font # settings.fontSize THEN SetFontSize(settingsDialog.font, themed) ELSE themed
        /\ file' \in AfterSave(applied, file)
        /\ edited' = (edited /\ file' = file)

(* SettingsLayer::onRender: nothing unless requested or open; otherwise the   *)
(* user selects an option, cancels or applies.                                *)
RenderSettings ==
    /\ pc = "dialog"
    /\ LET shown == [settingsDialog EXCEPT !.requested = FALSE, !.open = TRUE]
       IN  \/ /\ settingsDialog' = IF settingsDialog.requested \/ settingsDialog.open THEN shown ELSE settingsDialog
              /\ UNCHANGED <<theme, settings, file, edited>>
           \/ /\ settingsDialog.requested \/ settingsDialog.open
              /\ \/ \E i \in DOMAIN settingsDialog.themes : settingsDialog' = [shown EXCEPT !.theme = i]
                 \/ \E size \in 1..FontCount : settingsDialog' = [shown EXCEPT !.font = size]
                 \/ \E ms \in RefreshRates : settingsDialog' = [shown EXCEPT !.interval = ms]
                 \/ \E s \in Histories : settingsDialog' = [shown EXCEPT !.history = s]
                 \/ settingsDialog' = ClosedSettings
              /\ UNCHANGED <<theme, settings, file, edited>>
           \/ /\ settingsDialog.requested \/ settingsDialog.open
              /\ ApplySettings
              /\ settingsDialog' = ClosedSettings
    /\ pc' = "poll"
    /\ UNCHANGED <<userThemes, panel, table, activeTab, window, atClose>>

(* The user edits the config file, also while the program runs, or the themes *)
(* directory, which is only read at the start.                                *)
EditConfig ==
    /\ pc \in {"down", "poll"}
    /\ file' \in HandWritten
    /\ atClose' = NoPrefs
    /\ edited' = (pc # "down")
    /\ UNCHANGED <<pc, userThemes, theme, settings, panel, table, activeTab, settingsDialog, window>>

EditThemes ==
    /\ pc = "down"
    /\ userThemes' \in UserThemeDirs
    /\ atClose' = NoPrefs
    /\ UNCHANGED <<pc, file, theme, settings, panel, table, activeTab, settingsDialog, window, edited>>

AppNext ==
    \/ Start \/ Poll \/ Update \/ BeginFrame \/ RenderShell \/ RenderSettings
    \/ Close \/ Crash \/ EditConfig \/ EditThemes

AppSpec == AppInit /\ [][AppNext]_appVars
-----------------------------------------------------------------------------
(* What was in force when the program was closed is in force when it starts   *)
(* again: theme, font also if changed by the keyboard only, interval,         *)
(* history, the columns as last drawn, and the window. main.cpp,              *)
(* ShellLayer::onDetach, UserConfig::save and load, and the panels' onAttach  *)
(* each do a part of it; the panel's own columns are written too late. It     *)
(* says nothing where the file that is overwritten had been edited meanwhile  *)
(* (EditsPreserved is about that), or where a theme was still queued: Apply   *)
(* has saved it, and the one before, still in force, is written over it.      *)
RestartKeeps == pc = "poll" /\ atClose # NoPrefs => InForce(theme, panel, window) = atClose

(* "Manual edits are preserved": what is written into the config file when it *)
(* had been edited meanwhile has what the edit put into it.                   *)
EditsPreserved ==
    [][edited /\ ~edited' /\ file' # <<>> =>
           \A k \in DOMAIN file : k \in DOMAIN file' /\ file'[k] = file[k]]_appVars

(* Once a frame has begun, the theme drawn is the one the settings name, if   *)
(* it is among those found: at the start, when files have come or gone, and   *)
(* after every Apply, the change that was queued has been made.               *)
ThemeInForce ==
    pc \in {"shell", "dialog"} /\ Listed(theme.ids, settings.themeId) => CurrentThemeId(theme) = settings.themeId

(* Whatever is written in the config file, what the panels' timers and the    *)
(* histories get from it lies within the bounds of SamplingConfig.h, and the  *)
(* window can be made.                                                        *)
SettingsBounded ==
    /\ panel.interval \in MinInterval..MaxInterval /\ settings.interval \in MinInterval..MaxInterval
    /\ panel.history \in MinHistory..MaxHistory /\ settings.history \in MinHistory..MaxHistory
    /\ settings.size \in MinSize..MaxSize
==============================================================================
