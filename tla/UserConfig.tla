----------------------------- MODULE UserConfig -----------------------------
(* App::UserConfig (src/src/App/UserConfig.cpp): what load() makes of a       *)
(* config file and what save() writes. The file is a function from the keys   *)
(* present in it to their values, which can be any number in a file written   *)
(* by hand; <<>> stands for a file that is missing, empty or does not parse,  *)
(* all of which load() answers alike. The size of the window stands for its   *)
(* width and height, its place for x and y; each pair is treated alike.       *)
EXTENDS Integers, Theme

CONSTANTS
    MinInterval, MaxInterval, DefaultInterval,   \* Domain::Sampling, milliseconds
    MinHistory, MaxHistory, DefaultHistory,      \* Domain::Sampling, seconds
    MinSize, MaxSize, DefaultSize,               \* 200, 16384, of UserSettings
    FarthestPos,                                 \* WINDOW_POS_ABS_MAX
    IntMax,                                      \* the range of int
    NoPos,                                       \* windowPosX without a value
    Columns,                                     \* columns that can be hidden
    DefaultColumns                               \* those with defaultVisible

ASSUME ConfigAssumption ==
    /\ IntMax \in Nat /\ FarthestPos \in 100 .. IntMax /\ NoPos \notin Int
    /\ {MinInterval, MaxInterval, MinHistory, MaxHistory, MinSize, MaxSize} \subseteq 1 .. IntMax
    /\ {DefaultInterval, DefaultHistory, DefaultSize} \subseteq Int
    /\ MinInterval <= DefaultInterval /\ DefaultInterval <= MaxInterval
    /\ MinHistory <= DefaultHistory /\ DefaultHistory <= MaxHistory
    /\ MinSize <= DefaultSize /\ DefaultSize <= MaxSize
    /\ DefaultColumns \subseteq Columns

DefaultSettings ==
    [interval |-> DefaultInterval, history |-> DefaultHistory, themeId |-> DefaultTheme, fontSize |-> Medium,
     columns |-> DefaultColumns, size |-> DefaultSize, pos |-> NoPos, maximized |-> FALSE]

Keys == DOMAIN DefaultSettings

ClampTo(low, high, value) == IF value < low THEN low ELSE IF value > high THEN high ELSE value
NarrowOr(value, default) == IF value > IntMax \/ value < -IntMax - 1 THEN default ELSE value

(* std::abs of the least int is undefined; where it wraps around, the value *)
(* is negative and passes for sane.                                          *)
IsSane(pos) == pos = -IntMax - 1 \/ (pos <= FarthestPos /\ -pos <= FarthestPos)

(* load() without the clamp on the interval. *)
LoadUnclamped(settings, file) ==
    [k \in Keys |-> IF k \in DOMAIN file THEN file[k] ELSE settings[k]]

(* load(): a key that is missing keeps its default, a number out of bounds is *)
(* clamped, a place out of bounds is dropped and an unknown font ignored.     *)
Load(settings, file) ==
    LET Read(k) == CASE k = "interval" -> ClampTo(MinInterval, MaxInterval, NarrowOr(file[k], DefaultInterval))
                  [] k = "history" -> ClampTo(MinHistory, MaxHistory, NarrowOr(file[k], DefaultHistory))
                  [] k = "size" -> ClampTo(MinSize, MaxSize, NarrowOr(file[k], 600))
                  [] k = "pos" -> IF IsSane(NarrowOr(file[k], 100)) THEN NarrowOr(file[k], 100) ELSE NoPos
                  [] k = "fontSize" -> IF file[k] \in 1..FontCount THEN file[k] ELSE settings[k]
                  [] OTHER -> file[k]
    IN  [k \in Keys |-> IF k \in DOMAIN file THEN Read(k) ELSE settings[k]]

(* What save() writes: every setting, and nothing of what the file held. *)
Saved(settings) ==
    [k \in IF settings.pos = NoPos THEN Keys \ {"pos"} ELSE Keys |->
        CASE k = "interval" -> ClampTo(MinInterval, MaxInterval, settings[k])
          [] k = "history" -> ClampTo(MinHistory, MaxHistory, settings[k])
          [] OTHER -> settings[k]]

(* The outcomes of save(): the file is written; it cannot be opened, or its   *)
(* directory made; it is opened, which empties it, and then not written.      *)
AfterSave(settings, file) == {Saved(settings), file, <<>>}

ApplyToApplication(settings, theme) == SetFontSize(settings.fontSize, SetThemeById(settings.themeId, theme))
CaptureFromApplication(settings, theme) ==
    [settings EXCEPT !.themeId = CurrentThemeId(theme), !.fontSize = theme.font]
=============================================================================
