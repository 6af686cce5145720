--------------------------- MODULE Application_proof ---------------------------
(* Theorems about the program over its restarts (Application, with UserConfig *)
(* and Theme) and about the details of a process (ProcessDetails), for every  *)
(* config file, themes directory, set of options and order of events.         *)
EXTENDS Application, ProcessDetails, TimeWindow_proof, FiniteSetTheorems

-----------------------------------------------------------------------------
(* The theme.                                                                *)

(* The singleton: its index is one of a scheme it has, and so is the one that *)
(* is queued.                                                                 *)
IsTheme(t) ==
    /\ t = [ids |-> t.ids, current |-> t.current, pending |-> t.pending, font |-> t.font]
    /\ \E S : t.ids \in Seq(S)
    /\ t.current \in DOMAIN t.ids
    /\ t.pending \in DOMAIN t.ids \cup {NoTheme}
    /\ t.font \in 1..FontCount

(* The theme in force once a frame begins. *)
Chosen(t) == IF t.pending = NoTheme THEN CurrentThemeId(t) ELSE t.ids[t.pending]

(* What load() takes from a file as numbers are integers. *)
Numbers == {"interval", "history", "size", "pos"}
IsFile(f) == \A k \in Numbers \cap DOMAIN f : f[k] \in Int

(* A place that load() keeps. *)
IsPlace(p) == p \in Int /\ p >= -IntMax - 1 /\ p <= IntMax /\ IsSane(p)

SettingKeys == {"interval", "history", "themeId", "fontSize", "columns", "size", "pos", "maximized"}
IsSettings(s) ==
    /\ s = [k \in SettingKeys |-> s[k]]
    /\ s.interval \in MinInterval..MaxInterval
    /\ s.history \in MinHistory..MaxHistory
    /\ s.size \in MinSize..MaxSize
    /\ s.fontSize \in 1..FontCount
    /\ s.pos = NoPos \/ IsPlace(s.pos)

IsPanel(p) ==
    /\ p = [interval |-> p.interval, history |-> p.history, columns |-> p.columns]
    /\ p.interval \in MinInterval..MaxInterval
    /\ p.history \in MinHistory..MaxHistory

IsDialog(d) ==
    /\ d = [requested |-> d.requested, open |-> d.open, themes |-> d.themes, theme |-> d.theme,
            font |-> d.font, interval |-> d.interval, history |-> d.history]
    /\ d.font \in 1..FontCount
    /\ d.interval \in RefreshRates
    /\ d.history \in Histories

IsWindow(w) == w.size \in 0..IntMax /\ IsPlace(w.pos)

AppTypeInv ==
    /\ pc \in {"down", "poll", "update", "begin", "shell", "dialog"}
    /\ IsFile(file) /\ userThemes \in UserThemeDirs
    /\ IsTheme(theme) /\ IsSettings(settings) /\ IsPanel(panel)
    /\ IsDialog(settingsDialog) /\ IsWindow(window)

(* The theme the settings name, if there is one, is in force or queued, and   *)
(* none is queued while a frame is drawn.                                     *)
ThemeInv ==
    /\ pc # "down" /\ Listed(theme.ids, settings.themeId) => Chosen(theme) = settings.themeId
    /\ pc \in {"shell", "dialog"} => theme.pending = NoTheme

(* The settings have the columns of the panel, and the table shows them. *)
ColumnsInv ==
    /\ settings.columns = panel.columns
    /\ table.drawn => table.enabled = panel.columns /\ pc # "down"

(* What the program would show, started with a file. *)
Shown(f) ==
    LET l == Load(DefaultSettings, f)
    IN  InForce(AttachedTheme(l),
                [interval |-> l.interval, history |-> l.history, columns |-> l.columns],
                NewWindow(l))

(* The themes do not change while the program runs, nor what it was closed    *)
(* with while it is down.                                                     *)
RestartInv ==
    /\ pc # "down" => theme.ids = AttachThemes(NewTheme).ids
    /\ atClose # NoPrefs => \/ pc = "down" /\ Shown(file) = atClose
                            \/ pc = "poll" /\ InForce(theme, panel, window) = atClose

-----------------------------------------------------------------------------
(* The theme's operations.                                                   *)

LEMMA FontCountIs == FontCount \in Nat /\ Medium \in 1..FontCount /\ NoTheme = 0
  BY ThemeAssumption DEF Medium, NoTheme

(* The first place of an id that is listed. *)
LEMMA IndexOfListed ==
    ASSUME NEW S, NEW ids \in Seq(S), NEW id, Listed(ids, id)
    PROVE  IndexOf(ids, id) \in DOMAIN ids /\ ids[IndexOf(ids, id)] = id
<1> DEFINE places == {i \in Nat : i \in DOMAIN ids /\ ids[i] = id}
<1>1. DOMAIN ids = 1 .. Len(ids) /\ Len(ids) \in Nat
  OBVIOUS
<1>2. places \subseteq Nat /\ places # {}
  BY <1>1 DEF Listed
<1>3. PICK i \in places : \A j \in places : ~(<<j, i>> \in OpToRel(<, Nat))
  <2> HIDE DEF places
  <2>. QED  BY <1>2, NatLessThanWellFounded, WFMin
<1>4. \A j \in places : ~(j < i)
  BY <1>3 DEF OpToRel
<1>5. i \in DOMAIN ids /\ ids[i] = id /\ \A j \in 1..(i - 1) : ids[j] # id
  <2>1. ASSUME NEW j \in 1..(i - 1) PROVE ids[j] # id
    <3>1. j \in Nat /\ j \in DOMAIN ids /\ j < i
      BY <1>1
    <3>. QED  BY <1>4, <3>1
  <2>. QED  BY <2>1
<1>. QED  BY <1>5 DEF IndexOf

LEMMA NewThemeFacts ==
    /\ IsTheme(NewTheme) /\ NewTheme.pending = NoTheme /\ NewTheme.font = Medium
<1>1. /\ NewTheme.ids = <<Fallback>> /\ NewTheme.current = 1 /\ NewTheme.pending = NoTheme
      /\ NewTheme.font = Medium
      /\ NewTheme = [ids |-> NewTheme.ids, current |-> NewTheme.current,
                     pending |-> NewTheme.pending, font |-> NewTheme.font]
  BY DEF NewTheme
<1>2. <<Fallback>> \in Seq({Fallback}) /\ 1 \in DOMAIN <<Fallback>>
  OBVIOUS
<1>. QED  BY <1>1, <1>2, FontCountIs DEF IsTheme

LEMMA FontFacts ==
    ASSUME NEW t, IsTheme(t), NEW size \in 1..FontCount
    PROVE  LET r == SetFontSize(size, t)
           IN  /\ IsTheme(r)
               /\ r.ids = t.ids /\ r.current = t.current /\ r.pending = t.pending /\ r.font = size
<1>1. PICK r : r = SetFontSize(size, t)
  OBVIOUS
<1>2. r = [ids |-> t.ids, current |-> t.current, pending |-> t.pending, font |-> size]
  <2>1. t = [ids |-> t.ids, current |-> t.current, pending |-> t.pending, font |-> t.font]
    BY DEF IsTheme
  <2>. QED  BY <1>1, <2>1 DEF SetFontSize
<1>3. r.ids = t.ids /\ r.current = t.current /\ r.pending = t.pending /\ r.font = size
  BY <1>2
<1>4. r = [ids |-> r.ids, current |-> r.current, pending |-> r.pending, font |-> r.font]
  BY <1>2, <1>3
<1>5. IsTheme(r)
  BY <1>3, <1>4 DEF IsTheme
<1>. QED  BY <1>1, <1>3, <1>5

LEMMA SetThemeFacts ==
    ASSUME NEW t, IsTheme(t), NEW id
    PROVE  LET r == SetThemeById(id, t)
           IN  /\ IsTheme(r) /\ r.ids = t.ids /\ r.current = t.current /\ r.font = t.font
               /\ Listed(t.ids, id) => Chosen(r) = id
               /\ ~Listed(t.ids, id) => r = t
<1>1. CASE ~Listed(t.ids, id)
  BY <1>1 DEF SetThemeById
<1>2. CASE Listed(t.ids, id)
  <2>1. PICK i : i = IndexOf(t.ids, id)
    OBVIOUS
  <2>2. PICK S : t.ids \in Seq(S)
    BY DEF IsTheme
  <2>3. i \in DOMAIN t.ids /\ t.ids[i] = id /\ i # NoTheme
    BY <1>2, <2>1, <2>2, IndexOfListed, FontCountIs
  <2>4. PICK r : r = SetThemeById(id, t)
    OBVIOUS
  <2>5. r = [t EXCEPT !.pending = i]
    BY <1>2, <2>1, <2>3, <2>4 DEF SetThemeById, SetTheme
  <2>6. r = [ids |-> t.ids, current |-> t.current, pending |-> i, font |-> t.font]
    <3>1. t = [ids |-> t.ids, current |-> t.current, pending |-> t.pending, font |-> t.font]
      BY DEF IsTheme
    <3>. QED  BY <2>5, <3>1
  <2>7. r.ids = t.ids /\ r.current = t.current /\ r.pending = i /\ r.font = t.font
    BY <2>6
  <2>8. r = [ids |-> r.ids, current |-> r.current, pending |-> r.pending, font |-> r.font]
    BY <2>6, <2>7
  <2>9. IsTheme(r)
    BY <2>3, <2>7, <2>8 DEF IsTheme
  <2>10. Chosen(r) = id
    BY <2>3, <2>7 DEF Chosen
  <2>. QED  BY <1>2, <2>4, <2>7, <2>9, <2>10
<1>. QED  BY <1>1, <1>2

LEMMA PendingFacts ==
    ASSUME NEW t, IsTheme(t)
    PROVE  LET r == ApplyPendingTheme(t)
           IN  /\ IsTheme(r) /\ r.ids = t.ids /\ r.font = t.font /\ r.pending = NoTheme
               /\ Chosen(r) = Chosen(t)
<1>1. PICK r : r = ApplyPendingTheme(t)
  OBVIOUS
<1>2. PICK c : c = IF t.pending \in DOMAIN t.ids THEN t.pending ELSE t.current
  OBVIOUS
<1>3. r = [ids |-> t.ids, current |-> c, pending |-> NoTheme, font |-> t.font]
  <2>1. t = [ids |-> t.ids, current |-> t.current, pending |-> t.pending, font |-> t.font]
    BY DEF IsTheme
  <2>. QED  BY <1>1, <1>2, <2>1 DEF ApplyPendingTheme
<1>4. r.ids = t.ids /\ r.current = c /\ r.pending = NoTheme /\ r.font = t.font
  BY <1>3
<1>5. r = [ids |-> r.ids, current |-> r.current, pending |-> r.pending, font |-> r.font]
  BY <1>3, <1>4
<1>6. IsTheme(r)
  BY <1>2, <1>4, <1>5 DEF IsTheme
<1>7. NoTheme \notin DOMAIN t.ids
  BY FontCountIs DEF IsTheme
<1>8. Chosen(r) = Chosen(t)
  BY <1>2, <1>4, <1>7 DEF Chosen, CurrentThemeId, IsTheme
<1>. QED  BY <1>1, <1>4, <1>6, <1>8

(* What loadThemes() leaves: a scheme at least, and one of them current. *)
LEMMA LoadFacts ==
    ASSUME NEW t, IsTheme(t), t.pending = NoTheme, NEW dir, IsFiniteSet(dir)
    PROVE  LET r == LoadThemes(dir, t)
           IN  IsTheme(r) /\ r.pending = NoTheme /\ r.font = t.font
<1>1. PICK r : r = LoadThemes(dir, t)
  OBVIOUS
<1>2. PICK found : found = DiscoverThemes(dir)
  OBVIOUS
<1>3. PICK good : good = Loadable(found)
  OBVIOUS
<1>4. PICK S : t.ids \in Seq(S)
  BY DEF IsTheme
<1>5. t = [ids |-> t.ids, current |-> t.current, pending |-> NoTheme, font |-> t.font]
  BY DEF IsTheme
<1>6. CASE found = {}
  BY <1>1, <1>2, <1>6 DEF LoadThemes
<1>7. CASE found # {} /\ good = {}
  <2>1. r = [t EXCEPT !.ids = Append(t.ids, Fallback)]
    BY <1>1, <1>2, <1>3, <1>7 DEF LoadThemes
  <2>2. r = [ids |-> Append(t.ids, Fallback), current |-> t.current, pending |-> NoTheme,
             font |-> t.font]
    BY <1>5, <2>1
  <2>3. /\ r.ids = Append(t.ids, Fallback) /\ r.current = t.current /\ r.pending = NoTheme
        /\ r.font = t.font
    BY <2>2
  <2>4. r = [ids |-> r.ids, current |-> r.current, pending |-> r.pending, font |-> r.font]
    BY <2>2, <2>3
  <2>5. /\ Append(t.ids, Fallback) \in Seq(S \cup {Fallback})
        /\ DOMAIN t.ids \subseteq DOMAIN Append(t.ids, Fallback)
    <3>1. t.ids \in Seq(S \cup {Fallback})
      BY <1>4
    <3>2. /\ Append(t.ids, Fallback) \in Seq(S \cup {Fallback})
          /\ Len(Append(t.ids, Fallback)) = Len(t.ids) + 1 /\ Len(t.ids) \in Nat
      BY <3>1
    <3>3. DOMAIN t.ids = 1 .. Len(t.ids)
          /\ DOMAIN Append(t.ids, Fallback) = 1 .. Len(Append(t.ids, Fallback))
      BY <1>4, <3>2
    <3>. QED  BY <3>2, <3>3
  <2>. QED  BY <1>1, <2>3, <2>4, <2>5 DEF IsTheme
<1>8. CASE found # {} /\ good # {}
  <2>1. PICK ids : ids = IdsByName(good)
    OBVIOUS
  <2>2. PICK c : c = IF Listed(ids, DefaultTheme) THEN IndexOf(ids, DefaultTheme) ELSE 1
    OBVIOUS
  <2>3. r = [t EXCEPT !.ids = ids, !.current = c]
    BY <1>1, <1>2, <1>3, <1>8, <2>1, <2>2 DEF LoadThemes
  <2>4. r = [ids |-> ids, current |-> c, pending |-> NoTheme, font |-> t.font]
    BY <1>5, <2>3
  <2>5. r.ids = ids /\ r.current = c /\ r.pending = NoTheme /\ r.font = t.font
    BY <2>4
  <2>6. r = [ids |-> r.ids, current |-> r.current, pending |-> r.pending, font |-> r.font]
    BY <2>4, <2>5
  <2>7. PICK n \in Nat : n = Cardinality(good) /\ n >= 1
    <3>1. good \subseteq dir
      BY <1>2, <1>3 DEF DiscoverThemes, Loadable
    <3>2. IsFiniteSet(good)
      BY <3>1, FS_Subset
    <3>3. Cardinality(good) \in Nat /\ Cardinality(good) # 0
      BY <1>8, <3>2, FS_CardinalityType, FS_EmptySet
    <3>. QED  BY <3>3
  <2>8. \E T : ids \in Seq(T) /\ Len(ids) = n
    <3>1. PICK h : ids = [i \in 1..n |-> h[i]]
      <4> DEFINE g == [i \in 1..n |->
                         (CHOOSE f \in good : Cardinality({x \in good : x.name <= f.name}) = i).id]
      <4>1. ids = g
        BY <2>1, <2>7 DEF IdsByName
      <4>2. g = [i \in 1..n |-> g[i]]
        OBVIOUS
      <4> HIDE DEF g
      <4>. QED  BY <4>1, <4>2
    <3>2. PICK T : T = {h[i] : i \in 1..n}
      OBVIOUS
    <3>3. ids \in [1..n -> T]
      BY <3>1, <3>2
    <3>4. ids \in Seq(T) /\ Len(ids) = n
      BY <2>7, <3>3
    <3>. QED  BY <3>4
  <2>9. PICK T : ids \in Seq(T) /\ Len(ids) = n
    BY <2>8
  <2>10. c \in DOMAIN ids
    BY <2>2, <2>7, <2>9, IndexOfListed
  <2>. QED  BY <1>1, <2>5, <2>6, <2>9, <2>10 DEF IsTheme
<1>. QED  BY <1>6, <1>7, <1>8

LEMMA AttachFacts ==
    ASSUME userThemes \in UserThemeDirs
    PROVE  LET r == AttachThemes(NewTheme)
           IN  IsTheme(r) /\ r.pending = NoTheme /\ r.font = Medium
<1>1. IsFiniteSet(BuiltInThemes) /\ IsFiniteSet(userThemes)
  BY AppAssumption
<1>2. PICK t : t = LoadThemes(BuiltInThemes, NewTheme)
  OBVIOUS
<1>3. IsTheme(t) /\ t.pending = NoTheme /\ t.font = Medium
  BY <1>1, <1>2, NewThemeFacts, LoadFacts
<1>4. LoadThemes(userThemes, t) = AttachThemes(NewTheme)
  BY <1>2 DEF AttachThemes
<1>. QED  BY <1>1, <1>3, <1>4, LoadFacts

-----------------------------------------------------------------------------
(* The settings.                                                             *)

LEMMA KeysAre == Keys = SettingKeys
  BY DEF Keys, DefaultSettings, SettingKeys

(* load(), key by key. *)
LEMMA LoadFields ==
    ASSUME NEW f
    PROVE  LET l == Load(DefaultSettings, f)
           IN  /\ l = [k \in SettingKeys |-> l[k]]
               /\ l.interval = IF "interval" \in DOMAIN f
                               THEN ClampTo(MinInterval, MaxInterval, NarrowOr(f["interval"], DefaultInterval))
                               ELSE DefaultInterval
               /\ l.history = IF "history" \in DOMAIN f
                              THEN ClampTo(MinHistory, MaxHistory, NarrowOr(f["history"], DefaultHistory))
                              ELSE DefaultHistory
               /\ l.size = IF "size" \in DOMAIN f
                           THEN ClampTo(MinSize, MaxSize, NarrowOr(f["size"], 600)) ELSE DefaultSize
               /\ l.pos = IF "pos" \in DOMAIN f
                          THEN IF IsSane(NarrowOr(f["pos"], 100)) THEN NarrowOr(f["pos"], 100) ELSE NoPos
                          ELSE NoPos
               /\ l.fontSize = IF "fontSize" \in DOMAIN f /\ f["fontSize"] \in 1..FontCount
                               THEN f["fontSize"] ELSE Medium
               /\ l.themeId = IF "themeId" \in DOMAIN f THEN f["themeId"] ELSE DefaultTheme
               /\ l.columns = IF "columns" \in DOMAIN f THEN f["columns"] ELSE DefaultColumns
               /\ l.maximized = IF "maximized" \in DOMAIN f THEN f["maximized"] ELSE FALSE
<1>1. /\ DefaultSettings.interval = DefaultInterval /\ DefaultSettings.history = DefaultHistory
      /\ DefaultSettings.size = DefaultSize /\ DefaultSettings.pos = NoPos
      /\ DefaultSettings.fontSize = Medium /\ DefaultSettings.themeId = DefaultTheme
      /\ DefaultSettings.columns = DefaultColumns /\ DefaultSettings.maximized = FALSE
  BY DEF DefaultSettings
<1> HIDE DEF DefaultSettings
<1>2. Load(DefaultSettings, f) = [k \in SettingKeys |-> Load(DefaultSettings, f)[k]]
  BY KeysAre DEF Load
<1>3. /\ Load(DefaultSettings, f).interval
            = IF "interval" \in DOMAIN f
              THEN ClampTo(MinInterval, MaxInterval, NarrowOr(f["interval"], DefaultInterval))
              ELSE DefaultInterval
      /\ Load(DefaultSettings, f).history
            = IF "history" \in DOMAIN f
              THEN ClampTo(MinHistory, MaxHistory, NarrowOr(f["history"], DefaultHistory))
              ELSE DefaultHistory
      /\ Load(DefaultSettings, f).size
            = IF "size" \in DOMAIN f THEN ClampTo(MinSize, MaxSize, NarrowOr(f["size"], 600)) ELSE DefaultSize
      /\ Load(DefaultSettings, f).pos
            = IF "pos" \in DOMAIN f
              THEN IF IsSane(NarrowOr(f["pos"], 100)) THEN NarrowOr(f["pos"], 100) ELSE NoPos
              ELSE NoPos
  BY <1>1, KeysAre DEF Load, SettingKeys
<1>4. /\ Load(DefaultSettings, f).fontSize
            = IF "fontSize" \in DOMAIN f /\ f["fontSize"] \in 1..FontCount THEN f["fontSize"] ELSE Medium
      /\ Load(DefaultSettings, f).themeId = IF "themeId" \in DOMAIN f THEN f["themeId"] ELSE DefaultTheme
      /\ Load(DefaultSettings, f).columns = IF "columns" \in DOMAIN f THEN f["columns"] ELSE DefaultColumns
      /\ Load(DefaultSettings, f).maximized = IF "maximized" \in DOMAIN f THEN f["maximized"] ELSE FALSE
  BY <1>1, KeysAre DEF Load, SettingKeys
<1>. QED  BY <1>2, <1>3, <1>4

LEMMA NarrowFacts ==
    ASSUME NEW value \in Int, NEW default \in -IntMax - 1..IntMax
    PROVE  /\ NarrowOr(value, default) \in -IntMax - 1..IntMax
           /\ value \in -IntMax - 1..IntMax => NarrowOr(value, default) = value
  BY ConfigAssumption DEF NarrowOr

LEMMA ClampFacts ==
    ASSUME NEW low \in Int, NEW high \in Int, low <= high, NEW value \in Int
    PROVE  /\ ClampTo(low, high, value) \in low..high
           /\ value \in low..high => ClampTo(low, high, value) = value
  BY DEF ClampTo

(* The bounds, and that nothing within them is lost in an int. *)
LEMMA Bounds ==
    /\ IntMax \in Nat /\ FarthestPos \in Nat /\ 100 <= FarthestPos /\ FarthestPos <= IntMax
    /\ MinInterval \in Nat /\ MaxInterval \in Nat /\ MaxInterval <= IntMax
    /\ MinHistory \in Nat /\ MaxHistory \in Nat /\ MaxHistory <= IntMax
    /\ MinSize \in Nat /\ MaxSize \in Nat /\ MaxSize <= IntMax
    /\ DefaultInterval \in MinInterval..MaxInterval
    /\ DefaultHistory \in MinHistory..MaxHistory
    /\ DefaultSize \in MinSize..MaxSize
    /\ MinInterval <= MaxInterval /\ MinHistory <= MaxHistory /\ MinSize <= MaxSize
    /\ NoPos \notin Int
  BY ConfigAssumption

LEMMA DefaultsType ==
    /\ IsSettings(DefaultSettings) /\ IsPanel(NoPanel) /\ IsDialog(ClosedSettings)
    /\ IsWindow([size |-> DefaultSize, pos |-> 0, maximized |-> FALSE])
<1>1. IsSettings(DefaultSettings)
  <2>1. DefaultSettings = [k \in SettingKeys |-> DefaultSettings[k]]
    BY DEF DefaultSettings, SettingKeys
  <2>. QED  BY <2>1, Bounds, FontCountIs DEF DefaultSettings, IsSettings
<1>2. IsPanel(NoPanel)
  BY Bounds DEF NoPanel, IsPanel
<1>3. IsDialog(ClosedSettings)
  BY AppAssumption, FontCountIs DEF ClosedSettings, IsDialog
<1>4. IsWindow([size |-> DefaultSize, pos |-> 0, maximized |-> FALSE])
  BY Bounds DEF IsWindow, IsPlace, IsSane
<1>. QED  BY <1>1, <1>2, <1>3, <1>4

LEMMA LoadType ==
    ASSUME NEW f, IsFile(f)
    PROVE  IsSettings(Load(DefaultSettings, f))
<1>1. PICK l : l = Load(DefaultSettings, f)
  OBVIOUS
<1>2. l = [k \in SettingKeys |-> l[k]]
  BY <1>1, LoadFields
<1>3. l.interval \in MinInterval..MaxInterval
  <2>1. CASE "interval" \in DOMAIN f
    <3>1. f["interval"] \in Int /\ DefaultInterval \in -IntMax - 1..IntMax
      BY <2>1, Bounds DEF IsFile, Numbers
    <3>2. NarrowOr(f["interval"], DefaultInterval) \in Int
      BY <3>1, Bounds, NarrowFacts
    <3>3. l.interval = ClampTo(MinInterval, MaxInterval, NarrowOr(f["interval"], DefaultInterval))
      BY <1>1, <2>1, LoadFields
    <3>. QED  BY <3>2, <3>3, Bounds, ClampFacts
  <2>2. CASE "interval" \notin DOMAIN f
    BY <1>1, <2>2, LoadFields, Bounds
  <2>. QED  BY <2>1, <2>2
<1>4. l.history \in MinHistory..MaxHistory
  <2>1. CASE "history" \in DOMAIN f
    <3>1. f["history"] \in Int /\ DefaultHistory \in -IntMax - 1..IntMax
      BY <2>1, Bounds DEF IsFile, Numbers
    <3>2. NarrowOr(f["history"], DefaultHistory) \in Int
      BY <3>1, Bounds, NarrowFacts
    <3>3. l.history = ClampTo(MinHistory, MaxHistory, NarrowOr(f["history"], DefaultHistory))
      BY <1>1, <2>1, LoadFields
    <3>. QED  BY <3>2, <3>3, Bounds, ClampFacts
  <2>2. CASE "history" \notin DOMAIN f
    BY <1>1, <2>2, LoadFields, Bounds
  <2>. QED  BY <2>1, <2>2
<1>5. l.size \in MinSize..MaxSize
  <2>1. CASE "size" \in DOMAIN f
    <3>1. f["size"] \in Int /\ (f["size"] > IntMax => 600 \in Int)
      BY <2>1 DEF IsFile, Numbers
    <3>2. NarrowOr(f["size"], 600) \in Int
      BY <3>1 DEF NarrowOr
    <3>3. l.size = ClampTo(MinSize, MaxSize, NarrowOr(f["size"], 600))
      BY <1>1, <2>1, LoadFields
    <3>. QED  BY <3>2, <3>3, Bounds, ClampFacts
  <2>2. CASE "size" \notin DOMAIN f
    BY <1>1, <2>2, LoadFields, Bounds
  <2>. QED  BY <2>1, <2>2
<1>6. l.pos = NoPos \/ IsPlace(l.pos)
  <2>1. CASE "pos" \in DOMAIN f
    <3>1. f["pos"] \in Int /\ 100 \in -IntMax - 1..IntMax
      BY <2>1, Bounds DEF IsFile, Numbers
    <3>2. NarrowOr(f["pos"], 100) \in -IntMax - 1..IntMax
      BY <3>1, Bounds, NarrowFacts
    <3>3. l.pos = IF IsSane(NarrowOr(f["pos"], 100)) THEN NarrowOr(f["pos"], 100) ELSE NoPos
      BY <1>1, <2>1, LoadFields
    <3>. QED  BY <3>2, <3>3, Bounds DEF IsPlace
  <2>2. CASE "pos" \notin DOMAIN f
    BY <1>1, <2>2, LoadFields
  <2>. QED  BY <2>1, <2>2
<1>7. l.fontSize \in 1..FontCount
  BY <1>1, LoadFields, FontCountIs
<1>. QED  BY <1>1, <1>2, <1>3, <1>4, <1>5, <1>6, <1>7 DEF IsSettings

(* save(), key by key. *)
LEMMA SavedFields ==
    ASSUME NEW s
    PROVE  LET f == Saved(s)
           IN  /\ DOMAIN f = IF s.pos = NoPos THEN SettingKeys \ {"pos"} ELSE SettingKeys
               /\ f["interval"] = ClampTo(MinInterval, MaxInterval, s.interval)
               /\ f["history"] = ClampTo(MinHistory, MaxHistory, s.history)
               /\ s.pos # NoPos => f["pos"] = s.pos
               /\ \A k \in SettingKeys \ {"interval", "history", "pos"} : f[k] = s[k]
<1>1. DOMAIN Saved(s) = IF s.pos = NoPos THEN SettingKeys \ {"pos"} ELSE SettingKeys
  BY KeysAre DEF Saved
<1>2. /\ Saved(s)["interval"] = ClampTo(MinInterval, MaxInterval, s.interval)
      /\ Saved(s)["history"] = ClampTo(MinHistory, MaxHistory, s.history)
  BY KeysAre DEF Saved, SettingKeys
<1>3. s.pos # NoPos => Saved(s)["pos"] = s.pos
  BY KeysAre DEF Saved, SettingKeys
<1>4. ASSUME NEW k \in SettingKeys \ {"interval", "history", "pos"}
      PROVE  Saved(s)[k] = s[k]
  BY KeysAre DEF Saved, SettingKeys
<1>. QED  BY <1>1, <1>2, <1>3, <1>4

LEMMA SavedType ==
    ASSUME NEW s, s.interval \in Int, s.history \in Int, s.size \in Int, s.pos = NoPos \/ s.pos \in Int
    PROVE  IsFile(Saved(s))
<1>1. PICK f : f = Saved(s)
  OBVIOUS
<1>2. f["interval"] = ClampTo(MinInterval, MaxInterval, s.interval)
      /\ f["history"] = ClampTo(MinHistory, MaxHistory, s.history)
  BY <1>1, SavedFields
<1>3. f["interval"] \in Int /\ f["history"] \in Int
  <2>1. ASSUME NEW v \in Int
        PROVE  /\ ClampTo(MinInterval, MaxInterval, v) \in Int
               /\ ClampTo(MinHistory, MaxHistory, v) \in Int
    BY Bounds DEF ClampTo
  <2>. QED  BY <1>2, <2>1
<1>4. f["size"] \in Int
  BY <1>1, SavedFields DEF SettingKeys
<1>5. "pos" \in DOMAIN f => f["pos"] \in Int
  BY <1>1, SavedFields
<1>. QED  BY <1>1, <1>3, <1>4, <1>5 DEF IsFile, Numbers

-----------------------------------------------------------------------------
(* Types.                                                                    *)

LEMMA AttachedFacts ==
    ASSUME userThemes \in UserThemeDirs, NEW l, l.fontSize \in 1..FontCount
    PROVE  LET r == AttachedTheme(l)
           IN  /\ IsTheme(r) /\ r.ids = AttachThemes(NewTheme).ids /\ r.font = l.fontSize
               /\ Listed(r.ids, l.themeId) => Chosen(r) = l.themeId
<1>1. PICK t : t = AttachThemes(NewTheme)
  OBVIOUS
<1>2. IsTheme(t)
  BY <1>1, AttachFacts
<1>3. PICK u : u = SetThemeById(l.themeId, t)
  OBVIOUS
<1>4. /\ IsTheme(u) /\ u.ids = t.ids
      /\ Listed(t.ids, l.themeId) => Chosen(u) = l.themeId
  BY <1>2, <1>3, SetThemeFacts
<1>5. PICK r : r = SetFontSize(l.fontSize, u)
  OBVIOUS
<1>6. /\ IsTheme(r) /\ r.ids = u.ids /\ r.current = u.current /\ r.pending = u.pending
      /\ r.font = l.fontSize
  BY <1>4, <1>5, FontFacts
<1>7. r = AttachedTheme(l)
  BY <1>1, <1>3, <1>5 DEF AttachedTheme, ApplyToApplication
<1>8. Chosen(r) = Chosen(u)
  BY <1>6 DEF Chosen, CurrentThemeId
<1>. QED  BY <1>1, <1>4, <1>6, <1>7, <1>8

LEMMA ColumnsFacts ==
    ASSUME NEW s, IsSettings(s), NEW v
    PROVE  LET r == [s EXCEPT !.columns = v]
           IN  IsSettings(r) /\ r.columns = v /\ r.themeId = s.themeId
<1>1. PICK r : r = [s EXCEPT !.columns = v]
  OBVIOUS
<1>2. s = [k \in SettingKeys |-> s[k]]
  BY DEF IsSettings
<1>3. r = [k \in SettingKeys |-> IF k = "columns" THEN v ELSE s[k]]
  BY <1>1, <1>2
<1>4. /\ r.columns = v /\ r.interval = s.interval /\ r.history = s.history /\ r.size = s.size
      /\ r.fontSize = s.fontSize /\ r.pos = s.pos /\ r.themeId = s.themeId
  BY <1>3 DEF SettingKeys
<1>5. r = [k \in SettingKeys |-> r[k]]
  BY <1>3
<1>. QED  BY <1>1, <1>4, <1>5 DEF IsSettings

(* What the dialog applies, and what is captured at the end. *)
LEMMA AppliedFacts ==
    ASSUME IsSettings(settings), IsDialog(settingsDialog), ApplySettings
    PROVE  /\ IsSettings(settings') /\ settings'.columns = settings.columns
           /\ settings'.themeId = settingsDialog.themes[settingsDialog.theme]
<1>1. PICK themeId, font, interval, hist :
        /\ themeId = settingsDialog.themes[settingsDialog.theme] /\ font = settingsDialog.font
        /\ interval = settingsDialog.interval /\ hist = settingsDialog.history
  OBVIOUS
<1>2. /\ font \in 1..FontCount /\ interval \in RefreshRates /\ hist \in Histories
  BY <1>1 DEF IsDialog
<1>3. settings' = [settings EXCEPT !.themeId = themeId, !.fontSize = font,
                                   !.interval = interval, !.history = hist]
  BY <1>1 DEF ApplySettings
<1>4. settings = [k \in SettingKeys |-> settings[k]]
  BY DEF IsSettings
<1>5. settings' = [k \in SettingKeys |->
             IF k = "history" THEN hist ELSE IF k = "interval" THEN interval
             ELSE IF k = "fontSize" THEN font ELSE IF k = "themeId" THEN themeId ELSE settings[k]]
  BY <1>3, <1>4 DEF SettingKeys
<1>6. PICK r : r = settings'
  OBVIOUS
<1>7. /\ r.columns = settings.columns /\ r.interval = interval /\ r.history = hist
      /\ r.size = settings.size /\ r.fontSize = font /\ r.pos = settings.pos
      /\ r.themeId = themeId
  BY <1>5, <1>6 DEF SettingKeys
<1>8. r = [k \in SettingKeys |-> r[k]]
  BY <1>5, <1>6
<1>9. interval \in MinInterval..MaxInterval /\ hist \in MinHistory..MaxHistory
  BY <1>2, AppAssumption
<1>. QED  BY <1>1, <1>2, <1>6, <1>7, <1>8, <1>9 DEF IsSettings

LEMMA CapturedFacts ==
    ASSUME IsSettings(settings)
    PROVE  /\ Captured.interval = settings.interval /\ Captured.history = settings.history
           /\ Captured.columns = settings.columns
           /\ Captured.themeId = CurrentThemeId(theme) /\ Captured.fontSize = theme.font
           /\ Captured.size = window.size /\ Captured.pos = window.pos
           /\ Captured.maximized = window.maximized
<1>1. settings = [k \in SettingKeys |-> settings[k]]
  BY DEF IsSettings
<1>2. PICK c : c = CaptureFromApplication(settings, theme)
  OBVIOUS
<1>3. c = [k \in SettingKeys |->
             IF k = "fontSize" THEN theme.font ELSE IF k = "themeId" THEN CurrentThemeId(theme)
             ELSE settings[k]]
  BY <1>1, <1>2 DEF CaptureFromApplication, SettingKeys
<1>4. Captured = [k \in SettingKeys |->
             IF k = "maximized" THEN window.maximized ELSE IF k = "pos" THEN window.pos
             ELSE IF k = "size" THEN window.size ELSE c[k]]
  BY <1>2, <1>3 DEF Captured, SettingKeys
<1>. QED  BY <1>3, <1>4 DEF SettingKeys

LEMMA NewWindowType ==
    ASSUME NEW l, IsSettings(l)
    PROVE  IsWindow(NewWindow(l))
<1>1. ClampTo(MinSize, MaxSize, l.size) \in 0..IntMax
  <2>1. l.size \in MinSize..MaxSize
    BY DEF IsSettings
  <2>. QED  BY <2>1, Bounds DEF ClampTo
<1>2. IsPlace(0)
  BY Bounds DEF IsPlace, IsSane
<1>3. l.pos = NoPos \/ IsPlace(l.pos)
  BY DEF IsSettings
<1>. QED  BY <1>1, <1>2, <1>3 DEF NewWindow, IsWindow

LEMMA SettingsFile ==
    ASSUME NEW s, s.interval \in MinInterval..MaxInterval, s.history \in MinHistory..MaxHistory,
           s.size \in 0..IntMax, s.pos = NoPos \/ IsPlace(s.pos),
           IsFile(file), NEW f \in AfterSave(s, file)
    PROVE  IsFile(f)
<1>1. s.interval \in Int /\ s.history \in Int /\ s.size \in Int /\ (s.pos = NoPos \/ s.pos \in Int)
  BY Bounds DEF IsPlace
<1>2. IsFile(Saved(s))
  BY <1>1, SavedType
<1>3. IsFile(<<>>)
  BY DEF IsFile
<1>. QED  BY <1>2, <1>3 DEF AfterSave

LEMMA EndedType ==
    ASSUME Ended
    PROVE  /\ pc' = "down" /\ IsTheme(theme)' /\ IsSettings(settings)' /\ IsPanel(panel)'
           /\ IsDialog(settingsDialog)' /\ IsWindow(window)'
<1>1. IsTheme(theme')
  BY NewThemeFacts DEF Ended
<1>2. IsSettings(settings') /\ IsPanel(panel') /\ IsDialog(settingsDialog') /\ IsWindow(window')
  BY DefaultsType DEF Ended
<1>. QED  BY <1>1, <1>2 DEF Ended

(* Applying the dialog's options. *)
LEMMA ApplyType ==
    ASSUME IsTheme(theme), IsSettings(settings), IsFile(file), IsDialog(settingsDialog), ApplySettings
    PROVE  /\ IsTheme(theme') /\ IsSettings(settings') /\ IsFile(file')
           /\ theme'.ids = theme.ids
           /\ settings'.columns = settings.columns
           /\ \/ settings'.themeId = settings.themeId /\ Chosen(theme') = Chosen(theme)
              \/ Listed(theme.ids, settings'.themeId) => Chosen(theme') = settings'.themeId
<1>1. PICK id : id = settingsDialog.themes[settingsDialog.theme]
  OBVIOUS
<1>2. PICK font : font = settingsDialog.font
  OBVIOUS
<1>3. /\ font \in 1..FontCount /\ settingsDialog.interval \in RefreshRates
      /\ settingsDialog.history \in Histories
  BY <1>2 DEF IsDialog
<1>4. PICK t : t = IF id # settings.themeId THEN SetThemeById(id, theme) ELSE theme
  OBVIOUS
<1>5. /\ IsTheme(t) /\ t.ids = theme.ids
      /\ \/ id = settings.themeId /\ t = theme
         \/ Listed(theme.ids, id) => Chosen(t) = id
  BY <1>4, SetThemeFacts
<1>6. theme' = IF font # settings.fontSize THEN SetFontSize(font, t) ELSE t
  BY <1>1, <1>2, <1>4 DEF ApplySettings
<1>7. IsTheme(theme') /\ theme'.ids = t.ids /\ Chosen(theme') = Chosen(t)
  <2>1. PICK u : u = SetFontSize(font, t)
    OBVIOUS
  <2>2. IsTheme(u) /\ u.ids = t.ids /\ u.current = t.current /\ u.pending = t.pending
    BY <1>3, <1>5, <2>1, FontFacts
  <2>3. Chosen(u) = Chosen(t)
    BY <2>2 DEF Chosen, CurrentThemeId
  <2>. QED  BY <1>5, <1>6, <2>1, <2>2, <2>3
<1>9. IsSettings(settings') /\ settings'.columns = settings.columns /\ settings'.themeId = id
  BY <1>1, AppliedFacts
<1>10. file' \in AfterSave(settings', file)
  BY DEF ApplySettings
<1>11. settings'.size \in 0..IntMax
  BY <1>9, Bounds DEF IsSettings
<1>12. IsFile(file')
  BY <1>9, <1>10, <1>11, SettingsFile DEF IsSettings
<1>. QED  BY <1>5, <1>7, <1>9, <1>12

LEMMA AppTypeStep == ASSUME AppTypeInv, AppNext PROVE AppTypeInv'
<1>1. CASE Start
  <2>1. PICK l : l = Load(DefaultSettings, file)
    OBVIOUS
  <2>2. IsSettings(l)
    BY <2>1, LoadType DEF AppTypeInv
  <2>3. /\ settings' = l /\ theme' = AttachedTheme(l) /\ window' = NewWindow(l)
        /\ panel' = [interval |-> l.interval, history |-> l.history, columns |-> l.columns]
    BY <1>1, <2>1 DEF Start
  <2>4. IsTheme(theme')
    BY <2>2, <2>3, AttachedFacts DEF AppTypeInv, IsSettings
  <2>5. IsWindow(window')
    BY <2>2, <2>3, NewWindowType
  <2>6. IsPanel(panel')
    BY <2>2, <2>3 DEF IsSettings, IsPanel
  <2>. QED  BY <1>1, <2>2, <2>3, <2>4, <2>5, <2>6 DEF Start, AppTypeInv
<1>2. CASE Poll
  <2>1. IsWindow(window')
    <3>1. CASE window' = window
      BY <3>1 DEF AppTypeInv
    <3>2. ASSUME NEW size \in WindowSizes, NEW pos \in Places, NEW maximized \in BOOLEAN,
                 window' = [size |-> size, pos |-> pos, maximized |-> maximized]
          PROVE  IsWindow(window')
      <4>1. size \in 0..IntMax /\ pos \in -FarthestPos..FarthestPos
        BY AppAssumption
      <4>2. IsPlace(pos)
        BY <4>1, Bounds DEF IsPlace, IsSane
      <4>. QED  BY <3>2, <4>1, <4>2 DEF IsWindow
    <3>. QED  BY <1>2, <3>1, <3>2 DEF Poll
  <2>. QED  BY <1>2, <2>1 DEF Poll, AppTypeInv
<1>3. CASE Update
  <2>1. theme.font \in 1..FontCount /\ FontCount \in Nat /\ IsTheme(theme)
    BY FontCountIs DEF AppTypeInv, IsTheme
  <2>2. IsTheme(IncreaseFontSize(theme))
    <3>1. theme.font < FontCount => theme.font + 1 \in 1..FontCount
      BY <2>1
    <3>. QED  BY <2>1, <3>1, FontFacts DEF IncreaseFontSize
  <2>3. IsTheme(DecreaseFontSize(theme))
    <3>1. theme.font > 1 => theme.font - 1 \in 1..FontCount
      BY <2>1
    <3>. QED  BY <2>1, <3>1, FontFacts DEF DecreaseFontSize
  <2>. QED  BY <1>3, <2>1, <2>2, <2>3 DEF Update, AppTypeInv
<1>4. CASE BeginFrame
  BY <1>4, PendingFacts DEF BeginFrame, AppTypeInv
<1>5. CASE RenderShell
  <2>1. IsDialog(settingsDialog')
    <3>1. CASE settingsDialog' = settingsDialog
      BY <3>1 DEF AppTypeInv
    <3>2. CASE RequestOpen
      <4>1. PICK d : d = CurrentSettings
        OBVIOUS
      <4>2. PICK i : d = [requested |-> settingsDialog.requested, open |-> settingsDialog.open,
                          themes |-> theme.ids, theme |-> i, font |-> settings.fontSize,
                          interval |-> IF settings.interval \in RefreshRates THEN settings.interval
                                       ELSE DefaultInterval,
                          history |-> IF settings.history \in Histories THEN settings.history
                                      ELSE DefaultHistory]
        BY <4>1 DEF CurrentSettings
      <4>3. settingsDialog' = [d EXCEPT !.requested = TRUE]
        BY <3>2, <4>1 DEF RequestOpen
      <4>4. settings.fontSize \in 1..FontCount /\ DefaultInterval \in RefreshRates
            /\ DefaultHistory \in Histories
        BY AppAssumption DEF AppTypeInv, IsSettings
      <4>5. settingsDialog' = [requested |-> TRUE, open |-> d.open, themes |-> d.themes,
                               theme |-> d.theme, font |-> d.font, interval |-> d.interval,
                               history |-> d.history]
        BY <4>2, <4>3
      <4>6. d.font \in 1..FontCount /\ d.interval \in RefreshRates /\ d.history \in Histories
        BY <4>2, <4>4
      <4>. QED  BY <4>5, <4>6 DEF IsDialog
    <3>. QED  BY <1>5, <3>1, <3>2 DEF RenderShell
  <2>2. IsPanel(panel') /\ IsSettings(settings')
    <3>1. CASE UNCHANGED <<table, panel, settings>>
      BY <3>1 DEF AppTypeInv
    <3>2. ASSUME NEW toggled, DrawTable(toggled) PROVE IsPanel(panel') /\ IsSettings(settings')
      <4>1. PICK enabled : /\ panel' = [panel EXCEPT !.columns = enabled]
                           /\ \/ settings' = settings
                              \/ settings' = [settings EXCEPT !.columns = enabled]
        BY <3>2 DEF DrawTable
      <4>2. panel' = [interval |-> panel.interval, history |-> panel.history, columns |-> enabled]
        BY <4>1 DEF AppTypeInv, IsPanel
      <4>3. IsPanel(panel')
        BY <4>2 DEF AppTypeInv, IsPanel
      <4>. QED  BY <4>1, <4>3, ColumnsFacts DEF AppTypeInv
    <3>. QED  BY <1>5, <3>1, <3>2 DEF RenderShell
  <2>. QED  BY <1>5, <2>1, <2>2 DEF RenderShell, AppTypeInv
<1>6. CASE RenderSettings
  <2>1. PICK d : d = [settingsDialog EXCEPT !.requested = FALSE, !.open = TRUE]
    OBVIOUS
  <2>2. d = [requested |-> FALSE, open |-> TRUE, themes |-> settingsDialog.themes,
             theme |-> settingsDialog.theme, font |-> settingsDialog.font,
             interval |-> settingsDialog.interval, history |-> settingsDialog.history]
    <3>1. settingsDialog = [requested |-> settingsDialog.requested, open |-> settingsDialog.open,
             themes |-> settingsDialog.themes, theme |-> settingsDialog.theme,
             font |-> settingsDialog.font, interval |-> settingsDialog.interval,
             history |-> settingsDialog.history]
      BY DEF AppTypeInv, IsDialog
    <3>. QED  BY <2>1, <3>1
  <2>3. IsDialog(d)
    BY <2>2 DEF AppTypeInv, IsDialog
  <2>4. IsDialog(settingsDialog')
    <3>1. \/ settingsDialog' \in {settingsDialog, d, ClosedSettings}
          \/ \E i \in DOMAIN settingsDialog.themes : settingsDialog' = [d EXCEPT !.theme = i]
          \/ \E size \in 1..FontCount : settingsDialog' = [d EXCEPT !.font = size]
          \/ \E ms \in RefreshRates : settingsDialog' = [d EXCEPT !.interval = ms]
          \/ \E s \in Histories : settingsDialog' = [d EXCEPT !.history = s]
      BY <1>6, <2>1 DEF RenderSettings
    <3>2. CASE settingsDialog' \in {settingsDialog, d, ClosedSettings}
      BY <2>3, <3>2, DefaultsType DEF AppTypeInv
    <3>3. ASSUME NEW i, settingsDialog' = [d EXCEPT !.theme = i] PROVE IsDialog(settingsDialog')
      BY <2>2, <2>3, <3>3 DEF IsDialog
    <3>4. ASSUME NEW size \in 1..FontCount, settingsDialog' = [d EXCEPT !.font = size]
          PROVE  IsDialog(settingsDialog')
      BY <2>2, <2>3, <3>4 DEF IsDialog
    <3>5. ASSUME NEW ms \in RefreshRates, settingsDialog' = [d EXCEPT !.interval = ms]
          PROVE  IsDialog(settingsDialog')
      BY <2>2, <2>3, <3>5 DEF IsDialog
    <3>6. ASSUME NEW s \in Histories, settingsDialog' = [d EXCEPT !.history = s]
          PROVE  IsDialog(settingsDialog')
      BY <2>2, <2>3, <3>6 DEF IsDialog
    <3>. QED  BY <3>1, <3>2, <3>3, <3>4, <3>5, <3>6
  <2>5. IsTheme(theme') /\ IsSettings(settings') /\ IsFile(file')
    <3>1. CASE UNCHANGED <<theme, settings, file>>
      BY <3>1 DEF AppTypeInv
    <3>2. CASE ApplySettings
      BY <3>2, ApplyType DEF AppTypeInv
    <3>. QED  BY <1>6, <3>1, <3>2 DEF RenderSettings
  <2>. QED  BY <1>6, <2>4, <2>5 DEF RenderSettings, AppTypeInv
<1>7. CASE Close
  <2>1. /\ IsSettings(settings) /\ IsFile(file) /\ IsWindow(window)
    BY DEF AppTypeInv
  <2>2. /\ Captured.interval \in MinInterval..MaxInterval
        /\ Captured.history \in MinHistory..MaxHistory
        /\ Captured.size \in 0..IntMax /\ IsPlace(Captured.pos)
    BY <2>1, CapturedFacts DEF IsSettings, IsWindow
  <2>3. IsFile(file')
    BY <1>7, <2>1, <2>2, SettingsFile DEF Close
  <2>. QED  BY <1>7, <2>3, EndedType DEF Close, AppTypeInv
<1>8. CASE Crash
  BY <1>8, EndedType DEF Crash, AppTypeInv
<1>9. CASE EditConfig
  <2>1. IsFile(file')
    BY <1>9, AppAssumption DEF EditConfig, IsFile, Numbers
  <2>. QED  BY <1>9, <2>1 DEF EditConfig, AppTypeInv
<1>10. CASE EditThemes
  BY <1>10 DEF EditThemes, AppTypeInv
<1>. QED  BY <1>1, <1>2, <1>3, <1>4, <1>5, <1>6, <1>7, <1>8, <1>9, <1>10 DEF AppNext

(* What a step of the shell does to the settings and the panel. *)
LEMMA ShellFacts ==
    ASSUME AppTypeInv, ColumnsInv, RenderShell
    PROVE  /\ settings'.themeId = settings.themeId
           /\ settings'.columns = panel'.columns
           /\ table'.drawn => table'.enabled = panel'.columns
<1>1. ASSUME NEW toggled, DrawTable(toggled)
      PROVE  /\ settings'.themeId = settings.themeId /\ settings'.columns = panel'.columns
             /\ table'.enabled = panel'.columns
  <2>1. PICK enabled : /\ panel' = [panel EXCEPT !.columns = enabled]
                       /\ settings' = IF enabled = panel.columns THEN settings
                                      ELSE [settings EXCEPT !.columns = enabled]
                       /\ table'.enabled = enabled
    BY <1>1 DEF DrawTable
  <2>2. panel'.columns = enabled
    BY <2>1 DEF AppTypeInv, IsPanel
  <2>3. CASE enabled = panel.columns
    BY <2>1, <2>2, <2>3 DEF ColumnsInv
  <2>4. CASE enabled # panel.columns
    BY <2>1, <2>2, <2>4, ColumnsFacts DEF AppTypeInv
  <2>. QED  BY <2>1, <2>2, <2>3, <2>4
<1>2. CASE UNCHANGED <<table, panel, settings>>
  BY <1>2 DEF ColumnsInv
<1>. QED  BY <1>1, <1>2 DEF RenderShell

LEMMA ColumnsStep == ASSUME AppTypeInv, ColumnsInv, AppNext PROVE ColumnsInv'
<1>1. CASE Start
  BY <1>1 DEF Start, ColumnsInv
<1>2. CASE RenderShell
  <2>1. pc' # "down"
    BY <1>2 DEF RenderShell
  <2>. QED  BY <1>2, <2>1, ShellFacts DEF ColumnsInv
<1>3. CASE RenderSettings
  <2>1. settings'.columns = settings.columns
    <3>1. CASE ApplySettings
      BY <3>1, ApplyType DEF AppTypeInv
    <3>. QED  BY <1>3, <3>1 DEF RenderSettings
  <2>. QED  BY <1>3, <2>1 DEF RenderSettings, ColumnsInv
<1>4. CASE Close \/ Crash
  BY <1>4 DEF Close, Crash, Ended, NoTable, NoPanel, DefaultSettings, ColumnsInv
<1>5. CASE Poll \/ Update \/ BeginFrame \/ EditConfig \/ EditThemes
  BY <1>5 DEF Poll, Update, BeginFrame, EditConfig, EditThemes, ColumnsInv
<1>. QED  BY <1>1, <1>2, <1>3, <1>4, <1>5 DEF AppNext

LEMMA ThemeStep == ASSUME AppTypeInv, ColumnsInv, ThemeInv, AppNext PROVE ThemeInv'
<1>1. CASE Start
  <2>1. PICK l : l = Load(DefaultSettings, file)
    OBVIOUS
  <2>2. l.fontSize \in 1..FontCount
    BY <2>1, LoadType DEF AppTypeInv, IsSettings
  <2>3. settings' = l /\ theme' = AttachedTheme(l) /\ pc' = "poll"
    BY <1>1, <2>1 DEF Start
  <2>. QED  BY <2>2, <2>3, AttachedFacts DEF AppTypeInv, ThemeInv
<1>2. CASE Update
  <2>1. /\ theme'.ids = theme.ids /\ theme'.current = theme.current /\ theme'.pending = theme.pending
    <3>1. theme.font \in 1..FontCount /\ FontCount \in Nat /\ IsTheme(theme)
      BY FontCountIs DEF AppTypeInv, IsTheme
    <3>2. theme' \in {theme} \cup {SetFontSize(size, theme) : size \in 1..FontCount}
      <4>1. /\ theme.font < FontCount => theme.font + 1 \in 1..FontCount
            /\ theme.font > 1 => theme.font - 1 \in 1..FontCount
        BY <3>1
      <4>. QED  BY <1>2, <4>1 DEF Update, IncreaseFontSize, DecreaseFontSize
    <3>. QED  BY <3>1, <3>2, FontFacts
  <2>2. Chosen(theme') = Chosen(theme)
    BY <2>1 DEF Chosen, CurrentThemeId
  <2>. QED  BY <1>2, <2>1, <2>2 DEF Update, ThemeInv
<1>3. CASE BeginFrame
  <2>1. theme'.ids = theme.ids /\ theme'.pending = NoTheme /\ Chosen(theme') = Chosen(theme)
    BY <1>3, PendingFacts DEF BeginFrame, AppTypeInv
  <2>. QED  BY <1>3, <2>1 DEF BeginFrame, ThemeInv
<1>4. CASE RenderShell
  <2>1. settings'.themeId = settings.themeId
    BY <1>4, ShellFacts
  <2>. QED  BY <1>4, <2>1 DEF RenderShell, ThemeInv
<1>5. CASE RenderSettings
  <2>1. CASE UNCHANGED <<theme, settings, file>>
    BY <1>5, <2>1 DEF RenderSettings, ThemeInv
  <2>2. CASE ApplySettings
    <3>1. /\ theme'.ids = theme.ids
          /\ \/ settings'.themeId = settings.themeId /\ Chosen(theme') = Chosen(theme)
             \/ Listed(theme.ids, settings'.themeId) => Chosen(theme') = settings'.themeId
      BY <2>2, ApplyType DEF AppTypeInv
    <3>2. pc' = "poll" /\ pc # "down"
      BY <1>5 DEF RenderSettings
    <3>. QED  BY <3>1, <3>2 DEF ThemeInv
  <2>. QED  BY <1>5, <2>1, <2>2 DEF RenderSettings
<1>6. CASE Close \/ Crash
  BY <1>6 DEF Close, Crash, Ended, ThemeInv
<1>7. CASE Poll \/ EditConfig \/ EditThemes
  BY <1>7 DEF Poll, EditConfig, EditThemes, ThemeInv
<1>. QED  BY <1>1, <1>2, <1>3, <1>4, <1>5, <1>6, <1>7 DEF AppNext

(* What load() makes of what was captured and saved. *)
LEMMA Reloaded ==
    ASSUME AppTypeInv, ColumnsInv
    PROVE  LET l == Load(DefaultSettings, Saved(Captured))
           IN  /\ l.interval = settings.interval /\ l.history = settings.history
               /\ l.columns = panel.columns /\ l.themeId = CurrentThemeId(theme)
               /\ l.fontSize = theme.font /\ l.maximized = window.maximized
               /\ l.pos = window.pos /\ l.size = ClampTo(MinSize, MaxSize, window.size)
<1>1. PICK c : c = Captured
  OBVIOUS
<1>2. PICK f : f = Saved(c)
  OBVIOUS
<1>3. PICK l : l = Load(DefaultSettings, f)
  OBVIOUS
<1>4. IsSettings(settings) /\ IsWindow(window) /\ IsTheme(theme)
  BY DEF AppTypeInv
<1>5. /\ c.interval = settings.interval /\ c.history = settings.history
      /\ c.columns = settings.columns /\ c.themeId = CurrentThemeId(theme)
      /\ c.fontSize = theme.font /\ c.size = window.size /\ c.pos = window.pos
      /\ c.maximized = window.maximized
  BY <1>1, <1>4, CapturedFacts
<1>6. window.size \in 0..IntMax /\ IsPlace(window.pos) /\ c.pos # NoPos
  BY <1>4, <1>5, Bounds DEF IsWindow, IsPlace
<1>7. /\ DOMAIN f = SettingKeys
      /\ f["interval"] = ClampTo(MinInterval, MaxInterval, c.interval)
      /\ f["history"] = ClampTo(MinHistory, MaxHistory, c.history)
      /\ f["pos"] = c.pos
      /\ \A k \in SettingKeys \ {"interval", "history", "pos"} : f[k] = c[k]
  BY <1>2, <1>6, SavedFields
<1>8. f["interval"] = c.interval /\ f["history"] = c.history
  <2>1. c.interval \in MinInterval..MaxInterval /\ c.history \in MinHistory..MaxHistory
    BY <1>4, <1>5 DEF IsSettings
  <2>2. ASSUME NEW v \in MinInterval..MaxInterval PROVE ClampTo(MinInterval, MaxInterval, v) = v
    BY Bounds DEF ClampTo
  <2>3. ASSUME NEW v \in MinHistory..MaxHistory PROVE ClampTo(MinHistory, MaxHistory, v) = v
    BY Bounds DEF ClampTo
  <2>. QED  BY <1>7, <2>1, <2>2, <2>3
<1>9. /\ f["themeId"] = c.themeId /\ f["columns"] = c.columns /\ f["maximized"] = c.maximized
      /\ f["size"] = c.size /\ f["fontSize"] = c.fontSize
  BY <1>7 DEF SettingKeys
<1>10. /\ l.themeId = f["themeId"] /\ l.columns = f["columns"] /\ l.maximized = f["maximized"]
       /\ f["fontSize"] \in 1..FontCount => l.fontSize = f["fontSize"]
  BY <1>3, <1>7, LoadFields DEF SettingKeys
<1>11. l.interval = c.interval
  <2>1. ASSUME NEW v \in MinInterval..MaxInterval
        PROVE  ClampTo(MinInterval, MaxInterval, NarrowOr(v, DefaultInterval)) = v
    BY Bounds DEF NarrowOr, ClampTo
  <2>2. l.interval = ClampTo(MinInterval, MaxInterval, NarrowOr(f["interval"], DefaultInterval))
    BY <1>3, <1>7, LoadFields DEF SettingKeys
  <2>3. c.interval \in MinInterval..MaxInterval
    BY <1>4, <1>5 DEF IsSettings
  <2>. QED  BY <1>8, <2>1, <2>2, <2>3
<1>12. l.history = c.history
  <2>1. ASSUME NEW v \in MinHistory..MaxHistory
        PROVE  ClampTo(MinHistory, MaxHistory, NarrowOr(v, DefaultHistory)) = v
    BY Bounds DEF NarrowOr, ClampTo
  <2>2. l.history = ClampTo(MinHistory, MaxHistory, NarrowOr(f["history"], DefaultHistory))
    BY <1>3, <1>7, LoadFields DEF SettingKeys
  <2>3. c.history \in MinHistory..MaxHistory
    BY <1>4, <1>5 DEF IsSettings
  <2>. QED  BY <1>8, <2>1, <2>2, <2>3
<1>13. l.size = ClampTo(MinSize, MaxSize, window.size)
  <2>1. ASSUME NEW v \in 0..IntMax PROVE NarrowOr(v, 600) = v
    BY Bounds DEF NarrowOr
  <2>2. l.size = ClampTo(MinSize, MaxSize, NarrowOr(f["size"], 600))
    BY <1>3, <1>7, LoadFields DEF SettingKeys
  <2>. QED  BY <1>5, <1>6, <1>9, <2>1, <2>2
<1>14. l.pos = window.pos
  <2>1. ASSUME NEW v, IsPlace(v) PROVE NarrowOr(v, 100) = v /\ IsSane(v)
    BY <2>1, Bounds DEF NarrowOr, IsPlace
  <2>2. l.pos = IF IsSane(NarrowOr(f["pos"], 100)) THEN NarrowOr(f["pos"], 100) ELSE NoPos
    BY <1>3, <1>7, LoadFields DEF SettingKeys
  <2>. QED  BY <1>5, <1>6, <1>7, <2>1, <2>2
<1>15. l.fontSize = theme.font
  BY <1>4, <1>5, <1>9, <1>10 DEF IsTheme
<1>16. c.columns = panel.columns
  BY <1>5 DEF ColumnsInv
<1>. QED  BY <1>1, <1>2, <1>3, <1>5, <1>9, <1>10, <1>11, <1>12, <1>13, <1>14, <1>15, <1>16

(* What was saved when the program was closed shows what was seen last. *)
LEMMA SavedShows ==
    ASSUME AppTypeInv, ColumnsInv, theme.ids = AttachThemes(NewTheme).ids, theme.pending = NoTheme
    PROVE  Shown(Saved(Captured)) = LastSeen
<1>1. PICK l : l = Load(DefaultSettings, Saved(Captured))
  OBVIOUS
<1>2. /\ l.interval = settings.interval /\ l.history = settings.history
      /\ l.columns = panel.columns /\ l.themeId = CurrentThemeId(theme)
      /\ l.fontSize = theme.font /\ l.maximized = window.maximized
      /\ l.pos = window.pos /\ l.size = ClampTo(MinSize, MaxSize, window.size)
  BY <1>1, Reloaded
<1>3. IsTheme(theme) /\ IsWindow(window) /\ userThemes \in UserThemeDirs
  BY DEF AppTypeInv
<1>4. PICK t : t = AttachedTheme(l)
  OBVIOUS
<1>5. t.font = theme.font /\ Chosen(t) = CurrentThemeId(theme)
  <2>1. Listed(theme.ids, l.themeId)
    BY <1>2, <1>3 DEF Listed, IsTheme, CurrentThemeId
  <2>2. l.fontSize \in 1..FontCount
    BY <1>2, <1>3 DEF IsTheme
  <2>. QED  BY <1>2, <1>3, <1>4, <2>1, <2>2, AttachedFacts
<1>6. PICK w : w = NewWindow(l)
  OBVIOUS
<1>7. /\ w.size = ClampTo(MinSize, MaxSize, window.size) /\ w.pos = window.pos
      /\ w.maximized = window.maximized
  <2>1. ASSUME NEW v \in Int
        PROVE  ClampTo(MinSize, MaxSize, ClampTo(MinSize, MaxSize, v)) = ClampTo(MinSize, MaxSize, v)
    BY Bounds DEF ClampTo
  <2>2. window.size \in Int /\ window.pos # NoPos
    BY <1>3, Bounds DEF IsWindow, IsPlace
  <2>. QED  BY <1>2, <1>6, <2>1, <2>2 DEF NewWindow
<1>8. Shown(Saved(Captured)) =
        [theme |-> Chosen(t), font |-> t.font, interval |-> l.interval, history |-> l.history,
         columns |-> l.columns, size |-> w.size, pos |-> w.pos, maximized |-> w.maximized]
  BY <1>1, <1>4, <1>6 DEF Shown, InForce, Chosen
<1>9. PICK v : v = [window EXCEPT !.size = ClampTo(MinSize, MaxSize, window.size)]
  OBVIOUS
<1>10. /\ v.size = ClampTo(MinSize, MaxSize, window.size) /\ v.pos = window.pos
       /\ v.maximized = window.maximized
  BY <1>3, <1>9 DEF IsWindow
<1>11. LastSeen =
        [theme |-> CurrentThemeId(theme), font |-> theme.font, interval |-> settings.interval,
         history |-> settings.history, columns |-> panel.columns, size |-> v.size, pos |-> v.pos,
         maximized |-> v.maximized]
  <2>1. (IF table.drawn THEN table.enabled ELSE panel.columns) = panel.columns
    BY DEF ColumnsInv
  <2>. QED  BY <1>9, <2>1 DEF LastSeen, InForce
<1>. QED  BY <1>2, <1>5, <1>7, <1>8, <1>10, <1>11

(* While the program runs, the schemes found at the start stay. *)
LEMMA ThemesStay ==
    ASSUME AppTypeInv, Poll \/ Update \/ BeginFrame \/ RenderShell \/ RenderSettings \/ EditConfig
    PROVE  theme'.ids = theme.ids
<1>1. CASE Update
  <2>1. IsTheme(theme) /\ theme.font \in 1..FontCount /\ FontCount \in Nat
    BY FontCountIs DEF AppTypeInv, IsTheme
  <2>2. /\ theme.font < FontCount => theme.font + 1 \in 1..FontCount
        /\ theme.font > 1 => theme.font - 1 \in 1..FontCount
    BY <2>1
  <2>3. theme' \in {theme} \cup {SetFontSize(size, theme) : size \in 1..FontCount}
    BY <1>1, <2>2 DEF Update, IncreaseFontSize, DecreaseFontSize
  <2>. QED  BY <2>1, <2>3, FontFacts
<1>2. CASE BeginFrame
  BY <1>2, PendingFacts DEF BeginFrame, AppTypeInv
<1>3. CASE RenderSettings
  <2>1. CASE ApplySettings
    BY <2>1, ApplyType DEF AppTypeInv
  <2>. QED  BY <1>3, <2>1 DEF RenderSettings
<1>4. CASE Poll \/ RenderShell \/ EditConfig
  BY <1>4 DEF Poll, RenderShell, EditConfig
<1>. QED  BY <1>1, <1>2, <1>3, <1>4

LEMMA RestartStep ==
    ASSUME AppTypeInv, ColumnsInv, RestartInv, AppNext
    PROVE  RestartInv'
<1>1. CASE Start
  <2>1. PICK l : l = Load(DefaultSettings, file)
    OBVIOUS
  <2>2. /\ theme' = AttachedTheme(l) /\ window' = NewWindow(l) /\ pc = "down" /\ pc' = "poll"
        /\ panel' = [interval |-> l.interval, history |-> l.history, columns |-> l.columns]
        /\ atClose' = atClose /\ userThemes' = userThemes
    BY <1>1, <2>1 DEF Start, appHistory
  <2>3. l.fontSize \in 1..FontCount
    BY <2>1, LoadType DEF AppTypeInv, IsSettings
  <2>4. theme'.ids = AttachThemes(NewTheme).ids
    BY <2>2, <2>3, AttachedFacts DEF AppTypeInv
  <2>5. AttachThemes(NewTheme)' = AttachThemes(NewTheme)
    BY <2>2 DEF AttachThemes, NewTheme
  <2>6. Shown(file) = InForce(theme', panel', window')
    BY <2>1, <2>2 DEF Shown
  <2>. QED  BY <2>2, <2>4, <2>5, <2>6 DEF RestartInv
<1>2. CASE Close
  <2>1. pc = "poll" /\ pc' = "down" /\ userThemes' = userThemes
    BY <1>2 DEF Close, Ended
  <2>2. theme.pending = NoTheme => Shown(Saved(Captured)) = LastSeen
    BY <2>1, SavedShows DEF RestartInv
  <2>3. atClose' # NoPrefs => file' = Saved(Captured) /\ theme.pending = NoTheme /\ atClose' = LastSeen
    BY <1>2 DEF Close
  <2>4. atClose' # NoPrefs => Shown(file') = atClose'
    BY <2>2, <2>3
  <2>5. Shown(file)' = Shown(file')
    BY <2>1 DEF Shown, AttachedTheme, AttachThemes
  <2>. QED  BY <2>1, <2>4, <2>5 DEF RestartInv
<1>3. CASE Crash \/ EditThemes
  BY <1>3 DEF Crash, Ended, EditThemes, RestartInv
<1>4. CASE Poll \/ Update \/ BeginFrame \/ RenderShell \/ RenderSettings \/ EditConfig
  <2>1. /\ userThemes' = userThemes /\ (pc' # "down" => pc # "down")
        /\ atClose' = NoPrefs \/ (atClose' = atClose /\ pc \notin {"down", "poll"})
    BY <1>4 DEF Poll, Update, BeginFrame, RenderShell, RenderSettings, EditConfig, appHistory
  <2>2. atClose' = NoPrefs
    BY <2>1 DEF RestartInv
  <2>3. pc # "down" => theme'.ids = theme.ids
    BY <1>4, ThemesStay
  <2>4. AttachThemes(NewTheme)' = AttachThemes(NewTheme)
    BY <2>1 DEF AttachThemes, NewTheme
  <2>. QED  BY <2>1, <2>2, <2>3, <2>4 DEF RestartInv
<1>. QED  BY <1>1, <1>2, <1>3, <1>4 DEF AppNext

-----------------------------------------------------------------------------
(* The whole.                                                                *)

LEMMA AppInvInit == AppInit => AppTypeInv /\ ColumnsInv /\ ThemeInv /\ RestartInv
<1> SUFFICES ASSUME AppInit PROVE AppTypeInv /\ ColumnsInv /\ ThemeInv /\ RestartInv
  OBVIOUS
<1>1. IsFile(file)
  BY DEF AppInit, IsFile, Numbers
<1>2. AppTypeInv
  BY <1>1, DefaultsType, NewThemeFacts DEF AppInit, AppTypeInv
<1>3. ColumnsInv
  BY DEF AppInit, ColumnsInv, DefaultSettings, NoPanel, NoTable
<1>4. ThemeInv /\ RestartInv
  BY DEF AppInit, ThemeInv, RestartInv
<1>. QED  BY <1>2, <1>3, <1>4

(* All of it together, over any number of runs of the program. *)
LEMMA AppInvariant == AppSpec => [](AppTypeInv /\ ColumnsInv /\ ThemeInv /\ RestartInv)
<1>1. ASSUME AppTypeInv, ColumnsInv, ThemeInv, RestartInv, [AppNext]_appVars
      PROVE  AppTypeInv' /\ ColumnsInv' /\ ThemeInv' /\ RestartInv'
  <2>1. CASE AppNext
    BY <1>1, <2>1, AppTypeStep, ColumnsStep, ThemeStep, RestartStep
  <2>2. CASE UNCHANGED appVars
    <3>1. AppTypeInv'
      BY <1>1, <2>2 DEF appVars, AppTypeInv
    <3>2. ColumnsInv' /\ ThemeInv'
      BY <1>1, <2>2 DEF appVars, ColumnsInv, ThemeInv
    <3>3. RestartInv'
      BY <1>1, <2>2 DEF appVars, RestartInv, Shown, AttachedTheme, AttachThemes
    <3>. QED  BY <3>1, <3>2, <3>3
  <2>. QED  BY <1>1, <2>1, <2>2
<1>. QED  BY <1>1, AppInvInit, PTL DEF AppSpec

(* What was in force when the program was closed is in force when it starts   *)
(* again, unless the save failed, the file was edited, the themes directory   *)
(* changed, or a theme was still queued when the program was closed.          *)
THEOREM RestartsKeep == AppSpec => []RestartKeeps
<1>1. RestartInv => RestartKeeps
  BY DEF RestartInv, RestartKeeps
<1>. QED  BY <1>1, AppInvariant, PTL

(* Once a frame has begun, the theme drawn is the one the settings name. *)
THEOREM ThemesInForce == AppSpec => []ThemeInForce
<1>1. ThemeInv => ThemeInForce
  BY DEF ThemeInv, ThemeInForce, Chosen
<1>. QED  BY <1>1, AppInvariant, PTL

(* Whatever is written in the config file, the interval, the history and the  *)
(* window's size that come from it are within their bounds.                   *)
THEOREM SettingsStayBounded == AppSpec => []SettingsBounded
<1>1. AppTypeInv => SettingsBounded
  BY DEF AppTypeInv, IsSettings, IsPanel, SettingsBounded
<1>. QED  BY <1>1, AppInvariant, PTL

------------------------------------------------------------------------------
(* Freshness.                                                              *)

\* The accumulator holds the time since the last refresh, but for what the
\* main loop cut and up to what was left over from the interval before.
FreshInv ==
    /\ clock \in Nat
    /\ accumulator \in Nat /\ accumulator < RefreshInterval
    /\ refreshed.at \in Nat /\ refreshed.cut \in Nat
    /\ clock - refreshed.at <= accumulator + refreshed.cut

LEMMA DeltaTimeFacts ==
    ASSUME NEW elapsed \in FrameTimes
    PROVE  /\ elapsed \in Nat /\ DeltaTime(elapsed) \in Nat
           /\ DeltaTime(elapsed) <= elapsed
  BY ProcessDetailsAssumption DEF DeltaTime

LEMMA FreshStep ==
    ASSUME FreshInv, [Next]_vars
    PROVE  FreshInv'
<1> USE DEF FreshInv
<1>1. ASSUME NEW elapsed \in FrameTimes, OnUpdate(elapsed) PROVE FreshInv'
  <2>1. PICK dt \in Nat : dt = DeltaTime(elapsed) /\ dt <= elapsed
    BY DeltaTimeFacts
  <2>2. elapsed \in Nat /\ clock' = clock + elapsed /\ RefreshList(dt, elapsed)
    BY <1>1, <2>1, DeltaTimeFacts DEF OnUpdate
  <2>3. RefreshInterval \in Nat /\ RefreshInterval >= 1
    BY ProcessDetailsAssumption
  <2>4. CASE accumulator + dt >= RefreshInterval
    <3>1. /\ accumulator' = (accumulator + dt) % RefreshInterval
          /\ refreshed' = [at |-> clock', cut |-> 0]
      BY <2>2, <2>4 DEF RefreshList
    <3>2. accumulator' \in Nat /\ accumulator' < RefreshInterval
      BY <2>3, <3>1
    <3>. QED  BY <2>2, <3>1, <3>2
  <2>5. CASE ~(accumulator + dt >= RefreshInterval)
    <3>1. /\ accumulator' = accumulator + dt
          /\ refreshed'.at = refreshed.at
          /\ refreshed'.cut = refreshed.cut + (elapsed - dt)
      BY <2>2, <2>5 DEF RefreshList
    <3>. QED  BY <2>1, <2>2, <2>3, <2>5, <3>1
  <2>. QED  BY <2>4, <2>5
<1>2. ASSUME UNCHANGED <<clock, list>> PROVE FreshInv'
  BY <1>2 DEF list
<1>3. (\E elapsed \in FrameTimes : OnUpdate(elapsed)) \/ UNCHANGED <<clock, list>>
  BY DEF Next, Exit, Reuse, Watch, OpenTab, Select, Ask, Answered, Yes, No,
         MoveSlider, Apply, InActions, world, vars
<1>. QED  BY <1>1, <1>2, <1>3

\* For every refresh interval and every sequence of frames, what is drawn is
\* older than the interval by no more than what the main loop cut.
THEOREM AlwaysFresh == Spec => []SnapshotsFresh
<1>1. Init => FreshInv
  BY ProcessDetailsAssumption DEF Init, FreshInv
<1>2. FreshInv /\ [Next]_vars => FreshInv'
  BY FreshStep
<1>3. FreshInv => SnapshotsFresh
  BY ProcessDetailsAssumption DEF FreshInv, SnapshotsFresh
<1>. QED  BY <1>1, <1>2, <1>3, PTL DEF Spec

------------------------------------------------------------------------------
(* System calls.                                                           *)

\* What can still lead to a system call was asked for, for this very pid; an
\* open dialog blocks the way to another selection.
RequestInv ==
    /\ phase = "render" => detailsPid = selected
    /\ popup \in BOOLEAN /\ dialog.show \in BOOLEAN /\ slider.changed \in BOOLEAN
    /\ popup => dialog.show /\ tab = "actions" /\ detailsPid = selected
    /\ dialog.show =>
         asked.signal = [pid |-> detailsPid, action |-> dialog.action, nice |-> 0]
    /\ slider.changed =>
         asked.nice = [pid |-> detailsPid, action |-> "setPriority",
                       nice |-> slider.nice]

CallAsAsked ==
    call' # call =>
        \/ call' = NoCall
        \/ call'.pid = selected /\ call' \in {asked.signal, asked.nice}

LEMMA RequestStep ==
    ASSUME RequestInv, [Next]_vars
    PROVE  RequestInv' /\ CallAsAsked
<1> USE DEF RequestInv, CallAsAsked
<1>1. ASSUME NEW elapsed \in FrameTimes, OnUpdate(elapsed)
      PROVE  RequestInv' /\ CallAsAsked
  <2>1. /\ phase' = "render" /\ phase = "update"
        /\ detailsPid' = selected
        /\ UNCHANGED <<selected, tab, popup>>
        /\ call' = NoCall
        /\ dialog' = Kept(dialog, ClosedDialog)
        /\ slider' = Kept(slider, AtRest)
        /\ asked' = Kept(asked, NoWish)
    BY <1>1 DEF OnUpdate, UpdateDetails
  <2>2. CASE selected = detailsPid
    BY <2>1, <2>2 DEF Kept
  <2>3. CASE selected # detailsPid
    BY <2>1, <2>3 DEF Kept, ClosedDialog, AtRest
  <2>. QED  BY <2>2, <2>3
<1>2. ASSUME NEW t, Draw(t), t = "actions" \/ ~popup, tab' = t,
             UNCHANGED <<detailsPid, selected, dialog, asked, call>>,
             phase = "render", phase' = "update"
      PROVE  RequestInv' /\ CallAsAsked
  <2>1. CASE t = "actions" /\ cached # NoSnapshot
    <3>1. popup' = dialog.show /\ slider' = Drawn
      BY <1>2, <2>1 DEF Draw
    <3>2. /\ slider'.changed \in BOOLEAN
          /\ slider'.changed => slider.changed /\ slider' = slider
      BY <3>1 DEF Drawn
    <3>3. popup' => dialog.show
      BY <3>1
    <3>4. popup' \in BOOLEAN
      BY <3>1
    <3>. QED  BY <1>2, <2>1, <3>2, <3>3, <3>4
  <2>2. CASE ~(t = "actions" /\ cached # NoSnapshot)
    BY <1>2, <2>2 DEF Draw
  <2>. QED  BY <2>1, <2>2
<1>3. CASE Watch
  BY <1>2, <1>3 DEF Watch, details
<1>4. ASSUME NEW t \in {"list", "actions"}, OpenTab(t)
      PROVE  RequestInv' /\ CallAsAsked
  BY <1>2, <1>4 DEF OpenTab, details
<1>5. ASSUME NEW p \in Pids, Select(p) PROVE RequestInv' /\ CallAsAsked
  BY <1>5 DEF Select, details, control
<1>6. ASSUME NEW a \in Actions, Ask(a) PROVE RequestInv' /\ CallAsAsked
  BY <1>6 DEF Ask, InActions, Drawn, details
<1>7. CASE Yes
  BY <1>7 DEF Yes, Answered, ClosedDialog, InActions, Drawn, details
<1>8. CASE No
  BY <1>8 DEF No, Answered, ClosedDialog, InActions, Drawn, details
<1>9. ASSUME NEW n \in Nices, MoveSlider(n) PROVE RequestInv' /\ CallAsAsked
  BY <1>9 DEF MoveSlider, InActions, details
<1>10. CASE Apply
  <2>1. slider'.changed = FALSE
    BY <1>10 DEF Apply
  <2>2. slider.changed /\ call'.pid = detailsPid
        /\ call' = [pid |-> detailsPid, action |-> "setPriority",
                    nice |-> slider.nice]
    BY <1>10 DEF Apply
  <2>3. /\ phase = "render" /\ phase' = "update"
        /\ asked'.signal = asked.signal
        /\ UNCHANGED <<selected, tab, detailsPid, dialog, popup>>
    BY <1>10 DEF Apply, InActions, details
  <2>. QED  BY <2>1, <2>2, <2>3
<1>11. ASSUME NEW p \in Pids, Exit(p) \/ Reuse(p) PROVE RequestInv' /\ CallAsAsked
  BY <1>11 DEF Exit, Reuse, details, control
<1>12. CASE UNCHANGED vars
  BY <1>12 DEF vars, details, control
<1>. QED  BY <1>1, <1>3, <1>4, <1>5, <1>6, <1>7, <1>8, <1>9, <1>10, <1>11,
             <1>12 DEF Next

\* Whatever the user selects, opens, moves and answers in whatever frames, a
\* system call is the one they asked for, for the pid that is selected.
THEOREM AlwaysAsAsked == Spec => ActsAsAsked
<1>1. Init => RequestInv
  <2>1. ASSUME Init
        PROVE  /\ dialog.show = FALSE /\ slider.changed = FALSE /\ popup = FALSE
               /\ phase = "update"
    BY <2>1 DEF Init, AtRest
  <2>. QED  BY <2>1 DEF RequestInv
<1>2. RequestInv /\ [Next]_vars => RequestInv' /\ [CallAsAsked]_vars
  BY RequestStep
<1>. QED  BY <1>1, <1>2, PTL DEF Spec, ActsAsAsked, CallAsAsked

------------------------------------------------------------------------------
(* The history, and what is shown of the selection.                        *)

\* An entry of a deque of the process with this pid.
Entry(pid) == [pid : {pid}, start : Nat, at : Nat]

\* The deques beside the timestamps, and the timestamps far enough apart.
Beside(pid, ts, tracks) ==
    \A k \in Tracks :
        /\ tracks[k] \in Seq(Entry(pid))
        /\ Len(tracks[k]) = Len(ts)
        /\ \A i \in 1 .. Len(ts) : tracks[k][i].at = ts[i]

\* The shape of the details' history of that process.
HistoryOf(pid) ==
    [timer : Nat, timestamps : Seq(Nat), tracks : [Tracks -> Seq(Entry(pid))]]

\* Samples are at least their interval apart.
Spaced(ts) ==
    \A i, j \in 1 .. Len(ts) : i < j => ts[j] - ts[i] >= (j - i) * SampleInterval

\* Timestamps that far apart increase.
LEMMA SpacedIncreases ==
    ASSUME NEW ts \in Seq(Nat), Spaced(ts)
    PROVE  Increasing(ts)
<1> SUFFICES ASSUME NEW i \in 1 .. Len(ts), NEW j \in 1 .. Len(ts), i < j
             PROVE  ts[i] < ts[j]
  BY DEF Increasing
<1>1. ts[i] \in Nat /\ ts[j] \in Nat
  OBVIOUS
<1>2. ts[j] - ts[i] >= (j - i) * SampleInterval
  BY DEF Spaced
<1>3. SampleInterval \in Nat /\ SampleInterval >= 1
  BY ProcessDetailsAssumption
<1>4. PICK d \in Nat : d = j - i /\ d >= 1
  OBVIOUS
<1>5. d * SampleInterval >= 1 /\ d * SampleInterval \in Nat
  BY <1>3, <1>4
<1>6. ts[j] - ts[i] >= d * SampleInterval
  BY <1>2, <1>4
<1>. QED  BY <1>1, <1>5, <1>6

\* A sample is taken when its interval has passed since the last one.
LEMMA AppendSpaced ==
    ASSUME NEW ts \in Seq(Nat), Spaced(ts), NEW now \in Nat,
           ts # <<>> => now - ts[Len(ts)] >= SampleInterval
    PROVE  Append(ts, now) \in Seq(Nat) /\ Spaced(Append(ts, now))
<1> DEFINE new == Append(ts, now)
<1>1. /\ new \in Seq(Nat) /\ Len(new) = Len(ts) + 1 /\ Len(ts) \in Nat
      /\ new[Len(ts) + 1] = now
      /\ \A i \in 1 .. Len(ts) : new[i] = ts[i] /\ ts[i] \in Nat
  OBVIOUS
<1>2. SampleInterval \in Nat
  BY ProcessDetailsAssumption
<1>3. ASSUME NEW i \in 1 .. Len(new), NEW j \in 1 .. Len(new), i < j
      PROVE  new[j] - new[i] >= (j - i) * SampleInterval
  <2>1. CASE j <= Len(ts)
    BY <1>1, <1>3, <2>1 DEF Spaced
  <2>2. CASE j = Len(ts) + 1
    <3> DEFINE last == Len(ts)
    <3>1. last \in Nat /\ last >= 1 /\ i \in 1 .. last /\ j - i = (last - i) + 1
      BY <1>1, <1>3, <2>2
    <3>2. ts # <<>> /\ now - ts[last] >= SampleInterval
      BY <3>1
    <3>3. PICK d \in Nat : d = last - i
      BY <3>1
    <3>4. PICK a \in Nat, b \in Nat : a = ts[i] /\ b = ts[last]
      BY <1>1, <3>1
    <3>5. PICK e \in Int : e = d * SampleInterval
      BY <1>2, <3>3
    <3>6. b - a >= e
      <4>1. CASE i = last
        BY <1>2, <3>1, <3>3, <3>4, <3>5, <4>1
      <4>2. CASE i < last
        <5>1. ts[last] - ts[i] >= (last - i) * SampleInterval
          BY <3>1, <4>2 DEF Spaced
        <5>. QED  BY <3>3, <3>4, <3>5, <5>1
      <4>. QED  BY <3>1, <4>1, <4>2
    <3>7. (d + 1) * SampleInterval = e + SampleInterval
      BY <1>2, <3>3, <3>5
    <3>8. now - a >= e + SampleInterval
      <4>1. now - b >= SampleInterval
        BY <3>2, <3>4
      <4>2. PICK interval \in Nat : interval = SampleInterval
        BY <1>2
      <4>3. now - b >= interval
        BY <4>1, <4>2
      <4>4. now - a >= e + interval
        BY <3>6, <4>3
      <4>. QED  BY <4>2, <4>4
    <3>9. new[j] = now /\ new[i] = a /\ j - i = d + 1
      BY <1>1, <2>2, <3>1, <3>3, <3>4
    <3>. HIDE DEF new, last
    <3>. QED  BY <3>7, <3>8, <3>9
  <2>. QED  BY <1>1, <2>1, <2>2
<1>. QED  BY <1>1, <1>3 DEF Spaced

\* Dropping old timestamps leaves the others as far apart.
LEMMA DropSpaced ==
    ASSUME NEW ts \in Seq(Nat), Spaced(ts), NEW n \in 0 .. Len(ts) - 1
    PROVE  Spaced(DropFront(ts, n))
<1> DEFINE kept == DropFront(ts, n)
<1>1. /\ Len(kept) = Len(ts) - n /\ Len(ts) \in Nat
      /\ \A i \in 1 .. Len(kept) : kept[i] = ts[n + i] /\ n + i \in 1 .. Len(ts)
  BY DropFrontFacts
<1>. HIDE DEF kept
<1> SUFFICES ASSUME NEW i \in 1 .. Len(kept), NEW j \in 1 .. Len(kept), i < j
             PROVE  kept[j] - kept[i] >= (j - i) * SampleInterval
  BY DEF Spaced, kept
<1>2. i \in Int /\ j \in Int /\ n + i < n + j /\ (n + j) - (n + i) = j - i
  BY <1>1
<1>3. ts[n + j] - ts[n + i] >= ((n + j) - (n + i)) * SampleInterval
  BY <1>1, <1>2 DEF Spaced
<1>. QED  BY <1>1, <1>2, <1>3

\* What dropping n entries leaves of a sequence of anything.
LEMMA DropFrontAt ==
    ASSUME NEW S, NEW s \in Seq(S), NEW n \in 0 .. Len(s)
    PROVE  /\ DropFront(s, n) \in Seq(S)
           /\ Len(DropFront(s, n)) = Len(s) - n
           /\ \A i \in 1 .. Len(s) - n : DropFront(s, n)[i] = s[n + i]
<1>1. n \in Nat /\ n <= Len(s) /\ Len(s) \in Nat
  OBVIOUS
<1>2. DropFront(s, n) \in Seq(S) /\ Len(DropFront(s, n)) = Len(s) - n
  BY <1>1, DropFrontLength
<1>3. \A i \in 1 .. Len(s) - n : SubSeq(s, n + 1, Len(s))[i] = s[n + i]
  BY <1>1
<1>. QED  BY <1>2, <1>3 DEF DropFront

\* Trimming equally long deques drops the same entries of each, and never the
\* last one.
LEMMA TrimBeside ==
    ASSUME NEW ts \in Seq(Nat), ts # <<>>, NEW pid,
           NEW tracks, Beside(pid, ts, tracks), Spaced(ts)
    PROVE  LET new == TrimHistory(ts, tracks)
           IN  /\ new.timer = 0
               /\ new.timestamps \in Seq(Nat)
               /\ new.timestamps # <<>>
               /\ new.timestamps[Len(new.timestamps)] = ts[Len(ts)]
               /\ Spaced(new.timestamps) /\ Within(new.timestamps, Window)
               /\ Beside(pid, new.timestamps, new.tracks)
               /\ new \in HistoryOf(pid)
<1>1. Window \in Nat
  BY ProcessDetailsAssumption
<1>2. PICK n \in 0 .. Len(ts) - 1 : n = TrimCount(ts, Window)
  BY <1>1, TrimCountStops
<1> DEFINE kept == DropFront(ts, n)
           rest == [k \in Tracks |-> DropFront(tracks[k], n)]
<1>3. /\ kept \in Seq(Nat) /\ kept # <<>> /\ kept[Len(kept)] = ts[Len(ts)]
      /\ Within(kept, Window)
  BY <1>1, <1>2, TrimKeepsNewest, SpacedIncreases
<1>4. Spaced(kept)
  BY <1>2, DropSpaced
<1>5. Len(kept) = Len(ts) - n /\ Len(kept) \in Nat /\ Len(kept) >= 1
      /\ \A i \in 1 .. Len(kept) : kept[i] = ts[n + i] /\ n + i \in 1 .. Len(ts)
  BY DropFrontFacts
<1>6. Beside(pid, kept, rest)
  <2> SUFFICES ASSUME NEW k \in Tracks
               PROVE  /\ rest[k] \in Seq(Entry(pid))
                      /\ Len(rest[k]) = Len(kept)
                      /\ \A i \in 1 .. Len(kept) : rest[k][i].at = kept[i]
    BY DEF Beside
  <2>1. tracks[k] \in Seq(Entry(pid)) /\ Len(tracks[k]) = Len(ts)
        /\ \A i \in 1 .. Len(ts) : tracks[k][i].at = ts[i]
    BY DEF Beside
  <2>2. PICK old \in Seq(Entry(pid)) : old = tracks[k] /\ n \in 0 .. Len(old)
    BY <2>1
  <2>3. /\ DropFront(old, n) \in Seq(Entry(pid))
        /\ Len(DropFront(old, n)) = Len(old) - n
        /\ \A i \in 1 .. Len(old) - n : DropFront(old, n)[i] = old[n + i]
    BY <2>2, DropFrontAt
  <2>4. rest[k] = DropFront(old, n)
    BY <2>2
  <2>. HIDE DEF kept, rest
  <2>. QED  BY <1>5, <2>1, <2>2, <2>3, <2>4
<1>7. Shortest({Len(kept)} \cup {Len(rest[k]) : k \in Tracks}) = Len(kept)
  <2> DEFINE lengths == {Len(kept)} \cup {Len(rest[k]) : k \in Tracks}
  <2>. HIDE DEF kept, rest
  <2>1. lengths = {Len(kept)}
    BY <1>6 DEF Beside
  <2>2. lengths \ {0} = {Len(kept)} /\ ~(lengths \subseteq {0})
    BY <1>5, <2>1
  <2>3. (CHOOSE m \in lengths \ {0} : \A l \in lengths \ {0} : m <= l) = Len(kept)
    BY <1>5, <2>2
  <2>. QED  BY <2>2, <2>3 DEF Shortest
<1>8. KeepLast(kept, Len(kept)) = kept
      /\ \A k \in Tracks : KeepLast(rest[k], Len(kept)) = rest[k]
  <2>. HIDE DEF kept, rest
  <2>. QED  BY <1>5, <1>6 DEF KeepLast, Beside
<1>9. TrimHistory(ts, tracks)
        = [timer |-> 0, timestamps |-> kept, tracks |-> [k \in Tracks |-> rest[k]]]
  BY <1>2, <1>7, <1>8 DEF TrimHistory
<1>10. [k \in Tracks |-> rest[k]] = rest
  OBVIOUS
<1>11. rest \in [Tracks -> Seq(Entry(pid))]
  BY <1>6 DEF Beside
<1>. HIDE DEF kept, rest
<1>12. TrimHistory(ts, tracks) \in HistoryOf(pid)
  BY <1>3, <1>9, <1>10, <1>11 DEF HistoryOf
<1>. QED  BY <1>3, <1>4, <1>6, <1>9, <1>10, <1>12

\* A history of the process with this pid at time t: when its next sample is
\* due, a sample interval has passed since the last.
Good(h, pid, t) ==
    /\ h \in HistoryOf(pid)
    /\ h.timer < SampleInterval
    /\ Beside(pid, h.timestamps, h.tracks)
    /\ Spaced(h.timestamps) /\ Within(h.timestamps, Window)
    /\ h.timestamps # <<>> => t - h.timestamps[Len(h.timestamps)] >= h.timer

\* The last entry is one.
LEMMA LastOfSeq ==
    ASSUME NEW S, NEW s \in Seq(S), s # <<>>
    PROVE  Len(s) \in 1 .. Len(s) /\ s[Len(s)] \in S
  OBVIOUS

\* Time passes.
LEMMA GoodStays ==
    ASSUME NEW h, NEW pid, NEW t \in Nat, Good(h, pid, t), NEW later \in Nat, t <= later
    PROVE  Good(h, pid, later)
<1>1. CASE h.timestamps = <<>>
  BY <1>1 DEF Good
<1>2. CASE h.timestamps # <<>>
  <2>1. h.timestamps \in Seq(Nat) /\ h.timer \in Nat
    BY DEF Good, HistoryOf
  <2>2. h.timestamps[Len(h.timestamps)] \in Nat
    BY <1>2, <2>1, LastOfSeq
  <2>. QED  BY <1>2, <2>1, <2>2 DEF Good
<1>. QED  BY <1>1, <1>2

\* What setSelectedPid resets a history to.
LEMMA NoHistoryGood ==
    ASSUME NEW pid, NEW t \in Nat
    PROVE  Good(NoHistory, pid, t)
<1>1. /\ NoHistory \in HistoryOf(pid) /\ NoHistory.timer = 0
      /\ NoHistory.timestamps = <<>>
      /\ \A k \in Tracks : NoHistory.tracks[k] = <<>>
  BY DEF NoHistory, HistoryOf
<1>2. SampleInterval \in Nat /\ SampleInterval > 0
  BY ProcessDetailsAssumption
<1>3. Beside(pid, NoHistory.timestamps, NoHistory.tracks)
  <2>1. ASSUME NEW S PROVE <<>> \in Seq(S) /\ Len(<<>>) = 0
    OBVIOUS
  <2>2. ASSUME NEW k \in Tracks
        PROVE  /\ NoHistory.tracks[k] \in Seq(Entry(pid))
               /\ Len(NoHistory.tracks[k]) = 0
    <3>1. NoHistory.tracks[k] = <<>>
      BY <1>1
    <3>. QED  BY <2>1, <3>1
  <2>3. Len(NoHistory.timestamps) = 0 /\ 1 .. 0 = {}
    BY <1>1, <2>1
  <2>. QED  BY <2>2, <2>3 DEF Beside
<1>4. Spaced(NoHistory.timestamps)
  BY <1>1 DEF Spaced
<1>5. Within(NoHistory.timestamps, Window)
  BY <1>1 DEF Within
<1>. QED  BY <1>1, <1>2, <1>3, <1>4, <1>5 DEF Good

\* Every deque gets its entry with the timestamp.
LEMMA AppendBeside ==
    ASSUME NEW ts \in Seq(Nat), NEW pid, NEW tracks, Beside(pid, ts, tracks),
           NEW entry \in Entry(pid), NEW now \in Nat, entry.at = now
    PROVE  Beside(pid, Append(ts, now), [k \in Tracks |-> Append(tracks[k], entry)])
<1> SUFFICES ASSUME NEW k \in Tracks
             PROVE  /\ Append(tracks[k], entry) \in Seq(Entry(pid))
                    /\ Len(Append(tracks[k], entry)) = Len(Append(ts, now))
                    /\ \A i \in 1 .. Len(Append(ts, now)) :
                         Append(tracks[k], entry)[i].at = Append(ts, now)[i]
  BY DEF Beside
<1>1. PICK old \in Seq(Entry(pid)) : old = tracks[k]
  BY DEF Beside
<1>2. Len(old) = Len(ts) /\ \A i \in 1 .. Len(ts) : old[i].at = ts[i]
  BY <1>1 DEF Beside
<1>3. /\ Append(old, entry) \in Seq(Entry(pid))
      /\ Len(Append(old, entry)) = Len(ts) + 1
      /\ Append(old, entry)[Len(ts) + 1] = entry
      /\ \A i \in 1 .. Len(ts) : Append(old, entry)[i] = old[i]
  BY <1>2
<1>4. /\ Len(Append(ts, now)) = Len(ts) + 1 /\ Len(ts) \in Nat
      /\ Append(ts, now)[Len(ts) + 1] = now
      /\ \A i \in 1 .. Len(ts) : Append(ts, now)[i] = ts[i]
  OBVIOUS
<1>. QED  BY <1>1, <1>2, <1>3, <1>4

\* updateWithSnapshot samples, trims, or waits for the interval to pass.
LEMMA SampledGood ==
    ASSUME NEW old, NEW pid, NEW t \in Nat, Good(old, pid, t),
           NEW snapshot, snapshot # NoSnapshot => snapshot.pid = pid /\ snapshot.start \in Nat,
           NEW dt \in Nat, NEW now \in Nat, t + dt <= now
    PROVE  Good(Sampled(old, snapshot, dt, now), pid, now)
<1>1. /\ old \in HistoryOf(pid) /\ old.timer \in Nat /\ old.timestamps \in Seq(Nat)
      /\ old.tracks \in [Tracks -> Seq(Entry(pid))]
      /\ SampleInterval \in Nat /\ SampleInterval > 0
  BY ProcessDetailsAssumption DEF Good, HistoryOf
<1>2. old.timestamps # <<>> =>
        /\ old.timestamps[Len(old.timestamps)] \in Nat
        /\ now - old.timestamps[Len(old.timestamps)] >= old.timer + dt
  <2>1. ASSUME old.timestamps # <<>>
        PROVE  old.timestamps[Len(old.timestamps)] \in Nat
    BY <1>1, <2>1, LastOfSeq
  <2>. QED  BY <1>1, <2>1 DEF Good
<1>3. CASE snapshot = NoSnapshot
  <2>1. Sampled(old, snapshot, dt, now) = old
    BY <1>3 DEF Sampled
  <2>. QED  BY <2>1, GoodStays
<1>4. CASE snapshot # NoSnapshot /\ old.timer + dt < SampleInterval
  <2>0. PICK due \in Nat : due = old.timer + dt
    BY <1>1
  <2>1. PICK new : new = [old EXCEPT !.timer = due]
    OBVIOUS
  <2>2. /\ new \in HistoryOf(pid) /\ new.timer = due
        /\ new.timestamps = old.timestamps /\ new.tracks = old.tracks
    BY <1>1, <2>1 DEF HistoryOf
  <2>3. Sampled(old, snapshot, dt, now) = new
    BY <1>4, <2>0, <2>1 DEF Sampled
  <2>4. Good(new, pid, now)
    BY <1>1, <1>2, <1>4, <2>0, <2>2 DEF Good
  <2>. QED  BY <2>3, <2>4
<1>5. CASE snapshot # NoSnapshot /\ ~(old.timer + dt < SampleInterval)
  <2> DEFINE entry == [pid |-> snapshot.pid, start |-> snapshot.start, at |-> now]
             ts == Append(old.timestamps, now)
             tracks == [k \in Tracks |-> Append(old.tracks[k], entry)]
             new == TrimHistory(ts, tracks)
  <2>1. Sampled(old, snapshot, dt, now) = new
    BY <1>5 DEF Sampled
  <2>2. entry \in Entry(pid) /\ entry.at = now
    BY <1>5 DEF Entry
  <2>3. ts \in Seq(Nat) /\ Spaced(ts) /\ ts # <<>> /\ ts[Len(ts)] = now
    <3>1. old.timestamps # <<>> =>
            now - old.timestamps[Len(old.timestamps)] >= SampleInterval
      BY <1>1, <1>2, <1>5
    <3>2. Spaced(old.timestamps)
      BY DEF Good
    <3>3. ts \in Seq(Nat) /\ Spaced(ts)
      BY <1>1, <3>1, <3>2, AppendSpaced
    <3>4. Append(old.timestamps, now)[Len(old.timestamps) + 1] = now
          /\ Len(Append(old.timestamps, now)) = Len(old.timestamps) + 1
          /\ Append(old.timestamps, now) # <<>>
      BY <1>1
    <3>. QED  BY <3>3, <3>4
  <2>4. Beside(pid, ts, tracks)
    BY <1>1, <2>2, AppendBeside DEF Good
  <2>. HIDE DEF ts, tracks, entry
  <2>5. /\ new.timer = 0 /\ new.timestamps # <<>>
        /\ new.timestamps[Len(new.timestamps)] = now
        /\ Spaced(new.timestamps) /\ Within(new.timestamps, Window)
        /\ Beside(pid, new.timestamps, new.tracks)
        /\ new \in HistoryOf(pid)
    BY <2>3, <2>4, TrimBeside
  <2>. HIDE DEF new
  <2>6. Good(new, pid, now)
    BY <1>1, <2>5 DEF Good
  <2>. QED  BY <2>1, <2>6
<1>. QED  BY <1>3, <1>4, <1>5

\* What the properties say of such a history.
LEMMA GoodAligned ==
    ASSUME NEW h, NEW pid, NEW t \in Nat, Good(h, pid, t)
    PROVE  /\ \A k \in Tracks :
                [i \in DOMAIN h.tracks[k] |-> h.tracks[k][i].at] = h.timestamps
           /\ \A i, j \in DOMAIN h.timestamps :
                i < j => h.timestamps[j] - h.timestamps[i] >= (j - i) * SampleInterval
           /\ h.timestamps \in Seq(0 .. t)
<1>1. PICK ts \in Seq(Nat) : ts = h.timestamps
  BY DEF Good, HistoryOf
<1>2. DOMAIN ts = 1 .. Len(ts) /\ Len(ts) \in Nat /\ Spaced(ts)
  BY <1>1 DEF Good
<1>3. ASSUME NEW k \in Tracks
      PROVE  [i \in DOMAIN h.tracks[k] |-> h.tracks[k][i].at] = ts
  <2>1. PICK s \in Seq(Entry(pid)) : s = h.tracks[k]
    BY DEF Good, Beside
  <2>2. Len(s) = Len(ts) /\ \A i \in 1 .. Len(ts) : s[i].at = ts[i]
    BY <1>1, <2>1 DEF Good, Beside
  <2>3. DOMAIN s = 1 .. Len(ts)
    BY <2>2
  <2>4. [i \in 1 .. Len(ts) |-> s[i].at] = [i \in 1 .. Len(ts) |-> ts[i]]
    BY <2>2
  <2>5. [i \in 1 .. Len(ts) |-> ts[i]] = ts
    BY <1>2
  <2>. QED  BY <2>1, <2>3, <2>4, <2>5
<1>4. ts \in Seq(0 .. t)
  <2>1. ASSUME NEW i \in 1 .. Len(ts) PROVE ts[i] \in 0 .. t
    <3>1. ts # <<>> /\ Len(ts) \in 1 .. Len(ts)
      BY <1>2
    <3>2. PICK last \in Nat : last = ts[Len(ts)]
      BY <3>1
    <3>3. last <= t
      BY <1>1, <3>1, <3>2 DEF Good, HistoryOf
    <3>4. PICK a \in Nat : a = ts[i]
      OBVIOUS
    <3>5. a <= last
      BY <1>2, <3>1, <3>2, <3>4, SpacedIncreases DEF Increasing
    <3>. QED  BY <3>3, <3>4, <3>5
  <2>2. ts \in [1 .. Len(ts) -> 0 .. t]
    BY <1>2, <2>1
  <2>. QED  BY <1>2, <2>2
<1>. QED  BY <1>1, <1>2, <1>3, <1>4 DEF Spaced

\* What the frames move, but for the history.
FrameInv ==
    /\ clock \in Nat /\ clock <= MaxClock
    /\ phase \in {"update", "render"} /\ tab \in {"list", "actions"}
    /\ {selected, detailsPid} \subseteq Pids \cup {NoPid}
    /\ phase = "render" => detailsPid = selected
    /\ accumulator \in Nat /\ accumulator < RefreshInterval
    /\ popup \in BOOLEAN /\ dialog.show \in BOOLEAN
    /\ feedback.timer \in Nat /\ feedback.timer <= ResultTime
    /\ feedback.of \in {detailsPid, NoPid}

\* The system's processes and what is shown of them.
WorldInv ==
    /\ procs \in [Pids -> [alive : BOOLEAN, start : Nat, nice : Nices]]
    /\ \A p \in Pids : procs[p].start <= clock
    /\ DOMAIN shown \subseteq Pids
    /\ \A p \in DOMAIN shown : shown[p].start \in Nat /\ shown[p].nice \in Nices

\* The snapshot of the details and the slider that follows it.
SnapshotInv ==
    /\ cached.pid \in {detailsPid, NoPid} /\ cached.nice \in Nices
    /\ slider.nice \in Nices /\ slider.changed \in BOOLEAN
    /\ phase = "render" /\ detailsPid \in DOMAIN shown =>
         cached = [pid |-> detailsPid, start |-> shown[detailsPid].start,
                   nice |-> shown[detailsPid].nice]

ShownInv ==
    /\ FrameInv /\ WorldInv /\ SnapshotInv
    /\ Good(history, detailsPid, clock)

\* The history moves with the details in OnUpdate, and time only there.
LEMMA OtherSteps ==
    ASSUME [Next]_vars, ~(\E elapsed \in FrameTimes : OnUpdate(elapsed))
    PROVE  UNCHANGED <<clock, shown, accumulator, details>>
  BY DEF Next, Exit, Reuse, Watch, OpenTab, Select, Ask, Answered, Yes, No,
         MoveSlider, Apply, InActions, world, list, vars

LEMMA UpdateFacts ==
    ASSUME ShownInv, NEW elapsed \in FrameTimes, OnUpdate(elapsed)
    PROVE  \E dt \in Nat :
             /\ dt <= elapsed /\ elapsed \in Nat
             /\ clock' = clock + elapsed /\ clock' <= MaxClock
             /\ RefreshList(dt, elapsed) /\ UpdateDetails(dt)
             /\ phase' = "render" /\ phase = "update"
             /\ UNCHANGED <<procs, selected, tab, popup>>
  BY DeltaTimeFacts DEF OnUpdate

\* The list after a frame's update.
LEMMA RefreshWorld ==
    ASSUME ShownInv, NEW dt \in Nat, NEW elapsed \in Nat, RefreshList(dt, elapsed),
           clock' = clock + elapsed, UNCHANGED procs
    PROVE  /\ WorldInv'
           /\ accumulator' \in Nat /\ accumulator' < RefreshInterval
<1>1. RefreshInterval \in Nat /\ RefreshInterval >= 1 /\ accumulator \in Nat
  BY ProcessDetailsAssumption DEF ShownInv, FrameInv
<1>2. /\ procs' \in [Pids -> [alive : BOOLEAN, start : Nat, nice : Nices]]
      /\ \A p \in Pids : procs'[p].start <= clock'
  <2>1. procs \in [Pids -> [alive : BOOLEAN, start : Nat, nice : Nices]]
        /\ (\A p \in Pids : procs[p].start <= clock) /\ clock \in Nat
    BY DEF ShownInv, WorldInv, FrameInv
  <2>2. ASSUME NEW p \in Pids PROVE procs[p].start <= clock'
    <3>1. procs[p].start \in Nat
      BY <2>1
    <3>. QED  BY <2>1, <3>1
  <2>. QED  BY <2>1, <2>2
<1>3. CASE accumulator + dt >= RefreshInterval
  <2>1. PICK seen \in SUBSET Alive :
          shown' = [p \in seen |-> [start |-> procs[p].start, nice |-> procs[p].nice]]
    BY <1>3 DEF RefreshList
  <2>2. seen \subseteq Pids
    BY DEF Alive
  <2>3. DOMAIN shown' \subseteq Pids
    BY <2>1, <2>2
  <2>4. \A p \in DOMAIN shown' : shown'[p].start \in Nat /\ shown'[p].nice \in Nices
    BY <2>1, <2>2 DEF ShownInv, WorldInv
  <2>5. accumulator' = (accumulator + dt) % RefreshInterval
    BY <1>3 DEF RefreshList
  <2>. QED  BY <1>1, <1>2, <2>3, <2>4, <2>5 DEF WorldInv
<1>4. CASE ~(accumulator + dt >= RefreshInterval)
  <2>1. accumulator' = accumulator + dt /\ shown' = shown
    BY <1>4 DEF RefreshList
  <2>2. /\ DOMAIN shown' \subseteq Pids
        /\ \A p \in DOMAIN shown' : shown'[p].start \in Nat /\ shown'[p].nice \in Nices
    BY <2>1 DEF ShownInv, WorldInv
  <2>. QED  BY <1>1, <1>2, <1>4, <2>1, <2>2 DEF WorldInv
<1>. QED  BY <1>3, <1>4

\* What the details take from the list is of the selected pid, or nothing.
LEMMA SelectedFacts ==
    ASSUME WorldInv', selected \in Pids \cup {NoPid}, NEW snapshot,
           snapshot = SelectedSnapshot
    PROVE  /\ snapshot.start \in Nat /\ snapshot.nice \in Nices
           /\ snapshot # NoSnapshot => snapshot.pid = selected
           /\ selected \in DOMAIN shown' =>
                /\ snapshot # NoSnapshot
                /\ snapshot = [pid |-> selected, start |-> shown'[selected].start,
                               nice |-> shown'[selected].nice]
<1>1. NoSnapshot.start \in Nat /\ NoSnapshot.nice \in Nices /\ NoSnapshot.pid = NoPid
  BY ProcessDetailsAssumption DEF NoSnapshot
<1>2. CASE selected \in DOMAIN shown'
  <2>1. snapshot = [pid |-> selected, start |-> shown'[selected].start,
                    nice |-> shown'[selected].nice]
    BY <1>2 DEF SelectedSnapshot
  <2>2. selected # NoPid
    BY <1>2, ProcessDetailsAssumption DEF WorldInv
  <2>. QED  BY <1>1, <1>2, <2>1, <2>2 DEF WorldInv
<1>3. CASE selected \notin DOMAIN shown'
  BY <1>1, <1>3 DEF SelectedSnapshot
<1>. QED  BY <1>2, <1>3

\* A frame's update, with or without a refresh, a selection or a sample.
LEMMA UpdateStep ==
    ASSUME ShownInv, NEW elapsed \in FrameTimes, OnUpdate(elapsed)
    PROVE  ShownInv'
<1>1. PICK dt \in Nat :
        /\ dt <= elapsed /\ elapsed \in Nat
        /\ clock' = clock + elapsed /\ clock' <= MaxClock
        /\ RefreshList(dt, elapsed) /\ UpdateDetails(dt)
        /\ phase' = "render" /\ phase = "update"
        /\ UNCHANGED <<procs, selected, tab, popup>>
  BY UpdateFacts
<1>2. clock \in Nat /\ clock' \in Nat /\ clock + dt <= clock'
      /\ selected \in Pids \cup {NoPid}
  BY <1>1 DEF ShownInv, FrameInv
<1>3. WorldInv' /\ accumulator' \in Nat /\ accumulator' < RefreshInterval
  BY <1>1, RefreshWorld
<1>4. PICK snapshot : snapshot = SelectedSnapshot
  OBVIOUS
<1>5. /\ snapshot.start \in Nat /\ snapshot.nice \in Nices
      /\ snapshot # NoSnapshot => snapshot.pid = selected
      /\ selected \in DOMAIN shown' =>
           /\ snapshot # NoSnapshot
           /\ snapshot = [pid |-> selected, start |-> shown'[selected].start,
                          nice |-> shown'[selected].nice]
  BY <1>2, <1>3, <1>4, SelectedFacts
<1>6. /\ detailsPid' = selected
      /\ cached' = IF snapshot # NoSnapshot THEN snapshot ELSE Kept(cached, NoSnapshot)
      /\ history' = Sampled(Kept(history, NoHistory), snapshot, dt, clock')
      /\ dialog' = Kept(dialog, ClosedDialog)
      /\ slider' = Kept(slider, AtRest)
      /\ feedback' = Faded(Kept(feedback, [of |-> NoPid, timer |-> feedback.timer]), dt)
  BY <1>1, <1>4 DEF UpdateDetails
<1>7. Good(history', detailsPid', clock')
  <2>1. PICK old : old = Kept(history, NoHistory)
    OBVIOUS
  <2>2. Good(old, selected, clock)
    <3>1. CASE selected = detailsPid
      BY <2>1, <3>1 DEF Kept, ShownInv
    <3>2. CASE selected # detailsPid
      BY <1>2, <2>1, <3>2, NoHistoryGood DEF Kept
    <3>. QED  BY <3>1, <3>2
  <2>3. PICK pid : pid = selected
    OBVIOUS
  <2>4. PICK t \in Nat, now \in Nat : t = clock /\ now = clock'
    BY <1>2
  <2>5. Good(Sampled(old, snapshot, dt, now), pid, now)
    BY <1>2, <1>5, <2>2, <2>3, <2>4, SampledGood
  <2>. QED  BY <1>6, <2>1, <2>3, <2>4, <2>5
<1>8. SnapshotInv'
  <2>1. cached'.pid \in {selected, NoPid} /\ cached'.nice \in Nices
    <3>1. CASE snapshot # NoSnapshot
      BY <1>5, <1>6, <3>1
    <3>2. CASE snapshot = NoSnapshot
      <4>1. cached' = Kept(cached, NoSnapshot)
        BY <1>6, <3>2
      <4>2. cached.pid \in {detailsPid, NoPid} /\ cached.nice \in Nices
        BY DEF ShownInv, SnapshotInv
      <4>3. NoSnapshot.pid = NoPid /\ NoSnapshot.nice \in Nices
        BY ProcessDetailsAssumption DEF NoSnapshot
      <4>. QED  BY <4>1, <4>2, <4>3 DEF Kept
    <3>. QED  BY <3>1, <3>2
  <2>2. slider'.nice \in Nices /\ slider'.changed \in BOOLEAN
    BY <1>6, ProcessDetailsAssumption DEF Kept, AtRest, ShownInv, SnapshotInv
  <2>3. detailsPid' \in DOMAIN shown' =>
          cached' = [pid |-> detailsPid', start |-> shown'[detailsPid'].start,
                     nice |-> shown'[detailsPid'].nice]
    BY <1>5, <1>6
  <2>. QED  BY <1>6, <2>1, <2>2, <2>3 DEF SnapshotInv
<1>9. FrameInv'
  <2>1. dialog'.show \in BOOLEAN
    BY <1>6 DEF Kept, ClosedDialog, ShownInv, FrameInv
  <2>2. PICK old : old = Kept(feedback, [of |-> NoPid, timer |-> feedback.timer])
    OBVIOUS
  <2>3. old.timer \in Nat /\ old.timer <= ResultTime /\ old.of \in {selected, NoPid}
    BY <2>2 DEF Kept, ShownInv, FrameInv
  <2>4. /\ feedback'.timer \in Nat /\ feedback'.timer <= ResultTime
        /\ feedback'.of \in {selected, NoPid}
    <3>1. CASE old.timer <= 0
      BY <1>6, <2>2, <2>3, <3>1 DEF Faded
    <3>2. CASE old.timer > 0 /\ old.timer > dt
      <4>1. PICK left \in Nat : left = old.timer - dt
        BY <2>3, <3>2
      <4>2. feedback' = [old EXCEPT !.timer = left]
        BY <1>6, <2>2, <3>2, <4>1, <2>3 DEF Faded
      <4>. QED  BY <2>3, <3>2, <4>1, <4>2, ProcessDetailsAssumption
    <3>3. CASE old.timer > 0 /\ ~(old.timer > dt)
      BY <1>6, <2>2, <2>3, <3>3, ProcessDetailsAssumption DEF Faded
    <3>. QED  BY <2>3, <3>1, <3>2, <3>3
  <2>5. tab' \in {"list", "actions"} /\ popup' \in BOOLEAN
    BY <1>1 DEF ShownInv, FrameInv
  <2>. QED  BY <1>1, <1>2, <1>3, <1>6, <2>1, <2>4, <2>5 DEF FrameInv
<1>. QED  BY <1>3, <1>7, <1>8, <1>9 DEF ShownInv

\* Every other step leaves clock, list and details as they are, and selects
\* only when it ends the frame.
LEMMA OtherStep ==
    ASSUME ShownInv, [Next]_vars, ~(\E elapsed \in FrameTimes : OnUpdate(elapsed))
    PROVE  ShownInv'
<1>1. UNCHANGED <<clock, shown, accumulator, detailsPid, cached, history>>
  BY OtherSteps DEF details
<1>2. Good(history, detailsPid, clock)'
  BY <1>1 DEF ShownInv, Good
<1>3. WorldInv'
  <2>1. ASSUME NEW p \in Pids, Exit(p) PROVE WorldInv'
    BY <1>1, <2>1 DEF Exit, ShownInv, WorldInv
  <2>2. ASSUME NEW p \in Pids, Reuse(p) PROVE WorldInv'
    BY <1>1, <2>2, ProcessDetailsAssumption DEF Reuse, ShownInv, WorldInv, FrameInv
  <2>3. CASE Apply
    BY <1>1, <2>3 DEF Apply, ShownInv, WorldInv, SnapshotInv
  <2>4. CASE UNCHANGED procs
    BY <1>1, <2>4 DEF ShownInv, WorldInv
  <2>5. \/ \E p \in Pids : Exit(p) \/ Reuse(p)
        \/ Apply
        \/ UNCHANGED procs
    BY DEF Next, Watch, OpenTab, Select, Ask, Answered, Yes, No, MoveSlider, world, vars
  <2>. QED  BY <2>1, <2>2, <2>3, <2>4, <2>5
<1>4. /\ phase' = phase /\ UNCHANGED selected
      \/ phase' = "update"
  BY DEF Next, Exit, Reuse, Watch, OpenTab, Select, Ask, Answered, Yes, No,
         MoveSlider, Apply, InActions, vars
<1>5. SnapshotInv'
  <2>1. Drawn.nice \in Nices /\ Drawn.changed \in BOOLEAN
    BY DEF Drawn, ShownInv, SnapshotInv
  <2>2. ASSUME NEW n \in Nices, MoveSlider(n)
        PROVE  slider'.nice \in Nices /\ slider'.changed \in BOOLEAN
    BY <2>2 DEF MoveSlider
  <2>3. \/ \E n \in Nices : MoveSlider(n)
        \/ Apply
        \/ slider' = Drawn
        \/ UNCHANGED slider
    BY DEF Next, Exit, Reuse, Watch, OpenTab, Draw, Select, Ask, Answered, Yes, No,
           control, vars
  <2>4. slider'.nice \in Nices /\ slider'.changed \in BOOLEAN
    <3>1. CASE slider' = Drawn
      BY <2>1, <3>1
    <3>2. CASE UNCHANGED slider
      BY <3>2 DEF ShownInv, SnapshotInv
    <3>3. CASE Apply
      <4>1. slider'.changed = FALSE /\ slider'.nice \in {slider.nice, cached.nice}
        BY <3>3 DEF Apply
      <4>. QED  BY <4>1 DEF ShownInv, SnapshotInv
    <3>. QED  BY <2>2, <2>3, <3>1, <3>2, <3>3
  <2>5. /\ cached'.pid \in {detailsPid', NoPid} /\ cached'.nice \in Nices
        /\ phase' = "render" /\ detailsPid' \in DOMAIN shown' =>
             cached' = [pid |-> detailsPid', start |-> shown'[detailsPid'].start,
                        nice |-> shown'[detailsPid'].nice]
    BY <1>1, <1>4 DEF ShownInv, SnapshotInv
  <2>. QED  BY <2>4, <2>5 DEF SnapshotInv
<1>6. FrameInv'
  <2>1. /\ clock' \in Nat /\ clock' <= MaxClock
        /\ detailsPid' \in Pids \cup {NoPid}
        /\ accumulator' \in Nat /\ accumulator' < RefreshInterval
        /\ phase' \in {"update", "render"}
        /\ phase' = "render" => detailsPid' = selected'
    BY <1>1, <1>4 DEF ShownInv, FrameInv
  <2>2. selected' \in Pids \cup {NoPid}
    <3>1. UNCHANGED selected \/ \E p \in Pids : selected' = p
      BY DEF Next, Exit, Reuse, Watch, OpenTab, Select, Ask, Answered, Yes, No,
             MoveSlider, Apply, InActions, vars
    <3>. QED  BY <3>1 DEF ShownInv, FrameInv
  <2>3. tab' \in {"list", "actions"}
    <3>1. UNCHANGED tab \/ \E t \in {"list", "actions"} : tab' = t
      BY DEF Next, Exit, Reuse, Watch, OpenTab, Select, Ask, Answered, Yes, No,
             MoveSlider, Apply, InActions, vars
    <3>. QED  BY <3>1 DEF ShownInv, FrameInv
  <2>4. popup' \in BOOLEAN
    <3>1. UNCHANGED popup \/ popup' = FALSE \/ popup' = dialog.show
      BY DEF Next, Exit, Reuse, Watch, OpenTab, Draw, Select, Ask, Answered, Yes, No,
             MoveSlider, Apply, InActions, control, vars
    <3>2. popup \in BOOLEAN /\ dialog.show \in BOOLEAN
      BY DEF ShownInv, FrameInv
    <3>. QED  BY <3>1, <3>2
  <2>5. dialog'.show \in BOOLEAN
    <3>1. UNCHANGED dialog \/ dialog' = ClosedDialog
          \/ \E a \in Actions : dialog' = [show |-> TRUE, action |-> a]
      BY DEF Next, Exit, Reuse, Watch, OpenTab, Select, Ask, Answered, Yes, No,
             MoveSlider, Apply, InActions, control, vars
    <3>2. dialog.show \in BOOLEAN
      BY DEF ShownInv, FrameInv
    <3>3. UNCHANGED dialog \/ dialog'.show = FALSE \/ dialog'.show = TRUE
      BY <3>1 DEF ClosedDialog
    <3>. QED  BY <3>2, <3>3
  <2>6. /\ feedback'.timer \in Nat /\ feedback'.timer <= ResultTime
        /\ feedback'.of \in {detailsPid', NoPid}
    <3>1. UNCHANGED feedback \/ feedback' = [of |-> detailsPid, timer |-> ResultTime]
      BY DEF Next, Exit, Reuse, Watch, OpenTab, Select, Ask, Answered, Yes, No,
             MoveSlider, Apply, InActions, control, vars
    <3>2. ResultTime \in Nat
      BY ProcessDetailsAssumption
    <3>. QED  BY <1>1, <3>1, <3>2 DEF ShownInv, FrameInv
  <2>. QED  BY <2>1, <2>2, <2>3, <2>4, <2>5, <2>6 DEF FrameInv
<1>. QED  BY <1>2, <1>3, <1>5, <1>6 DEF ShownInv

LEMMA ShownInitially ==
    ASSUME Init
    PROVE  ShownInv
<1>1. Good(history, detailsPid, clock)
  BY NoHistoryGood DEF Init
<1>2. FrameInv
  <2>1. popup = FALSE /\ dialog.show = FALSE
    BY DEF Init
  <2>2. popup \in BOOLEAN /\ dialog.show \in BOOLEAN
    BY <2>1
  <2>3. feedback.timer = 0 /\ feedback.of = NoPid
    BY DEF Init
  <2>. QED  BY <2>2, <2>3, ProcessDetailsAssumption DEF Init, FrameInv
<1>3. WorldInv
  BY ProcessDetailsAssumption DEF Init, WorldInv
<1>4. SnapshotInv
  BY ProcessDetailsAssumption DEF Init, SnapshotInv, NoSnapshot, AtRest
<1>. QED  BY <1>1, <1>2, <1>3, <1>4 DEF ShownInv

LEMMA ShownStep ==
    ASSUME ShownInv, [Next]_vars
    PROVE  ShownInv'
  BY UpdateStep, OtherStep

\* For all sample intervals, windows and frames, through every change of
\* selection: the deques of the details hold the timestamps' entries.
THEOREM AlwaysAligned == Spec => []HistoryAligned
<1>1. ShownInv => HistoryAligned
  <2> SUFFICES ASSUME ShownInv PROVE HistoryAligned
    OBVIOUS
  <2>1. Good(history, detailsPid, clock) /\ clock \in Nat
    BY DEF ShownInv, FrameInv
  <2>2. Within(history.timestamps, Window)
    BY <2>1 DEF Good
  <2>. QED  BY <2>1, <2>2, GoodAligned DEF HistoryAligned
<1>. QED  BY <1>1, ShownInitially, ShownStep, PTL DEF Spec

\* Whatever the user selects and whichever processes come and go, all the
\* details show is of the selected pid and as the list beside them shows it.
THEOREM AlwaysOfSelection == Spec => []ShowsSelection
<1>1. ShownInv => ShowsSelection
  <2> SUFFICES ASSUME ShownInv PROVE ShowsSelection
    OBVIOUS
  <2>1. Good(history, detailsPid, clock) /\ clock \in Nat
    BY DEF ShownInv, FrameInv
  <2>2. \A e \in Entries : e.pid = detailsPid
    <3> SUFFICES ASSUME NEW k \in Tracks, NEW i \in DOMAIN history.tracks[k]
                 PROVE  history.tracks[k][i].pid = detailsPid
      BY DEF Entries
    <3>1. PICK s \in Seq(Entry(detailsPid)) : s = history.tracks[k]
      BY <2>1 DEF Good, Beside
    <3>2. s[i] \in Entry(detailsPid)
      BY <3>1
    <3>. QED  BY <3>1, <3>2 DEF Entry
  <2>3. history.timer \in 0 .. SampleInterval - 1
        /\ history.timestamps \in Seq(0 .. clock)
    <3>1. history.timer \in Nat /\ history.timer < SampleInterval
          /\ SampleInterval \in Nat
      BY <2>1, ProcessDetailsAssumption DEF Good, HistoryOf
    <3>. QED  BY <2>1, <3>1, GoodAligned
  <2>4. procs \in [Pids -> [alive : BOOLEAN, start : 0 .. clock, nice : Nices]]
    BY <2>1 DEF ShownInv, WorldInv
  <2>5. TypeOK
    BY <2>1, <2>3, <2>4, ProcessDetailsAssumption
       DEF ShownInv, FrameInv, WorldInv, SnapshotInv, TypeOK
  <2>. QED  BY <2>2, <2>5 DEF ShowsSelection, ShownInv, FrameInv, SnapshotInv
<1>. QED  BY <1>1, ShownInitially, ShownStep, PTL DEF Spec
================================================================================
