------------------------------- MODULE Theme -------------------------------
(* UI::Theme and UI::ThemeLoader (src/src/UI): the schemes found in the       *)
(* themes directories, the one in force, the one to take effect at the next   *)
(* frame, and the font size. The singleton is one record; its colours and     *)
(* fonts are not modelled. A themes directory is the set of its .toml files,  *)
(* each with its id, the rank of its name among all names, and whether it can *)
(* be parsed and loaded; {} stands for a directory that is missing too.       *)
EXTENDS Naturals, Sequences, FiniteSets

CONSTANTS
    DefaultTheme,   \* "arctic-fire", preferred by loadThemes
    Fallback,       \* id of the scheme built into the program
    FontCount       \* FontSize::Count: the sizes are 1 .. FontCount

ASSUME ThemeAssumption == FontCount \in Nat /\ FontCount >= 2

NoTheme == 0   \* m_PendingThemeIndex holds nothing
Medium == 2

(* Theme(), with its fallback scheme. *)
NewTheme == [ids |-> <<Fallback>>, current |-> 1, pending |-> NoTheme, font |-> Medium]

IndexOf(ids, id) == CHOOSE i \in DOMAIN ids : ids[i] = id /\ \A j \in 1..(i - 1) : ids[j] # id
Listed(ids, id) == \E i \in DOMAIN ids : ids[i] = id

(* discoverThemes(themesDir): the files that can be parsed. *)
DiscoverThemes(dir) == {f \in dir : f.parses}

(* loadTheme(path), for each: those it returns a scheme for. *)
Loadable(files) == {f \in files : f.loads}

(* The ids of files in the order of their names, in which both go through them. *)
IdsByName(files) ==
    LET Place(f) == Cardinality({g \in files : g.name <= f.name})
    IN  [i \in 1 .. Cardinality(files) |-> (CHOOSE f \in files : Place(f) = i).id]

(* loadThemes(themesDir): what it finds takes the place of what was there;    *)
(* nothing found leaves all as it was, nothing loaded adds the fallback.      *)
LoadThemes(dir, theme) ==
    LET found == DiscoverThemes(dir)
        good == Loadable(found)
        ids == IdsByName(good)
    IN  CASE found = {} -> theme
          [] found # {} /\ good = {} -> [theme EXCEPT !.ids = Append(@, Fallback)]
          [] OTHER -> [theme EXCEPT
                          !.ids = ids,
                          !.current = IF Listed(ids, DefaultTheme) THEN IndexOf(ids, DefaultTheme) ELSE 1]

CurrentThemeId(theme) == theme.ids[theme.current]

(* setTheme(index): only queued, an index out of range is ignored. *)
SetTheme(index, theme) ==
    IF index \in DOMAIN theme.ids THEN [theme EXCEPT !.pending = index] ELSE theme

SetThemeById(id, theme) ==
    IF Listed(theme.ids, id) THEN SetTheme(IndexOf(theme.ids, id), theme) ELSE theme

(* applyPendingTheme(), first thing of a frame. *)
ApplyPendingTheme(theme) ==
    LET taken == [theme EXCEPT !.pending = NoTheme]
    IN  IF theme.pending \in DOMAIN theme.ids THEN [taken EXCEPT !.current = theme.pending] ELSE taken

SetFontSize(size, theme) == [theme EXCEPT !.font = size]

(* Ctrl and plus, Ctrl and minus; at either end nothing changes. *)
IncreaseFontSize(theme) == IF theme.font < FontCount THEN SetFontSize(theme.font + 1, theme) ELSE theme
DecreaseFontSize(theme) == IF theme.font > 1 THEN SetFontSize(theme.font - 1, theme) ELSE theme
=============================================================================
