------------------------------ MODULE MCRestart ------------------------------
(* An instance of Application: two built-in themes, a directory of the user's *)
(* own that is empty, holds a theme that loads or one that does not, config   *)
(* files with values beyond every bound, and three font sizes.                *)
EXTENDS Application

ThemeFile(id, name, parses, loads) == [id |-> id, name |-> name, parses |-> parses, loads |-> loads]
MCBuiltIn == { ThemeFile("bright", 2, TRUE, TRUE), ThemeFile(DefaultTheme, 3, TRUE, TRUE) }
MCUserDirs ==
    { {}, { ThemeFile("own", 1, TRUE, TRUE), ThemeFile("garbled", 4, FALSE, FALSE) },
      { ThemeFile("faulty", 1, TRUE, FALSE) } }
MCHandWritten ==
    { [interval |-> 0, themeId |-> "own", fontSize |-> 9, size |-> 0, pos |-> FarthestPos + 1],
      [interval |-> 750, history |-> IntMax + 1, themeId |-> "bright", size |-> MaxSize + 1, maximized |-> TRUE] }
==============================================================================
