--------------------------------- MODULE Charts ---------------------------------
(***************************************************************************)
(* How the panels put histories on a time axis: UI::Widgets                *)
(* (src/src/UI/ChartWidgets.h).  A history is a sequence, oldest entry     *)
(* first; positions count from 1.                                          *)
(***************************************************************************)
EXTENDS Integers, Sequences, TimeWindow, FiniteSetsExt

Distance(a, b) == IF a < b THEN b - a ELSE a - b
Between(v, low, high) == IF v < low THEN low ELSE IF v > high THEN high ELSE v

------------------------------------------------------------------------------
\* Ages of the newest desiredCount entries, relative to now.
buildTimeAxis(timestamps, desiredCount, now) ==
    LET n == Min({desiredCount, Len(timestamps)})
    IN  [i \in 1 .. n |-> timestamps[Len(timestamps) - n + i] - now]

cropFrontToSize(data, targetSize) == KeepLast(data, targetSize)

\* How far the visible window is scrolled back: no further than the history.
ClampedOffset(desired, span, visible) ==
    Between(desired, 0, Max({0, span - visible}))

makeTimeAxisConfig(timestamps, visible, desired) ==
    LET span   == IF timestamps = <<>> THEN 0
                  ELSE Max({0, timestamps[Len(timestamps)] - timestamps[1]})
        offset == ClampedOffset(desired, span, visible)
    IN  [xMin |-> 0 - visible - offset, xMax |-> 0 - offset]

\* The nearer of the points on the two sides of x; the earlier one if equal.
Nearer(times, x, upper) ==
    IF Distance(times[upper], x) < Distance(times[upper - 1], x)
    THEN upper ELSE upper - 1

\* The point a tooltip describes, found by std::lower_bound; 0 if none.
hoveredIndexFromPlotX(times, x) ==
    LET notBelow == {i \in DOMAIN times : times[i] >= x}
    IN  IF times = <<>> THEN 0
        ELSE IF notBelow = {} THEN Len(times)
        ELSE IF Min(notBelow) = 1 THEN 1
        ELSE Nearer(times, x, Min(notBelow))

\* What a section draws: as many of the newest entries as there are times
\* for, against the ages of the newest timestamps.
Drawn(timestamps, entries, now) ==
    LET aligned == Min({Len(timestamps), Len(entries)})
    IN  [times   |-> buildTimeAxis(timestamps, aligned, now),
         entries |-> cropFrontToSize(entries, aligned)]
==============================================================================
