--------------------------------- MODULE Format ---------------------------------
(* UI::Format (src/src/UI/Format.h): the functions that take a value apart    *)
(* before it is written: bytes and percentages into a unit, digits and a      *)
(* decimal, an affinity mask into ranges, a time into the day it is on; and   *)
(* the axis and tooltip of a chart (Charts).                                  *)
(* One number stands for the argument of each of them.                        *)
EXTENDS Integers, Sequences, FiniteSets, SequencesExt, Charts

CONSTANTS
    Kilo,           \* 1024
    MaskBits,       \* 64
    FirstYears,     \* days are counted from the first of January of one of these
    LeapYears,      \* by the calendar
    MaxArgument     \* bound

ASSUME FormatAssumption ==
    /\ Kilo \in Nat \ {0, 1} /\ MaskBits \in Nat \ {0} /\ MaxArgument \in Nat
    /\ FirstYears \subseteq Nat /\ LeapYears \subseteq Nat
    /\ \A first \in FirstYears : \A year \in first..(first + MaxArgument \div 365) :
          year \in LeapYears <=> year % 4 = 0 /\ (year % 100 # 0 \/ year % 400 = 0)

VARIABLES argument, firstYear
formatVars == <<argument, firstYear>>

FormatInit == argument = 0 /\ firstYear \in FirstYears
NextArgument ==
    /\ argument < MaxArgument
    /\ argument' = argument + 1
    /\ UNCHANGED firstYear
FormatNext == NextArgument
FormatSpec == FormatInit /\ [][FormatNext]_formatVars
-----------------------------------------------------------------------------
(* Faulty variants of operators below.                                       *)

(* Ten tenths are shown as such. *)
NotCarried(whole, tenths) == [whole |-> whole, tenths |-> tenths]
-----------------------------------------------------------------------------
(* Bytes and percentages.                                                    *)

(* chooseByteUnit *)
Scale(bytes) ==
    IF bytes >= Kilo * Kilo * Kilo THEN Kilo * Kilo * Kilo
    ELSE IF bytes >= Kilo * Kilo THEN Kilo * Kilo
    ELSE IF bytes >= Kilo THEN Kilo ELSE 1

(* "Handle rounding overflow (e.g., 0.95 -> 10 -> carry to whole part)" *)
Carried(whole, tenths) ==
    IF tenths >= 10 THEN [whole |-> whole + 1, tenths |-> 0] ELSE [whole |-> whole, tenths |-> tenths]

(* The whole part of value / scale, and the rest rounded to tenths: what      *)
(* splitBytesForAlignment, its fast path and splitPercentForAlignment share.  *)
Split(value, scale) ==
    Carried(value \div scale, (20 * (value % scale) + scale) \div (2 * scale))

(* splitPercentForAlignment of hundredths of a percent, clamped before and after. *)
SplitPercent(hundredths) ==
    LET parts == Split(IF hundredths > 10000 THEN 10000 ELSE hundredths, 100)
    IN  [parts EXCEPT !.whole = IF @ > 100 THEN 100 ELSE @]

(* Of splitBytesForAlignmentFast: where it puts separators among n digits,    *)
(* and what its buffer must hold, with the decimal point and a NUL.           *)
FirstGroup(n) == ((n - 1) % 3) + 1
SeparatorBefore(n) == {i \in 0..(n - 1) : i >= FirstGroup(n) /\ (i - FirstGroup(n)) % 3 = 0}
BufferUsed(n) == n + Cardinality(SeparatorBefore(n)) + 2
BufferSize == 32
-----------------------------------------------------------------------------
(* formatCpuAffinityMask: the ranges of processors in a mask, two in a row    *)
(* written as two of one each.                                               *)
Mask == {cpu \in 0..(MaskBits - 1) : (argument \div 2^cpu) % 2 = 1}

Written(start, end) ==
    IF start + 1 = end THEN << <<start, start>>, <<end, end>> >> ELSE << <<start, end>> >>

ScanCpu(scan, cpu) ==
    IF cpu \in Mask
    THEN [scan EXCEPT !.start = IF scan.start = -1 THEN cpu ELSE @, !.end = cpu]
    ELSE IF scan.start = -1 THEN scan
    ELSE [start |-> -1, end |-> -1, items |-> scan.items \o Written(scan.start, scan.end)]

Flushed(scan) == IF scan.start = -1 THEN scan.items ELSE scan.items \o Written(scan.start, scan.end)

AffinityItems ==
    Flushed(FoldLeft(ScanCpu, [start |-> -1, end |-> -1, items |-> <<>>], [i \in 1..MaskBits |-> i - 1]))
-----------------------------------------------------------------------------
(* formatEpochDateTimeShort: "today", "yesterday" or a date.                 *)

(* The calendar: localtime's year and day of the year. *)
YearLength(year) == IF year \in LeapYears THEN 366 ELSE 365
LocalTime(day) ==
    LET Year[d \in Nat] ==
            [y \in Nat |-> IF d < YearLength(y) THEN [year |-> y, yday |-> d]
                           ELSE Year[d - YearLength(y)][y + 1]]
    IN  Year[day][firstYear]

DaysInYear(year) ==
    IF year % 4 = 0 /\ (year % 100 # 0 \/ year % 400 = 0) THEN 366 ELSE 365

DayName(local, now) ==
    IF local = now THEN "today"
    ELSE IF \/ local.year = now.year /\ now.yday - local.yday = 1
            \/ local.year + 1 = now.year /\ local.yday = DaysInYear(local.year) - 1 /\ now.yday = 0
    THEN "yesterday" ELSE "date"
-----------------------------------------------------------------------------
(* A size is shown in the largest unit it has one of, a share in percent, as  *)
(* the nearest tenth with one digit behind the point; digits are grouped in   *)
(* threes from the right; and the fixed buffer holds any 64-bit number.       *)
DigitsNearest ==
    LET scale == Scale(argument)
        Nearest(value, unit, parts) ==
            LET off == (10 * parts.whole + parts.tenths) * unit - 10 * value
            IN  parts.tenths \in 0..9 /\ -unit <= 2 * off /\ 2 * off <= unit
        percent == IF argument * 5 > 10000 THEN 10000 ELSE argument * 5
    IN  /\ Nearest(argument, scale, Split(argument, scale))
        /\ scale > 1 => argument >= scale
        /\ scale < Kilo * Kilo * Kilo => argument < scale * Kilo
        /\ Nearest(percent, 100, SplitPercent(argument * 5))
        /\ SplitPercent(argument * 5).whole \in 0..100
        /\ argument \in 1..20 =>
              /\ SeparatorBefore(argument) = {i \in 1..(argument - 1) : (argument - i) % 3 = 0}
              /\ BufferUsed(argument) <= BufferSize

(* What is written of a mask reads back as the mask, in ascending order, with *)
(* one item for each run of processors, or two for a run of two.              *)
AffinityRead ==
    LET items == AffinityItems
        Run(a, b) == /\ a..b \subseteq Mask
                     /\ a - 1 \notin Mask /\ b + 1 \notin Mask
        runs == {r \in Mask \X Mask : r[1] <= r[2] /\ Run(r[1], r[2])}
    IN  /\ UNION {items[i][1]..items[i][2] : i \in DOMAIN items} = Mask
        /\ \A i \in DOMAIN items \ {1} : items[i - 1][2] < items[i][1]
        /\ Len(items) = Cardinality(runs) + Cardinality({r \in runs : r[1] + 1 = r[2]})

(* A start time is said to be today's or yesterday's exactly if it is,        *)
(* across the end of years, leap years and those that are not.                *)
DayNamed ==
    \A ago \in {-366, -365, -1, 0, 1, 2, 364, 365, 366} :
        ago <= argument =>
            DayName(LocalTime(argument - ago), LocalTime(argument)) =
                IF ago = 0 THEN "today" ELSE IF ago = 1 THEN "yesterday" ELSE "date"

(* An entry at each time in the mask. *)
Noted(times, time) == IF time \in Mask THEN Append(times, time) ELSE times

(* Of a chart of entries at any times: wherever the mouse is, the tooltip     *)
(* describes an entry than which none is nearer, the earlier of two; and      *)
(* however far the chart is scrolled back, it shows a window of the width     *)
(* chosen that reaches no further back than the oldest entry.                 *)
ChartsReadable ==
    LET timestamps == FoldLeft(Noted, <<>>, [i \in 1..MaskBits |-> i - 1])
        times == buildTimeAxis(timestamps, MaskBits, MaskBits)
    IN  /\ \A x \in -MaskBits - 1 .. 1 :
            LET i == hoveredIndexFromPlotX(times, x)
            IN  /\ i = 0 <=> times = <<>>
                /\ \A j \in DOMAIN times :
                      /\ Distance(times[i], x) <= Distance(times[j], x)
                      /\ j < i => Distance(times[i], x) < Distance(times[j], x)
        /\ \A visible \in {2, 5}, desired \in {-1, 1, MaskBits} :
            LET axis == makeTimeAxisConfig(timestamps, visible, desired)
            IN  /\ axis.xMax - axis.xMin = visible
                /\ axis.xMax <= 0
                /\ axis.xMax < 0 => times # <<>> /\ times[1] <= axis.xMin

(* What the tables, charts and details write of sizes, shares, masks and times. *)
FormatsTrue == DigitsNearest /\ AffinityRead /\ DayNamed /\ ChartsReadable
=============================================================================
