------------------------------ MODULE Calendar ------------------------------
(***************************************************************************)
(* std/time: the conversions between seconds since 1970 and calendar       *)
(* fields that the library makes itself (sys/mod.rs with sys/unix.rs,      *)
(* sys/windows.rs and sys/stub.rs) and the Time values built on the time   *)
(* crate (time.rs).  A number of seconds is a day and a second of the day, *)
(* so that it stays small; the functions of the C library, of Windows and  *)
(* of the time crate are given by what they compute (External).  The clock *)
(* moves on, the zone may change, and the program makes and converts one   *)
(* Time value a day.                                                       *)
(***************************************************************************)
EXTENDS Integers, FiniteSets, Sequences

CONSTANTS Years,      \* the years the clock visits
          Zones,      \* local offsets in seconds east of UTC
          Null

VARIABLES
    sys,      \* which inner module is compiled in
    zone,     \* the offset of local time
    ts,       \* Timespec::now: day and sec
    offset,   \* what GLOBAL_OFFSET was found to be; Null: nobody has asked yet
    t         \* a Time: its instant and its offset; or Null

vars == <<sys, zone, ts, offset, t>>

DaySecs == 86400

\* A second of the day outside the day is carried over.
Norm(day, sec) == [day |-> day + sec \div DaySecs, sec |-> sec % DaySecs]
Plus(s, secs) == Norm(s.day, s.sec + secs)

-----------------------------------------------------------------------------
(* External: the proleptic Gregorian calendar.                             *)

DaysBefore(y) == 365 * (y - 1970) + ((y - 1) \div 4 - (y - 1) \div 100 + (y - 1) \div 400) - 477
BeforeMonth(y, m) ==
    <<0, 31, 59, 90, 120, 151, 181, 212, 243, 273, 304, 334, 365>>[m + 1]
    + IF m > 1 /\ DaysBefore(y + 1) - DaysBefore(y) = 366 THEN 1 ELSE 0

\* The fields of a moment, months counted from 0 and years from 1900.
Civil(s) ==
    LET y == CHOOSE n \in (1969 + s.day \div 366) .. (1971 + s.day \div 365) :
                DaysBefore(n) <= s.day /\ s.day < DaysBefore(n + 1)
        yday == s.day - DaysBefore(y)
        mon == CHOOSE m \in 0 .. 11 : BeforeMonth(y, m) <= yday /\ yday < BeforeMonth(y, m + 1)
    IN  [year |-> y - 1900, mon |-> mon, mday |-> yday - BeforeMonth(y, mon) + 1,
         yday |-> yday, wday |-> (s.day + 4) % 7, sec |-> s.sec, utcoff |-> 0]

\* timegm, SystemTimeToFileTime
FromCivil(tm) ==
    [day |-> DaysBefore(tm.year + 1900) + BeforeMonth(tm.year + 1900, tm.mon) + tm.mday - 1,
     sec |-> tm.sec]

-----------------------------------------------------------------------------
(* sys/stub.rs                                                             *)

\* Mutant: no century is a leap year.
leapyear_no_century(year) == year % 4 = 0 /\ year % 100 # 0

leapyear(year) == year % 4 = 0 /\ (year % 100 # 0 \/ year % 400 = 0)

YTAB(year) == <<31, IF leapyear(year) THEN 29 ELSE 28, 31, 30, 31, 30, 31, 31, 30, 31, 30, 31>>

\* years are taken off from 1970 on, then months; the fields are always UTC.
time_to_tm(s) ==
    LET yearsize(y) == IF leapyear(y) THEN 366 ELSE 365
        left(y) == s.day - 365 * (y - 1970) - Cardinality({z \in 1970 .. y - 1 : leapyear(z)})
        year == CHOOSE y \in 1970 + s.day \div 366 .. 1970 + s.day \div 365 : 0 <= left(y) /\ left(y) < yearsize(y)
        dayno == left(year)
        rest[m \in 0 .. 11] == IF m = 0 THEN dayno ELSE rest[m - 1] - YTAB(year)[m]
        mon == CHOOSE m \in 0 .. 11 : rest[m] < YTAB(year)[m + 1] /\ \A k \in 0 .. m - 1 : rest[k] >= YTAB(year)[k + 1]
    IN  [year |-> year - 1900, mon |-> mon, mday |-> rest[mon] + 1, yday |-> dayno,
         wday |-> (s.day + 4) % 7, sec |-> s.sec, utcoff |-> 0]

\* Mutant: January and February are not counted as months of the year before.
tm_to_time_same_year(tm) ==
    LET y == tm.year + 1900
        m == tm.mon + 1
    IN  [day |-> 365 * y + y \div 4 - y \div 100 + y \div 400 + (3 * (m + 1)) \div 5 + 30 * m + tm.mday - 719561,
         sec |-> tm.sec]

tm_to_time(tm) ==
    LET early == tm.mon + 1 <= 2
        y == IF early THEN tm.year + 1899 ELSE tm.year + 1900
        m == IF early THEN tm.mon + 13 ELSE tm.mon + 1
    IN  [day |-> 365 * y + y \div 4 - y \div 100 + y \div 400 + (3 * (m + 1)) \div 5 + 30 * m + tm.mday - 719561,
         sec |-> tm.sec]

-----------------------------------------------------------------------------
(* sys/windows.rs: file times count from 1601.                             *)

FileTimeEpoch == 134774                  \* days from 1601 to 1970
time_to_file_time(s) == [s EXCEPT !.day = @ + FileTimeEpoch]
file_time_to_unix_seconds(ft) == [ft EXCEPT !.day = @ - FileTimeEpoch]

\* year is counted from 1900 and month from 1.
yday(year, month, day) ==
    LET leap == IF month > 2 THEN (IF year % 4 = 0 THEN 1 ELSE 2) ELSE 0
        july == IF month > 7 THEN 1 ELSE 0
    IN  (month - 1) * 30 + month \div 2 + (day - 1) - leap + july

tm_to_system_time(tm) ==
    [wSecond |-> tm.sec, wDay |-> tm.mday, wDayOfWeek |-> tm.wday, wMonth |-> tm.mon + 1,
     wYear |-> tm.year + 1900]

system_time_to_tm(w) ==
    [year |-> w.wYear - 1900, mon |-> w.wMonth - 1, mday |-> w.wDay,
     yday |-> yday(w.wYear - 1900, w.wMonth, w.wDay), wday |-> w.wDayOfWeek,
     sec |-> w.wSecond, utcoff |-> 0]

\* The offset is the difference of the two times.
WindowsTimeToLocalTm(s) ==
    LET local == file_time_to_unix_seconds(time_to_file_time(Plus(s, zone))) IN
    [system_time_to_tm(tm_to_system_time(Civil(local))) EXCEPT
        !.utcoff = (local.day - s.day) * DaySecs + local.sec - s.sec]

SystemTimeToUnix(w) ==
    file_time_to_unix_seconds(time_to_file_time(
        FromCivil([year |-> w.wYear - 1900, mon |-> w.wMonth - 1, mday |-> w.wDay, sec |-> w.wSecond])))

WindowsUtcTmToTime(tm) == SystemTimeToUnix(tm_to_system_time(tm))
WindowsLocalTmToTime(tm) == Plus(SystemTimeToUnix(tm_to_system_time(tm)), -zone)

-----------------------------------------------------------------------------
(* sys/unix.rs: localtime_r, timegm and mktime do the work.                *)

tm_to_rust_tm(tm, utcoff) == [tm EXCEPT !.utcoff = utcoff]
rust_tm_to_tm(tm) == [tm EXCEPT !.utcoff = 0]

UnixTimeToLocalTm(s) == tm_to_rust_tm(Civil(Plus(s, zone)), zone)
UnixUtcTmToTime(tm) == FromCivil(rust_tm_to_tm(tm))
UnixLocalTmToTime(tm) == Plus(FromCivil(rust_tm_to_tm(tm)), -zone)

-----------------------------------------------------------------------------
(* sys/mod.rs                                                              *)

\* Timespec::local
TimespecLocal(s) ==
    CASE sys = "unix" -> UnixTimeToLocalTm(s)
      [] sys = "windows" -> WindowsTimeToLocalTm(s)
      [] sys = "stub" -> time_to_tm(s)

utc_tm_to_time(tm) ==
    CASE sys = "unix" -> UnixUtcTmToTime(tm)
      [] sys = "windows" -> WindowsUtcTmToTime(tm)
      [] sys = "stub" -> tm_to_time(tm)

local_tm_to_time(tm) ==
    CASE sys = "unix" -> UnixLocalTmToTime(tm)
      [] sys = "windows" -> WindowsLocalTmToTime(tm)
      [] sys = "stub" -> tm_to_time(tm)

to_timespec(tm) == IF tm.utcoff = 0 THEN utc_tm_to_time(tm) ELSE local_tm_to_time(tm)

-----------------------------------------------------------------------------
(* time.rs: a Time is an instant at an offset.                             *)

\* Lazy: the first use asks for the offset of the moment, the others get the same.
GLOBAL_OFFSET == IF offset = Null THEN TimespecLocal(ts).utcoff ELSE offset

now == [at |-> ts, off |-> GLOBAL_OFFSET]
now_utc == [at |-> ts, off |-> 0]
utc(x) == [x EXCEPT !.off = 0]
local(x) == [x EXCEPT !.off = GLOBAL_OFFSET]

date(x) == LET c == Civil(Plus(x.at, x.off)) IN <<c.year + 1900, c.mon + 1, c.mday>>

\* i64 of a Month, and the name it is looked up for.
MonthI64(m) == IF m = 12 THEN 23 ELSE m
MonthName(m) == IF MonthI64(m) \in 1 .. 12 THEN MonthI64(m) ELSE "panic"

-----------------------------------------------------------------------------
Init ==
    /\ sys \in {"unix", "windows", "stub"}
    /\ zone \in IF sys = "stub" THEN {0} ELSE Zones
    /\ \E y \in Years : ts = [day |-> DaysBefore(y), sec |-> 43210]
    /\ offset = Null
    /\ t = Null

\* The clock moves on within the year; summer time may begin or end.
Advance ==
    /\ ts' = [day |-> ts.day + 1, sec |-> (ts.sec + 12345) % DaySecs]
    /\ Civil(ts').year = Civil(ts).year
    /\ zone' \in IF sys = "stub" THEN {0} ELSE Zones
    /\ t' = Null
    /\ UNCHANGED <<sys, offset>>

Now ==
    /\ t = Null
    /\ \/ t' = now /\ offset' = GLOBAL_OFFSET
       \/ t' = now_utc /\ UNCHANGED offset
    /\ UNCHANGED <<sys, zone, ts>>

Convert ==
    /\ t # Null
    /\ \/ t' = local(t) /\ offset' = GLOBAL_OFFSET
       \/ t' = utc(t) /\ UNCHANGED offset
    /\ UNCHANGED <<sys, zone, ts>>

Next == Advance \/ Now \/ Convert

Spec == Init /\ [][Next]_vars

-----------------------------------------------------------------------------
\* sys/mod.rs:43-114, sys/stub.rs:13-63, sys/windows.rs:50-145.  The calendar fields computed
\* for the local time are the right ones and lead back to the same moment, on every
\* system: except the day of the year on Windows, which is one too high in August,
\* October and December and takes each fourth year for a leap year.
LocalTimeRight ==
    LET tm == TimespecLocal(ts)
        civil == Civil(Plus(ts, zone))
        wrong == sys = "windows" /\ (civil.mon \in {7, 9, 11} \/ civil.year = 200)
    IN  /\ [tm EXCEPT !.utcoff = 0, !.yday = 0] = [civil EXCEPT !.yday = 0]
        /\ tm.yday = civil.yday \/ wrong
        /\ tm.utcoff = zone
        /\ to_timespec(tm) = ts

\* time.rs:27-50, 125-128, 259-270, 446-458.  A Time at the local offset shows the date that
\* Timespec::local shows for the same moment, as long as the zone is the one in which
\* GLOBAL_OFFSET was first used: it is not asked for again.  The month of a Time has a
\* name, except December.
TimesShowLocalDate ==
    t # Null =>
        /\ t.off = offset /\ offset = zone =>
              LET tm == TimespecLocal(t.at) IN date(t) = <<tm.year + 1900, tm.mon + 1, tm.mday>>
        /\ date(t)[2] = 12 \/ MonthName(date(t)[2]) = date(t)[2]
=============================================================================
