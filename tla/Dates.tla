------------------------------- MODULE Dates -------------------------------
(***************************************************************************)
(* Dates between text and seconds (field.hpp), against a calendar that     *)
(* counts days month by month.  A time is a pair of days and seconds of    *)
(* the day, so that 32 bits of seconds are within reach of TLC's numbers.  *)
(***************************************************************************)
EXTENDS Integers, Sequences

CONSTANT LastYear  \* last year of a date; a comment in time_to_epoch says it "works till 2100"

ASSUME DatesAssumption == LastYear \in 1970 .. 2099

VARIABLES
    year, mon,  \* the month the calendar has come to
    first       \* days from 1 January 1970 to its first

dateVars == <<year, mon, first>>

-----------------------------------------------------------------------------
(* A number as width digits, the last one first, and back.                 *)
Tens == <<1, 10, 100, 1000>>

format0(data, width) == [i \in 1 .. width |-> (data \div Tens[width - i + 1]) % 10]

parse_decimal(digits) ==
    LET to[len \in 0 .. Len(digits)] ==
            IF len = 0 THEN 0 ELSE 10 * to[len - 1] + digits[len]
    IN  to[Len(digits)]

(* The digits from one place on. *)
Part(digits, at, width) == SubSeq(digits, at, at + width - 1)

TmBase == 1900  \* tm.year counts from here

mon_days == <<0, 31, 59, 90, 120, 151, 181, 212, 243, 273, 304, 334, 365>>

(* 2^31 s are 24855 days and 11648 s, and fall in January 2038.            *)
Late(t) == t.days > 24855 \/ (t.days = 24855 /\ t.secs >= 11648)

(* The code's seconds are an int: days * 86400 + secs, which from 2^31 s   *)
(* wraps to a value 2^32 s less, and these are 49710 days and 23296 s.     *)
Wrapped(t) ==
    IF ~Late(t) THEN t
    ELSE IF t.secs >= 23296 THEN [days |-> t.days - 49710, secs |-> t.secs - 23296]
    ELSE [days |-> t.days - 49711, secs |-> t.secs + 86400 - 23296]

(* Mutant: a leap day is counted from the first of January.                *)
time_to_epoch_early(tm) ==
    LET tyears == IF tm.year # 0 THEN tm.year - 70 ELSE 0
        tdays == mon_days[tm.mon + 1] + (IF tm.mday # 0 THEN tm.mday - 1 ELSE 0)
                 + tyears * 365 + (tyears + 2) \div 4
    IN  Wrapped([days |-> tdays, secs |-> tm.hour * 3600 + tm.min * 60 + tm.sec])

(* tm.year counts from 1900, tm.mon from 0.                                *)
time_to_epoch(tm) ==
    LET tyears == IF tm.year # 0 THEN tm.year - 70 ELSE 0
        leap   == IF tm.year # 0 /\ tm.year % 4 = 0 /\ tm.mon < 2 THEN 1 ELSE 0
        tdays  == mon_days[tm.mon + 1] + (IF tm.mday # 0 THEN tm.mday - 1 ELSE 0)
                  + tyears * 365 + (tyears + 2) \div 4 - leap
    IN  Wrapped([days |-> tdays, secs |-> tm.hour * 3600 + tm.min * 60 + tm.sec])

(* The digits of a time stamp; separators carry nothing.                   *)
date_time_format(tm) ==
    format0(tm.year + TmBase, 4) \o format0(tm.mon + 1, 2) \o format0(tm.mday, 2)
    \o format0(tm.hour, 2) \o format0(tm.min, 2) \o format0(tm.sec, 2)

date_time_parse(digits) ==
    LET Read(at, width) == parse_decimal(Part(digits, at, width))
    IN  time_to_epoch([year |-> Read(1, 4) - TmBase, mon |-> Read(5, 2) - 1,
                       mday |-> Read(7, 2), hour |-> Read(9, 2), min |-> Read(11, 2),
                       sec |-> Read(13, 2)])

(* YYYYMMDD, or YYYYMM for the first of the month.                         *)
date_parse(digits) ==
    time_to_epoch([year |-> parse_decimal(Part(digits, 1, 4)) - TmBase,
                   mon |-> parse_decimal(Part(digits, 5, 2)) - 1,
                   mday |-> IF Len(digits) = 8 THEN parse_decimal(Part(digits, 7, 2)) ELSE 1,
                   hour |-> 0, min |-> 0, sec |-> 0])

-----------------------------------------------------------------------------
(* The calendar *)

IsLeap(y) == y % 4 = 0 /\ (y % 100 # 0 \/ y % 400 = 0)

DaysIn(y, m) ==
    CASE m = 2 -> IF IsLeap(y) THEN 29 ELSE 28
      [] m \in {4, 6, 9, 11} -> 30
      [] OTHER -> 31

DatesInit == year = 1970 /\ mon = 1 /\ first = 0

NextMonth ==
    /\ year < LastYear \/ mon < 12
    /\ IF mon = 12 THEN year' = year + 1 /\ mon' = 1 ELSE mon' = mon + 1 /\ UNCHANGED year
    /\ first' = first + DaysIn(year, mon)

DatesSpec == DatesInit /\ [][NextMonth]_dateVars

(* Moments of a day, and the day d of the month at one of them; on 19      *)
(* January 2038 the seconds reach 2^31 between the second and the third.   *)
Moments == {<<0, 0, 0>>, <<3, 14, 7>>, <<3, 14, 8>>, <<23, 59, 59>>}

At(d, t) == [year |-> year - TmBase, mon |-> mon - 1, mday |-> d,
             hour |-> t[1], min |-> t[2], sec |-> t[3]]

Epoch(d, t) == [days |-> first + d - 1, secs |-> 3600 * t[1] + 60 * t[2] + t[3]]

Midnight == <<0, 0, 0>>

(* The three texts of that time, read again, and what they mean.           *)
Read(d, t) ==
    [stamp |-> date_time_parse(date_time_format(At(d, t))),
     date  |-> date_parse(Part(date_time_format(At(d, t)), 1, 8)),
     month |-> date_parse(Part(date_time_format(At(d, t)), 1, 6))]

Meant(d, t) ==
    [stamp |-> Epoch(d, t), date |-> Epoch(d, Midnight), month |-> Epoch(1, Midnight)]

(* A time stamp, a date or a month written and read again is the number of *)
(* seconds that the calendar counts, as long as they are below 2^31        *)
(* (time_to_epoch, date_time_parse, date_parse).                           *)
DatesExact ==
    year >= 1970 =>
        \A d \in 1 .. DaysIn(year, mon), t \in Moments, kind \in {"stamp", "date", "month"} :
           ~Late(Meant(d, t)[kind]) => Read(d, t)[kind] = Meant(d, t)[kind]

(* A comment in time_to_epoch says that it "works till 2100": then there   *)
(* would be no other bound on what is read again.                          *)
WorksTill2100 ==
    year >= 1970 =>
        \A d \in 1 .. DaysIn(year, mon), t \in Moments : Read(d, t) = Meant(d, t)

=============================================================================
