------------------------------ MODULE Schedule ------------------------------
(***************************************************************************)
(* The schedule of a session (Schedule::test, create_schedule, the timer   *)
(* event activation_service).  Time runs in slots of a day; the event is   *)
(* called in every slot.                                                   *)
(***************************************************************************)
EXTENDS Integers

CONSTANTS
    WeekDays,  \* days of a week
    Slots,     \* slots of a day
    Weeks      \* weeks observed

ASSUME ScheduleAssumption == {WeekDays, Slots, Weeks} \subseteq Nat \ {0}

VARIABLES
    sch,      \* [start, end, start_day, end_day]
    now,      \* slot of the week
    polls,    \* calls of activation_service so far
    active    \* Session::_active

scheduleVars == <<sch, now, polls, active>>

None == -1

(* An attribute of the configuration that was not given.                   *)
Attribute(S) == S \cup {None}

Configs == [start: 0 .. Slots - 1, end: Attribute(0 .. Slots - 1),
            duration: 0 .. Slots, start_day: Attribute(0 .. WeekDays - 1),
            end_day: Attribute(0 .. WeekDays - 1)]

(* An end not after the start is an error; no end is an error value.       *)
Throws(c) == c.end # None /\ c.end <= c.start

create_schedule(c) ==
    [start     |-> c.start,
     end       |-> IF c.end = None /\ c.duration > 0 THEN c.start + c.duration ELSE c.end,
     start_day |-> c.start_day,
     end_day   |-> IF c.end_day = None THEN c.start_day ELSE c.end_day]

-----------------------------------------------------------------------------
Day(n) == (n \div Slots) % WeekDays

Time(n) == n % Slots

(* Adding an error value, the largest, to today's midnight wraps to a time *)
(* before all others.                                                      *)
in_range(s, t) == s.end # None /\ s.start <= t /\ t <= s.end

past_end(s, t) == s.end = None \/ t > s.end

(* Mutant: a weekly schedule ends with the day after its last one.         *)
test_late(s, prev, n) ==
    LET d == Day(n) t == Time(n)
    IN  IF s.start_day < 0 THEN in_range(s, t)
        ELSE IF ~prev THEN
            /\ \/ s.start_day > s.end_day /\ (d >= s.start_day \/ d <= s.end_day)
               \/ s.start_day < s.end_day /\ d >= s.start_day /\ d <= s.end_day
            /\ in_range(s, t)
        ELSE
            ~ (/\ \/ s.start_day > s.end_day /\ d < s.start_day /\ d > s.end_day
                  \/ s.start_day < s.end_day /\ d > s.end_day
               /\ past_end(s, t))

(* Schedule::test.                                                         *)
test(s, prev, n) ==
    LET d == Day(n) t == Time(n)
    IN  IF s.start_day < 0 THEN in_range(s, t)
        ELSE IF ~prev THEN
            /\ \/ s.start_day > s.end_day /\ (d >= s.start_day \/ d <= s.end_day)
               \/ s.start_day < s.end_day /\ d >= s.start_day /\ d <= s.end_day
            /\ in_range(s, t)
        ELSE
            ~ (/\ \/ s.start_day > s.end_day /\ d < s.start_day /\ d > s.end_day
                  \/ s.start_day < s.end_day /\ d >= s.end_day
               /\ past_end(s, t))

ScheduleInit ==
    /\ \E c \in Configs : ~Throws(c) /\ sch = create_schedule(c)
    /\ now \in 0 .. WeekDays * Slots - 1
    /\ polls = 0
    /\ active = TRUE

(* A slot passes.                                                          *)
activation_service ==
    /\ polls < Weeks * WeekDays * Slots
    /\ polls' = polls + 1
    /\ now' = (now + 1) % (WeekDays * Slots)
    /\ active' = test(sch, active, now')
    /\ UNCHANGED sch

ScheduleSpec == ScheduleInit /\ [][activation_service]_scheduleVars

-----------------------------------------------------------------------------
(* The times a schedule names: every day from start to end, or from the    *)
(* start of its first day to the end of its last, in one week.             *)
Window(s, n) ==
    LET at == Time(n) + Slots * Day(n)
    IN  IF s.start_day < 0
        THEN s.start <= Time(n) /\ Time(n) <= s.end
        ELSE /\ s.start + Slots * s.start_day <= at
             /\ at <= s.end + Slots * s.end_day

(* Schedules that end in the same day, with time left for a call before    *)
(* midnight, and with days in the order of a week.                         *)
Ordinary(s) ==
    /\ s.end # None /\ s.end < Slots - 1
    /\ s.start_day < 0 \/ s.start_day < s.end_day

(* Whenever in the week the session was made, active as every session is   *)
(* at first, after a week it is active exactly in the times its schedule   *)
(* names, though the test only looks at the flag and the clock             *)
(* (Schedule::test, Session::activation_service).                          *)
ScheduleFollowed ==
    polls >= WeekDays * Slots /\ Ordinary(sch) => (active <=> Window(sch, now))

=============================================================================
