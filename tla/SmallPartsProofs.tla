-------------------------- MODULE SmallPartsProofs --------------------------
(***************************************************************************)
(* Three parts of the engine with a small state of their own, which share  *)
(* nothing but this module:                                                *)
(*   - for any number of failover servers and any max_retries, the         *)
(*     reliability thread keeps to the retries it was given for each       *)
(*     server;                                                             *)
(*   - for a week of any length, a session keeps to its schedule;          *)
(*   - for every day of a calendar that ends in 2099 or before, what was   *)
(*     written as a date is read back as what the calendar counts.         *)
(***************************************************************************)
EXTENDS ReliableClient, Schedule, Dates, SequenceTheorems, TLAPS

(* The failover part of the state.                                         *)
RetryTypes ==
    /\ failover \in Nat
    /\ max \in [Servers -> Nat] /\ retries \in [Servers -> Nat]
    /\ failover > 0 => current \in Servers
    /\ pc = "pick" => failover > 0

(* From a decision for a server to the end of the connection to it there   *)
(* is a retry left.                                                        *)
Trying == {"start", "connect", "init", "wait", "stop", "decide"}

RetryLeft(s) == max[s] = 0 \/ retries[s] < max[s]

(* The invariant of the failover loop.  Only a thread that has been asked  *)
(* to stop leaves the loop without a retry left, and then it ends.         *)
Turns ==
    /\ RetryTypes
    /\ \A s \in Servers : /\ max[s] = 0 \/ retries[s] <= max[s]
                          /\ s # current => retries[s] = 0
    /\ current \in Servers =>
           /\ pc \in Trying => RetryLeft(current)
           /\ pc \in {"loop", "sleep"} => token \/ RetryLeft(current)

(* Initially no server has been retried.                                   *)
LEMMA TurnsInit == Init => Turns
<1> SUFFICES ASSUME Init PROVE Turns
  OBVIOUS
<1>1. failover \in Nat /\ max \in [Servers -> Nat] /\ retries = [s \in Servers |-> 0]
  BY ReliableAssumption DEF Init
<1>2. pc = "loop" /\ current = 1
  BY DEF Init
<1>3. failover > 0 => current \in Servers
  BY <1>1, <1>2 DEF Servers
<1>4. \A s \in Servers : max[s] \in Nat /\ retries[s] = 0
  BY <1>1
<1>5. RetryTypes
  BY <1>1, <1>2, <1>3 DEF RetryTypes
<1> QED
  BY <1>2, <1>4, <1>5 DEF Turns, Trying, RetryLeft

(* Every step keeps the invariant; only Decide and PickServer touch the    *)
(* retries.                                                                *)
LEMMA TurnsNext == Turns /\ [Next]_vars => Turns'
<1> SUFFICES ASSUME Turns, [Next]_vars PROVE Turns'
  OBVIOUS
<1> USE ReliableAssumption DEF Turns, RetryTypes, Trying, RetryLeft, Servers
<1>0. UNCHANGED <<failover, max>>
  BY DEF Next, Configured, vars
<1>1. CASE LoopCheck
  BY <1>0, <1>1 DEF LoopCheck
<1>2. CASE StartClears \/ ConnectFails \/ Connects \/ StartInits \/ WaitEnds \/ StopsAndDeletes
  BY <1>0, <1>2 DEF StartClears, ConnectFails, Connects, StartInits, WaitEnds, StopsAndDeletes
<1>3. CASE Decide
  <2>1. CASE retries' = retries
    BY <1>0, <1>3, <2>1 DEF Decide
  <2>2. CASE retries' # retries
    <3>1. /\ failover > 0 /\ current \in Servers
          /\ retries' = [retries EXCEPT ![current] = @ + 1]
          /\ pc = "decide" /\ pc' = "pick"
          /\ UNCHANGED <<failover, max, current, token>>
      BY <1>0, <1>3, <2>2 DEF Decide
    <3>2. max[current] = 0 \/ retries[current] + 1 <= max[current]
      BY <3>1
    <3> QED
      BY <3>1, <3>2
  <2> QED
    BY <2>1, <2>2
<1>4. CASE PickServer
  <2>1. CASE token \/ (max[current] > 0 /\ retries[current] < max[current])
    BY <1>0, <1>4, <2>1 DEF PickServer
  <2>2. CASE ~(token \/ (max[current] > 0 /\ retries[current] < max[current]))
    <3>1. /\ retries' = [retries EXCEPT ![current] = 0]
          /\ current' = (current % failover) + 1
          /\ pc = "pick" /\ pc' = "pick"
          /\ UNCHANGED <<failover, max, token>>
      BY <1>0, <1>4, <2>2 DEF PickServer
    <3>2. failover > 0 /\ current \in Servers
      BY <3>1
    <3>3. current' \in Servers
      BY <3>1, <3>2
    <3>4. \A s \in Servers : retries'[s] = 0
      BY <3>1, <3>2
    <3> QED
      BY <3>1, <3>2, <3>3, <3>4
  <2> QED
    BY <2>1, <2>2
<1>5. CASE Sleeps
  BY <1>0, <1>5 DEF Sleeps
<1>6. CASE ReaderLeaves \/ ConnectionEnds \/ OwnerChecks \/ CloseStep
  BY <1>0, <1>6 DEF ReaderLeaves, ConnectionEnds, OwnerChecks, CloseStep, OwnerStops,
              DestructorRequests, DestructorJoins
<1>7. CASE UNCHANGED vars
  BY <1>0, <1>7 DEF vars
<1> QED
  BY <1>1, <1>2, <1>3, <1>4, <1>5, <1>6, <1>7 DEF Next, Steps, ThreadStep

(* However many servers there are and however the connections to them      *)
(* fail, no server is tried more often than its max_retries before the     *)
(* next one has its turn (ReliableClientSession::operator()).              *)
THEOREM RetriesAlwaysKept == Spec => []RetriesKept
<1>1. Turns => RetriesKept
  BY DEF Turns, RetryTypes, Trying, RetryLeft, RetriesKept, Servers
<1> QED
  BY <1>1, TurnsInit, TurnsNext, PTL DEF Spec

-----------------------------------------------------------------------------
(* The schedule. *)

Week == WeekDays * Slots

(* A slot of the week is a time of one of its days. *)
LEMMA Calendar ==
    ASSUME NEW n \in 0 .. Week - 1
    PROVE  /\ Day(n) \in 0 .. WeekDays - 1
           /\ Time(n) \in 0 .. Slots - 1
           /\ n = Time(n) + Slots * Day(n)
<1>1. WeekDays \in Nat \ {0} /\ Slots \in Nat \ {0} BY ScheduleAssumption
<1>2. n \in Nat /\ n < WeekDays * Slots BY <1>1 DEF Week
<1>3. n % Slots \in 0 .. Slots - 1 /\ n = Slots * (n \div Slots) + (n % Slots)
  BY <1>1, <1>2
<1>4. n \div Slots \in 0 .. WeekDays - 1 BY <1>1, <1>2, <1>3, SMTT(60)
<1>5. (n \div Slots) % WeekDays = n \div Slots BY <1>1, <1>4, SMTT(60)
<1>6. Day(n) = n \div Slots BY <1>5 DEF Day
<1>7. Time(n) = n % Slots BY DEF Time
<1> DEFINE d == n \div Slots
           t == n % Slots
<1>8. d \in 0 .. WeekDays - 1 /\ t \in 0 .. Slots - 1 /\ n = Slots * d + t BY <1>3, <1>4
<1>9. Slots * d \in Nat
  <2> HIDE DEF d
  <2> QED BY <1>1, <1>8
<1> HIDE DEF d, t
<1>10. n = t + Slots * d BY <1>1, <1>8, <1>9
<1> QED BY <1>6, <1>7, <1>8, <1>10 DEF d, t

(* A day ends before the next ones begin. *)
LEMMA DaysInOrder ==
    ASSUME NEW d \in Int, NEW e \in Int, d < e
    PROVE  Slots * d + Slots <= Slots * e
<1>1. Slots \in Nat \ {0} BY ScheduleAssumption
<1> QED BY <1>1, SMTT(60)

(* The next slot. *)
LEMMA NextSlot ==
    ASSUME NEW n \in 0 .. Week - 1
    PROVE  (n + 1) % Week = IF n = Week - 1 THEN 0 ELSE n + 1
<1>1. Week \in Nat \ {0} BY ScheduleAssumption DEF Week
<1>2. CASE n = Week - 1 BY <1>1, <1>2
<1>3. CASE n < Week - 1 BY <1>1, <1>3
<1> QED BY <1>1, <1>2, <1>3

(* The slots in which the window of a schedule with days begins and ends.  *)
Opens(s) == s.start + Slots * s.start_day

Closes(s) == s.end + Slots * s.end_day

(* What create_schedule makes of attributes it accepts. *)
ScheduleTypes ==
    /\ sch.start \in 0 .. Slots - 1
    /\ sch.start_day \in Attribute(0 .. WeekDays - 1)
    /\ sch.end_day \in Attribute(0 .. WeekDays - 1)
    /\ sch.end \in Int /\ (sch.end # None => sch.end >= sch.start)

(* A session that is active outside the window of its schedule was made    *)
(* there, and has not yet been polled in the slot after its end.           *)
ScheduleKept ==
    /\ now \in 0 .. Week - 1 /\ polls \in Nat /\ active \in BOOLEAN
    /\ ScheduleTypes
    /\ Ordinary(sch) /\ sch.start_day < 0 /\ polls > 0 => active = Window(sch, now)
    /\ Ordinary(sch) /\ sch.start_day >= 0 =>
           /\ Opens(sch) <= now /\ now <= Closes(sch) => active
           /\ active /\ now > Closes(sch) => polls < now - Closes(sch)
           /\ active /\ now < Opens(sch) => polls < now + Week - Closes(sch)

(* The numbers of a schedule with days. *)
LEMMA WindowNumbers ==
    ASSUME ScheduleTypes, Ordinary(sch), sch.start_day >= 0
    PROVE  /\ Opens(sch) \in Nat /\ Closes(sch) \in Nat
           /\ Opens(sch) < Closes(sch) /\ Closes(sch) + 1 < Week
           /\ sch.start_day \in Nat /\ sch.end_day \in Nat /\ sch.end \in Nat
           /\ sch.start_day < sch.end_day /\ sch.end_day < WeekDays
           /\ sch.start <= sch.end /\ sch.end < Slots - 1
<1>1. WeekDays \in Nat \ {0} /\ Slots \in Nat \ {0} BY ScheduleAssumption
<1>2. /\ sch.start \in Nat /\ sch.start < Slots /\ sch.end \in Nat
      /\ sch.start <= sch.end /\ sch.end < Slots - 1
      /\ sch.start_day \in Nat /\ sch.end_day \in Nat
      /\ sch.start_day < sch.end_day /\ sch.end_day < WeekDays
  BY <1>1 DEF ScheduleTypes, Ordinary, Attribute, None
<1> DEFINE a == Slots * sch.start_day
           b == Slots * sch.end_day
           w == Slots * WeekDays
<1>3. a \in Nat /\ b \in Nat /\ w \in Nat BY <1>1, <1>2
<1>4. a + Slots <= b BY <1>2, DaysInOrder
<1>5. b + Slots <= w BY <1>1, <1>2, DaysInOrder
<1>6. Week = w BY <1>1 DEF Week
<1>7. Opens(sch) = sch.start + a /\ Closes(sch) = sch.end + b BY DEF Opens, Closes
<1> HIDE DEF a, b, w
<1> QED BY <1>1, <1>2, <1>3, <1>4, <1>5, <1>6, <1>7

(* The test, at the times that matter: before and after the window it      *)
(* starts nothing, at its first slot it starts the session, inside it      *)
(* leaves the session alone and right after it ends the session.           *)
LEMMA TestAt ==
    ASSUME ScheduleTypes, Ordinary(sch), sch.start_day >= 0, NEW n \in 0 .. Week - 1
    PROVE  /\ n < Opens(sch) \/ n > Closes(sch) => ~test(sch, FALSE, n)
           /\ n = Opens(sch) => test(sch, FALSE, n)
           /\ Opens(sch) <= n /\ n <= Closes(sch) => test(sch, TRUE, n)
           /\ n = Closes(sch) + 1 => ~test(sch, TRUE, n)
<1> DEFINE d == Day(n)
           t == Time(n)
           x == Slots * d
           a == Slots * sch.start_day
           b == Slots * sch.end_day
           off == test(sch, FALSE, n)
           on == test(sch, TRUE, n)
<1>1. Slots \in Nat \ {0} BY ScheduleAssumption
<1>2. /\ sch.start_day \in Nat /\ sch.end_day \in Nat /\ sch.end \in Nat
      /\ sch.start_day < sch.end_day
      /\ sch.start <= sch.end /\ sch.end < Slots - 1
      /\ sch.start \in Nat
  BY WindowNumbers, <1>1 DEF ScheduleTypes
<1>3. d \in Nat /\ t \in Nat /\ t < Slots /\ n = t + x
  BY Calendar, <1>1, ScheduleAssumption
<1>4. x \in Nat /\ a \in Nat /\ b \in Nat BY <1>1, <1>2, <1>3
<1>5. /\ d < sch.start_day => x + Slots <= a
      /\ sch.start_day < d => a + Slots <= x
      /\ d < sch.end_day => x + Slots <= b
      /\ sch.end_day < d => b + Slots <= x
  <2> HIDE DEF d
  <2> QED BY <1>2, <1>3, DaysInOrder
<1>6. (d = sch.start_day => x = a) /\ (d = sch.end_day => x = b) OBVIOUS
<1>7. Opens(sch) = sch.start + a /\ Closes(sch) = sch.end + b BY DEF Opens, Closes
<1>8. off <=> /\ sch.start_day <= d /\ d <= sch.end_day
                              /\ sch.start <= t /\ t <= sch.end
  <2>1. sch.end # None BY <1>2 DEF None
  <2>2. off <=>
           /\ \/ sch.start_day > sch.end_day /\ (d >= sch.start_day \/ d <= sch.end_day)
              \/ sch.start_day < sch.end_day /\ d >= sch.start_day /\ d <= sch.end_day
           /\ in_range(sch, t)
    BY <1>2 DEF test
  <2> HIDE DEF d, t, on, off
  <2> QED BY <1>2, <1>3, <2>1, <2>2 DEF in_range
<1>9. on <=> ~ (d >= sch.end_day /\ t > sch.end)
  <2>1. sch.end # None BY <1>2 DEF None
  <2>2. on <=>
            ~ (/\ \/ sch.start_day > sch.end_day /\ d < sch.start_day /\ d > sch.end_day
                  \/ sch.start_day < sch.end_day /\ d >= sch.end_day
               /\ past_end(sch, t))
    BY <1>2 DEF test
  <2> HIDE DEF d, t, on, off
  <2> QED BY <1>2, <1>3, <2>1, <2>2 DEF past_end
<1> HIDE DEF d, t, x, a, b, on, off
<1>10. n < Opens(sch) \/ n > Closes(sch) => ~off
  BY <1>1, <1>2, <1>3, <1>4, <1>5, <1>6, <1>7, <1>8
<1>11. n = Opens(sch) => off
  BY <1>1, <1>2, <1>3, <1>4, <1>5, <1>6, <1>7, <1>8
<1>12. Opens(sch) <= n /\ n <= Closes(sch) => on
  BY <1>1, <1>2, <1>3, <1>4, <1>5, <1>6, <1>7, <1>9
<1>13. n = Closes(sch) + 1 => ~on
  BY <1>1, <1>2, <1>3, <1>4, <1>5, <1>6, <1>7, <1>9
<1> QED BY <1>10, <1>11, <1>12, <1>13 DEF on, off

(* The first state. *)
LEMMA ScheduleStarts == ScheduleInit => ScheduleKept
<1> SUFFICES ASSUME ScheduleInit PROVE ScheduleKept OBVIOUS
<1>1. PICK c \in Configs : ~Throws(c) /\ sch = create_schedule(c) BY DEF ScheduleInit
<1>2. WeekDays \in Nat \ {0} /\ Slots \in Nat \ {0} BY ScheduleAssumption
<1>3. ScheduleTypes
  BY <1>1, <1>2 DEF ScheduleTypes, Configs, Throws, create_schedule, Attribute, None
<1>4. now \in 0 .. Week - 1 /\ polls = 0 /\ active = TRUE BY DEF ScheduleInit, Week
<1>5. Week \in Nat BY <1>2 DEF Week
<1>6. ASSUME Ordinary(sch), sch.start_day >= 0
      PROVE  /\ now > Closes(sch) => polls < now - Closes(sch)
             /\ now < Opens(sch) => polls < now + Week - Closes(sch)
  BY <1>3, <1>4, <1>5, <1>6, WindowNumbers
<1> QED BY <1>3, <1>4, <1>6 DEF ScheduleKept

(* A poll. *)
LEMMA SchedulePolled == ScheduleKept /\ activation_service => ScheduleKept'
<1> SUFFICES ASSUME ScheduleKept, activation_service PROVE ScheduleKept' OBVIOUS
<1>1. WeekDays \in Nat \ {0} /\ Slots \in Nat \ {0} BY ScheduleAssumption
<1>2. Week \in Nat \ {0} BY <1>1 DEF Week
<1>3. now \in 0 .. Week - 1 /\ polls \in Nat /\ active \in BOOLEAN /\ ScheduleTypes
  BY DEF ScheduleKept
<1>4. /\ polls' = polls + 1 /\ sch' = sch
      /\ active' = test(sch, active, now')
      /\ now' = IF now = Week - 1 THEN 0 ELSE now + 1
  BY <1>3, NextSlot DEF activation_service, Week
<1>5. now' \in 0 .. Week - 1 BY <1>2, <1>3, <1>4
<1>6. ScheduleTypes' BY <1>3, <1>4 DEF ScheduleTypes
<1>7. active' \in BOOLEAN BY <1>4 DEF test, in_range, past_end
<1>8. ASSUME Ordinary(sch), sch.start_day < 0
      PROVE  active' = Window(sch, now')
  BY <1>4, <1>8 DEF test, in_range, Window, Ordinary
<1>9. ASSUME Ordinary(sch), sch.start_day >= 0
      PROVE  /\ Opens(sch) <= now' /\ now' <= Closes(sch) => active'
             /\ active' /\ now' > Closes(sch) => polls' < now' - Closes(sch)
             /\ active' /\ now' < Opens(sch) => polls' < now' + Week - Closes(sch)
  <2> DEFINE a == Opens(sch)
             b == Closes(sch)
             n == now'
             off == test(sch, FALSE, n)
             on == test(sch, TRUE, n)
  <2>1. a \in Nat /\ b \in Nat /\ a < b /\ b + 1 < Week BY <1>3, <1>9, WindowNumbers
  <2>2. /\ n < a \/ n > b => ~off
        /\ n = a => off
        /\ a <= n /\ n <= b => on
        /\ n = b + 1 => ~on
    BY <1>3, <1>5, <1>9, TestAt
  <2>3. /\ a <= now /\ now <= b => active
        /\ active /\ now > b => polls < now - b
        /\ active /\ now < a => polls < now + Week - b
    BY <1>9 DEF ScheduleKept
  <2>4. polls' = polls + 1 /\ n = IF now = Week - 1 THEN 0 ELSE now + 1 BY <1>4
  <2> SUFFICES /\ a <= n /\ n <= b => active'
               /\ active' /\ n > b => polls' < n - b
               /\ active' /\ n < a => polls' < n + Week - b
    OBVIOUS
  <2> HIDE DEF a, b, n, on, off
  <2>5. CASE active
    <3>1. active' = on BY <1>3, <1>4, <2>5 DEF n, on, off
    <3>2. a <= n /\ n <= b => active' BY <1>2, <1>3, <2>1, <2>2, <2>3, <2>4, <2>5, <3>1
    <3>3. active' /\ n > b => polls' < n - b BY <1>2, <1>3, <2>1, <2>2, <2>3, <2>4, <2>5, <3>1
    <3>4. active' /\ n < a => polls' < n + Week - b
      BY <1>2, <1>3, <2>1, <2>2, <2>3, <2>4, <2>5, <3>1
    <3> QED BY <3>2, <3>3, <3>4
  <2>6. CASE ~active
    <3>1. active' = off BY <1>3, <1>4, <2>6 DEF n, on, off
    <3>2. a <= n /\ n <= b => active' BY <1>2, <1>3, <2>1, <2>2, <2>3, <2>4, <2>6, <3>1
    <3>3. active' /\ n > b => polls' < n - b BY <1>2, <1>3, <2>1, <2>2, <2>3, <2>4, <2>6, <3>1
    <3>4. active' /\ n < a => polls' < n + Week - b
      BY <1>2, <1>3, <2>1, <2>2, <2>3, <2>4, <2>6, <3>1
    <3> QED BY <3>2, <3>3, <3>4
  <2> QED BY <2>5, <2>6
<1>10. Ordinary(sch)' = Ordinary(sch) /\ Opens(sch)' = Opens(sch) /\ Closes(sch)' = Closes(sch)
  BY <1>4 DEF Ordinary, Opens, Closes
<1>11. Window(sch, now)' = Window(sch, now') BY <1>4 DEF Window, Time, Day
<1>12. polls' \in Nat BY <1>3, <1>4
<1>13. Week' = Week BY DEF Week
<1>14. (Ordinary(sch) /\ sch.start_day < 0 /\ polls > 0 => active = Window(sch, now))'
  BY <1>4, <1>8, <1>10, <1>11
<1>15. (Ordinary(sch) /\ sch.start_day >= 0 =>
           /\ Opens(sch) <= now /\ now <= Closes(sch) => active
           /\ active /\ now > Closes(sch) => polls < now - Closes(sch)
           /\ active /\ now < Opens(sch) => polls < now + Week - Closes(sch))'
  BY <1>4, <1>9, <1>10, <1>13
<1> QED BY <1>5, <1>6, <1>7, <1>12, <1>13, <1>14, <1>15 DEF ScheduleKept

(* After a week the window was left once. *)
LEMMA KeptFollows == ScheduleKept => ScheduleFollowed
<1> SUFFICES ASSUME ScheduleKept, polls >= WeekDays * Slots, Ordinary(sch)
             PROVE  active <=> Window(sch, now)
  BY DEF ScheduleFollowed
<1>1. Week \in Nat \ {0} BY ScheduleAssumption DEF Week
<1>2. now \in 0 .. Week - 1 /\ polls \in Nat /\ active \in BOOLEAN /\ ScheduleTypes
  BY DEF ScheduleKept
<1>3. polls >= Week BY DEF Week
<1>4. sch.start_day \in Int
  BY <1>2, ScheduleAssumption DEF ScheduleTypes, Attribute, None
<1>5. CASE sch.start_day < 0 BY <1>1, <1>2, <1>3, <1>5 DEF ScheduleKept
<1>6. CASE sch.start_day >= 0
  <2>1. Opens(sch) \in Nat /\ Closes(sch) \in Nat /\ Opens(sch) < Closes(sch)
    BY <1>2, <1>6, WindowNumbers
  <2>2. Window(sch, now) <=> Opens(sch) <= now /\ now <= Closes(sch)
    BY <1>2, <1>4, <1>6, Calendar DEF Window, Opens, Closes
  <2>3. /\ Opens(sch) <= now /\ now <= Closes(sch) => active
        /\ active /\ now > Closes(sch) => polls < now - Closes(sch)
        /\ active /\ now < Opens(sch) => polls < now + Week - Closes(sch)
    BY <1>6 DEF ScheduleKept
  <2> QED BY <1>1, <1>2, <1>3, <2>1, <2>2, <2>3
<1> QED BY <1>4, <1>5, <1>6

(* For any number of days and slots and for every ordinary schedule, a     *)
(* week after it was made the session is active exactly when its schedule  *)
(* says so (Schedule::test, Session::activation_service).                  *)
THEOREM ScheduleIsFollowed == ScheduleSpec => []ScheduleFollowed
<1>1. ScheduleKept /\ [activation_service]_scheduleVars => ScheduleKept'
  <2> SUFFICES ASSUME ScheduleKept, UNCHANGED scheduleVars PROVE ScheduleKept'
    BY SchedulePolled
  <2>1. sch' = sch /\ now' = now /\ polls' = polls /\ active' = active BY DEF scheduleVars
  <2> QED
    BY <2>1 DEF ScheduleKept, ScheduleTypes, Ordinary, Opens, Closes, Window, Week, Time, Day
<1> QED BY <1>1, ScheduleStarts, KeptFollows, PTL DEF ScheduleSpec

-----------------------------------------------------------------------------
(* Dates: what was written is read back digit by digit, and the calendar's *)
(* count of days agrees with the formula of the code month by month.       *)

(* Two digits are read as the number they write (parse_decimal). *)
LEMMA ParseTwo ==
    ASSUME NEW a \in Nat, NEW b \in Nat
    PROVE  parse_decimal(<<a, b>>) = 10 * a + b
<1> DEFINE Step(to) == [len \in 0 .. 2 |->
                           IF len = 0 THEN 0 ELSE 10 * to[len - 1] + <<a, b>>[len]]
           w == [len \in 0 .. 2 |-> IF len = 0 THEN 0 ELSE IF len = 1 THEN a ELSE 10 * a + b]
           f == CHOOSE to : to = Step(to)
<1>1. w = Step(w)
  <2>1. \A len \in 0 .. 2 : w[len] = Step(w)[len]
    <3> SUFFICES ASSUME NEW len \in 0 .. 2 PROVE w[len] = Step(w)[len] OBVIOUS
    <3>1. CASE len = 0 BY <3>1
    <3>2. CASE len = 1 BY <3>2
    <3>3. CASE len = 2 BY <3>3
    <3> QED BY <3>1, <3>2, <3>3
  <2> QED BY <2>1
<1>2. f = Step(f) BY <1>1
<1>3. parse_decimal(<<a, b>>) = f[2] BY DEF parse_decimal
<1> HIDE DEF f
<1>4. f[0] = 0 BY <1>2
<1>5. f[1] = a BY <1>2, <1>4
<1>6. f[2] = 10 * a + b BY <1>2, <1>5
<1> QED BY <1>3, <1>6

(* So are four. *)
LEMMA ParseFour ==
    ASSUME NEW a \in Nat, NEW b \in Nat, NEW c \in Nat, NEW d \in Nat
    PROVE  parse_decimal(<<a, b, c, d>>) = 1000 * a + 100 * b + 10 * c + d
<1> DEFINE Step(to) == [len \in 0 .. 4 |->
                           IF len = 0 THEN 0 ELSE 10 * to[len - 1] + <<a, b, c, d>>[len]]
           w == [len \in 0 .. 4 |->
                  IF len = 0 THEN 0
                  ELSE IF len = 1 THEN a
                  ELSE IF len = 2 THEN 10 * a + b
                  ELSE IF len = 3 THEN 100 * a + 10 * b + c
                  ELSE 1000 * a + 100 * b + 10 * c + d]
           f == CHOOSE to : to = Step(to)
<1>1. w = Step(w)
  <2>1. \A len \in 0 .. 4 : w[len] = Step(w)[len]
    <3> SUFFICES ASSUME NEW len \in 0 .. 4 PROVE w[len] = Step(w)[len] OBVIOUS
    <3>1. CASE len = 0 BY <3>1
    <3>2. CASE len = 1 BY <3>2
    <3>3. CASE len = 2 BY <3>3
    <3>4. CASE len = 3 BY <3>4
    <3>5. CASE len = 4 BY <3>5
    <3> QED BY <3>1, <3>2, <3>3, <3>4, <3>5
  <2> QED BY <2>1
<1>2. f = Step(f) BY <1>1
<1>3. parse_decimal(<<a, b, c, d>>) = f[4] BY DEF parse_decimal
<1> HIDE DEF f
<1>4. f[0] = 0 BY <1>2
<1>5. f[1] = a BY <1>2, <1>4
<1>6. f[2] = 10 * a + b BY <1>2, <1>5
<1>7. f[3] = 100 * a + 10 * b + c BY <1>2, <1>6
<1>8. f[4] = 1000 * a + 100 * b + 10 * c + d BY <1>2, <1>7
<1> QED BY <1>3, <1>8

(* The number n is written with width digits, and read back.               *)
ReadBack(text, n, width) ==
    text \in Seq(Nat) /\ Len(text) = width /\ parse_decimal(text) = n

(* What was written with two digits is read back (format0, parse_decimal). *)
LEMMA TwoDigits ==
    ASSUME NEW n \in 0 .. 99
    PROVE  ReadBack(format0(n, 2), n, 2)
<1> DEFINE a == n \div 10
           b == n % 10
<1>1. (n \div 10) % 10 = a /\ (n \div 1) % 10 = b OBVIOUS
<1>2. a \in Nat /\ b \in Nat /\ n = 10 * a + b OBVIOUS
<1> HIDE DEF a, b
<1>3. format0(n, 2) = <<a, b>> BY <1>1 DEF format0, Tens
<1>4. parse_decimal(<<a, b>>) = 10 * a + b BY <1>2, ParseTwo
<1>5. <<a, b>> \in Seq(Nat) /\ Len(<<a, b>>) = 2 BY <1>2
<1> QED BY <1>2, <1>3, <1>4, <1>5 DEF ReadBack

(* The last number of four digits.                                         *)
FourNines == 9999

(* So is what was written with four. *)
LEMMA FourDigits ==
    ASSUME NEW n \in 0 .. FourNines
    PROVE  ReadBack(format0(n, 4), n, 4)
<1> DEFINE a == n \div 1000
           b == (n \div 100) % 10
           c == (n \div 10) % 10
           d == n % 10
<1>1. (n \div 1000) % 10 = a /\ (n \div 1) % 10 = d
  <2>1. n \div 1000 \in 0 .. 9 /\ n \div 1 = n BY DEF FourNines
  <2>2. \A x \in 0 .. 9 : x % 10 = x OBVIOUS
  <2> QED BY <2>1, <2>2
<1>2. a \in Nat /\ b \in Nat /\ c \in Nat /\ d \in Nat OBVIOUS
<1>3. n \div 10 = 10 * (n \div 100) + c /\ n \div 100 = 10 * a + b OBVIOUS
<1>4. n = 10 * (n \div 10) + d OBVIOUS
<1>5. format0(n, 4) = <<a, b, c, d>>
  <2>1. /\ Tens[4] = 1000 /\ Tens[3] = 100 /\ Tens[2] = 10 /\ Tens[1] = 1 BY DEF Tens
  <2>2. format0(n, 4) = [i \in 1 .. 4 |-> (n \div Tens[5 - i]) % 10] BY DEF format0
  <2>3. \A i \in 1 .. 4 : (n \div Tens[5 - i]) % 10 = <<a, b, c, d>>[i]
    <3> SUFFICES ASSUME NEW i \in 1 .. 4 PROVE (n \div Tens[5 - i]) % 10 = <<a, b, c, d>>[i]
      OBVIOUS
    <3>1. CASE i = 1 BY <1>1, <2>1, <3>1
    <3>2. CASE i = 2 BY <2>1, <3>2
    <3>3. CASE i = 3 BY <2>1, <3>3
    <3>4. CASE i = 4 BY <1>1, <2>1, <3>4
    <3> QED BY <3>1, <3>2, <3>3, <3>4
  <2> HIDE DEF a, b, c, d
  <2>4. <<a, b, c, d>> = [i \in 1 .. 4 |-> <<a, b, c, d>>[i]] OBVIOUS
  <2> QED BY <2>2, <2>3, <2>4
<1>6. n = 1000 * a + 100 * b + 10 * c + d
  <2> DEFINE h == n \div 100
             t == n \div 10
  <2>1. h \in Int /\ t \in Int /\ t = 10 * h + c /\ h = 10 * a + b /\ n = 10 * t + d
    BY <1>3, <1>4
  <2> HIDE DEF a, b, c, d, h, t
  <2> QED BY <1>2, <2>1
<1> HIDE DEF a, b, c, d
<1>7. parse_decimal(<<a, b, c, d>>) = 1000 * a + 100 * b + 10 * c + d BY <1>2, ParseFour
<1>8. <<a, b, c, d>> \in Seq(Nat) /\ Len(<<a, b, c, d>>) = 4 BY <1>2
<1> DEFINE t == <<a, b, c, d>>
<1>9. t \in Seq(Nat) /\ Len(t) = 4 /\ parse_decimal(t) = n BY <1>6, <1>7, <1>8
<1>10. format0(n, 4) = t BY <1>5
<1> HIDE DEF t
<1> QED BY <1>9, <1>10 DEF ReadBack

(* A text is another one and two digits behind it.                         *)
Extends(q, p, x) == q = p \o x

(* What stands where in it, when the other one has k digits.               *)
TwoMore(q, p, x, k) ==
    /\ q \in Seq(Nat) /\ Len(q) = k + 2
    /\ Part(q, k + 1, 2) = x
    /\ \A at, width \in 1 .. k : at + width - 1 <= k => Part(q, at, width) = Part(p, at, width)

(* Two digits behind a text add a part and leave the others (Part).        *)
LEMMA TwoBehind ==
    ASSUME NEW p \in Seq(Nat), NEW x \in Seq(Nat), NEW q, Extends(q, p, x),
           Len(p) > 0, Len(x) = 2
    PROVE  TwoMore(q, p, x, Len(p))
<1>1. q = p \o x BY DEF Extends
<1>2. q \in Seq(Nat) /\ Len(q) = Len(p) + 2
  <2>1. q \in Seq(Nat) /\ Len(q) = Len(p) + Len(x) BY <1>1, ConcatProperties, Zenon
  <2> QED BY <2>1
<1>3. Part(q, Len(p) + 1, 2) = x
  <2> DEFINE i == Len(p) + 1
             j == Len(p) + 2
  <2>1. /\ i \in Len(p) + 1 .. Len(p) + Len(x) /\ j \in Len(p) + 1 .. Len(p) + Len(x)
        /\ i - Len(p) = 1 /\ j - Len(p) = Len(x) /\ i + 2 - 1 = j
    OBVIOUS
  <2> HIDE DEF i, j
  <2>2. SubSeq(p \o x, i, j) = SubSeq(x, i - Len(p), j - Len(p))
    <3>1. \A s, t \in Seq(Nat) : \A m, n \in Len(s) + 1 .. Len(s) + Len(t) :
             SubSeq(s \o t, m, n) = SubSeq(t, m - Len(s), n - Len(s))
      BY SubSeqOfConcat2, Zenon
    <3> QED BY <2>1, <3>1, Zenon
  <2>3. SubSeq(x, 1, Len(x)) = x BY SubSeqFull, Zenon
  <2>4. SubSeq(q, i, j) = x BY <1>1, <2>1, <2>2, <2>3, Zenon
  <2>5. Part(q, i, 2) = x BY <2>1, <2>4, Zenon DEF Part
  <2> QED BY <2>5 DEF i
<1>4. ASSUME NEW at \in 1 .. Len(p), NEW width \in 1 .. Len(p), at + width - 1 <= Len(p)
      PROVE  Part(q, at, width) = Part(p, at, width)
  <2>1. at + width - 1 \in 1 .. Len(p) BY <1>4
  <2>2. SubSeq(p \o x, at, at + width - 1) = SubSeq(p, at, at + width - 1)
    BY <2>1, SubSeqOfConcat1, Zenon
  <2> QED BY <1>1, <2>2, Zenon DEF Part
<1> QED BY <1>2, <1>3, <1>4 DEF TwoMore

(* A month a of six digits, a date b of eight that starts with it, and a   *)
(* time stamp f of fourteen that starts with both, in their pieces.        *)
Pieces(a, b, f, y, o, d, h, m, s) ==
    /\ Part(f, 1, 4) = y /\ Part(f, 5, 2) = o /\ Part(f, 7, 2) = d
    /\ Part(f, 9, 2) = h /\ Part(f, 11, 2) = m /\ Part(f, 13, 2) = s
    /\ Part(f, 1, 8) = b /\ Len(b) = 8
    /\ Part(b, 1, 4) = y /\ Part(b, 5, 2) = o /\ Part(b, 7, 2) = d
    /\ Part(f, 1, 6) = a /\ Len(a) = 6 /\ Part(a, 1, 4) = y /\ Part(a, 5, 2) = o

(* The pieces of a text are those it was put together from                 *)
(* (date_time_format). *)
LEMMA Fourteen ==
    ASSUME NEW y \in Seq(Nat), NEW o \in Seq(Nat), NEW d \in Seq(Nat),
           NEW h \in Seq(Nat), NEW m \in Seq(Nat), NEW s \in Seq(Nat),
           Len(y) = 4, Len(o) = 2, Len(d) = 2, Len(h) = 2, Len(m) = 2, Len(s) = 2,
           NEW a, NEW b, NEW c, NEW e, NEW f,
           Extends(a, y, o), Extends(b, a, d), Extends(c, b, h), Extends(e, c, m),
           Extends(f, e, s)
    PROVE  Pieces(a, b, f, y, o, d, h, m, s)
<1>1. /\ a \in Seq(Nat) /\ Len(a) = 6 /\ Part(a, 5, 2) = o
      /\ \A g, w \in 1 .. 4 : g + w - 1 <= 4 => Part(a, g, w) = Part(y, g, w)
  <2>1. Len(y) = 4 /\ Len(y) > 0 OBVIOUS
  <2>2. TwoMore(a, y, o, Len(y)) BY <2>1, TwoBehind, Zenon
  <2>3. TwoMore(a, y, o, 4) BY <2>1, <2>2
  <2> QED BY <2>3 DEF TwoMore
<1>2. /\ b \in Seq(Nat) /\ Len(b) = 8 /\ Part(b, 7, 2) = d
      /\ \A g, w \in 1 .. 6 : g + w - 1 <= 6 => Part(b, g, w) = Part(a, g, w)
  <2>1. Len(a) = 6 /\ Len(a) > 0 BY <1>1
  <2>2. TwoMore(b, a, d, Len(a)) BY <1>1, <2>1, TwoBehind, Zenon
  <2>3. TwoMore(b, a, d, 6) BY <2>1, <2>2
  <2> QED BY <2>3 DEF TwoMore
<1>3. /\ c \in Seq(Nat) /\ Len(c) = 10 /\ Part(c, 9, 2) = h
      /\ \A g, w \in 1 .. 8 : g + w - 1 <= 8 => Part(c, g, w) = Part(b, g, w)
  <2>1. Len(b) = 8 /\ Len(b) > 0 BY <1>2
  <2>2. TwoMore(c, b, h, Len(b)) BY <1>2, <2>1, TwoBehind, Zenon
  <2>3. TwoMore(c, b, h, 8) BY <2>1, <2>2
  <2> QED BY <2>3 DEF TwoMore
<1>4. /\ e \in Seq(Nat) /\ Len(e) = 12 /\ Part(e, 11, 2) = m
      /\ \A g, w \in 1 .. 10 : g + w - 1 <= 10 => Part(e, g, w) = Part(c, g, w)
  <2>1. Len(c) = 10 /\ Len(c) > 0 BY <1>3
  <2>2. TwoMore(e, c, m, Len(c)) BY <1>3, <2>1, TwoBehind, Zenon
  <2>3. TwoMore(e, c, m, 10) BY <2>1, <2>2
  <2> QED BY <2>3 DEF TwoMore
<1>5. /\ Part(f, 13, 2) = s
      /\ \A g, w \in 1 .. 12 : g + w - 1 <= 12 => Part(f, g, w) = Part(e, g, w)
  <2>1. Len(e) = 12 /\ Len(e) > 0 BY <1>4
  <2>2. TwoMore(f, e, s, Len(e)) BY <1>4, <2>1, TwoBehind, Zenon
  <2>3. TwoMore(f, e, s, 12) BY <2>1, <2>2
  <2> QED BY <2>3 DEF TwoMore
<1>6. Part(y, 1, 4) = y /\ Part(a, 1, 6) = a /\ Part(b, 1, 8) = b
  <2>1. SubSeq(y, 1, Len(y)) = y /\ SubSeq(a, 1, Len(a)) = a /\ SubSeq(b, 1, Len(b)) = b
    BY <1>1, <1>2, SubSeqFull, Zenon
  <2>2. 1 + 4 - 1 = Len(y) /\ 1 + 6 - 1 = Len(a) /\ 1 + 8 - 1 = Len(b) BY <1>1, <1>2
  <2> QED BY <2>1, <2>2, Zenon DEF Part
<1>7. /\ Part(a, 1, 4) = y /\ Part(b, 1, 4) = y /\ Part(b, 5, 2) = o /\ Part(b, 7, 2) = d
      /\ Part(b, 1, 6) = a
  BY <1>1, <1>2, <1>6
<1>8. /\ Part(c, 1, 4) = y /\ Part(c, 5, 2) = o /\ Part(c, 7, 2) = d
      /\ Part(c, 1, 8) = b /\ Part(c, 1, 6) = a
  BY <1>3, <1>6, <1>7
<1>9. /\ Part(e, 1, 4) = y /\ Part(e, 5, 2) = o /\ Part(e, 7, 2) = d
      /\ Part(e, 1, 8) = b /\ Part(e, 1, 6) = a /\ Part(e, 9, 2) = h
  BY <1>3, <1>4, <1>8
<1>10. /\ Part(f, 1, 4) = y /\ Part(f, 5, 2) = o /\ Part(f, 7, 2) = d
       /\ Part(f, 1, 8) = b /\ Part(f, 1, 6) = a /\ Part(f, 9, 2) = h /\ Part(f, 11, 2) = m
  BY <1>4, <1>5, <1>9
<1> QED BY <1>1, <1>2, <1>5, <1>7, <1>10 DEF Pieces

(* A time, and its date or its month alone, mean after writing what they   *)
(* meant before.                                                           *)
TimeReadBack(y, o, d, h, m, s) ==
    LET tm(hour, min, sec) == [year |-> y, mon |-> o, mday |-> d,
                               hour |-> hour, min |-> min, sec |-> sec]
        text == date_time_format(tm(h, m, s))
    IN  /\ date_time_parse(text) = time_to_epoch(tm(h, m, s))
        /\ date_parse(Part(text, 1, 8)) = time_to_epoch(tm(0, 0, 0))
        /\ date_parse(Part(text, 1, 6)) = time_to_epoch([tm(0, 0, 0) EXCEPT !.mday = 1])

(* A time whose numbers are read back is read back, and so are its date    *)
(* and its month (date_time_format, date_time_parse, date_parse). *)
LEMMA TextReadBack ==
    ASSUME NEW y, NEW o, NEW d, NEW h, NEW m, NEW s,
           (y + TmBase) - TmBase = y, (o + 1) - 1 = o,
           ReadBack(format0(y + TmBase, 4), y + TmBase, 4), ReadBack(format0(o + 1, 2), o + 1, 2),
           ReadBack(format0(d, 2), d, 2), ReadBack(format0(h, 2), h, 2),
           ReadBack(format0(m, 2), m, 2), ReadBack(format0(s, 2), s, 2)
    PROVE  TimeReadBack(y, o, d, h, m, s)
<1> DEFINE Y == format0(y + TmBase, 4)
           O == format0(o + 1, 2)
           D == format0(d, 2)
           H == format0(h, 2)
           M == format0(m, 2)
           S == format0(s, 2)
           tm == [year |-> y, mon |-> o, mday |-> d, hour |-> h, min |-> m, sec |-> s]
           date == [year |-> y, mon |-> o, mday |-> d, hour |-> 0, min |-> 0, sec |-> 0]
           a == Y \o O
           b == a \o D
           c == b \o H
           e == c \o M
           f == e \o S
<1>1. date_time_format(tm) = f
  <2>1. /\ tm.year = y /\ tm.mon = o /\ tm.mday = d
        /\ tm.hour = h /\ tm.min = m /\ tm.sec = s
    OBVIOUS
  <2> HIDE DEF tm
  <2> QED BY <2>1, Zenon DEF date_time_format
<1>2. /\ Extends(a, Y, O) /\ Extends(b, a, D) /\ Extends(c, b, H)
      /\ Extends(e, c, M) /\ Extends(f, e, S)
  BY Zenon DEF Extends
<1>3. /\ ReadBack(Y, y + TmBase, 4) /\ ReadBack(O, o + 1, 2) /\ ReadBack(D, d, 2)
      /\ ReadBack(H, h, 2) /\ ReadBack(M, m, 2) /\ ReadBack(S, s, 2)
  OBVIOUS
<1> HIDE DEF Y, O, D, H, M, S, a, b, c, e, f
<1>4. /\ Part(f, 1, 4) = Y /\ Part(f, 5, 2) = O /\ Part(f, 7, 2) = D
      /\ Part(f, 9, 2) = H /\ Part(f, 11, 2) = M /\ Part(f, 13, 2) = S
      /\ Part(f, 1, 8) = b /\ Len(b) = 8
      /\ Part(b, 1, 4) = Y /\ Part(b, 5, 2) = O /\ Part(b, 7, 2) = D
      /\ Part(f, 1, 6) = a /\ Len(a) = 6 /\ Part(a, 1, 4) = Y /\ Part(a, 5, 2) = O
  <2>1. /\ Y \in Seq(Nat) /\ O \in Seq(Nat) /\ D \in Seq(Nat)
        /\ H \in Seq(Nat) /\ M \in Seq(Nat) /\ S \in Seq(Nat)
        /\ Len(Y) = 4 /\ Len(O) = 2 /\ Len(D) = 2
        /\ Len(H) = 2 /\ Len(M) = 2 /\ Len(S) = 2
    BY <1>3 DEF ReadBack
  <2>2. Pieces(a, b, f, Y, O, D, H, M, S) BY <1>2, <2>1, Fourteen
  <2> QED BY <2>2, Zenon DEF Pieces
<1>5. /\ parse_decimal(Y) - TmBase = y /\ parse_decimal(O) - 1 = o /\ parse_decimal(D) = d
       /\ parse_decimal(H) = h /\ parse_decimal(M) = m /\ parse_decimal(S) = s
  <2>1. /\ parse_decimal(Y) = y + TmBase /\ parse_decimal(O) = o + 1 /\ parse_decimal(D) = d
        /\ parse_decimal(H) = h /\ parse_decimal(M) = m /\ parse_decimal(S) = s
    BY <1>3, Zenon DEF ReadBack
  <2> QED BY <2>1
<1>6. date_time_parse(f) = time_to_epoch(tm)
  <2>1. tm = [year |-> parse_decimal(Part(f, 1, 4)) - TmBase,
              mon |-> parse_decimal(Part(f, 5, 2)) - 1,
              mday |-> parse_decimal(Part(f, 7, 2)),
              hour |-> parse_decimal(Part(f, 9, 2)),
              min |-> parse_decimal(Part(f, 11, 2)),
              sec |-> parse_decimal(Part(f, 13, 2))]
    BY <1>4, <1>5, Zenon
  <2> HIDE DEF tm
  <2> QED BY <2>1, Zenon DEF date_time_parse
<1>7. date_parse(b) = time_to_epoch(date)
  <2>1. (IF Len(b) = 8 THEN parse_decimal(Part(b, 7, 2)) ELSE 1) = d BY <1>4, <1>5
  <2>2. date = [year |-> parse_decimal(Part(b, 1, 4)) - TmBase,
                mon |-> parse_decimal(Part(b, 5, 2)) - 1,
                mday |-> IF Len(b) = 8 THEN parse_decimal(Part(b, 7, 2)) ELSE 1,
                hour |-> 0, min |-> 0, sec |-> 0]
    BY <1>4, <1>5, <2>1, Zenon
  <2> HIDE DEF date
  <2> QED BY <2>2, Zenon DEF date_parse
<1>8. date_parse(a) = time_to_epoch([date EXCEPT !.mday = 1])
  <2>1. (IF Len(a) = 8 THEN parse_decimal(Part(a, 7, 2)) ELSE 1) = 1 BY <1>4
  <2>2. [date EXCEPT !.mday = 1]
          = [year |-> parse_decimal(Part(a, 1, 4)) - TmBase,
             mon |-> parse_decimal(Part(a, 5, 2)) - 1,
             mday |-> IF Len(a) = 8 THEN parse_decimal(Part(a, 7, 2)) ELSE 1,
             hour |-> 0, min |-> 0, sec |-> 0]
    <3>1. [date EXCEPT !.mday = 1]
            = [year |-> y, mon |-> o, mday |-> 1, hour |-> 0, min |-> 0, sec |-> 0]
      OBVIOUS
    <3> QED BY <1>4, <1>5, <2>1, <3>1, Zenon
  <2> HIDE DEF date
  <2> QED BY <2>2, Zenon DEF date_parse
<1> QED BY <1>1, <1>4, <1>6, <1>7, <1>8, Zenon DEF TimeReadBack

(* So every time of the calendar is read back (format0, parse_decimal). *)
LEMMA WrittenAndRead ==
    ASSUME NEW y \in 70 .. 199, NEW o \in 0 .. 11, NEW d \in 1 .. 31,
           NEW h \in 0 .. 23, NEW m \in 0 .. 59, NEW s \in 0 .. 59
    PROVE  TimeReadBack(y, o, d, h, m, s)
<1>1. /\ y + TmBase \in 0 .. FourNines /\ o + 1 \in 0 .. 99 /\ d \in 0 .. 99
      /\ h \in 0 .. 99 /\ m \in 0 .. 99 /\ s \in 0 .. 99
  BY DEF TmBase, FourNines
<1>2. /\ ReadBack(format0(y + TmBase, 4), y + TmBase, 4) /\ ReadBack(format0(o + 1, 2), o + 1, 2)
      /\ ReadBack(format0(d, 2), d, 2) /\ ReadBack(format0(h, 2), h, 2)
      /\ ReadBack(format0(m, 2), m, 2) /\ ReadBack(format0(s, 2), s, 2)
  <2>1. ReadBack(format0(y + TmBase, 4), y + TmBase, 4)
    <3> DEFINE n == y + TmBase
    <3>1. n \in 0 .. FourNines BY <1>1
    <3> HIDE DEF n
    <3>2. ReadBack(format0(n, 4), n, 4) BY <3>1, FourDigits, Zenon
    <3> QED BY <3>2 DEF n
  <2>2. /\ ReadBack(format0(o + 1, 2), o + 1, 2) /\ ReadBack(format0(d, 2), d, 2)
        /\ ReadBack(format0(h, 2), h, 2) /\ ReadBack(format0(m, 2), m, 2)
        /\ ReadBack(format0(s, 2), s, 2)
    <3>1. o + 1 \in 0 .. 99 /\ d \in 0 .. 99 /\ h \in 0 .. 99 /\ m \in 0 .. 99 /\ s \in 0 .. 99
      OBVIOUS
    <3> QED BY <3>1, TwoDigits, Zenon
  <2> QED BY <2>1, <2>2
<1>3. (y + TmBase) - TmBase = y /\ (o + 1) - 1 = o BY DEF TmBase
<1> QED BY <1>2, <1>3, TextReadBack

(* What time_to_epoch counts up to a month, its first day not included.    *)
CodeDays(y, m) ==
    mon_days[m] + (y - 70) * 365 + (y - 70 + 2) \div 4
    - (IF y % 4 = 0 /\ m < 3 THEN 1 ELSE 0)

(* time_to_epoch by the day and the second.                                *)
EpochIs(y, o, d, h, m, s) ==
    time_to_epoch([year |-> y, mon |-> o, mday |-> d, hour |-> h, min |-> m, sec |-> s])
      = Wrapped([days |-> CodeDays(y, o + 1) + d - 1, secs |-> 3600 * h + 60 * m + s])

(* It counts the days before the month, and those of it (time_to_epoch).   *)
LEMMA EpochOf ==
    ASSUME NEW y \in 70 .. 199, NEW o \in 0 .. 11, NEW d \in 1 .. 31,
           NEW h \in Nat, NEW m \in Nat, NEW s \in Nat
    PROVE  EpochIs(y, o, d, h, m, s)
<1> DEFINE tm == [year |-> y, mon |-> o, mday |-> d, hour |-> h, min |-> m, sec |-> s]
           tyears == IF tm.year # 0 THEN tm.year - 70 ELSE 0
           leap == IF tm.year # 0 /\ tm.year % 4 = 0 /\ tm.mon < 2 THEN 1 ELSE 0
           tdays == mon_days[tm.mon + 1] + (IF tm.mday # 0 THEN tm.mday - 1 ELSE 0)
                    + tyears * 365 + (tyears + 2) \div 4 - leap
           secs == tm.hour * 3600 + tm.min * 60 + tm.sec
<1>1. time_to_epoch(tm) = Wrapped([days |-> tdays, secs |-> secs]) BY DEF time_to_epoch
<1>2. tyears = y - 70 /\ leap = IF y % 4 = 0 /\ o < 2 THEN 1 ELSE 0 OBVIOUS
<1>3. mon_days[o + 1] \in Int BY DEF mon_days
<1>4. tdays = CodeDays(y, o + 1) + d - 1
  <2>1. /\ tdays = mon_days[o + 1] + (d - 1) + tyears * 365 + (tyears + 2) \div 4 - leap
    OBVIOUS
  <2>2. (y - 70 + 2) \div 4 \in Int OBVIOUS
  <2> HIDE DEF tdays, tyears, leap
  <2> QED BY <1>2, <1>3, <2>1, <2>2 DEF CodeDays
<1>5. secs = 3600 * h + 60 * m + s OBVIOUS
<1> HIDE DEF tdays, secs
<1> QED BY <1>1, <1>4, <1>5 DEF EpochIs

(* The calendar's own count agrees with the formula (NextMonth).           *)
Counted ==
    /\ year \in 1970 .. LastYear /\ mon \in 1 .. 12
    /\ first = CodeDays(year - TmBase, mon)

(* Up to 2099 every fourth year is a leap year (time_to_epoch's comment).  *)
LEMMA EveryFourth ==
    ASSUME NEW y \in 1970 .. 2099
    PROVE  IsLeap(y) <=> (y - TmBase) % 4 = 0
BY DEF IsLeap, TmBase

(* The calendar starts where the formula does (DatesInit). *)
LEMMA CountStarts == DatesInit => Counted
BY DatesAssumption DEF DatesInit, Counted, CodeDays, mon_days, TmBase

(* Every month is as long as the formula makes it (mon_days, the leap      *)
(* day). *)
LEMMA CountGoesOn == Counted /\ [NextMonth]_dateVars => Counted'
<1> SUFFICES ASSUME Counted, [NextMonth]_dateVars PROVE Counted' OBVIOUS
<1>1. CASE UNCHANGED dateVars BY <1>1 DEF dateVars, Counted
<1>2. CASE NextMonth
  <2> DEFINE y == year - TmBase
  <2>1. /\ year \in 1970 .. 2099 /\ year \in 1970 .. LastYear /\ LastYear \in Int
        /\ mon \in 1 .. 12 /\ y \in 70 .. 199
        /\ first = CodeDays(y, mon)
    BY DatesAssumption DEF Counted, TmBase
  <2>2. IsLeap(year) <=> y % 4 = 0 BY <2>1, EveryFourth DEF IsLeap
  <2>3. first' = first + DaysIn(year, mon) BY <1>2 DEF NextMonth
  <2>4. CASE mon = 12
    <3>1. year' = year + 1 /\ mon' = 1 /\ year' \in 1970 .. LastYear
      BY <1>2, <2>1, <2>4 DEF NextMonth
    <3>2. year' - TmBase = y + 1 BY <2>1, <3>1 DEF TmBase
    <3>3. DaysIn(year, mon) = 31 BY <2>4 DEF DaysIn
    <3> HIDE DEF y
    <3>4. CodeDays(y, 12) + 31 = CodeDays(y + 1, 1) BY <2>1 DEF CodeDays, mon_days
    <3> QED BY <2>1, <2>3, <2>4, <3>1, <3>2, <3>3, <3>4 DEF Counted
  <2>5. CASE mon # 12
    <3>1. year' = year /\ mon' = mon + 1 /\ mon' \in 1 .. 12
      BY <1>2, <2>1, <2>5 DEF NextMonth
    <3>2. DaysIn(year, mon) = CASE mon = 2 -> IF y % 4 = 0 THEN 29 ELSE 28
                                [] mon \in {4, 6, 9, 11} -> 30
                                [] OTHER -> 31
      BY <2>2, Zenon DEF DaysIn
    <3> DEFINE n == DaysIn(year, mon)
    <3>3. CodeDays(y, mon) + n = CodeDays(y, mon + 1)
      <4> HIDE DEF y
      <4>1. mon \in {1, 2, 3, 4, 5, 6, 7, 8, 9, 10, 11} BY <2>1, <2>5
      <4>2. CASE mon = 2
        <5>1. n = IF y % 4 = 0 THEN 29 ELSE 28 BY <3>2, <4>2
        <5> HIDE DEF n
        <5> QED BY <2>1, <4>2, <5>1 DEF CodeDays, mon_days
      <4>3. CASE mon \in {4, 6, 9, 11}
        <5>1. n = 30 BY <3>2, <4>3
        <5> HIDE DEF n
        <5> QED BY <2>1, <4>3, <5>1 DEF CodeDays, mon_days
      <4>4. CASE mon \in {1, 3, 5, 7, 8, 10}
        <5>1. n = 31 BY <3>2, <4>4
        <5> HIDE DEF n
        <5> QED BY <2>1, <4>4, <5>1 DEF CodeDays, mon_days
      <4> QED BY <4>1, <4>2, <4>3, <4>4
    <3> HIDE DEF y
    <3> QED BY <2>1, <2>3, <3>1, <3>3 DEF Counted, y
  <2> QED BY <2>4, <2>5
<1> QED BY <1>1, <1>2

(* A calendar that agrees with the formula agrees with what is read back   *)
(* (date_time_format, date_time_parse, date_parse). *)
LEMMA CountedExact == Counted => DatesExact
<1> SUFFICES ASSUME Counted, NEW d \in 1 .. DaysIn(year, mon), NEW t \in Moments,
                    NEW u \in {"stamp", "date", "month"}, ~Late(Meant(d, t)[u])
             PROVE  Read(d, t)[u] = Meant(d, t)[u]
  BY DEF DatesExact
<1> DEFINE y == year - TmBase
           o == mon - 1
<1>1. /\ y \in 70 .. 199 /\ o \in 0 .. 11 /\ o + 1 = mon /\ first = CodeDays(y, mon)
      /\ d \in 1 .. 31
  BY DatesAssumption DEF Counted, TmBase, DaysIn
<1>2. /\ date_time_parse(date_time_format(At(d, t))) = Wrapped(Epoch(d, t))
      /\ date_parse(Part(date_time_format(At(d, t)), 1, 8)) = Wrapped(Epoch(d, Midnight))
      /\ date_parse(Part(date_time_format(At(d, t)), 1, 6)) = Wrapped(Epoch(1, Midnight))
  <2> DEFINE h == t[1]
             m == t[2]
             s == t[3]
  <2>1. h \in 0 .. 23 /\ m \in 0 .. 59 /\ s \in 0 .. 59 BY DEF Moments
  <2> HIDE DEF y, o, h, m, s
  <2>2. TimeReadBack(y, o, d, h, m, s) BY <1>1, <2>1, WrittenAndRead
  <2>3. EpochIs(y, o, d, h, m, s) /\ EpochIs(y, o, d, 0, 0, 0) /\ EpochIs(y, o, 1, 0, 0, 0)
    <3>1. h \in Nat /\ m \in Nat /\ s \in Nat /\ 0 \in Nat BY <2>1
    <3>2. EpochIs(y, o, d, h, m, s) BY <1>1, <3>1, EpochOf
    <3>3. EpochIs(y, o, d, 0, 0, 0) BY <1>1, <3>1, EpochOf
    <3>4. EpochIs(y, o, 1, 0, 0, 0)
      <4>1. 1 \in 1 .. 31 OBVIOUS
      <4> QED BY <1>1, <3>1, <4>1, EpochOf
    <3> QED BY <3>2, <3>3, <3>4
  <2> DEFINE tm(hour, min, sec) == [year |-> y, mon |-> o, mday |-> d,
                                    hour |-> hour, min |-> min, sec |-> sec]
             month == [tm(0, 0, 0) EXCEPT !.mday = 1]
  <2>4. /\ date_time_parse(date_time_format(tm(h, m, s))) = time_to_epoch(tm(h, m, s))
        /\ date_parse(Part(date_time_format(tm(h, m, s)), 1, 8)) = time_to_epoch(tm(0, 0, 0))
        /\ date_parse(Part(date_time_format(tm(h, m, s)), 1, 6)) = time_to_epoch(month)
    BY <2>2 DEF TimeReadBack
  <2>5. time_to_epoch(tm(h, m, s)) = Wrapped(Epoch(d, t))
    BY <1>1, <2>3 DEF EpochIs, Epoch, h, m, s
  <2>6. time_to_epoch(tm(0, 0, 0)) = Wrapped(Epoch(d, Midnight))
    BY <1>1, <2>3 DEF EpochIs, Epoch, Midnight
  <2>7. time_to_epoch(month) = Wrapped(Epoch(1, Midnight))
    BY <1>1, <2>3 DEF EpochIs, Epoch, Midnight
  <2>8. At(d, t) = tm(h, m, s) BY DEF At, y, o, h, m, s
  <2> HIDE DEF tm, month
  <2> QED BY <2>4, <2>5, <2>6, <2>7, <2>8
<1>3. Read(d, t)[u] = Wrapped(Meant(d, t)[u])
  <2>1. CASE u = "stamp" BY <1>2, <2>1 DEF Read, Meant
  <2>2. CASE u = "date" BY <1>2, <2>2 DEF Read, Meant
  <2>3. CASE u = "month" BY <1>2, <2>3 DEF Read, Meant
  <2> QED BY <2>1, <2>2, <2>3
<1> QED BY <1>3 DEF Wrapped

(* For every last year up to 2099 and for every month that the calendar    *)
(* comes to, a time stamp or a date that is written and read again is the  *)
(* number of seconds the calendar counts, as long as these are below 2^31: *)
(* up to January 2038 (date_time_format, date_time_parse, date_parse,      *)
(* time_to_epoch).                                                         *)
THEOREM DatesAreExact == DatesSpec => []DatesExact
<1>1. DatesSpec => []Counted
  BY CountStarts, CountGoesOn, PTL DEF DatesSpec
<1> QED BY <1>1, CountedExact, PTL

=============================================================================
