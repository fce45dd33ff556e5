-------------------------------- MODULE Cron --------------------------------
(***************************************************************************)
(* The next occurrence of a crontab line: cronNext of the baked module     *)
(* cron_tick, which re-arms a cron for it at every fire.  The search moves *)
(* a candidate of the runtime's Date forward, month by month, day by day   *)
(* and hour by hour, and Date carries what overflows.  The calendar is     *)
(* scaled down; minutes are treated by the code as the hours are.          *)
(***************************************************************************)
EXTENDS Integers, Sequences, FiniteSets

CONSTANTS
    MonthDays,          \* the lengths of the months of a year
    Hours,              \* hours of a day
    WeekDays,           \* days of a week
    StartDays,          \* days of a month on which a cron may fire
    Years               \* the window of the search

ASSUME CalendarAssumption ==
    /\ MonthDays \in Seq(Nat \ {0}) /\ MonthDays # <<>>
    /\ Hours \in Nat \ {0} /\ WeekDays \in Nat \ {0} /\ Years \in Nat
    /\ StartDays \subseteq Nat \ {0}

Months == Len(MonthDays)
Length(m) == MonthDays[((m - 1) % Months) + 1]
LongestMonth == CHOOSE n \in {MonthDays[i] : i \in 1 .. Months} :
                    \A i \in 1 .. Months : MonthDays[i] <= n

VARIABLES
    crontab,    \* the fields: sets of values, and whether a day field is "*"
    now,        \* when the cron fires: month, day, hour
    candidate,
    search      \* "on", "found" or "none"

cronVars == <<crontab, now, candidate, search>>

DaysBefore[m \in Nat \ {0}] ==
    IF m = 1 THEN 0 ELSE DaysBefore[m - 1] + Length(m - 1)

Instant(t) == (DaysBefore[t.month] + t.day - 1) * Hours + t.hour
Weekday(t) == (DaysBefore[t.month] + t.day) % WeekDays
MonthField(t) == ((t.month - 1) % Months) + 1

-----------------------------------------------------------------------------
(* The setters of Date: a day beyond its month runs into the next one, an  *)
(* hour beyond its day into the next day.                                  *)
Carry(t) == IF t.day > Length(t.month)
            THEN [t EXCEPT !.month = @ + 1, !.day = @ - Length(t.month)] ELSE t

SetMonth(t, m) == Carry([t EXCEPT !.month = m])
SetDay(t, d) == Carry([t EXCEPT !.day = d])
SetHour(t, h) == IF h < Hours THEN [t EXCEPT !.hour = h]
                 ELSE SetDay([t EXCEPT !.hour = 0], t.day + 1)

(* A match on either day field counts when both are restricted.            *)
BothDays(t) ==      \* mutant: both fields have to match
    /\ t.day \in crontab.days
    /\ Weekday(t) \in crontab.weekdays
DayMatches(t) ==
    IF crontab.anyDay THEN Weekday(t) \in crontab.weekdays
    ELSE IF crontab.anyWeekday THEN t.day \in crontab.days
    ELSE t.day \in crontab.days \/ Weekday(t) \in crontab.weekdays

MonthMatches(t) == MonthField(t) \in crontab.months
HourMatches(t) == t.hour \in crontab.hours
InWindow(t) == Instant(t) < Instant(now) + Hours * Years * DaysBefore[Months + 1]

NextMonth ==
    /\ ~MonthMatches(candidate)
    /\ candidate' = SetHour(SetDay(SetMonth(candidate, candidate.month + 1), 1), 0)
    /\ UNCHANGED search

NextDay ==
    /\ MonthMatches(candidate) /\ ~DayMatches(candidate)
    /\ candidate' = SetHour(SetDay(candidate, candidate.day + 1), 0)
    /\ UNCHANGED search

NextHour ==
    /\ MonthMatches(candidate) /\ DayMatches(candidate) /\ ~HourMatches(candidate)
    /\ candidate' = SetHour(candidate, candidate.hour + 1)
    /\ UNCHANGED search

Found ==
    /\ MonthMatches(candidate) /\ DayMatches(candidate) /\ HourMatches(candidate)
    /\ search' = "found"
    /\ UNCHANGED candidate

Search ==
    /\ search = "on"
    /\ IF InWindow(candidate) THEN NextMonth \/ NextDay \/ NextHour \/ Found
       ELSE search' = "none" /\ UNCHANGED candidate
    /\ UNCHANGED <<crontab, now>>

(* cronParseField: lists, ranges and steps give any set that is not empty. *)
Fields ==
    [months : SUBSET (1 .. Months) \ {{}},
     days : SUBSET (1 .. LongestMonth) \ {{}}, anyDay : BOOLEAN,
     weekdays : SUBSET (0 .. WeekDays - 1) \ {{}}, anyWeekday : BOOLEAN,
     hours : SUBSET (0 .. Hours - 1) \ {{}}]

CronInit ==
    /\ crontab \in {f \in Fields : /\ f.anyDay => f.days = 1 .. LongestMonth
                                   /\ f.anyWeekday => f.weekdays = 0 .. WeekDays - 1}
    /\ now \in {t \in [month : 1 .. Months, day : StartDays, hour : 0 .. Hours - 1] :
                    t.day <= Length(t.month)}
    /\ candidate = SetHour(now, now.hour + 1)
    /\ search = "on"

CronSpec == CronInit /\ [][Search]_cronVars

-----------------------------------------------------------------------------
(* When both day fields are restricted a match on either counts, otherwise *)
(* the restricted one decides.                                             *)
Occurs(t) ==
    LET day == t.day \in crontab.days
        weekday == Weekday(t) \in crontab.weekdays
    IN /\ MonthField(t) \in crontab.months /\ t.hour \in crontab.hours
       /\ IF crontab.anyDay \/ crontab.anyWeekday THEN day /\ weekday ELSE day \/ weekday

(* A cron runs "on every occurrence of the crontab spec"                   *)
(* (docs/_static/reference.html): what it arms is an occurrence, and       *)
(* between that and the fire there is no other.                            *)
NextIsNext ==
    /\ search = "found" => Occurs(candidate)
    /\ search # "on" =>
        \A m \in now.month .. candidate.month : \A d \in 1 .. Length(m), h \in 0 .. Hours - 1 :
            LET t == [month |-> m, day |-> d, hour |-> h] IN
            Instant(now) < Instant(t) /\ Instant(t) < Instant(candidate) => ~Occurs(t)
=============================================================================
