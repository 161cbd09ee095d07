-------------------------------- MODULE Planner --------------------------------
(***************************************************************************)
(* Which rows one job loads for the dates of a command: the dates asked    *)
(* for (execution/date_window.py), how a job is to be executed             *)
(* (execution/model_config.py), its invocations (execution/planner.py), the*)
(* dates that execution/task_run.py takes them for, and the values that    *)
(* refactor/verification_plan.py asks a shadow run for.  Both have a       *)
(* calendar of their own; a slice is what their calendars must agree on.   *)
(***************************************************************************)
EXTENDS Integers, Sequences, SequencesExt

CONSTANTS
    Months,         \* the days at which months begin, the last one ends the calendar
    Monday,         \* 0..6: the first Monday
    WeekStart,      \* 0..6: the first day that verification.week_start names
    Hours,          \* of a day
    Jobs,           \* configurations of a job and of its warehouse, see Config
    Commands,
    Days,           \* the days a command may be given on
    None

ASSUME CalendarAssumption ==
    /\ Months \in Seq(Nat) /\ Len(Months) > 1 /\ Months[1] = 0
    /\ \A m, n \in 1..Len(Months) : m < n => Months[m] < Months[n]
    /\ Monday \in 0..6 /\ WeekStart \in 0..6 /\ Hours \in Nat \ {0}

Day == 0..(Months[Len(Months)] - 1)
Hour == 0..(Hours - 1)
Moment == Day \X Hour                           \* a row, by its hour
MonthOf(d) == CHOOSE m \in 1..(Len(Months) - 1) : Months[m] <= d /\ d < Months[m + 1]
LengthOf(m) == Months[m + 1] - Months[m]

\* A text "2024-01-31", or with an hour.
Value == [day : Day, hour : Hour \cup {None}]
Text(d) == [day |-> d, hour |-> None]

-----------------------------------------------------------------------------
(* The dates of a command.                                                 *)

\* task_run has dates, or looks back; a full refresh without either takes the dates
\* of the ODS tables, which are dates here as well.  A shadow run has a window.
Command == [kind : {"regular", "refresh"}, dates : Seq(Day), back : {None} \cup Int,
            end : Day \cup {None}, skip : BOOLEAN]
           \cup [kind : {"shadow"}, from : Moment, to : Moment]

\* result, after n of the dates given
Unique(s) ==
    LET result[n \in Nat] ==
          IF n = 0 THEN <<>>
          ELSE IF s[n] \in ToSet(result[n - 1]) THEN result[n - 1]
          ELSE Append(result[n - 1], s[n])
    IN  result[Len(s)]

\* _subtract_calendar_months, to a day that the month has.
Back(d, months) ==
    LET m == MonthOf(d) - months
        inMonth == d - Months[MonthOf(d)]
    IN  Months[m] + IF inMonth < LengthOf(m) THEN inMonth ELSE LengthOf(m) - 1

BadDates(c) ==
    \/ c.dates # <<>> /\ c.back # None
    \/ c.end # None /\ c.back = None
    \/ c.back # None /\ c.back < 1
    \/ c.kind = "regular" /\ c.dates = <<>> /\ c.back = None
    \/ c.kind = "refresh" /\ c.skip

LookedBackFrom(c, day) == IF c.end = None THEN day ELSE c.end

Dates(c, day) ==
    IF c.dates # <<>> THEN Unique(c.dates)
    ELSE LET end == LookedBackFrom(c, day)
         IN  [n \in 1..(end - Back(end, c.back) + 1) |-> Back(end, c.back) + n - 1]

-----------------------------------------------------------------------------
(* How a job is executed.                                                  *)

Periods == {"D", "W", "M", "H"}
\* "unset" where a file says nothing; "bad" for anything it may not say.
Config == [materialized : {"unset", "incremental", "full", "bad"},
           strategy : {"unset", "replay_slices", "companion", "legacy_full_refresh", "replace_all", "bad"},
           slice : Periods \cup {"unset", "bad"},       \* of the model
           default : Periods \cup {"unset", "bad"},     \* of the warehouse
           window : {"unset", "set", "bad"},            \* full_refresh_window
           column : BOOLEAN, companion : BOOLEAN, history : BOOLEAN]        \* in the DDL; the file; historical_replay

Full(j) == j.materialized = "full"
Strategy(j) == IF j.strategy # "unset" THEN j.strategy
               ELSE IF Full(j) THEN "replace_all" ELSE "replay_slices"
Period(j) == IF Full(j) THEN "unset" ELSE IF j.slice # "unset" THEN j.slice ELSE j.default
BadConfig(j) ==
    \/ j.materialized = "bad" \/ Strategy(j) = "bad"
    \/ Full(j) # (Strategy(j) = "replace_all")
    \/ Full(j) /\ j.slice # "unset"
    \/ Period(j) = "bad"
    \/ Strategy(j) = "replay_slices" /\ Period(j) = "unset"
    \/ Period(j) # "unset" /\ ~j.column
    \/ Strategy(j) = "companion" /\ ~j.companion

-----------------------------------------------------------------------------
(* Its invocations: a value of the slice parameter, a window of days, or neither. *)

Invocation == [value : Value \cup {None}, from : Day \cup {None}, to : Day \cup {None}]
Whole == [value |-> None, from |-> None, to |-> None]

Normal(v, period) ==
    IF period = "M" THEN Text(Months[MonthOf(v.day)])
    ELSE IF period = "W" THEN Text(v.day - ((v.day - Monday) % 7))
    ELSE v
Replayed(j, values) == {Normal(v, Period(j)) : v \in values}
Historical(j, values, today) == ~j.history /\ \E v \in Replayed(j, values) : v # Text(today)
Each(j, values) == {[Whole EXCEPT !.value = v] : v \in Replayed(j, values)}

\* plan_regular_run
Regular(j, values) ==
    IF Full(j) \/ Period(j) = "unset" \/ values = {} THEN {Whole} ELSE Each(j, values)
BadRegular(j, values, today) == ~Full(j) /\ Period(j) # "unset" /\ Historical(j, values, today)

Least(S) == CHOOSE x \in S : \A y \in S : x <= y
Greatest(S) == CHOOSE x \in S : \A y \in S : x >= y
\* Fault: the days in between are taken along.
ContiguousNot(S) == TRUE
Contiguous(S) == \A d \in Least(S)..Greatest(S) : d \in S

\* plan_full_refresh, for at least one day
Windowed(j) == Strategy(j) = "companion" /\ j.window # "unset"
Refresh(j, days) ==
    IF Strategy(j) = "replay_slices" THEN Each(j, {Text(d) : d \in days})
    ELSE IF Windowed(j) THEN {[Whole EXCEPT !.from = Least(days), !.to = Greatest(days)]}
    ELSE {Whole}
BadRefresh(j, days, today) ==
    \/ Strategy(j) = "replay_slices" /\ Historical(j, {Text(d) : d \in days}, today)
    \/ Windowed(j) /\ (j.window = "bad" \/ ~Contiguous(days))

-----------------------------------------------------------------------------
(* The values that a plan asks of a shadow run, and what an invocation loads. *)

Before(t, u) == t[1] < u[1] \/ (t[1] = u[1] /\ t[2] < u[2])
Start(d, period) ==
    IF period = "M" THEN Months[MonthOf(d)]
    ELSE IF period = "W" THEN d - ((d - WeekStart) % 7)
    ELSE d
\* _period_values_for_window: hours, or days from the floor to the ceiling of the window.
ValuesFor(from, to, period) ==
    IF period = "H" THEN {[day |-> t[1], hour |-> t[2]] : t \in {u \in Moment : ~Before(u, from) /\ Before(u, to)}}
    ELSE LET first == Start(from[1], period)
             last == IF to[2] = 0 THEN to[1] - 1 ELSE to[1]
         IN  {Text(d) : d \in {e \in first..last : Start(e, period) = e}}

\* The rows of the slice that a value names.
Slice(v, period) ==
    IF period = "H" THEN {<<v.day, IF v.hour = None THEN 0 ELSE v.hour>>}
    ELSE {t \in Moment :
            IF period = "M" THEN MonthOf(t[1]) = MonthOf(v.day)
            ELSE IF period = "W" THEN v.day <= t[1] /\ t[1] < v.day + 7
            ELSE t[1] = v.day}
Load(j, i) ==
    IF i.value # None THEN Slice(i.value, Period(j))
    ELSE IF i.from # None THEN {t \in Moment : i.from <= t[1] /\ t[1] <= i.to}
    ELSE Moment
LoadAll(j, S) == UNION {Load(j, i) : i \in S}

\* Windows of a plan are periods and not empty, a full refresh has dates, and the calendar
\* begins before any month that a command looks back to.
ASSUME AskingAssumption ==
    /\ None \notin Int /\ None \notin [day : Int, hour : Int \cup {None}]
    /\ Jobs \subseteq Config /\ Commands \subseteq Command /\ Days \subseteq Day
    /\ \A c \in Commands :
          IF c.kind = "shadow" THEN Before(c.from, c.to)
          ELSE /\ c.back # None => \A d \in Days : c.back < MonthOf(LookedBackFrom(c, d))
               /\ c.kind = "refresh" => c.dates # <<>> \/ c.back # None

-----------------------------------------------------------------------------
VARIABLES
    job, command,
    began, today,   \* the days the command is given, and it is now
    stage,          \* "new", "running", or how it has ended
    dates,          \* dates to come
    loaded          \* rows

plannerVars == <<job, command, began, today, stage, dates, loaded>>

PlannerInit ==
    /\ job \in Jobs /\ command \in Commands
    /\ began \in Days /\ today = began
    /\ stage = "new" /\ dates = <<>> /\ loaded = {}

Skipped(c, j, d, day) == c.skip /\ ~j.history /\ d # day      \* _plan_regular_invocations
ValuesOf(c, j) == ValuesFor(c.from, c.to, Period(j))
Wanted(c, j) == IF Full(j) \/ Period(j) = "unset" THEN {} ELSE ValuesOf(c, j)

\* Nothing is written before every job and date has been planned once.
Refused(c, j, day) ==
    \/ BadConfig(j)
    \/ c.kind # "shadow" /\ BadDates(c)
    \/ c.kind = "shadow" /\ BadRegular(j, Wanted(c, j), day)
    \/ c.kind = "refresh" /\ BadRefresh(j, ToSet(Dates(c, day)), day)
    \/ /\ c.kind = "regular"
       /\ \E d \in ToSet(Dates(c, day)) : ~Skipped(c, j, d, day) /\ BadRegular(j, {Text(d)}, day)

Validate ==
    /\ stage = "new"
    /\ IF Refused(command, job, today) THEN stage' = "refused" /\ UNCHANGED dates
       ELSE /\ stage' = "running"
            /\ dates' = IF command.kind = "shadow" THEN <<>> ELSE Dates(command, today)
    /\ UNCHANGED <<job, command, began, today, loaded>>

\* One date of a regular run: it is planned again.
RunDate ==
    /\ stage = "running" /\ command.kind = "regular" /\ dates # <<>>
    /\ LET v == {Text(Head(dates))}
       IN  IF Skipped(command, job, Head(dates), today) THEN dates' = Tail(dates) /\ UNCHANGED <<stage, loaded>>
           ELSE IF BadRegular(job, v, today) THEN stage' = "failed" /\ UNCHANGED <<dates, loaded>>
           ELSE /\ dates' = Tail(dates)
                /\ loaded' = loaded \cup LoadAll(job, Regular(job, v))
                /\ UNCHANGED stage
    /\ UNCHANGED <<job, command, began, today>>

\* A full refresh, and a shadow run, have all dates in one plan.
RunAll ==
    /\ stage = "running" /\ (command.kind = "refresh" => dates # <<>>) /\ command.kind # "regular"
    /\ LET bad == IF command.kind = "shadow" THEN BadRegular(job, Wanted(command, job), today)
                  ELSE BadRefresh(job, ToSet(dates), today)
           plan == IF command.kind = "shadow" THEN Regular(job, Wanted(command, job))
                   ELSE Refresh(job, ToSet(dates))
       IN  IF bad THEN stage' = "failed" /\ UNCHANGED loaded
           ELSE stage' = "completed" /\ loaded' = LoadAll(job, plan)
    /\ UNCHANGED <<job, command, began, today, dates>>

EndDates ==
    /\ stage = "running" /\ command.kind = "regular" /\ dates = <<>>
    /\ stage' = "completed"
    /\ UNCHANGED <<job, command, began, today, dates, loaded>>

Midnight ==
    /\ stage = "running" /\ today = began /\ today + 1 \in Day
    /\ today' = today + 1
    /\ UNCHANGED <<job, command, began, stage, dates, loaded>>

PlannerNext == Validate \/ RunDate \/ RunAll \/ EndDates \/ Midnight

-----------------------------------------------------------------------------
(* What was asked for, without the planner.                                *)

\* The slices of a period are a partition of the calendar.
SliceOf(t, period) ==
    IF period = "H" THEN t
    ELSE IF period = "M" THEN MonthOf(t[1])
    ELSE IF period = "W" THEN (t[1] - WeekStart + 7) \div 7
    ELSE t[1]
SlicesOf(moments, period) ==
    LET slices == {SliceOf(t, period) : t \in moments}
    IN  {u \in Moment : SliceOf(u, period) \in slices}
AskedDates(c, j, day) == {d \in ToSet(Dates(c, day)) : ~(c.skip /\ ~j.history /\ d # day)}
\* A date stands for its first hour.
AskedOn(c, j, d) ==
    IF c.kind = "refresh" /\ Windowed(j) THEN {t \in Moment : t[1] = d}
    ELSE IF Period(j) = "unset" \/ (c.kind = "refresh" /\ Strategy(j) # "replay_slices")
    THEN Moment
    ELSE SlicesOf({<<d, 0>>}, Period(j))
AskedBetween(j, from, to) ==
    IF Period(j) = "unset" THEN Moment
    ELSE SlicesOf({u \in Moment : ~Before(u, from) /\ Before(u, to)}, Period(j))
Asked(c, j, day) ==
    IF c.kind = "shadow" THEN AskedBetween(j, c.from, c.to)
    ELSE UNION {AskedOn(c, j, d) : d \in AskedDates(c, j, day)}

(* A command that completes has loaded the slices of the dates asked for and no other *)
(* rows; one that is refused has loaded nothing; and none fails on its way for a reason *)
(* that planning could have seen.  The day may change meanwhile for jobs that can be    *)
(* replayed.                                                                            *)
AsAsked ==
    began = today \/ job.history =>
        /\ stage = "completed" => loaded = Asked(command, job, began)
        /\ stage = "refused" => loaded = {}
        /\ stage # "failed"
=============================================================================
