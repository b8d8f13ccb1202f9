------------------------------- MODULE CronTime -------------------------------
(***************************************************************************)
(* When a scheduled task is due again (ScheduledTask._next_time), and the  *)
(* runner that finds it due (SchedulerRunner): every execution, however    *)
(* late, computes the next time from the time it is at.                    *)
(*                                                                         *)
(* Times are counted in half minutes from midnight of a Monday, so that a  *)
(* time on the minute differs from one within it. Fields of an expression  *)
(* are records: "*", "*/n", a number, or something int() refuses.          *)
(***************************************************************************)
EXTENDS Integers

CONSTANTS
    Expressions,    \* expressions of the tasks
    Starts,         \* times at which a task is created
    Delays,         \* how late an execution may be
    MaxTriggers     \* bound: executions

VARIABLES expr, since, next, triggers

cronVars == <<expr, since, next, triggers>>

Minute == 2
Hour == 60 * Minute
Day == 24 * Hour
Week == 7 * Day

Any == [is |-> "any", n |-> 0]
Every(n) == [is |-> "every", n |-> n]
At(n) == [is |-> "at", n |-> n]
Unreadable == [is |-> "unreadable", n |-> 0]
Expression(minute, hour, dow) == [minute |-> minute, hour |-> hour, dow |-> dow]

HourOf(t) == t - (t % Hour)
DayOf(t) == t - (t % Day)
Weekday(t) == (t \div Day) % 7

LaterOrAfterwards(candidate, now, period) ==
    IF candidate < now THEN candidate + period ELSE candidate

\* The candidate, or the one a period later if it is not in the future.
LaterOr(candidate, now, period) ==
    IF candidate <= now THEN candidate + period ELSE candidate

Hourly(e, now) == LaterOr(HourOf(now) + e.minute.n * Minute, now, Hour)

OnADay(e, now) ==
    LET today == DayOf(now) + e.hour.n * Hour + e.minute.n * Minute IN
    IF e.dow = Any
    THEN LaterOr(today, now, Day)
    ELSE LaterOr(today + ((e.dow.n - Weekday(now)) % 7) * Day, now, Week)

\* The step of an hour "*/n" is read and never used: after the first
\* correction the candidate is in the future, and the loop that adds the step
\* does not run.
NextTime(e, now) ==
    CASE e.minute.is = "every" -> now + (IF e.minute.n > 1 THEN e.minute.n ELSE 1) * Minute
      [] e.minute.is = "any" -> now + Minute
      [] e.minute.is = "at" /\ e.hour.is \in {"every", "any"} -> Hourly(e, now)
      [] e.minute.is = "at" /\ e.hour.is = "at" /\ e.dow.is \in {"any", "at"} -> OnADay(e, now)
      [] OTHER -> now + 30 * Minute

Init ==
    /\ expr \in Expressions
    /\ since \in Starts
    /\ next = NextTime(expr, since)
    /\ triggers = 0

\* find_due returns the task, it is executed, and mark_triggered.
Trigger ==
    /\ triggers < MaxTriggers
    /\ triggers' = triggers + 1
    /\ \E d \in Delays : since' = next + d
    /\ next' = NextTime(expr, since')
    /\ UNCHANGED expr

Next == Trigger
Spec == Init /\ [][Next]_cronVars

----------------------------------------------------------------------------
\* Properties

\* Whether a time is one the expression names, for those that name minutes.
Names(e, t) ==
    /\ t % Minute = 0
    /\ (t % Hour) \div Minute = e.minute.n
    /\ e.hour.is = "at" => (t % Day) \div Hour = e.hour.n
    /\ e.dow.is = "at" => Weekday(t) = e.dow.n

NamesTimes(e) ==
    /\ e.minute.is = "at" /\ e.hour.is \in {"at", "any"}
    /\ e.hour = Any => e.dow = Any
    /\ e.dow.is \in {"any", "at"}

\* The next time of a task is in the future and at most a week away, and for
\* an expression that names times it is the first of them: none is left out,
\* whichever day and minute the task was created or executed at.
NextIsTheNext ==
    /\ since < next /\ next <= since + Week
    /\ NamesTimes(expr) =>
         /\ Names(expr, next)
         /\ \A t \in since + 1 .. next - 1 : ~Names(expr, t)

\* "Every N hours at minute M", as the dialog that writes these expressions
\* describes them, triggers N hours after it triggered on time.
EveryNHours ==
    [][expr.hour.is = "every" /\ since' = next => next' = next + expr.hour.n * Hour]_cronVars
=============================================================================
