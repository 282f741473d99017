---------------------------- MODULE RequestDates ----------------------------
(***************************************************************************)
(* The dates of requests, one number after another changed by a client,    *)
(* against what cron documents (src/include/espbot_cron.hpp) and against a *)
(* calendar: which are accepted, what cron is handed, and what is left of  *)
(* them in the file and after a restart.                                   *)
(***************************************************************************)
EXTENDS CommandRequest

CONSTANT Numbers   \* the numbers to try, a function of the field

ASSUME NumbersAssumption == Numbers \in [DateFields -> SUBSET Int]

VARIABLE date      \* the date of the last request

Init == date = [f \in DateFields |-> 0]

Request(f, n) == date' = [date EXCEPT ![f] = n]

Next == \E f \in DateFields : \E n \in Numbers[f] : Request(f, n)

Spec == Init /\ [][Next]_date

-----------------------------------------------------------------------------
\* What the handlers make of the date
Stored == DateOf([date |-> date])

CronRange(f) == CASE f = "minutes"      -> 0..59
                  [] f = "hours"        -> 0..23
                  [] f = "day_of_month" -> 1..31
                  [] f = "month"        -> 1..12
                  [] f = "day_of_week"  -> 1..7

InCronRange(d, f) == d[f] \in CronRange(f) \cup {CRON_STAR}

DaysIn(month) == CASE month = 2 -> 29
                   [] month \in {4, 6, 9, 11} -> 30
                   [] OTHER -> 31

\* What cron is handed is in the ranges it documents, whatever numbers were
\* truncated to it; of days, when the month is given: that day then exists.
AcceptedDatesFitCron ==
  LET d == CronDate(Stored)
  IN  DateAccepted(Stored) =>
        /\ \A f \in DateFields \ {"day_of_month"} : InCronRange(d, f)
        /\ d["month"] # CRON_STAR /\ d["day_of_month"] # CRON_STAR =>
             d["day_of_month"] \in 1..DaysIn(d["month"])

\* Every date that comes up in some year, with 255 or 0 for "every" as the
\* handlers have it, is accepted.
LegalDatesAreAccepted ==
  /\ \A f \in {"minutes", "hours"} : date[f] \in CronRange(f) \cup {255}
  /\ \A f \in {"month", "day_of_week"} : date[f] \in CronRange(f) \cup {0}
  /\ date["day_of_month"] \in 0..DaysIn(date["month"])
  => DateAccepted(Stored)
=============================================================================
