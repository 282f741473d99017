---------------------------- MODULE CommandForm ----------------------------
(***************************************************************************)
(* The form a user edits a command in, and the line that shows it in the   *)
(* table (web/home.js), against the handlers of the device: what becomes   *)
(* of a date and a duration on the way from a request to the device, from  *)
(* the device to the form, and back.                                       *)
(*                                                                         *)
(* A saved form is one step here: the command of the last request that was *)
(* accepted is fetched, one field is changed, and the form is sent. Other  *)
(* clients send what they like (RequestDates).                             *)
(***************************************************************************)
EXTENDS RequestDates

CONSTANT DurationNumbers   \* the durations to try

ASSUME DurationNumbersAssumption == DurationNumbers \subseteq Int

VARIABLE duration   \* the duration in the last request

vars == <<date, duration>>

MIN_DURATION == 10

\* what stands for "every" in a request and in a reply
EveryNumber(f) == IF f \in {"minutes", "hours"} THEN -1 ELSE 0

\* an empty field of the form
NoNumber == -2

Lowest(f) == IF f \in {"minutes", "hours"} THEN 0 ELSE 1
Highest(f) == CASE f = "minutes"      -> 59
                [] f = "hours"        -> 23
                [] f = "day_of_month" -> 31
                [] f = "month"        -> 12
                [] f = "day_of_week"  -> 7

Between(low, high, n) == IF n < low THEN low ELSE IF n > high THEN high ELSE n

\* Mutant: a field may be one more than its highest number
validate_late(f, n) == Between(Lowest(f), Highest(f) + 1, n)

\* validate_min, validate_hour, validate_dom, validate_month, validate_dow: an
\* empty field gets the lowest number, too. A
\* new month leaves the day alone: the cases that would bound it compare a
\* text with numbers, and none applies.
validate(f, n) == Between(Lowest(f), Highest(f), n)

validate_duration(n) == Between(MIN_DURATION, UINT_RANGE - 1, n)

-----------------------------------------------------------------------------
(* The form: of each field its number and its box "every"                  *)

\* Mutant: 0 is taken for "every" in all fields
Filled_zero(text) ==
  [f \in DateFields |->
     IF text[f] <= 0 THEN [every |-> TRUE, number |-> NoNumber]
     ELSE [every |-> FALSE, number |-> text[f]]]

\* update_command_idx
Filled(text) ==
  [f \in DateFields |->
     IF text[f] = EveryNumber(f) THEN [every |-> TRUE, number |-> NoNumber]
     ELSE [every |-> FALSE, number |-> text[f]]]

NewForm == Filled([f \in DateFields |-> EveryNumber(f)])

Typed(form, f, n) == [form EXCEPT ![f].number = validate(f, n)]

Toggled(form, f) ==
  [form EXCEPT ![f] = [every |-> ~@.every, number |-> validate(f, @.number)]]

\* Mutant: the number is sent although the box is checked
jsonify_command_number(form) == [f \in DateFields |-> form[f].number]

\* command_min_val, command_hour_val, ... and jsonify_command
jsonify_command(form) ==
  [f \in DateFields |->
     IF form[f].every THEN EveryNumber(f) ELSE form[f].number]

-----------------------------------------------------------------------------
(* The line of the table                                                   *)

MonthNames == <<"Jan", "Feb", "Mar", "Apr", "May", "Jun", "Jul", "Aug", "Sep",
                "Oct", "Nov", "Dec">>
DayNames == <<"Mon", "Tue", "Wed", "Thu", "Fri", "Sat", "Sun">>

TwoDigits(n) == IF n = -1 THEN -1 ELSE n % 100

\* Mutant: the day of the week is shown for any day and month only
when_dow_alone(d) ==
  LET any == d["day_of_month"] = 0 /\ d["month"] = 0
  IN  IF ~any THEN <<>>
      ELSE IF d["day_of_week"] = 0 THEN <<"day">>
      ELSE <<DayNames[d["day_of_week"]]>>

when_dow(d) ==
  LET any == d["day_of_month"] = 0 /\ d["month"] = 0
      named == d["day_of_week"] \in DOMAIN DayNames
  IN  IF named /\ any THEN <<DayNames[d["day_of_week"]]>>
      ELSE IF named THEN <<"on", DayNames[d["day_of_week"]]>>
      ELSE IF any /\ d["day_of_week"] = 0 THEN <<"day">>
      ELSE <<>>

when_month(d) ==
  LET dom == d["day_of_month"]
      name == IF d["month"] \in DOMAIN MonthNames THEN MonthNames[d["month"]]
              ELSE "month"
  IN  IF d["month"] \notin 0..12 THEN [words |-> "none", day |-> 0, month |-> "none"]
      ELSE IF dom # 0 THEN [words |-> "day_of_month", day |-> dom, month |-> name]
      ELSE IF d["month"] = 0 THEN [words |-> "every", day |-> 0, month |-> "none"]
      ELSE [words |-> "every_day_of", day |-> 0, month |-> name]

\* -1 for a time that is not shown
command_when(d) ==
  [hour |-> TwoDigits(d["hours"]), min |-> TwoDigits(d["minutes"]),
   month |-> when_month(d), dow |-> when_dow(d)]

-----------------------------------------------------------------------------
(* The steps                                                               *)

\* what GET answers for the command of the last request
Shown == DateText(CronDate(Stored))
ShownDuration == Signed(Uint32(duration))

OpenForm == Filled(Shown)

FormInit == Init /\ duration \in DurationNumbers

OtherClient ==
  \/ (\E f \in DateFields : \E n \in Numbers[f] : Request(f, n)) /\ UNCHANGED duration
  \/ duration' \in DurationNumbers /\ UNCHANGED date

\* the forms after a number is typed in a field that is not disabled, or a box
\* is changed
Changed ==
  UNION {IF OpenForm[f].every THEN {Toggled(OpenForm, f)}
         ELSE {Toggled(OpenForm, f)} \cup {Typed(OpenForm, f, n) : n \in Numbers[f]} :
           f \in DateFields}

SaveChanged ==
  /\ DateAccepted(Stored)
  /\ \E form \in Changed : date' = jsonify_command(form)
  /\ duration' = ShownDuration

\* the type is changed, or a duration is typed, and the form is saved
SaveDuration(n) ==
  /\ DateAccepted(Stored)
  /\ date' = jsonify_command(OpenForm)
  /\ duration' = validate_duration(n)

\* a new command is saved; the form keeps the duration it had
SaveNew ==
  /\ date' = jsonify_command(NewForm)
  /\ UNCHANGED duration

FormNext ==
  \/ OtherClient
  \/ SaveChanged
  \/ \E n \in DurationNumbers \cup {ShownDuration} : SaveDuration(n)
  \/ SaveNew

FormSpec == FormInit /\ [][FormNext]_vars

-----------------------------------------------------------------------------
(* Properties                                                              *)

\* Saving a form as it was filled changes nothing, whatever client made the
\* command: not the date cron has, and not the duration, which is shown as a
\* negative number from half its range on.
FormSendsBackWhatItShows ==
  DateAccepted(Stored) =>
    LET again == DateOf([date |-> jsonify_command(OpenForm)])
    IN  /\ DateAccepted(again) /\ CronDate(again) = CronDate(Stored)
        /\ Uint32(ShownDuration) = Uint32(duration)

\* Whatever is typed and checked in the form, the device accepts it, but for a
\* day the month does not have.
FormDatesAreAccepted ==
  DateAccepted(Stored) =>
    \A form \in Changed \cup {NewForm} :
      LET sent == jsonify_command(form)
      IN  \/ DateAccepted(DateOf([date |-> sent]))
          \/ sent["day_of_month"] > DaysIn(sent["month"])

\* A number typed in its range gets to cron as that number, and every other
\* field cron has stays as it is.
EditReachesCron ==
  DateAccepted(Stored) =>
    \A f \in {g \in DateFields : ~OpenForm[g].every} :
      \A n \in Numbers[f] \cap CronRange(f) :
        LET sent == jsonify_command(Typed(OpenForm, f, n))
        IN  CronDate(DateOf([date |-> sent])) = [CronDate(Stored) EXCEPT ![f] = n]

\* A change of what cron is given is a change of the line in the table.
TableTellsDatesApart ==
  [][DateAccepted(Stored) /\ DateAccepted(Stored')
     /\ CronDate(Stored') # CronDate(Stored)
       => command_when(Shown') # command_when(Shown)]_vars
=============================================================================
