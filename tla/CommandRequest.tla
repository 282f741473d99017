--------------------------- MODULE CommandRequest ---------------------------
(***************************************************************************)
(* The command a POST or PUT on /api/command carries: how the handlers of  *)
(* app_http_routes.cpp read it, refuse it or normalise it, and the text    *)
(* app_command.cpp writes a command as, in replies and in command.cfg.     *)
(* A body is a record of the numbers found in the JSON text, of any size;  *)
(* the fields of a date are stored in a char, which is unsigned here.      *)
(***************************************************************************)
EXTENDS Integers

CONSTANTS
  Names,        \* the descriptions a client may give to a command
  RELAYS,       \* the contacts of the device, on d1..d8
  UINT_RANGE    \* 2^32 for the uint32 of a duration, smaller for TLC

ASSUME UintRangeAssumption == UINT_RANGE \in Nat \ {0}

ASSUME RelaysAssumption == RELAYS \in Nat \ {0}

\* CRON_STAR, "any value" in a field of a date
CRON_STAR == 255

DateFields == {"minutes", "hours", "day_of_month", "month", "day_of_week"}

\* struct date, as the commands use it
Date == [DateFields -> 0..255]

Types  == {"switch_open", "switch_close", "pulse_open", "pulse_close"}

\* enum command_t is given by its number in a body
TypeOf(n) == CASE n = 1 -> "switch_open"
               [] n = 2 -> "switch_close"
               [] n = 3 -> "pulse_open"
               [] n = 4 -> "pulse_close"

\* d1..d8
Pins == 1..RELAYS

-----------------------------------------------------------------------------
(* Reading a body                                                          *)

Uint32(n) == n % UINT_RANGE

\* getInt assigned to the char members of struct date
DateOf(b) == [f \in DateFields |-> b.date[f] % 256]

\* Mutant: a February of 28 days
DayFitsMonth_shortFebruary(d) ==
  /\ d["month"] = 2 => d["day_of_month"] <= 28
  /\ d["month"] \in {4, 6, 9, 11} => d["day_of_month"] <= 30
  /\ d["day_of_month"] <= 31

\* The month has been turned from 0 into CRON_STAR before the day is tested,
\* so a day of any month is not bounded at all.
DayFitsMonth(d) ==
  LET dom == d["day_of_month"]
  IN  /\ d["month"] = 2 => dom <= 29
      /\ d["month"] \in {1, 3, 5, 7, 8, 10, 12} => dom <= 31
      /\ d["month"] \in {4, 6, 9, 11} => dom <= 30

\* Mutant: the day of the week is tested as a month is
DateAccepted_weekOfTwelve(d) ==
  /\ d["minutes"] <= 59 \/ d["minutes"] = CRON_STAR
  /\ d["hours"] <= 23 \/ d["hours"] = CRON_STAR
  /\ d["month"] <= 12 /\ d["day_of_week"] <= 12
  /\ DayFitsMonth(d)

DateAccepted(d) ==
  /\ d["minutes"] <= 59 \/ d["minutes"] = CRON_STAR
  /\ d["hours"] <= 23 \/ d["hours"] = CRON_STAR
  /\ d["month"] <= 12
  /\ DayFitsMonth(d)
  /\ d["day_of_week"] <= 7

\* "Json bad syntax" and the range tests. The test for a negative duration
\* is made on the uint32 and refuses nothing.
Accepted(b) ==
  /\ b.syntax_ok
  /\ b.type \in 1..4
  /\ b.relay_id \in Pins
  /\ DateAccepted(DateOf(b))

\* The date handed to cron: 0 stands for "every" in a day or a month
CronDate(d) ==
  [f \in DateFields |->
     IF f \in {"day_of_month", "month", "day_of_week"} /\ d[f] = 0
       THEN CRON_STAR ELSE d[f]]

-----------------------------------------------------------------------------
(* Writing a command as text and reading it back                           *)

\* CRON_STAR is printed as -1 in a time and as 0 in a day
DateText(d) ==
  [f \in DateFields |->
     IF d[f] # CRON_STAR THEN d[f]
     ELSE IF f \in {"minutes", "hours"} THEN -1 ELSE 0]

\* Mutant: the number is kept as it is read
DateFromText_wide(t) == [f \in DateFields |-> t[f]]

DateFromText(t) == [f \in DateFields |-> t[f] % 256]

\* a uint32 printed with %d
Signed(n) == IF 2 * n < UINT_RANGE THEN n ELSE n - UINT_RANGE

\* The characters between two braces of the "commands" array
Text == [id: Nat, enabled: BOOLEAN, name: Names \cup {""}, type: Types,
         duration: Int, relay_id: Pins, date: [DateFields -> -1..255]]

TextOf(c) ==
  [id |-> c.id, enabled |-> c.enabled, name |-> c.name, type |-> c.type,
   duration |-> Signed(c.duration), relay_id |-> c.output,
   date |-> DateText(c.exe_time)]
=============================================================================
