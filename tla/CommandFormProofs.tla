------------------------- MODULE CommandFormProofs -------------------------
(***************************************************************************)
(* Theorems about the dates and durations of requests, for every number a  *)
(* client may send and every width of a duration.                          *)
(***************************************************************************)
EXTENDS CommandForm, Sequences, TLAPS

\* whatever is sent are numbers
Sent == date \in [DateFields -> Int] /\ duration \in Int

\* A char is in its range.
LEMMA StoredType == Sent => Stored \in Date
  BY DEF Sent, Stored, DateOf, Date

\* What a char holds of a number that fits, and of -1
LEMMA CharKeeps == \A n \in -1..255 : n % 256 = IF n = -1 THEN 255 ELSE n
  OBVIOUS

\* The fields of a date, one by one
LEMMA FieldCases ==
  ASSUME NEW f \in DateFields
  PROVE  f \in {"minutes", "hours", "day_of_month", "month", "day_of_week"}
  BY DEF DateFields

\* Reading an accepted date: every field is in its range or open, but for a
\* day whose month is open.
LEMMA AcceptedRanges ==
  ASSUME NEW d \in Date, DateAccepted(d)
  PROVE  /\ d["minutes"] \in 0..59 \cup {255}
         /\ d["hours"] \in 0..23 \cup {255}
         /\ d["day_of_month"] \in 0..255
         /\ d["month"] \in 0..12
         /\ d["day_of_week"] \in 0..7
         /\ d["month"] # 0 => d["day_of_month"] \in 0..DaysIn(d["month"])
<1>1. /\ d["minutes"] \in 0..255 /\ d["hours"] \in 0..255
      /\ d["day_of_month"] \in 0..255 /\ d["month"] \in 0..255
      /\ d["day_of_week"] \in 0..255
  BY DEF Date, DateFields
<1>2. /\ d["minutes"] \in 0..59 \cup {255} /\ d["hours"] \in 0..23 \cup {255}
      /\ d["month"] \in 0..12 /\ d["day_of_week"] \in 0..7
  BY <1>1 DEF DateAccepted, CRON_STAR
<1>3. ASSUME d["month"] # 0 PROVE d["day_of_month"] \in 0..DaysIn(d["month"])
  BY <1>1, <1>2, <1>3 DEF DateAccepted, DayFitsMonth, DaysIn
<1> QED
  BY <1>1, <1>2, <1>3

\* What cron is handed of an accepted date
LEMMA CronRanges ==
  ASSUME NEW d \in Date, DateAccepted(d)
  PROVE  LET c == CronDate(d)
         IN  /\ c["minutes"] \in 0..59 \cup {255}
             /\ c["hours"] \in 0..23 \cup {255}
             /\ c["day_of_month"] \in 1..255
             /\ c["month"] \in 1..12 \cup {255}
             /\ c["day_of_week"] \in 1..7 \cup {255}
  BY AcceptedRanges DEF CronDate, DateFields, CRON_STAR

\* The numbers of all requests are numbers.
LEMMA NumbersAreSent == FormSpec => []Sent
<1>1. FormInit => Sent
  BY DurationNumbersAssumption DEF FormInit, Init, Sent
<1>2. Sent /\ [FormNext]_vars => Sent'
  <2> SUFFICES ASSUME Sent, [FormNext]_vars PROVE Sent'
    OBVIOUS
  <2>1. Shown \in [DateFields -> Int] /\ ShownDuration \in Int
    <3>1. CronDate(Stored) \in [DateFields -> Int]
      BY StoredType DEF CronDate, CRON_STAR, Date
    <3>2. Shown \in [DateFields -> Int]
      BY <3>1 DEF Shown, DateText
    <3>3. ShownDuration \in Int
      BY UintRangeAssumption DEF ShownDuration, Signed, Uint32, Sent
    <3> QED
      BY <3>2, <3>3
  <2> DEFINE Form == [DateFields -> [every: BOOLEAN, number: Int]]
  <2>2. OpenForm \in Form /\ NewForm \in Form
    BY <2>1 DEF OpenForm, NewForm, Filled, NoNumber, EveryNumber
  <2>3. \A form \in Form : jsonify_command(form) \in [DateFields -> Int]
    BY DEF jsonify_command, EveryNumber
  <2>4. \A f \in DateFields, n \in Int : validate(f, n) \in Int
    BY DEF validate, Between, Lowest, Highest, DateFields
  <2>5. \A f \in DateFields : Numbers[f] \subseteq Int
    BY NumbersAssumption
  <2>6. \A f \in DateFields : Toggled(OpenForm, f) \in Form
    BY <2>2, <2>4 DEF Toggled
  <2>7. \A f \in DateFields : \A n \in Numbers[f] : Typed(OpenForm, f, n) \in Form
    BY <2>2, <2>4, <2>5 DEF Typed
  <2>8. Changed \subseteq Form
    BY <2>6, <2>7 DEF Changed
  <2>9. \A n \in Int : validate_duration(n) \in Int
    BY UintRangeAssumption DEF validate_duration, Between, MIN_DURATION
  <2>10. CASE OtherClient
    BY <2>5, <2>10, DurationNumbersAssumption DEF OtherClient, Request, Sent
  <2>11. CASE SaveChanged
    BY <2>1, <2>3, <2>8, <2>11 DEF SaveChanged, Sent
  <2>12. ASSUME NEW n \in DurationNumbers \cup {ShownDuration}, SaveDuration(n)
         PROVE  Sent'
    BY <2>1, <2>2, <2>3, <2>9, <2>12, DurationNumbersAssumption DEF SaveDuration, Sent
  <2>13. CASE SaveNew
    BY <2>2, <2>3, <2>13 DEF SaveNew, Sent
  <2>14. CASE UNCHANGED vars
    BY <2>14 DEF vars, Sent
  <2> QED
    BY <2>10, <2>11, <2>12, <2>13, <2>14 DEF FormNext
<1> QED
  BY <1>1, <1>2, PTL DEF FormSpec

\* No number gets past the tests into a field of cron it does not fit, however
\* it is truncated before it is tested.
THEOREM CronGetsDatesInRange == FormSpec => []AcceptedDatesFitCron
<1>1. Sent => AcceptedDatesFitCron
  <2> SUFFICES ASSUME Sent, DateAccepted(Stored)
               PROVE  LET d == CronDate(Stored)
                      IN  /\ \A f \in DateFields \ {"day_of_month"} : InCronRange(d, f)
                          /\ d["month"] # CRON_STAR /\ d["day_of_month"] # CRON_STAR =>
                               d["day_of_month"] \in 1..DaysIn(d["month"])
    BY DEF AcceptedDatesFitCron
  <2> DEFINE d == CronDate(Stored)
  <2>1. Stored \in Date
    BY StoredType
  <2>2. \A f \in DateFields \ {"day_of_month"} : InCronRange(d, f)
    BY <2>1, CronRanges DEF InCronRange, CronRange, CRON_STAR, DateFields
  <2>3. ASSUME d["month"] # CRON_STAR, d["day_of_month"] # CRON_STAR
        PROVE  d["day_of_month"] \in 1..DaysIn(d["month"])
    <3>1. /\ d["month"] = Stored["month"] /\ Stored["month"] # 0
          /\ d["day_of_month"] = Stored["day_of_month"] /\ Stored["day_of_month"] # 0
      BY <2>3 DEF CronDate, DateFields
    <3> QED
      BY <2>1, <3>1, AcceptedRanges DEF DaysIn
  <2> QED
    BY <2>2, <2>3
<1> QED
  BY <1>1, NumbersAreSent, PTL

\* The tests refuse no date that comes up in some year.
THEOREM CalendarIsAccepted == FormSpec => []LegalDatesAreAccepted
<1>1. Sent => LegalDatesAreAccepted
  <2> SUFFICES ASSUME Sent,
        \A f \in {"minutes", "hours"} : date[f] \in CronRange(f) \cup {255},
        \A f \in {"month", "day_of_week"} : date[f] \in CronRange(f) \cup {0},
        date["day_of_month"] \in 0..DaysIn(date["month"])
               PROVE  DateAccepted(Stored)
    BY DEF LegalDatesAreAccepted
  <2>1. /\ date["minutes"] \in 0..59 \cup {255}
        /\ date["hours"] \in 0..23 \cup {255}
        /\ date["month"] \in 0..12
        /\ date["day_of_week"] \in 0..7
    BY DEF CronRange
  <2>2. date["day_of_month"] \in 0..31
    BY <2>1 DEF DaysIn
  <2>3. \A f \in DateFields : date[f] \in 0..255
    BY <2>1, <2>2 DEF DateFields
  <2>4. \A f \in DateFields : Stored[f] = date[f]
    BY <2>3, CharKeeps DEF Stored, DateOf
  <2>5. Stored["day_of_month"] \in 0..DaysIn(Stored["month"])
    BY <2>4 DEF DateFields
  <2>6. DayFitsMonth(Stored)
    BY <2>1, <2>4, <2>5 DEF DayFitsMonth, DaysIn, DateFields
  <2> QED
    BY <2>1, <2>4, <2>6 DEF DateAccepted, DateFields, CRON_STAR
<1> QED
  BY <1>1, NumbersAreSent, PTL

-----------------------------------------------------------------------------
(* The form                                                                *)

\* What the page is shown of an accepted date, with "every" as the page has it
LEMMA ShownRanges ==
  ASSUME NEW d \in Date, DateAccepted(d)
  PROVE  LET t == DateText(CronDate(d))
         IN  /\ t["minutes"] \in -1..59
             /\ t["hours"] \in -1..23
             /\ t["day_of_month"] \in 0..254
             /\ t["month"] \in 0..12
             /\ t["day_of_week"] \in 0..7
             /\ t["day_of_month"] = 0 \/ t["day_of_month"] = d["day_of_month"]
             /\ t["month"] = d["month"]
<1>1. \A f \in DateFields : CronDate(d)[f] =
        IF f \in {"day_of_month", "month", "day_of_week"} /\ d[f] = 0 THEN 255 ELSE d[f]
  BY DEF CronDate, CRON_STAR
<1>2. \A f \in DateFields : DateText(CronDate(d))[f] =
        IF CronDate(d)[f] # 255 THEN CronDate(d)[f]
        ELSE IF f \in {"minutes", "hours"} THEN -1 ELSE 0
  BY DEF DateText, CRON_STAR
<1>3. {"minutes", "hours", "day_of_month", "month", "day_of_week"} \subseteq DateFields
  BY DEF DateFields
<1> QED
  BY <1>1, <1>2, <1>3, AcceptedRanges

\* Cron gets from a text what the text was written from.
LEMMA TextMeansTheSame ==
  ASSUME NEW d \in Date, DateAccepted(d)
  PROVE  LET again == DateOf([date |-> DateText(CronDate(d))])
         IN  again \in Date /\ DateAccepted(again) /\ CronDate(again) = CronDate(d)
<1> DEFINE t == DateText(CronDate(d))
           again == DateOf([date |-> t])
<1>1. /\ t["minutes"] \in -1..59
      /\ t["hours"] \in -1..23
      /\ t["day_of_month"] \in 0..254
      /\ t["month"] \in 0..12
      /\ t["day_of_week"] \in 0..7
      /\ t["day_of_month"] = 0 \/ t["day_of_month"] = d["day_of_month"]
      /\ t["month"] = d["month"]
  BY ShownRanges
<1>2. \A f \in DateFields : again[f] = t[f] % 256
  BY DEF DateOf
<1>3. \A f \in DateFields : t[f] \in -1..255
  BY <1>1 DEF DateFields
<1>4. \A f \in DateFields : again[f] = IF t[f] = -1 THEN 255 ELSE t[f]
  BY <1>2, <1>3, CharKeeps
<1>5. again \in Date
  BY <1>3, <1>4 DEF DateOf, Date
<1>6. DateAccepted(again)
  <2>1. d["month"] \in 0..12 /\ d["day_of_month"] \in 0..255 /\ DayFitsMonth(d)
    BY AcceptedRanges DEF DateAccepted
  <2>2. /\ again["month"] = d["month"]
        /\ again["day_of_month"] = 0 \/ again["day_of_month"] = d["day_of_month"]
    BY <1>1, <1>4 DEF DateFields
  <2>3. DayFitsMonth(again)
    BY <2>1, <2>2 DEF DayFitsMonth
  <2> QED
    BY <1>1, <1>4, <2>3 DEF DateAccepted, DateFields, CRON_STAR
<1>7. CronDate(again) = CronDate(d)
  <2>1. ASSUME NEW f \in DateFields PROVE CronDate(again)[f] = CronDate(d)[f]
    <3>1. d[f] \in 0..255
      BY DEF Date
    <3> QED
      BY <1>4, <3>1 DEF CronDate, DateText, CRON_STAR, DateFields
  <2> QED
    BY <2>1 DEF CronDate
<1> QED
  BY <1>5, <1>6, <1>7

\* A form that is filled and not changed sends the text it was filled from.
LEMMA UnchangedFormSends ==
  ASSUME NEW t \in [DateFields -> Int]
  PROVE  jsonify_command(Filled(t)) = t
  BY DEF jsonify_command, Filled

\* A uint32 that is shown as negative is read back as it was.
LEMMA SignedIsReadBack ==
  ASSUME NEW n \in 0..UINT_RANGE - 1
  PROVE  Uint32(Signed(n)) = n
<1>1. UINT_RANGE \in Nat \ {0}
  BY UintRangeAssumption
<1>2. n % UINT_RANGE = n
  BY <1>1
<1>3. (n - UINT_RANGE) % UINT_RANGE = n
  BY <1>1
<1> QED
  BY <1>2, <1>3 DEF Uint32, Signed

\* Whoever made a command, a form saved as it was filled leaves it alone.
THEOREM SavingUnchangedChangesNothing == FormSpec => []FormSendsBackWhatItShows
<1>1. Sent => FormSendsBackWhatItShows
  <2> SUFFICES ASSUME Sent, DateAccepted(Stored)
               PROVE  LET again == DateOf([date |-> jsonify_command(OpenForm)])
                      IN  /\ DateAccepted(again) /\ CronDate(again) = CronDate(Stored)
                          /\ Uint32(ShownDuration) = Uint32(duration)
    BY DEF FormSendsBackWhatItShows
  <2>1. Stored \in Date
    BY StoredType
  <2>2. Shown \in [DateFields -> Int]
    BY <2>1 DEF Shown, DateText, CronDate, Date, CRON_STAR
  <2>3. jsonify_command(OpenForm) = Shown
    BY <2>2, UnchangedFormSends DEF OpenForm
  <2>4. Uint32(duration) \in 0..UINT_RANGE - 1
    BY UintRangeAssumption DEF Uint32, Sent
  <2> QED
    BY <2>1, <2>3, <2>4, TextMeansTheSame, SignedIsReadBack DEF Shown, ShownDuration
<1> QED
  BY <1>1, NumbersAreSent, PTL

\* A field of a form that is opened: open, or the number cron has
LEMMA OpenFormFields ==
  ASSUME Sent, DateAccepted(Stored)
  PROVE  /\ OpenForm \in [DateFields -> [every: BOOLEAN, number: Int]]
         /\ \A f \in DateFields : OpenForm[f].every <=> CronDate(Stored)[f] = CRON_STAR
         /\ \A f \in DateFields : ~OpenForm[f].every =>
              OpenForm[f].number = CronDate(Stored)[f]
         /\ \A f \in DateFields \ {"day_of_month"} : ~OpenForm[f].every =>
              OpenForm[f].number \in Lowest(f)..Highest(f)
<1> DEFINE c == CronDate(Stored)
<1>1. Stored \in Date
  BY StoredType
<1>2. /\ c["minutes"] \in 0..59 \cup {255}
      /\ c["hours"] \in 0..23 \cup {255}
      /\ c["day_of_month"] \in 1..255
      /\ c["month"] \in 1..12 \cup {255}
      /\ c["day_of_week"] \in 1..7 \cup {255}
  BY <1>1, CronRanges
<1>3. \A f \in DateFields : Shown[f] =
        IF c[f] # 255 THEN c[f] ELSE EveryNumber(f)
  BY DEF Shown, DateText, EveryNumber, CRON_STAR
<1>4. \A f \in DateFields : c[f] \in 0..255 /\ c[f] # EveryNumber(f)
  BY <1>2 DEF EveryNumber, DateFields
<1>5. \A f \in DateFields : OpenForm[f] =
        IF Shown[f] = EveryNumber(f) THEN [every |-> TRUE, number |-> NoNumber]
        ELSE [every |-> FALSE, number |-> Shown[f]]
  BY DEF OpenForm, Filled
<1>6. ASSUME NEW f \in DateFields
      PROVE  /\ c[f] = 255 => OpenForm[f] = [every |-> TRUE, number |-> NoNumber]
             /\ c[f] # 255 => OpenForm[f] = [every |-> FALSE, number |-> c[f]]
  <2>1. c[f] = 255 => Shown[f] = EveryNumber(f)
    BY <1>3
  <2>2. c[f] # 255 => Shown[f] = c[f] /\ Shown[f] # EveryNumber(f)
    BY <1>3, <1>4
  <2> QED
    BY <1>5, <2>1, <2>2, Zenon
<1>7. OpenForm \in [DateFields -> [every: BOOLEAN, number: Int]]
  <2>1. ASSUME NEW f \in DateFields PROVE OpenForm[f] \in [every: BOOLEAN, number: Int]
    <3>1. NoNumber \in Int /\ c[f] \in Int
      BY <1>4 DEF NoNumber
    <3>2. \A b \in BOOLEAN, n \in Int : [every |-> b, number |-> n] \in [every: BOOLEAN, number: Int]
      OBVIOUS
    <3> QED
      BY <1>6, <3>1, <3>2, Zenon
  <2> QED
    BY <2>1 DEF OpenForm, Filled
<1>8. \A f \in DateFields \ {"day_of_month"} : c[f] # 255 => c[f] \in Lowest(f)..Highest(f)
  BY <1>2 DEF Lowest, Highest, DateFields
<1>9. ASSUME NEW f \in DateFields
      PROVE  /\ OpenForm[f].every <=> c[f] = 255
             /\ ~OpenForm[f].every => OpenForm[f].number = c[f]
  <2>1. CASE c[f] = 255
    <3>1. OpenForm[f] = [every |-> TRUE, number |-> NoNumber]
      BY <1>6, <2>1, Zenon
    <3> QED
      BY <2>1, <3>1
  <2>2. CASE c[f] # 255
    <3>1. OpenForm[f] = [every |-> FALSE, number |-> c[f]]
      BY <1>6, <2>2, Zenon
    <3> QED
      BY <2>2, <3>1
  <2> QED
    BY <2>1, <2>2
<1> QED
  BY <1>7, <1>8, <1>9 DEF CRON_STAR

\* What the form puts in a field is a number of the field.
LEMMA ValidateRange ==
  ASSUME NEW f \in DateFields, NEW n \in Int
  PROVE  /\ validate(f, n) \in Lowest(f)..Highest(f)
         /\ n \in CronRange(f) => validate(f, n) = n
  BY DEF validate, Between, Lowest, Highest, CronRange, DateFields

\* A date whose fields are numbers of the form or open, and whose day is one
\* of its month, is accepted.
LEMMA FormNumbersAreAccepted ==
  ASSUME NEW sent \in [DateFields -> Int],
         \A f \in DateFields \ {"day_of_month"} :
           sent[f] \in Lowest(f)..Highest(f) \cup {EveryNumber(f)},
         sent["day_of_month"] \in 0..DaysIn(sent["month"])
  PROVE  DateAccepted(DateOf([date |-> sent]))
<1> DEFINE d == DateOf([date |-> sent])
<1>1. /\ sent["minutes"] \in -1..59 /\ sent["hours"] \in -1..23
      /\ sent["month"] \in 0..12 /\ sent["day_of_week"] \in 0..7
  BY DEF Lowest, Highest, EveryNumber, DateFields
<1>2. sent["day_of_month"] \in 0..31
  BY <1>1 DEF DaysIn
<1>3. \A f \in DateFields : sent[f] \in -1..255
  BY <1>1, <1>2 DEF DateFields
<1>4. \A f \in DateFields : d[f] = IF sent[f] = -1 THEN 255 ELSE sent[f]
  BY <1>3, CharKeeps DEF DateOf
<1>5. d["month"] = sent["month"] /\ d["day_of_month"] = sent["day_of_month"]
  BY <1>1, <1>2, <1>4 DEF DateFields
<1>6. DayFitsMonth(d)
  BY <1>1, <1>5 DEF DayFitsMonth, DaysIn
<1> QED
  BY <1>1, <1>4, <1>5, <1>6 DEF DateAccepted, DateFields, CRON_STAR

\* A form of numbers that may be saved
Sendable(form) ==
  /\ form \in [DateFields -> [every: BOOLEAN, number: Int]]
  /\ \A f \in DateFields \ {"day_of_month"} :
       ~form[f].every => form[f].number \in Lowest(f)..Highest(f)
  /\ ~form["day_of_month"].every => form["day_of_month"].number \in Nat

\* What such a form sends is accepted, but for a day the month does not have.
LEMMA SendableIsAccepted ==
  ASSUME NEW form, Sendable(form)
  PROVE  LET sent == jsonify_command(form)
         IN  \/ DateAccepted(DateOf([date |-> sent]))
             \/ sent["day_of_month"] > DaysIn(sent["month"])
<1> DEFINE sent == jsonify_command(form)
<1>1. sent \in [DateFields -> Int]
  BY DEF Sendable, jsonify_command, EveryNumber
<1>2. \A f \in DateFields : sent[f] = IF form[f].every THEN EveryNumber(f) ELSE form[f].number
  BY DEF jsonify_command
<1>3. \A f \in DateFields \ {"day_of_month"} :
        sent[f] \in Lowest(f)..Highest(f) \cup {EveryNumber(f)}
  BY <1>2 DEF Sendable
<1>4. sent["day_of_month"] \in Nat
  BY <1>2 DEF Sendable, EveryNumber, DateFields
<1>5. DaysIn(sent["month"]) \in Nat
  BY DEF DaysIn
<1>6. sent["day_of_month"] \in 0..DaysIn(sent["month"])
      \/ sent["day_of_month"] > DaysIn(sent["month"])
  BY <1>4, <1>5
<1>7. DateAccepted(DateOf([date |-> sent])) \/ sent["day_of_month"] > DaysIn(sent["month"])
  <2> HIDE DEF sent
  <2> QED
    BY <1>1, <1>3, <1>6, FormNumbersAreAccepted
<1> QED
  BY <1>7

\* Whatever a user does to one field of a form, the device takes it, unless the
\* month has no such day.
THEOREM FormsAreAccepted == FormSpec => []FormDatesAreAccepted
<1>1. Sent => FormDatesAreAccepted
  <2> SUFFICES ASSUME Sent, DateAccepted(Stored), NEW form \in Changed \cup {NewForm}
               PROVE  LET sent == jsonify_command(form)
                      IN  \/ DateAccepted(DateOf([date |-> sent]))
                          \/ sent["day_of_month"] > DaysIn(sent["month"])
    BY DEF FormDatesAreAccepted
  <2>1. Sendable(OpenForm)
    <3>1. ~OpenForm["day_of_month"].every => OpenForm["day_of_month"].number \in Nat
      BY OpenFormFields, StoredType, CronRanges DEF DateFields
    <3> QED
      BY <3>1, OpenFormFields DEF Sendable
  <2>2. Sendable(NewForm)
    BY DEF Sendable, NewForm, Filled, EveryNumber, NoNumber, DateFields
  <2>3. ASSUME NEW f \in DateFields, NEW n \in Int, NEW every \in BOOLEAN
        PROVE  Sendable([OpenForm EXCEPT ![f] = [every |-> every, number |-> validate(f, n)]])
    <3>1. validate(f, n) \in Lowest(f)..Highest(f) /\ validate(f, n) \in Nat
      BY ValidateRange DEF Lowest, Highest, DateFields
    <3> QED
      BY <2>1, <3>1 DEF Sendable
  <2>4. ASSUME NEW f \in DateFields PROVE Sendable(Toggled(OpenForm, f))
    <3>0. OpenForm[f] \in [every: BOOLEAN, number: Int]
      BY <2>1 DEF Sendable
    <3>1. OpenForm[f].number \in Int /\ (~OpenForm[f].every) \in BOOLEAN
      BY <3>0
    <3>2. Toggled(OpenForm, f) =
            [OpenForm EXCEPT ![f] = [every |-> ~OpenForm[f].every,
                                     number |-> validate(f, OpenForm[f].number)]]
      BY DEF Toggled
    <3> QED
      BY <2>3, <3>1, <3>2
  <2>5. ASSUME NEW f \in DateFields, NEW n \in Numbers[f]
        PROVE  Sendable(Typed(OpenForm, f, n))
    <3>1. n \in Int
      BY NumbersAssumption
    <3>2. validate(f, n) \in Lowest(f)..Highest(f) /\ validate(f, n) \in Nat
      BY <3>1, ValidateRange DEF Lowest, Highest, DateFields
    <3> QED
      BY <2>1, <3>2 DEF Sendable, Typed
  <2>6. Sendable(form)
    BY <2>2, <2>4, <2>5 DEF Changed
  <2> QED
    BY <2>6, SendableIsAccepted
<1> QED
  BY <1>1, NumbersAreSent, PTL

\* A number cron may have, and what is sent for "every", get to cron as they are.
LEMMA FieldReachesCron ==
  ASSUME NEW sent, NEW f \in DateFields, NEW n \in 0..255,
         n = 0 => f \in {"minutes", "hours"},
         sent[f] = IF n = 255 THEN EveryNumber(f) ELSE n
  PROVE  CronDate(DateOf([date |-> sent]))[f] = n
<1>1. DateOf([date |-> sent])[f] = sent[f] % 256
  BY DEF DateOf
<1>2. CASE n = 255
  BY <1>1, <1>2 DEF EveryNumber, CronDate, CRON_STAR, DateFields
<1>3. CASE n # 255
  BY <1>1, <1>3 DEF CronDate, CRON_STAR
<1> QED
  BY <1>2, <1>3

\* What is typed gets to cron, and what is not typed stays.
THEOREM EditsReachCron == FormSpec => []EditReachesCron
<1>1. Sent => EditReachesCron
  <2> SUFFICES ASSUME Sent, DateAccepted(Stored),
                      NEW f \in {g \in DateFields : ~OpenForm[g].every},
                      NEW n \in Numbers[f] \cap CronRange(f)
               PROVE  LET sent == jsonify_command(Typed(OpenForm, f, n))
                      IN  CronDate(DateOf([date |-> sent])) =
                            [CronDate(Stored) EXCEPT ![f] = n]
    BY DEF EditReachesCron
  <2> DEFINE c == CronDate(Stored)
             form == Typed(OpenForm, f, n)
             sent == jsonify_command(form)
             got == CronDate(DateOf([date |-> sent]))
  <2>1. f \in DateFields /\ n \in Int /\ validate(f, n) = n
    BY NumbersAssumption, ValidateRange
  <2>2. /\ OpenForm \in [DateFields -> [every: BOOLEAN, number: Int]]
        /\ \A g \in DateFields : OpenForm[g].every <=> c[g] = CRON_STAR
        /\ \A g \in DateFields : ~OpenForm[g].every => OpenForm[g].number = c[g]
    BY OpenFormFields
  <2>3. \A g \in DateFields : c[g] \in 0..255 /\ (c[g] = 0 => g \in {"minutes", "hours"})
    BY StoredType, CronRanges DEF DateFields
  <2>4. /\ form[f].number = n /\ ~form[f].every
        /\ \A g \in DateFields \ {f} : form[g] = OpenForm[g]
    BY <2>1, <2>2 DEF Typed
  <2>5. \A g \in DateFields :
          sent[g] = IF form[g].every THEN EveryNumber(g) ELSE form[g].number
    BY DEF jsonify_command
  <2>6. got[f] = n
    <3>1. n \in 0..254 /\ (n = 0 => f \in {"minutes", "hours"})
      BY <2>1 DEF CronRange, DateFields
    <3>2. sent[f] = n
      BY <2>1, <2>4, <2>5, Zenon
    <3> HIDE DEF sent
    <3> QED
      BY <2>1, <3>1, <3>2, FieldReachesCron
  <2>7. ASSUME NEW g \in DateFields \ {f} PROVE got[g] = c[g]
    <3>1. sent[g] = IF OpenForm[g].every THEN EveryNumber(g) ELSE OpenForm[g].number
      BY <2>4, <2>5, Zenon
    <3>2. sent[g] = IF c[g] = 255 THEN EveryNumber(g) ELSE c[g]
      BY <2>2, <3>1, Zenon DEF CRON_STAR
    <3> HIDE DEF sent, c
    <3> QED
      BY <2>3, <3>2, FieldReachesCron
  <2>8. got = [c EXCEPT ![f] = n]
    BY <2>1, <2>6, <2>7 DEF CronDate
  <2> QED
    BY <2>8
<1> QED
  BY <1>1, NumbersAreSent, PTL

-----------------------------------------------------------------------------
(* The line of the table                                                   *)

\* The names of the months and of the days are different words.
LEMMA NamesDiffer ==
  /\ DOMAIN MonthNames = 1..12 /\ DOMAIN DayNames = 1..7
  /\ \A i \in 1..12 : MonthNames[i] # "month"
  /\ \A i \in 1..7 : DayNames[i] # "day"
  /\ \A i, j \in 1..12 : MonthNames[i] = MonthNames[j] => i = j
  /\ \A i, j \in 1..7 : DayNames[i] = DayNames[j] => i = j
<1>1. DOMAIN MonthNames = 1..12 /\ DOMAIN DayNames = 1..7
  BY DEF MonthNames, DayNames
<1>2. /\ MonthNames[1] = "Jan" /\ MonthNames[2] = "Feb" /\ MonthNames[3] = "Mar"
      /\ MonthNames[4] = "Apr" /\ MonthNames[5] = "May" /\ MonthNames[6] = "Jun"
      /\ MonthNames[7] = "Jul" /\ MonthNames[8] = "Aug" /\ MonthNames[9] = "Sep"
      /\ MonthNames[10] = "Oct" /\ MonthNames[11] = "Nov" /\ MonthNames[12] = "Dec"
  BY DEF MonthNames
<1>3. /\ DayNames[1] = "Mon" /\ DayNames[2] = "Tue" /\ DayNames[3] = "Wed"
      /\ DayNames[4] = "Thu" /\ DayNames[5] = "Fri" /\ DayNames[6] = "Sat"
      /\ DayNames[7] = "Sun"
  BY DEF DayNames
<1>4. \A i \in 1..12 : i \in {1, 2, 3, 4, 5, 6, 7, 8, 9, 10, 11, 12}
  OBVIOUS
<1>5. \A i \in 1..7 : i \in {1, 2, 3, 4, 5, 6, 7}
  OBVIOUS
<1>6. /\ \A i \in 1..12 : MonthNames[i] # "month"
      /\ \A i, j \in 1..12 : MonthNames[i] = MonthNames[j] => i = j
  BY <1>2, <1>4
<1>7. /\ \A i \in 1..7 : DayNames[i] # "day"
      /\ \A i, j \in 1..7 : DayNames[i] = DayNames[j] => i = j
  BY <1>3, <1>5
<1> QED
  BY <1>1, <1>6, <1>7

\* the numbers a page is shown
Shows(t) ==
  /\ t \in [DateFields -> Int]
  /\ t["minutes"] \in -1..59 /\ t["hours"] \in -1..23
  /\ t["day_of_month"] \in 0..254
  /\ t["month"] \in 0..12 /\ t["day_of_week"] \in 0..7

\* A line of the table is of one date.
LEMMA LineIsOfOneDate ==
  ASSUME NEW t, NEW u, Shows(t), Shows(u), command_when(t) = command_when(u)
  PROVE  t = u
<1>1. /\ TwoDigits(t["hours"]) = TwoDigits(u["hours"])
      /\ TwoDigits(t["minutes"]) = TwoDigits(u["minutes"])
      /\ when_month(t) = when_month(u)
      /\ when_dow(t) = when_dow(u)
  BY DEF command_when
<1>2. t["hours"] = u["hours"] /\ t["minutes"] = u["minutes"]
  BY <1>1 DEF TwoDigits, Shows
<1> DEFINE name(m) == IF m \in DOMAIN MonthNames THEN MonthNames[m] ELSE "month"
<1>3. \A m, n \in 0..12 : name(m) = name(n) => m = n
  BY NamesDiffer
<1>4. \A v \in {t, u} :
        when_month(v) = IF v["day_of_month"] # 0
                          THEN [words |-> "day_of_month", day |-> v["day_of_month"],
                                month |-> name(v["month"])]
                        ELSE IF v["month"] = 0
                          THEN [words |-> "every", day |-> 0, month |-> "none"]
                        ELSE [words |-> "every_day_of", day |-> 0,
                              month |-> name(v["month"])]
  BY DEF when_month, Shows
<1>5. t["day_of_month"] = u["day_of_month"] /\ t["month"] = u["month"]
  <2> HIDE DEF name
  <2>1. ASSUME NEW v \in {t, u}
        PROVE  /\ when_month(v).words = IF v["day_of_month"] # 0 THEN "day_of_month"
                                        ELSE IF v["month"] = 0 THEN "every"
                                        ELSE "every_day_of"
               /\ v["day_of_month"] # 0 => /\ when_month(v).day = v["day_of_month"]
                                           /\ when_month(v).month = name(v["month"])
               /\ v["day_of_month"] = 0 /\ v["month"] # 0 =>
                    when_month(v).month = name(v["month"])
    <3>1. CASE v["day_of_month"] # 0
      <4>1. when_month(v) = [words |-> "day_of_month", day |-> v["day_of_month"],
                             month |-> name(v["month"])]
        BY <1>4, <3>1, Zenon
      <4>2. /\ when_month(v).words = "day_of_month"
            /\ when_month(v).day = v["day_of_month"]
            /\ when_month(v).month = name(v["month"])
        BY <4>1
      <4> QED
        BY <3>1, <4>2
    <3>2. CASE v["day_of_month"] = 0 /\ v["month"] = 0
      <4>1. when_month(v) = [words |-> "every", day |-> 0, month |-> "none"]
        BY <1>4, <3>2, Zenon
      <4>2. /\ when_month(v).words = "every"
            /\ when_month(v).day = 0
            /\ when_month(v).month = "none"
        BY <4>1
      <4> QED
        BY <3>2, <4>2
    <3>3. CASE v["day_of_month"] = 0 /\ v["month"] # 0
      <4>1. when_month(v) = [words |-> "every_day_of", day |-> 0,
                             month |-> name(v["month"])]
        BY <1>4, <3>3, Zenon
      <4>2. /\ when_month(v).words = "every_day_of"
            /\ when_month(v).day = 0
            /\ when_month(v).month = name(v["month"])
        BY <4>1
      <4> QED
        BY <3>3, <4>2
    <3> QED
      BY <3>1, <3>2, <3>3
  <2>2. t["month"] \in 0..12 /\ u["month"] \in 0..12
    BY DEF Shows
  <2> QED
    BY <1>1, <1>3, <2>1, <2>2
<1>6. t["day_of_week"] = u["day_of_week"]
  <2> DEFINE any(v) == v["day_of_month"] = 0 /\ v["month"] = 0
             named(v) == v["day_of_week"] \in 1..7
  <2>1. \A v \in {t, u} : v["day_of_week"] \in 0..7 /\ (~named(v) => v["day_of_week"] = 0)
    BY DEF Shows
  <2>2. \A v \in {t, u} :
          when_dow(v) = IF named(v) /\ any(v) THEN <<DayNames[v["day_of_week"]]>>
                        ELSE IF named(v) THEN <<"on", DayNames[v["day_of_week"]]>>
                        ELSE IF any(v) THEN <<"day">> ELSE <<>>
    BY <2>1, NamesDiffer DEF when_dow
  <2>3. any(t) <=> any(u)
    BY <1>5
  <2>4. CASE any(t)
    <3>1. ASSUME NEW v \in {t, u}
          PROVE  when_dow(v)[1] = IF named(v) THEN DayNames[v["day_of_week"]] ELSE "day"
      <4>1. /\ named(v) => when_dow(v) = <<DayNames[v["day_of_week"]]>>
            /\ ~named(v) => when_dow(v) = <<"day">>
        BY <2>2, <2>3, <2>4, Zenon
      <4> QED
        BY <4>1
    <3> QED
      BY <1>1, <2>1, <3>1, NamesDiffer
  <2>5. CASE ~any(t)
    <3>1. ASSUME NEW v \in {t, u}
          PROVE  /\ named(v) => /\ Len(when_dow(v)) = 2
                                /\ when_dow(v)[2] = DayNames[v["day_of_week"]]
                 /\ ~named(v) => Len(when_dow(v)) = 0
      <4>1. /\ named(v) => when_dow(v) = <<"on", DayNames[v["day_of_week"]]>>
            /\ ~named(v) => when_dow(v) = <<>>
        BY <2>2, <2>3, <2>5, Zenon
      <4>2. named(v) => /\ Len(when_dow(v)) = 2
                        /\ when_dow(v)[2] = DayNames[v["day_of_week"]]
        BY <4>1
      <4>3. ~named(v) => Len(when_dow(v)) = 0
        BY <4>1
      <4> QED
        BY <4>2, <4>3
    <3> QED
      BY <1>1, <2>1, <3>1, NamesDiffer
  <2> QED
    BY <2>4, <2>5
<1> QED
  BY <1>2, <1>5, <1>6 DEF Shows, DateFields

\* What cron is given of an accepted date follows from what is shown of it.
LEMMA ShownDetermines ==
  ASSUME NEW d \in Date, DateAccepted(d), NEW e \in Date, DateAccepted(e),
         command_when(DateText(CronDate(d))) = command_when(DateText(CronDate(e)))
  PROVE  CronDate(d) = CronDate(e)
<1>1. ASSUME NEW x \in Date, DateAccepted(x) PROVE Shows(DateText(CronDate(x)))
  <2>1. DateText(CronDate(x)) \in [DateFields -> Int]
    BY DEF DateText, CronDate, Date, CRON_STAR
  <2> QED
    BY <1>1, <2>1, ShownRanges DEF Shows
<1>2. DateText(CronDate(d)) = DateText(CronDate(e))
  BY <1>1, LineIsOfOneDate
<1> QED
  BY <1>2, TextMeansTheSame

\* Two dates cron tells apart never look alike in the table.
THEOREM TableShowsEveryChange == FormSpec => TableTellsDatesApart
<1> DEFINE Apart == DateAccepted(Stored) /\ DateAccepted(Stored')
                    /\ CronDate(Stored') # CronDate(Stored)
                    => command_when(Shown') # command_when(Shown)
<1>1. Sent /\ Sent' => Apart
  <2> SUFFICES ASSUME Sent, Sent', DateAccepted(Stored), DateAccepted(Stored'),
                      command_when(Shown') = command_when(Shown)
               PROVE  CronDate(Stored') = CronDate(Stored)
    OBVIOUS
  <2>1. Stored \in Date
    BY StoredType
  <2>2. Stored' \in Date
    BY DEF Sent, Stored, DateOf, Date
  <2> QED
    BY <2>1, <2>2, ShownDetermines DEF Shown
<1>2. Sent /\ Sent' => [Apart]_vars
  BY <1>1
<1> QED
  BY <1>2, NumbersAreSent, PTL DEF TableTellsDatesApart
=============================================================================
