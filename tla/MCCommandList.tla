--------------------------- MODULE MCCommandList ---------------------------
(* Constants for the model checking of CommandList. *)
EXTENDS CommandListRefinement

MCNames == {"lamp", "pump"}

\* minute and hour, then day, month and day of week, as the client gives them
MCDate(min, hour, day) ==
  [f \in DateFields |-> CASE f = "minutes" -> min
                          [] f = "hours" -> hour
                          [] OTHER -> day]

MCBody(name, enabled, type, date, pin, ms) ==
  [syntax_ok |-> TRUE, name |-> name, enabled |-> enabled, type |-> type,
   date |-> date, relay_id |-> pin, duration |-> ms]

\* every hour on the hour; at noon of the first of January if it is a Monday
Hourly == MCDate(0, -1, 0)
Once   == MCDate(0, 12, 1)

Lamp  == MCBody("lamp", TRUE,  1, Hourly, 1, 0)
Pump  == MCBody("pump", TRUE,  4, Once,   2, -1)
Idle  == MCBody("pump", FALSE, 4, Once,   2, 3)
Wrong == MCBody("lamp", TRUE,  5, Hourly, 1, 0)

TwoBodies   == {Lamp, Idle, Wrong}
ThreeBodies == {Lamp, Pump, Idle, Wrong}

\* nine o'clock, when only Lamp is due, and a minute past noon
MCClock == {MCDate(0, 9, 1), MCDate(1, 12, 1), MCDate(0, 12, 1)}
=============================================================================
