--------------------------- MODULE MCRequestDates ---------------------------
(* Constants for the model checking of CommandForm and RequestDates. *)
EXTENDS CommandForm

\* Numbers at and around the bounds the handlers test, and those a char folds
\* onto a legal one: 300 is 44, 269 is 13, 285 is 29 and 257 is 1.
MCNumbers ==
  [f \in DateFields |->
     CASE f = "minutes"      -> {-1, 0, 59, 60, 300}
       [] f = "hours"        -> {-1, 0, 23, 24, 254}
       [] f = "day_of_month" -> {-1, 0, 1, 29, 30, 31, 32, 254, 285}
       [] f = "month"        -> (-1..13) \cup {257, 269}
       [] f = "day_of_week"  -> {-1, 0, 1, 7, 8}]

\* of 64, 40 is listed as a negative number
MCDurations == {12, 40}
=============================================================================
