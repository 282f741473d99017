---------------------------- MODULE MCSmartTimer ----------------------------
(* A small instance of SmartTimer for TLC. *)
EXTENDS SmartTimer

MCNames == {"lamp"}

MCBody(enabled, type, ms) ==
  [syntax_ok |-> TRUE, name |-> "lamp", enabled |-> enabled, type |-> type,
   date |-> [f \in DateFields |-> IF f = "minutes" THEN 0
                                  ELSE IF f = "hours" THEN -1 ELSE 0],
   relay_id |-> 2, duration |-> ms]

\* every hour: close the contact, or for one tick, and a command that is off
MCBodies == {MCBody(TRUE, 2, 0), MCBody(TRUE, 4, 1), MCBody(FALSE, 1, 0)}

\* an hour and a minute past it
MCClock == {[f \in DateFields |-> IF f = "minutes" THEN m ELSE 1] : m \in {0, 1}}

MCContactBodies ==
  {[syntax_ok |-> TRUE, name |-> "lamp", logic |-> 1, status_at_boot |-> 1]}

MCPage == {"unprovisioned"}
=============================================================================
