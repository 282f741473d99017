------------------------------ MODULE WebPage ------------------------------
(***************************************************************************)
(* What the pages share (web/sidebar.js): requests that are answered, are  *)
(* refused or time out, in any order, and the spinner, a modal that keeps  *)
(* the user from clicking.                                                 *)
(*                                                                         *)
(* A request the page has given up may still be served: only then, or when *)
(* it is lost, has it left the network.                                    *)
(***************************************************************************)
EXTENDS Integers

CONSTANTS
  MAX_REQUESTS,   \* bound on the requests in the network at one time
  MAX_HIDES       \* bound on the timers that will hide the spinner

ASSUME PageAssumption ==
  MAX_REQUESTS \in Nat \ {0} /\ MAX_HIDES \in Nat \ {0}

VARIABLES
  spinner,   \* whether #awaiting is shown
  hides,     \* the timers of hide_spinner that have not fired
  network,   \* the requests under way, by number
  doubt      \* after an alert, and after a click while an answer was awaited,
             \* the user may not trust the page

pageVars == <<spinner, hides, network, doubt>>

Numbers == 1..MAX_REQUESTS
InNetwork == DOMAIN network
Awaited == {n \in InNetwork : network[n].awaited}

\* the user can click
Clickable == ~spinner

\* what it is after a click, when some answers awaited do not count
DoubtedBut(innocent) == doubt \/ ~(Awaited \subseteq innocent)

\* esp_query: the network with one more request
Asking(net, query) ==
  LET free == Numbers \ DOMAIN net
      new == CHOOSE n \in free : \A m \in free : n <= m
  IN  [n \in DOMAIN net \cup {new} |->
         IF n = new THEN [query |-> query, stage |-> "sent", awaited |-> TRUE]
         ELSE net[n]]

Room == InNetwork # Numbers

\* the network without a request
Ended(n) == [m \in InNetwork \ {n} |-> network[m]]

\* the device has served a request; nobody reads the answer of one given up
Served(n, answer) ==
  IF network[n].awaited
    THEN [network EXCEPT ![n] = [query |-> @.query, stage |-> "answered",
                                 awaited |-> TRUE, answer |-> answer]]
    ELSE Ended(n)

Refused(n) ==
  IF network[n].awaited THEN [network EXCEPT ![n].stage = "refused"] ELSE Ended(n)

\* Mutant: an alert leaves the spinner as it is
query_err_keepsSpinner ==
  /\ doubt' = TRUE
  /\ UNCHANGED <<spinner, hides>>

\* an alert, and the spinner is hidden half a second later
query_err ==
  /\ hides < MAX_HIDES
  /\ hides' = hides + 1
  /\ doubt' = TRUE
  /\ UNCHANGED spinner

\* The page learns that a request is refused, or gives it up after the time
\* it has for it, whatever becomes of it on the device. One that changes
\* nothing there is then forgotten.
Fail(n, changes) ==
  /\ n \in Awaited
  /\ network' = IF network[n].stage = "sent" /\ changes
                  THEN [network EXCEPT ![n].awaited = FALSE] ELSE Ended(n)
  /\ query_err

\* a request given up that never reaches the device
Lose(n) ==
  /\ n \in InNetwork \ Awaited
  /\ network' = Ended(n)
  /\ UNCHANGED <<spinner, hides, doubt>>

\* the timer of hide_spinner
HideTimer ==
  /\ hides > 0
  /\ hides' = hides - 1
  /\ spinner' = FALSE
  /\ UNCHANGED <<network, doubt>>
=============================================================================
