----------------------------- MODULE DevicePage -----------------------------
(***************************************************************************)
(* The page of device settings (web/device.js): sections that are loaded   *)
(* one after the other, shown, edited and saved, a clock that is asked for *)
(* every ten seconds, and the start of an update over the air.             *)
(*                                                                         *)
(* The sections differ in what comes with a save and in the button that    *)
(* may be disabled, and are otherwise alike. A section's fields are one    *)
(* value. A page here has some of the sections: they meet only in the      *)
(* chain that loads them, in the spinner and in the variable that stops    *)
(* the clock. The section of the network (a scan, and a connection that    *)
(* may cut the page off) is not one of them.                               *)
(***************************************************************************)
EXTENDS WebPage, Sequences, FiniteSets

CONSTANTS
  Chains,      \* the sections of a page, in the order they are loaded
  Values,      \* what the fields of a section may hold
  Blank,       \* what is sent from fields that were never loaded
  Disabling,   \* the values that disable a button of their section
  MAX_EDITED,  \* bound on the sections open for editing at one time
  MAX_POLLS    \* bound on the timers that ask for the clock

ASSUME DevicePageAssumption ==
  /\ Disabling \subseteq Values /\ Blank \in Values /\ "none" \notin Values
  /\ MAX_EDITED \in Nat \ {0} /\ MAX_POLLS \in Nat \ {0}

VARIABLES
  chain,           \* the page's sections
  device,          \* their values on the device
  shown,           \* and in the fields, "none" before they are loaded
  dirty,           \* the sections changed by the user and not saved since
  editing,         \* those whose buttons are shown and fields enabled
  enabled,         \* those whose button that may be disabled is not
  onPage,          \* whether device.html is the page shown
  device_running,
  polls            \* the timers of periodically_update_datetime

fieldVars == <<shown, dirty, enabled>>
ownVars == <<chain, device, fieldVars, editing, onPage, device_running, polls>>
vars == <<pageVars, ownVars>>

-----------------------------------------------------------------------------
(* The sections: whether a save is made under the spinner, whether the     *)
(* section is fetched again after it, and the button that may be disabled  *)

Section(covered, again, button) ==
  [covered |-> covered, again |-> again, button |-> button]

info == Section(TRUE, TRUE, "none")
ap == Section(TRUE, FALSE, "save")         \* disabled by a short password
cron == Section(TRUE, TRUE, "none")
mdns == Section(TRUE, TRUE, "none")
datetime == Section(TRUE, TRUE, "set")     \* disabled while SNTP sets the clock
ota == Section(FALSE, TRUE, "start")       \* disabled without a host or a path
diag == Section(TRUE, TRUE, "none")

Of == [info |-> info, ap |-> ap, cron |-> cron, mdns |-> mdns,
       datetime |-> datetime, ota |-> ota, diag |-> diag]

\* each section of a page is loaded once
ASSUME ChainsAssumption ==
  \A c \in Chains :
    /\ c \in Seq(DOMAIN Of) /\ c # <<>>
    /\ \A i, j \in DOMAIN c : c[i] = c[j] => i = j

Sections == {chain[i] : i \in DOMAIN chain}

-----------------------------------------------------------------------------
(* The requests                                                            *)

Query(do, section, value, then) ==
  [do |-> do, section |-> section, value |-> value, then |-> then]

Get(s, then) == Query("get", s, "none", then)
PollQuery == Query("poll", "datetime", "none", "none")

-----------------------------------------------------------------------------
(* The device                                                              *)

\* The device serves a request, or refuses it. An update may be refused, too,
\* in an answer that says so.
Serve(n) ==
  /\ n \in InNetwork /\ network[n].stage = "sent"
  /\ LET q == network[n].query
         done == IF q.do = "save" THEN [device EXCEPT ![q.section] = q.value]
                 ELSE device
         answers == CASE q.do = "get"   -> {device[q.section]}
                      [] q.do = "start" -> {"rebooting", "no_update"}
                      [] OTHER          -> {"ok"}
     IN  \/ device' = done /\ \E a \in answers : network' = Served(n, a)
         \/ device' \in {done, device} /\ network' = Refused(n)
  /\ UNCHANGED <<spinner, hides, doubt, chain, fieldVars, editing, onPage,
                 device_running, polls>>

-----------------------------------------------------------------------------
(* What the user does                                                      *)

Polled == {n \in InNetwork : network[n].query.do = "poll"}
Doubted == DoubtedBut(Polled)

Click == Clickable /\ doubt' = Doubted
ClickOn(s) == Click /\ onPage /\ s \in Sections

\* device.html is loaded: its fields are empty, its buttons hidden, and none
\* is disabled
Load(net) ==
  /\ onPage' = TRUE
  /\ spinner' = TRUE
  /\ shown' = [s \in Sections |-> "none"]
  /\ dirty' = {} /\ editing' = {} /\ enabled' = Sections
  /\ device_running' = TRUE
  /\ network' = Asking(net, Get(chain[1], "load"))
  /\ UNCHANGED <<chain, device>>

\* goto("device"); nothing is in doubt if nothing else is under way
GotoDevice ==
  /\ Clickable /\ Room
  /\ Load(network)
  /\ doubt' = (Doubted \/ hides > 0)
  /\ UNCHANGED <<hides, polls>>

\* the browser loads everything again: no answer or timer is left, but what
\* was sent may still be done
Reload ==
  LET left == [m \in {n \in InNetwork : network[n].query.do \in {"save", "start"}
                                        /\ network[n].stage = "sent"} |->
                 [network[m] EXCEPT !.awaited = FALSE]]
  IN  /\ DOMAIN left # Numbers
      /\ Load(left)
      /\ hides' = 0 /\ polls' = 0
      /\ doubt' = (DOMAIN left # {})

\* goto another page, whose requests are not followed here
Leave ==
  /\ Click /\ onPage
  /\ onPage' = FALSE
  /\ shown' = [s \in Sections |-> "none"]
  /\ dirty' = {} /\ editing' = {}
  /\ UNCHANGED <<spinner, hides, network, chain, device, enabled,
                 device_running, polls>>

Refresh(s) ==
  /\ ClickOn(s) /\ Room
  /\ spinner' = TRUE
  /\ network' = Asking(network, Get(s, "hide"))
  /\ UNCHANGED <<hides, ownVars>>

\* the pencil of a section
EditButton(s) ==
  /\ ClickOn(s)
  /\ editing' = IF s \in editing THEN editing \ {s} ELSE editing \cup {s}
  /\ Cardinality(editing') <= MAX_EDITED
  /\ UNCHANGED <<spinner, hides, network, chain, device, fieldVars, onPage,
                 device_running, polls>>

\* the sections whose button is enabled when the fields of one hold a value
Allowed(s, v) ==
  IF v \in Disabling /\ Of[s].button # "none" THEN enabled \ {s}
  ELSE enabled \cup {s}

\* Mutant: a change of the fields leaves the start of an update enabled
Type_keepsStart(s, v) ==
  /\ Clickable /\ onPage /\ s \in editing /\ v # shown[s]
  /\ shown' = [shown EXCEPT ![s] = v]
  /\ dirty' = dirty \cup {s}
  /\ UNCHANGED <<pageVars, chain, device, editing, enabled, onPage,
                 device_running, polls>>

\* the fields are changed
Type(s, v) ==
  /\ Clickable /\ onPage /\ s \in editing /\ v # shown[s]
  /\ shown' = [shown EXCEPT ![s] = v]
  /\ dirty' = dirty \cup {s}
  /\ enabled' = CASE Of[s].button = "start" -> enabled \ {s}
                  [] Of[s].button = "save"  -> Allowed(s, v)
                  [] OTHER -> enabled
  /\ UNCHANGED <<pageVars, chain, device, editing, onPage, device_running, polls>>

Sending(s, v) ==
  /\ ClickOn(s) /\ Room
  /\ s \in editing
  /\ Of[s].button = "save" => s \in enabled
  /\ spinner' = (Of[s].covered \/ spinner)
  /\ dirty' = dirty \ {s}
  /\ network' = Asking(network, Query("save", s, v, "none"))
  /\ UNCHANGED <<hides, chain, device, shown, editing, enabled, onPage,
                 device_running, polls>>

\* Fields that were never loaded are sent, too.
Save(s) == Sending(s, IF shown[s] = "none" THEN Blank ELSE shown[s])

\* the browser's clock is sent to the device
SetClock ==
  /\ ClickOn("datetime") /\ Room
  /\ "datetime" \in editing \cap enabled
  /\ spinner' = TRUE
  /\ network' = Asking(network, Query("set", "datetime", "none", "none"))
  /\ UNCHANGED <<hides, ownVars>>

\* The clock is not asked for while the device looks for an update.
StartUpdate ==
  /\ ClickOn("ota") /\ Room
  /\ "ota" \in editing \cap enabled
  /\ device_running' = FALSE
  /\ spinner' = TRUE
  /\ network' = Asking(network, Query("start", "ota", "none", "none"))
  /\ UNCHANGED <<hides, chain, device, fieldVars, editing, onPage, polls>>

-----------------------------------------------------------------------------
(* What the page does with an answer, and its timers                       *)

hide_spinner == hides < MAX_HIDES /\ hides' = hides + 1

\* Mutant: the fields are filled only while they are not being edited
Update_closed(s, v) ==
  IF onPage
    THEN /\ shown' = IF s \in editing THEN shown ELSE [shown EXCEPT ![s] = v]
         /\ dirty' = dirty \ {s}
         /\ enabled' = Allowed(s, v)
    ELSE UNCHANGED fieldVars

\* the fields of a section after an answer: nothing, if the page is left
Update(s, v) ==
  IF onPage
    THEN /\ shown' = [shown EXCEPT ![s] = v]
         /\ dirty' = dirty \ {s}
         /\ enabled' = Allowed(s, v)
    ELSE UNCHANGED fieldVars

GetArrives(n) ==
  LET q == network[n].query
      here == CHOOSE i \in DOMAIN chain : chain[i] = q.section
      last == q.then = "load" /\ here = Len(chain)
  IN  /\ Update(q.section, network[n].answer)
      /\ IF q.then = "load" /\ ~last
           THEN /\ network' = Asking(Ended(n), Get(chain[here + 1], "load"))
                /\ UNCHANGED hides
           ELSE network' = Ended(n) /\ hide_spinner
      /\ IF last THEN polls < MAX_POLLS /\ polls' = polls + 1 ELSE UNCHANGED polls
      /\ UNCHANGED device_running

\* a section has been saved, or the clock set
SaveArrives(n) ==
  LET s == network[n].query.section
  IN  /\ IF Of[s].again
           THEN network' = Asking(Ended(n), Get(s, "hide")) /\ UNCHANGED hides
           ELSE network' = Ended(n) /\ hide_spinner
      /\ UNCHANGED <<fieldVars, device_running, polls>>

UpdateStarts(n) ==
  /\ device_running' = (network[n].answer # "rebooting")
  /\ network' = Ended(n) /\ hide_spinner
  /\ UNCHANGED <<fieldVars, polls>>

\* Mutant: all the section is updated
PollArrives_all(n) ==
  /\ shown' = [s \in Sections |-> IF s = "datetime" THEN device[s] ELSE shown[s]]
  /\ dirty' = dirty \ {"datetime"}
  /\ network' = Ended(n)
  /\ UNCHANGED <<hides, enabled, device_running, polls>>

\* update_timevalue: the clock alone, which is not followed here
PollArrives(n) ==
  /\ network' = Ended(n)
  /\ UNCHANGED <<hides, fieldVars, device_running, polls>>

Arrive(n) ==
  /\ n \in Awaited /\ network[n].stage = "answered"
  /\ CASE network[n].query.do = "get"   -> GetArrives(n)
       [] network[n].query.do = "poll"  -> PollArrives(n)
       [] network[n].query.do = "start" -> UpdateStarts(n)
       [] OTHER -> SaveArrives(n)
  /\ UNCHANGED <<spinner, doubt, chain, device, editing, onPage>>

\* Mutant: the page is not looked for
PollTimer_blind ==
  /\ polls > 0
  /\ IF device_running
       THEN Room /\ network' = Asking(network, PollQuery) /\ UNCHANGED polls
       ELSE polls' = polls - 1 /\ UNCHANGED network
  /\ UNCHANGED <<spinner, hides, doubt, chain, device, fieldVars, editing,
                 onPage, device_running>>

\* periodically_update_datetime: the clock's field is there while the page is
PollTimer ==
  /\ polls > 0
  /\ device_running' = (device_running /\ onPage)
  /\ IF device_running'
       THEN Room /\ network' = Asking(network, PollQuery) /\ UNCHANGED polls
       ELSE polls' = polls - 1 /\ UNCHANGED network
  /\ UNCHANGED <<spinner, hides, doubt, chain, device, fieldVars, editing, onPage>>

GiveUp(n) ==
  Fail(n, network[n].query.do \in {"save", "start"}) /\ UNCHANGED ownVars
NeverServed(n) == Lose(n) /\ UNCHANGED ownVars
Hide == HideTimer /\ UNCHANGED ownVars

-----------------------------------------------------------------------------

Init ==
  /\ chain \in Chains
  /\ spinner = TRUE /\ hides = 0 /\ doubt = FALSE
  /\ network = Asking(<<>>, Get(chain[1], "load"))
  /\ device \in [Sections -> Values]
  /\ shown = [s \in Sections |-> "none"]
  /\ dirty = {} /\ editing = {} /\ enabled = Sections
  /\ onPage = TRUE /\ device_running = TRUE /\ polls = 0

UserStep ==
  \/ GotoDevice \/ Reload \/ Leave
  \/ \E s \in Sections : Refresh(s) \/ EditButton(s) \/ Save(s)
  \/ \E s \in Sections, v \in Values : Type(s, v)
  \/ SetClock
  \/ StartUpdate

Next ==
  \/ UserStep
  \/ \E n \in Numbers : Serve(n) \/ Arrive(n) \/ GiveUp(n) \/ NeverServed(n)
  \/ Hide
  \/ PollTimer

\* Timers fire, and a request that gets no answer is given up. Nothing is
\* assumed of the device or of the user.
Fairness ==
  /\ WF_vars(Hide) /\ WF_vars(PollTimer)
  /\ \A n \in Numbers : WF_vars(GiveUp(n))

Spec == Init /\ [][Next]_vars /\ Fairness

-----------------------------------------------------------------------------
(* Properties                                                              *)

\* When nothing is under way but polls, a section that is shown and not being
\* changed is as it is on the device, whether it is fetched after a save or not.
ShownIsTrue ==
  onPage /\ InNetwork \subseteq Polled /\ ~doubt =>
    \A s \in Sections \ dirty : shown[s] \in {"none", device[s]}

\* What the user has typed is overwritten by no answer but that to a click on
\* the same section: not by the answers to the polls, which come all the time.
EditsAreKept ==
  [][\A n \in Awaited : Arrive(n) /\ ~doubt =>
       \A s \in dirty \ dirty' : network[n].query = Get(s, "hide")]_vars

\* An update is started from the host the page shows, and there is one.
UpdateIsFromWhatIsShown ==
  [][StartUpdate /\ InNetwork \subseteq Polled /\ ~doubt =>
       shown["ota"] = device["ota"] /\ shown["ota"] \notin Disabling]_vars

\* However the requests end, the user can click again, but one who never stops
\* to load the page again.
SpinnerGoesAway == []<>Clickable \/ []<><<Reload>>_vars

\* Once the page is left for good, the polls come to an end.
PollsEnd == <>[]~onPage => <>[](polls = 0)
=============================================================================
