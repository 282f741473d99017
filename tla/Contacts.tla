------------------------------ MODULE Contacts ------------------------------
(***************************************************************************)
(* The contacts of the smart timer (src/app/app_relay.cpp): their settings *)
(* and the file they are kept in, the pins that drive them and the timers  *)
(* that end a pulse, with the handlers of /api/relay.                      *)
(*                                                                         *)
(* A handler, a command or a timer callback runs to its end; power may be  *)
(* lost between two of them and inside the save that ends one. The led is  *)
(* the diagnostic library's, which shows errors with it.                   *)
(***************************************************************************)
EXTENDS Integers

CONSTANTS
  RELAYS,         \* the length of relays, 8
  RESERVED,       \* the pin of the led, d4
  ContactNames,   \* the descriptions a client may give to a contact
  ContactBodies,  \* bodies of the PUT requests
  Durations,      \* durations of pulses, in ticks of the clock
  PageSettings    \* what the gpio page does to a pin

Logics   == {"undefined", "pin_low_relay_closed", "pin_high_relay_closed"}
Statuses == {"undefined", "open", "closed"}
Levels   == {"low", "high"}

RawContact == [syntax_ok: BOOLEAN, name: ContactNames, logic: Int,
               status_at_boot: Int]

ASSUME ContactsAssumption ==
  /\ RELAYS \in Nat \ {0}
  /\ RESERVED \in 1..RELAYS
  /\ ContactBodies \subseteq RawContact
  /\ Durations \subseteq Nat
  /\ PageSettings \subseteq {"unprovisioned", "input", "output"} \cup Levels

VARIABLES
  relays,     \* settings of the contacts, by pin
  gpio,       \* what the pins are: a level when they are outputs
  timer,      \* the timer of each contact
  relay_cfg,  \* the file relay.cfg
  reply       \* the answer to the last request, if a request came last

vars == <<relays, gpio, timer, relay_cfg, reply>>

Pins == 1..RELAYS
Free == Pins \ {RESERVED}

Relay == [name: ContactNames \cup {"", "Device New Event"}, logic: Logics,
          status_at_boot: Statuses]

Gpio == {"unprovisioned", "input"} \cup Levels

\* a timer runs for `left` ticks and then drives its contact to `then`
Timer == [then: {"open", "closed"}, left: Nat] \cup {[then |-> "none", left |-> 0]}
Idle == [then |-> "none", left |-> 0]

\* default_init
DefaultRelays ==
  [p \in Pins |->
     IF p = RESERVED
       THEN [name |-> "Device New Event", logic |-> "pin_low_relay_closed",
             status_at_boot |-> "open"]
       ELSE [name |-> "", logic |-> "undefined",
             status_at_boot |-> "undefined"]]

-----------------------------------------------------------------------------
(* Driving a contact                                                       *)

\* the level that puts a contact of a known logic in a status
LevelFor(logic, status) ==
  IF logic = "pin_low_relay_closed" <=> status = "closed" THEN "low" ELSE "high"

\* open_relay, close_relay and set_relay_status. Nothing happens when the
\* logic is not known, nor when gpio_set finds the pin is no output.
Driven(g, logic, status) ==
  IF logic = "undefined" \/ status = "undefined" \/ g \notin Levels THEN g
  ELSE LevelFor(logic, status)

Drive(p, status) ==
  gpio' = [gpio EXCEPT ![p] = Driven(@, relays[p].logic, status)]

\* gpio_config(p, ESPBOT_GPIO_OUTPUT) by the external library, which may leave
\* either level, followed by set_relay_status
Provisioned(r) == {Driven(g, r.logic, r.status_at_boot) : g \in Levels}

-----------------------------------------------------------------------------
(* The led, driven by the external diagnostic library                      *)

\* lit when the pin is low
Led(pins, status) ==
  [pins EXCEPT ![RESERVED] = Driven(@, DefaultRelays[RESERVED].logic, status)]

\* an event turns the led on, unless the mask of the led leaves it out
dia_error_evnt(pins) == {pins, Led(pins, "closed")}

-----------------------------------------------------------------------------
(* The file                                                                *)

File == [state: {"absent", "unreadable", "saved"}, relays: [Pins -> Relay]]

Absent     == [state |-> "absent", relays |-> DefaultRelays]
Unreadable == [state |-> "unreadable", relays |-> DefaultRelays]
Holding(list) == [state |-> "saved", relays |-> list]

\* Mutant: the status at boot is not compared
saved_relay_list_updated_noStatus(list, file) ==
  /\ file.state = "saved"
  /\ \A p \in Pins : /\ file.relays[p].name = list[p].name
                     /\ file.relays[p].logic = list[p].logic

\* A text that is saved has all the contacts, in the order of their pins.
saved_relay_list_updated(list, file) ==
  file.state = "saved" /\ file.relays = list

\* Mutant: the result of n_append is not looked at
relay_list_save_unchecked(list, file) ==
  {[ok |-> TRUE, file |-> f] : f \in {Holding(list), Unreadable}}

\* The file is left alone when it is up to date, else cleared and written.
\* Either may fail, and so may the heap in between.
relay_list_save(list, file) ==
  IF saved_relay_list_updated(list, file) THEN {[ok |-> TRUE, file |-> file]}
  ELSE {[ok |-> TRUE, file |-> Holding(list)]} \cup
       {[ok |-> FALSE, file |-> f] : f \in {file, Unreadable}}

-----------------------------------------------------------------------------
(* Requests                                                                *)

\* `shows` is the pin of the contact whose settings the answer holds, 0 for
\* none and RELAYS + 1 for what memory holds after the array
Reply == [request: {"none", "start", "GET", "LIST", "PUT"}, id: Int,
          status: {"none", "OK", "BAD_REQUEST", "NOT_SAVED", "HEAP"},
          shows: 0..RELAYS + 1]

Says(request, id, status, shows) ==
  [request |-> request, id |-> id, status |-> status, shows |-> shows]

NoReply == Says("none", 0, "none", 0)

\* in place of an answer, after a start
Started == Says("start", 0, "none", 0)

\* relay_json_stringify(id) after a handler, or no heap for it. The id, which
\* counts pins from 1, is used as an index of the array, which counts from 0.
RelayReplies(request, id) ==
  {Says(request, id, "OK", id + 1), Says(request, id, "HEAP", 0)}

RequestIds == 0..RELAYS + 1

\* a negative number is not below 0 once in an unsigned enum: it is too large
InputAccepted(b) ==
  b.syntax_ok /\ b.logic \in 0..2 /\ b.status_at_boot \in 0..2

SettingsOf(b) ==
  [name |-> b.name,
   logic |-> CASE b.logic = 0 -> "undefined"
               [] b.logic = 1 -> "pin_low_relay_closed"
               [] b.logic = 2 -> "pin_high_relay_closed",
   status_at_boot |-> CASE b.status_at_boot = 0 -> "undefined"
                        [] b.status_at_boot = 1 -> "open"
                        [] b.status_at_boot = 2 -> "closed"]

GetRelay(id) ==
  /\ reply' \in IF id \in Pins THEN RelayReplies("GET", id)
                ELSE {Says("GET", id, "BAD_REQUEST", 0)}
  /\ gpio' \in IF reply'.status = "HEAP" THEN dia_error_evnt(gpio) ELSE {gpio}
  /\ UNCHANGED <<relays, timer, relay_cfg>>

GetRelays ==
  /\ reply' \in {Says("LIST", 0, status, 0) : status \in {"OK", "HEAP"}}
  /\ gpio' \in IF reply'.status = "HEAP" THEN dia_error_evnt(gpio) ELSE {gpio}
  /\ UNCHANGED <<relays, timer, relay_cfg>>

PutAccepted(id, b) == id \in Free /\ InputAccepted(b)

\* Mutant: the pin is driven before the settings are changed
conf_relay_early(id, settings) ==
  {[relays |-> [relays EXCEPT ![id] = settings],
    gpio |-> [gpio EXCEPT ![id] = g]] : g \in Provisioned(relays[id])}

\* The settings and pins conf_relay may leave, its save aside. A pulse that is
\* under way goes on.
conf_relay(id, settings) ==
  {[relays |-> [relays EXCEPT ![id] = settings],
    gpio |-> [gpio EXCEPT ![id] = g]] : g \in Provisioned(settings)}

\* conf_relay saves the list and does not look at the result, then the
\* handler saves it again and does. Want of heap, in a save or for the answer,
\* is an event.
PutRelay(id, b) ==
  \/ /\ ~PutAccepted(id, b)
     /\ reply' = Says("PUT", id, "BAD_REQUEST", 0)
     /\ UNCHANGED <<relays, gpio, timer, relay_cfg>>
  \/ /\ PutAccepted(id, b)
     /\ \E conf \in conf_relay(id, SettingsOf(b)) :
          \E first \in relay_list_save(conf.relays, relay_cfg) :
            \E second \in relay_list_save(conf.relays, first.file) :
              /\ relays' = conf.relays
              /\ relay_cfg' = second.file
              /\ reply' \in IF second.ok THEN RelayReplies("PUT", id)
                            ELSE {Says("PUT", id, "NOT_SAVED", 0)}
              /\ gpio' \in IF first.ok /\ reply'.status = "OK" THEN {conf.gpio}
                           ELSE dia_error_evnt(conf.gpio)
     /\ UNCHANGED timer

-----------------------------------------------------------------------------
(* Commands, timers, the gpio page and the led                             *)

\* command_function with switch_open or switch_close: close_relay, open_relay.
\* A pulse that is under way goes on.
Switch(p, status) ==
  /\ Drive(p, status)
  /\ reply' = NoReply
  /\ UNCHANGED <<relays, timer, relay_cfg>>

PulseEnd(status, d) ==
  [then |-> IF status = "open" THEN "closed" ELSE "open", left |-> d]

\* command_function with pulse_open or pulse_close: one that is under way is
\* disarmed
Pulse(p, status, d) ==
  /\ timer' = [timer EXCEPT ![p] = PulseEnd(status, d)]
  /\ Drive(p, status)
  /\ reply' = NoReply
  /\ UNCHANGED <<relays, relay_cfg>>

\* Mutant: os_timer_setfn is given close_relay by either pulse
TimerFires_closes(p) ==
  /\ timer[p].then # "none" /\ timer[p].left = 0
  /\ timer' = [timer EXCEPT ![p] = Idle]
  /\ Drive(p, "closed")
  /\ reply' = NoReply
  /\ UNCHANGED <<relays, relay_cfg>>

\* The callback os_timer_setfn was given: the settings are those of now.
TimerFires(p) ==
  /\ timer[p].then # "none" /\ timer[p].left = 0
  /\ timer' = [timer EXCEPT ![p] = Idle]
  /\ Drive(p, timer[p].then)
  /\ reply' = NoReply
  /\ UNCHANGED <<relays, relay_cfg>>

\* Mutant: timers that have run out go on
Tick_belowZero ==
  /\ \E p \in Pins : timer[p].left > 0
  /\ timer' = [p \in Pins |->
                 IF timer[p].then # "none" THEN [timer[p] EXCEPT !.left = @ - 1]
                 ELSE timer[p]]
  /\ reply' = NoReply
  /\ UNCHANGED <<relays, gpio, relay_cfg>>

\* A tick of the clock. A timer that has run out may wait for its callback.
Tick ==
  /\ \E p \in Pins : timer[p].left > 0
  /\ timer' = [p \in Pins |->
                 IF timer[p].left > 0 THEN [timer[p] EXCEPT !.left = @ - 1]
                 ELSE timer[p]]
  /\ reply' = NoReply
  /\ UNCHANGED <<relays, gpio, relay_cfg>>

\* POST /api/gpio/cfg and /api/gpio, served by the external library
GpioPage(p, setting) ==
  /\ gpio' \in {[gpio EXCEPT ![p] = g] :
                  g \in IF setting = "output" THEN Levels
                        ELSE IF setting \in Levels /\ gpio[p] \notin Levels
                               THEN {gpio[p]}
                        ELSE {setting}}
  /\ reply' = NoReply
  /\ UNCHANGED <<relays, timer, relay_cfg>>

\* Events of other components turn the led on, such as a lost WiFi connection;
\* the user who acknowledges the events turns it off.
Diagnostics ==
  /\ \E status \in {"open", "closed"} : gpio' = Led(gpio, status)
  /\ reply' = NoReply
  /\ UNCHANGED <<relays, timer, relay_cfg>>

-----------------------------------------------------------------------------
(* Starting                                                                *)

\* default_init makes outputs of the pins but the led's, which is external;
\* the last thing done is to drive each contact to its status at boot.
BootPins(g, list) ==
  /\ \A p \in Free : g[p] \in Provisioned(list[p])
  /\ g[RESERVED] \in Levels

\* the settings relay_list_restore leaves, or those of default_init
Restored(file) == IF file.state = "saved" THEN file.relays ELSE DefaultRelays

app_relay_init(file) ==
  /\ relays' = Restored(file)
  /\ gpio' \in {g \in [Pins -> Gpio] : BootPins(g, Restored(file))}
  /\ timer' = [p \in Pins |-> Idle]
  /\ relay_cfg' = file
  /\ reply' = Started

Restart == app_relay_init(relay_cfg)

\* power lost between cfgfile.clear and the end of cfgfile.n_append
RestartDuringSave ==
  /\ \E id \in Pins, b \in ContactBodies :
       /\ PutAccepted(id, b)
       /\ ~saved_relay_list_updated(
             [relays EXCEPT ![id] = SettingsOf(b)], relay_cfg)
  /\ app_relay_init(Unreadable)

Init ==
  /\ relays = DefaultRelays
  /\ gpio \in {g \in [Pins -> Gpio] : BootPins(g, DefaultRelays)}
  /\ timer = [p \in Pins |-> Idle]
  /\ relay_cfg = Absent
  /\ reply = NoReply

\* the steps of a device that keeps its power
Running ==
  \/ \E id \in RequestIds : GetRelay(id)
  \/ GetRelays
  \/ \E id \in RequestIds, b \in ContactBodies : PutRelay(id, b)
  \/ \E p \in Pins, status \in {"open", "closed"} :
       Switch(p, status) \/ \E d \in Durations : Pulse(p, status, d)
  \/ \E p \in Pins : TimerFires(p)
  \/ Tick
  \/ \E p \in Pins, setting \in PageSettings : GpioPage(p, setting)
  \/ Diagnostics

Next == Running \/ Restart \/ RestartDuringSave

Spec == Init /\ [][Next]_vars

\* Time passes, and a timer that has run out calls back.
Fairness == WF_vars(Tick) /\ \A p \in Pins : WF_vars(TimerFires(p))

FairSpec == Spec /\ Fairness

-----------------------------------------------------------------------------
(* Properties                                                              *)

\* Every variable holds what its declaration allows.
TypeOK ==
  /\ relays \in [Pins -> Relay]
  /\ gpio \in [Pins -> Gpio]
  /\ timer \in [Pins -> Timer]
  /\ relay_cfg \in File
  /\ reply \in Reply

InSync == Restored(relay_cfg) = relays

\* Settings that were not refused are in the file, though the first of the
\* two saves may have failed and the second may have found nothing to do.
AcknowledgedIsSaved ==
  reply.request = "PUT" /\ reply.status \in {"OK", "HEAP"} => InSync

\* The file falls behind the contacts only in a step that answers that the
\* list cannot be saved.
FallingBehindIsReported ==
  [][InSync /\ ~InSync' => reply'.status = "NOT_SAVED"]_vars

\* What a contact is, from the level of its pin
Status(p) ==
  IF relays[p].logic = "undefined" \/ gpio[p] \notin Levels THEN "undefined"
  ELSE IF gpio[p] = LevelFor(relays[p].logic, "closed") THEN "closed"
  ELSE "open"

IsDefault(p) ==
  relays[p].logic # "undefined" /\ relays[p].status_at_boot # "undefined" =>
    Status(p) = relays[p].status_at_boot

\* A contact is in its default status when the device has started, and when
\* its settings have been accepted: whatever the gpio page made of the pin,
\* and whatever the logic was before.
DefaultStatusIsDriven ==
  [][\A p \in Free :
       \/ Restart
       \/ /\ reply'.request = "PUT" /\ reply'.id = p
          /\ reply'.status # "BAD_REQUEST"
       => IsDefault(p)']_vars

\* Unless the same contact is pulsed again and again, a contact pulsed closed
\* opens, and one pulsed open closes: the pulse is undone under the settings
\* of the time it ends, unless the device starts again, the opposite pulse takes
\* over or the contact cannot be driven at some time before.
PulsesAreUndone ==
  /\ [][\A p \in Pins, status \in {"open", "closed"}, d \in Durations :
          Pulse(p, status, d) => timer'[p].then \notin {status, "none"}]_vars
  /\ \A p \in Pins, status \in {"open", "closed"} :
       \/ []<><<\E s \in {"open", "closed"}, d \in Durations :
                  Pulse(p, s, d)>>_vars
       \/ (timer[p].then = status) ~>
            \/ Status(p) \in {status, "undefined"} \/ reply = Started
            \/ timer[p].then \notin {status, "none"}

\* GET and PUT of one contact answer with the settings of that contact.
AnswerIsTheContactAsked ==
  [][reply'.request \in {"GET", "PUT"} /\ reply'.status = "OK" =>
       reply'.shows = reply'.id]_vars
=============================================================================
