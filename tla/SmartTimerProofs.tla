-------------------------- MODULE SmartTimerProofs --------------------------
(***************************************************************************)
(* Theorems about the command list and the contacts together, for any      *)
(* number of commands, jobs and contacts.                                  *)
(***************************************************************************)
EXTENDS SmartTimer, CommandListProofs

-----------------------------------------------------------------------------
(* The commands of a minute                                                *)

\* What cron still executes of a minute is on the list, enabled, as it stands.
PendingIsListed ==
  \A e \in pending : \E s \in Live(command_list) :
    /\ command_list[s].enabled
    /\ e = [slot |-> s, type |-> command_list[s].type,
            output |-> command_list[s].output,
            duration |-> command_list[s].duration]

ListInv == IInv /\ PendingIsListed

\* A step of the contacts leaves the list and its jobs in order.
LEMMA RestKeepsInv == ASSUME IInv, CommandsRest PROVE IInv'
<1>1. TypeOK /\ JobsMatchCommands
  BY DEF IInv
<1>2. NoReply \in Reply
  BY DEF NoReply, Reply
<1>3. TypeOK'
  BY <1>1, <1>2 DEF TypeOK, CommandsRest, Live
<1>4. JobsMatchCommands'
  BY <1>1, SameListKeepsMatch DEF CommandsRest
<1> QED
  BY <1>3, <1>4 DEF IInv

\* What cron calls in a minute are commands of the list.
LEMMA MinuteIsListed ==
  ASSUME IInv, NEW now, CronMinute(now), NEW e \in executed'
  PROVE  \E s \in Live(command_list) :
           /\ command_list[s].enabled
           /\ e = [slot |-> s, type |-> command_list[s].type,
                   output |-> command_list[s].output,
                   duration |-> command_list[s].duration]
<1>1. PICK j \in jobs : e \in command_function(j.slot)
  BY DEF CronMinute
<1>2. j.slot \in Live(command_list) /\ command_list[j.slot].enabled
  BY DEF IInv, TypeOK, Job, JobsMatchCommands, Live
<1> QED
  BY <1>1, <1>2 DEF command_function

\* As no request comes between the commands of a minute, they stay listed.
LEMMA TimerKeepsListInv ==
  ASSUME ListInv, [TimerNext]_all_vars
  PROVE  ListInv'
<1>0. IInv /\ PendingIsListed
  BY DEF ListInv
<1>1. CASE AskForCommands
  <2>1. Next /\ pending' = {}
    BY <1>1 DEF AskForCommands, Next, Running
  <2> QED
    BY <1>0, <2>1, NextInv DEF ListInv, PendingIsListed
<1>2. ASSUME CommandsRest, pending' \subseteq pending PROVE ListInv'
  <2>1. PendingIsListed'
    BY <1>0, <1>2 DEF PendingIsListed, CommandsRest, Live
  <2> QED
    BY <1>0, <1>2, <2>1, RestKeepsInv DEF ListInv
<1>3. ASSUME NEW now \in Clock, Minute(now) PROVE ListInv'
  <2>1. CronMinute(now) /\ Next /\ pending' = executed'
    BY <1>3 DEF Minute, Next, Running
  <2>2. UNCHANGED command_list
    BY <2>1 DEF CronMinute
  <2>3. PendingIsListed'
    BY <1>0, <2>1, <2>2, MinuteIsListed DEF PendingIsListed, Live
  <2> QED
    BY <1>0, <2>1, <2>3, NextInv DEF ListInv
<1>4. ASSUME Restart \/ RestartDuringSave, pending' = {} PROVE ListInv'
  BY <1>0, <1>4, NextInv DEF ListInv, Next, PendingIsListed
<1>5. CASE UNCHANGED all_vars
  <2>1. UNCHANGED vars /\ UNCHANGED pending
    BY <1>5 DEF all_vars
  <2> QED
    BY <1>0, <2>1, NextInv DEF ListInv, PendingIsListed, vars, Live
<1>6. CASE \/ AskForContacts \/ (\E p \in Pins : PulseEnds(p)) \/ TimePasses
           \/ LedChanges
  BY <1>2, <1>6 DEF AskForContacts, PulseEnds, TimePasses, LedChanges
<1>7. CASE \E e \in pending : Execute(e)
  BY <1>2, <1>7 DEF Execute
<1>8. CASE app_init_before_wifi \/ SaveCutOff
  BY <1>4, <1>8 DEF app_init_before_wifi, SaveCutOff
<1> QED
  BY <1>1, <1>3, <1>5, <1>6, <1>7, <1>8 DEF TimerNext

LEMMA ListInvariant == TimerSpec => []ListInv
<1>1. TimerInit => ListInv
  BY InitInv DEF TimerInit, ListInv, PendingIsListed
<1>2. ListInv /\ [TimerNext]_all_vars => ListInv'
  BY TimerKeepsListInv
<1> QED
  BY <1>1, <1>2, PTL DEF TimerSpec

-----------------------------------------------------------------------------
(* The contacts                                                            *)

\* There is one level and one timer for each contact.
OnPins ==
  /\ gpio = [p \in Pins |-> gpio[p]]
  /\ timer \in [Pins -> Relay!Timer]

\* A duration of a command is one of a timer.
LEMMA PendingDuration ==
  ASSUME ListInv, NEW e \in pending PROVE e.duration \in Nat
<1>1. PICK s \in Live(command_list) : e.duration = command_list[s].duration
  BY DEF ListInv, PendingIsListed
<1>2. command_list[s] \in Command
  BY DEF ListInv, IInv, TypeOK, Live
<1>3. command_list[s].duration \in 0..UINT_RANGE - 1
  BY <1>2 DEF Command
<1> QED
  BY <1>1, <1>3, UintRangeAssumption

\* What a step of the contacts does to one level and one timer, whoever
\* makes it: nothing but to those of contact q, the level of the led aside.
OnlyTouches(q) ==
  \A p \in Pins \ {q} :
    /\ p \in Relay!Free => gpio'[p] = gpio[p]
    /\ timer'[p] = timer[p]

\* An event leaves all levels but the led's.
LEMMA LedTouches ==
  ASSUME NEW pins, pins = [p \in Pins |-> pins[p]], NEW status
  PROVE  /\ Relay!Led(pins, status) = [p \in Pins |-> Relay!Led(pins, status)[p]]
         /\ \A p \in Pins \cap Relay!Free : Relay!Led(pins, status)[p] = pins[p]
  BY DEF Relay!Led, Relay!Free

LEMMA EventTouches ==
  ASSUME NEW pins, pins = [p \in Pins |-> pins[p]],
         NEW shown \in Relay!dia_error_evnt(pins)
  PROVE  /\ shown = [p \in Pins |-> shown[p]]
         /\ \A p \in Pins \cap Relay!Free : shown[p] = pins[p]
<1>1. shown = pins \/ shown = Relay!Led(pins, "closed")
  BY DEF Relay!dia_error_evnt
<1> QED
  BY <1>1, LedTouches

LEMMA SwitchTouches ==
  ASSUME OnPins, NEW q, NEW status, Relay!Switch(q, status)
  PROVE  OnPins' /\ OnlyTouches(q) /\ timer' = timer
  BY DEF OnPins, OnlyTouches, Relay!Switch, Relay!Drive

LEMMA PulseTouches ==
  ASSUME OnPins, NEW q, NEW status \in {"open", "closed"}, NEW d \in Nat,
         Relay!Pulse(q, status, d)
  PROVE  OnPins' /\ OnlyTouches(q)
<1>1. Relay!PulseEnd(status, d) \in Relay!Timer
  BY DEF Relay!PulseEnd, Relay!Timer
<1>2. timer' = [timer EXCEPT ![q] = Relay!PulseEnd(status, d)]
  BY DEF Relay!Pulse
<1>3. gpio' = [p \in Pins |-> gpio'[p]]
  BY DEF OnPins, Relay!Pulse, Relay!Drive
<1>4. \A p \in Pins \ {q} : gpio'[p] = gpio[p]
  BY DEF OnPins, Relay!Pulse, Relay!Drive
<1> QED
  BY <1>1, <1>2, <1>3, <1>4 DEF OnPins, OnlyTouches

LEMMA TimerFiresTouches ==
  ASSUME OnPins, NEW q \in Pins, Relay!TimerFires(q)
  PROVE  OnPins' /\ OnlyTouches(q) /\ timer'[q] = Relay!Idle /\ timer[q].then # "none"
<1>1. Relay!Idle \in Relay!Timer
  BY DEF Relay!Idle, Relay!Timer
<1>2. timer' = [timer EXCEPT ![q] = Relay!Idle] /\ timer[q].then # "none"
  BY DEF Relay!TimerFires
<1>3. /\ gpio' = [p \in Pins |-> gpio'[p]]
      /\ \A p \in Pins \ {q} : gpio'[p] = gpio[p]
  BY DEF OnPins, Relay!TimerFires, Relay!Drive
<1> QED
  BY <1>1, <1>2, <1>3 DEF OnPins, OnlyTouches

LEMMA TickTouches ==
  ASSUME OnPins, Relay!Tick
  PROVE  OnPins' /\ gpio' = gpio /\ \A p \in Pins : ~(timer'[p].left > timer[p].left)
<1>1. /\ gpio' = gpio
      /\ timer' = [p \in Pins |->
                     IF timer[p].left > 0 THEN [timer[p] EXCEPT !.left = @ - 1]
                     ELSE timer[p]]
  BY DEF Relay!Tick, Relay!Pins, Pins
<1>2. ASSUME NEW p \in Pins
      PROVE  /\ timer'[p] \in Relay!Timer
             /\ ~(timer'[p].left > timer[p].left)
  <2>1. timer[p] \in Relay!Timer /\ timer[p].left \in Nat
    BY DEF OnPins, Relay!Timer
  <2>2. CASE timer[p].left > 0
    <3>1. timer[p] = [then |-> timer[p].then, left |-> timer[p].left]
          /\ timer[p].then \in {"open", "closed"}
      BY <2>1, <2>2 DEF Relay!Timer
    <3>2. timer'[p] = [then |-> timer[p].then, left |-> timer[p].left - 1]
      BY <1>1, <2>2, <3>1
    <3> QED
      BY <2>1, <2>2, <3>1, <3>2 DEF Relay!Timer
  <2>3. CASE ~(timer[p].left > 0)
    BY <1>1, <2>1, <2>3
  <2> QED
    BY <2>2, <2>3
<1>3. timer' = [p \in Pins |-> timer'[p]]
  BY <1>1
<1> QED
  BY <1>1, <1>2, <1>3 DEF OnPins

\* A start sets all levels, and stops all timers.
LEMMA StartTouches ==
  ASSUME OnPins, NEW file, Relay!app_relay_init(file)
  PROVE  OnPins' /\ \A p \in Pins : ~(timer'[p].left > timer[p].left)
<1>1. /\ gpio' = [p \in Pins |-> gpio'[p]]
      /\ timer' = [p \in Pins |-> Relay!Idle]
  BY DEF Relay!app_relay_init, Relay!Pins, Pins
<1>2. Relay!Idle \in Relay!Timer /\ Relay!Idle.left = 0
  BY DEF Relay!Idle, Relay!Timer
<1>3. \A p \in Pins : timer[p].left \in Nat
  BY DEF OnPins, Relay!Timer
<1> QED
  BY <1>1, <1>2, <1>3 DEF OnPins

\* The answer to a PUT that changed a contact names it.
LEMMA PutTouches ==
  ASSUME OnPins, NEW id \in Relay!RequestIds, NEW b \in ContactBodies,
         Relay!PutRelay(id, b)
  PROVE  /\ OnPins' /\ timer' = timer
         /\ \/ gpio' = gpio
            \/ OnlyTouches(id) /\ PutAccepted(id)
<1>1. CASE ~Relay!PutAccepted(id, b)
  BY <1>1 DEF Relay!PutRelay, OnPins
<1>2. CASE Relay!PutAccepted(id, b)
  <2>1. PICK conf \in Relay!conf_relay(id, Relay!SettingsOf(b)) :
          gpio' = conf.gpio \/ gpio' \in Relay!dia_error_evnt(conf.gpio)
    BY <1>2 DEF Relay!PutRelay
  <2>2. PICK g \in Relay!Provisioned(Relay!SettingsOf(b)) :
          conf = [relays |-> [relays EXCEPT ![id] = Relay!SettingsOf(b)],
                  gpio |-> [gpio EXCEPT ![id] = g]]
    BY DEF Relay!conf_relay
  <2>3. timer' = timer
    BY <1>2 DEF Relay!PutRelay
  <2>4. contact_reply' \in Relay!RelayReplies("PUT", id) \cup
                           {Relay!Says("PUT", id, "NOT_SAVED", 0)}
    BY <1>2 DEF Relay!PutRelay
  <2>5. PutAccepted(id)
    BY <2>4 DEF PutAccepted, Relay!RelayReplies, Relay!Says
  <2>6. /\ conf.gpio = [p \in Pins |-> conf.gpio[p]]
        /\ \A p \in Pins \ {id} : conf.gpio[p] = gpio[p]
    BY <2>2 DEF OnPins
  <2>7. /\ gpio' = [p \in Pins |-> gpio'[p]]
        /\ \A p \in Pins \cap Relay!Free : gpio'[p] = conf.gpio[p]
    BY <2>1, <2>6, EventTouches
  <2>8. gpio' = [p \in Pins |-> gpio'[p]] /\ timer' \in [Pins -> Relay!Timer]
    BY <2>3, <2>7 DEF OnPins
  <2>9. OnlyTouches(id)
    BY <2>3, <2>6, <2>7 DEF OnlyTouches
  <2>10. OnPins'
    BY <2>8 DEF OnPins
  <2> QED
    BY <2>3, <2>5, <2>9, <2>10
<1> QED
  BY <1>1, <1>2

\* Events, and those of requests that find no heap, touch the led alone.
LEMMA DiagnosticsTouch ==
  ASSUME OnPins, timer' = timer,
         \/ gpio' = gpio
         \/ gpio' \in Relay!dia_error_evnt(gpio)
         \/ \E status : gpio' = Relay!Led(gpio, status)
  PROVE  OnPins' /\ \A p \in Pins \cap Relay!Free : gpio'[p] = gpio[p]
  BY LedTouches, EventTouches DEF OnPins

\* The gpio page sets one level.
LEMMA PageTouches ==
  ASSUME OnPins, NEW q \in Pins, NEW setting \in PageSettings, Relay!GpioPage(q, setting)
  PROVE  OnPins' /\ timer' = timer /\ OnlyTouches(q) /\ UsedByPage(q)
<1>1. PICK g : gpio' = [gpio EXCEPT ![q] = g]
  BY DEF Relay!GpioPage
<1>2. timer' = timer
  BY DEF Relay!GpioPage
<1>3. UsedByPage(q)
  BY DEF UsedByPage
<1> QED
  BY <1>1, <1>2, <1>3 DEF OnPins, OnlyTouches

\* Why the contact on pin p did what it did in this step
Justified(p) ==
  /\ p \in Relay!Free /\ gpio'[p] # gpio[p] =>
       \/ ListedCommandRuns(p) \/ PulseRunsOut(p) \/ PutAccepted(p)
       \/ UsedByPage(p) \/ app_init_before_wifi \/ SaveCutOff
  /\ timer'[p].left > timer[p].left => ListedCommandRuns(p)

\* What is not changed needs no reason.
LEMMA RestIsJustified ==
  ASSUME OnPins, NEW p \in Pins, timer'[p] = timer[p]
  PROVE  ~(timer'[p].left > timer[p].left)
<1>1. timer[p].left \in Nat
  BY DEF OnPins, Relay!Timer
<1> QED
  BY <1>1

\* A command that is executed is one of the list.
LEMMA ExecuteIsListed ==
  ASSUME ListInv, NEW e \in pending, Execute(e)
  PROVE  ListedCommandRuns(e.output)
<1>1. PICK s \in Live(command_list) :
        /\ command_list[s].enabled
        /\ e = [slot |-> s, type |-> command_list[s].type,
                output |-> command_list[s].output,
                duration |-> command_list[s].duration]
  BY DEF ListInv, PendingIsListed
<1>2. e.output = command_list[s].output
  BY <1>1
<1>3. e = [slot |-> s, type |-> command_list[s].type, output |-> e.output,
           duration |-> command_list[s].duration]
  BY <1>1, <1>2
<1> QED
  BY <1>1, <1>3 DEF ListedCommandRuns, Execute

LEMMA ExecuteTouches ==
  ASSUME ListInv, OnPins, NEW e \in pending, Execute(e)
  PROVE  OnPins' /\ OnlyTouches(e.output)
<1>1. e.duration \in Nat
  BY PendingDuration
<1>2. \/ \E status \in {"open", "closed"} : Relay!Switch(e.output, status)
      \/ \E status \in {"open", "closed"} : Relay!Pulse(e.output, status, e.duration)
  BY DEF Execute, Drives
<1>3. ASSUME NEW status \in {"open", "closed"}, Relay!Switch(e.output, status)
      PROVE  OnPins' /\ OnlyTouches(e.output)
  BY <1>3, SwitchTouches
<1>4. ASSUME NEW status \in {"open", "closed"},
             Relay!Pulse(e.output, status, e.duration)
      PROVE  OnPins' /\ OnlyTouches(e.output)
  BY <1>1, <1>4, PulseTouches
<1> QED
  BY <1>2, <1>3, <1>4

\* Every step of the timer has a reason for each contact it moves.
LEMMA StepsAreJustified ==
  ASSUME ListInv, OnPins, [TimerNext]_all_vars
  PROVE  OnPins' /\ \A p \in Pins : Justified(p)
<1>1. ASSUME timer' = timer,
             \/ gpio' = gpio
             \/ gpio' \in Relay!dia_error_evnt(gpio)
             \/ \E status : gpio' = Relay!Led(gpio, status)
      PROVE  OnPins' /\ \A p \in Pins : Justified(p)
  BY <1>1, DiagnosticsTouch, RestIsJustified DEF Justified
<1>2. ASSUME NEW q, OnPins', OnlyTouches(q), timer' = timer,
             PutAccepted(q) \/ UsedByPage(q)
      PROVE  \A p \in Pins : Justified(p)
  BY <1>2, RestIsJustified DEF Justified, OnlyTouches
<1>3. CASE AskForCommands \/ LedChanges \/ (\E now \in Clock : Minute(now))
  <2>1. CASE AskForCommands
    BY <1>1, <2>1 DEF AskForCommands
  <2>2. CASE LedChanges
    BY <1>1, <2>2 DEF LedChanges, Relay!Diagnostics
  <2>3. CASE \E now \in Clock : Minute(now)
    BY <1>1, <2>3 DEF Minute, ContactsRest, contact_vars
  <2> QED
    BY <1>3, <2>1, <2>2, <2>3
<1>4. CASE AskForContacts
  <2>1. ASSUME NEW id, Relay!GetRelay(id)
        PROVE  OnPins' /\ \A p \in Pins : Justified(p)
    BY <1>1, <2>1 DEF Relay!GetRelay
  <2>2. CASE Relay!GetRelays
    BY <1>1, <2>2 DEF Relay!GetRelays
  <2>3. ASSUME NEW id \in Relay!RequestIds, NEW b \in ContactBodies, Relay!PutRelay(id, b)
        PROVE  OnPins' /\ \A p \in Pins : Justified(p)
    <3>1. /\ OnPins' /\ timer' = timer
          /\ gpio' = gpio \/ (OnlyTouches(id) /\ PutAccepted(id))
      BY <2>3, PutTouches
    <3> QED
      BY <1>1, <1>2, <3>1
  <2>4. ASSUME NEW q \in Pins, NEW setting \in PageSettings, Relay!GpioPage(q, setting)
        PROVE  OnPins' /\ \A p \in Pins : Justified(p)
    BY <1>2, <2>4, PageTouches
  <2> QED
    BY <1>4, <2>1, <2>2, <2>3, <2>4 DEF AskForContacts
<1>5. ASSUME NEW q \in Pins, PulseEnds(q)
      PROVE  OnPins' /\ \A p \in Pins : Justified(p)
  <2>1. /\ OnPins' /\ OnlyTouches(q)
        /\ timer'[q] = Relay!Idle /\ timer[q].then # "none"
    BY <1>5, TimerFiresTouches DEF PulseEnds
  <2>2. timer[q].left \in Nat /\ Relay!Idle.left = 0
    BY DEF OnPins, Relay!Timer, Relay!Idle
  <2>3. Justified(q)
    BY <2>1, <2>2 DEF Justified, PulseRunsOut
  <2> QED
    BY <2>1, <2>3, RestIsJustified DEF Justified, OnlyTouches
<1>6. CASE TimePasses
  BY <1>6, TickTouches DEF TimePasses, Justified
<1>7. ASSUME NEW e \in pending, Execute(e)
      PROVE  OnPins' /\ \A p \in Pins : Justified(p)
  <2>1. OnPins' /\ OnlyTouches(e.output) /\ ListedCommandRuns(e.output)
    BY <1>7, ExecuteTouches, ExecuteIsListed
  <2> QED
    BY <2>1, RestIsJustified DEF Justified, OnlyTouches
<1>8. CASE app_init_before_wifi \/ SaveCutOff
  <2>1. \E file : Relay!app_relay_init(file)
    BY <1>8 DEF app_init_before_wifi, SaveCutOff, Relay!Restart, Relay!RestartDuringSave
  <2> QED
    BY <1>8, <2>1, StartTouches DEF Justified
<1>9. CASE UNCHANGED all_vars
  BY <1>1, <1>9 DEF all_vars, contact_vars
<1> QED
  BY <1>3, <1>4, <1>5, <1>6, <1>7, <1>8, <1>9 DEF TimerNext

LEMMA TimerInvariant == TimerSpec => [](ListInv /\ OnPins)
<1>1. TimerInit => OnPins
  <2> SUFFICES ASSUME TimerInit PROVE OnPins
    OBVIOUS
  <2>1. Relay!Idle \in Relay!Timer
    BY DEF Relay!Idle, Relay!Timer
  <2> QED
    BY <2>1 DEF TimerInit, Relay!Init, OnPins, Relay!Pins, Pins
<1>2. ListInv /\ OnPins /\ [TimerNext]_all_vars => OnPins'
  BY StepsAreJustified
<1> QED
  BY <1>1, <1>2, ListInvariant, PTL DEF TimerSpec

\* While the device has power no contact moves and no timer starts but for a
\* command as the list has it now, the end of a pulse, accepted settings or the
\* gpio page.
THEOREM ContactsObeyTheList == TimerSpec => ContactsMoveForAReason
<1>1. ListInv /\ OnPins /\ [TimerNext]_all_vars => [\A p \in Pins : Justified(p)]_all_vars
  BY StepsAreJustified
<1> QED
  BY <1>1, TimerInvariant, PTL DEF TimerSpec, ContactsMoveForAReason, Justified
=============================================================================
