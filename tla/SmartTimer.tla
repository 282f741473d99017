----------------------------- MODULE SmartTimer -----------------------------
(***************************************************************************)
(* The smart timer: the command list and the contacts it drives, started   *)
(* together by app_init_before_wifi (src/app/app.cpp).                     *)
(*                                                                         *)
(* Cron calls the functions of the jobs that are due one after the other,  *)
(* in an order of its own and with no other callback in between; power may *)
(* fail after any of them.                                                 *)
(***************************************************************************)
EXTENDS CommandList

CONSTANTS RESERVED, ContactNames, ContactBodies, PageSettings

VARIABLES
  relays, gpio, timer, relay_cfg, contact_reply,   \* as in Contacts
  pending   \* what cron has still to execute of this minute

Relay == INSTANCE Contacts WITH
  reply <- contact_reply, Durations <- 0..UINT_RANGE - 1

contact_vars == <<relays, gpio, timer, relay_cfg>>
all_vars == <<vars, contact_vars, contact_reply, pending>>

\* the command list rests, its last answer sent
CommandsRest ==
  /\ reply' = NoReply /\ executed' = {}
  /\ UNCHANGED <<command_list, jobs, command_cfg>>

ContactsRest ==
  /\ contact_reply' = Relay!NoReply
  /\ UNCHANGED contact_vars

\* a request about commands, served between two minutes; want of heap, in the
\* save or for the answer, is an event the led may show
AskForCommands ==
  /\ pending = {}
  /\ \/ \E b \in Bodies : PostCommand(b)
     \/ \E id \in RequestIds, b \in Bodies : PutCommand(id, b)
     \/ \E id \in RequestIds : DeleteCommand(id)
     \/ \E id \in RequestIds : GetCommand(id)
     \/ GetCommands
  /\ gpio' \in IF reply'.status \in {"HEAP", "NOT_SAVED"}
                THEN Relay!dia_error_evnt(gpio) ELSE {gpio}
  /\ contact_reply' = Relay!NoReply
  /\ UNCHANGED <<relays, timer, relay_cfg, pending>>

\* a request about contacts, or one of the gpio page
AskForContacts ==
  /\ pending = {}
  /\ \/ \E id \in Relay!RequestIds : Relay!GetRelay(id)
     \/ Relay!GetRelays
     \/ \E id \in Relay!RequestIds, b \in ContactBodies : Relay!PutRelay(id, b)
     \/ \E p \in Pins, setting \in PageSettings : Relay!GpioPage(p, setting)
  /\ CommandsRest
  /\ UNCHANGED pending

PulseEnds(p) ==
  /\ pending = {}
  /\ Relay!TimerFires(p)
  /\ CommandsRest
  /\ UNCHANGED pending

TimePasses ==
  /\ pending = {}
  /\ Relay!Tick
  /\ CommandsRest
  /\ UNCHANGED pending

\* events of other components, and their acknowledgement
LedChanges ==
  /\ pending = {}
  /\ Relay!Diagnostics
  /\ CommandsRest
  /\ UNCHANGED pending

Minute(now) ==
  /\ pending = {}
  /\ CronMinute(now)
  /\ pending' = executed'
  /\ ContactsRest

\* Mutant: pins are taken to start from 0
Drives_nextPin(e) ==
  LET p == (e.output % RELAYS) + 1
  IN  \/ e.type = "switch_open"  /\ Relay!Switch(p, "open")
      \/ e.type = "switch_close" /\ Relay!Switch(p, "closed")
      \/ e.type = "pulse_open"   /\ Relay!Pulse(p, "open", e.duration)
      \/ e.type = "pulse_close"  /\ Relay!Pulse(p, "closed", e.duration)

\* what the switch of command_function does for one type of command
Drives(e) ==
  \/ e.type = "switch_open"  /\ Relay!Switch(e.output, "open")
  \/ e.type = "switch_close" /\ Relay!Switch(e.output, "closed")
  \/ e.type = "pulse_open"   /\ Relay!Pulse(e.output, "open", e.duration)
  \/ e.type = "pulse_close"  /\ Relay!Pulse(e.output, "closed", e.duration)

Execute(e) ==
  /\ pending' = pending \ {e}
  /\ Drives(e)
  /\ CommandsRest

\* power is lost, and the two files are read again: the contacts first
app_init_before_wifi ==
  /\ Relay!Restart /\ Restart
  /\ pending' = {}

SaveCutOff ==
  /\ pending = {}
  /\ \/ Relay!RestartDuringSave /\ Restart
     \/ Relay!Restart /\ RestartDuringSave
  /\ pending' = {}

TimerInit == Init /\ Relay!Init /\ pending = {}

TimerNext ==
  \/ AskForCommands
  \/ AskForContacts
  \/ \E p \in Pins : PulseEnds(p)
  \/ TimePasses
  \/ LedChanges
  \/ \E now \in Clock : Minute(now)
  \/ \E e \in pending : Execute(e)
  \/ app_init_before_wifi
  \/ SaveCutOff

TimerSpec == TimerInit /\ [][TimerNext]_all_vars

-----------------------------------------------------------------------------
(* Properties                                                              *)

\* Why the contact on pin p may move
ListedCommandRuns(p) ==
  \E e \in pending, s \in Live(command_list) :
    /\ pending' = pending \ {e}
    /\ command_list[s].enabled
    /\ e = [slot |-> s, type |-> command_list[s].type, output |-> p,
            duration |-> command_list[s].duration]

PulseRunsOut(p) == timer[p].then # "none" /\ timer'[p] = Relay!Idle

PutAccepted(p) ==
  /\ contact_reply'.request = "PUT" /\ contact_reply'.id = p
  /\ contact_reply'.status # "BAD_REQUEST"

UsedByPage(p) ==
  \E setting \in PageSettings : Relay!GpioPage(p, setting)

\* While the device has power a contact moves, or a timer is started, only for a
\* command that is on the list, enabled and for that contact as the list has it
\* now; or at the end of a pulse, by accepted settings or by the gpio page.
\* No job outlives its command, no request or pulse of one contact reaches
\* another. The led moves for events, too.
ContactsMoveForAReason ==
  [][\A p \in Pins :
       /\ p \in Relay!Free /\ gpio'[p] # gpio[p] =>
            \/ ListedCommandRuns(p) \/ PulseRunsOut(p) \/ PutAccepted(p)
            \/ UsedByPage(p) \/ app_init_before_wifi \/ SaveCutOff
       /\ timer'[p].left > timer[p].left => ListedCommandRuns(p)]_all_vars
=============================================================================
