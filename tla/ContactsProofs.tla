--------------------------- MODULE ContactsProofs ---------------------------
(***************************************************************************)
(* Theorems about Contacts, for any number of contacts and any bodies.     *)
(***************************************************************************)
EXTENDS Contacts, TLAPS

-----------------------------------------------------------------------------
(* What the helpers return                                                 *)

\* Driving a pin leaves it a pin, and an output an output.
LEMMA DrivenType ==
  ASSUME NEW g \in Gpio, NEW logic, NEW status
  PROVE  /\ Driven(g, logic, status) \in Gpio
         /\ g \in Levels => Driven(g, logic, status) \in Levels
  BY DEF Driven, LevelFor, Gpio, Levels

\* A pin that has been configured for a contact is an output.
LEMMA ProvisionedType ==
  ASSUME NEW r, NEW g \in Provisioned(r) PROVE g \in Levels
  BY DrivenType DEF Provisioned, Gpio

\* An output that is driven to a status shows it: open and closed take
\* different levels under either logic.
LEMMA DrivenShows ==
  ASSUME NEW g \in Levels, NEW logic \in Logics \ {"undefined"},
         NEW status \in {"open", "closed"}
  PROVE  (Driven(g, logic, status) = LevelFor(logic, "closed"))
           <=> (status = "closed")
  BY DEF Driven, LevelFor, Levels, Logics

\* The led is lit or put out by its own pin.
LEMMA LedType ==
  ASSUME NEW pins \in [Pins -> Gpio], NEW status
  PROVE  /\ Led(pins, status) \in [Pins -> Gpio]
         /\ \A p \in Free : Led(pins, status)[p] = pins[p]
  BY DrivenType, ContactsAssumption DEF Led, Free, Pins

\* An event shows on the led, or nowhere.
LEMMA EventType ==
  ASSUME NEW pins \in [Pins -> Gpio], NEW shown \in dia_error_evnt(pins)
  PROVE  shown \in [Pins -> Gpio] /\ \A p \in Free : shown[p] = pins[p]
  BY LedType DEF dia_error_evnt

\* The settings of contacts that have none are settings.
LEMMA DefaultType == DefaultRelays \in [Pins -> Relay]
  BY DEF DefaultRelays, Relay, Logics, Statuses

\* The settings an accepted body carries are settings.
LEMMA SettingsType ==
  ASSUME NEW b \in ContactBodies, InputAccepted(b)
  PROVE  SettingsOf(b) \in Relay
<1>1. b.name \in ContactNames
  BY ContactsAssumption DEF RawContact
<1>2. b.logic \in {0, 1, 2} /\ b.status_at_boot \in {0, 1, 2}
  BY DEF InputAccepted
<1>3. SettingsOf(b).logic \in Logics
  BY <1>2 DEF SettingsOf, Logics
<1>4. SettingsOf(b).status_at_boot \in Statuses
  BY <1>2 DEF SettingsOf, Statuses
<1> QED BY <1>1, <1>3, <1>4 DEF SettingsOf, Relay

\* A save leaves a file, and one that holds the list if it is said to be saved.
LEMMA SaveType ==
  ASSUME NEW list \in [Pins -> Relay], NEW file \in File,
         NEW save \in relay_list_save(list, file)
  PROVE  /\ save.file \in File
         /\ save.ok \in BOOLEAN
         /\ save.ok => Restored(save.file) = list
<1>1. Holding(list) \in File /\ Restored(Holding(list)) = list
  BY DEF Holding, File, Restored
<1>2. Unreadable \in File
  BY DefaultType DEF Unreadable, File
<1>3. CASE saved_relay_list_updated(list, file)
  <2>1. save = [ok |-> TRUE, file |-> file]
    BY <1>3 DEF relay_list_save
  <2> QED BY <1>3, <2>1 DEF saved_relay_list_updated, Restored
<1>4. CASE ~saved_relay_list_updated(list, file)
  <2>1. \/ save = [ok |-> TRUE, file |-> Holding(list)]
        \/ \E f \in {file, Unreadable} : save = [ok |-> FALSE, file |-> f]
    BY <1>4 DEF relay_list_save
  <2>2. CASE save = [ok |-> TRUE, file |-> Holding(list)]
    <3>1. save.ok = TRUE /\ save.file = Holding(list)
      BY <2>2
    <3> QED BY <1>1, <3>1
  <2>3. ASSUME NEW f \in {file, Unreadable}, save = [ok |-> FALSE, file |-> f]
        PROVE  save.ok = FALSE /\ save.file \in File
    BY <1>2, <2>3
  <2> QED BY <2>1, <2>2, <2>3
<1> QED BY <1>3, <1>4

\* What is read back are settings.
LEMMA RestoredType ==
  ASSUME NEW file \in File PROVE Restored(file) \in [Pins -> Relay]
  BY DefaultType DEF Restored, File

\* An answer to a request for an existing contact is an answer.
LEMMA RepliesType ==
  ASSUME NEW request \in {"GET", "PUT"}, NEW id \in Pins,
         NEW r \in RelayReplies(request, id)
  PROVE  /\ r \in Reply
         /\ r.request = request /\ r.id = id
         /\ r.status \in {"OK", "HEAP"}
<1>1. id \in Int /\ id + 1 \in 0..RELAYS + 1 /\ 0 \in 0..RELAYS + 1
  BY ContactsAssumption DEF Pins
<1> QED BY <1>1 DEF RelayReplies, Says, Reply

-----------------------------------------------------------------------------
(* Starting                                                                *)

\* Reading a file and driving the contacts leaves every variable in its type.
LEMMA StartKeepsType ==
  ASSUME NEW file \in File, app_relay_init(file)
  PROVE  TypeOK'
<1>1. relays' \in [Pins -> Relay]
  BY RestoredType DEF app_relay_init
<1>2. gpio' \in [Pins -> Gpio]
  BY DEF app_relay_init
<1>3. timer' \in [Pins -> Timer]
  BY DEF app_relay_init, Idle, Timer
<1>4. reply' \in Reply
  BY ContactsAssumption DEF app_relay_init, Started, Says, Reply
<1> QED BY <1>1, <1>2, <1>3, <1>4 DEF TypeOK, app_relay_init

\* A device without a file starts well typed.
LEMMA InitType == Init => TypeOK
<1> SUFFICES ASSUME Init PROVE TypeOK
  OBVIOUS
<1>1. relay_cfg \in File
  BY DefaultType DEF Init, Absent, File
<1>2. timer \in [Pins -> Timer]
  BY DEF Init, Idle, Timer
<1>3. reply \in Reply
  BY ContactsAssumption DEF Init, NoReply, Says, Reply
<1> QED BY <1>1, <1>2, <1>3, DefaultType DEF Init, TypeOK

\* The file a save may be cut off in is a file.
LEMMA UnreadableType == Unreadable \in File
  BY DefaultType DEF Unreadable, File

-----------------------------------------------------------------------------
(* Requests                                                                *)

\* What an accepted PUT does: it changes the settings and the pin of one
\* contact, which is not the led's, and the file holds the new list unless
\* the answer says it cannot be saved. Of the other pins it may light the led's.
LEMMA PutFacts ==
  ASSUME TypeOK, NEW id \in RequestIds, NEW b \in ContactBodies,
         PutRelay(id, b), PutAccepted(id, b)
  PROVE  /\ id \in Free
         /\ SettingsOf(b) \in Relay
         /\ relays' = [relays EXCEPT ![id] = SettingsOf(b)]
         /\ relays' \in [Pins -> Relay]
         /\ gpio' \in [Pins -> Gpio]
         /\ gpio'[id] \in Provisioned(SettingsOf(b))
         /\ relay_cfg' \in File
         /\ reply' \in Reply
         /\ reply'.request = "PUT" /\ reply'.id = id
         /\ reply'.status \in {"OK", "HEAP"} => InSync'
         /\ reply'.status \in {"OK", "HEAP", "NOT_SAVED"}
         /\ UNCHANGED timer
<1>1. id \in Free /\ id \in Pins /\ SettingsOf(b) \in Relay
  BY SettingsType DEF PutAccepted, Free
<1>2. PICK conf \in conf_relay(id, SettingsOf(b)) :
        \E first \in relay_list_save(conf.relays, relay_cfg) :
          \E second \in relay_list_save(conf.relays, first.file) :
            /\ relays' = conf.relays
            /\ relay_cfg' = second.file
            /\ reply' \in IF second.ok THEN RelayReplies("PUT", id)
                          ELSE {Says("PUT", id, "NOT_SAVED", 0)}
            /\ gpio' \in IF first.ok /\ reply'.status = "OK" THEN {conf.gpio}
                         ELSE dia_error_evnt(conf.gpio)
  BY DEF PutRelay
<1>3. PICK first \in relay_list_save(conf.relays, relay_cfg) :
        \E second \in relay_list_save(conf.relays, first.file) :
          /\ relays' = conf.relays
          /\ relay_cfg' = second.file
          /\ reply' \in IF second.ok THEN RelayReplies("PUT", id)
                        ELSE {Says("PUT", id, "NOT_SAVED", 0)}
          /\ gpio' \in IF first.ok /\ reply'.status = "OK" THEN {conf.gpio}
                       ELSE dia_error_evnt(conf.gpio)
  BY <1>2
<1>4. PICK second \in relay_list_save(conf.relays, first.file) :
        /\ relays' = conf.relays
        /\ relay_cfg' = second.file
        /\ reply' \in IF second.ok THEN RelayReplies("PUT", id)
                      ELSE {Says("PUT", id, "NOT_SAVED", 0)}
        /\ gpio' \in IF first.ok /\ reply'.status = "OK" THEN {conf.gpio}
                     ELSE dia_error_evnt(conf.gpio)
  BY <1>3
<1>5. PICK g \in Provisioned(SettingsOf(b)) :
        conf = [relays |-> [relays EXCEPT ![id] = SettingsOf(b)],
                gpio |-> [gpio EXCEPT ![id] = g]]
  BY DEF conf_relay
<1>6. relays' = [relays EXCEPT ![id] = SettingsOf(b)] /\ relays' \in [Pins -> Relay]
  BY <1>1, <1>4, <1>5 DEF TypeOK
<1>7. conf.gpio \in [Pins -> Gpio] /\ conf.gpio[id] = g
  BY <1>1, <1>5, ProvisionedType DEF Gpio, TypeOK
<1>8. gpio' \in [Pins -> Gpio] /\ gpio'[id] \in Provisioned(SettingsOf(b))
  <2>1. gpio' = conf.gpio \/ gpio' \in dia_error_evnt(conf.gpio)
    BY <1>4
  <2> QED BY <1>1, <1>7, <2>1, EventType
<1>9. first.file \in File
  BY <1>4, <1>6, SaveType DEF TypeOK
<1>10. /\ relay_cfg' \in File /\ second.ok \in BOOLEAN
       /\ second.ok => Restored(relay_cfg)' = relays'
  <2>1. /\ second.file \in File /\ second.ok \in BOOLEAN
        /\ second.ok => Restored(second.file) = relays'
    BY <1>4, <1>6, <1>9, SaveType
  <2> QED BY <1>4, <2>1 DEF Restored
<1>11. UNCHANGED timer
  BY DEF PutRelay
<1>12. CASE second.ok
  <2>1. reply' \in RelayReplies("PUT", id)
    BY <1>4, <1>12
  <2>2. /\ reply' \in Reply /\ reply'.request = "PUT" /\ reply'.id = id
        /\ reply'.status \in {"OK", "HEAP"}
    BY <2>1, <1>1, RepliesType
  <2>3. InSync'
    BY <1>10, <1>12 DEF InSync
  <2> QED BY <1>1, <1>6, <1>8, <1>10, <1>11, <2>2, <2>3
<1>13. CASE ~second.ok
  <2>1. reply' = Says("PUT", id, "NOT_SAVED", 0)
    BY <1>4, <1>13
  <2>2. /\ reply' \in Reply /\ reply'.request = "PUT" /\ reply'.id = id
        /\ reply'.status = "NOT_SAVED"
    BY <2>1, <1>1, ContactsAssumption DEF Says, Reply, Pins
  <2> QED BY <1>1, <1>6, <1>8, <1>10, <1>11, <2>2
<1> QED BY <1>10, <1>12, <1>13

\* A PUT that is refused, as the outcome of the handler.
LEMMA RefusedFacts ==
  ASSUME NEW id \in RequestIds, NEW b \in ContactBodies,
         PutRelay(id, b), ~PutAccepted(id, b)
  PROVE  /\ reply' = Says("PUT", id, "BAD_REQUEST", 0)
         /\ UNCHANGED <<relays, gpio, timer, relay_cfg>>
  BY DEF PutRelay

-----------------------------------------------------------------------------
(* Every step                                                              *)

\* Each action keeps every variable in its type.
LEMMA NextType == TypeOK /\ [Next]_vars => TypeOK'
<1> SUFFICES ASSUME TypeOK, [Next]_vars PROVE TypeOK'
  OBVIOUS
<1>0. NoReply \in Reply
  BY ContactsAssumption DEF NoReply, Says, Reply
<1>1. ASSUME NEW id \in RequestIds, GetRelay(id) PROVE TypeOK'
  <2>1. reply' \in Reply
    <3>1. CASE id \in Pins
      BY <1>1, <3>1, RepliesType DEF GetRelay
    <3>2. CASE id \notin Pins
      BY <1>1, <3>2, ContactsAssumption
         DEF GetRelay, Says, Reply, RequestIds
    <3> QED BY <3>1, <3>2
  <2>2. gpio' = gpio \/ gpio' \in dia_error_evnt(gpio)
    BY <1>1 DEF GetRelay
  <2> QED BY <1>1, <2>1, <2>2, EventType DEF GetRelay, TypeOK
<1>2. CASE GetRelays
  <2>1. reply' \in Reply
    BY <1>2, ContactsAssumption DEF GetRelays, Says, Reply
  <2>2. gpio' = gpio \/ gpio' \in dia_error_evnt(gpio)
    BY <1>2 DEF GetRelays
  <2> QED BY <1>2, <2>1, <2>2, EventType DEF GetRelays, TypeOK
<1>3. ASSUME NEW id \in RequestIds, NEW b \in ContactBodies, PutRelay(id, b)
      PROVE  TypeOK'
  <2>1. CASE PutAccepted(id, b)
    BY <1>3, <2>1, PutFacts DEF TypeOK
  <2>2. CASE ~PutAccepted(id, b)
    <3>1. reply' \in Reply
      BY <1>3, <2>2, RefusedFacts, ContactsAssumption
         DEF Says, Reply, RequestIds
    <3> QED BY <1>3, <2>2, <3>1, RefusedFacts DEF TypeOK
  <2> QED BY <2>1, <2>2
<1>4. ASSUME NEW p \in Pins, NEW status, Drive(p, status)
      PROVE  gpio' \in [Pins -> Gpio]
  BY <1>4, DrivenType DEF Drive, TypeOK
<1>5. ASSUME NEW p \in Pins, NEW status \in {"open", "closed"}, Switch(p, status)
      PROVE  TypeOK'
  BY <1>0, <1>4, <1>5 DEF Switch, TypeOK
<1>6. ASSUME NEW p \in Pins, NEW status \in {"open", "closed"},
             NEW d \in Durations, Pulse(p, status, d)
      PROVE  TypeOK'
  <2>1. PulseEnd(status, d) \in Timer
    BY ContactsAssumption DEF PulseEnd, Timer
  <2>2. timer' \in [Pins -> Timer]
    BY <1>6, <2>1 DEF Pulse, TypeOK
  <2> QED BY <1>0, <1>4, <1>6, <2>2 DEF Pulse, TypeOK
<1>7. ASSUME NEW p \in Pins, TimerFires(p) PROVE TypeOK'
  <2>1. timer' \in [Pins -> Timer]
    BY <1>7 DEF TimerFires, Idle, Timer, TypeOK
  <2> QED BY <1>0, <1>4, <1>7, <2>1 DEF TimerFires, TypeOK
<1>8. CASE Tick
  <2>1. ASSUME NEW p \in Pins, timer[p].left > 0
        PROVE  [timer[p] EXCEPT !.left = @ - 1] \in Timer
    BY <2>1 DEF Timer, TypeOK
  <2>2. timer' \in [Pins -> Timer]
    BY <1>8, <2>1 DEF Tick, TypeOK
  <2> QED BY <1>0, <1>8, <2>2 DEF Tick, TypeOK
<1>9. ASSUME NEW p \in Pins, NEW setting \in PageSettings, GpioPage(p, setting)
      PROVE  TypeOK'
  <2>1. PICK g \in IF setting = "output" THEN Levels
                   ELSE IF setting \in Levels /\ gpio[p] \notin Levels
                          THEN {gpio[p]}
                   ELSE {setting} : gpio' = [gpio EXCEPT ![p] = g]
    BY <1>9 DEF GpioPage
  <2>2. g \in Gpio
    BY <2>1, ContactsAssumption DEF Gpio, Levels, TypeOK
  <2> QED BY <1>0, <1>9, <2>1, <2>2 DEF GpioPage, TypeOK
<1>10. CASE Restart
  BY <1>10, StartKeepsType DEF Restart, TypeOK
<1>11. CASE RestartDuringSave
  BY <1>11, StartKeepsType, UnreadableType DEF RestartDuringSave
<1>12. CASE UNCHANGED vars
  BY <1>12 DEF vars, TypeOK
<1>13. CASE Diagnostics
  BY <1>0, <1>13, LedType DEF Diagnostics, TypeOK
<1> QED BY <1>1, <1>2, <1>3, <1>5, <1>6, <1>7, <1>8, <1>9, <1>10, <1>11, <1>12, <1>13
        DEF Next, Running

\* Every reachable state is well typed, for any number of contacts, whatever
\* clients, commands, timers and the gpio page do (app_relay.cpp as a whole).
THEOREM TypesAreKept == Spec => []TypeOK
<1>1. Init => TypeOK
  BY InitType
<1>2. TypeOK /\ [Next]_vars => TypeOK'
  BY NextType
<1> QED BY <1>1, <1>2, PTL DEF Spec

-----------------------------------------------------------------------------
(* Steps other than an accepted PUT                                        *)

\* A step is an accepted PUT, a start, or leaves settings and file alone.
LEMMA StepKinds ==
  ASSUME [Next]_vars
  PROVE  \/ \E id \in RequestIds, b \in ContactBodies :
              PutRelay(id, b) /\ PutAccepted(id, b)
         \/ Restart
         \/ RestartDuringSave
         \/ UNCHANGED vars
         \/ /\ UNCHANGED <<relays, relay_cfg>>
            /\ reply'.request # "PUT" \/ reply'.status = "BAD_REQUEST"
<1>1. ASSUME NEW id \in RequestIds, GetRelay(id)
      PROVE  UNCHANGED <<relays, relay_cfg>> /\ reply'.request # "PUT"
  <2>1. reply'.request = "GET"
    BY <1>1 DEF GetRelay, RelayReplies, Says
  <2> QED BY <1>1, <2>1 DEF GetRelay
<1>2. GetRelays => UNCHANGED <<relays, relay_cfg>> /\ reply'.request # "PUT"
  BY DEF GetRelays, Says
<1>3. ASSUME NEW id \in RequestIds, NEW b \in ContactBodies,
             PutRelay(id, b), ~PutAccepted(id, b)
      PROVE  UNCHANGED <<relays, relay_cfg>> /\ reply'.status = "BAD_REQUEST"
  BY <1>3, RefusedFacts DEF Says
<1>4. NoReply.request # "PUT"
  BY DEF NoReply, Says
<1>5. ASSUME NEW p \in Pins, NEW status,
             Switch(p, status) \/ \E d \in Durations : Pulse(p, status, d)
      PROVE  UNCHANGED <<relays, relay_cfg>> /\ reply'.request # "PUT"
  BY <1>4, <1>5 DEF Switch, Pulse
<1>6. ASSUME NEW p \in Pins, TimerFires(p)
      PROVE  UNCHANGED <<relays, relay_cfg>> /\ reply'.request # "PUT"
  BY <1>4, <1>6 DEF TimerFires
<1>7. Tick => UNCHANGED <<relays, relay_cfg>> /\ reply'.request # "PUT"
  BY <1>4 DEF Tick
<1>8. ASSUME NEW p \in Pins, NEW setting \in PageSettings, GpioPage(p, setting)
      PROVE  UNCHANGED <<relays, relay_cfg>> /\ reply'.request # "PUT"
  BY <1>4, <1>8 DEF GpioPage
<1>9. Diagnostics => UNCHANGED <<relays, relay_cfg>> /\ reply'.request # "PUT"
  BY <1>4 DEF Diagnostics
<1> QED BY <1>1, <1>2, <1>3, <1>5, <1>6, <1>7, <1>8, <1>9 DEF Next, Running

\* A device that starts has its settings from its file.
LEMMA StartFacts ==
  ASSUME Restart \/ RestartDuringSave
  PROVE  InSync' /\ reply' = Started
  BY DEF Restart, RestartDuringSave, app_relay_init, InSync, Restored

-----------------------------------------------------------------------------
(* The file                                                                *)

\* Settings that a PUT was told are accepted are in the file: the second save
\* of put_api_relay_idx holds whatever became of the first.
THEOREM AcceptedSettingsAreSaved == Spec => []AcknowledgedIsSaved
<1>1. Init => AcknowledgedIsSaved
  BY DEF Init, NoReply, Says, AcknowledgedIsSaved
<1>2. TypeOK /\ AcknowledgedIsSaved /\ [Next]_vars => AcknowledgedIsSaved'
  <2> SUFFICES ASSUME TypeOK, AcknowledgedIsSaved, [Next]_vars
               PROVE  AcknowledgedIsSaved'
    OBVIOUS
  <2>1. ASSUME NEW id \in RequestIds, NEW b \in ContactBodies,
               PutRelay(id, b), PutAccepted(id, b)
        PROVE  AcknowledgedIsSaved'
    BY <2>1, PutFacts DEF AcknowledgedIsSaved
  <2>2. CASE Restart \/ RestartDuringSave
    BY <2>2, StartFacts DEF AcknowledgedIsSaved
  <2>3. CASE UNCHANGED vars
    BY <2>3 DEF vars, AcknowledgedIsSaved, InSync, Restored
  <2>4. CASE reply'.request # "PUT" \/ reply'.status = "BAD_REQUEST"
    BY <2>4 DEF AcknowledgedIsSaved
  <2> QED BY <2>1, <2>2, <2>3, <2>4, StepKinds
<1> QED BY <1>1, <1>2, TypesAreKept, PTL DEF Spec

\* The file falls behind the contacts only when the PUT that changes them is
\* answered with "Cannot save list to flash".
THEOREM LossIsReported == Spec => FallingBehindIsReported
<1>1. TypeOK /\ [Next]_vars =>
        [InSync /\ ~InSync' => reply'.status = "NOT_SAVED"]_vars
  <2> SUFFICES ASSUME TypeOK, [Next]_vars, InSync, ~InSync'
               PROVE  reply'.status = "NOT_SAVED"
    OBVIOUS
  <2>1. ASSUME NEW id \in RequestIds, NEW b \in ContactBodies,
               PutRelay(id, b), PutAccepted(id, b)
        PROVE  reply'.status = "NOT_SAVED"
    BY <2>1, PutFacts
  <2>2. ~(Restart \/ RestartDuringSave)
    BY StartFacts
  <2>3. ~UNCHANGED vars /\ ~UNCHANGED <<relays, relay_cfg>>
    BY DEF vars, InSync, Restored
  <2> QED BY <2>1, <2>2, <2>3, StepKinds
<1> QED BY <1>1, TypesAreKept, PTL DEF Spec, FallingBehindIsReported

-----------------------------------------------------------------------------
(* The default status                                                      *)

\* A contact whose pin has just been configured and driven is in its default
\* status.
LEMMA ProvisionedIsDefault ==
  ASSUME NEW p \in Pins, relays' \in [Pins -> Relay],
         gpio'[p] \in Provisioned(relays'[p])
  PROVE  IsDefault(p)'
<1> SUFFICES ASSUME relays'[p].logic # "undefined",
                    relays'[p].status_at_boot # "undefined"
             PROVE  Status(p)' = relays'[p].status_at_boot
  BY DEF IsDefault
<1>1. /\ relays'[p].logic \in Logics \ {"undefined"}
      /\ relays'[p].status_at_boot \in {"open", "closed"}
  BY DEF Relay, Statuses
<1>2. PICK g \in Levels :
        gpio'[p] = Driven(g, relays'[p].logic, relays'[p].status_at_boot)
  BY DEF Provisioned
<1>3. gpio'[p] \in Levels
  BY ProvisionedType
<1>4. (gpio'[p] = LevelFor(relays'[p].logic, "closed"))
         <=> (relays'[p].status_at_boot = "closed")
  BY <1>1, <1>2, DrivenShows
<1> QED BY <1>1, <1>3, <1>4 DEF Status

\* After a start and after an accepted PUT the contact is in its default
\* status: conf_relay and app_relay_init drive it last, with the new logic.
THEOREM DefaultsAreDriven == Spec => DefaultStatusIsDriven
<1>1. TypeOK /\ [Next]_vars =>
        [\A p \in Free :
           \/ Restart
           \/ /\ reply'.request = "PUT" /\ reply'.id = p
              /\ reply'.status # "BAD_REQUEST"
           => IsDefault(p)']_vars
  <2> SUFFICES ASSUME TypeOK, [Next]_vars, ~UNCHANGED vars, NEW p \in Free,
                      \/ Restart
                      \/ /\ reply'.request = "PUT" /\ reply'.id = p
                         /\ reply'.status # "BAD_REQUEST"
               PROVE  IsDefault(p)'
    OBVIOUS
  <2>1. p \in Pins
    BY DEF Free
  <2>2. CASE Restart
    <3>1. relays' \in [Pins -> Relay]
      BY <2>2, StartKeepsType DEF Restart, TypeOK
    <3>2. gpio'[p] \in Provisioned(relays'[p])
      BY <2>2 DEF Restart, app_relay_init, BootPins
    <3> QED BY <2>1, <3>1, <3>2, ProvisionedIsDefault
  <2>3. ASSUME NEW id \in RequestIds, NEW b \in ContactBodies,
               PutRelay(id, b), PutAccepted(id, b), reply'.id = p
        PROVE  IsDefault(p)'
    <3>1. id = p /\ relays' \in [Pins -> Relay] /\ relays'[p] = SettingsOf(b)
      BY <2>1, <2>3, PutFacts DEF TypeOK
    <3>2. gpio'[p] \in Provisioned(relays'[p])
      BY <2>1, <2>3, <3>1, PutFacts DEF TypeOK
    <3> QED BY <2>1, <3>1, <3>2, ProvisionedIsDefault
  <2>4. CASE RestartDuringSave /\ ~Restart
    BY <2>4, StartFacts DEF Started, Says
  <2> QED BY <2>2, <2>3, <2>4, StepKinds
<1> QED BY <1>1, TypesAreKept, PTL DEF Spec, DefaultStatusIsDriven
=============================================================================
