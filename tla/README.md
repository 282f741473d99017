# Verification of the smart timer

TLA+ models of the smart timer firmware (`src/src/app`, an ESP8266 application
on the `espbot` libraries), the TLC runs that check them and the TLAPS proofs
about them. Paths below start at the repository's root, `src/`.

The device switches up to seven contacts on the pins D1..D8 of a WEMOS D1 Mini
(D4 drives a led) at the times up to 30 *commands* give, cron style. A browser
lists and edits commands and contacts over a REST interface; both are kept in a
file each.

## 1. The system

| Component | State | Operations | Modelled in |
|---|---|---|---|
| Command list, `app_command.cpp` | `command_list[30]` (id, name, job id, enabled, type, date, contact, duration), the file `command.cfg` | create, read, update, delete, list, save, comparison with the file, restore, execution | `CommandList` |
| Requests for commands, `app_http_routes.cpp:34-307` | none of its own | GET, POST, PUT, DELETE on `/api/command`: read JSON, test ranges, normalise, call the list, save, answer | `CommandRequest`, `CommandList` |
| Contacts, `app_relay.cpp` | `relays[8]` (name, logic, default status, timer, pulse), the file `relay.cfg` | open, close, pulse, timer callback, configure, list, save, restore, drive at boot | `Contacts` |
| Requests for contacts, `app_http_routes.cpp:319-420` | none | GET and PUT on `/api/relay` | `Contacts` |
| Start-up, `app.cpp` | none that is read | `app_relay_init`, `app_command_init`, `cron_sync`, in this order | `SmartTimer`; each init with its component |
| Commands on contacts, `command_function` (`app_command.cpp:48-93`) | none | the function cron calls with a slot: switches or pulses the slot's contact | `SmartTimer` |
| cron (binary library) | jobs: number, date, function, argument | add, delete, run what is due every minute | external, in `CommandList` |
| Cfgfile on SPIFFS (binary library) | files | exists, parse, clear, append | external, in both |
| gpio (binary library) | configuration and level of pins | config, set; also `/api/gpio`, used by `web/gpio.js` | external, in `Contacts` |
| Diagnostics (binary library) | events, the led on D4 | an event lights the led unless a mask says otherwise; acknowledging turns it off | external, in `Contacts`: the led only |
| List template, `espbot_list.hpp` | nodes, two ends, a cursor, a size | front, back, next, prev, push, pop, remove, construct, destroy | `LinkedList`, `CursorList` |
| Queue template, `espbot_queue.hpp` | a ring of cells, indexes, a cursor | push, pop, front, next, size | `RingQueue`, `BoundedFifo` |
| What the pages share, `web/sidebar.js` | the spinner, its timers, requests under way | query, alert, show and hide the spinner, goto | `WebPage` |
| Page of commands, `web/home.js` | a table, a form, the id being edited | list, edit, add, delete, save | `CommandPage`; its fields in `CommandForm` |
| Device settings, `web/device.js` | sections with fields and buttons, a timer | load one after the other, edit, save, refresh, poll the clock, start an update | `DevicePage` |
| Other pages, `relay.js`, `gpio.js`, `debug.js`, `events_journal.js` | forms, lists, chains of requests | | not modelled |
| `user_main.c` | none | flash map and partition table at power-up | not modelled |
| WiFi, HTTP server, OTA, mDNS, sensors | only headers and `lib/*.a` are there | | not modelled: no code to read |

How they interact: a page's request reaches a handler, which calls the list or
the contacts and then saves. The list hands cron the *address* of a slot; when
the minute comes cron calls `command_function` with it, which drives a contact
and, for a pulse, arms the contact's timer. The firmware is not preemptive for
this code: handlers, cron's functions and timer callbacks each run to their end,
so a step of the models is one of them. What remains hard is the order of the
steps, the operations that fail in the middle of a step (heap, flash, cron),
and the loss of power between two operations of a save.

The pins are shared: a contact's is driven by commands, pulses, settings and the
gpio page, and the led's, D4, also by the diagnostics, which the same code calls
when it runs out of heap.

## 2. What could go wrong

The complete list, each at its line, is under `hazards` in `PROJECT.json`. In
short:

- a save clears the file, then asks for heap, then appends: each may fail, and
  power may be lost in between; a save may be skipped because the file *looks*
  up to date, and that comparison reads an uninitialised job id;
- a job left with cron would run the command that takes its slot next, and a
  stale job number may be another command's by now;
- as many slots as cron has jobs: one leak and a later command never runs;
- ids are indexes until the first restart moves commands to lower slots;
- what is saved is what is *printed*, and is read back by other code;
- numbers are truncated to a `char` or an unsigned type before they are tested;
- the timer of a pulse outlives changes of the contact's settings and pin;
- D4 is the led's, and yet a contact that commands may be given for;
- a page gives a request up that the device still serves; answers come in any
  order, into a form that has changed; a failure hides the spinner of another
  request, and Save is not under the spinner at all;
- what a form is filled with uses -1, 0 and an empty field for different things
  in different fields, and saving it must change nothing;
- polls run while the user edits, while the device updates itself, and after
  the page is left;
- the list's cursor is left on a node that is freed, a ring's cells and cursor
  are not initialised, an index may wrap one cell late.

## 3. Modules

**CommandRequest** (constant level): a request body is a record of the integers
found in the JSON text. `DateOf` truncates to a `char`, `Accepted` is the chain
of range tests in the order that matters (the month has become `CRON_STAR`
before the day is tested), `CronDate` the normalisation, `TextOf` and
`DateFromText` what a command looks like in an answer or a file and what is
read back. `UINT_RANGE` stands for 2^32.

**CommandList**: the list, cron's jobs, the file, the last answer and what
cron's last minute executed. One action for each handler (`PostCommand`,
`PutCommand`, `DeleteCommand`, `GetCommand`, `GetCommands`), for a minute of
cron (`CronMinute`), for a restart (`Restart`) and for a loss of power inside a
save (`RestartDuringSave`). `command_create`, `command_update` and
`command_delete` keep the names of the code, and its habits: a deleted command
keeps all but its id; `command_update` writes the name at index `id` and the
rest at the index found; restored commands keep their ids and get no job.
`cron_add_job` and `command_list_save` are operators that return the *set* of
possible outcomes. The uninitialised `tmp_cmd.job_id` of
`saved_command_list_updated` is a choice: `MayLookUpdated` ignores it,
`SurelyLooksUpdated` holds only where nothing is compared. A file is absent,
unreadable (cleared or cut off) or holds a sequence of texts.

**CommandStore**: what the list promises while power lasts. A table from ids to
commands, the ids cron runs, the table in the file. A request changes at most
one entry and says "done" only if the file has the new table.
**CommandListRefinement** maps `CommandList` to it: slots, job numbers, file
positions and heap failures disappear.

**RequestDates**: one variable, the date of the last request, changed field by
field; it enumerates dates around all limits for the operators of
`CommandRequest`.

**CommandForm** EXTENDS it with the form of `home.html`: `Filled` is
`update_command_idx`, `validate` what a changed field is corrected to,
`jsonify_command` what Save sends, and `command_when` with `when_month` and
`when_dow` the line of the table. A form is a number and a box "every" for each
field of a date. `SaveChanged` is a round trip: the command of the last accepted
request is fetched, one field changed, and the form sent.

**WebPage**: the requests of a page under way (`network`, by number), each sent,
answered, refused, or given up and forgotten by the page while the device may
still serve it. The spinner is a modal: while it is shown the user cannot click.
`hide_spinner` is a timer, counted in `hides`, and a failure starts one, too.
`doubt` is no variable of the code: it records that the user has been alerted,
or has clicked while an answer was awaited, and that nothing has put the page
right since. The properties of the pages speak of users without doubt.

**CommandPage**: `commands` is the device (the table of `CommandStore`), `table`
and `form` what the user sees, `current_id` the variable of `home.js`. One
action for each handler of a click and for each answer. `form.of` and
`form.made` record whose contents the form shows and whether a command has been
made from them.

**DevicePage**: seven definitions, `info` to `diag`, state where the sections of
`device.js` differ: is a save under the spinner, is the section fetched again,
which button may be disabled. All else is alike. `chain` is the part of the page
an instance looks at. `shown` and `dirty` are the fields, `polls` the timers of
`periodically_update_datetime`, `device_running` the variable that stops them.
A page that is loaded again (`Reload`) forgets its requests, the device does not.

**RingQueue** models `Queue<T>` cell by cell, with garbage in cells nobody has
written, a cursor nobody has set and an allocation that may fail;
**BoundedFifo** is the queue it implements. **LinkedList** models `List<T>` in a
heap whose nodes are used again: the list is a record of the heap's nodes in use
and the members of the class. A cursor whose node is freed, or that was never
set, is `Dangling`, and the model makes no call that would follow it: callers
have to do the same. **CursorList** is the abstraction, a sequence with a
position. The code under `src/` only declares the two templates; the library
uses them, so every sequence of calls is allowed.

**Contacts**: settings, pins, timers, the file and the last answer. `gpio[p]` is
`"unprovisioned"`, `"input"` or the level of an output. A timer is the status
its callback will drive and the ticks left; the callback uses the settings of
the moment it runs. `PutRelay` does what the handler does: `conf_relay` stores,
configures the pin, drives it and saves, then the handler saves again. `pin`
and `reserved` of a `struct relay` never change and are the index and
`RESERVED`; `pulse` is read only where it has just been written and is a
parameter. An answer is abstracted to the pin whose settings it shows;
`Started` in place of one says that the device has just started.

`RELAYS` is the number of pins, eight on the device; `RESERVED` is the led's, D4.
The led is a pin like the others, which `Diagnostics` lights and turns off at any
time (events of WiFi, the acknowledgement of the user), and which an event of this
code's own may light: where a request runs out of heap (`dia_error_evnt` in
`GetRelay`, `GetRelays`, `PutRelay`). Whether it does depends on a mask in the
library, hence the set of two outcomes. `conf_relay` is the set of settings and
pins that function may leave, for a logic or a default status that is undefined
drives nothing.

**SmartTimer** composes the two: it EXTENDS `CommandList`, takes `Contacts` as
an instance, and adds one variable, `pending`, what cron has still to execute
of the current minute. `Minute` is `CommandList`'s minute and fills `pending`;
`Execute(e)` is one call of `command_function`, which switches or pulses the
contact. Cron calls one function after the other, so between them no request,
timer or tick has its turn, and only power may fail (`app_init_before_wifi`,
which reads the two files and drives the contacts, or `SaveCutOff`, power lost
inside a save of one of them). A step of one component leaves the state of the
other alone; only its last answer is forgotten. The exception is the led, which a
request for commands lights when it runs out of heap (`AskForCommands`), and
events of other components at any time (`LedChanges`).

`MC*` modules hold constants for TLC. Operators under a comment "Mutant:" are
broken variants of the operator after them; `PROJECT.json` says which property
must notice.

## 4. Runs

Bounds named in the `.cfg` files: two slots, two cron jobs, two job numbers; 16
for 2^32; two or three legal bodies (an enabled hourly command, an enabled one
for a single date with a negative duration, a disabled one) and one that is
refused; three minutes of the clock, at which none, one or both are due; ids
from -1 to one past the last accepted. Two slots are enough for what can go
wrong between commands: a hole before a command, an id that is another's slot,
two jobs with one number, cron being full. Files may hold any list that was
ever in memory. Contacts: two pins, one of them the led; settings that differ in the
logic, or in the default status alone, after those of `default_init`, where both
are undefined; pulses of 0 or 2 ticks.

| Run | Specification | Shows |
|---|---|---|
| `commands` | `Spec` | through power losses and failing saves: `JobsMatchCommands` (cron and the list agree), `CronKeepsRoom`, `OnlyChangedCommandsLoseJobs`, `AcknowledgedIsSaved`, `FallingBehindIsReported`, `RestartKeepsTheList`; `RequestsReachTheirCommand`: PUT and DELETE change no command with another id, but for the name PUT misplaces |
| `commands_uninterrupted` | `UninterruptedSpec` | while power lasts: `IdsAreUnique`, `AnswerIsTheChangedCommand`, `EnabledCommandsAreScheduled`, `DueCommandsRun`; `ImplementsStore`: the list is a `CommandStore` |
| `request_dates` | `FormSpec` of CommandForm | no truncated number gets past the tests into cron (but a day without a month), no legal date is refused; a form saved as filled changes nothing, an edit reaches cron and no other field does (`EditReachesCron`), the table tells dates apart |
| `contacts` | `FairSpec` of Contacts | through power losses, failing saves and a gpio page: accepted settings are saved; after a start and after a PUT a contact is in its default status; liveness: `PulsesAreUndone`, every pulse is undone unless the device starts again or the contact is pulsed for ever |
| `smart_timer` | `TimerSpec` of SmartTimer | `ContactsMoveForAReason`: while power lasts the pin of a contact, the led's aside, moves only for a command listed for it as it stands, the end of a pulse, accepted settings or the gpio page, and any timer starts only for such a command |
| `ring_queue` | `Spec` of RingQueue | `ImplementsFifo`: the ring is a bounded queue; `RingOK`, `WalksVisitTheQueue` |
| `linked_list` | `Spec` of LinkedList | `ImplementsCursorList`: the list is a sequence with a position; `LinksAgree`; `NodesAreGivenBack`: only refused pushes leak |
| `command_page` | `Spec` of CommandPage | `TableIsTrue` and `FormIsTrue`: table and form show the device; `CreatedOnce`: no second command from one form but after an alert or an impatient click |
| `device_page` | `Spec` of DevicePage | `ShownIsTrue`; `EditsAreKept`: answers to polls overwrite no edits; `UpdateIsFromWhatIsShown`; liveness: `SpinnerGoesAway`, `PollsEnd` |

`smart_timer` has one slot, two pins, an hourly closing command, an hourly pulse
and a disabled command, and one accepted body for a contact: every way a contact
can be moved, with all failures of both components. Two commands in one minute
do not occur in it; that each due command is executed, whatever the others are,
is `DueCommandsRun` of the list, in `commands_uninterrupted`.

Expected violations, where the code and a document of the repository disagree:

| Run | Disagreement |
|---|---|
| `restored_not_scheduled` | `command_list_restore` registers no cron job: after a restart no command runs until it is saved again |
| `neighbour_contact` | `relay_json_stringify` indexes by an id that counts from 1: GET and PUT of a contact answer with the next one, D8 reads past the array |
| `update_renames_another` | `command_update` writes the name at index `id` instead of the index found: after a restart another slot is renamed (POST, POST, DELETE, restart, PUT) |

Also seen, and part of the models without a run of their own: `command_create`
takes the slot's index for an id, which a restored command in another slot may
have, so DELETE leaves one of the two (`app_command.cpp:96`); with the month left
open any day up to 255 is accepted (`app_http_routes.cpp:101`); commands may be
given for the led's pin, D4, and drive it, which `README.md:15` reserves (`Drives`
tests no `reserved`); `CRON_STAR` of a
day or month is written as 0 and read back as 0 (`app_command.cpp:391`); the
test for a negative duration is made on an unsigned number and never fails
(`app_http_routes.cpp:74`, `Accepted`); a plain switch or a PUT does not cancel
the end of an older pulse (`Switch`, `conf_relay`); a command cron has refused is
answered with OK and never runs (`app_command.cpp:169`);
`api/smart_timer_api.yaml:1538` calls 0 enabled and 1 disabled, where the code and
the pages mean the opposite.

On the pages: fetches under way at the same time may fill the form of one
command with another (`home.js:328`); Save can be pressed twice (`home.js:374`);
the switch that should bound a day by the month compares a text with numbers and
never applies (`home.js:488`), the device refuses such dates; an update whose
answer is late or bad ends the polls for good (`device.js:451`); the save of the
update's settings is not under the spinner (`device.js:621`). The polls
apart, which are stopped for good, and the day, which is sent and refused, each
needs a click while an answer is awaited, or an alert: it is what `doubt` stands
for. The properties of the pages except doubt, and so catch none of these; in
`PROJECT.json` such hazards have a note and no property.

Bounds of the pages: two requests in the network at one time (`MAX_REQUESTS`),
enough for one to overtake, or outlive, the other; one pending timer of the
spinner (`MAX_HIDES`), which a failure of another request may start too early;
one poll timer (`MAX_POLLS`) and one section open for editing (`MAX_EDITED`). Two
ids and two contents of commands; of the sections, the update alone, the clock
alone, and two that are loaded one after the other, of which one is not fetched
again after a save (`MCChains`). Where a bound would be passed the action is not
enabled. A ring of four cells with three elements, a list of four in a heap of five
nodes with three contents, both up to renaming: a full ring wraps at each cell, and a full list drops an element at either end
while the cursor is before, on or behind it.

Why some properties are only stated for a device that keeps its power: ids,
jobs and dates do not survive a restart as a client would expect (the findings
above, and ids that two commands share after a POST), so
`IdsAreUnique` and the others would fail for those reasons alone. What does
survive is in the run `commands`. Nor do they speak of commands cron has refused.

### Fairness

The safety properties need none. `PulsesAreUndone` assumes `WF(Tick)` and
`WF(TimerFires(p))`: the timer hardware counts, and the SDK calls a timer back
that has run out. Nothing is assumed of clients or of cron. As a pulse disarms
the timer and starts it again, a contact pulsed over and over stays pulsed; the
property excludes just that, and a start, which forgets timers (`Started`). Ticks do not wait for callbacks, so a callback may
come late. Deadlock is checked in every run: a device can always be asked, and a
page can be clicked or waits for an answer or a timer.

`SpinnerGoesAway` and `PollsEnd` assume that timers fire (`WF(Hide)`,
`WF(PollTimer)`: `setTimeout`) and that a request is given up some time
(`WF(GiveUp(n))`: `esp_query` never sends one without a timeout). They assume
nothing of the device, which may never answer, nor of the user: one who keeps
loading the page again sees the spinner again and again, which
`SpinnerGoesAway` excepts.

## 5. Proofs

`CommandListProofs` proves, for every number of slots, cron jobs and job
numbers, every set of bodies and names and every clock that satisfy
`ListAssumption` and `UintRangeAssumption`:

| Theorem | Property |
|---|---|
| `TypesAreKept` | `TypeOK` |
| `CronAndListAgree` | `JobsMatchCommands` |
| `CronHasRoom` | `CronKeepsRoom` |
| `RequestsSpareOtherJobs` | `OnlyChangedCommandsLoseJobs` |
| `RequestsFindTheirCommand` | `RequestsReachTheirCommand` |

The inductive invariant is `IInv == TypeOK /\ JobsMatchCommands`.
`JobsMatchCommands` is inductive only with the types (a live command has an id
in range and a legal type, texts can be read back), and it had to say three
things at once: job numbers are unique, each job belongs to the enabled command
that knows its number, and each command with a positive job number that is
enabled has a job. Without the first, deleting one command's job may take
another's. `command_update` is the delicate step: the old job goes first
(`DescheduledAgrees`: the jobs agree with the list in which that slot is
disabled), then the slot is rewritten and a job added (`SchedulingAgrees`).
`CronKeepsRoom` follows by counting: jobs map one to one to live slots, and a
free slot leaves fewer of those than `MAX_COMMAND_COUNT`. The action property
uses `IInv` in the state before: only the job whose number the changed command
holds goes, and that is its own. `RequestsFindTheirCommand` needs the types alone:
the slot a search stops at has the id, and a name can be written to it, or beside
it, without a change of the other members (`NameIsAMember`).

About the file (also `CommandListProofs`, `Spec`):

| Theorem | Property |
|---|---|
| `AcceptedChangesAreSaved` | `AcknowledgedIsSaved` |
| `FallingBehindIsSaid` | `FallingBehindIsReported` |
| `RestartListsTheSame` | `RestartKeepsTheList` |

The invariant is `FileInv`: `IInv`, and the file holds what the device has
printed itself (`Printed`: read back and printed again, it is the same, though 0
may have become of `CRON_STAR`). It is needed because a save is skipped when the
items of the file, read back, are the commands in slots 0, 1, ...:
`LooksUpdatedIsUpdated` shows that the list then has no holes and the file is its
text. That a list has one text (`OneListText`) is a fact about the order of its
slots: two increasing enumerations of a finite set are the same, by counting
what is below each member.

About a device that keeps its power (`CommandListProofs`, `UninterruptedSpec`):

| Theorem | Property |
|---|---|
| `IdsStayUnique` | `IdsAreUnique` |
| `EnabledMeansScheduled` | `EnabledCommandsAreScheduled` |
| `AnswersAreTheChange` | `AnswerIsTheChangedCommand` |
| `CronRunsWhatIsDue` | `DueCommandsRun` |

The invariant is `UInv`: `IInv`, each id is the index of its slot (`IdIsSlot`),
and cron was asked to run each enabled command (`AskedFor`). `IdIsSlot` is what
makes the search for an id and the index by id in `command_update` agree, and it
is just what a restart does not keep.

Last, `ListIsAStore`: `UninterruptedSpec` implements `CommandStore`
(`ImplementsStore`). Its invariant, `SInv`, joins the two above. With it the
commands by id are the texts by slot (`CommandsBySlot`, `CommandsOfText`), and
`ChangesOne` maps a request that changes one slot, saves and schedules to one
`Change` of the store; what is left is that POST takes a free slot, and that
PUT and DELETE find the slot of the id.

`SmartTimerProofs` (`TimerSpec`):

| Theorem | Property |
|---|---|
| `ContactsObeyTheList` | `ContactsMoveForAReason` |

The invariant `ListInv` joins `IInv`, which the steps of the contacts keep because
they leave list and jobs alone, with `PendingIsListed`,
a lemma only: what cron has still to execute is on the list, enabled, for that
contact, because no request is served between the commands
of a minute. For the contacts only the
shape is needed (`OnPins`): one level and one timer for each pin. One lemma per
operation says which of them it touches; the events touch the led alone (`LedTouches`,
`EventTouches`), of which the theorem does not speak.

`CommandFormProofs` (`FormSpec`) proves of the form and of the tests of a request,
whatever numbers are typed (`NumbersAssumption`, `DurationNumbersAssumption`: any
integers) and for every range of unsigned numbers (`UintRangeAssumption`):

| Theorem | Property |
|---|---|
| `CronGetsDatesInRange` | `AcceptedDatesFitCron` |
| `CalendarIsAccepted` | `LegalDatesAreAccepted` |
| `SavingUnchangedChangesNothing` | `FormSendsBackWhatItShows` |
| `FormsAreAccepted` | `FormDatesAreAccepted` |
| `EditsReachCron` | `EditReachesCron` |
| `TableShowsEveryChange` | `TableTellsDatesApart` |

The run checks some dates and edits, the proofs all. Field by field they follow a
number from the body into a char, through the normalisation and the tests, to
cron, into an answer and back into the form.

`ContactsProofs` proves, for every number of pins, every set of names, bodies
and gpio settings, and every set of durations that satisfy
`ContactsAssumption`:

| Theorem | Property |
|---|---|
| `TypesAreKept` | `TypeOK` |
| `AcceptedSettingsAreSaved` | `AcknowledgedIsSaved` |
| `LossIsReported` | `FallingBehindIsReported` |
| `DefaultsAreDriven` | `DefaultStatusIsDriven` |

Here `TypeOK` is inductive as it stands: it says that a file which can be read
has an entry for each pin, which is what `relay_list_restore` needs to bring
back a list. `AcknowledgedIsSaved` is inductive
together with it; the others are about single steps from such a state.
`StepKinds` sorts the steps by what they may do to settings, file and answer: a
PUT, a start, or one that leaves the first two alone. `PutFacts` says what a PUT
does: its two saves leave the file with the stored settings, or the answer
reports a failure. The delicate case is a save that is skipped because the file
already has the settings (`saved_relay_list_updated`).

`RingQueueProofs` proves, for every size and set of elements:

| Theorem | Property |
|---|---|
| `RingStaysInOrder` | `RingOK` |
| `WalksAreComplete` | `WalksVisitTheQueue` |
| `RingIsAQueue` | `ImplementsFifo` |

`RingOK` is inductive: it ties the index of the back to that of the front and
the size, around the ring. The lemmas of the module are about the cells that
belong to the queue: a push writes none of them, and a pop moves each one place.
From these every step is a step of `BoundedFifo` under the mapping, or a stutter.

`LinkedListProofs` proves, for every heap, set of contents and maximal size that
satisfy `ListAssumption` (there is a maximal size, and no place of the heap is one
of the two values that stand for no node):

| Theorem | Property |
|---|---|
| `TheLinksAgree` | `LinksAgree` |
| `EveryNodeIsGivenBack` | `NodesAreGivenBack` |
| `ListIsASequence` | `ImplementsCursorList` |

`LinksAgree` is not inductive in a form one can work with: it speaks of `nth`, the
way from the front, which every operation changes as a whole. The invariant
`ListInv` says instead that there is a sequence `s` of nodes, none twice, along
which the links, the ends, the size and the cursor are right (`Chained(list, s)`).
Each operation is described by what it does to the sequence: a pop and `remove()`
drop the k-th node (`DropsChained`, whose cases are the neighbours of that node),
a push puts one before the first or behind the last (`LinksFrontChained`,
`LinksBackChained`), `new` and a move of the cursor leave it. `NthIs` then says that
`nth` walks along `s`. It is the one place that needs induction, over the natural
numbers and not over data: the least number at which two ways differ
(`LeastNumber`) cannot be the first, nor one after a number at which they agree.
For the memory, each step keeps the set of nodes in use that are not listed
(`GivesBack`), but for the push that a full list refuses. For the refinement, the
contents along `s` and the place of the cursor in `s` change as `CursorList` says.

`CommandPageProofs` proves, for every set of ids and contents and every number of
requests that may be under way (`CommandPageAssumption`, `PageAssumption`):

| Theorem | Property |
|---|---|
| `TableShowsTheDevice` | `TableIsTrue` |
| `FormShowsItsCommand` | `FormIsTrue` |
| `OneFormOneCommand` | `CreatedOnce` |

The invariant is `PageInv`: while the user has no reason to doubt the page, it is in
one of seven situations (`Trusted`): idle, loaded with the spinner still to go, or
with one request under way whose answer is awaited, to load, fetch, delete, create
or change. Each says what the page knows then: an answer to a fetch is still
true, the form shows the command under `current_id` unless the user has touched
it, a form that has made its command is not sent again. The theorem needs all
of them, because the one answer on its way is the next table or form.

`DevicePageProofs` proves, for every set of sections, values and buttons, and for
chains in which no section comes twice (`ChainsAssumption`, as in `device.js`, where
each `get` names the next; `DevicePageAssumption`, `PageAssumption`):

| Theorem | Property |
|---|---|
| `ShownIsOnTheDevice` | `ShownIsTrue` |
| `TypingIsKept` | `EditsAreKept` |
| `UpdatesStartFromTheDevice` | `UpdateIsFromWhatIsShown` |

The invariant has the types and, without doubt, `Trusted`: but for polls at most one
request is under way (`OneAtATime`), its answer is still true (`AnswersAreTrue`), the
sections before the one that is loaded have been shown (`LoadsInOrder`), what is not
dirty is what the device has or is about to be saved (`ShowsOrSaves`,
`SavesWhatIsShown`), and a start of an update is enabled only for what was fetched
(`StartIsFetched`). Polls come at any time and in any number: `AfterPolls` says that a
step of theirs changes nothing of this, and with it most cases are short.

Only model-checked: liveness (`PulsesAreUndone`, `SpinnerGoesAway`, `PollsEnd`), which
TLAPS does not do under fairness.

## 6. Not modelled

JSON text and its parsing (a body is read or it is not), names beyond their
identity, logging, the queue of diagnostic events and their codes (an event is what it does
to the led), the dispatch on the URL (`app_http_routes`,
no state), the information page, the flash map. A file that someone else wrote
(`/api/fs` of the library) is not considered: files hold what the device wrote,
or nothing readable. Time passes for cron as minutes in any order; that cron
wakes up once a minute is the library's.

Of the pages: `relay.js`, which is `home.js` without add and delete; `gpio.js`,
`events_journal.js` and `event_codes.js`; `debug.js` with its uploads in chunks
and memory dumps; the section of the network in `device.js`, whose connection may
cut the page off from the device; two browsers at one time (their requests would
be those of other clients, which `CommandList` has). A page is loaded at once: the `.load` of
`goto` (`sidebar.js:17`) has no timeout, and if the device never answers it the
spinner stays, which `SpinnerGoesAway` does not cover. Layout, texts and the
correction of fields other than dates and durations are left out. The hazards of
`gpio.js`, `debug.js` and `goto` are listed in `PROJECT.json` without a property.

The headers of the library (`spiffs*.h`, `espbot_*.hpp`, `driver_*.h`) declare code
that is only in binary archives.

## 7. Order of the development

`CommandRequest`, `CommandList` with its proofs, `CommandStore` and the
refinement, `RequestDates`, `Contacts` with its proofs, `SmartTimer`; then
`RingQueue` with its proofs, `LinkedList`, `WebPage`, `CommandPage`, `CommandForm`,
`DevicePage`; then the proofs about the form, the file, the uninterrupted device,
its refinement and the composition; then those about the list and the two pages.

Left for later:

1. The upload of files (`debug.js`): a chunk that is given up and served after
   the user has started again, a name that is read again for each chunk.
2. `SmartTimer`: with two slots, a second command that undoes the first in the
   same minute; fairness for cron, and from it that a pulse command is undone.
