---------------------------- MODULE CommandList ----------------------------
(***************************************************************************)
(* The command list of the smart timer (src/app/app_command.cpp) with the  *)
(* HTTP handlers that drive it (src/app/app_http_routes.cpp), the cron     *)
(* jobs it registers and the file it is kept in across restarts.           *)
(*                                                                         *)
(* The firmware runs one callback at a time, to its end: a handler is one  *)
(* step, whatever the flash and the heap answer on the way. Power may be   *)
(* lost between two handlers and inside the save that ends one.            *)
(***************************************************************************)
EXTENDS CommandRequest, FiniteSets, Sequences

CONSTANTS
  MAX_COMMAND_COUNT,  \* slots of command_list
  CRON_MAX_JOBS,      \* jobs cron accepts
  JobIds,             \* numbers cron gives to jobs
  Bodies,             \* bodies of the POST and PUT requests
  Clock               \* the minutes cron may wake up at, as dates

RawBody == [syntax_ok: BOOLEAN, name: Names, enabled: BOOLEAN, type: Int,
            date: [DateFields -> Int], relay_id: Int, duration: Int]

ASSUME ListAssumption ==
  /\ MAX_COMMAND_COUNT \in Nat \ {0}
  /\ CRON_MAX_JOBS \in Nat
  /\ JobIds \subseteq Nat \ {0}
  /\ Bodies \subseteq RawBody
  /\ Clock \subseteq Date

VARIABLES
  command_list,   \* the array of struct command
  jobs,           \* the jobs registered with cron
  command_cfg,    \* the file command.cfg
  reply,          \* the answer to the last request, if a request came last
  executed        \* what command_function ran, if cron woke up last

vars == <<command_list, jobs, command_cfg, reply, executed>>

Slots == 0..MAX_COMMAND_COUNT - 1

Command ==
  [id: Slots \cup {-1}, name: Names \cup {""}, job_id: Int, enabled: BOOLEAN,
   type: Types \cup {"zero"}, exe_time: Date, output: Pins \cup {0},
   duration: 0..UINT_RANGE - 1]

Job == [id: JobIds, slot: Slots, when: Date]

\* struct command after the C runtime cleared it and app_command_init set
\* its id
BlankCommand ==
  [id |-> -1, name |-> "", job_id |-> 0, enabled |-> FALSE, type |-> "zero",
   exe_time |-> [f \in DateFields |-> 0], output |-> 0, duration |-> 0]

-----------------------------------------------------------------------------
(* Looking commands up                                                     *)

Live(list) == {s \in Slots : list[s].id >= 0}
Free(list) == {s \in Slots : list[s].id < 0}

\* Mutant: an id is taken for the index of its slot
WithId_asIndex(list, id) == {s \in Live(list) : s = id}

WithId(list, id) == {s \in Slots : list[s].id = id}

\* the slot a scan from index 0 stops at: none or one of S
FirstOf(S) == {s \in S : \A t \in S : s <= t}

-----------------------------------------------------------------------------
(* Cron, an external library                                               *)

\* What cron_add_job may return and leave: an error, for want of heap or of
\* a place, or a job under a number no other job has.
cron_add_job(js, slot, when) ==
  {[result |-> -1, jobs |-> js]} \cup
  {[result |-> k, jobs |-> js \cup {[id |-> k, slot |-> slot, when |-> when]}] :
     k \in {k \in JobIds : /\ Cardinality(js) < CRON_MAX_JOBS
                           /\ \A j \in js : j.id # k}}

cron_del_job(js, k) == {j \in js : j.id # k}

Due(when, now) == \A f \in DateFields : when[f] \in {CRON_STAR, now[f]}

-----------------------------------------------------------------------------
(* The file                                                                *)

File == [state: {"absent", "unreadable", "saved"}, text: Seq(Text)]

Absent      == [state |-> "absent", text |-> <<>>]
Unreadable  == [state |-> "unreadable", text |-> <<>>]
Holding(t)  == [state |-> "saved", text |-> t]

\* The live slots in the order of their index, as the only member of a set
Visits(list) ==
  {v \in [1..Cardinality(Live(list)) -> Live(list)] :
     \A p, q \in DOMAIN v : p < q => v[p] < v[q]}

\* command_list_json_stringify: the one text of the list
ListTexts(list) ==
  {[p \in DOMAIN v |-> TextOf(list[v[p]])] : v \in Visits(list)}

CommandFrom(t) ==
  [id |-> t.id, name |-> t.name, job_id |-> 0, enabled |-> t.enabled,
   type |-> t.type, exe_time |-> DateFromText(t.date),
   output |-> t.relay_id, duration |-> Uint32(t.duration)]

\* Item t of the file against the command at its own position; the date is
\* compared as read back, not as it was when the text was written
SameAsSaved(t, c) == [CommandFrom(t) EXCEPT !.job_id = c.job_id] = c

\* Mutant: the number of commands is not compared
MayLookUpdated_anyLength(list) ==
  /\ command_cfg.state = "saved"
  /\ \A p \in DOMAIN command_cfg.text :
       SameAsSaved(command_cfg.text[p], list[p - 1])

\* saved_command_list_updated finds no difference but the job id, which it
\* compares with an uninitialised variable
MayLookUpdated(list) ==
  /\ command_cfg.state = "saved"
  /\ Len(command_cfg.text) = Cardinality(Live(list))
  /\ \A p \in DOMAIN command_cfg.text :
       SameAsSaved(command_cfg.text[p], list[p - 1])

SurelyLooksUpdated(list) == MayLookUpdated(list) /\ command_cfg.text = <<>>

\* Mutant: the result of n_append is not looked at
command_list_save_unchecked(list) ==
  {[ok |-> TRUE, file |-> f] :
     f \in {Holding(t) : t \in ListTexts(list)} \cup {Unreadable}}

\* command_list_save: the file is left alone when it looks up to date, else
\* cleared and written. Either may fail, and so may the heap in between.
command_list_save(list) ==
  (IF MayLookUpdated(list) THEN {[ok |-> TRUE, file |-> command_cfg]} ELSE {})
  \cup
  (IF SurelyLooksUpdated(list) THEN {}
   ELSE {[ok |-> TRUE, file |-> Holding(t)] : t \in ListTexts(list)} \cup
        {[ok |-> FALSE, file |-> f] : f \in {command_cfg, Unreadable}})

-----------------------------------------------------------------------------
(* Replies                                                                 *)

\* "NOT_SAVED" is the bad request "Cannot save changes to flash", and
\* "HEAP" the server error "Heap exhausted"
Reply == [request: {"none", "GET", "LIST", "POST", "PUT", "DELETE"},
          status: {"none", "OK", "BAD_REQUEST", "NOT_SAVED", "HEAP"},
          text: Seq(Text)]

NoReply == [request |-> "none", status |-> "none", text |-> <<>>]
Says(request, status, text) ==
  [request |-> request, status |-> status, text |-> text]

\* command_json_stringify of the command found under an id, "{}" as <<>>
OneText(list, id) ==
  IF WithId(list, id) = {} THEN {<<>>}
  ELSE {<<TextOf(list[s])>> : s \in FirstOf(WithId(list, id))}

\* The end of a handler that changed the list: save, then answer with the
\* texts it may answer with, for which there may be no heap.
SaveAndReply(request, list, texts) ==
  \E save \in command_list_save(list) :
    /\ command_cfg' = save.file
    /\ IF save.ok
         THEN reply' \in {Says(request, "OK", t) : t \in texts} \cup
                        (IF request = "DELETE" THEN {}
                         ELSE {Says(request, "HEAP", <<>>)})
         ELSE reply' = Says(request, "NOT_SAVED", <<>>)

Refuse(request) ==
  /\ reply' = Says(request, "BAD_REQUEST", <<>>)
  /\ UNCHANGED <<command_list, jobs, command_cfg>>

-----------------------------------------------------------------------------
(* The handlers                                                            *)

\* the number atoi finds after /api/command/, 30 included
IdAccepted(id) == id \in 0..MAX_COMMAND_COUNT
RequestIds == -1..MAX_COMMAND_COUNT + 1

\* The members both command_create and command_update set
Configured(c, b, job_id) ==
  [c EXCEPT !.enabled = b.enabled, !.type = TypeOf(b.type),
            !.exe_time = CronDate(DateOf(b)), !.output = b.relay_id,
            !.duration = Uint32(b.duration), !.job_id = job_id]

\* Mutant: a command that had a job before is not given a new one
Scheduling_once(b, js, slot, job_id) ==
  IF b.enabled /\ job_id <= 0
    THEN cron_add_job(js, slot, CronDate(DateOf(b)))
    ELSE {[result |-> job_id, jobs |-> js]}

\* cron_add_job for an enabled command; job_id keeps its value otherwise
Scheduling(b, js, slot, job_id) ==
  IF b.enabled THEN cron_add_job(js, slot, CronDate(DateOf(b)))
  ELSE {[result |-> job_id, jobs |-> js]}

\* Mutant: the id is the number of commands there are
command_create_counting(b, s, new) ==
  /\ command_list' = [command_list EXCEPT ![s] =
       [Configured(@, b, new.result) EXCEPT
          !.id = Cardinality(Live(command_list)), !.name = b.name]]
  /\ jobs' = new.jobs
  /\ SaveAndReply("POST", command_list', OneText(command_list', s))

command_create(b, s, new) ==
  /\ command_list' = [command_list EXCEPT ![s] =
       [Configured(@, b, new.result) EXCEPT !.id = s, !.name = b.name]]
  /\ jobs' = new.jobs
  /\ SaveAndReply("POST", command_list', OneText(command_list', s))

PostCommand(b) ==
  /\ executed' = {}
  /\ \/ /\ ~Accepted(b) \/ Free(command_list) = {}
        /\ Refuse("POST")
     \/ /\ Accepted(b)
        /\ \E s \in FirstOf(Free(command_list)) :
             \E new \in Scheduling(b, jobs, s, command_list[s].job_id) :
               command_create(b, s, new)

\* Mutant: the id of the command is taken for the number of its job
Descheduled_byId(s) ==
  IF command_list[s].enabled THEN cron_del_job(jobs, command_list[s].id)
  ELSE jobs

\* Mutant: the job is not deleted
Descheduled_never(s) == jobs

\* The jobs left once the command in slot s has been descheduled
Descheduled(s) ==
  IF command_list[s].enabled THEN cron_del_job(jobs, command_list[s].job_id)
  ELSE jobs

\* Mutant: ids are taken to start from 1 where the name is written
command_update_nextName(id, b, s, new) ==
  /\ command_list' =
       [[command_list EXCEPT ![s] = Configured(@, b, new.result)]
          EXCEPT ![(id + 1) % MAX_COMMAND_COUNT].name = b.name]
  /\ jobs' = new.jobs
  /\ SaveAndReply("PUT", command_list', OneText(command_list', id))

\* Mutant: the answer is written before the command is changed
command_update_oldAnswer(id, b, s, new) ==
  /\ command_list' =
       [[command_list EXCEPT ![s] = Configured(@, b, new.result)]
          EXCEPT ![id].name = b.name]
  /\ jobs' = new.jobs
  /\ SaveAndReply("PUT", command_list', OneText(command_list, id))

\* All members go to the slot found but the name, which goes to index id.
command_update(id, b, s, new) ==
  /\ command_list' =
       [[command_list EXCEPT ![s] = Configured(@, b, new.result)]
          EXCEPT ![id].name = b.name]
  /\ jobs' = new.jobs
  /\ SaveAndReply("PUT", command_list', OneText(command_list', id))

PutCommand(id, b) ==
  /\ executed' = {}
  /\ \/ /\ \/ ~IdAccepted(id)
           \/ ~Accepted(b)
           \/ WithId(command_list, id) = {}
        /\ Refuse("PUT")
     \/ /\ IdAccepted(id) /\ Accepted(b)
        /\ \E s \in FirstOf(WithId(command_list, id)) :
             \E new \in Scheduling(b, Descheduled(s), s,
                                   command_list[s].job_id) :
               command_update(id, b, s, new)

\* Mutant: the job is left with cron
command_delete_keepsJob(s) ==
  /\ command_list' = [command_list EXCEPT ![s].id = -1]
  /\ jobs' = jobs
  /\ SaveAndReply("DELETE", command_list', {<<>>})

\* A deleted command keeps everything but its id.
command_delete(s) ==
  /\ command_list' = [command_list EXCEPT ![s].id = -1]
  /\ jobs' = Descheduled(s)
  /\ SaveAndReply("DELETE", command_list', {<<>>})

DeleteCommand(id) ==
  /\ executed' = {}
  /\ \/ /\ ~IdAccepted(id) \/ WithId(command_list, id) = {}
        /\ Refuse("DELETE")
     \/ /\ IdAccepted(id)
        /\ \E s \in FirstOf(WithId(command_list, id)) : command_delete(s)

GetCommand(id) ==
  /\ reply' \in
       IF IdAccepted(id)
         THEN {Says("GET", "OK", t) : t \in OneText(command_list, id)} \cup
              {Says("GET", "HEAP", <<>>)}
         ELSE {Says("GET", "BAD_REQUEST", <<>>)}
  /\ executed' = {}
  /\ UNCHANGED <<command_list, jobs, command_cfg>>

GetCommands ==
  /\ reply' \in {Says("LIST", "OK", t) : t \in ListTexts(command_list)} \cup
               {Says("LIST", "HEAP", <<>>)}
  /\ executed' = {}
  /\ UNCHANGED <<command_list, jobs, command_cfg>>

-----------------------------------------------------------------------------
(* Cron and restarts                                                       *)

\* What command_function does to a contact; a job keeps the address of its
\* command, so it runs what the command is now.
Execution == [slot: Slots, type: Types, output: Pins,
              duration: 0..UINT_RANGE - 1]

command_function(s) ==
  LET c == command_list[s]
  IN  IF c.enabled
        THEN {[slot |-> s, type |-> c.type, output |-> c.output,
               duration |-> c.duration]}
        ELSE {}

CronMinute(now) ==
  /\ executed' = UNION {command_function(j.slot) :
                          j \in {j \in jobs : Due(j.when, now)}}
  /\ reply' = NoReply
  /\ UNCHANGED <<command_list, jobs, command_cfg>>

\* Mutant: the last command of the file is not read
app_command_init_butLast(file) ==
  /\ command_list' = [s \in Slots |-> IF s + 1 < Len(file.text)
                                        THEN CommandFrom(file.text[s + 1])
                                        ELSE BlankCommand]
  /\ jobs' = {}
  /\ command_cfg' = file
  /\ reply' = NoReply
  /\ executed' = {}

\* The memory of cron and of the list is lost; command_list_restore fills the
\* slots from the start with the commands of the file, under the ids they had,
\* and registers no job. What the file lacks stays as app_command_init set it.
app_command_init(file) ==
  /\ command_list' = [s \in Slots |-> IF s < Len(file.text)
                                        THEN CommandFrom(file.text[s + 1])
                                        ELSE BlankCommand]
  /\ jobs' = {}
  /\ command_cfg' = file
  /\ reply' = NoReply
  /\ executed' = {}

Restart == app_command_init(command_cfg)

\* power lost between cfgfile.clear and the end of cfgfile.n_append
RestartDuringSave ==
  /\ Live(command_list) # {} \/ \E b \in Bodies : Accepted(b)
  /\ app_command_init(Unreadable)

Init ==
  /\ command_list = [s \in Slots |-> BlankCommand]
  /\ jobs = {}
  /\ command_cfg = Absent
  /\ reply = NoReply
  /\ executed = {}

\* the steps of a device that keeps its power
Running ==
  \/ \E b \in Bodies : PostCommand(b)
  \/ \E id \in RequestIds, b \in Bodies : PutCommand(id, b)
  \/ \E id \in RequestIds : DeleteCommand(id)
  \/ \E id \in RequestIds : GetCommand(id)
  \/ GetCommands
  \/ \E now \in Clock : CronMinute(now)

Next == Running \/ Restart \/ RestartDuringSave

Spec == Init /\ [][Next]_vars

\* no power loss, from a device that starts without commands
UninterruptedSpec == Init /\ [][Running]_vars

-----------------------------------------------------------------------------
(* Properties                                                              *)

\* Every variable holds what its declaration allows, and a command under an
\* id has a type and a contact, whether it came from a request or the file.
TypeOK ==
  /\ command_list \in [Slots -> Command]
  /\ \A s \in Live(command_list) : TextOf(command_list[s]) \in Text
  /\ jobs \subseteq Job
  /\ command_cfg \in File
  /\ \A p \in DOMAIN command_cfg.text : command_cfg.text[p].id \in Slots
  /\ reply \in Reply
  /\ executed \subseteq Execution

\* Cron and the list agree: each job belongs to an enabled command that knows
\* it and has its time, and an enabled command that was given a job has it.
\* A job left behind would run whatever command next takes its slot, and one
\* with the number of another would be stopped with it.
JobsMatchCommands ==
  /\ \A j, k \in jobs : j.id = k.id => j = k
  /\ \A j \in jobs :
       LET c == command_list[j.slot]
       IN  c.id >= 0 /\ c.enabled /\ c.job_id = j.id /\ c.exe_time = j.when
  /\ \A s \in Live(command_list) :
       command_list[s].enabled /\ command_list[s].job_id > 0 =>
         \E j \in jobs : j.slot = s

\* As there are no more slots than jobs, cron has a place for the command any
\* free slot may take.
CronKeepsRoom ==
  MAX_COMMAND_COUNT <= CRON_MAX_JOBS /\ Free(command_list) # {} =>
    Cardinality(jobs) < CRON_MAX_JOBS

\* A job leaves cron only in a step that changes the command it runs: no
\* request about one command deschedules another.
OnlyChangedCommandsLoseJobs ==
  [][\A j \in jobs \ jobs' : command_list'[j.slot] # command_list[j.slot]]_vars

\* A restart now would bring back the list as it is.
InSync == command_cfg.text \in ListTexts(command_list)

\* A change that was not refused is in the file, also when the save was
\* skipped because the file looked up to date.
AcknowledgedIsSaved ==
  reply.request \in {"POST", "PUT", "DELETE"} /\ reply.status \in {"OK", "HEAP"}
    => InSync

\* The file falls behind the list only in a step that answers that the
\* changes cannot be saved.
FallingBehindIsReported ==
  [][InSync /\ ~InSync' => reply'.status = "NOT_SAVED"]_vars

\* A restart from a file that is in step lists the same commands again: what
\* is printed is read back as what is printed.
RestartKeepsTheList ==
  [][Restart /\ InSync => ListTexts(command_list)' = ListTexts(command_list)]_vars

\* When cron wakes up, the commands that run are those listed as enabled and
\* registered, whose time it is, each as it is configured now.
DueCommandsRun ==
  [][\A now \in Clock : CronMinute(now) =>
       executed' = {[slot |-> s, type |-> command_list[s].type,
                     output |-> command_list[s].output,
                     duration |-> command_list[s].duration] :
                    s \in {s \in Live(command_list) :
                            /\ command_list[s].enabled
                            /\ command_list[s].job_id > 0
                            /\ Due(command_list[s].exe_time, now)}}]_vars

\* An enabled command is registered with cron unless cron refused it.
EnabledCommandsAreScheduled ==
  \A s \in Live(command_list) :
    command_list[s].enabled /\ command_list[s].job_id >= 0 =>
      \E j \in jobs : j.slot = s

\* No two commands have one id.
IdsAreUnique ==
  \A s, t \in Live(command_list) :
    command_list[s].id = command_list[t].id => s = t

\* What POST and PUT answer is the command they made or changed.
AnswerIsTheChangedCommand ==
  [][reply'.request \in {"POST", "PUT"} /\ reply'.status = "OK" =>
       \A s \in Slots : command_list'[s] # command_list[s] =>
         reply'.text = <<TextOf(command_list'[s])>>]_vars

\* command_delete and command_update search for the slot of the id asked, which
\* a restart may have moved away from the index of the same number: no command
\* with another id is changed, but for the name (UpdateIsOfTheCommandAsked).
RequestsReachTheirCommand ==
  [][\A s \in Live(command_list) :
       command_list'[s] # [command_list[s] EXCEPT !.name = command_list'[s].name]
         => \A id \in RequestIds \ {command_list[s].id} :
              ~DeleteCommand(id) /\ \A b \in Bodies : ~PutCommand(id, b)]_vars

\* command_update gives the command found under the id its new name, and leaves
\* all others alone. It writes the name at index id and the rest at the index it
\* has found, which a restart may have made two different slots.
UpdateIsOfTheCommandAsked ==
  [][\A id \in RequestIds, b \in Bodies :
       PutCommand(id, b) /\ reply'.status = "OK" =>
         \A s \in Live(command_list) :
           IF command_list[s].id = id THEN command_list'[s].name = b.name
           ELSE command_list'[s] = command_list[s]]_vars
=============================================================================
