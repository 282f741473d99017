------------------------- MODULE CommandListProofs -------------------------
(***************************************************************************)
(* Theorems about CommandList, for any number of slots, jobs and bodies:   *)
(* the list, cron and the heap agree, the file keeps what was accepted,    *)
(* and a device that keeps its power implements the abstract CommandStore. *)
(***************************************************************************)
EXTENDS CommandListRefinement, FiniteSetTheorems, TLAPS

-----------------------------------------------------------------------------
(* What the helpers return                                                 *)

\* A number of a request, kept in a uint32, is one.
LEMMA Uint32Type == ASSUME NEW n \in Int PROVE Uint32(n) \in 0..UINT_RANGE - 1
  BY UintRangeAssumption DEF Uint32

\* A date of a request, kept in chars, is a date.
LEMMA DateOfType == ASSUME NEW b \in RawBody PROVE DateOf(b) \in Date
  BY DEF DateOf, Date, RawBody

\* Handing a date to cron leaves it a date.
LEMMA CronDateType == ASSUME NEW d \in Date PROVE CronDate(d) \in Date
  BY DEF CronDate, Date, CRON_STAR

\* A date is read back from the file as a date.
LEMMA DateFromTextType ==
  ASSUME NEW t \in [DateFields -> -1..255] PROVE DateFromText(t) \in Date
  BY DEF DateFromText, Date

\* A date is printed with numbers from -1 up.
LEMMA DateTextType ==
  ASSUME NEW d \in Date PROVE DateText(d) \in [DateFields -> -1..255]
  BY DEF DateText, Date, CRON_STAR
\* What the file or an answer says of a live command is a text.
LEMMA TextOfType ==
  ASSUME NEW c \in Command, c.id >= 0, c.type \in Types, c.output \in Pins
  PROVE  TextOf(c) \in Text
<1>1. /\ c.id \in Slots \cup {-1}
      /\ c.exe_time \in Date
      /\ c.duration \in 0..UINT_RANGE - 1
  BY DEF Command
<1>a. c.id \in Nat
  BY <1>1, ListAssumption DEF Slots
<1>2. Signed(c.duration) \in Int
  BY <1>1, UintRangeAssumption DEF Signed
<1>3. DateText(c.exe_time) \in [DateFields -> -1..255]
  BY <1>1, DateTextType
<1>4. c.enabled \in BOOLEAN /\ c.name \in Names \cup {""}
  BY DEF Command
<1> QED
  BY <1>1, <1>a, <1>2, <1>3, <1>4 DEF TextOf, Text

\* A text under an id of the list is restored as a command, with that id.
LEMMA CommandFromType ==
  ASSUME NEW t \in Text, t.id \in Slots
  PROVE  /\ CommandFrom(t) \in Command
         /\ CommandFrom(t).id >= 0
         /\ TextOf(CommandFrom(t)) \in Text
<1>1. DateFromText(t.date) \in Date
  BY DateFromTextType DEF Text
<1>2. Uint32(t.duration) \in 0..UINT_RANGE - 1
  BY Uint32Type DEF Text
<1>3. CommandFrom(t) \in Command
  <2>1. t.id \in Slots \cup {-1}
    OBVIOUS
  <2>2. t.name \in Names \cup {""}
    BY DEF Text
  <2>3. t.enabled \in BOOLEAN
    BY DEF Text
  <2>4. t.type \in Types \cup {"zero"}
    BY DEF Text
  <2>5. t.relay_id \in Pins \cup {0}
    BY DEF Text
  <2>6. 0 \in Int
    OBVIOUS
  <2> QED
    BY <1>1, <1>2, <2>1, <2>2, <2>3, <2>4, <2>5, <2>6, Zenon
    DEF CommandFrom, Command
<1>4. /\ CommandFrom(t).id >= 0
      /\ CommandFrom(t).type \in Types
      /\ CommandFrom(t).output \in Pins
  <2>1. CommandFrom(t).id = t.id
    BY DEF CommandFrom
  <2>2. CommandFrom(t).type = t.type /\ CommandFrom(t).output = t.relay_id
    BY DEF CommandFrom
  <2>3. t.type \in Types
    BY DEF Text
  <2>4. t.relay_id \in Pins
    BY DEF Text
  <2>5. t.id >= 0
    BY ListAssumption DEF Slots
  <2> QED
    BY <2>1, <2>2, <2>3, <2>4, <2>5
<1> QED
  BY <1>3, <1>4, TextOfType

\* There are finitely many live slots.
LEMMA LiveFinite ==
  ASSUME NEW list
  PROVE  IsFiniteSet(Live(list)) /\ Cardinality(Live(list)) \in Nat
<1>1. IsFiniteSet(Slots)
  BY FS_Interval, ListAssumption DEF Slots
<1> QED
  BY <1>1, FS_Subset, FS_CardinalityType DEF Live

\* A list of well-formed commands: the part of TypeOK about command_list
ListOK(list) ==
  /\ list \in [Slots -> Command]
  /\ \A s \in Live(list) : TextOf(list[s]) \in Text

\* A sequence of texts under ids of the list
TextsOK(text) ==
  text \in Seq(Text) /\ \A p \in DOMAIN text : text[p].id \in Slots

\* The text of a list is a sequence of texts, under the ids of its commands.
LEMMA ListTextsType ==
  ASSUME NEW list, ListOK(list), NEW text \in ListTexts(list)
  PROVE  TextsOK(text)
<1> DEFINE n == Cardinality(Live(list))
<1>1. PICK v \in [1..n -> Live(list)] : text = [p \in DOMAIN v |-> TextOf(list[v[p]])]
  BY DEF ListTexts, Visits
<1>2. \A p \in 1..n : TextOf(list[v[p]]) \in Text
  BY DEF ListOK
<1>3. text = [p \in 1..n |-> TextOf(list[v[p]])]
  BY <1>1
<1>4. text \in [1..n -> Text]
  BY <1>2, <1>3
<1>5. text \in Seq(Text)
  BY <1>4, LiveFinite
<1>6. ASSUME NEW p \in 1..n PROVE list[v[p]].id \in Slots
  <2>1. v[p] \in Slots /\ list[v[p]].id >= 0
    BY DEF Live
  <2>2. list[v[p]].id \in Slots \cup {-1}
    BY <2>1 DEF ListOK, Command
  <2> QED
    BY <2>1, <2>2
<1>7. \A p \in 1..n : text[p].id = list[v[p]].id
  BY <1>3 DEF TextOf
<1> QED
  BY <1>3, <1>5, <1>6, <1>7 DEF TextsOK
\* What the list looks like to cron: JobsMatchCommands, of any list and jobs
Agree(list, js) ==
  /\ \A j, k \in js : j.id = k.id => j = k
  /\ \A j \in js : /\ list[j.slot].id >= 0
                  /\ list[j.slot].enabled
                  /\ list[j.slot].job_id = j.id
                  /\ list[j.slot].exe_time = j.when
  /\ \A s \in Live(list) : list[s].enabled /\ list[s].job_id > 0 =>
       \E j \in js : j.slot = s

\* Agree, except that the command in slot s has no job
AgreeBut(s, list, js) ==
  /\ \A j, k \in js : j.id = k.id => j = k
  /\ \A j \in js : /\ j.slot # s
                  /\ list[j.slot].id >= 0
                  /\ list[j.slot].enabled
                  /\ list[j.slot].job_id = j.id
                  /\ list[j.slot].exe_time = j.when
  /\ \A t \in Live(list) \ {s} : list[t].enabled /\ list[t].job_id > 0 =>
       \E j \in js : j.slot = t

\* Agree is JobsMatchCommands.
LEMMA AgreeIsMatch == JobsMatchCommands <=> Agree(command_list, jobs)
  BY DEF JobsMatchCommands, Agree

\* Descheduling stops the one job of a slot and no other.
LEMMA DescheduledAgrees ==
  ASSUME JobsMatchCommands, NEW s \in Live(command_list)
  PROVE  /\ Descheduled(s) \subseteq jobs
         /\ AgreeBut(s, command_list, Descheduled(s))
<1> DEFINE c == command_list[s]
<1>0. Agree(command_list, jobs)
  BY AgreeIsMatch
<1>1. CASE c.enabled
  <2>1. Descheduled(s) = {j \in jobs : j.id # c.job_id}
    BY <1>1 DEF Descheduled, cron_del_job
  <2>2. \A j \in Descheduled(s) : j.slot # s
    BY <1>0, <2>1 DEF Agree
  <2>3. ASSUME NEW t \in Live(command_list) \ {s},
               command_list[t].enabled, command_list[t].job_id > 0
        PROVE  \E j \in Descheduled(s) : j.slot = t
    <3>1. PICK j \in jobs : j.slot = t
      BY <1>0, <2>3 DEF Agree
    <3>2. j.id # c.job_id
      <4> SUFFICES ASSUME j.id = c.job_id PROVE FALSE
        OBVIOUS
      <4>1. c.job_id > 0
        BY <1>0, <2>3, <3>1 DEF Agree
      <4>2. PICK k \in jobs : k.slot = s
        BY <1>0, <1>1, <4>1 DEF Agree
      <4>3. k.id = c.job_id
        BY <1>0, <4>2 DEF Agree
      <4> QED
        BY <1>0, <2>3, <3>1, <4>2, <4>3 DEF Agree
    <3> QED
      BY <2>1, <3>1, <3>2
  <2> QED
    BY <1>0, <2>1, <2>2, <2>3 DEF Agree, AgreeBut
<1>2. CASE ~c.enabled
  BY <1>0, <1>2 DEF Descheduled, Agree, AgreeBut
<1> QED
  BY <1>1, <1>2
\* What cron_add_job may do for a command that gets a new configuration
LEMMA SchedulingCases ==
  ASSUME NEW b \in RawBody, NEW js, NEW s, NEW k, NEW new \in Scheduling(b, js, s, k)
  PROVE  \/ ~b.enabled /\ new.result = k /\ new.jobs = js
         \/ b.enabled /\ new.result = -1 /\ new.jobs = js
         \/ /\ b.enabled
            /\ new.result \in JobIds
            /\ \A j \in js : j.id # new.result
            /\ new.jobs = js \cup {[id |-> new.result, slot |-> s,
                                    when |-> CronDate(DateOf(b))]}
  BY DEF Scheduling, cron_add_job

\* list2 is list with the command in slot s configured as b and given job k
Rescheduled(list, list2, s, b, k) ==
  /\ list2[s].id >= 0
  /\ list2[s].enabled = b.enabled
  /\ list2[s].exe_time = CronDate(DateOf(b))
  /\ list2[s].job_id = k
  /\ \A t \in Slots \ {s} : /\ list2[t].id = list[t].id
                           /\ list2[t].enabled = list[t].enabled
                           /\ list2[t].exe_time = list[t].exe_time
                           /\ list2[t].job_id = list[t].job_id

\* A command configured and scheduled anew agrees with cron if the others did.
LEMMA SchedulingAgrees ==
  ASSUME NEW b \in RawBody, NEW s \in Slots, NEW js, NEW list, NEW list2,
         AgreeBut(s, list, js),
         NEW new \in Scheduling(b, js, s, list[s].job_id),
         Rescheduled(list, list2, s, b, new.result),
         \A j \in js : j.slot \in Slots
  PROVE  Agree(list2, new.jobs)
<1>1. \A j \in js : /\ list2[j.slot].id >= 0
                    /\ list2[j.slot].enabled
                    /\ list2[j.slot].job_id = j.id
                    /\ list2[j.slot].exe_time = j.when
  BY DEF AgreeBut, Rescheduled
<1>2. \A t \in Live(list2) \ {s} :
        list2[t].enabled /\ list2[t].job_id > 0 => \E j \in js : j.slot = t
  BY DEF AgreeBut, Live, Rescheduled
<1>3. \A j, k \in js : j.id = k.id => j = k
  BY DEF AgreeBut
<1>4. CASE ~b.enabled /\ new.jobs = js
  BY <1>1, <1>2, <1>3, <1>4 DEF Agree, Rescheduled
<1>5. CASE b.enabled /\ new.result = -1 /\ new.jobs = js
  BY <1>1, <1>2, <1>3, <1>5, ListAssumption DEF Agree, Rescheduled
<1>6. CASE /\ b.enabled
           /\ new.result \in JobIds
           /\ \A j \in js : j.id # new.result
           /\ new.jobs = js \cup {[id |-> new.result, slot |-> s,
                                   when |-> CronDate(DateOf(b))]}
  <2> DEFINE own == [id |-> new.result, slot |-> s, when |-> CronDate(DateOf(b))]
  <2>1. own \in new.jobs /\ own.slot = s /\ \A j \in new.jobs : j \in js \/ j = own
    BY <1>6
  <2>2. \A j, k \in new.jobs : j.id = k.id => j = k
    BY <1>3, <1>6, <2>1
  <2>3. \A j \in new.jobs : /\ list2[j.slot].id >= 0
                            /\ list2[j.slot].enabled
                            /\ list2[j.slot].job_id = j.id
                            /\ list2[j.slot].exe_time = j.when
    <3>1. /\ list2[own.slot].id >= 0
          /\ list2[own.slot].enabled
          /\ list2[own.slot].job_id = own.id
          /\ list2[own.slot].exe_time = own.when
      BY <1>6 DEF Rescheduled
    <3> QED
      BY <1>1, <2>1, <3>1, Zenon
  <2>4. \A t \in Live(list2) : list2[t].enabled /\ list2[t].job_id > 0 =>
          \E j \in new.jobs : j.slot = t
    BY <1>2, <1>6, <2>1
  <2> QED
    BY <2>2, <2>3, <2>4 DEF Agree
<1> QED
  BY <1>4, <1>5, <1>6, SchedulingCases
-----------------------------------------------------------------------------
(* The steps of the handlers keep the types                                *)

\* A configured command is a command, with a type and a contact.
LEMMA ConfiguredType ==
  ASSUME NEW b \in RawBody, Accepted(b), NEW c \in Command, NEW k \in Int
  PROVE  LET d == Configured(c, b, k)
         IN  /\ d \in Command
             /\ d.id = c.id /\ d.name = c.name
             /\ d.type \in Types /\ d.output \in Pins
             /\ d.enabled = b.enabled /\ d.job_id = k
             /\ d.exe_time = CronDate(DateOf(b))
<1>1. CronDate(DateOf(b)) \in Date
  BY DateOfType, CronDateType
<1>2. Uint32(b.duration) \in 0..UINT_RANGE - 1
  BY Uint32Type DEF RawBody
<1>3. TypeOf(b.type) \in Types
  BY DEF Accepted, TypeOf, Types
<1>4. b.relay_id \in Pins /\ b.enabled \in BOOLEAN
  BY DEF Accepted, RawBody
<1> QED
  BY <1>1, <1>2, <1>3, <1>4 DEF Configured, Command

\* Scheduling gives a job number and jobs.
LEMMA SchedulingType ==
  ASSUME NEW b \in RawBody, NEW js, js \subseteq Job, NEW s \in Slots,
         NEW k \in Int, NEW new \in Scheduling(b, js, s, k)
  PROVE  new.result \in Int /\ new.jobs \subseteq Job
<1>1. CronDate(DateOf(b)) \in Date
  BY DateOfType, CronDateType
<1>2. JobIds \subseteq Int /\ -1 \in Int
  BY ListAssumption
<1>3. \A n \in JobIds :
        [id |-> n, slot |-> s, when |-> CronDate(DateOf(b))] \in Job
  BY <1>1 DEF Job
<1>4. \/ new.result = k /\ new.jobs = js
      \/ new.result = -1 /\ new.jobs = js
      \/ /\ new.result \in JobIds
         /\ new.jobs = js \cup {[id |-> new.result, slot |-> s,
                                 when |-> CronDate(DateOf(b))]}
  BY SchedulingCases
<1> QED
  BY <1>2, <1>3, <1>4

\* command_json_stringify gives the text of a command, or none.
LEMMA OneTextType ==
  ASSUME NEW list, ListOK(list), NEW id \in Slots, NEW text \in OneText(list, id)
  PROVE  text \in Seq(Text)
<1>1. <<>> \in Seq(Text)
  OBVIOUS
<1>2. ASSUME NEW s \in FirstOf(WithId(list, id)) PROVE <<TextOf(list[s])>> \in Seq(Text)
  BY ListAssumption DEF FirstOf, WithId, ListOK, Live, Slots
<1> QED
  BY <1>1, <1>2 DEF OneText

\* Saving a well-formed list and answering leaves a file and a reply.
LEMMA SaveAndReplyType ==
  ASSUME TypeOK, NEW list, ListOK(list), NEW texts, texts \subseteq Seq(Text),
         NEW request \in {"POST", "PUT", "DELETE"},
         SaveAndReply(request, list, texts)
  PROVE  command_cfg' \in File /\ TextsOK(command_cfg'.text) /\ reply' \in Reply
<1>0. PICK save \in command_list_save(list) :
        /\ command_cfg' = save.file
        /\ IF save.ok
             THEN reply' \in {Says(request, "OK", t) : t \in texts} \cup
                            (IF request = "DELETE" THEN {}
                             ELSE {Says(request, "HEAP", <<>>)})
             ELSE reply' = Says(request, "NOT_SAVED", <<>>)
  BY DEF SaveAndReply
<1>1. \A t \in Seq(Text) : \A status \in {"OK", "HEAP", "NOT_SAVED"} :
        Says(request, status, t) \in Reply
  BY DEF Says, Reply
<1>2. <<>> \in Seq(Text)
  OBVIOUS
<1>3. reply' \in Reply
  BY <1>0, <1>1, <1>2
<1>4. command_cfg \in File /\ TextsOK(command_cfg.text)
  BY DEF TypeOK, TextsOK, File
<1>5. Unreadable \in File /\ TextsOK(Unreadable.text)
  BY <1>2 DEF Unreadable, File, TextsOK
<1>6. \A t \in ListTexts(list) : Holding(t) \in File /\ TextsOK(Holding(t).text)
  BY ListTextsType DEF Holding, File, TextsOK
<1>7. \/ save.file = command_cfg
      \/ save.file = Unreadable
      \/ \E t \in ListTexts(list) : save.file = Holding(t)
  BY DEF command_list_save
<1> QED
  BY <1>0, <1>3, <1>4, <1>5, <1>6, <1>7
\* The state after command_list and the jobs of a command changed
LEMMA ChangeKeepsType ==
  ASSUME TypeOK, ListOK(command_list'), jobs' \subseteq Job, executed' = {},
         NEW texts, texts \subseteq Seq(Text),
         NEW request \in {"POST", "PUT", "DELETE"},
         SaveAndReply(request, command_list', texts)
  PROVE  TypeOK'
<1>1. command_cfg' \in File /\ TextsOK(command_cfg'.text) /\ reply' \in Reply
  BY SaveAndReplyType
<1> QED
  BY <1>1 DEF TypeOK, ListOK, TextsOK

\* A refusal
LEMMA RefuseKeepsType ==
  ASSUME TypeOK, executed' = {},
         NEW request \in {"POST", "PUT", "DELETE"}, Refuse(request)
  PROVE  TypeOK'
<1>1. Says(request, "BAD_REQUEST", <<>>) \in Reply
  BY DEF Says, Reply
<1> QED
  BY <1>1 DEF TypeOK, Refuse

\* Creating a command
LEMMA CreateKeepsInv ==
  ASSUME TypeOK, JobsMatchCommands, executed' = {}, NEW b \in RawBody, Accepted(b),
         NEW s \in Free(command_list),
         NEW new \in Scheduling(b, jobs, s, command_list[s].job_id),
         command_create(b, s, new)
  PROVE  TypeOK' /\ JobsMatchCommands'
<1> DEFINE c == Configured(command_list[s], b, new.result)
           d == [c EXCEPT !.id = s, !.name = b.name]
<1>1. s \in Slots /\ command_list[s] \in Command /\ command_list[s].job_id \in Int
  BY DEF TypeOK, Free, Command
<1>2. new.result \in Int /\ new.jobs \subseteq Job
  BY <1>1, SchedulingType DEF TypeOK
<1>3. /\ c \in Command /\ c.type \in Types /\ c.output \in Pins
      /\ c.enabled = b.enabled /\ c.job_id = new.result
      /\ c.exe_time = CronDate(DateOf(b))
  BY <1>1, <1>2, ConfiguredType
<1>4. s \in Slots \cup {-1} /\ s >= 0
  BY <1>1, ListAssumption DEF Slots
<1>a. b.name \in Names \cup {""}
  BY DEF RawBody
<1>b. ~(command_list[s].id >= 0)
  <2>1. command_list[s].id \in Slots \cup {-1}
    BY <1>1 DEF Command
  <2>2. command_list[s].id < 0
    BY DEF Free
  <2> QED
    BY <2>1, <2>2, ListAssumption DEF Slots
<1>5. /\ d \in Command /\ d.id = s
      /\ d.type = c.type /\ d.output = c.output /\ d.enabled = c.enabled
      /\ d.job_id = c.job_id /\ d.exe_time = c.exe_time
  BY <1>3, <1>4, <1>a DEF Command
<1>6. TextOf(d) \in Text
  BY <1>3, <1>4, <1>5, TextOfType
<1>7. command_list' = [command_list EXCEPT ![s] = d] /\ jobs' = new.jobs
  BY DEF command_create
<1>8. /\ command_list' \in [Slots -> Command]
      /\ command_list'[s] = d
      /\ \A t \in Slots \ {s} : command_list'[t] = command_list[t]
  BY <1>1, <1>5, <1>7 DEF TypeOK
<1>9. ListOK(command_list')
  BY <1>6, <1>8 DEF ListOK, Live, TypeOK
<1>10. TypeOK'
  <2>1. OneText(command_list', s) \subseteq Seq(Text)
    BY <1>1, <1>9, OneTextType
  <2> QED
    BY <1>2, <1>7, <1>9, <2>1, ChangeKeepsType DEF command_create
<1>11. JobsMatchCommands'
  <2>1. AgreeBut(s, command_list, jobs)
    BY <1>b, AgreeIsMatch DEF Agree, AgreeBut
  <2>2. \A j \in jobs : j.slot \in Slots
    BY DEF TypeOK, Job
  <2>3. Rescheduled(command_list, command_list', s, b, new.result)
    BY <1>3, <1>4, <1>5, <1>8 DEF Rescheduled
  <2>4. Agree(command_list', new.jobs)
    BY <1>1, <2>1, <2>2, <2>3, SchedulingAgrees
  <2> QED
    BY <1>7, <2>4 DEF Agree, JobsMatchCommands
<1> QED
  BY <1>10, <1>11
\* A command found under an accepted id is live, and the id is that of a slot.
LEMMA FoundIsLive ==
  ASSUME TypeOK, NEW id, IdAccepted(id), NEW s \in FirstOf(WithId(command_list, id))
  PROVE  s \in Live(command_list) /\ s \in Slots /\ id \in Slots
<1>1. s \in Slots /\ command_list[s].id = id /\ id \in 0..MAX_COMMAND_COUNT
  BY DEF FirstOf, WithId, IdAccepted
<1>2. id \in Slots \cup {-1}
  BY <1>1 DEF TypeOK, Command
<1> QED
  BY <1>1, <1>2, ListAssumption DEF Live, Slots

\* Descheduling leaves jobs.
LEMMA DescheduledType ==
  ASSUME TypeOK, NEW s PROVE Descheduled(s) \subseteq Job
  BY DEF Descheduled, cron_del_job, TypeOK

\* Updating a command
LEMMA UpdateKeepsInv ==
  ASSUME TypeOK, JobsMatchCommands, executed' = {}, NEW b \in RawBody, Accepted(b),
         NEW id, IdAccepted(id), NEW s \in FirstOf(WithId(command_list, id)),
         NEW new \in Scheduling(b, Descheduled(s), s, command_list[s].job_id),
         command_update(id, b, s, new)
  PROVE  TypeOK' /\ JobsMatchCommands'
<1> DEFINE c == Configured(command_list[s], b, new.result)
           list1 == [command_list EXCEPT ![s] = c]
<1>1. /\ s \in Slots /\ s \in Live(command_list) /\ id \in Slots
      /\ command_list[s] \in Command /\ command_list[s].job_id \in Int
      /\ command_list[s].id >= 0
  <2>1. s \in Slots /\ s \in Live(command_list) /\ id \in Slots
    BY FoundIsLive
  <2> QED
    BY <2>1 DEF TypeOK, Live, Command
<1>2. new.result \in Int /\ new.jobs \subseteq Job
  BY <1>1, DescheduledType, SchedulingType
<1>3. /\ c \in Command /\ c.id = command_list[s].id
      /\ c.type \in Types /\ c.output \in Pins
      /\ c.enabled = b.enabled /\ c.job_id = new.result
      /\ c.exe_time = CronDate(DateOf(b))
  BY <1>1, <1>2, ConfiguredType
<1>4. b.name \in Names \cup {""}
  BY DEF RawBody
<1>5. /\ list1 \in [Slots -> Command] /\ list1[s] = c
      /\ \A t \in Slots \ {s} : list1[t] = command_list[t]
  BY <1>1, <1>3 DEF TypeOK
<1>6. \A t \in Live(list1) : list1[t].type \in Types /\ list1[t].output \in Pins
  <2>1. \A t \in Live(command_list) :
          command_list[t].type \in Types /\ command_list[t].output \in Pins
    BY DEF TypeOK, TextOf, Text
  <2> QED
    BY <1>3, <1>5, <2>1 DEF Live
<1>7. command_list' = [list1 EXCEPT ![id].name = b.name] /\ jobs' = new.jobs
  BY DEF command_update
<1>8. \A t \in Slots : /\ command_list'[t] \in Command
                       /\ command_list'[t].id = list1[t].id
                       /\ command_list'[t].type = list1[t].type
                       /\ command_list'[t].output = list1[t].output
                       /\ command_list'[t].enabled = list1[t].enabled
                       /\ command_list'[t].job_id = list1[t].job_id
                       /\ command_list'[t].exe_time = list1[t].exe_time
  <2>1. \A t \in Slots \ {id} : command_list'[t] = list1[t]
    BY <1>1, <1>5, <1>7
  <2>2. list1[id] \in Command
    BY <1>1, <1>5
  <2>3. command_list'[id] = [list1[id] EXCEPT !.name = b.name]
    BY <1>1, <1>5, <1>7
  <2> DEFINE e == [list1[id] EXCEPT !.name = b.name]
  <2>4. /\ e \in Command
        /\ e.id = list1[id].id /\ e.type = list1[id].type
        /\ e.output = list1[id].output /\ e.enabled = list1[id].enabled
        /\ e.job_id = list1[id].job_id /\ e.exe_time = list1[id].exe_time
    <3> HIDE DEF list1
    <3> QED
      BY <1>4, <2>2 DEF Command
  <2> HIDE DEF list1
  <2> QED
    BY <1>5, <2>1, <2>3, <2>4
<1>9. ListOK(command_list')
  <2>1. command_list' \in [Slots -> Command]
    BY <1>5, <1>7, <1>8
  <2>2. ASSUME NEW t \in Live(command_list') PROVE TextOf(command_list'[t]) \in Text
    <3>1. t \in Slots /\ command_list'[t].id >= 0 /\ t \in Live(list1)
      BY <1>8 DEF Live
    <3> QED
      BY <1>6, <1>8, <3>1, TextOfType
  <2> QED
    BY <2>1, <2>2 DEF ListOK
<1>10. TypeOK'
  <2>1. OneText(command_list', id) \subseteq Seq(Text)
    BY <1>1, <1>9, OneTextType
  <2> QED
    BY <1>2, <1>7, <1>9, <2>1, ChangeKeepsType DEF command_update
<1>11. JobsMatchCommands'
  <2>1. AgreeBut(s, command_list, Descheduled(s))
    BY <1>1, DescheduledAgrees
  <2>2. \A j \in Descheduled(s) : j.slot \in Slots
    BY DescheduledType DEF Job
  <2>3. Rescheduled(command_list, command_list', s, b, new.result)
    BY <1>1, <1>3, <1>5, <1>8 DEF Rescheduled
  <2>4. Agree(command_list', new.jobs)
    BY <1>1, <2>1, <2>2, <2>3, SchedulingAgrees
  <2> QED
    BY <1>7, <2>4 DEF Agree, JobsMatchCommands
<1> QED
  BY <1>10, <1>11

\* Deleting a command
LEMMA DeleteKeepsInv ==
  ASSUME TypeOK, JobsMatchCommands, executed' = {},
         NEW s \in Live(command_list), command_delete(s)
  PROVE  TypeOK' /\ JobsMatchCommands'
<1>1. s \in Slots /\ command_list[s] \in Command
  BY DEF Live, TypeOK
<1>2. /\ command_list' = [command_list EXCEPT ![s].id = -1]
      /\ jobs' = Descheduled(s)
  BY DEF command_delete
<1>3. /\ command_list' \in [Slots -> Command]
      /\ command_list'[s].id = -1
      /\ \A t \in Slots \ {s} : command_list'[t] = command_list[t]
  <2>1. [command_list[s] EXCEPT !.id = -1] \in Command
    BY <1>1 DEF Command
  <2> QED
    BY <1>1, <1>2, <2>1 DEF TypeOK, Command
<1>4. Live(command_list') = Live(command_list) \ {s}
  BY <1>1, <1>3 DEF Live
<1>5. ListOK(command_list')
  BY <1>3, <1>4 DEF ListOK, TypeOK, Live
<1>6. TypeOK'
  <2>1. {<<>>} \subseteq Seq(Text)
    OBVIOUS
  <2> QED
    BY <1>2, <1>5, <2>1, DescheduledType, ChangeKeepsType DEF command_delete
<1>7. JobsMatchCommands'
  <2>1. AgreeBut(s, command_list, Descheduled(s))
    BY DescheduledAgrees
  <2>2. \A j \in Descheduled(s) : j.slot \in Slots
    BY DescheduledType DEF Job
  <2>3. Agree(command_list', jobs')
    BY <1>2, <1>3, <1>4, <2>1, <2>2 DEF Agree, AgreeBut, Live
  <2> QED
    BY <2>3 DEF Agree, JobsMatchCommands
<1> QED
  BY <1>6, <1>7
-----------------------------------------------------------------------------
(* The invariant                                                           *)

IInv == TypeOK /\ JobsMatchCommands

\* A restart leaves a well-formed list and no jobs, whatever file it finds.
LEMMA RestartKeepsInv ==
  ASSUME NEW file \in File, TextsOK(file.text), app_command_init(file)
  PROVE  IInv'
<1>1. BlankCommand \in Command /\ BlankCommand.id = -1
  <2>1. [f \in DateFields |-> 0] \in Date
    BY DEF Date
  <2> QED
    BY <2>1, UintRangeAssumption DEF BlankCommand, Command
<1>2. ASSUME NEW s \in Slots, s < Len(file.text)
      PROVE  file.text[s + 1] \in Text /\ file.text[s + 1].id \in Slots
  BY <1>2, ListAssumption DEF TextsOK, Slots
<1>3. ASSUME NEW s \in Slots
      PROVE  /\ command_list'[s] \in Command
             /\ command_list'[s].id >= 0 => TextOf(command_list'[s]) \in Text
  <2>1. CASE s < Len(file.text)
    BY <1>2, <2>1, CommandFromType DEF app_command_init
  <2>2. CASE ~(s < Len(file.text))
    BY <1>1, <2>2 DEF app_command_init
  <2> QED
    BY <2>1, <2>2
<1>4. ListOK(command_list')
  BY <1>3 DEF ListOK, Live, app_command_init
<1>5. NoReply \in Reply
  BY DEF NoReply, Reply
<1>6. TypeOK'
  BY <1>4, <1>5 DEF TypeOK, ListOK, TextsOK, app_command_init
<1>7. \A s \in Slots : command_list'[s].job_id = 0
  BY DEF app_command_init, CommandFrom, BlankCommand
<1>8. JobsMatchCommands'
  BY <1>7 DEF JobsMatchCommands, app_command_init, Live
<1> QED
  BY <1>6, <1>8 DEF IInv

\* Requests that only ask, and cron, change neither the list nor the jobs.
LEMMA SameListKeepsMatch ==
  ASSUME JobsMatchCommands, UNCHANGED <<command_list, jobs>>
  PROVE  JobsMatchCommands'
  BY DEF JobsMatchCommands, Live

\* The list starts empty, without jobs.
LEMMA InitInv == Init => IInv
<1> SUFFICES ASSUME Init PROVE IInv
  OBVIOUS
<1>1. BlankCommand \in Command /\ ~(BlankCommand.id >= 0)
  <2>1. [f \in DateFields |-> 0] \in Date
    BY DEF Date
  <2> QED
    BY <2>1, UintRangeAssumption DEF BlankCommand, Command
<1>2. NoReply \in Reply /\ Absent \in File /\ Absent.text = <<>>
  BY DEF NoReply, Reply, Absent, File
<1>3. Live(command_list) = {}
  BY <1>1 DEF Init, Live
<1> QED
  BY <1>1, <1>2, <1>3 DEF Init, IInv, TypeOK, JobsMatchCommands

\* Every step keeps the invariant.
LEMMA NextInv == IInv /\ [Next]_vars => IInv'
<1> SUFFICES ASSUME IInv, [Next]_vars PROVE IInv'
  OBVIOUS
<1>0. TypeOK /\ JobsMatchCommands
  BY DEF IInv
<1>1. ASSUME NEW b \in Bodies, PostCommand(b) PROVE IInv'
  <2>1. executed' = {} /\ b \in RawBody
    BY <1>1, ListAssumption DEF PostCommand
  <2>2. CASE Refuse("POST")
    BY <1>0, <2>1, <2>2, RefuseKeepsType, SameListKeepsMatch DEF Refuse, IInv
  <2>3. CASE Accepted(b) /\ \E s \in FirstOf(Free(command_list)) :
               \E new \in Scheduling(b, jobs, s, command_list[s].job_id) :
                 command_create(b, s, new)
    BY <1>0, <2>1, <2>3, CreateKeepsInv DEF FirstOf, IInv
  <2> QED
    BY <1>1, <2>2, <2>3 DEF PostCommand
<1>2. ASSUME NEW id \in RequestIds, NEW b \in Bodies, PutCommand(id, b) PROVE IInv'
  <2>1. executed' = {} /\ b \in RawBody
    BY <1>2, ListAssumption DEF PutCommand
  <2>2. CASE Refuse("PUT")
    BY <1>0, <2>1, <2>2, RefuseKeepsType, SameListKeepsMatch DEF Refuse, IInv
  <2>3. CASE /\ IdAccepted(id) /\ Accepted(b)
             /\ \E s \in FirstOf(WithId(command_list, id)) :
                  \E new \in Scheduling(b, Descheduled(s), s,
                                        command_list[s].job_id) :
                    command_update(id, b, s, new)
    BY <1>0, <2>1, <2>3, UpdateKeepsInv DEF IInv
  <2> QED
    BY <1>2, <2>2, <2>3 DEF PutCommand
<1>3. ASSUME NEW id \in RequestIds, DeleteCommand(id) PROVE IInv'
  <2>1. executed' = {}
    BY <1>3 DEF DeleteCommand
  <2>2. CASE Refuse("DELETE")
    BY <1>0, <2>1, <2>2, RefuseKeepsType, SameListKeepsMatch DEF Refuse, IInv
  <2>3. CASE /\ IdAccepted(id)
             /\ \E s \in FirstOf(WithId(command_list, id)) : command_delete(s)
    BY <1>0, <2>1, <2>3, FoundIsLive, DeleteKeepsInv DEF IInv
  <2> QED
    BY <1>3, <2>2, <2>3 DEF DeleteCommand
<1>4. ASSUME NEW id \in RequestIds, GetCommand(id) PROVE IInv'
  <2>1. \A t \in Seq(Text), status \in {"OK", "HEAP", "BAD_REQUEST"} :
          Says("GET", status, t) \in Reply
    BY DEF Says, Reply
  <2>2. ASSUME IdAccepted(id) PROVE OneText(command_list, id) \subseteq Seq(Text)
    <3>1. <<>> \in Seq(Text)
      OBVIOUS
    <3>2. ASSUME NEW s \in FirstOf(WithId(command_list, id))
          PROVE  <<TextOf(command_list[s])>> \in Seq(Text)
      BY <1>0, <2>2, FoundIsLive DEF TypeOK
    <3> QED
      BY <3>1, <3>2 DEF OneText
  <2>3. reply' \in Reply
    <3>1. <<>> \in Seq(Text)
      OBVIOUS
    <3> QED
      BY <1>4, <2>1, <2>2, <3>1 DEF GetCommand
  <2>4. TypeOK'
    BY <1>0, <1>4, <2>3 DEF GetCommand, TypeOK
  <2> QED
    BY <1>0, <1>4, <2>4, SameListKeepsMatch DEF GetCommand, IInv
<1>5. CASE GetCommands
  <2>1. \A t \in Seq(Text), status \in {"OK", "HEAP"} : Says("LIST", status, t) \in Reply
    BY DEF Says, Reply
  <2>2. ListTexts(command_list) \subseteq Seq(Text)
    BY <1>0, ListTextsType DEF TypeOK, ListOK, TextsOK
  <2>3. reply' \in Reply
    <3>1. <<>> \in Seq(Text)
      OBVIOUS
    <3> QED
      BY <1>5, <2>1, <2>2, <3>1 DEF GetCommands
  <2>4. TypeOK'
    BY <1>0, <1>5, <2>3 DEF GetCommands, TypeOK
  <2> QED
    BY <1>0, <1>5, <2>4, SameListKeepsMatch DEF GetCommands, IInv
<1>6. ASSUME NEW now \in Clock, CronMinute(now) PROVE IInv'
  <2>1. NoReply \in Reply
    BY DEF NoReply, Reply
  <2>2. ASSUME NEW j \in jobs PROVE command_function(j.slot) \subseteq Execution
    <3>1. j.slot \in Live(command_list) /\ j.slot \in Slots
      BY <1>0 DEF JobsMatchCommands, Live, TypeOK, Job
    <3>2. /\ command_list[j.slot].type \in Types
          /\ command_list[j.slot].output \in Pins
      BY <1>0, <3>1 DEF TypeOK, TextOf, Text
    <3>3. command_list[j.slot].duration \in 0..UINT_RANGE - 1
      BY <1>0, <3>1 DEF TypeOK, Command
    <3> QED
      BY <3>1, <3>2, <3>3 DEF command_function, Execution
  <2>3. executed' \subseteq Execution
    BY <1>6, <2>2 DEF CronMinute
  <2>4. TypeOK'
    BY <1>0, <1>6, <2>1, <2>3 DEF CronMinute, TypeOK
  <2> QED
    BY <1>0, <1>6, <2>4, SameListKeepsMatch DEF CronMinute, IInv
<1>7. CASE Restart
  BY <1>0, <1>7, RestartKeepsInv DEF Restart, TypeOK, File, TextsOK
<1>8. CASE RestartDuringSave
  <2>1. Unreadable \in File /\ TextsOK(Unreadable.text)
    BY DEF Unreadable, File, TextsOK
  <2> QED
    BY <1>8, <2>1, RestartKeepsInv DEF RestartDuringSave
<1>9. CASE UNCHANGED vars
  BY <1>0, <1>9, SameListKeepsMatch DEF vars, IInv, TypeOK
<1> QED
  BY <1>1, <1>2, <1>3, <1>4, <1>5, <1>6, <1>7, <1>8, <1>9 DEF Next, Running

\* Whatever clients ask, whatever cron, the heap and the flash answer, and
\* whenever power is lost, every variable keeps its type, and what the file
\* holds is well-formed commands under ids of the list.
THEOREM TypesAreKept == Spec => []TypeOK
<1>1. IInv => TypeOK
  BY DEF IInv
<1> QED
  BY <1>1, InitInv, NextInv, PTL DEF Spec

\* Cron never runs a command that was deleted or disabled, or at a time it no
\* longer has, and never forgets one it was given.
THEOREM CronAndListAgree == Spec => []JobsMatchCommands
<1>1. IInv => JobsMatchCommands
  BY DEF IInv
<1> QED
  BY <1>1, InitInv, NextInv, PTL DEF Spec
-----------------------------------------------------------------------------
(* Room in cron                                                            *)

\* There are at most as many jobs as live commands.
LEMMA JobsBounded ==
  ASSUME IInv
  PROVE  IsFiniteSet(jobs) /\ Cardinality(jobs) <= Cardinality(Live(command_list))
<1> DEFINE owner == [j \in jobs |-> j.slot]
<1>1. owner \in [jobs -> Live(command_list)]
  BY DEF IInv, TypeOK, JobsMatchCommands, Job, Live
<1>2. \A j, k \in jobs : owner[j] = owner[k] => j = k
  BY DEF IInv, JobsMatchCommands
<1>3. owner \in Injection(jobs, Live(command_list))
  BY <1>1, <1>2 DEF Injection, IsInjective
<1> QED
  BY <1>3, LiveFinite, FS_Injection

\* While a slot is free, fewer commands are live than there are slots.
LEMMA FreeMeansFewerLive ==
  ASSUME IInv, Free(command_list) # {}
  PROVE  Cardinality(Live(command_list)) < MAX_COMMAND_COUNT
<1>1. IsFiniteSet(Slots) /\ Cardinality(Slots) = MAX_COMMAND_COUNT
  BY FS_Interval, ListAssumption DEF Slots
<1>2. PICK s \in Slots : command_list[s].id < 0
  BY DEF Free
<1>3. command_list[s].id \in Slots \cup {-1}
  BY <1>2 DEF IInv, TypeOK, Command
<1>4. ~(command_list[s].id >= 0)
  BY <1>2, <1>3, ListAssumption DEF Slots
<1>5. Live(command_list) \in SUBSET Slots /\ Live(command_list) # Slots
  BY <1>2, <1>4 DEF Live
<1>6. Cardinality(Live(command_list)) <= Cardinality(Slots)
  BY <1>1, <1>5, FS_Subset
<1>7. Cardinality(Live(command_list)) # Cardinality(Slots)
  BY <1>1, <1>5, FS_Subset
<1> QED
  BY <1>1, <1>6, <1>7, LiveFinite, ListAssumption

\* As long as cron takes as many jobs as there are slots, it is never full when
\* a command is created: only the heap can make cron_add_job fail.
THEOREM CronHasRoom == Spec => []CronKeepsRoom
<1>1. IInv => CronKeepsRoom
  <2> SUFFICES ASSUME IInv, MAX_COMMAND_COUNT <= CRON_MAX_JOBS,
                      Free(command_list) # {}
               PROVE  Cardinality(jobs) < CRON_MAX_JOBS
    BY DEF CronKeepsRoom
  <2>1. Cardinality(jobs) \in Nat /\ Cardinality(Live(command_list)) \in Nat
    BY JobsBounded, LiveFinite, FS_CardinalityType
  <2> QED
    BY <2>1, JobsBounded, FreeMeansFewerLive, ListAssumption
<1> QED
  BY <1>1, InitInv, NextInv, PTL DEF Spec
-----------------------------------------------------------------------------
(* Jobs go with their commands                                             *)

\* What a step may do to the jobs
SparesOthers == \A j \in jobs \ jobs' : command_list'[j.slot] # command_list[j.slot]

\* The number of a job is positive, and its command has it.
LEMMA JobFacts ==
  ASSUME IInv, NEW j \in jobs
  PROVE  /\ j.id > 0
         /\ j = [id |-> j.id, slot |-> j.slot, when |-> j.when]
         /\ command_list[j.slot].job_id = j.id
         /\ command_list[j.slot].enabled
         /\ command_list[j.slot].exe_time = j.when
         /\ command_list[j.slot].id >= 0
         /\ j.slot \in Slots
<1>1. j \in Job
  BY DEF IInv, TypeOK
<1>2. /\ j.id \in JobIds /\ j.slot \in Slots
      /\ j = [id |-> j.id, slot |-> j.slot, when |-> j.when]
  BY <1>1 DEF Job
<1>3. j.id > 0
  BY <1>2, ListAssumption
<1> QED
  BY <1>2, <1>3 DEF IInv, JobsMatchCommands

\* A job stopped by an update is the one of the command that is updated; if the
\* command comes out as it was, it has been given the same job again.
LEMMA UpdateSparesOthers ==
  ASSUME IInv, NEW b \in RawBody, Accepted(b), NEW id, IdAccepted(id),
         NEW s \in FirstOf(WithId(command_list, id)),
         NEW new \in Scheduling(b, Descheduled(s), s, command_list[s].job_id),
         command_update(id, b, s, new)
  PROVE  SparesOthers
<1> SUFFICES ASSUME NEW j \in jobs \ jobs', command_list'[j.slot] = command_list[j.slot]
             PROVE  FALSE
  BY DEF SparesOthers
<1> DEFINE c == Configured(command_list[s], b, new.result)
           list1 == [command_list EXCEPT ![s] = c]
<1>1. s \in Live(command_list) /\ s \in Slots /\ id \in Slots
  BY FoundIsLive DEF IInv
<1>2. jobs' = new.jobs /\ Descheduled(s) \subseteq new.jobs
  BY SchedulingCases DEF command_update
<1>3. j \notin Descheduled(s) /\ j \in jobs
  BY <1>2
<1>4. j.slot = s
  <2>1. command_list[s].enabled /\ j.id = command_list[s].job_id
    BY <1>3 DEF Descheduled, cron_del_job
  <2>2. command_list[s].job_id > 0
    BY <1>3, <2>1, JobFacts
  <2>3. PICK k \in jobs : k.slot = s
    BY <1>1, <2>1, <2>2 DEF IInv, JobsMatchCommands
  <2>4. k.id = j.id
    BY <2>1, <2>3, JobFacts
  <2> QED
    BY <1>3, <2>3, <2>4 DEF IInv, JobsMatchCommands
<1>5. c.enabled = b.enabled /\ c.job_id = new.result /\ c.exe_time = CronDate(DateOf(b))
  <2>1. command_list[s] \in Command /\ command_list[s].job_id \in Int
    BY <1>1 DEF IInv, TypeOK, Command
  <2>2. new.result \in Int
    BY <1>1, <2>1, DescheduledType, SchedulingType DEF IInv
  <2> QED
    BY <2>1, <2>2, ConfiguredType
<1>6. /\ command_list'[s].enabled = c.enabled
      /\ command_list'[s].job_id = c.job_id
      /\ command_list'[s].exe_time = c.exe_time
  <2>1. command_list' = [list1 EXCEPT ![id].name = b.name]
    BY DEF command_update
  <2>2. list1 \in [Slots -> Command] /\ list1[s] = c
    <3>1. command_list[s] \in Command /\ command_list[s].job_id \in Int
      BY <1>1 DEF IInv, TypeOK, Command
    <3>2. new.result \in Int
      BY <1>1, <3>1, DescheduledType, SchedulingType DEF IInv
    <3>3. c \in Command
      BY <3>1, <3>2, ConfiguredType
    <3> QED
      BY <1>1, <3>3 DEF IInv, TypeOK
  <2>3. CASE id = s
    <3> DEFINE e == [list1[s] EXCEPT !.name = b.name]
    <3>1. list1[s] \in Command
      BY <1>1, <2>2
    <3>2. e.enabled = list1[s].enabled /\ e.job_id = list1[s].job_id
          /\ e.exe_time = list1[s].exe_time
      <4> HIDE DEF list1
      <4> QED
        BY <3>1 DEF Command
    <3>3. command_list'[s] = e
      <4> HIDE DEF list1
      <4> QED
        BY <1>1, <2>1, <2>2, <2>3
    <3> HIDE DEF list1
    <3> QED
      BY <2>2, <3>2, <3>3
  <2>4. CASE id # s
    <3> HIDE DEF list1
    <3> QED
      BY <1>1, <2>1, <2>2, <2>4
  <2> QED
    BY <2>3, <2>4
<1>7. /\ b.enabled /\ new.result = j.id /\ CronDate(DateOf(b)) = j.when
  BY <1>3, <1>4, <1>5, <1>6, JobFacts
<1>8. j.id > 0 /\ j = [id |-> j.id, slot |-> s, when |-> j.when]
  BY <1>3, <1>4, JobFacts
<1>9. new.jobs = Descheduled(s) \cup {[id |-> new.result, slot |-> s,
                                      when |-> CronDate(DateOf(b))]}
  <2>1. b.enabled /\ new.result # -1
    BY <1>7, <1>8
  <2> QED
    BY <2>1, SchedulingCases
<1> QED
  BY <1>2, <1>7, <1>8, <1>9

\* A job leaves cron only in a step that changes the command it runs.
THEOREM RequestsSpareOtherJobs == Spec => OnlyChangedCommandsLoseJobs
<1>1. IInv /\ [Next]_vars => [SparesOthers]_vars
  <2> SUFFICES ASSUME IInv, Next PROVE SparesOthers
    OBVIOUS
  <2>1. CASE jobs \subseteq jobs'
    BY <2>1 DEF SparesOthers
  <2>2. ASSUME NEW b \in Bodies, PostCommand(b) PROVE jobs \subseteq jobs'
    <3>1. b \in RawBody
      BY ListAssumption
    <3>2. CASE Refuse("POST")
      BY <3>2 DEF Refuse
    <3>3. ASSUME NEW s, NEW new \in Scheduling(b, jobs, s, command_list[s].job_id),
                 command_create(b, s, new)
          PROVE  jobs \subseteq jobs'
      BY <3>1, <3>3, SchedulingCases DEF command_create
    <3> QED
      BY <2>2, <3>2, <3>3 DEF PostCommand
  <2>3. ASSUME NEW id \in RequestIds, NEW b \in Bodies, PutCommand(id, b)
        PROVE  SparesOthers
    <3>1. b \in RawBody
      BY ListAssumption
    <3> QED
      BY <2>1, <2>3, <3>1, UpdateSparesOthers DEF PutCommand, Refuse
  <2>4. ASSUME NEW id \in RequestIds, DeleteCommand(id) PROVE SparesOthers
    <3>1. CASE Refuse("DELETE")
      BY <2>1, <3>1 DEF Refuse
    <3>2. ASSUME IdAccepted(id), NEW s \in FirstOf(WithId(command_list, id)),
                 command_delete(s)
          PROVE  SparesOthers
      <4>1. s \in Live(command_list) /\ s \in Slots
        BY <3>2, FoundIsLive DEF IInv
      <4>2. command_list'[s].id = -1
        BY <4>1 , <3>2 DEF command_delete, IInv, TypeOK, Command
      <4>3. ASSUME NEW j \in jobs \ jobs' PROVE j.slot = s
        <5>1. /\ jobs' = Descheduled(s)
              /\ j \notin Descheduled(s) /\ j \in jobs
          BY <3>2 DEF command_delete
        <5>2. command_list[s].enabled /\ j.id = command_list[s].job_id
          BY <5>1 DEF Descheduled, cron_del_job
        <5>3. command_list[s].job_id > 0
          BY <5>1, <5>2, JobFacts
        <5>4. PICK k \in jobs : k.slot = s
          BY <4>1, <5>2, <5>3 DEF IInv, JobsMatchCommands
        <5>5. k.id = j.id
          BY <5>2, <5>4, JobFacts
        <5> QED
          BY <5>1, <5>4, <5>5 DEF IInv, JobsMatchCommands
      <4>4. command_list[s].id # -1
        BY <4>1 DEF Live
      <4> QED
        BY <4>2, <4>3, <4>4 DEF SparesOthers
    <3> QED
      BY <2>4, <3>1, <3>2 DEF DeleteCommand
  <2>5. ASSUME NEW file, app_command_init(file) PROVE SparesOthers
    <3>1. \A s \in Slots : command_list'[s].job_id = 0
      BY <2>5 DEF app_command_init, CommandFrom, BlankCommand
    <3> QED
      BY <3>1, JobFacts DEF SparesOthers
  <2>6. CASE UNCHANGED jobs
    BY <2>1, <2>6
  <2> QED
    BY <2>1, <2>2, <2>3, <2>4, <2>5, <2>6
    DEF Next, Running, GetCommand, GetCommands, CronMinute, Restart, RestartDuringSave
<1> QED
  BY <1>1, InitInv, NextInv, PTL DEF Spec, OnlyChangedCommandsLoseJobs, SparesOthers

\* Only the name of a command is changed by writing its name.
LEMMA NameIsAMember ==
  ASSUME NEW c \in Command
  PROVE  /\ c = [c EXCEPT !.name = c.name]
         /\ \A n : LET d == [c EXCEPT !.name = n] IN d = [c EXCEPT !.name = d.name]
<1> DEFINE N == Names \cup {""}
           T == Types \cup {"zero"}
<1>1. Command = [id: Slots \cup {-1}, name: N, job_id: Int, enabled: BOOLEAN,
                 type: T, exe_time: Date, output: Pins \cup {0},
                 duration: 0..UINT_RANGE - 1]
  BY Zenon DEF Command
<1> HIDE DEF N, T
<1> QED
  BY <1>1

\* A step leaves all but the name of the command in slot s alone.
ButItsName(s) ==
  command_list'[s] = [command_list[s] EXCEPT !.name = command_list'[s].name]

ReachesItsCommand ==
  \A s \in Live(command_list) :
    command_list'[s] # [command_list[s] EXCEPT !.name = command_list'[s].name]
      => \A id \in RequestIds \ {command_list[s].id} :
           ~DeleteCommand(id) /\ \A b \in Bodies : ~PutCommand(id, b)

\* PUT and DELETE change only a command with the id asked, a name aside,
\* wherever restarts have put it.
THEOREM RequestsFindTheirCommand == Spec => RequestsReachTheirCommand
<1>1. IInv => ReachesItsCommand
  <2> SUFFICES ASSUME IInv, NEW s \in Live(command_list), NEW id, command_list[s].id # id
               PROVE  /\ DeleteCommand(id) => ButItsName(s)
                      /\ \A b \in Bodies : PutCommand(id, b) => ButItsName(s)
    BY DEF ReachesItsCommand, ButItsName
  <2>1. s \in Slots /\ command_list[s] \in Command
    BY DEF Live, IInv, TypeOK
  <2>2. ASSUME command_list'[s] = command_list[s] PROVE ButItsName(s)
    BY <2>1, <2>2, NameIsAMember DEF ButItsName
  <2>3. ASSUME NEW t \in FirstOf(WithId(command_list, id)) PROVE t # s
    BY <2>3 DEF FirstOf, WithId
  <2>4. ASSUME DeleteCommand(id) PROVE command_list'[s] = command_list[s]
    BY <2>1, <2>3, <2>4 DEF DeleteCommand, command_delete, Refuse, IInv, TypeOK
  <2>5. ASSUME NEW b \in Bodies, PutCommand(id, b) PROVE ButItsName(s)
    <3>1. CASE Refuse("PUT")
      BY <2>2, <3>1 DEF Refuse
    <3>2. ASSUME IdAccepted(id), NEW t \in FirstOf(WithId(command_list, id)), NEW new,
                 command_update(id, b, t, new)
          PROVE  ButItsName(s)
      <4>1. t # s /\ t \in Slots /\ id \in Slots
        BY <2>3, <3>2, FoundIsLive DEF IInv
      <4>2. CASE s = id
        <5>1. command_list'[s] = [command_list[s] EXCEPT !.name = b.name]
          BY <3>2, <4>1, <4>2 DEF command_update, IInv, TypeOK
        <5> QED
          BY <2>1, <5>1, NameIsAMember DEF ButItsName
      <4>3. CASE s # id
        BY <2>1, <2>2, <3>2, <4>1, <4>3 DEF command_update, IInv, TypeOK
      <4> QED
        BY <4>2, <4>3
    <3> QED
      BY <2>5, <3>1, <3>2 DEF PutCommand
  <2> QED
    BY <2>2, <2>4, <2>5
<1>2. IInv => [ReachesItsCommand]_vars
  BY <1>1
<1> QED
  BY <1>2, InitInv, NextInv, PTL DEF Spec, RequestsReachTheirCommand, ReachesItsCommand

-----------------------------------------------------------------------------
(* A device that keeps its power: until the first restart a command's id   *)
(* is the index of its slot.                                               *)

\* A command's id is its index: what command_create makes it, and what a
\* restart does not keep.
IdIsSlot(list) == \A s \in Live(list) : list[s].id = s

\* cron was asked to run every enabled command.
AskedFor(list) == \A s \in Live(list) : list[s].enabled => list[s].job_id # 0

UInv == IInv /\ IdIsSlot(command_list) /\ AskedFor(command_list)

-----------------------------------------------------------------------------
(* What the steps do to the list                                           *)

\* list2 is list but for the command in slot s
SameBut(s, list, list2) == \A t \in Slots \ {s} : list2[t] = list[t]

\* POST fills the slot.
LEMMA ListAfterCreate ==
  ASSUME TypeOK, NEW b \in RawBody, Accepted(b), NEW s \in Free(command_list),
         NEW new \in Scheduling(b, jobs, s, command_list[s].job_id),
         command_create(b, s, new)
  PROVE  /\ s \in Slots
         /\ command_list' = [command_list EXCEPT ![s] = command_list'[s]]
         /\ SameBut(s, command_list, command_list')
         /\ command_list'[s].id = s
         /\ command_list'[s].enabled = b.enabled
         /\ command_list'[s].job_id = new.result
<1> DEFINE c == Configured(command_list[s], b, new.result)
           d == [c EXCEPT !.id = s, !.name = b.name]
<1>1. s \in Slots /\ command_list[s] \in Command /\ command_list[s].job_id \in Int
  BY DEF TypeOK, Free, Command
<1>2. new.result \in Int
  BY <1>1, SchedulingType DEF TypeOK
<1>3. c \in Command /\ c.enabled = b.enabled /\ c.job_id = new.result
  BY <1>1, <1>2, ConfiguredType
<1>4. d.id = s /\ d.enabled = c.enabled /\ d.job_id = c.job_id
  BY <1>3 DEF Command
<1>5. command_list' = [command_list EXCEPT ![s] = d]
  BY DEF command_create
<1> HIDE DEF d
<1>6. command_list'[s] = d /\ SameBut(s, command_list, command_list')
  BY <1>1, <1>5 DEF TypeOK, SameBut
<1> QED
  BY <1>1, <1>3, <1>4, <1>5, <1>6

\* While ids are indices, a command is found in the slot of its id.
LEMMA FoundAtItsId ==
  ASSUME TypeOK, IdIsSlot(command_list), NEW id, IdAccepted(id),
         NEW s \in FirstOf(WithId(command_list, id))
  PROVE  s = id /\ s \in Live(command_list) /\ s \in Slots
  BY FoundIsLive DEF FirstOf, WithId, IdIsSlot

\* PUT then changes that slot, and no other.
LEMMA ListAfterUpdate ==
  ASSUME TypeOK, NEW b \in RawBody, Accepted(b), NEW s \in Live(command_list),
         NEW new \in Scheduling(b, Descheduled(s), s, command_list[s].job_id),
         command_update(s, b, s, new)
  PROVE  /\ s \in Slots
         /\ command_list' = [command_list EXCEPT ![s] = command_list'[s]]
         /\ SameBut(s, command_list, command_list')
         /\ command_list'[s].id = command_list[s].id
         /\ command_list'[s].enabled = b.enabled
         /\ command_list'[s].job_id = new.result
<1> DEFINE c == Configured(command_list[s], b, new.result)
           d == [c EXCEPT !.name = b.name]
           list1 == [command_list EXCEPT ![s] = c]
<1>1. s \in Slots /\ command_list[s] \in Command /\ command_list[s].job_id \in Int
  BY DEF TypeOK, Live, Command
<1>2. new.result \in Int
  BY <1>1, DescheduledType, SchedulingType
<1>3. /\ c \in Command /\ c.id = command_list[s].id
      /\ c.enabled = b.enabled /\ c.job_id = new.result
  BY <1>1, <1>2, ConfiguredType
<1>4. d.id = c.id /\ d.enabled = c.enabled /\ d.job_id = c.job_id
  BY <1>3 DEF Command
<1>5. list1[s] = c /\ list1 \in [Slots -> Command]
  BY <1>1, <1>3 DEF TypeOK
<1>6. command_list' = [list1 EXCEPT ![s] = [list1[s] EXCEPT !.name = b.name]]
  BY DEF command_update
<1>7. command_list' = [list1 EXCEPT ![s] = d]
  BY <1>5, <1>6
<1> HIDE DEF d
<1>8. command_list' = [command_list EXCEPT ![s] = d]
  BY <1>1, <1>7 DEF TypeOK
<1>9. command_list'[s] = d /\ SameBut(s, command_list, command_list')
  BY <1>1, <1>8 DEF TypeOK, SameBut
<1> QED
  BY <1>1, <1>3, <1>4, <1>8, <1>9

\* DELETE takes the id away, and leaves the rest.
LEMMA ListAfterDelete ==
  ASSUME TypeOK, NEW s \in Live(command_list), command_delete(s)
  PROVE  /\ s \in Slots
         /\ SameBut(s, command_list, command_list')
         /\ command_list'[s].id = -1
         /\ Live(command_list') = Live(command_list) \ {s}
<1>1. s \in Slots /\ command_list[s] \in Command
  BY DEF TypeOK, Live
<1>2. command_list' = [command_list EXCEPT ![s] = [command_list[s] EXCEPT !.id = -1]]
  BY DEF command_delete
<1>3. SameBut(s, command_list, command_list') /\ command_list'[s].id = -1
  BY <1>1, <1>2 DEF TypeOK, SameBut, Command
<1>4. Live(command_list') = Live(command_list) \ {s}
  BY <1>1, <1>3 DEF Live, SameBut
<1> QED
  BY <1>1, <1>3, <1>4

-----------------------------------------------------------------------------
(* The invariant                                                           *)

\* What a step of a running device is: the list stays, or one slot changes
\* that is free for a POST, and is the one of the id for PUT and DELETE.
LEMMA RunningCases ==
  ASSUME TypeOK, IdIsSlot(command_list), Running
  PROVE  \/ UNCHANGED <<command_list, jobs, command_cfg>> /\ reply'.status # "NOT_SAVED"
         \/ \E b \in RawBody, s \in Free(command_list) :
              \E new \in Scheduling(b, jobs, s, command_list[s].job_id) :
                Accepted(b) /\ command_create(b, s, new)
         \/ \E b \in RawBody, s \in Live(command_list) :
              \E new \in Scheduling(b, Descheduled(s), s, command_list[s].job_id) :
                Accepted(b) /\ command_update(s, b, s, new)
         \/ \E s \in Live(command_list) : command_delete(s)
<1>1. ASSUME NEW b \in Bodies, PostCommand(b)
      PROVE  \/ UNCHANGED <<command_list, jobs, command_cfg>> /\ reply'.status # "NOT_SAVED"
             \/ \E s \in Free(command_list) :
                  \E new \in Scheduling(b, jobs, s, command_list[s].job_id) :
                    Accepted(b) /\ command_create(b, s, new)
  BY <1>1 DEF PostCommand, Refuse, FirstOf, Says
<1>2. ASSUME NEW id \in RequestIds, NEW b \in Bodies, PutCommand(id, b)
      PROVE  \/ UNCHANGED <<command_list, jobs, command_cfg>> /\ reply'.status # "NOT_SAVED"
             \/ \E s \in Live(command_list) :
                  \E new \in Scheduling(b, Descheduled(s), s, command_list[s].job_id) :
                    Accepted(b) /\ command_update(s, b, s, new)
  BY <1>2, FoundAtItsId DEF PutCommand, Refuse, Says
<1>3. ASSUME NEW id \in RequestIds, DeleteCommand(id)
      PROVE  \/ UNCHANGED <<command_list, jobs, command_cfg>> /\ reply'.status # "NOT_SAVED"
             \/ \E s \in Live(command_list) : command_delete(s)
  BY <1>3, FoundAtItsId DEF DeleteCommand, Refuse, Says
<1>4. Bodies \subseteq RawBody
  BY ListAssumption
<1> QED
  BY <1>1, <1>2, <1>3, <1>4
  DEF Running, GetCommand, GetCommands, CronMinute, Says, NoReply

\* cron_add_job was called for an enabled command that was configured.
LEMMA SchedulingAsks ==
  ASSUME NEW b \in RawBody, b.enabled, NEW js, NEW s, NEW k, NEW new \in Scheduling(b, js, s, k)
  PROVE  new.result # 0
  BY SchedulingCases, ListAssumption

\* Every step of a running device keeps the invariant.
LEMMA RunningInv == UInv /\ [Running]_vars => UInv'
<1> SUFFICES ASSUME UInv, [Running]_vars PROVE UInv'
  OBVIOUS
<1>1. IInv'
  BY NextInv DEF UInv, Next
<1>2. TypeOK /\ IdIsSlot(command_list) /\ AskedFor(command_list)
  BY DEF UInv, IInv
<1>3. ASSUME NEW s \in Slots, SameBut(s, command_list, command_list'),
             command_list'[s].id >= 0 => /\ command_list'[s].id = s
                                         /\ command_list'[s].enabled =>
                                              command_list'[s].job_id # 0
      PROVE  IdIsSlot(command_list') /\ AskedFor(command_list')
  BY <1>2, <1>3 DEF SameBut, IdIsSlot, AskedFor, Live
<1>4. CASE UNCHANGED <<command_list, jobs, command_cfg>>
  BY <1>1, <1>2, <1>4 DEF UInv, IdIsSlot, AskedFor, Live
<1>5. ASSUME NEW b \in RawBody, Accepted(b), NEW s \in Free(command_list),
             NEW new \in Scheduling(b, jobs, s, command_list[s].job_id),
             command_create(b, s, new)
      PROVE  UInv'
  BY <1>1, <1>2, <1>3, <1>5, ListAfterCreate, SchedulingAsks DEF UInv
<1>6. ASSUME NEW b \in RawBody, Accepted(b), NEW s \in Live(command_list),
             NEW new \in Scheduling(b, Descheduled(s), s, command_list[s].job_id),
             command_update(s, b, s, new)
      PROVE  UInv'
  <2>1. command_list[s].id = s
    BY <1>2 DEF IdIsSlot
  <2> QED
    BY <1>1, <1>2, <1>3, <1>6, <2>1, ListAfterUpdate, SchedulingAsks DEF UInv
<1>7. ASSUME NEW s \in Live(command_list), command_delete(s) PROVE UInv'
  BY <1>1, <1>2, <1>3, <1>7, ListAfterDelete DEF UInv
<1>8. CASE Running
  BY <1>2, <1>4, <1>5, <1>6, <1>7, <1>8, RunningCases
<1>9. CASE UNCHANGED vars
  BY <1>4, <1>9 DEF vars
<1> QED
  BY <1>8, <1>9

\* The list starts with no command at all.
LEMMA StartInv == Init => UInv
<1> SUFFICES ASSUME Init PROVE UInv
  OBVIOUS
<1>1. \A s \in Slots : command_list[s].id = -1
  BY DEF Init, BlankCommand
<1>2. Live(command_list) = {}
  BY <1>1 DEF Live
<1> QED
  BY <1>2, InitInv DEF UInv, IdIsSlot, AskedFor

\* Until power fails, ids are indices.
LEMMA UninterruptedInv == UninterruptedSpec => []UInv
  BY StartInv, RunningInv, PTL DEF UninterruptedSpec

\* Until power is lost, no two commands answer to one id.
THEOREM IdsStayUnique == UninterruptedSpec => []IdsAreUnique
<1>1. UInv => IdsAreUnique
  BY DEF UInv, IdIsSlot, IdsAreUnique
<1> QED
  BY <1>1, UninterruptedInv, PTL

\* Until power is lost, a command that is listed as enabled is run by cron,
\* unless cron refused it.
THEOREM EnabledMeansScheduled == UninterruptedSpec => []EnabledCommandsAreScheduled
<1>1. UInv => EnabledCommandsAreScheduled
  <2> SUFFICES ASSUME UInv, NEW s \in Live(command_list), command_list[s].enabled,
                      command_list[s].job_id >= 0
               PROVE  \E j \in jobs : j.slot = s
    BY DEF EnabledCommandsAreScheduled
  <2>1. command_list[s].job_id \in Int
    BY DEF UInv, IInv, TypeOK, Live, Command
  <2>2. command_list[s].job_id > 0
    BY <2>1 DEF UInv, AskedFor
  <2> QED
    BY <2>2 DEF UInv, IInv, JobsMatchCommands
<1> QED
  BY <1>1, UninterruptedInv, PTL

-----------------------------------------------------------------------------
(* What clients are answered, and what cron runs                           *)

\* The command under an id, when it is the index of a slot in use
LEMMA OneTextOfSlot ==
  ASSUME NEW list, IdIsSlot(list), NEW s \in Live(list), NEW text \in OneText(list, s)
  PROVE  text = <<TextOf(list[s])>>
<1>1. s \in Slots /\ s \in Int /\ list[s].id = s
  BY ListAssumption DEF IdIsSlot, Live, Slots
<1>2. \A u \in WithId(list, s) : u = s
  <2> SUFFICES ASSUME NEW u \in Slots, list[u].id = s PROVE u = s
    BY DEF WithId
  <2>1. list[u].id >= 0
    BY <1>1, ListAssumption DEF Slots
  <2> QED
    BY <2>1 DEF IdIsSlot, Live
<1>3. WithId(list, s) = {s}
  BY <1>1, <1>2 DEF WithId
<1>4. FirstOf(WithId(list, s)) \subseteq {s}
  BY <1>3 DEF FirstOf
<1> QED
  BY <1>3, <1>4 DEF OneText

\* What an answer "OK" holds is one of the texts it may hold.
LEMMA OkText ==
  ASSUME NEW request \in {"POST", "PUT", "DELETE"}, NEW list, NEW texts,
         SaveAndReply(request, list, texts), reply'.status = "OK"
  PROVE  reply'.text \in texts /\ reply'.request = request
  BY DEF SaveAndReply, Says

\* POST and PUT answer with the command they have made or changed, never with
\* one of another slot, and never as it was before.
THEOREM AnswersAreTheChange == UninterruptedSpec => AnswerIsTheChangedCommand
<1> DEFINE Answered ==
      reply'.request \in {"POST", "PUT"} /\ reply'.status = "OK" =>
        \A s \in Slots : command_list'[s] # command_list[s] =>
          reply'.text = <<TextOf(command_list'[s])>>
<1>1. UInv /\ UInv' /\ [Running]_vars => [Answered]_vars
  <2> SUFFICES ASSUME UInv, UInv', Running,
                      reply'.request \in {"POST", "PUT"}, reply'.status = "OK",
                      NEW t \in Slots, command_list'[t] # command_list[t]
               PROVE  reply'.text = <<TextOf(command_list'[t])>>
    OBVIOUS
  <2>1. TypeOK /\ IdIsSlot(command_list) /\ IdIsSlot(command_list')
    BY DEF UInv, IInv
  <2>2. ASSUME NEW s \in Slots, SameBut(s, command_list, command_list'),
               command_list'[s].id = s, NEW request \in {"POST", "PUT"},
               SaveAndReply(request, command_list', OneText(command_list', s))
        PROVE  reply'.text = <<TextOf(command_list'[t])>>
    <3>1. t = s
      BY <2>2 DEF SameBut
    <3>2. s \in Live(command_list')
      BY <2>2, ListAssumption DEF Live, Slots
    <3> QED
      BY <2>1, <2>2, <3>1, <3>2, OkText, OneTextOfSlot
  <2>3. ASSUME NEW b \in RawBody, Accepted(b), NEW s \in Free(command_list),
               NEW new \in Scheduling(b, jobs, s, command_list[s].job_id),
               command_create(b, s, new)
        PROVE  reply'.text = <<TextOf(command_list'[t])>>
    BY <2>1, <2>2, <2>3, ListAfterCreate DEF command_create
  <2>4. ASSUME NEW b \in RawBody, Accepted(b), NEW s \in Live(command_list),
               NEW new \in Scheduling(b, Descheduled(s), s, command_list[s].job_id),
               command_update(s, b, s, new)
        PROVE  reply'.text = <<TextOf(command_list'[t])>>
    <3>1. command_list[s].id = s
      BY <2>1 DEF IdIsSlot
    <3> QED
      BY <2>1, <2>2, <2>4, <3>1, ListAfterUpdate DEF command_update
  <2>5. ASSUME NEW s \in Live(command_list), command_delete(s) PROVE FALSE
    BY <2>5, OkText DEF command_delete
  <2> QED
    BY <2>1, <2>3, <2>4, <2>5, RunningCases
<1> QED
  BY <1>1, UninterruptedInv, PTL DEF UninterruptedSpec, AnswerIsTheChangedCommand

\* Each minute cron runs just the commands that are listed as enabled and
\* registered for it, each as it is configured then.
THEOREM CronRunsWhatIsDue == UninterruptedSpec => DueCommandsRun
<1> DEFINE Run(s) == [slot |-> s, type |-> command_list[s].type,
                      output |-> command_list[s].output,
                      duration |-> command_list[s].duration]
           DueSlots(now) == {s \in Live(command_list) :
                              /\ command_list[s].enabled
                              /\ command_list[s].job_id > 0
                              /\ Due(command_list[s].exe_time, now)}
           RunsDue == \A now \in Clock : CronMinute(now) =>
                        executed' = {Run(s) : s \in DueSlots(now)}
<1>1. UInv => RunsDue
  <2> SUFFICES ASSUME UInv, NEW now \in Clock, CronMinute(now)
               PROVE  executed' = {Run(s) : s \in DueSlots(now)}
    OBVIOUS
  <2>1. executed' = UNION {command_function(j.slot) : j \in {j \in jobs : Due(j.when, now)}}
    BY DEF CronMinute
  <2>2. ASSUME NEW j \in jobs
        PROVE  /\ command_function(j.slot) = {Run(j.slot)}
               /\ j.slot \in Live(command_list)
               /\ command_list[j.slot].enabled /\ command_list[j.slot].job_id > 0
               /\ command_list[j.slot].exe_time = j.when
    BY JobFacts DEF UInv, command_function, Live
  <2>3. ASSUME NEW s \in DueSlots(now)
        PROVE  \E j \in jobs : j.slot = s /\ Due(j.when, now)
    <3>1. PICK j \in jobs : j.slot = s
      BY <2>3 DEF UInv, IInv, JobsMatchCommands
    <3> QED
      BY <2>2, <2>3, <3>1
  <2>4. \A j \in jobs : Due(j.when, now) => j.slot \in DueSlots(now)
    BY <2>2
  <2> HIDE DEF Run, DueSlots
  <2> QED
    BY <2>1, <2>2, <2>3, <2>4
<1> QED
  BY <1>1, UninterruptedInv, PTL DEF UninterruptedSpec, DueCommandsRun

-----------------------------------------------------------------------------
(* The file: what was accepted is in it, what is lost is reported, and     *)
(* what is in it is listed again after a restart.                          *)

(* Printing and reading back                                               *)

\* A duration that is printed as negative is read back as it was.
LEMMA DurationIsReadBack ==
  ASSUME NEW n \in 0..UINT_RANGE - 1
  PROVE  Uint32(Signed(n)) = n
<1>1. UINT_RANGE \in Nat \ {0}
  BY UintRangeAssumption
<1>2. n % UINT_RANGE = n
  BY <1>1
<1>3. (n - UINT_RANGE) % UINT_RANGE = n
  BY <1>1
<1> QED
  BY <1>2, <1>3 DEF Uint32, Signed

\* A date that is read back is printed as before, though 0 may have become of
\* CRON_STAR.
LEMMA DateIsPrintedAgain ==
  ASSUME NEW d \in Date
  PROVE  DateText(DateFromText(DateText(d))) = DateText(d)
<1>1. ASSUME NEW f \in DateFields
      PROVE  DateText(DateFromText(DateText(d)))[f] = DateText(d)[f]
  <2>1. d[f] \in 0..255
    BY DEF Date
  <2>2. CASE d[f] = 255
    BY <2>2 DEF DateText, DateFromText, CRON_STAR
  <2>3. CASE d[f] # 255
    BY <2>1, <2>3 DEF DateText, DateFromText, CRON_STAR
  <2> QED
    BY <2>2, <2>3
<1> QED
  BY <1>1 DEF DateText

\* A command that is read back is printed as before.
LEMMA CommandIsPrintedAgain ==
  ASSUME NEW c \in Command
  PROVE  TextOf(CommandFrom(TextOf(c))) = TextOf(c)
<1>1. c.duration \in 0..UINT_RANGE - 1 /\ c.exe_time \in Date
  BY DEF Command
<1>2. Signed(Uint32(Signed(c.duration))) = Signed(c.duration)
  BY <1>1, DurationIsReadBack
<1>3. DateText(DateFromText(DateText(c.exe_time))) = DateText(c.exe_time)
  BY <1>1, DateIsPrintedAgain
<1> QED
  BY <1>2, <1>3 DEF TextOf, CommandFrom

\* A text the device has printed itself
Printed(text) == \A p \in DOMAIN text : TextOf(CommandFrom(text[p])) = text[p]

\* The texts of a list are printed ones.
LEMMA ListTextsPrinted ==
  ASSUME NEW list \in [Slots -> Command], NEW text \in ListTexts(list)
  PROVE  Printed(text)
<1>1. PICK v \in Visits(list) : text = [p \in DOMAIN v |-> TextOf(list[v[p]])]
  BY DEF ListTexts
<1>2. \A p \in DOMAIN v : v[p] \in Slots
  BY DEF Visits, Live
<1> QED
  BY <1>1, <1>2, CommandIsPrintedAgain DEF Printed

-----------------------------------------------------------------------------
(* A list has one text                                                     *)

\* The live slots, in the order of their index, in two ways
LEMMA VisitsOneWay ==
  ASSUME NEW list, NEW v \in Visits(list), NEW w \in Visits(list)
  PROVE  v = w
<1> DEFINE L == Live(list)
           n == Cardinality(L)
           Below(x) == {y \in L : y <= x}
<1>1. n \in Nat /\ IsFiniteSet(L) /\ L \subseteq Int
  BY LiveFinite, ListAssumption DEF Live, Slots
<1>2. ASSUME NEW u \in Visits(list), NEW p \in 1..n
      PROVE  IsFiniteSet(Below(u[p])) /\ Cardinality(Below(u[p])) = p
  <2>1. u \in [1..n -> L] /\ \A q, r \in 1..n : q < r => u[q] < u[r]
    BY DEF Visits
  <2>2. u \in Injection(1..n, L)
    BY <1>1, <2>1 DEF Injection, IsInjective
  <2>3. IsFiniteSet(1..n) /\ Cardinality(1..n) = n
    BY <1>1, FS_Interval
  <2>4. u \in Surjection(1..n, L)
    BY <1>1, <2>2, <2>3, FS_Injection
  <2> DEFINE g == [q \in 1..p |-> u[q]]
  <2>5. g \in [1..p -> Below(u[p])]
    BY <1>1, <2>1
  <2>6. \A q, r \in 1..p : g[q] = g[r] => q = r
    BY <1>1, <2>1
  <2>7. \A y \in Below(u[p]) : \E q \in 1..p : g[q] = y
    <3> SUFFICES ASSUME NEW y \in L, y <= u[p] PROVE \E q \in 1..p : u[q] = y
      OBVIOUS
    <3>1. PICK q \in 1..n : u[q] = y
      BY <2>4 DEF Surjection
    <3>2. q <= p
      BY <1>1, <2>1, <3>1
    <3> QED
      BY <3>1, <3>2
  <2>8. g \in Bijection(1..p, Below(u[p]))
    BY <2>5, <2>6, <2>7 DEF Bijection, Injection, Surjection, IsInjective
  <2>9. IsFiniteSet(1..p) /\ Cardinality(1..p) = p
    BY FS_Interval
  <2> QED
    BY <2>8, <2>9, FS_Bijection DEF ExistsBijection
<1>3. ASSUME NEW x \in Visits(list), NEW y \in Visits(list), NEW p \in 1..n
      PROVE  ~(x[p] < y[p])
  <2> SUFFICES ASSUME x[p] < y[p] PROVE FALSE
    OBVIOUS
  <2>1. x[p] \in L /\ y[p] \in L
    BY DEF Visits
  <2>2. Below(x[p]) \in SUBSET Below(y[p])
    BY <1>1, <2>1
  <2>3. Below(x[p]) = Below(y[p])
    <3>1. /\ IsFiniteSet(Below(y[p]))
          /\ Cardinality(Below(x[p])) = p /\ Cardinality(Below(y[p])) = p
      BY <1>2
    <3> HIDE DEF Below
    <3> QED
      BY <2>2, <3>1, FS_Subset
  <2> QED
    BY <1>1, <2>1, <2>3
<1>4. \A p \in 1..n : v[p] = w[p]
  <2>1. \A p \in 1..n : v[p] \in L /\ w[p] \in L
    BY DEF Visits
  <2> QED
    BY <1>1, <1>3, <2>1
<1>5. v \in [1..n -> L] /\ w \in [1..n -> L]
  BY DEF Visits
<1>6. v = [p \in 1..n |-> v[p]] /\ w = [p \in 1..n |-> w[p]]
  BY <1>5
<1>7. [p \in 1..n |-> v[p]] = [p \in 1..n |-> w[p]]
  BY <1>4
<1> QED
  BY <1>6, <1>7, Zenon

\* A list has one text.
LEMMA OneListText ==
  ASSUME NEW list, NEW t \in ListTexts(list), NEW u \in ListTexts(list)
  PROVE  t = u
  BY VisitsOneWay DEF ListTexts

\* As long as its slots, and for each slot in use its text: the text of a list
\* without holes.
LEMMA TextWithoutHoles ==
  ASSUME NEW list, NEW text, NEW n \in Nat,
         text = [p \in 1..n |-> TextOf(list[p - 1])],
         Live(list) = 0..n - 1
  PROVE  text \in ListTexts(list)
<1> DEFINE v == [p \in 1..n |-> p - 1]
<1>1. Cardinality(Live(list)) = n
  BY FS_Interval
<1>2. v \in Visits(list)
  BY <1>1 DEF Visits
<1>3. text = [p \in DOMAIN v |-> TextOf(list[v[p]])]
  OBVIOUS
<1> QED
  BY <1>2, <1>3 DEF ListTexts

-----------------------------------------------------------------------------
(* The invariant of the file                                               *)

\* The file holds what the device has printed.
FileInv == IInv /\ Printed(command_cfg.text)

\* A file that looks up to date is: item p is the command in slot p - 1, and
\* there are as many items as commands.
LEMMA LooksUpdatedIsUpdated ==
  ASSUME TypeOK, Printed(command_cfg.text),
         NEW list \in [Slots -> Command], MayLookUpdated(list)
  PROVE  command_cfg.text \in ListTexts(list)
<1> DEFINE text == command_cfg.text
           n == Cardinality(Live(list))
<1>1. text \in Seq(Text) /\ \A p \in DOMAIN text : text[p].id \in Slots
  BY DEF TypeOK, File
<1>2. n \in Nat /\ IsFiniteSet(Live(list)) /\ n <= MAX_COMMAND_COUNT
  <2>1. IsFiniteSet(Slots) /\ Cardinality(Slots) = MAX_COMMAND_COUNT
    BY FS_Interval, ListAssumption DEF Slots
  <2>2. Live(list) \in SUBSET Slots
    BY DEF Live
  <2> QED
    BY <2>1, <2>2, FS_Subset, LiveFinite
<1>3. Len(text) = n /\ DOMAIN text = 1..n
  BY <1>1 DEF MayLookUpdated
<1>4. ASSUME NEW p \in 1..n
      PROVE  /\ p - 1 \in Live(list)
             /\ text[p] = TextOf(list[p - 1])
  <2>1. p - 1 \in Slots
    BY <1>2, ListAssumption DEF Slots
  <2>2. [CommandFrom(text[p]) EXCEPT !.job_id = list[p - 1].job_id] = list[p - 1]
    BY <1>3 DEF MayLookUpdated, SameAsSaved
  <2> DEFINE c == CommandFrom(text[p])
             d == [c EXCEPT !.job_id = list[p - 1].job_id]
  <2>3. /\ d.id = c.id /\ d.enabled = c.enabled /\ d.name = c.name
        /\ d.type = c.type /\ d.duration = c.duration /\ d.output = c.output
        /\ d.exe_time = c.exe_time
    BY DEF CommandFrom
  <2>4. TextOf(d) = TextOf(c) /\ d.id = text[p].id
    BY <2>3 DEF TextOf, CommandFrom
  <2>5. TextOf(c) = text[p]
    BY <1>3 DEF Printed
  <2>6. text[p].id >= 0
    BY <1>1, <1>3, ListAssumption DEF Slots
  <2> HIDE DEF d, c
  <2>7. d = list[p - 1]
    BY <2>2 DEF d, c
  <2> QED
    BY <2>1, <2>4, <2>5, <2>6, <2>7 DEF Live
<1>5. Live(list) = 0..n - 1
  <2>1. 0..n - 1 \in SUBSET Live(list)
    <3> SUFFICES ASSUME NEW s \in 0..n - 1 PROVE s \in Live(list)
      OBVIOUS
    <3>1. s + 1 \in 1..n /\ s + 1 - 1 = s
      BY <1>2
    <3> QED
      BY <1>4, <3>1
  <2>2. Cardinality(0..n - 1) = n
    BY <1>2, FS_Interval
  <2> QED
    BY <1>2, <2>1, <2>2, FS_Subset
<1>6. text = [p \in 1..n |-> TextOf(list[p - 1])]
  BY <1>1, <1>3, <1>4
<1> HIDE DEF n, text
<1>7. text \in ListTexts(list)
  BY <1>2, <1>5, <1>6, TextWithoutHoles
<1> QED
  BY <1>7 DEF text

\* After a save the file holds what was printed; if it went well, the list.
LEMMA SaveFacts ==
  ASSUME TypeOK, Printed(command_cfg.text), NEW list, ListOK(list),
         NEW request \in {"POST", "PUT", "DELETE"}, NEW texts,
         SaveAndReply(request, list, texts)
  PROVE  /\ Printed(command_cfg'.text)
         /\ \/ reply'.status = "NOT_SAVED"
            \/ command_cfg'.text \in ListTexts(list)
<1>1. PICK save \in command_list_save(list) :
        /\ command_cfg' = save.file
        /\ ~save.ok => reply' = Says(request, "NOT_SAVED", <<>>)
  BY DEF SaveAndReply
<1>2. list \in [Slots -> Command]
  BY DEF ListOK
<1>3. Printed(Unreadable.text)
  BY DEF Printed, Unreadable
<1>4. \/ MayLookUpdated(list) /\ save.file = command_cfg
      \/ \E t \in ListTexts(list) : save.file = Holding(t)
      \/ ~save.ok /\ save.file \in {command_cfg, Unreadable}
  BY DEF command_list_save
<1>5. CASE MayLookUpdated(list) /\ save.file = command_cfg
  BY <1>1, <1>2, <1>5, LooksUpdatedIsUpdated
<1>6. CASE \E t \in ListTexts(list) : save.file = Holding(t)
  BY <1>1, <1>2, <1>6, ListTextsPrinted DEF Holding
<1>7. CASE ~save.ok /\ save.file \in {command_cfg, Unreadable}
  BY <1>1, <1>3, <1>7 DEF Says
<1> QED
  BY <1>4, <1>5, <1>6, <1>7

\* A step of a running device leaves list and file alone, or changes the list
\* and saves it.
LEMMA StepCases ==
  ASSUME Running
  PROVE  \/ /\ UNCHANGED <<command_list, command_cfg>>
            /\ \/ reply'.request \notin {"POST", "PUT", "DELETE"}
               \/ reply'.status = "BAD_REQUEST"
         \/ \E request \in {"POST", "PUT", "DELETE"} : \E texts :
              SaveAndReply(request, command_list', texts)
<1>1. ASSUME NEW request \in {"POST", "PUT", "DELETE"}, Refuse(request)
      PROVE  UNCHANGED <<command_list, command_cfg>> /\ reply'.status = "BAD_REQUEST"
  BY <1>1 DEF Refuse, Says
<1>2. ASSUME NEW b, PostCommand(b)
      PROVE  Refuse("POST") \/ \E texts : SaveAndReply("POST", command_list', texts)
  BY <1>2 DEF PostCommand, command_create
<1>3. ASSUME NEW id, NEW b, PutCommand(id, b)
      PROVE  Refuse("PUT") \/ \E texts : SaveAndReply("PUT", command_list', texts)
  BY <1>3 DEF PutCommand, command_update
<1>4. ASSUME NEW id, DeleteCommand(id)
      PROVE  Refuse("DELETE") \/ \E texts : SaveAndReply("DELETE", command_list', texts)
  BY <1>4 DEF DeleteCommand, command_delete
<1>5. ASSUME NEW id, GetCommand(id)
      PROVE  UNCHANGED <<command_list, command_cfg>> /\ reply'.request = "GET"
  BY <1>5 DEF GetCommand, Says
<1>6. CASE GetCommands
  BY <1>6 DEF GetCommands, Says
<1>7. ASSUME NEW now, CronMinute(now)
      PROVE  UNCHANGED <<command_list, command_cfg>> /\ reply'.request = "none"
  BY <1>7 DEF CronMinute, NoReply
<1> QED
  BY <1>1, <1>2, <1>3, <1>4, <1>5, <1>6, <1>7 DEF Running

\* The list a restart reads from a text the device has printed has that text.
LEMMA RestartReadsBack ==
  ASSUME TypeOK', NEW file \in File, TextsOK(file.text), Printed(file.text),
         Len(file.text) <= MAX_COMMAND_COUNT, app_command_init(file)
  PROVE  file.text \in ListTexts(command_list')
<1> DEFINE text == file.text
           n == Len(text)
<1>1. n \in Nat /\ text \in Seq(Text) /\ DOMAIN text = 1..n
  BY DEF TextsOK
<1>2. ASSUME NEW s \in Slots
      PROVE  /\ s < n => command_list'[s] = CommandFrom(text[s + 1])
             /\ ~(s < n) => command_list'[s].id = -1
  BY <1>2 DEF app_command_init, BlankCommand
<1>3. ASSUME NEW s \in Slots, s < n PROVE command_list'[s].id >= 0
  <2>1. s + 1 \in 1..n
    BY <1>1, <1>3, ListAssumption DEF Slots
  <2>2. text[s + 1].id \in Slots
    BY <1>1, <2>1 DEF TextsOK
  <2>3. command_list'[s] = CommandFrom(text[s + 1])
    BY <1>2, <1>3
  <2> HIDE DEF text, n
  <2>4. CommandFrom(text[s + 1]).id = text[s + 1].id
    BY DEF CommandFrom
  <2>5. command_list'[s].id = text[s + 1].id
    BY <2>3, <2>4
  <2>6. \A i \in Slots : i >= 0
    BY ListAssumption DEF Slots
  <2> QED
    BY <2>2, <2>5, <2>6
<1>4. Live(command_list') = 0..n - 1
  BY <1>1, <1>2, <1>3, ListAssumption DEF Live, Slots
<1>5. ASSUME NEW p \in 1..n PROVE text[p] = TextOf(command_list'[p - 1])
  <2>1. p - 1 \in Slots /\ p - 1 < n /\ p - 1 + 1 = p
    BY <1>1, ListAssumption DEF Slots
  <2>2. command_list'[p - 1] = CommandFrom(text[p])
    BY <1>2, <2>1
  <2> QED
    BY <1>1, <2>2 DEF Printed
<1>6. text = [p \in 1..n |-> TextOf(command_list'[p - 1])]
  BY <1>1, <1>5
<1> HIDE DEF n, text
<1>7. text \in ListTexts(command_list')
  BY <1>1, <1>4, <1>6, TextWithoutHoles
<1> QED
  BY <1>7 DEF text

\* A text of a list is no longer than the list.
LEMMA ListTextsFit ==
  ASSUME NEW list, NEW text \in ListTexts(list)
  PROVE  Len(text) <= MAX_COMMAND_COUNT
<1>1. IsFiniteSet(Slots) /\ Cardinality(Slots) = MAX_COMMAND_COUNT
  BY FS_Interval, ListAssumption DEF Slots
<1>2. Live(list) \in SUBSET Slots
  BY DEF Live
<1>3. Cardinality(Live(list)) <= MAX_COMMAND_COUNT /\ Cardinality(Live(list)) \in Nat
  BY <1>1, <1>2, FS_Subset, LiveFinite
<1>4. Len(text) = Cardinality(Live(list))
  BY <1>3 DEF ListTexts, Visits
<1> QED
  BY <1>3, <1>4

\* Every step keeps the invariant of the file.
LEMMA FileStep == FileInv /\ [Next]_vars => FileInv'
<1> SUFFICES ASSUME FileInv, [Next]_vars PROVE FileInv'
  OBVIOUS
<1>1. IInv' /\ TypeOK /\ Printed(command_cfg.text) /\ ListOK(command_list')
  BY NextInv DEF FileInv, IInv, TypeOK, ListOK
<1>2. CASE Running
  BY <1>1, <1>2, StepCases, SaveFacts DEF FileInv
<1>3. CASE Restart
  BY <1>1, <1>3 DEF FileInv, Restart, app_command_init
<1>4. CASE RestartDuringSave
  BY <1>1, <1>4 DEF FileInv, RestartDuringSave, app_command_init, Printed, Unreadable
<1>5. CASE UNCHANGED vars
  BY <1>1, <1>5 DEF FileInv, vars
<1> QED
  BY <1>2, <1>3, <1>4, <1>5 DEF Next

\* Before the first start there is no file.
LEMMA FileInitInv == Init => FileInv
  BY InitInv DEF FileInv, Init, Printed, Absent

\* What is known of the file is always so.
LEMMA FileInvariant == Spec => []FileInv
  BY FileInitInv, FileStep, PTL DEF Spec

\* A change the client was told is accepted is in the file, also when the save
\* was skipped.
THEOREM AcceptedChangesAreSaved == Spec => []AcknowledgedIsSaved
<1>1. Init => AcknowledgedIsSaved
  BY DEF Init, NoReply, AcknowledgedIsSaved
<1>2. FileInv /\ FileInv' /\ AcknowledgedIsSaved /\ [Next]_vars => AcknowledgedIsSaved'
  <2> SUFFICES ASSUME FileInv, FileInv', AcknowledgedIsSaved, [Next]_vars,
                      reply'.request \in {"POST", "PUT", "DELETE"},
                      reply'.status \in {"OK", "HEAP"}
               PROVE  command_cfg'.text \in ListTexts(command_list')
    BY DEF AcknowledgedIsSaved, InSync, ListTexts, Visits, Live
  <2>1. TypeOK /\ Printed(command_cfg.text) /\ ListOK(command_list')
    BY DEF FileInv, IInv, TypeOK, ListOK
  <2>2. CASE Running
    BY <2>1, <2>2, StepCases, SaveFacts
  <2>3. CASE Restart \/ RestartDuringSave
    BY <2>3 DEF Restart, RestartDuringSave, app_command_init, NoReply
  <2>4. CASE UNCHANGED vars
    BY <2>4 DEF vars, AcknowledgedIsSaved, InSync
  <2> QED
    BY <2>2, <2>3, <2>4 DEF Next
<1> QED
  BY <1>1, <1>2, FileInvariant, PTL DEF Spec

\* The list after a restart from a file in step with it, and after a power loss
\* in the middle of a save, is the list of the file.
LEMMA RestartIsInStep ==
  ASSUME FileInv, FileInv', InSync, Restart \/ RestartDuringSave
  PROVE  command_cfg'.text \in ListTexts(command_list')
<1>1. TypeOK' /\ command_cfg \in File /\ TextsOK(command_cfg.text)
      /\ Printed(command_cfg.text)
  BY DEF FileInv, IInv, TypeOK, TextsOK, File
<1>2. CASE Restart
  <2>1. Len(command_cfg.text) <= MAX_COMMAND_COUNT
    BY ListTextsFit DEF InSync
  <2> QED
    BY <1>1, <1>2, <2>1, RestartReadsBack DEF Restart, app_command_init
<1>3. CASE RestartDuringSave
  <2>1. /\ Unreadable \in File /\ Unreadable.text = <<>>
        /\ TextsOK(Unreadable.text) /\ Printed(Unreadable.text)
    BY DEF Unreadable, File, TextsOK, Printed
  <2>2. Len(Unreadable.text) <= MAX_COMMAND_COUNT
    BY <2>1, ListAssumption
  <2> QED
    BY <1>1, <1>3, <2>1, <2>2, RestartReadsBack DEF RestartDuringSave, app_command_init
<1> QED
  BY <1>2, <1>3

\* The file falls behind the list only in a step that says so.
THEOREM FallingBehindIsSaid == Spec => FallingBehindIsReported
<1>1. FileInv /\ FileInv' /\ [Next]_vars =>
        [InSync /\ ~InSync' => reply'.status = "NOT_SAVED"]_vars
  <2> SUFFICES ASSUME FileInv, FileInv', Next, InSync
               PROVE  InSync' \/ reply'.status = "NOT_SAVED"
    OBVIOUS
  <2>1. TypeOK /\ Printed(command_cfg.text) /\ ListOK(command_list')
    BY DEF FileInv, IInv, TypeOK, ListOK
  <2>2. InSync' <=> command_cfg'.text \in ListTexts(command_list')
    BY DEF InSync, ListTexts, Visits, Live
  <2>3. CASE UNCHANGED <<command_list, command_cfg>>
    BY <2>3 DEF InSync
  <2>4. CASE Running
    BY <2>1, <2>2, <2>3, <2>4, StepCases, SaveFacts
  <2>5. CASE Restart \/ RestartDuringSave
    BY <2>2, <2>5, RestartIsInStep
  <2> QED
    BY <2>4, <2>5 DEF Next
<1> QED
  BY <1>1, FileInvariant, PTL DEF Spec, FallingBehindIsReported

\* A restart from a file that is in step lists the same commands.
THEOREM RestartListsTheSame == Spec => RestartKeepsTheList
<1>1. FileInv /\ FileInv' =>
        [Restart /\ InSync => ListTexts(command_list)' = ListTexts(command_list)]_vars
  <2> SUFFICES ASSUME FileInv, FileInv', Restart, InSync
               PROVE  ListTexts(command_list') = ListTexts(command_list)
    BY DEF ListTexts, Visits, Live
  <2>1. command_cfg.text \in ListTexts(command_list)
    BY DEF InSync
  <2>2. command_cfg.text \in ListTexts(command_list')
    BY RestartIsInStep DEF Restart, app_command_init
  <2> QED
    BY <2>1, <2>2, OneListText
<1> QED
  BY <1>1, FileInvariant, PTL DEF RestartKeepsTheList

-----------------------------------------------------------------------------
(* The refinement of CommandStore                                          *)

\* What is known of the list, of cron and of the file
SInv == UInv /\ FileInv

\* What is known of the list and of the file until power fails
LEMMA StoreInvariant == UninterruptedSpec => []SInv
<1>1. Init => SInv
  BY StartInv, FileInitInv DEF SInv
<1>2. SInv /\ [Running]_vars => SInv'
  BY RunningInv, FileStep DEF SInv, Next
<1> QED
  BY <1>1, <1>2, PTL DEF UninterruptedSpec

-----------------------------------------------------------------------------
(* The mapping                                                             *)

\* What a client can see of a list: the texts of its live slots
Table(list) == [s \in Live(list) |-> TextOf(list[s])]

\* While ids are indices, the commands by id are those by slot.
LEMMA CommandsBySlot ==
  ASSUME NEW list, IdIsSlot(list)
  PROVE  Commands(list) = Table(list)
<1>1. {list[s].id : s \in Live(list)} = Live(list)
  BY DEF IdIsSlot
<1>2. ASSUME NEW id \in Live(list)
      PROVE  (CHOOSE s \in Slots : list[s].id = id) = id
  <2> DEFINE t == CHOOSE s \in Slots : list[s].id = id
  <2>1. id \in Slots /\ list[id].id = id /\ list[id].id >= 0
    BY DEF IdIsSlot, Live
  <2>2. t \in Slots /\ list[t].id = id
    BY <2>1
  <2> HIDE DEF t
  <2>3. t \in Live(list)
    BY <2>1, <2>2 DEF Live
  <2>4. t = id
    BY <2>2, <2>3 DEF IdIsSlot
  <2> QED
    BY <2>4 DEF t
<1> DEFINE SlotOf(id) == CHOOSE s \in Slots : list[s].id = id
<1>3. Commands(list) = [id \in Live(list) |-> TextOf(list[SlotOf(id)])]
  BY <1>1, Zenon DEF Commands
<1>4. \A id \in Live(list) : SlotOf(id) = id
  BY <1>2
<1> HIDE DEF SlotOf
<1> QED
  BY <1>3, <1>4 DEF Table

\* Each live slot has its place in the order of their index.
LEMMA VisitsAll ==
  ASSUME NEW list, NEW v \in Visits(list), NEW s \in Live(list)
  PROVE  \E p \in DOMAIN v : v[p] = s
<1> DEFINE L == Live(list)
           n == Cardinality(L)
<1>1. n \in Nat /\ IsFiniteSet(L) /\ L \subseteq Int
  BY LiveFinite, ListAssumption DEF Live, Slots
<1>2. v \in [1..n -> L] /\ \A p, q \in 1..n : p < q => v[p] < v[q]
  BY DEF Visits
<1>3. v \in Injection(1..n, L)
  BY <1>1, <1>2 DEF Injection, IsInjective
<1>4. IsFiniteSet(1..n) /\ Cardinality(1..n) = n
  BY <1>1, FS_Interval
<1>5. v \in Surjection(1..n, L)
  BY <1>1, <1>3, <1>4, FS_Injection
<1> QED
  BY <1>5 DEF Surjection

\* So has each command of a text of the list.
LEMMA CommandsOfText ==
  ASSUME NEW list, IdIsSlot(list), NEW text \in ListTexts(list)
  PROVE  CommandsIn(text) = Table(list)
<1>1. PICK v \in Visits(list) : text = [p \in DOMAIN v |-> TextOf(list[v[p]])]
  BY DEF ListTexts
<1>2. DOMAIN text = DOMAIN v /\ \A p \in DOMAIN v : v[p] \in Live(list)
  BY <1>1 DEF Visits
<1>3. ASSUME NEW p \in DOMAIN v
      PROVE  text[p] = TextOf(list[v[p]]) /\ text[p].id = v[p]
  BY <1>1, <1>2, <1>3 DEF IdIsSlot, TextOf
<1>4. {text[p].id : p \in DOMAIN text} = Live(list)
  BY <1>2, <1>3, VisitsAll
<1>5. ASSUME NEW id \in Live(list)
      PROVE  text[CHOOSE p \in DOMAIN text : text[p].id = id] = TextOf(list[id])
  <2> DEFINE q == CHOOSE p \in DOMAIN text : text[p].id = id
  <2>1. \E p \in DOMAIN text : text[p].id = id
    BY <1>2, <1>3, VisitsAll
  <2>2. q \in DOMAIN text /\ text[q].id = id
    BY <2>1
  <2> HIDE DEF q
  <2>3. text[q] = TextOf(list[id])
    BY <1>2, <1>3, <2>2
  <2> QED
    BY <2>3 DEF q
<1> DEFINE Found(id) == text[CHOOSE p \in DOMAIN text : text[p].id = id]
<1>6. CommandsIn(text) = [id \in Live(list) |-> Found(id)]
  BY <1>4, Zenon DEF CommandsIn
<1>7. \A id \in Live(list) : Found(id) = TextOf(list[id])
  BY <1>5
<1> HIDE DEF Found
<1> QED
  BY <1>6, <1>7 DEF Table

\* An empty text has no commands.
LEMMA NothingInNoText == CommandsIn(<<>>) = Store!Empty
<1>1. {<<>>[p].id : p \in DOMAIN <<>>} = {}
  OBVIOUS
<1> QED
  BY <1>1 DEF CommandsIn, Store!Empty

\* As jobs run live commands, and those have their index for an id:
LEMMA ScheduledBySlot ==
  ASSUME NEW list, NEW js, IdIsSlot(list), \A j \in js : j.slot \in Live(list)
  PROVE  ScheduledIds(list, js) = {j.slot : j \in js}
  BY DEF ScheduledIds, IdIsSlot

-----------------------------------------------------------------------------
(* One request                                                             *)

\* A save that goes well leaves the text of the list; any other leaves the
\* old text or none, and is answered as such.
LEMMA SavedOrTold ==
  ASSUME TypeOK, Printed(command_cfg.text), NEW list, ListOK(list),
         NEW request \in {"POST", "PUT", "DELETE"}, NEW texts,
         SaveAndReply(request, list, texts)
  PROVE  \/ /\ command_cfg'.text \in ListTexts(list)
            /\ Outcome(reply'.status) = "done"
         \/ /\ command_cfg'.text \in {command_cfg.text, <<>>}
            /\ Outcome(reply'.status) = "not_saved"
<1>1. PICK save \in command_list_save(list) :
        /\ command_cfg' = save.file
        /\ save.ok => reply'.status \in {"OK", "HEAP"}
        /\ ~save.ok => reply'.status = "NOT_SAVED"
  BY DEF SaveAndReply, Says
<1>2. list \in [Slots -> Command]
  BY DEF ListOK
<1>3. \/ save.ok /\ MayLookUpdated(list) /\ save.file = command_cfg
      \/ save.ok /\ \E t \in ListTexts(list) : save.file = Holding(t)
      \/ ~save.ok /\ save.file \in {command_cfg, Unreadable}
  BY DEF command_list_save
<1>4. CASE save.ok /\ MayLookUpdated(list) /\ save.file = command_cfg
  BY <1>1, <1>2, <1>4, LooksUpdatedIsUpdated DEF Outcome
<1>5. CASE save.ok /\ \E t \in ListTexts(list) : save.file = Holding(t)
  BY <1>1, <1>5 DEF Holding, Outcome
<1>6. CASE ~save.ok /\ save.file \in {command_cfg, Unreadable}
  BY <1>1, <1>6 DEF Unreadable, Outcome
<1> QED
  BY <1>3, <1>4, <1>5, <1>6

\* the slots whose commands cron runs
JobSlots(js) == {j.slot : j \in js}

\* What the variables of the store are in a state of the list
LEMMA MappedTo ==
  ASSUME SInv
  PROVE  /\ Commands(command_list) = Table(command_list)
         /\ ScheduledIds(command_list, jobs) = JobSlots(jobs)
<1>1. IdIsSlot(command_list) /\ TypeOK /\ JobsMatchCommands
  BY DEF SInv, UInv, IInv
<1>2. \A j \in jobs : j.slot \in Live(command_list)
  BY <1>1 DEF TypeOK, Job, JobsMatchCommands, Live
<1> QED
  BY <1>1, <1>2, CommandsBySlot, ScheduledBySlot DEF JobSlots

\* After a step, too, the mapping is the table of the list and the slots of the jobs.
LEMMA MappedToNext ==
  ASSUME SInv'
  PROVE  /\ Commands(command_list)' = Table(command_list')
         /\ ScheduledIds(command_list, jobs)' = JobSlots(jobs')
<1>1. /\ IdIsSlot(command_list') /\ TypeOK' /\ JobsMatchCommands'
  BY DEF SInv, UInv, IInv, IdIsSlot, Live
<1>2. \A j \in jobs' : j.slot \in Live(command_list')
  BY <1>1 DEF TypeOK, Job, JobsMatchCommands, Live
<1>3. Commands(command_list') = Table(command_list')
  BY <1>1, CommandsBySlot
<1>4. ScheduledIds(command_list', jobs') = JobSlots(jobs')
  BY <1>1, <1>2, ScheduledBySlot DEF JobSlots
<1> QED
  BY <1>3, <1>4 DEF Commands, ScheduledIds, Live

\* A request that changes one slot changes one command of the store.
LEMMA ChangesOne ==
  ASSUME SInv, SInv', NEW s \in Slots,
         SameBut(s, command_list, command_list'),
         NEW request \in {"POST", "PUT", "DELETE"}, NEW texts,
         SaveAndReply(request, command_list', texts),
         \/ JobSlots(jobs') = JobSlots(jobs) \ {s}
         \/ /\ s \in Live(command_list') /\ command_list'[s].enabled
            /\ JobSlots(jobs') = JobSlots(jobs) \cup {s}
  PROVE  Store!Change(s)
<1>1. /\ TypeOK /\ Printed(command_cfg.text)
      /\ ListOK(command_list') /\ IdIsSlot(command_list')
  BY DEF SInv, UInv, FileInv, IInv, TypeOK, ListOK, IdIsSlot, Live
<1>2. /\ Commands(command_list) = Table(command_list)
      /\ Commands(command_list)' = Table(command_list')
      /\ ScheduledIds(command_list, jobs) = JobSlots(jobs)
      /\ ScheduledIds(command_list, jobs)' = JobSlots(jobs')
  BY MappedTo, MappedToNext
<1>3. Store!Save
  <2>1. \/ /\ command_cfg'.text \in ListTexts(command_list')
           /\ Outcome(reply'.status) = "done"
        \/ /\ command_cfg'.text \in {command_cfg.text, <<>>}
           /\ Outcome(reply'.status) = "not_saved"
    BY <1>1, SavedOrTold
  <2>2. CommandsIn(command_cfg.text)' = CommandsIn(command_cfg'.text)
    BY DEF CommandsIn
  <2>3. Outcome(reply.status)' = Outcome(reply'.status)
    BY DEF Outcome
  <2>4. CASE /\ command_cfg'.text \in ListTexts(command_list')
             /\ Outcome(reply'.status) = "done"
    BY <1>1, <1>2, <2>2, <2>3, <2>4, CommandsOfText DEF Store!Save
  <2>5. CASE /\ command_cfg'.text \in {command_cfg.text, <<>>}
             /\ Outcome(reply'.status) = "not_saved"
    BY <2>2, <2>3, <2>5, NothingInNoText DEF Store!Save
  <2> QED
    BY <2>1, <2>4, <2>5
<1>4. Store!Schedule(s)
  <2>1. s \in Live(command_list') =>
          /\ s \in DOMAIN Table(command_list')
          /\ Table(command_list')[s].enabled = command_list'[s].enabled
    BY DEF Table, TextOf
  <2> QED
    BY <1>2, <2>1 DEF Store!Schedule
<1>5. Store!Rest(Table(command_list'), s) = Store!Rest(Table(command_list), s)
  <2>1. Live(command_list') \ {s} = Live(command_list) \ {s}
    BY DEF SameBut, Live
  <2>2. \A t \in Live(command_list) \ {s} : command_list'[t] = command_list[t]
    BY DEF SameBut, Live
  <2> QED
    BY <2>1, <2>2 DEF Store!Rest, Table
<1> QED
  BY <1>2, <1>3, <1>4, <1>5 DEF Store!Change

-----------------------------------------------------------------------------
(* The refinement                                                          *)

\* cron_add_job leaves the jobs, or adds one for the slot of a command that
\* is enabled.
LEMMA SchedulingSlots ==
  ASSUME NEW b \in RawBody, NEW js, NEW s, NEW k, NEW new \in Scheduling(b, js, s, k)
  PROVE  \/ JobSlots(new.jobs) = JobSlots(js)
         \/ b.enabled /\ JobSlots(new.jobs) = JobSlots(js) \cup {s}
  BY SchedulingCases DEF JobSlots

\* Only enabled commands that are listed have jobs.
LEMMA JobSlotsAreLive ==
  ASSUME IInv PROVE JobSlots(jobs) \subseteq Live(command_list)
  BY DEF IInv, TypeOK, Job, JobsMatchCommands, JobSlots, Live

\* Descheduling takes one slot from those that have jobs.
LEMMA DescheduledSlots ==
  ASSUME IInv, NEW s \in Live(command_list)
  PROVE  JobSlots(Descheduled(s)) = JobSlots(jobs) \ {s}
<1>1. AgreeBut(s, command_list, Descheduled(s)) /\ Descheduled(s) \subseteq jobs
  BY DescheduledAgrees DEF IInv
<1>2. ASSUME NEW j \in jobs, j.slot # s PROVE j.slot \in JobSlots(Descheduled(s))
  <2>1. /\ j.slot \in Live(command_list) \ {s}
        /\ command_list[j.slot].enabled /\ command_list[j.slot].job_id > 0
    BY <1>2, JobFacts, JobSlotsAreLive DEF JobSlots
  <2>2. PICK k \in Descheduled(s) : k.slot = j.slot
    BY <1>1, <2>1 DEF AgreeBut
  <2> QED
    BY <2>2 DEF JobSlots
<1> QED
  BY <1>1, <1>2 DEF AgreeBut, JobSlots

LEMMA CreateAdds ==
  ASSUME SInv, SInv', NEW b \in RawBody, Accepted(b), NEW s \in Free(command_list),
         NEW new \in Scheduling(b, jobs, s, command_list[s].job_id),
         command_create(b, s, new)
  PROVE  Store!Add
<1>1. IInv /\ TypeOK
  BY DEF SInv, UInv, IInv
<1>2. /\ s \in Slots /\ SameBut(s, command_list, command_list')
      /\ command_list'[s].id = s /\ command_list'[s].enabled = b.enabled
  BY <1>1, ListAfterCreate
<1>3. s \in Live(command_list') /\ s \notin Live(command_list)
  <2>1. command_list[s].id < 0
    BY DEF Free
  <2>2. command_list[s].id \in Slots \cup {-1}
    BY <1>1, <1>2 DEF TypeOK, Command
  <2>3. s >= 0
    BY <1>2, ListAssumption DEF Slots
  <2>4. ~(command_list[s].id >= 0)
    BY <2>1, <2>2, ListAssumption DEF Slots
  <2> QED
    BY <1>2, <2>3, <2>4 DEF Live
<1>4. jobs' = new.jobs /\ SaveAndReply("POST", command_list', OneText(command_list', s))
  BY DEF command_create
<1>5. s \notin JobSlots(jobs)
  BY <1>1, <1>3, JobSlotsAreLive
<1>6. Store!Change(s)
  BY <1>2, <1>3, <1>4, <1>5, SchedulingSlots, ChangesOne
<1>7. s \in Slots \ DOMAIN Commands(command_list) /\ s \in DOMAIN Commands(command_list)'
  BY <1>2, <1>3, MappedTo, MappedToNext DEF Table
<1> QED
  BY <1>6, <1>7 DEF Store!Add

LEMMA UpdateReplaces ==
  ASSUME SInv, SInv', NEW b \in RawBody, Accepted(b), NEW s \in Live(command_list),
         NEW new \in Scheduling(b, Descheduled(s), s, command_list[s].job_id),
         command_update(s, b, s, new)
  PROVE  Store!Replace
<1>1. IInv /\ TypeOK
  BY DEF SInv, UInv, IInv
<1>2. /\ s \in Slots /\ SameBut(s, command_list, command_list')
      /\ command_list'[s].id = command_list[s].id
      /\ command_list'[s].enabled = b.enabled
  BY <1>1, ListAfterUpdate
<1>3. s \in Live(command_list')
  BY <1>2 DEF Live
<1>4. jobs' = new.jobs /\ SaveAndReply("PUT", command_list', OneText(command_list', s))
  BY DEF command_update
<1>5. JobSlots(Descheduled(s)) = JobSlots(jobs) \ {s}
  BY <1>1, DescheduledSlots
<1>6. \/ JobSlots(jobs') = JobSlots(jobs) \ {s}
      \/ b.enabled /\ JobSlots(jobs') = JobSlots(jobs) \cup {s}
  <2>1. (JobSlots(jobs) \ {s}) \cup {s} = JobSlots(jobs) \cup {s}
    OBVIOUS
  <2> QED
    BY <1>4, <1>5, <2>1, SchedulingSlots
<1>7. Store!Change(s)
  BY <1>2, <1>3, <1>4, <1>6, ChangesOne
<1>8. s \in DOMAIN Commands(command_list) /\ s \in DOMAIN Commands(command_list)'
  BY <1>3, MappedTo, MappedToNext DEF Table
<1> QED
  BY <1>7, <1>8 DEF Store!Replace

LEMMA DeleteRemoves ==
  ASSUME SInv, SInv', NEW s \in Live(command_list), command_delete(s)
  PROVE  Store!Remove
<1>1. IInv /\ TypeOK
  BY DEF SInv, UInv, IInv
<1>2. /\ s \in Slots /\ SameBut(s, command_list, command_list')
      /\ Live(command_list') = Live(command_list) \ {s}
  BY <1>1, ListAfterDelete
<1>3. /\ jobs' = Descheduled(s)
      /\ SaveAndReply("DELETE", command_list', {<<>>})
  BY DEF command_delete
<1>4. JobSlots(jobs') = JobSlots(jobs) \ {s}
  BY <1>1, <1>3, DescheduledSlots
<1>5. Store!Change(s)
  BY <1>2, <1>3, <1>4, ChangesOne
<1>6. s \in DOMAIN Commands(command_list) /\ s \notin DOMAIN Commands(command_list)'
  BY <1>2, MappedTo, MappedToNext DEF Table
<1> QED
  BY <1>5, <1>6 DEF Store!Remove

\* What does not change the list says nothing of a failed save.
LEMMA LooksLook ==
  ASSUME TypeOK', UNCHANGED <<command_list, jobs, command_cfg>>,
         reply'.status # "NOT_SAVED"
  PROVE  Store!Look
<1>1. reply'.status \in {"none", "OK", "BAD_REQUEST", "HEAP"}
  BY DEF TypeOK, Reply
<1>2. Outcome(reply'.status) \in {"none", "done", "refused"}
  BY <1>1 DEF Outcome
<1>3. Outcome(reply.status)' = Outcome(reply'.status)
  BY DEF Outcome
<1>4. UNCHANGED <<Commands(command_list), ScheduledIds(command_list, jobs),
                  CommandsIn(command_cfg.text)>>
  BY DEF Commands, ScheduledIds, CommandsIn, Live
<1> QED
  BY <1>2, <1>3, <1>4 DEF Store!Look

\* Each step is one of the store, or changes nothing of it.
LEMMA StepsRefine ==
  ASSUME SInv, SInv', [Running]_vars
  PROVE  [Store!Next]_(Store!vars)
<1>1. TypeOK /\ IdIsSlot(command_list) /\ TypeOK'
  BY DEF SInv, UInv, IInv
<1>2. CASE Running
  BY <1>1, <1>2, RunningCases, LooksLook, CreateAdds, UpdateReplaces, DeleteRemoves
  DEF Store!Next
<1>3. CASE UNCHANGED vars
  BY <1>3 DEF vars, Store!vars, Commands, ScheduledIds, CommandsIn, Outcome, Live
<1> QED
  BY <1>2, <1>3

\* To its clients the list is a table of commands by id with a saved copy: each
\* request adds, replaces or removes one command, schedules no other, and is
\* told as done only when the copy is the new table.
THEOREM ListIsAStore == UninterruptedSpec => ImplementsStore
<1>1. Init => Store!Init
  <2> SUFFICES ASSUME Init PROVE Store!Init
    OBVIOUS
  <2>1. Live(command_list) = {}
    <3>1. \A s \in Slots : command_list[s].id = -1
      BY DEF Init, BlankCommand
    <3> QED
      BY <3>1 DEF Live
  <2>2. Commands(command_list) = Store!Empty
    BY <2>1 DEF Commands, Store!Empty
  <2>3. CommandsIn(command_cfg.text) = Store!Empty
    BY NothingInNoText DEF Init, Absent
  <2>4. ScheduledIds(command_list, jobs) = {}
    BY DEF Init, ScheduledIds
  <2>5. Outcome(reply.status) = "none"
    BY DEF Init, NoReply, Outcome
  <2> QED
    BY <2>2, <2>3, <2>4, <2>5 DEF Store!Init
<1>2. SInv /\ SInv' /\ [Running]_vars => [Store!Next]_(Store!vars)
  BY StepsRefine
<1> QED
  BY <1>1, <1>2, StoreInvariant, PTL DEF UninterruptedSpec, ImplementsStore, Store!Spec
=============================================================================
