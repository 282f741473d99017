---------------------------- MODULE CommandPage ----------------------------
(***************************************************************************)
(* The page of commands (web/home.js) and the device it asks, for one user *)
(* and one browser: the table, the form, and what becomes of both when     *)
(* answers are late, lost or refused.                                      *)
(*                                                                         *)
(* The device is a table of commands by id (CommandStore); a command is    *)
(* abstracted to its contents, what the form makes of them is CommandForm. *)
(***************************************************************************)
EXTENDS WebPage

CONSTANTS
  Ids,        \* the ids of commands
  Contents,   \* what a command may say
  Blank       \* what the form of a new command says first

ASSUME CommandPageAssumption ==
  Ids \subseteq Nat /\ Blank \in Contents /\ "none" \notin Contents

VARIABLES
  commands,     \* the device's commands, "none" for an id not in use
  table,        \* #commands_table
  current_id,
  form          \* #commandModal

ownVars == <<commands, table, current_id, form>>
vars == <<pageVars, ownVars>>

NewCommand == -1
User == -2
NoCommands == [i \in Ids |-> "none"]

\* The contents a form shows are those of a command, or a new one's, or what
\* the user has made of them; a command may have been made from them. What a
\* hidden form holds is left out: it is filled before it is shown.
Sources == Ids \cup {NewCommand, User}

Hidden == [shown |-> FALSE, of |-> NewCommand, content |-> Blank, made |-> FALSE]
Filled(i, content) ==
  [shown |-> TRUE, of |-> i, content |-> content, made |-> FALSE]

Query(do, id, content, opens) ==
  [do |-> do, id |-> id, content |-> content, opens |-> opens]

ListQuery == Query("list", NewCommand, "none", FALSE)
FetchQuery(i, opens) == Query("fetch", i, "none", opens)

Changes(n) == network[n].query.do \notin {"list", "fetch"}

-----------------------------------------------------------------------------
(* The device                                                              *)

\* the commands after a request, and whether it may be done at all
Done(q) ==
  CASE q.do = "put"    -> [commands EXCEPT ![q.id] = q.content]
    [] q.do = "delete" -> [commands EXCEPT ![q.id] = "none"]
    [] q.do = "post"   ->
         LET free == {i \in Ids : commands[i] = "none"}
         IN  [commands EXCEPT ![CHOOSE i \in free : \A j \in free : i <= j] =
                q.content]
    [] OTHER -> commands

CanBeDone(q) ==
  CASE q.do = "post" -> \E i \in Ids : commands[i] = "none"
    [] q.do = "list" -> TRUE
    [] OTHER -> commands[q.id] # "none"

\* what the answer shows of the commands
Shown(q) ==
  [i \in Ids |-> IF q.do = "list" \/ (q.do = "fetch" /\ q.id = i)
                   THEN commands[i] ELSE "none"]

\* The device serves a request, or refuses it and does nothing, or does it and
\* answers that it is not saved.
Serve(n) ==
  /\ n \in InNetwork /\ network[n].stage = "sent"
  /\ LET q == network[n].query
     IN  \/ /\ CanBeDone(q)
            /\ commands' = Done(q)
            /\ network' \in {Served(n, Shown(q)), Refused(n)}
            /\ form' = [form EXCEPT !.made = form.shown /\ (@ \/ q.do = "post")]
         \/ /\ network' = Refused(n)
            /\ UNCHANGED <<commands, form>>
  /\ UNCHANGED <<spinner, hides, doubt, table, current_id>>

-----------------------------------------------------------------------------
(* What the user does                                                      *)

Doubted == DoubtedBut({})

\* a click on the page, which the form covers
OnPage == Clickable /\ ~form.shown
Click == OnPage /\ doubt' = Doubted

\* a click in the form
ClickInForm == Clickable /\ form.shown /\ doubt' = Doubted

\* The list is asked for, in a network: what was in doubt is settled by it if
\* nothing else is under way that changes the device or the page.
AskForList(net, doubted) ==
  /\ network' = Asking(net, ListQuery)
  /\ doubt' = IF DOMAIN net = {} /\ hides = 0 /\ spinner' /\ ~form'.shown
                 THEN FALSE ELSE doubted

\* goto("home"), and what home.js does when it is loaded
GotoHome ==
  /\ OnPage /\ Room
  /\ spinner' = TRUE
  /\ table' = NoCommands
  /\ form' = Hidden
  /\ AskForList(network, Doubted)
  /\ UNCHANGED <<hides, commands, current_id>>

Refresh ==
  /\ OnPage /\ Room
  /\ spinner' = TRUE
  /\ UNCHANGED <<hides, commands, table, current_id, form>>
  /\ AskForList(network, Doubted)

\* Mutant: the id of the command is not kept
modify_command_anonymous(i) ==
  /\ Click /\ Room
  /\ table[i] # "none"
  /\ network' = Asking(network, FetchQuery(i, TRUE))
  /\ UNCHANGED <<spinner, hides, commands, table, current_id, form>>

\* The form is shown when the command has come; the page is not blocked while
\* it is awaited.
modify_command(i) ==
  /\ Click /\ Room
  /\ table[i] # "none"
  /\ current_id' = i
  /\ network' = Asking(network, FetchQuery(i, TRUE))
  /\ UNCHANGED <<spinner, hides, commands, table, form>>

\* a confirmed delete
delete_command(i) ==
  /\ Click /\ Room
  /\ table[i] # "none"
  /\ spinner' = TRUE
  /\ network' = Asking(network, Query("delete", i, "none", FALSE))
  /\ UNCHANGED <<hides, commands, table, current_id, form>>

add_command ==
  /\ Click
  /\ current_id' = NewCommand
  /\ form' = Filled(NewCommand, Blank)
  /\ UNCHANGED <<spinner, hides, network, commands, table>>

\* the user changes the form
Edit(c) ==
  /\ Clickable /\ form.shown
  /\ c # form.content
  /\ form' = [form EXCEPT !.of = User, !.content = c]
  /\ UNCHANGED <<pageVars, commands, table, current_id>>

Cancel ==
  /\ Clickable /\ form.shown
  /\ form' = Hidden
  /\ UNCHANGED <<pageVars, commands, table, current_id>>

\* the button is disabled for a new command
ResetForm ==
  /\ ClickInForm /\ Room
  /\ current_id # NewCommand
  /\ network' = Asking(network, FetchQuery(current_id, FALSE))
  /\ UNCHANGED <<spinner, hides, commands, table, current_id, form>>

\* Nothing keeps the user from pressing Save again.
Save ==
  /\ ClickInForm /\ Room
  /\ network' = Asking(network, Query(IF current_id < 0 THEN "post" ELSE "put",
                                      current_id, form.content, FALSE))
  /\ UNCHANGED <<spinner, hides, commands, table, current_id, form>>

-----------------------------------------------------------------------------
(* What the page does with an answer                                       *)

ListArrives(n) ==
  /\ table' = network[n].answer
  /\ network' = Ended(n)
  /\ hides < MAX_HIDES /\ hides' = hides + 1
  /\ UNCHANGED <<spinner, doubt, form>>

\* update_command_idx: the form is filled, whatever it showed
CommandArrives(n) ==
  LET i == network[n].query.id
  IN  /\ form' = IF form.shown \/ network[n].query.opens
                   THEN Filled(i, network[n].answer[i]) ELSE Hidden
      /\ network' = Ended(n)
      /\ UNCHANGED <<spinner, hides, doubt, table>>

\* Mutant: the list is not asked for again
ChangeArrives_trusting(n) ==
  /\ form' = IF network[n].query.do # "delete" THEN Hidden ELSE form
  /\ network' = Ended(n)
  /\ hides < MAX_HIDES /\ hides' = hides + 1
  /\ UNCHANGED <<spinner, doubt, table>>

\* Mutant: the form stays after a save
ChangeArrives_keepsForm(n) ==
  /\ spinner' = TRUE
  /\ UNCHANGED <<hides, table, form>>
  /\ AskForList(Ended(n), doubt)

\* a command has been saved or deleted: the list is asked for again
ChangeArrives(n) ==
  LET saved == network[n].query.do # "delete"
  IN  /\ form' = IF saved THEN Hidden ELSE form
      /\ spinner' = (saved \/ spinner)
      /\ AskForList(Ended(n), doubt)
      /\ UNCHANGED <<hides, table>>

Arrive(n) ==
  /\ n \in Awaited /\ network[n].stage = "answered"
  /\ CASE network[n].query.do = "list"  -> ListArrives(n)
       [] network[n].query.do = "fetch" -> CommandArrives(n)
       [] OTHER -> ChangeArrives(n)
  /\ UNCHANGED <<commands, current_id>>

\* the ends of a request that bring no answer, and the spinner's timers
GiveUp(n) == Fail(n, Changes(n)) /\ UNCHANGED ownVars
NeverServed(n) == Lose(n) /\ UNCHANGED ownVars
Hide == HideTimer /\ UNCHANGED ownVars

-----------------------------------------------------------------------------

\* home.js has been loaded
Init ==
  /\ spinner = TRUE /\ hides = 0 /\ doubt = FALSE
  /\ network = Asking(<<>>, ListQuery)
  /\ commands \in [Ids -> Contents \cup {"none"}]
  /\ table = NoCommands
  /\ current_id = NewCommand
  /\ form = Hidden

UserStep ==
  \/ GotoHome
  \/ Refresh
  \/ \E i \in Ids : modify_command(i) \/ delete_command(i)
  \/ add_command
  \/ \E c \in Contents : Edit(c)
  \/ Cancel
  \/ ResetForm
  \/ Save

Next ==
  \/ UserStep
  \/ \E n \in Numbers : Serve(n) \/ Arrive(n) \/ GiveUp(n) \/ NeverServed(n)
  \/ Hide

Spec == Init /\ [][Next]_vars

-----------------------------------------------------------------------------
(* Properties                                                              *)

\* When nothing is under way, the table is the device's list of commands, but
\* after an alert, or a click while an answer was awaited, that no list has
\* followed.
TableIsTrue ==
  InNetwork = {} /\ ~doubt => table = commands

\* The contents the form shows for a command are those of the command that
\* Save will change.
FormIsTrue ==
  form.shown /\ form.of \in Ids /\ ~doubt =>
    form.of = current_id /\ form.content = commands[current_id]

\* A command is made twice from one form only if the user was told that the
\* first attempt failed, or did not wait for its answer.
CreatedOnce ==
  [][form.made /\ (\E i \in Ids : commands[i] = "none" /\ commands'[i] # "none")
       => doubt]_vars
=============================================================================
