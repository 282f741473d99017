------------------------- MODULE CommandPageProofs -------------------------
(***************************************************************************)
(* Theorems about the page of commands: what it shows is what the device   *)
(* has, and a form makes one command. As long as the user has no reason to *)
(* doubt the page, it is in one of a few situations.                       *)
(***************************************************************************)
EXTENDS CommandPage, TLAPS

-----------------------------------------------------------------------------
(* The inductive invariant                                                 *)

\* The form shows the command that is being changed, and has made none.
FormIsCurrent ==
  /\ form.shown /\ form.of \in Ids =>
       form.of = current_id /\ form.content = commands[current_id]
  /\ ~form.made

\* Nothing is under way: the list has just come, or the user may go on.
Loaded ==
  InNetwork = {} /\ spinner /\ hides = 1 /\ ~form.shown /\ table = commands
Idle ==
  InNetwork = {} /\ ~spinner /\ hides = 0 /\ table = commands /\ FormIsCurrent

\* One request is under way, and its answer is awaited.
Request == network[1]

Waiting ==
  /\ InNetwork = {1} /\ hides = 0 /\ Request.awaited
  /\ Request.stage \in {"sent", "answered", "refused"}
  /\ Request.stage = "sent" =>
       Request = [query |-> Request.query, stage |-> "sent", awaited |-> TRUE]

Loading ==
  /\ Waiting /\ Request.query = ListQuery
  /\ spinner /\ ~form.shown
  /\ Request.stage = "answered" => Request.answer = commands

Fetching ==
  /\ Waiting /\ \E o \in BOOLEAN : Request.query = FetchQuery(current_id, o)
  /\ current_id \in Ids
  /\ ~spinner /\ table = commands /\ FormIsCurrent
  /\ Request.stage = "answered" =>
       Request.answer[current_id] = commands[current_id]

Deleting ==
  /\ Waiting /\ Request.query.do = "delete"
  /\ spinner /\ ~form.shown

\* A command is made of a form that did not come from another.
Creating ==
  /\ Waiting /\ Request.query.do = "post"
  /\ form.shown => form.of \notin Ids
  /\ form.made => Request.stage # "sent"

\* A form that the user has not touched since is saved as it was.
Changing ==
  /\ Waiting /\ Request.query.do = "put" /\ Request.query.id = current_id
  /\ current_id \in Ids
  /\ FormIsCurrent
  /\ form.shown /\ form.of \in Ids => Request.query.content = form.content

Trusted ==
  Loading \/ Loaded \/ Idle \/ Fetching \/ Deleting \/ Creating \/ Changing

Shape ==
  /\ commands = [i \in Ids |-> commands[i]]
  /\ hides \in Nat /\ spinner \in BOOLEAN /\ doubt \in BOOLEAN
  /\ current_id \in Ids \cup {NewCommand}
  /\ \E b, c \in BOOLEAN : form = [shown |-> b, of |-> form.of,
                                   content |-> form.content, made |-> c]
  /\ ~form.shown => form = Hidden

PageInv == Shape /\ (~doubt => Trusted)

-----------------------------------------------------------------------------
(* The network                                                             *)

Sent(query) == [query |-> query, stage |-> "sent", awaited |-> TRUE]

\* A request that finds the network empty is number 1.
LEMMA AskingFirst ==
  ASSUME NEW net, DOMAIN net = {}, NEW query
  PROVE  Asking(net, query) = [n \in {1} |-> Sent(query)]
<1> DEFINE free == Numbers \ DOMAIN net
           new == CHOOSE n \in free : \A m \in free : n <= m
<1>1. 1 \in free /\ \A m \in free : 1 <= m
  BY PageAssumption DEF Numbers
<1>2. \A n \in free : (\A m \in free : n <= m) => n = 1
  BY <1>1 DEF Numbers
<1>3. new = 1
  BY <1>1, <1>2
<1> HIDE DEF new
<1>4. Asking(net, query) = [n \in DOMAIN net \cup {new} |->
         IF n = new THEN Sent(query) ELSE net[n]]
  BY DEF Asking, Sent, new
<1> QED
  BY <1>3, <1>4

\* What the queries of the page ask for
LEMMA WhatIsAsked ==
  /\ ListQuery.do = "list"
  /\ \A i, o : FetchQuery(i, o).do = "fetch" /\ FetchQuery(i, o).id = i
  BY DEF ListQuery, FetchQuery, Query

\* The request that was awaited alone leaves nothing behind.
LEMMA EndedAlone ==
  ASSUME Waiting
  PROVE  DOMAIN Ended(1) = {}
  BY DEF Waiting, Ended

\* A click leaves no doubt only if nothing was under way.
LEMMA QuietClick ==
  ASSUME PageInv, Clickable, ~Doubted
  PROVE  ~doubt /\ Idle
<1>1. ~doubt /\ Awaited = {}
  BY DEF Doubted, DoubtedBut
<1>2. ~Waiting
  BY <1>1 DEF Waiting, Awaited, Request
<1> QED
  BY <1>1, <1>2 DEF PageInv, Trusted, Loaded, Loading, Fetching, Deleting,
                    Creating, Changing, Clickable

\* A request that is the only one is what the page waits for.
LEMMA WaitingAgain ==
  ASSUME NEW query, network' = [n \in {1} |-> Sent(query)], hides' = 0
  PROVE  Waiting' /\ Request' = Sent(query)
  BY DEF Waiting, Request, Sent, InNetwork

\* Once the list has been asked for and nothing else is under way, all doubts
\* are settled.
LEMMA ListSettles ==
  ASSUME NEW net, DOMAIN net = {}, NEW doubted,
         AskForList(net, doubted), hides = 0, spinner', ~form'.shown, UNCHANGED hides
  PROVE  Loading'
<1>1. network' = [n \in {1} |-> Sent(ListQuery)]
  BY AskingFirst DEF AskForList
<1>2. Waiting' /\ Request' = Sent(ListQuery)
  BY <1>1, WaitingAgain
<1> QED
  BY <1>2 DEF Loading, Sent

-----------------------------------------------------------------------------
(* The steps                                                               *)

\* The shape of the network goes with what it is about.
LEMMA ShapeKept ==
  ASSUME Shape, UNCHANGED <<spinner, doubt, commands, current_id, form>>,
         hides' \in Nat
  PROVE  Shape'
  BY DEF Shape, Hidden

\* Each step of the user keeps the invariant,
LEMMA GotoHomeInv ==
  ASSUME PageInv, GotoHome
  PROVE  PageInv'
<1>1. Shape'
  BY DEF PageInv, Shape, GotoHome, Hidden, AskForList, Doubted, DoubtedBut
<1>2. ASSUME ~doubt'
      PROVE  Loading'
  <2>1. DOMAIN network = {} /\ hides = 0
    <3>1. CASE ~Doubted
      BY <3>1, QuietClick DEF GotoHome, OnPage, Idle, InNetwork
    <3>2. CASE Doubted
      BY <1>2, <3>2 DEF GotoHome, AskForList
    <3> QED
      BY <3>1, <3>2
  <2>2. spinner' /\ ~form'.shown
    BY DEF GotoHome, Hidden
  <2> QED
    BY <2>1, <2>2, ListSettles DEF GotoHome
<1> QED
  BY <1>1, <1>2 DEF PageInv, Trusted

LEMMA RefreshInv ==
  ASSUME PageInv, Refresh
  PROVE  PageInv'
<1>1. Shape'
  BY DEF PageInv, Shape, Refresh, Hidden, AskForList, Doubted, DoubtedBut
<1>2. ASSUME ~doubt'
      PROVE  Loading'
  <2>1. DOMAIN network = {} /\ hides = 0
    <3>1. CASE ~Doubted
      BY <3>1, QuietClick DEF Refresh, OnPage, Idle, InNetwork
    <3>2. CASE Doubted
      BY <1>2, <3>2 DEF Refresh, AskForList
    <3> QED
      BY <3>1, <3>2
  <2>2. spinner' /\ ~form'.shown
    BY DEF Refresh, OnPage
  <2> QED
    BY <2>1, <2>2, ListSettles DEF Refresh
<1> QED
  BY <1>1, <1>2 DEF PageInv, Trusted

LEMMA modify_commandInv ==
  ASSUME PageInv, NEW i \in Ids, modify_command(i)
  PROVE  PageInv'
<1>1. Shape'
  BY DEF PageInv, Shape, modify_command, Click, Hidden, Doubted, DoubtedBut
<1>2. ASSUME ~doubt'
      PROVE  Fetching'
  <2>1. Idle
    BY <1>2, QuietClick DEF modify_command, Click, OnPage
  <2>2. network' = [n \in {1} |-> Sent(FetchQuery(i, TRUE))]
    BY <2>1, AskingFirst DEF modify_command, Idle, InNetwork
  <2>3. Waiting' /\ Request' = Sent(FetchQuery(i, TRUE))
    BY <2>1, <2>2, WaitingAgain DEF modify_command, Idle
  <2>4. FormIsCurrent'
    BY <2>1 DEF modify_command, Click, OnPage, Idle, FormIsCurrent
  <2>5. Request'.query = FetchQuery(current_id', TRUE) /\ Request'.stage = "sent"
    BY <2>3 DEF Sent, modify_command
  <2> QED
    BY <2>1, <2>3, <2>4, <2>5 DEF Fetching, modify_command, Idle
<1> QED
  BY <1>1, <1>2 DEF PageInv, Trusted

LEMMA delete_commandInv ==
  ASSUME PageInv, NEW i \in Ids, delete_command(i)
  PROVE  PageInv'
<1>1. Shape'
  BY DEF PageInv, Shape, delete_command, Click, Hidden, Doubted, DoubtedBut
<1>2. ASSUME ~doubt'
      PROVE  Deleting'
  <2> DEFINE q == Query("delete", i, "none", FALSE)
  <2>1. Idle
    BY <1>2, QuietClick DEF delete_command, Click, OnPage
  <2>2. network' = [n \in {1} |-> Sent(q)]
    BY <2>1, AskingFirst DEF delete_command, Idle, InNetwork
  <2>3. Waiting' /\ Request' = Sent(q)
    BY <2>1, <2>2, WaitingAgain DEF delete_command, Idle
  <2> QED
    BY <2>3 DEF Deleting, delete_command, Click, OnPage, Sent, Query
<1> QED
  BY <1>1, <1>2 DEF PageInv, Trusted

LEMMA add_commandInv ==
  ASSUME PageInv, add_command
  PROVE  PageInv'
<1>1. Shape'
  BY DEF PageInv, Shape, add_command, Click, Filled, Doubted, DoubtedBut
<1>2. ASSUME ~doubt'
      PROVE  Idle'
  <2>1. Idle
    BY <1>2, QuietClick DEF add_command, Click, OnPage
  <2> QED
    BY <2>1, CommandPageAssumption
    DEF Idle, InNetwork, FormIsCurrent, add_command, Filled, NewCommand
<1> QED
  BY <1>1, <1>2 DEF PageInv, Trusted

\* What the user does to the form alone disturbs nothing under way.
LEMMA EditInv ==
  ASSUME PageInv, NEW c \in Contents, Edit(c)
  PROVE  PageInv'
<1> PICK b, m \in BOOLEAN : form = [shown |-> b, of |-> form.of,
                                   content |-> form.content, made |-> m]
  BY DEF PageInv, Shape
<1>1. form' = [shown |-> b, of |-> User, content |-> c, made |-> m]
  <2>1. PICK o, k : form = [shown |-> b, of |-> o, content |-> k, made |-> m]
    OBVIOUS
  <2>2. form' = [form EXCEPT !.of = User, !.content = c]
    BY DEF Edit
  <2> QED
    BY <2>1, <2>2
<1>2. form'.of = User /\ form'.made = form.made /\ form'.shown = form.shown
  BY <1>1
<1>3. Shape'
  <2>1. form'.shown
    BY <1>2 DEF Edit
  <2>2. \E d, e \in BOOLEAN : form' = [shown |-> d, of |-> form'.of,
                                   content |-> form'.content, made |-> e]
    BY <1>1
  <2> QED
    BY <2>1, <2>2 DEF PageInv, Shape, Edit, pageVars
<1>4. User \notin Ids
  BY CommandPageAssumption DEF User
<1>5. ASSUME ~doubt'
      PROVE  Trusted'
  <2>1. Trusted
    BY <1>5 DEF PageInv, Edit, pageVars
  <2>2. FormIsCurrent => FormIsCurrent'
    BY <1>2, <1>4 DEF FormIsCurrent
  <2>3. (Waiting => Waiting') /\ Request' = Request
    BY DEF Edit, pageVars, Waiting, InNetwork, Request
  <2> QED
    BY <1>2, <1>4, <2>1, <2>2, <2>3
    DEF Edit, Trusted, pageVars, Loading, Loaded, Idle, Fetching, Deleting,
        Creating, Changing, InNetwork
<1> QED
  BY <1>3, <1>5 DEF PageInv

LEMMA CancelInv ==
  ASSUME PageInv, Cancel
  PROVE  PageInv'
<1>1. Shape'
  BY DEF PageInv, Shape, Cancel, pageVars, Hidden
<1>2. ~form'.shown /\ ~form'.made
  BY DEF Cancel, Hidden
<1>3. ASSUME ~doubt'
      PROVE  Trusted'
  <2>1. Trusted
    BY <1>3 DEF PageInv, Cancel, pageVars
  <2>2. FormIsCurrent => FormIsCurrent'
    BY <1>2 DEF FormIsCurrent
  <2>3. (Waiting => Waiting') /\ Request' = Request
    BY DEF Cancel, pageVars, Waiting, InNetwork, Request
  <2> QED
    BY <1>2, <2>1, <2>2, <2>3
    DEF Cancel, Trusted, pageVars, Loading, Loaded, Idle, Fetching, Deleting,
        Creating, Changing, InNetwork
<1> QED
  BY <1>1, <1>3 DEF PageInv

LEMMA ResetFormInv ==
  ASSUME PageInv, ResetForm
  PROVE  PageInv'
<1>1. Shape'
  BY DEF PageInv, Shape, ResetForm, ClickInForm, Hidden, Doubted, DoubtedBut
<1>2. ASSUME ~doubt'
      PROVE  Fetching'
  <2> DEFINE q == FetchQuery(current_id, FALSE)
  <2>1. Idle
    BY <1>2, QuietClick DEF ResetForm, ClickInForm
  <2>2. network' = [n \in {1} |-> Sent(q)]
    BY <2>1, AskingFirst DEF ResetForm, Idle, InNetwork
  <2>3. Waiting' /\ Request' = Sent(q)
    BY <2>1, <2>2, WaitingAgain DEF ResetForm, Idle
  <2>4. current_id' \in Ids
    BY <1>1 DEF Shape, ResetForm
  <2>5. Request'.query = FetchQuery(current_id', FALSE) /\ Request'.stage = "sent"
    BY <2>3 DEF Sent, ResetForm
  <2>6. FormIsCurrent'
    BY <2>1 DEF ResetForm, Idle, FormIsCurrent
  <2> QED
    BY <2>1, <2>3, <2>4, <2>5, <2>6 DEF Fetching, ResetForm, Idle
<1> QED
  BY <1>1, <1>2 DEF PageInv, Trusted

LEMMA SaveInv ==
  ASSUME PageInv, Save
  PROVE  PageInv'
<1>1. Shape'
  BY DEF PageInv, Shape, Save, ClickInForm, Hidden, Doubted, DoubtedBut
<1>2. ASSUME ~doubt'
      PROVE  Creating' \/ Changing'
  <2> DEFINE q == Query(IF current_id < 0 THEN "post" ELSE "put",
                        current_id, form.content, FALSE)
  <2>1. Idle
    BY <1>2, QuietClick DEF Save, ClickInForm
  <2>2. network' = [n \in {1} |-> Sent(q)]
    BY <2>1, AskingFirst DEF Save, Idle, InNetwork
  <2>3. Waiting' /\ Request' = Sent(q)
    <3>1. hides' = 0
      BY <2>1 DEF Save, Idle
    <3> HIDE DEF q
    <3> QED
      BY <2>2, <3>1, WaitingAgain
  <2>4. FormIsCurrent /\ FormIsCurrent'
    BY <2>1 DEF Save, Idle, FormIsCurrent
  <2>5. CASE current_id \in Ids
    <3>1. ~(current_id < 0)
      BY <2>5, CommandPageAssumption
    <3>2. Request'.query = Query("put", current_id, form.content, FALSE)
      BY <2>3, <3>1 DEF Sent
    <3> QED
      BY <2>3, <2>4, <2>5, <3>2 DEF Changing, Save, Query
  <2>6. CASE current_id \notin Ids
    <3>1. current_id = -1
      BY <2>6 DEF PageInv, Shape, NewCommand
    <3>2. Request'.query.do = "post" /\ Request'.stage = "sent"
      BY <2>3, <3>1 DEF Sent, Query
    <3>3. form'.shown => form'.of \notin Ids
      BY <2>4, <2>6 DEF FormIsCurrent, Save
    <3>4. ~form'.made
      BY <2>4 DEF FormIsCurrent
    <3> QED
      BY <2>3, <3>2, <3>3, <3>4 DEF Creating
  <2> QED
    BY <2>5, <2>6
<1> QED
  BY <1>1, <1>2 DEF PageInv, Trusted

-----------------------------------------------------------------------------
(* The device serves a request                                             *)

\* Serving a post alone can make it so that the form has made a command.
LEMMA ServeForm ==
  ASSUME Shape, NEW n, Serve(n)
  PROVE  /\ form'.shown = form.shown /\ form'.of = form.of
         /\ form'.content = form.content /\ form'.made \in BOOLEAN
         /\ form'.made => form.made \/ network[n].query.do = "post"
         /\ \E b, c \in BOOLEAN : form' = [shown |-> b, of |-> form'.of,
                                   content |-> form'.content, made |-> c]
         /\ ~form'.shown => form' = Hidden
<1> DEFINE q == network[n].query
<1>1. CASE UNCHANGED form
  BY <1>1 DEF Shape
<1>2. CASE form' = [form EXCEPT !.made = form.shown /\ (@ \/ q.do = "post")]
  <2>1. PICK b, m \in BOOLEAN : \E o, k :
                form = [shown |-> b, of |-> o, content |-> k, made |-> m]
    BY DEF Shape
  <2>2. PICK o, k : form = [shown |-> b, of |-> o, content |-> k, made |-> m]
    BY <2>1
  <2> DEFINE made == b /\ (m \/ q.do = "post")
  <2>3. form' = [shown |-> b, of |-> o, content |-> k, made |-> made]
    BY <1>2, <2>2, Zenon
  <2>4. made \in BOOLEAN /\ (made => b /\ (m \/ q.do = "post"))
    OBVIOUS
  <2> HIDE DEF made, q
  <2>5. ~b => o = NewCommand /\ k = Blank /\ made = FALSE
    BY <2>2, <2>4, Zenon DEF Shape, Hidden
  <2> QED
    BY <2>2, <2>3, <2>4, <2>5, Zenon DEF Hidden, q
<1> QED
  BY <1>1, <1>2, Zenon DEF Serve

\* and each of the network: a request is served,
LEMMA ServeShape ==
  ASSUME Shape, NEW n, Serve(n)
  PROVE  Shape'
<1> DEFINE q == network[n].query
<1>1. commands' = [i \in Ids |-> commands'[i]]
  <2>1. commands' = commands \/ commands' = Done(q)
    BY DEF Serve
  <2>2. Done(q) = commands \/ \E i, c : Done(q) = [commands EXCEPT ![i] = c]
    BY DEF Done
  <2> HIDE DEF q
  <2>3. \A i, c : LET new == [commands EXCEPT ![i] = c]
                 IN  new = [j \in Ids |-> new[j]]
    BY DEF Shape
  <2> QED
    BY <2>1, <2>2, <2>3 DEF Shape
<1>2. \E b, c \in BOOLEAN : form' = [shown |-> b, of |-> form'.of,
                                   content |-> form'.content, made |-> c]
  BY ServeForm
<1>3. ~form'.shown => form' = Hidden
  BY ServeForm
<1>4. UNCHANGED <<spinner, hides, doubt, current_id>>
  BY DEF Serve
<1> QED
  BY <1>1, <1>2, <1>3, <1>4 DEF Shape

\* A request whose answer is awaited is answered or refused.
LEMMA ServeWaiting ==
  ASSUME Waiting, NEW n, Serve(n)
  PROVE  /\ n = 1 /\ Request.stage = "sent"
         /\ Waiting' /\ Request'.query = Request.query
         /\ Request'.stage \in {"answered", "refused"}
         /\ Request'.stage = "answered" =>
              /\ CanBeDone(Request.query) /\ commands' = Done(Request.query)
              /\ Request'.answer = Shown(Request.query)
<1>1. n = 1 /\ Request.stage = "sent" /\ network[1].awaited
  BY DEF Serve, Waiting, Request
<1> DEFINE q == Request.query
<1>2. \/ network' = Refused(1)
      \/ /\ network' = Served(1, Shown(q))
         /\ CanBeDone(q) /\ commands' = Done(q)
  BY <1>1 DEF Serve, Request
<1>3. network[1] = [query |-> q, stage |-> "sent", awaited |-> TRUE]
  BY <1>1 DEF Waiting, Request
<1>4. DOMAIN network = {1} /\ hides' = 0
  BY DEF Waiting, InNetwork, Serve
<1>5. CASE network' = Refused(1)
  <2>1. network' = [network EXCEPT ![1] = [network[1] EXCEPT !.stage = "refused"]]
    BY <1>1, <1>5 DEF Refused
  <2> HIDE DEF q
  <2>2. network'[1] = [query |-> q, stage |-> "refused", awaited |-> TRUE]
    <3>1. network'[1] = [network[1] EXCEPT !.stage = "refused"]
      BY <1>4, <2>1
    <3>2. [[query |-> q, stage |-> "sent", awaited |-> TRUE]
              EXCEPT !.stage = "refused"]
            = [query |-> q, stage |-> "refused", awaited |-> TRUE]
      <4>1. \A a : [[query |-> q, stage |-> "sent", awaited |-> a]
                      EXCEPT !.stage = "refused"]
                    = [query |-> q, stage |-> "refused", awaited |-> a]
        OBVIOUS
      <4> QED
        BY <4>1, Zenon
    <3> QED
      BY <1>3, <3>1, <3>2, Zenon
  <2>3. DOMAIN network' = {1}
    BY <1>4, <2>1
  <2> QED
    BY <1>1, <1>4, <2>2, <2>3 DEF Waiting, InNetwork, Request, q
<1>6. CASE /\ network' = Served(1, Shown(q))
           /\ CanBeDone(q) /\ commands' = Done(q)
  <2> DEFINE a == Shown(q)
  <2>1. network' = [network EXCEPT ![1] = [query |-> network[1].query,
                      stage |-> "answered", awaited |-> TRUE, answer |-> a]]
    BY <1>1, <1>6 DEF Served
  <2> HIDE DEF a
  <2>2. network'[1] = [query |-> q, stage |-> "answered", awaited |-> TRUE,
                       answer |-> a]
    BY <1>4, <2>1 DEF Request
  <2>3. DOMAIN network' = {1}
    BY <1>4, <2>1
  <2> QED
    BY <1>1, <1>4, <1>6, <2>2, <2>3 DEF Waiting, InNetwork, Request, a
<1> QED
  BY <1>2, <1>5, <1>6

LEMMA ServeInv ==
  ASSUME PageInv, NEW n \in Numbers, Serve(n)
  PROVE  PageInv'
<1>1. Shape'
  BY ServeShape DEF PageInv
<1>2. ASSUME ~doubt'
      PROVE  Trusted'
  <2>1. Trusted /\ Waiting
    BY <1>2 DEF PageInv, Serve, Trusted, Loaded, Idle, Loading, Fetching,
                Deleting, Creating, Changing
  <2> DEFINE q == Request.query
  <2>2. /\ n = 1 /\ Request.stage = "sent"
        /\ Waiting' /\ Request'.query = q
        /\ Request'.stage \in {"answered", "refused"}
        /\ Request'.stage = "answered" =>
             /\ CanBeDone(q) /\ commands' = Done(q)
             /\ Request'.answer = Shown(q)
    BY <2>1, ServeWaiting
  <2>3. /\ form'.shown = form.shown /\ form'.of = form.of
        /\ form'.content = form.content
        /\ form'.made => form.made \/ q.do = "post"
    BY <2>2, ServeForm DEF PageInv, Request
  <2>4. commands' = commands \/ commands' = Done(q)
    BY <2>2 DEF Serve, Request
  <2>5. UNCHANGED <<spinner, table, current_id>>
    BY DEF Serve
  <2>6. CASE Loading
    <3>1. commands' = commands
      BY <2>4, <2>6 DEF Loading, ListQuery, Query, Done
    <3>2. Shown(q) = [i \in Ids |-> commands[i]]
      BY <2>6 DEF Loading, ListQuery, Query, Shown
    <3>3. Shown(q) = commands
      BY <3>2 DEF PageInv, Shape
    <3> QED
      BY <2>2, <2>3, <2>5, <2>6, <3>1, <3>3 DEF Loading, Trusted
  <2>7. CASE Fetching
    <3>1. PICK o \in BOOLEAN : q = FetchQuery(current_id, o)
      BY <2>7 DEF Fetching
    <3>2. q.do = "fetch" /\ q.id = current_id
      BY <3>1 DEF FetchQuery, Query
    <3>3. commands' = commands
      BY <2>4, <3>2 DEF Done
    <3>4. Shown(q)[current_id] = commands[current_id]
      BY <2>7, <3>2 DEF Shown, Fetching
    <3>5. FormIsCurrent'
      BY <2>3, <2>5, <2>7, <3>2, <3>3 DEF Fetching, FormIsCurrent
    <3>6. \E p \in BOOLEAN : Request'.query = FetchQuery(current_id', p)
      BY <2>2, <2>5, <3>1
    <3>7. Fetching'
      BY <2>2, <2>5, <2>7, <3>3, <3>4, <3>5, <3>6 DEF Fetching
    <3> QED
      BY <3>7 DEF Trusted
  <2>8. CASE Deleting
    BY <2>2, <2>3, <2>5, <2>8 DEF Deleting, Trusted
  <2>9. CASE Creating
    BY <2>2, <2>3, <2>5, <2>9 DEF Creating, Trusted
  <2>10. CASE Changing
    <3>1. q.do = "put" /\ q.id = current_id /\ current_id \in Ids
      BY <2>10 DEF Changing
    <3>2. commands' = commands \/ commands' = [commands EXCEPT ![current_id] = q.content]
      BY <2>4, <3>1 DEF Done
    <3>3. FormIsCurrent'
      BY <2>3, <2>5, <2>10, <3>1, <3>2 DEF Changing, FormIsCurrent, PageInv, Shape
    <3> QED
      BY <2>2, <2>3, <2>5, <2>10, <3>1, <3>3 DEF Changing, Trusted
  <2> QED
    BY <2>1, <2>6, <2>7, <2>8, <2>9, <2>10 DEF Trusted, Loaded, Idle, Waiting
<1> QED
  BY <1>1, <1>2 DEF PageInv

-----------------------------------------------------------------------------
(* An answer arrives, or never does                                        *)

\* its answer arrives,
LEMMA ArriveShape ==
  ASSUME Shape, NEW n, Arrive(n)
  PROVE  Shape'
<1>1. CASE network[n].query.do = "list"
  <2>1. ListArrives(n) /\ UNCHANGED <<commands, current_id>>
    BY <1>1 DEF Arrive
  <2> QED
    BY <2>1 DEF ListArrives, Shape, Hidden
<1>2. CASE network[n].query.do = "fetch"
  <2>1. CommandArrives(n) /\ UNCHANGED <<commands, current_id>>
    BY <1>2 DEF Arrive
  <2> QED
    BY <2>1 DEF CommandArrives, Shape, Hidden, Filled
<1>3. CASE network[n].query.do \notin {"list", "fetch"}
  <2>1. ChangeArrives(n) /\ UNCHANGED <<commands, current_id>>
    BY <1>3 DEF Arrive
  <2>2. doubt' \in BOOLEAN
    BY <2>1 DEF ChangeArrives, AskForList, Shape
  <2>3. spinner' \in BOOLEAN
    BY <2>1 DEF ChangeArrives, Shape
  <2>4. form' = Hidden \/ form' = form
    BY <2>1 DEF ChangeArrives
  <2>5. UNCHANGED <<hides, commands, current_id>>
    BY <2>1 DEF ChangeArrives
  <2> QED
    <3>1. CASE form' = Hidden
      BY <2>2, <2>3, <2>5, <3>1 DEF Shape, Hidden
    <3>2. CASE form' = form
      BY <2>2, <2>3, <2>5, <3>2 DEF Shape, Hidden
    <3> QED
      BY <2>4, <3>1, <3>2
<1> QED
  BY <1>1, <1>2, <1>3

LEMMA ArriveInv ==
  ASSUME PageInv, NEW n \in Numbers, Arrive(n)
  PROVE  PageInv'
<1>1. Shape'
  BY ArriveShape DEF PageInv
<1> DEFINE q == network[n].query
<1>2. n \in Awaited /\ network[n].stage = "answered"
      /\ UNCHANGED <<commands, current_id>>
  BY DEF Arrive
<1>3. ~doubt => Trusted /\ Waiting /\ n = 1
  BY <1>2 DEF PageInv, Awaited, InNetwork, Trusted, Waiting, Loaded, Idle,
              Loading, Fetching, Deleting, Creating, Changing
\* The list that has come is what the device has.
<1>4. CASE q.do = "list"
  <2>1. ListArrives(n)
    BY <1>4 DEF Arrive
  <2>2. ASSUME ~doubt'
        PROVE  Loaded'
    <3>1. ~doubt
      BY <2>1, <2>2 DEF ListArrives
    <3>2. Loading
      BY <1>3, <1>4, <3>1, WhatIsAsked
      DEF Trusted, Fetching, Deleting, Creating, Changing, Loaded, Idle, Waiting,
          Request
    <3>3. InNetwork' = {}
      BY <1>3, <2>1, <3>1, EndedAlone DEF ListArrives, InNetwork
    <3> QED
      BY <1>2, <1>3, <2>1, <3>1, <3>2, <3>3
      DEF Loading, Waiting, Loaded, ListArrives, Request
  <2> QED
    BY <1>1, <2>2 DEF PageInv, Trusted
\* The form shows the command that has come.
<1>5. CASE q.do = "fetch"
  <2>1. CommandArrives(n)
    BY <1>5 DEF Arrive
  <2>2. ASSUME ~doubt'
        PROVE  Idle'
    <3>1. ~doubt
      BY <2>1, <2>2 DEF CommandArrives
    <3>2. Fetching
      BY <1>3, <1>5, <3>1, WhatIsAsked
      DEF Trusted, Loading, Deleting, Creating, Changing, Loaded, Idle, Waiting,
          Request
    <3>3. InNetwork' = {}
      BY <1>3, <2>1, <3>1, EndedAlone DEF CommandArrives, InNetwork
    <3>4. q.id = current_id /\ network[n].answer[current_id] = commands[current_id]
      BY <1>2, <1>3, <3>1, <3>2, WhatIsAsked DEF Fetching, Request
    <3>5. form' = Filled(current_id, commands[current_id]) \/ form' = Hidden
      BY <2>1, <3>4 DEF CommandArrives
    <3>6. FormIsCurrent'
      BY <1>2, <3>5 DEF FormIsCurrent, Filled, Hidden
    <3> QED
      BY <1>2, <2>1, <3>2, <3>3, <3>6 DEF Fetching, Waiting, Idle, CommandArrives
  <2> QED
    BY <1>1, <2>2 DEF PageInv, Trusted
\* What was saved or deleted is followed by the list.
<1>6. CASE q.do \notin {"list", "fetch"}
  <2>1. ChangeArrives(n)
    BY <1>6 DEF Arrive
  <2>2. AskForList(Ended(n), doubt) /\ UNCHANGED hides
    BY <2>1 DEF ChangeArrives
  <2>3. ASSUME ~doubt'
        PROVE  DOMAIN Ended(n) = {} /\ hides = 0 /\ spinner' /\ ~form'.shown
    <3>1. CASE doubt
      BY <2>2, <2>3, <3>1 DEF AskForList
    <3>2. CASE ~doubt
      <4>1. Deleting \/ Creating \/ Changing
        BY <1>3, <1>6, <3>2, WhatIsAsked
        DEF Trusted, Loading, Fetching, Loaded, Idle, Waiting, Request
      <4>2. ASSUME Deleting
            PROVE  spinner' /\ ~form'.shown
        <5>1. q.do = "delete" /\ spinner /\ ~form.shown
          BY <1>3, <3>2, <4>2 DEF Deleting, Request
        <5> QED
          BY <2>1, <5>1 DEF ChangeArrives
      <4>3. ASSUME Creating \/ Changing
            PROVE  spinner' /\ ~form'.shown
        <5>1. q.do # "delete"
          BY <1>3, <3>2, <4>3 DEF Creating, Changing, Request
        <5> QED
          BY <2>1, <5>1 DEF ChangeArrives, Hidden
      <4>4. DOMAIN Ended(n) = {} /\ hides = 0
        BY <1>3, <3>2, EndedAlone DEF Waiting
      <4> QED
        BY <4>1, <4>2, <4>3, <4>4
    <3> QED
      BY <3>1, <3>2
  <2>4. ASSUME ~doubt'
        PROVE  Loading'
    BY <2>2, <2>3, <2>4, ListSettles
  <2> QED
    BY <1>1, <2>4 DEF PageInv, Trusted
<1> QED
  BY <1>4, <1>5, <1>6

\* After an alert the user may doubt the page.
LEMMA GiveUpInv ==
  ASSUME PageInv, NEW n \in Numbers, GiveUp(n)
  PROVE  PageInv'
  BY DEF PageInv, Shape, GiveUp, Fail, query_err, ownVars, Hidden

\* it is lost,
LEMMA NeverServedInv ==
  ASSUME PageInv, NEW n \in Numbers, NeverServed(n)
  PROVE  PageInv'
<1>1. doubt
  BY DEF NeverServed, Lose, Awaited, PageInv, Trusted, Loading, Loaded, Idle,
         Fetching, Deleting, Creating, Changing, Waiting, Request, InNetwork
<1>2. UNCHANGED <<spinner, hides, doubt, commands, current_id, form>>
  BY DEF NeverServed, Lose, ownVars
<1>3. Shape'
  BY <1>2, ShapeKept DEF PageInv, Shape
<1> QED
  BY <1>1, <1>2, <1>3 DEF PageInv

\* or the spinner is hidden late.
LEMMA HideInv ==
  ASSUME PageInv, Hide
  PROVE  PageInv'
<1>1. hides > 0 /\ hides' = hides - 1 /\ spinner' = FALSE
      /\ UNCHANGED <<network, doubt, ownVars>>
  BY DEF Hide, HideTimer
<1>2. UNCHANGED <<commands, table, current_id, form>>
  BY <1>1 DEF ownVars
<1>3. Shape'
  <2>1. hides \in Nat /\ hides > 0 /\ hides' = hides - 1
    BY <1>1 DEF PageInv, Shape
  <2>2. hides' \in Nat
    BY <2>1
  <2>3. spinner' \in BOOLEAN
    BY <1>1, Zenon
  <2> QED
    BY <1>1, <1>2, <2>2, <2>3 DEF PageInv, Shape, Hidden
<1>4. ASSUME ~doubt'
      PROVE  Idle'
  <2>1. Loaded
    BY <1>1, <1>4 DEF PageInv, Trusted, Loading, Idle, Fetching, Deleting,
                      Creating, Changing, Waiting
  <2>2. form = Hidden
    BY <2>1 DEF PageInv, Shape, Loaded
  <2> QED
    BY <1>1, <1>2, <2>1, <2>2 DEF Loaded, Idle, FormIsCurrent, Hidden, InNetwork
<1> QED
  BY <1>3, <1>4 DEF PageInv, Trusted

-----------------------------------------------------------------------------
(* The theorems                                                            *)

\* The invariant of the page
LEMMA PageInit == Init => PageInv
<1> SUFFICES ASSUME Init
             PROVE  PageInv
  OBVIOUS
<1>1. Shape
  BY DEF Init, Shape, Hidden
<1>2. network = [n \in {1} |-> Sent(ListQuery)]
  BY AskingFirst DEF Init
<1>3. hides = 0
  BY DEF Init
<1>4. Waiting /\ Request = Sent(ListQuery)
  BY <1>2, <1>3 DEF Waiting, Request, Sent, InNetwork
<1>5. Loading
  BY <1>4 DEF Loading, Sent, Init, Hidden
<1> QED
  BY <1>1, <1>5 DEF PageInv, Trusted

LEMMA PageStep == PageInv /\ [Next]_vars => PageInv'
<1> SUFFICES ASSUME PageInv, [Next]_vars
             PROVE  PageInv'
  OBVIOUS
<1>1. CASE UserStep
  BY <1>1, GotoHomeInv, RefreshInv, modify_commandInv, delete_commandInv,
     add_commandInv, EditInv, CancelInv, ResetFormInv, SaveInv DEF UserStep
<1>2. ASSUME NEW n \in Numbers, Serve(n) \/ Arrive(n) \/ GiveUp(n) \/ NeverServed(n)
      PROVE  PageInv'
  BY <1>2, ServeInv, ArriveInv, GiveUpInv, NeverServedInv
<1>3. CASE Hide
  BY <1>3, HideInv
<1>4. CASE UNCHANGED vars
  BY <1>4 DEF vars, pageVars, ownVars, PageInv, Shape, Trusted, Loading, Loaded,
              Idle, Fetching, Deleting, Creating, Changing, Waiting, Request,
              InNetwork, FormIsCurrent, Hidden
<1> QED
  BY <1>1, <1>2, <1>3, <1>4 DEF Next

LEMMA PageInvariant == Spec => []PageInv
<1> QED
  BY PageInit, PageStep, PTL DEF Spec

\* When nothing is under way and the user has no reason to doubt the page, the
\* table is the device's list.
THEOREM TableShowsTheDevice == Spec => []TableIsTrue
<1>1. PageInv => TableIsTrue
  BY DEF PageInv, TableIsTrue, Trusted, Loading, Loaded, Idle, Fetching, Deleting,
         Creating, Changing, Waiting
<1> QED
  BY <1>1, PageInvariant, PTL

\* An untouched form shows the command that Save will change, as it is.
THEOREM FormShowsItsCommand == Spec => []FormIsTrue
<1>1. PageInv => FormIsTrue
  BY DEF PageInv, FormIsTrue, Trusted, Loading, Loaded, Idle, Fetching, Deleting,
         Creating, Changing, FormIsCurrent
<1> QED
  BY <1>1, PageInvariant, PTL

\* A form makes a second command only for a user who was told of a failure, or
\* who did not wait.
THEOREM OneFormOneCommand == Spec => CreatedOnce
<1> DEFINE Creates == \E i \in Ids : commands[i] = "none" /\ commands'[i] # "none"
<1>1. ASSUME PageInv, [Next]_vars, form.made, Creates, ~doubt
      PROVE  FALSE
  <2>1. Creating /\ Request.stage # "sent"
    BY <1>1 DEF PageInv, Shape, Hidden, Trusted, Loading, Loaded, Idle, Fetching,
                Deleting, Creating, Changing, FormIsCurrent
  <2>2. ASSUME NEW n \in Numbers, Serve(n)
        PROVE  FALSE
    BY <2>1, <2>2 DEF Serve, Creating, Waiting, InNetwork, Request
  <2>3. commands' # commands
    BY <1>1
  <2> QED
    BY <1>1, <2>2, <2>3
    DEF Next, UserStep, GotoHome, Refresh, modify_command, delete_command,
        add_command, Edit, Cancel, ResetForm, Save, Arrive, GiveUp, NeverServed,
        Hide, ownVars, vars
<1>2. PageInv /\ [Next]_vars => [form.made /\ Creates => doubt]_vars
  BY <1>1
<1> QED
  BY <1>2, PageInvariant, PTL DEF Spec, CreatedOnce
=============================================================================
