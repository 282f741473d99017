-------------------------- MODULE DevicePageProofs --------------------------
(***************************************************************************)
(* Theorems about the page of device settings: what it shows is what the   *)
(* device has, what the user types stays, and an update is started from    *)
(* what is shown.                                                          *)
(***************************************************************************)
EXTENDS DevicePage, FiniteSetTheorems, TLAPS

-----------------------------------------------------------------------------
(* The inductive invariant                                                 *)

Saving(s, v) == Query("save", s, v, "none")
Acting(do, s) == Query(do, s, "none", "none")

Queries ==
  {Get(s, t) : s \in Sections, t \in {"load", "hide"}}
    \cup {Saving(s, v) : s \in Sections, v \in Values}
    \cup {Acting(do, s) : do \in {"set", "start"}, s \in Sections}
    \cup {PollQuery}

RequestOK(r) ==
  /\ r.query \in Queries
  /\ r.stage \in {"sent", "answered", "refused"}
  /\ r.awaited \in BOOLEAN
  /\ r.stage = "sent" =>
       r = [query |-> r.query, stage |-> "sent", awaited |-> r.awaited]
  /\ r.stage = "answered" /\ r.query.do = "get" => r.answer \in Values

TypeOK ==
  /\ chain \in Chains
  /\ device \in [Sections -> Values]
  /\ shown \in [Sections -> Values \cup {"none"}]
  /\ dirty \subseteq Sections /\ editing \subseteq Sections /\ enabled \subseteq Sections
  /\ hides \in Nat /\ polls \in Nat
  /\ spinner \in BOOLEAN /\ doubt \in BOOLEAN
  /\ onPage \in BOOLEAN /\ device_running \in BOOLEAN
  /\ \A n \in InNetwork : RequestOK(network[n])

\* What is under way but the polls
Others == InNetwork \ Polled
Loading == \E n \in Others : network[n].query.then = "load"

\* All answers are awaited, and but for polls one thing is done at a time.
OneAtATime ==
  /\ InNetwork \subseteq Numbers
  /\ \A n \in InNetwork : network[n].awaited
  /\ \A m, n \in Others : m = n
  /\ Others # {} => onPage

\* An answer on its way is still true.
AnswersAreTrue ==
  \A n \in Others : network[n].stage = "answered" =>
    /\ network[n].query.do = "get" =>
         network[n].answer = device[network[n].query.section]
    /\ network[n].query.do = "save" =>
         device[network[n].query.section] = network[n].query.value

\* Nobody can type while the page is loaded, section after section.
LoadsInOrder ==
  \A n \in Others : network[n].query.then = "load" =>
    /\ spinner /\ hides = 0 /\ dirty = {}
    /\ \E k \in DOMAIN chain :
         /\ network[n].query.section = chain[k]
         /\ \A j \in 1..k - 1 : shown[chain[j]] # "none"

LoadedThen == onPage /\ ~Loading => \A s \in Sections : shown[s] # "none"

\* A field shows what the device has, or will have.
ShowsOrSaves ==
  onPage => \A s \in Sections \ dirty :
    \/ shown[s] \in {"none", device[s]}
    \/ \E n \in Others : network[n].query = Saving(s, shown[s])

\* What was typed since is dirty.
SavesWhatIsShown ==
  \A n \in Others : network[n].query.do = "save" =>
    \/ network[n].query.section \in dirty
    \/ network[n].query.value = shown[network[n].query.section]

\* The start of an update is enabled for what was fetched, if it is enough.
StartIsFetched ==
  onPage => \A s \in enabled : Of[s].button = "start" =>
    s \notin dirty /\ shown[s] \notin Disabling

Trusted ==
  /\ OneAtATime /\ AnswersAreTrue
  /\ LoadsInOrder /\ LoadedThen
  /\ ShowsOrSaves /\ SavesWhatIsShown /\ StartIsFetched

PageInv == TypeOK /\ (~doubt => Trusted)

-----------------------------------------------------------------------------
(* The requests                                                            *)

Sent(query) == [query |-> query, stage |-> "sent", awaited |-> TRUE]

\* What the queries of the page ask for
LEMMA KindsOfQueries ==
  /\ \A s, t : Get(s, t).do = "get" /\ Get(s, t).section = s /\ Get(s, t).then = t
  /\ \A s, v : /\ Saving(s, v).do = "save" /\ Saving(s, v).section = s
                /\ Saving(s, v).value = v /\ Saving(s, v).then = "none"
  /\ \A do, s : /\ Acting(do, s).do = do /\ Acting(do, s).section = s
                 /\ Acting(do, s).then = "none"
  /\ PollQuery.do = "poll"
  BY DEF Get, Saving, Acting, PollQuery, Query

\* A query is of one of these kinds.
LEMMA WhatIsAsked ==
  ASSUME NEW q \in Queries
  PROVE  \/ /\ q.do = "get" /\ q.section \in Sections
            /\ q.then \in {"load", "hide"} /\ q = Get(q.section, q.then)
         \/ /\ q.do = "save" /\ q.section \in Sections /\ q.value \in Values
            /\ q.then = "none" /\ q = Saving(q.section, q.value)
         \/ /\ q.do \in {"set", "start"} /\ q.section \in Sections /\ q.then = "none"
         \/ q.do = "poll"
<1>1. CASE \E s \in Sections, t \in {"load", "hide"} : q = Get(s, t)
  BY <1>1, KindsOfQueries
<1>2. CASE \E s \in Sections, v \in Values : q = Saving(s, v)
  BY <1>2, KindsOfQueries
<1>3. CASE \E do \in {"set", "start"}, s \in Sections : q = Acting(do, s)
  BY <1>3, KindsOfQueries
<1>4. CASE q = PollQuery
  BY <1>4, KindsOfQueries
<1> QED
  BY <1>1, <1>2, <1>3, <1>4 DEF Queries

\* A nonempty set of numbers has a least one: of the intervals up to its members
\* one holds no other.
LEMMA LeastNumber ==
  ASSUME NEW S \in SUBSET Nat, S # {}
  PROVE  \E x \in S : \A y \in S : x <= y
<1> DEFINE T == {1..x : x \in S}
<1>1. T \subseteq FiniteSubsetsOf(Nat)
  BY FS_Interval DEF FiniteSubsetsOf
<1>2. T # {}
  OBVIOUS
<1>3. PICK A \in T : \A B \in T : ~(<<B, A>> \in StrictSubsetOrdering(Nat))
  BY <1>1, <1>2, FS_StrictSubsetOrderingWellFounded, WFMin
<1>4. PICK x \in S : A = 1..x
  BY <1>3
<1>5. ASSUME NEW y \in S, y < x
      PROVE  FALSE
  <2>1. 1..y \in SUBSET Nat /\ 1..x \in SUBSET Nat
    OBVIOUS
  <2>2. x \in 1..x /\ x \notin 1..y /\ 1..y \subseteq 1..x
    BY <1>5
  <2>3. <<1..y, 1..x>> \in StrictSubsetOrdering(Nat)
    <3> DEFINE p == <<1..y, 1..x>>
    <3>1. p \in (SUBSET Nat) \X (SUBSET Nat)
      BY <2>1
    <3>2. p[1] = 1..y /\ p[2] = 1..x
      OBVIOUS
    <3>3. p[1] \subseteq p[2] /\ p[1] # p[2]
      BY <2>2, <3>2
    <3> HIDE DEF p
    <3>4. p \in StrictSubsetOrdering(Nat)
      BY <3>1, <3>3 DEF StrictSubsetOrdering
    <3> QED
      BY <3>4 DEF p
  <2> QED
    BY <1>3, <1>4, <2>3
<1> QED
  BY <1>5

\* the number a request takes
Number(net) ==
  CHOOSE n \in Numbers \ DOMAIN net : \A m \in Numbers \ DOMAIN net : n <= m

\* A request that is asked gets a number of its own.
LEMMA AskingAdds ==
  ASSUME NEW net, NEW query
  PROVE  Asking(net, query) =
           [n \in DOMAIN net \cup {Number(net)} |->
              IF n = Number(net) THEN Sent(query) ELSE net[n]]
  BY DEF Asking, Sent, Number

\* It is free, if there is one.
LEMMA NumberIsFree ==
  ASSUME NEW net, DOMAIN net \subseteq Numbers, DOMAIN net # Numbers
  PROVE  Number(net) \in Numbers \ DOMAIN net
<1> DEFINE free == Numbers \ DOMAIN net
<1>1. Numbers \subseteq Nat
  BY PageAssumption DEF Numbers
<1>2. \E n \in Numbers : n \notin DOMAIN net
  BY Zenon
<1>3. free \in SUBSET Nat /\ free # {}
  BY <1>1, <1>2
<1>4. \E n \in free : \A m \in free : n <= m
  <2> HIDE DEF free
  <2> QED
    BY <1>3, LeastNumber
<1> QED
  BY <1>4 DEF Number

-----------------------------------------------------------------------------
(* Types                                                                   *)

\* Requests stay requests, whatever the network does to them.
LEMMA SentOK ==
  ASSUME NEW q \in Queries
  PROVE  RequestOK(Sent(q))
<1>1. /\ Sent(q).query = q /\ Sent(q).stage = "sent"
      /\ Sent(q).awaited = TRUE
  BY DEF Sent
<1>2. Sent(q) = [query |-> q, stage |-> "sent", awaited |-> TRUE]
  BY DEF Sent
<1> QED
  BY <1>1, <1>2, Zenon DEF RequestOK

LEMMA AskingOK ==
  ASSUME NEW net, \A n \in DOMAIN net : RequestOK(net[n]),
         NEW q \in Queries, network' = Asking(net, q), chain' = chain
  PROVE  (\A n \in InNetwork : RequestOK(network[n]))'
<1>1. network' = [n \in DOMAIN net \cup {Number(net)} |->
                    IF n = Number(net) THEN Sent(q) ELSE net[n]]
  BY AskingAdds
<1>2. \A n \in DOMAIN network' : RequestOK(network'[n])
  BY <1>1, SentOK
<1> QED
  BY <1>2 DEF InNetwork, RequestOK, Queries, Sections

LEMMA EndedOK ==
  ASSUME TypeOK, NEW n
  PROVE  \A m \in DOMAIN Ended(n) : RequestOK(Ended(n)[m])
  BY DEF TypeOK, Ended

LEMMA NetworkOK ==
  ASSUME \A n \in DOMAIN network' : RequestOK(network'[n]), chain' = chain
  PROVE  (\A n \in InNetwork : RequestOK(network[n]))'
  BY DEF InNetwork, RequestOK, Queries, Sections

LEMMA ServedOK ==
  ASSUME TypeOK, NEW n \in InNetwork, NEW a,
         network[n].query.do = "get" => a \in Values
  PROVE  \A m \in DOMAIN Served(n, a) : RequestOK(Served(n, a)[m])
<1>1. CASE network[n].awaited
  <2> DEFINE q == network[n].query
             r == [query |-> q, stage |-> "answered", awaited |-> TRUE,
                   answer |-> a]
  <2>1. Served(n, a) = [network EXCEPT ![n] = r]
    BY <1>1 DEF Served
  <2>2. q \in Queries
    BY DEF TypeOK, RequestOK
  <2>3. RequestOK(r)
    <3>1. r.query = q /\ r.stage = "answered" /\ r.awaited = TRUE /\ r.answer = a
      OBVIOUS
    <3> HIDE DEF r
    <3> QED
      BY <2>2, <3>1, Zenon DEF RequestOK
  <2> HIDE DEF r
  <2> QED
    BY <2>1, <2>3 DEF TypeOK, InNetwork
<1>2. CASE ~network[n].awaited
  BY <1>2, EndedOK DEF Served
<1> QED
  BY <1>1, <1>2

LEMMA RefusedOK ==
  ASSUME TypeOK, NEW n \in InNetwork, network[n].stage = "sent"
  PROVE  \A m \in DOMAIN Refused(n) : RequestOK(Refused(n)[m])
<1>1. CASE network[n].awaited
  <2> DEFINE q == network[n].query
             a == network[n].awaited
             r == [query |-> q, stage |-> "refused", awaited |-> a]
  <2>1. Refused(n) = [network EXCEPT ![n] = [network[n] EXCEPT !.stage = "refused"]]
    BY <1>1 DEF Refused
  <2>2. q \in Queries /\ a \in BOOLEAN
        /\ network[n] = [query |-> q, stage |-> "sent", awaited |-> a]
    BY DEF TypeOK, RequestOK
  <2>3. [network[n] EXCEPT !.stage = "refused"] = r
    <3> HIDE DEF q, a
    <3>1. [[query |-> q, stage |-> "sent", awaited |-> a] EXCEPT !.stage = "refused"]
            = r
      OBVIOUS
    <3> QED
      BY <2>2, <3>1, Zenon
  <2>4. RequestOK(r)
    <3>1. r.query = q /\ r.stage = "refused" /\ r.awaited = a
      OBVIOUS
    <3> HIDE DEF r, q, a
    <3> QED
      BY <2>2, <3>1, Zenon DEF RequestOK
  <2> HIDE DEF r
  <2> QED
    BY <2>1, <2>3, <2>4 DEF TypeOK, InNetwork
<1>2. CASE ~network[n].awaited
  BY <1>2, EndedOK DEF Refused
<1> QED
  BY <1>1, <1>2

\* The chain of sections has a first one, and none twice.
LEMMA ChainFacts ==
  ASSUME TypeOK
  PROVE  /\ Len(chain) \in Nat \ {0} /\ DOMAIN chain = 1..Len(chain)
         /\ 1 \in DOMAIN chain /\ chain[1] \in Sections
         /\ \A i \in DOMAIN chain : chain[i] \in Sections
         /\ \A i, j \in DOMAIN chain : chain[i] = chain[j] => i = j
<1>1. chain \in Seq(DOMAIN Of) /\ chain # <<>>
      /\ \A i, j \in DOMAIN chain : chain[i] = chain[j] => i = j
  BY ChainsAssumption DEF TypeOK
<1>2. Len(chain) \in Nat \ {0} /\ DOMAIN chain = 1..Len(chain)
  <2> HIDE DEF Of
  <2> QED
    BY <1>1
<1> QED
  BY <1>1, <1>2 DEF Sections

\* The page is loaded: the types of its own variables
LEMMA LoadTypes ==
  ASSUME TypeOK, NEW net, \A n \in DOMAIN net : RequestOK(net[n]), Load(net),
         hides' \in Nat, polls' \in Nat, doubt' \in BOOLEAN
  PROVE  TypeOK'
<1>1. Get(chain[1], "load") \in Queries
  BY ChainFacts DEF Queries
<1>2. (\A n \in InNetwork : RequestOK(network[n]))'
  BY <1>1, AskingOK DEF Load
<1>3. Sections' = Sections
  BY DEF Load, Sections
<1> QED
  BY <1>2, <1>3 DEF TypeOK, Load

\* The types, action by action
LEMMA GotoDeviceTypes ==
  ASSUME TypeOK, GotoDevice
  PROVE  TypeOK'
<1>1. doubt' \in BOOLEAN
  BY DEF GotoDevice, Doubted, DoubtedBut
<1> QED
  BY <1>1, LoadTypes DEF GotoDevice, TypeOK, InNetwork

LEMMA ReloadTypes ==
  ASSUME TypeOK, Reload
  PROVE  TypeOK'
<1> DEFINE kept == {n \in InNetwork : network[n].query.do \in {"save", "start"}
                                      /\ network[n].stage = "sent"}
           left == [m \in kept |-> [network[m] EXCEPT !.awaited = FALSE]]
<1>1. \A m \in DOMAIN left : RequestOK(left[m])
  <2> SUFFICES ASSUME NEW m \in kept
               PROVE  RequestOK(left[m])
    OBVIOUS
  <2> DEFINE q == network[m].query
             a == network[m].awaited
             r == [query |-> q, stage |-> "sent", awaited |-> FALSE]
  <2>1. q \in Queries /\ network[m] = [query |-> q, stage |-> "sent", awaited |-> a]
    BY DEF TypeOK, RequestOK
  <2>2. left[m] = [network[m] EXCEPT !.awaited = FALSE]
    OBVIOUS
  <2>3. \A f : [[query |-> q, stage |-> "sent", awaited |-> a] EXCEPT !.awaited = f]
               = [query |-> q, stage |-> "sent", awaited |-> f]
    <3> HIDE DEF q, a
    <3> QED
      OBVIOUS
  <2>4. left[m] = r
    BY <2>1, <2>2, <2>3, Zenon
  <2>5. RequestOK(r)
    <3>1. r.query = q /\ r.stage = "sent" /\ r.awaited = FALSE
      OBVIOUS
    <3>2. r = [query |-> q, stage |-> "sent", awaited |-> FALSE]
      OBVIOUS
    <3> HIDE DEF r, q, a
    <3> QED
      BY <2>1, <3>1, <3>2, Zenon DEF RequestOK
  <2> QED
    BY <2>4, <2>5
<1>2. Load(left) /\ hides' = 0 /\ polls' = 0 /\ doubt' = (DOMAIN left # {})
  BY DEF Reload
<1>3. doubt' \in BOOLEAN
  BY <1>2
<1> HIDE DEF left
<1> QED
  BY <1>1, <1>2, <1>3, LoadTypes

\* What the user does but loading the page
LEMMA UserTypes ==
  ASSUME TypeOK, UserStep, ~GotoDevice, ~Reload
  PROVE  TypeOK'
<1>1. chain' = chain /\ Sections' = Sections
  BY DEF UserStep, Leave, Refresh, EditButton, Save, Sending, Type, SetClock,
         StartUpdate, ownVars, Sections
<1>2. CASE Leave
  <2>1. doubt' \in BOOLEAN
    BY <1>2 DEF Leave, Click, Doubted, DoubtedBut
  <2>2. onPage' \in BOOLEAN
    BY <1>2, Zenon DEF Leave
  <2>3. (\A n \in InNetwork : RequestOK(network[n]))'
    BY <1>1, <1>2, NetworkOK DEF Leave, TypeOK, InNetwork
  <2>4. shown' = [s \in Sections |-> "none"] /\ dirty' = {} /\ editing' = {}
        /\ UNCHANGED <<spinner, hides, chain, device, enabled, device_running, polls>>
    BY <1>2 DEF Leave
  <2> QED
    BY <1>1, <2>1, <2>2, <2>3, <2>4 DEF TypeOK
<1>3. ASSUME NEW s \in Sections, Refresh(s)
      PROVE  TypeOK'
  <2>1. Get(s, "hide") \in Queries
    BY DEF Queries
  <2>2. (\A n \in InNetwork : RequestOK(network[n]))'
    BY <1>1, <1>3, <2>1, AskingOK DEF Refresh, TypeOK, InNetwork
  <2>3. doubt' \in BOOLEAN
    BY <1>3 DEF Refresh, ClickOn, Click, Doubted, DoubtedBut
  <2> QED
    BY <1>1, <1>3, <2>2, <2>3 DEF TypeOK, Refresh, ownVars, fieldVars
<1>4. ASSUME NEW s \in Sections, EditButton(s)
      PROVE  TypeOK'
  <2>1. doubt' \in BOOLEAN
    BY <1>4 DEF EditButton, ClickOn, Click, Doubted, DoubtedBut
  <2>2. editing' \subseteq Sections
    BY <1>4 DEF EditButton, TypeOK
  <2> QED
    BY <1>1, <1>4, <2>1, <2>2
    DEF TypeOK, EditButton, fieldVars, InNetwork, RequestOK, Queries
<1>5. ASSUME NEW s \in Sections, Save(s)
      PROVE  TypeOK'
  <2> DEFINE v == IF shown[s] = "none" THEN Blank ELSE shown[s]
  <2>1. v \in Values
    BY DevicePageAssumption DEF TypeOK
  <2>2. Query("save", s, v, "none") \in Queries
    BY <2>1 DEF Queries, Saving
  <2>3. network' = Asking(network, Query("save", s, v, "none"))
    BY <1>5 DEF Save, Sending
  <2> HIDE DEF v
  <2>4. (\A n \in InNetwork : RequestOK(network[n]))'
    BY <1>1, <2>2, <2>3, AskingOK DEF TypeOK, InNetwork
  <2>5. doubt' \in BOOLEAN
    BY <1>5 DEF Save, Sending, ClickOn, Click, Doubted, DoubtedBut
  <2>6. spinner' \in BOOLEAN
    BY <1>5 DEF Save, Sending
  <2> QED
    BY <1>1, <1>5, <2>4, <2>5, <2>6 DEF TypeOK, Save, Sending, fieldVars
<1>6. ASSUME NEW s \in Sections, NEW v \in Values, Type(s, v)
      PROVE  TypeOK'
  <2>1. shown' = [shown EXCEPT ![s] = v] /\ dirty' = dirty \cup {s}
    BY <1>6 DEF Type
  <2>2. enabled' \subseteq Sections
    BY <1>6 DEF Type, Allowed, TypeOK
  <2> QED
    BY <1>1, <1>6, <2>1, <2>2
    DEF TypeOK, Type, pageVars, InNetwork, RequestOK, Queries
<1>7. CASE SetClock
  <2>1. Query("set", "datetime", "none", "none") \in Queries
    BY <1>7 DEF SetClock, ClickOn, Queries, Acting
  <2>2. (\A n \in InNetwork : RequestOK(network[n]))'
    BY <1>1, <1>7, <2>1, AskingOK DEF SetClock, TypeOK, InNetwork
  <2>3. doubt' \in BOOLEAN
    BY <1>7 DEF SetClock, ClickOn, Click, Doubted, DoubtedBut
  <2> QED
    BY <1>1, <1>7, <2>2, <2>3 DEF TypeOK, SetClock, ownVars, fieldVars
<1>8. CASE StartUpdate
  <2>1. Query("start", "ota", "none", "none") \in Queries
    BY <1>8 DEF StartUpdate, ClickOn, Queries, Acting
  <2>2. (\A n \in InNetwork : RequestOK(network[n]))'
    BY <1>1, <1>8, <2>1, AskingOK DEF StartUpdate, TypeOK, InNetwork
  <2>3. doubt' \in BOOLEAN
    BY <1>8 DEF StartUpdate, ClickOn, Click, Doubted, DoubtedBut
  <2> QED
    BY <1>1, <1>8, <2>2, <2>3 DEF TypeOK, StartUpdate, fieldVars
<1> QED
  BY <1>2, <1>3, <1>4, <1>5, <1>6, <1>7, <1>8 DEF UserStep

LEMMA ServeTypes ==
  ASSUME TypeOK, NEW n, Serve(n)
  PROVE  TypeOK'
<1> DEFINE q == network[n].query
           done == IF q.do = "save" THEN [device EXCEPT ![q.section] = q.value]
                   ELSE device
<1>1. n \in InNetwork /\ network[n].stage = "sent" /\ q \in Queries
  BY DEF Serve, TypeOK, RequestOK
<1>2. done \in [Sections -> Values]
  BY <1>1, WhatIsAsked DEF TypeOK
<1>3. device' \in {done, device}
  BY DEF Serve
<1>4. \A m \in DOMAIN network' : RequestOK(network'[m])
  <2>1. CASE network' = Refused(n)
    BY <1>1, <2>1, RefusedOK
  <2>2. ASSUME NEW a, network' = Served(n, a), q.do = "get" => a = device[q.section]
        PROVE  \A m \in DOMAIN network' : RequestOK(network'[m])
    <3>1. q.do = "get" => a \in Values
      BY <1>1, <2>2, WhatIsAsked DEF TypeOK
    <3> QED
      BY <1>1, <2>2, <3>1, ServedOK
  <2>3. network' = Refused(n) \/ \E a : network' = Served(n, a)
                                     /\ (q.do = "get" => a = device[q.section])
    <3> DEFINE answers == CASE q.do = "get"   -> {device[q.section]}
                            [] q.do = "start" -> {"rebooting", "no_update"}
                            [] OTHER          -> {"ok"}
    <3>1. network' = Refused(n) \/ \E a \in answers : network' = Served(n, a)
      BY DEF Serve
    <3>2. q.do = "get" => answers = {device[q.section]}
      OBVIOUS
    <3> QED
      BY <3>1, <3>2
  <2> QED
    BY <2>1, <2>2, <2>3
<1>5. UNCHANGED <<spinner, hides, doubt, chain, fieldVars, editing, onPage,
                  device_running, polls>>
  BY DEF Serve
<1>6. (\A m \in InNetwork : RequestOK(network[m]))'
  BY <1>4, <1>5, NetworkOK
<1>7. Sections' = Sections
  BY <1>5 DEF Sections
<1> HIDE DEF done
<1> QED
  BY <1>2, <1>3, <1>5, <1>6, <1>7 DEF TypeOK, fieldVars

LEMMA ArriveTypes ==
  ASSUME TypeOK, NEW n, Arrive(n)
  PROVE  TypeOK'
<1> DEFINE q == network[n].query
<1>1. n \in InNetwork /\ network[n].stage = "answered" /\ q \in Queries
  BY DEF Arrive, Awaited, TypeOK, RequestOK
<1>2. UNCHANGED <<spinner, doubt, chain, device, editing, onPage>>
  BY DEF Arrive
<1>3. Sections' = Sections
  BY <1>2 DEF Sections
<1>4. \A m \in DOMAIN Ended(n) : RequestOK(Ended(n)[m])
  BY EndedOK
<1> SUFFICES /\ shown' \in [Sections -> Values \cup {"none"}]
             /\ dirty' \subseteq Sections /\ enabled' \subseteq Sections
             /\ hides' \in Nat /\ polls' \in Nat /\ device_running' \in BOOLEAN
             /\ \/ network' = Ended(n)
                \/ \E query \in Queries : network' = Asking(Ended(n), query)
  <2>1. (\A m \in InNetwork : RequestOK(network[m]))'
    BY <1>2, <1>4, NetworkOK, AskingOK
  <2> QED
    BY <1>2, <1>3, <2>1 DEF TypeOK
<1>5. CASE q.do = "get"
  <2>1. GetArrives(n)
    BY <1>5 DEF Arrive
  <2>2. q.section \in Sections /\ network[n].answer \in Values
    BY <1>1, <1>5, WhatIsAsked DEF TypeOK, RequestOK
  <2>3. Update(q.section, network[n].answer)
    BY <2>1 DEF GetArrives
  <2>4. /\ shown' \in [Sections -> Values \cup {"none"}]
        /\ dirty' \subseteq Sections /\ enabled' \subseteq Sections
    BY <2>2, <2>3 DEF Update, Allowed, fieldVars, TypeOK
  <2>5. hides' \in Nat /\ polls' \in Nat /\ device_running' \in BOOLEAN
    BY <2>1 DEF GetArrives, hide_spinner, TypeOK
  <2> DEFINE here == CHOOSE i \in DOMAIN chain : chain[i] = q.section
             last == q.then = "load" /\ here = Len(chain)
  <2>6. here \in DOMAIN chain
    BY <2>2 DEF Sections
  <2>7. \/ network' = Ended(n)
        \/ network' = Asking(Ended(n), Get(chain[here + 1], "load"))
           /\ here # Len(chain)
    BY <2>1 DEF GetArrives
  <2> HIDE DEF here
  <2>8. here # Len(chain) => Get(chain[here + 1], "load") \in Queries
    BY <2>6, ChainFacts DEF Queries
  <2> QED
    BY <2>4, <2>5, <2>7, <2>8
<1>6. CASE q.do = "poll"
  BY <1>6 DEF Arrive, PollArrives, fieldVars, TypeOK
<1>7. CASE q.do = "start"
  <2>1. device_running' \in BOOLEAN
    BY <1>7 DEF Arrive, UpdateStarts
  <2> QED
    BY <1>7, <2>1 DEF Arrive, UpdateStarts, hide_spinner, fieldVars, TypeOK
<1>8. CASE q.do \in {"save", "set"}
  <2>1. SaveArrives(n)
    BY <1>8 DEF Arrive
  <2>2. q.section \in Sections
    BY <1>1, <1>8, WhatIsAsked
  <2>3. Get(q.section, "hide") \in Queries
    BY <2>2 DEF Queries
  <2> HIDE DEF Of
  <2> QED
    BY <2>1, <2>3 DEF SaveArrives, hide_spinner, fieldVars, TypeOK
<1> QED
  BY <1>1, <1>5, <1>6, <1>7, <1>8, WhatIsAsked

LEMMA FailTypes ==
  ASSUME TypeOK, NEW n, GiveUp(n)
  PROVE  TypeOK'
<1> DEFINE q == network[n].query
<1>1. n \in InNetwork /\ q \in Queries /\ UNCHANGED <<ownVars, spinner>>
      /\ hides' = hides + 1 /\ doubt' = TRUE
  BY DEF GiveUp, Fail, query_err, Awaited, TypeOK, RequestOK
<1>2. \/ network' = Ended(n)
      \/ network[n].stage = "sent" /\ network' = [network EXCEPT ![n].awaited = FALSE]
  BY DEF GiveUp, Fail
<1>3. \A m \in DOMAIN network' : RequestOK(network'[m])
  <2>1. CASE network' = Ended(n)
    BY <2>1, EndedOK
  <2>2. CASE network[n].stage = "sent" /\ network' = [network EXCEPT ![n].awaited = FALSE]
    <3> DEFINE a == network[n].awaited
               r == [query |-> q, stage |-> "sent", awaited |-> FALSE]
    <3>1. network[n] = [query |-> q, stage |-> "sent", awaited |-> a]
      BY <1>1, <2>2 DEF TypeOK, RequestOK
    <3>2. network' = [network EXCEPT ![n] = [network[n] EXCEPT !.awaited = FALSE]]
      BY <2>2
    <3>3. [network[n] EXCEPT !.awaited = FALSE] = r
      <4>1. \A f : [[query |-> q, stage |-> "sent", awaited |-> a] EXCEPT !.awaited = f]
                   = [query |-> q, stage |-> "sent", awaited |-> f]
        <5> HIDE DEF q, a
        <5> QED
          OBVIOUS
      <4> QED
        BY <3>1, <4>1, Zenon
    <3>4. RequestOK(r)
      <4>1. r.query = q /\ r.stage = "sent" /\ r.awaited = FALSE
        OBVIOUS
      <4>2. r = [query |-> q, stage |-> "sent", awaited |-> FALSE]
        OBVIOUS
      <4> HIDE DEF r, q, a
      <4> QED
        BY <1>1, <4>1, <4>2, Zenon DEF RequestOK
    <3> HIDE DEF r
    <3> QED
      BY <3>2, <3>3, <3>4 DEF TypeOK, InNetwork
  <2> QED
    BY <1>2, <2>1, <2>2
<1>4. chain' = chain /\ Sections' = Sections
  BY <1>1 DEF ownVars, Sections
<1>5. (\A m \in InNetwork : RequestOK(network[m]))'
  BY <1>3, <1>4, NetworkOK
<1>6. hides' \in Nat /\ UNCHANGED <<ownVars, spinner>>
  BY <1>1 DEF TypeOK
<1>7. doubt' \in BOOLEAN
  BY <1>1, Zenon
<1> QED
  BY <1>4, <1>5, <1>6, <1>7 DEF TypeOK, ownVars, fieldVars

LEMMA LoseTypes ==
  ASSUME TypeOK, NEW n, NeverServed(n)
  PROVE  TypeOK'
<1>1. network' = Ended(n) /\ UNCHANGED <<spinner, hides, doubt, ownVars>>
  BY DEF NeverServed, Lose
<1>2. chain' = chain /\ Sections' = Sections
  BY <1>1 DEF ownVars, Sections
<1>3. (\A m \in InNetwork : RequestOK(network[m]))'
  BY <1>1, <1>2, EndedOK, NetworkOK
<1> QED
  BY <1>1, <1>2, <1>3 DEF TypeOK, ownVars, fieldVars

LEMMA HideTypes ==
  ASSUME TypeOK, Hide
  PROVE  TypeOK'
<1>1. hides > 0 /\ hides' = hides - 1 /\ spinner' = FALSE
      /\ UNCHANGED <<network, doubt, ownVars>>
  BY DEF Hide, HideTimer
<1>2. chain' = chain /\ Sections' = Sections
  BY <1>1 DEF ownVars, Sections
<1>3. (\A m \in InNetwork : RequestOK(network[m]))'
  BY <1>1, <1>2, NetworkOK DEF TypeOK, InNetwork
<1>4. hides \in Nat
  BY DEF TypeOK
<1>5. hides' \in Nat
  BY <1>1, <1>4
<1>6. spinner' \in BOOLEAN
  BY <1>1, Zenon
<1>7. UNCHANGED <<doubt, ownVars>>
  BY <1>1
<1> QED
  BY <1>2, <1>3, <1>5, <1>6, <1>7 DEF TypeOK, ownVars, fieldVars

LEMMA PollTypes ==
  ASSUME TypeOK, PollTimer
  PROVE  TypeOK'
<1>1. chain' = chain /\ Sections' = Sections
  BY DEF PollTimer, Sections
<1>2. PollQuery \in Queries
  BY DEF Queries
<1>3. network' = Asking(network, PollQuery) \/ network' = network
  BY DEF PollTimer
<1>4. (\A m \in InNetwork : RequestOK(network[m]))'
  BY <1>1, <1>2, <1>3, AskingOK, NetworkOK DEF TypeOK, InNetwork
<1>5. device_running' \in BOOLEAN
  BY DEF PollTimer
<1>6. polls' \in Nat
  BY DEF PollTimer, TypeOK
<1>7. UNCHANGED <<spinner, hides, doubt, chain, device, fieldVars, editing, onPage>>
  BY DEF PollTimer
<1> QED
  BY <1>1, <1>4, <1>5, <1>6, <1>7 DEF TypeOK, fieldVars

LEMMA InitTypes == Init => TypeOK
<1> SUFFICES ASSUME Init
             PROVE  TypeOK
  OBVIOUS
<1>1. chain \in Seq(DOMAIN Of) /\ chain # <<>>
  BY ChainsAssumption DEF Init
<1>2. 1 \in DOMAIN chain
  <2> HIDE DEF Of
  <2> QED
    BY <1>1
<1>3. Get(chain[1], "load") \in Queries
  BY <1>2 DEF Queries, Sections
<1> DEFINE net == <<>>
           q == Get(chain[1], "load")
<1>4. DOMAIN net = {} /\ network = Asking(net, q)
  BY DEF Init
<1> HIDE DEF net
<1>5. network = [n \in DOMAIN net \cup {Number(net)} |->
                   IF n = Number(net) THEN Sent(q) ELSE net[n]]
  BY <1>4, AskingAdds
<1>6. \A n \in InNetwork : RequestOK(network[n])
  BY <1>3, <1>4, <1>5, SentOK DEF InNetwork
<1>7. spinner \in BOOLEAN /\ doubt \in BOOLEAN /\ onPage \in BOOLEAN
      /\ device_running \in BOOLEAN
  BY Zenon DEF Init
<1> QED
  BY <1>6, <1>7 DEF TypeOK, Init

LEMMA StepTypes == TypeOK /\ [Next]_vars => TypeOK'
<1> SUFFICES ASSUME TypeOK, [Next]_vars
             PROVE  TypeOK'
  OBVIOUS
<1>1. CASE UserStep
  BY <1>1, GotoDeviceTypes, ReloadTypes, UserTypes
<1>2. ASSUME NEW n \in Numbers, Serve(n) \/ Arrive(n) \/ GiveUp(n) \/ NeverServed(n)
      PROVE  TypeOK'
  BY <1>2, ServeTypes, ArriveTypes, FailTypes, LoseTypes
<1>3. CASE Hide \/ PollTimer
  BY <1>3, HideTypes, PollTypes
<1>4. CASE UNCHANGED vars
  <2>1. UNCHANGED <<spinner, hides, network, doubt, chain, device, shown, dirty,
                    editing, enabled, onPage, device_running, polls>>
    BY <1>4 DEF vars, pageVars, ownVars, fieldVars
  <2> QED
    BY <2>1 DEF TypeOK, InNetwork, RequestOK, Queries, Sections
<1> QED
  BY <1>1, <1>2, <1>3, <1>4 DEF Next

-----------------------------------------------------------------------------
(* The network of a page that can be trusted                               *)

\* What follows of a request is in its number and in its record.
LEMMA OthersAre ==
  /\ Others = {n \in DOMAIN network : network[n].query.do # "poll"}
  /\ Others' = {n \in DOMAIN network' : network'[n].query.do # "poll"}
  BY DEF Others, Polled, InNetwork

\* After a step that changes no more than polls
SameOthers ==
  /\ Others' = Others /\ \A n \in Others : network'[n] = network[n]
  /\ InNetwork' \subseteq Numbers
  /\ \A n \in InNetwork' : network'[n].awaited

\* After a step that leaves one request, or none
Alone(k) ==
  /\ Others' = {k}
  /\ InNetwork' \subseteq Numbers
  /\ \A n \in InNetwork' : network'[n].awaited

NoneLeft ==
  /\ Others' = {}
  /\ InNetwork' \subseteq Numbers
  /\ \A n \in InNetwork' : network'[n].awaited

\* A network of polls
OnlyPolls(net) ==
  /\ DOMAIN net \subseteq Numbers
  /\ \A n \in DOMAIN net : net[n].query.do = "poll" /\ net[n].awaited

\* A request that is no poll is alone among polls;
LEMMA AskedAlone ==
  ASSUME NEW net, OnlyPolls(net), DOMAIN net # Numbers,
         NEW q, q.do # "poll", network' = Asking(net, q)
  PROVE  Alone(Number(net)) /\ network'[Number(net)] = Sent(q)
<1> DEFINE k == Number(net)
<1>1. k \in Numbers \ DOMAIN net
  BY NumberIsFree DEF OnlyPolls
<1>2. network' = [n \in DOMAIN net \cup {k} |-> IF n = k THEN Sent(q) ELSE net[n]]
  BY AskingAdds
<1> HIDE DEF k
<1>3. network'[k] = Sent(q) /\ DOMAIN network' = DOMAIN net \cup {k}
      /\ \A n \in DOMAIN net : network'[n] = net[n]
  BY <1>1, <1>2
<1>4. Sent(q).query = q /\ Sent(q).awaited
  BY DEF Sent
<1> QED
  BY <1>1, <1>3, <1>4, OthersAre DEF Alone, OnlyPolls, InNetwork, k

\* a poll changes nothing about the others.
LEMMA PollAsked ==
  ASSUME OneAtATime, Room, network' = Asking(network, PollQuery)
  PROVE  SameOthers
<1> DEFINE k == Number(network)
<1>1. k \in Numbers \ DOMAIN network
  BY NumberIsFree DEF OneAtATime, Room, InNetwork
<1>2. network' = [n \in DOMAIN network \cup {k} |->
                    IF n = k THEN Sent(PollQuery) ELSE network[n]]
  BY AskingAdds
<1> HIDE DEF k
<1>3. network'[k] = Sent(PollQuery) /\ DOMAIN network' = DOMAIN network \cup {k}
      /\ \A n \in DOMAIN network : network'[n] = network[n]
  BY <1>1, <1>2
<1>4. Sent(PollQuery).query.do = "poll" /\ Sent(PollQuery).awaited
  BY KindsOfQueries DEF Sent
<1> QED
  BY <1>1, <1>3, <1>4, OthersAre DEF SameOthers, OneAtATime, InNetwork

\* An answer to a poll leaves with it.
LEMMA PollEnded ==
  ASSUME OneAtATime, NEW n, n \notin Others, network' = Ended(n)
  PROVE  SameOthers
<1>1. DOMAIN network' = DOMAIN network \ {n}
      /\ \A m \in DOMAIN network' : network'[m] = network[m]
  BY DEF Ended, InNetwork
<1> QED
  BY <1>1, OthersAre DEF SameOthers, OneAtATime, InNetwork

\* When the other request leaves there are only polls.
LEMMA OtherEnded ==
  ASSUME OneAtATime, NEW n \in Others
  PROVE  /\ OnlyPolls(Ended(n)) /\ DOMAIN Ended(n) # Numbers
         /\ network' = Ended(n) => NoneLeft
<1>1. DOMAIN Ended(n) = DOMAIN network \ {n}
      /\ \A m \in DOMAIN Ended(n) : Ended(n)[m] = network[m]
  BY DEF Ended, InNetwork
<1>2. OnlyPolls(Ended(n))
  BY <1>1, OthersAre DEF OnlyPolls, OneAtATime, InNetwork
<1>3. DOMAIN Ended(n) # Numbers
  BY <1>1, OthersAre DEF OneAtATime, InNetwork
<1> QED
  BY <1>2, <1>3, OthersAre DEF OnlyPolls, NoneLeft, InNetwork

\* The answer of an awaited request, and its refusal, change that one alone.
LEMMA ServedAwaited ==
  ASSUME TypeOK, OneAtATime, NEW n \in InNetwork, NEW a
  PROVE  /\ network' = Served(n, a) =>
              /\ DOMAIN network' = DOMAIN network
              /\ \A m \in DOMAIN network \ {n} : network'[m] = network[m]
              /\ network'[n].query = network[n].query /\ network'[n].awaited
              /\ network'[n].stage = "answered" /\ network'[n].answer = a
         /\ network' = Refused(n) /\ network[n].stage = "sent" =>
              /\ DOMAIN network' = DOMAIN network
              /\ \A m \in DOMAIN network \ {n} : network'[m] = network[m]
              /\ network'[n].query = network[n].query /\ network'[n].awaited
              /\ network'[n].stage = "refused"
<1> DEFINE q == network[n].query
<1>1. network[n].awaited
  BY DEF OneAtATime
<1>2. ASSUME network' = Served(n, a)
      PROVE  /\ DOMAIN network' = DOMAIN network
             /\ \A m \in DOMAIN network \ {n} : network'[m] = network[m]
             /\ network'[n].query = q /\ network'[n].awaited
             /\ network'[n].stage = "answered" /\ network'[n].answer = a
  <2> DEFINE r == [query |-> q, stage |-> "answered", awaited |-> TRUE, answer |-> a]
  <2>1. network' = [network EXCEPT ![n] = r]
    BY <1>1, <1>2 DEF Served
  <2>2. r.query = q /\ r.stage = "answered" /\ r.awaited /\ r.answer = a
    OBVIOUS
  <2> HIDE DEF r, q
  <2> QED
    BY <2>1, <2>2 DEF InNetwork
<1>3. ASSUME network' = Refused(n), network[n].stage = "sent"
      PROVE  /\ DOMAIN network' = DOMAIN network
             /\ \A m \in DOMAIN network \ {n} : network'[m] = network[m]
             /\ network'[n].query = q /\ network'[n].awaited
             /\ network'[n].stage = "refused"
  <2> DEFINE b == network[n].awaited
             r == [query |-> q, stage |-> "refused", awaited |-> b]
  <2>1. network' = [network EXCEPT ![n] = [network[n] EXCEPT !.stage = "refused"]]
    BY <1>1, <1>3 DEF Refused
  <2>2. network[n] = [query |-> q, stage |-> "sent", awaited |-> b]
    BY <1>3 DEF TypeOK, RequestOK
  <2>3. [network[n] EXCEPT !.stage = "refused"] = r
    <3> HIDE DEF q, b
    <3>1. [[query |-> q, stage |-> "sent", awaited |-> b] EXCEPT !.stage = "refused"]
            = r
      OBVIOUS
    <3> QED
      BY <2>2, <3>1, Zenon
  <2>4. r.query = q /\ r.stage = "refused" /\ r.awaited = b
    OBVIOUS
  <2>5. b
    BY <1>1
  <2> HIDE DEF r, q, b
  <2>6. network'[n] = r
    BY <2>1, <2>3 DEF InNetwork
  <2>7. DOMAIN network' = DOMAIN network
        /\ \A m \in DOMAIN network \ {n} : network'[m] = network[m]
    BY <2>1
  <2> QED
    BY <2>4, <2>5, <2>6, <2>7
<1> QED
  BY <1>2, <1>3

-----------------------------------------------------------------------------
(* What a step has to show for the page to be trusted after it             *)

\* What is trusted stays so when only polls move,
LEMMA AfterPolls ==
  ASSUME Trusted, SameOthers, chain' = chain,
         UNCHANGED <<spinner, hides, device, shown, dirty, enabled, onPage>>
  PROVE  Trusted'
<1>1. Sections' = Sections
  BY DEF Sections
<1>2. OneAtATime' /\ AnswersAreTrue' /\ LoadsInOrder'
  BY DEF Trusted, SameOthers, OneAtATime, AnswersAreTrue, LoadsInOrder
<1>3. LoadedThen' /\ ShowsOrSaves' /\ SavesWhatIsShown' /\ StartIsFetched'
  <2>1. Loading' = Loading
    BY DEF SameOthers, Loading
  <2>2. LoadedThen'
    BY <1>1, <2>1 DEF Trusted, LoadedThen
  <2>3. ShowsOrSaves'
    BY <1>1 DEF Trusted, SameOthers, ShowsOrSaves
  <2>4. SavesWhatIsShown'
    BY DEF Trusted, SameOthers, SavesWhatIsShown
  <2>5. StartIsFetched'
    BY DEF Trusted, StartIsFetched
  <2> QED
    BY <2>2, <2>3, <2>4, <2>5
<1> QED
  BY <1>2, <1>3 DEF Trusted

\* when the request that was under way has ended,
LEMMA AfterEnding ==
  ASSUME NoneLeft,
         onPage' => \A s \in Sections' : shown'[s] # "none",
         onPage' => \A s \in Sections' \ dirty' : shown'[s] \in {"none", device'[s]},
         StartIsFetched'
  PROVE  Trusted'
  BY DEF NoneLeft, Trusted, OneAtATime, AnswersAreTrue, LoadsInOrder, LoadedThen,
         Loading, ShowsOrSaves, SavesWhatIsShown

\* and when one has been asked.
LEMMA AfterAsking ==
  ASSUME NEW k, NEW q, Alone(k), network'[k] = Sent(q), onPage',
         q.then = "load" =>
           /\ spinner' /\ hides' = 0 /\ dirty' = {}
           /\ \E i \in DOMAIN chain' :
                /\ q.section = chain'[i]
                /\ \A j \in 1..i - 1 : shown'[chain'[j]] # "none",
         q.then # "load" => \A s \in Sections' : shown'[s] # "none",
         q.do = "save" =>
           q.section \in dirty' \/ q.value = shown'[q.section],
         \A s \in Sections' \ dirty' :
           shown'[s] \in {"none", device'[s]} \/ q = Saving(s, shown'[s]),
         StartIsFetched'
  PROVE  Trusted'
<1>1. network'[k].query = q /\ network'[k].stage = "sent"
  BY DEF Sent
<1>2. OneAtATime' /\ AnswersAreTrue'
  BY <1>1 DEF Alone, OneAtATime, AnswersAreTrue
<1>3. LoadsInOrder'
  BY <1>1 DEF Alone, LoadsInOrder
<1>4. LoadedThen'
  BY <1>1 DEF Alone, LoadedThen, Loading
<1>5. ShowsOrSaves' /\ SavesWhatIsShown'
  BY <1>1 DEF Alone, ShowsOrSaves, SavesWhatIsShown
<1> QED
  BY <1>2, <1>3, <1>4, <1>5 DEF Trusted

\* A click leaves no doubt only if at most polls were under way.
LEMMA QuietClick ==
  ASSUME PageInv, ~Doubted
  PROVE  /\ ~doubt /\ Trusted /\ Others = {} /\ ~Loading
         /\ OnlyPolls(network)
<1>1. ~doubt /\ Awaited \subseteq Polled
  BY DEF Doubted, DoubtedBut
<1>2. Trusted
  BY <1>1 DEF PageInv
<1>3. Others = {}
  BY <1>1, <1>2 DEF Trusted, OneAtATime, Others, Awaited
<1> QED
  BY <1>1, <1>2, <1>3, OthersAre DEF Loading, OnlyPolls, Trusted, OneAtATime, InNetwork

\* What is shown then
LEMMA QuietFields ==
  ASSUME Trusted, Others = {}, onPage
  PROVE  /\ \A s \in Sections : shown[s] # "none"
         /\ \A s \in Sections \ dirty : shown[s] = device[s]
<1>1. ~Loading
  BY DEF Loading
<1> QED
  BY <1>1 DEF Trusted, LoadedThen, ShowsOrSaves

-----------------------------------------------------------------------------
(* The steps of the user                                                   *)

\* The actions, one by one, as long as there is nothing to doubt
LEMMA LoadTrusted ==
  ASSUME TypeOK, NEW net, OnlyPolls(net), DOMAIN net # Numbers, Load(net), hides' = 0
  PROVE  Trusted'
<1> DEFINE q == Get(chain[1], "load")
           k == Number(net)
<1>1. q.do = "get" /\ q.then = "load" /\ q.section = chain[1]
  BY KindsOfQueries
<1>2. network' = Asking(net, q)
  BY DEF Load
<1> HIDE DEF q
<1>3. Alone(k) /\ network'[k] = Sent(q)
  BY <1>1, <1>2, AskedAlone
<1>4. /\ onPage' /\ spinner' /\ dirty' = {} /\ chain' = chain
      /\ shown' = [s \in Sections |-> "none"]
  BY DEF Load
<1>5. 1 \in DOMAIN chain /\ Sections' = Sections
  BY <1>4, ChainFacts DEF Sections
<1>6. StartIsFetched'
  <2>1. enabled' = Sections
    BY DEF Load
  <2> HIDE DEF Of
  <2> QED
    BY <1>4, <2>1, DevicePageAssumption DEF StartIsFetched
<1> HIDE DEF k
<1> QED
  BY <1>1, <1>3, <1>4, <1>5, <1>6, AfterAsking

LEMMA GotoDeviceTrusted ==
  ASSUME PageInv, GotoDevice, ~doubt'
  PROVE  Trusted'
<1>1. ~Doubted /\ ~(hides > 0) /\ hides' = hides
  BY DEF GotoDevice
<1>2. OnlyPolls(network)
  BY <1>1, QuietClick
<1>3. hides = 0
  BY <1>1 DEF PageInv, TypeOK
<1> QED
  BY <1>1, <1>2, <1>3, LoadTrusted DEF GotoDevice, Room, InNetwork, PageInv

LEMMA ReloadTrusted ==
  ASSUME PageInv, Reload, ~doubt'
  PROVE  Trusted'
<1> DEFINE kept == {n \in InNetwork : network[n].query.do \in {"save", "start"}
                                      /\ network[n].stage = "sent"}
           left == [m \in kept |-> [network[m] EXCEPT !.awaited = FALSE]]
<1>1. DOMAIN left # Numbers /\ Load(left) /\ hides' = 0 /\ DOMAIN left = {}
  BY DEF Reload
<1> HIDE DEF left
<1>2. OnlyPolls(left)
  BY <1>1 DEF OnlyPolls
<1> QED
  BY <1>1, <1>2, LoadTrusted DEF PageInv

LEMMA LeaveTrusted ==
  ASSUME PageInv, Leave, ~doubt'
  PROVE  Trusted'
<1>1. ~Doubted
  BY DEF Leave, Click
<1>2. Trusted /\ Others = {}
  BY <1>1, QuietClick
<1>3. NoneLeft
  BY <1>2, OthersAre DEF Leave, NoneLeft, Trusted, OneAtATime, InNetwork
<1>4. ~onPage'
  BY DEF Leave
<1> QED
  BY <1>3, <1>4, AfterEnding DEF StartIsFetched

\* A request that leaves the fields alone
LEMMA AskTrusted ==
  ASSUME PageInv, ~doubt, Others = {}, onPage, Room,
         NEW q, q.do \notin {"poll", "save"}, q.then # "load",
         network' = Asking(network, q), chain' = chain,
         UNCHANGED <<device, shown, dirty, enabled, onPage>>
  PROVE  Trusted'
<1>1. Trusted
  BY DEF PageInv
<1>2. OnlyPolls(network) /\ DOMAIN network # Numbers
  BY <1>1, OthersAre DEF OnlyPolls, Trusted, OneAtATime, InNetwork, Room
<1>3. Alone(Number(network)) /\ network'[Number(network)] = Sent(q)
  BY <1>2, AskedAlone
<1>4. /\ \A s \in Sections : shown[s] # "none"
      /\ \A s \in Sections \ dirty : shown[s] = device[s]
  BY <1>1, QuietFields
<1>5. Sections' = Sections /\ StartIsFetched'
  BY <1>1 DEF Sections, Trusted, StartIsFetched
<1> QED
  BY <1>3, <1>4, <1>5, AfterAsking

LEMMA RefreshTrusted ==
  ASSUME PageInv, NEW s \in Sections, Refresh(s), ~doubt'
  PROVE  Trusted'
<1>1. ~Doubted /\ onPage
  BY DEF Refresh, ClickOn, Click
<1>2. ~doubt /\ Others = {}
  BY <1>1, QuietClick
<1>3. UNCHANGED <<chain, device, shown, dirty, enabled, onPage>>
  BY DEF Refresh, ownVars, fieldVars
<1> DEFINE q == Get(s, "hide")
<1>4. q.do = "get" /\ q.then = "hide"
  BY KindsOfQueries
<1>5. Room /\ network' = Asking(network, q)
  BY DEF Refresh
<1> HIDE DEF q
<1> QED
  BY <1>1, <1>2, <1>3, <1>4, <1>5, AskTrusted

LEMMA SetClockTrusted ==
  ASSUME PageInv, SetClock, ~doubt'
  PROVE  Trusted'
<1>1. ~Doubted /\ onPage
  BY DEF SetClock, ClickOn, Click
<1>2. ~doubt /\ Others = {}
  BY <1>1, QuietClick
<1>3. UNCHANGED <<chain, device, shown, dirty, enabled, onPage>>
  BY DEF SetClock, ownVars, fieldVars
<1> DEFINE q == Acting("set", "datetime")
<1>4. q.do = "set" /\ q.then = "none"
  BY KindsOfQueries
<1>5. Room /\ network' = Asking(network, q)
  BY DEF SetClock, Acting
<1> HIDE DEF q
<1> QED
  BY <1>1, <1>2, <1>3, <1>4, <1>5, AskTrusted

LEMMA StartUpdateTrusted ==
  ASSUME PageInv, StartUpdate, ~doubt'
  PROVE  Trusted'
<1>1. ~Doubted /\ onPage
  BY DEF StartUpdate, ClickOn, Click
<1>2. ~doubt /\ Others = {}
  BY <1>1, QuietClick
<1>3. UNCHANGED <<chain, device, shown, dirty, enabled, onPage>>
  BY DEF StartUpdate, fieldVars
<1> DEFINE q == Acting("start", "ota")
<1>4. q.do = "start" /\ q.then = "none"
  BY KindsOfQueries
<1>5. Room /\ network' = Asking(network, q)
  BY DEF StartUpdate, Acting
<1> HIDE DEF q
<1> QED
  BY <1>1, <1>2, <1>3, <1>4, <1>5, AskTrusted

LEMMA EditButtonTrusted ==
  ASSUME PageInv, NEW s \in Sections, EditButton(s), ~doubt'
  PROVE  Trusted'
<1>1. Trusted
  BY QuietClick DEF EditButton, ClickOn, Click
<1>2. SameOthers
  BY <1>1, OthersAre DEF EditButton, SameOthers, Trusted, OneAtATime, InNetwork
<1> QED
  BY <1>1, <1>2, AfterPolls DEF EditButton, fieldVars

\* What is sent is what is shown.
LEMMA SaveTrusted ==
  ASSUME PageInv, NEW s \in Sections, Save(s), ~doubt'
  PROVE  Trusted'
<1>1. ~Doubted /\ onPage
  BY DEF Save, Sending, ClickOn, Click
<1>2. Trusted /\ Others = {} /\ OnlyPolls(network)
  BY <1>1, QuietClick
<1>3. /\ \A t \in Sections : shown[t] # "none"
      /\ \A t \in Sections \ dirty : shown[t] = device[t]
  BY <1>1, <1>2, QuietFields
<1> DEFINE q == Saving(s, shown[s])
           k == Number(network)
<1>4. q.do = "save" /\ q.section = s /\ q.value = shown[s] /\ q.then = "none"
  BY KindsOfQueries
<1>5. Room /\ network' = Asking(network, q) /\ dirty' = dirty \ {s}
      /\ UNCHANGED <<chain, device, shown, enabled, onPage>>
  BY <1>3 DEF Save, Sending, Saving
<1>6. \A t \in Sections \ dirty' : shown[t] = device[t] \/ q = Saving(t, shown[t])
  BY <1>3, <1>5
<1> HIDE DEF q
<1>7. Alone(k) /\ network'[k] = Sent(q)
  BY <1>2, <1>4, <1>5, AskedAlone DEF Room, InNetwork
<1> HIDE DEF k
<1>8. Sections' = Sections /\ StartIsFetched'
  BY <1>2, <1>5 DEF Sections, Trusted, StartIsFetched
<1> QED
  BY <1>1, <1>3, <1>4, <1>5, <1>6, <1>7, <1>8, AfterAsking

\* Only a section whose changes matter may be changed while it is saved.
LEMMA TypeTrusted ==
  ASSUME PageInv, NEW s \in Sections, NEW v \in Values, Type(s, v), ~doubt'
  PROVE  Trusted'
<1>1. /\ ~spinner /\ onPage
      /\ shown' = [shown EXCEPT ![s] = v] /\ dirty' = dirty \cup {s}
      /\ UNCHANGED <<spinner, hides, network, doubt, chain, device, onPage>>
  BY DEF Type, pageVars, Clickable
<1>2. Trusted
  BY <1>1 DEF PageInv
<1>3. ~Loading
  BY <1>1, <1>2 DEF Trusted, LoadsInOrder, Loading
<1>4. Sections' = Sections /\ shown \in [Sections -> Values \cup {"none"}]
  BY <1>1 DEF Sections, PageInv, TypeOK
<1>5. Others' = Others /\ network' = network /\ InNetwork' = InNetwork
  BY <1>1 DEF Others, Polled, InNetwork
<1>6. shown'[s] = v /\ \A t \in Sections \ {s} : shown'[t] = shown[t]
  BY <1>1, <1>4
<1>7. OneAtATime' /\ AnswersAreTrue'
  BY <1>1, <1>2, <1>5 DEF Trusted, OneAtATime, AnswersAreTrue
<1>8. LoadsInOrder'
  BY <1>3, <1>5 DEF LoadsInOrder, Loading
<1>9. LoadedThen'
  BY <1>1, <1>2, <1>3, <1>4, <1>6, DevicePageAssumption DEF Trusted, LoadedThen
<1>10. ShowsOrSaves'
  BY <1>1, <1>2, <1>4, <1>5, <1>6 DEF Trusted, ShowsOrSaves
<1>11. SavesWhatIsShown'
  <2> SUFFICES ASSUME NEW n \in Others, network[n].query.do = "save"
               PROVE  \/ network[n].query.section \in dirty'
                      \/ network[n].query.value = shown'[network[n].query.section]
    BY <1>5 DEF SavesWhatIsShown
  <2>1. network[n].query.section \in Sections
    BY WhatIsAsked DEF PageInv, TypeOK, RequestOK, Others
  <2> QED
    BY <1>1, <1>2, <1>6, <2>1 DEF Trusted, SavesWhatIsShown
<1>12. StartIsFetched'
  <2> SUFFICES ASSUME NEW t \in enabled', Of[t].button = "start"
               PROVE  t \notin dirty' /\ shown'[t] \notin Disabling
    BY DEF StartIsFetched
  <2>1. t # s /\ t \in enabled
    <3>1. enabled' \subseteq enabled \cup {s}
      BY DEF Type, Allowed
    <3>2. Of[s].button = "start" => s \notin enabled'
      BY DEF Type
    <3> HIDE DEF Of
    <3> QED
      BY <3>1, <3>2
  <2>2. t \in Sections
    BY <2>1 DEF PageInv, TypeOK
  <2> QED
    BY <1>1, <1>2, <1>6, <2>1, <2>2 DEF Trusted, StartIsFetched
<1> QED
  BY <1>7, <1>8, <1>9, <1>10, <1>11, <1>12 DEF Trusted

-----------------------------------------------------------------------------
(* The device serves a request                                             *)

LEMMA ServePollTrusted ==
  ASSUME PageInv, NEW n, Serve(n), n \notin Others, ~doubt'
  PROVE  Trusted'
<1>1. Trusted /\ TypeOK
  BY DEF Serve, PageInv
<1>2. n \in InNetwork /\ network[n].stage = "sent" /\ network[n].query.do = "poll"
  BY OthersAre DEF Serve, InNetwork
<1>3. UNCHANGED <<spinner, hides, chain, device, shown, dirty, enabled, onPage>>
  BY <1>2 DEF Serve, fieldVars
<1>4. network' = Refused(n) \/ \E a : network' = Served(n, a)
  BY DEF Serve
<1>5. /\ DOMAIN network' = DOMAIN network
      /\ \A m \in DOMAIN network \ {n} : network'[m] = network[m]
      /\ network'[n].query = network[n].query /\ network'[n].awaited
  BY <1>1, <1>2, <1>4, ServedAwaited DEF Trusted
<1>6. SameOthers
  BY <1>1, <1>2, <1>5, OthersAre DEF SameOthers, Trusted, OneAtATime, InNetwork
<1> QED
  BY <1>1, <1>3, <1>6, AfterPolls

LEMMA ServeOtherTrusted ==
  ASSUME PageInv, NEW n, Serve(n), n \in Others, ~doubt'
  PROVE  Trusted'
<1> DEFINE q == network[n].query
           done == IF q.do = "save" THEN [device EXCEPT ![q.section] = q.value]
                   ELSE device
<1>1. Trusted /\ TypeOK
  BY DEF Serve, PageInv
<1>2. n \in InNetwork /\ network[n].stage = "sent"
  BY DEF Serve
<1>3. q \in Queries
  BY <1>1, <1>2 DEF TypeOK, RequestOK
<1>4. UNCHANGED <<spinner, hides, chain, shown, dirty, enabled, onPage>>
  BY DEF Serve, fieldVars
<1>5. \/ device' \in {done, device} /\ network' = Refused(n)
      \/ /\ device' = done
         /\ \E a : network' = Served(n, a) /\ (q.do = "get" => a = device[q.section])
  <2> DEFINE answers == CASE q.do = "get"   -> {device[q.section]}
                          [] q.do = "start" -> {"rebooting", "no_update"}
                          [] OTHER          -> {"ok"}
  <2>1. \/ device' \in {done, device} /\ network' = Refused(n)
        \/ device' = done /\ \E a \in answers : network' = Served(n, a)
    BY DEF Serve
  <2>2. q.do = "get" => answers = {device[q.section]}
    OBVIOUS
  <2> HIDE DEF answers, done
  <2> QED
    BY <2>1, <2>2
<1> HIDE DEF done
<1>6. /\ DOMAIN network' = DOMAIN network
      /\ \A m \in DOMAIN network \ {n} : network'[m] = network[m]
      /\ network'[n].query = q /\ network'[n].awaited
      /\ \/ network'[n].stage = "refused"
         \/ /\ network'[n].stage = "answered" /\ device' = done
            /\ q.do = "get" => network'[n].answer = device[q.section]
  BY <1>1, <1>2, <1>5, ServedAwaited DEF Trusted
<1>7. Others = {n}
  BY <1>1 DEF Trusted, OneAtATime
<1>8. Others' = {n} /\ InNetwork' = InNetwork
  BY <1>6, <1>7, OthersAre DEF InNetwork
<1>9. OneAtATime'
  BY <1>1, <1>4, <1>6, <1>7, <1>8 DEF Trusted, OneAtATime, InNetwork
<1>10. /\ q.do # "save" => done = device
       /\ q.do = "save" =>
            /\ q.section \in Sections /\ done[q.section] = q.value
            /\ \A s \in Sections \ {q.section} : done[s] = device[s]
            /\ q = Saving(q.section, q.value)
  BY <1>1, <1>3, WhatIsAsked DEF TypeOK, done
<1>11. AnswersAreTrue'
  BY <1>6, <1>8, <1>10 DEF AnswersAreTrue
<1>12. LoadsInOrder'
  BY <1>1, <1>4, <1>6, <1>7, <1>8 DEF Trusted, LoadsInOrder
<1>13. Sections' = Sections
  BY <1>4 DEF Sections
<1>14. LoadedThen'
  BY <1>1, <1>4, <1>6, <1>7, <1>8, <1>13 DEF Trusted, LoadedThen, Loading
<1>15. SavesWhatIsShown'
  BY <1>1, <1>4, <1>6, <1>7, <1>8 DEF Trusted, SavesWhatIsShown
<1>16. ShowsOrSaves'
  <2> SUFFICES ASSUME onPage, NEW s \in Sections \ dirty
               PROVE  shown[s] \in {"none", device'[s]} \/ q = Saving(s, shown[s])
    BY <1>4, <1>6, <1>8, <1>13 DEF ShowsOrSaves
  <2>1. shown[s] \in {"none", device[s]} \/ q = Saving(s, shown[s])
    BY <1>1, <1>7 DEF Trusted, ShowsOrSaves
  <2>2. CASE q.do = "save" /\ q.section = s
    BY <1>1, <1>7, <1>10, <2>2 DEF Trusted, SavesWhatIsShown
  <2>3. CASE ~(q.do = "save" /\ q.section = s)
    BY <1>5, <1>10, <2>1, <2>3
  <2> QED
    BY <2>2, <2>3
<1>17. StartIsFetched'
  BY <1>1, <1>4 DEF Trusted, StartIsFetched
<1> QED
  BY <1>9, <1>11, <1>12, <1>14, <1>15, <1>16, <1>17 DEF Trusted

-----------------------------------------------------------------------------
(* An answer arrives                                                       *)

\* An answer that is awaited by a page that can be trusted
LEMMA Arriving ==
  ASSUME PageInv, NEW n, Arrive(n), n \in Others, ~doubt
  PROVE  /\ Trusted /\ onPage /\ Others = {n} /\ network[n].stage = "answered"
         /\ network[n].query \in Queries
         /\ OnlyPolls(Ended(n)) /\ DOMAIN Ended(n) # Numbers
         /\ network' = Ended(n) => NoneLeft
         /\ UNCHANGED <<spinner, doubt, chain, device, editing, onPage>>
         /\ Sections' = Sections
<1>1. Trusted /\ OneAtATime
  BY DEF PageInv, Trusted
<1>2. onPage /\ Others = {n}
  BY <1>1 DEF OneAtATime
<1>3. UNCHANGED <<spinner, doubt, chain, device, editing, onPage>>
  BY DEF Arrive
<1>4. n \in InNetwork /\ network[n].stage = "answered"
  BY DEF Arrive, Awaited
<1> QED
  BY <1>1, <1>2, <1>3, <1>4, OtherEnded DEF PageInv, TypeOK, RequestOK, Sections

LEMMA GetArrivesTrusted ==
  ASSUME PageInv, NEW n, Arrive(n), network[n].query.do = "get", ~doubt,
         n \in Others
  PROVE  Trusted'
<1> DEFINE q == network[n].query
           s == q.section
           v == network[n].answer
<1>1. /\ Trusted /\ onPage /\ Others = {n} /\ network[n].stage = "answered"
      /\ q \in Queries
      /\ OnlyPolls(Ended(n)) /\ DOMAIN Ended(n) # Numbers
      /\ network' = Ended(n) => NoneLeft
      /\ UNCHANGED <<spinner, doubt, chain, device, editing, onPage>>
      /\ Sections' = Sections
  BY Arriving
<1>2. GetArrives(n)
  BY DEF Arrive
<1>3. s \in Sections /\ v = device[s] /\ v \in Values /\ v # "none"
  <2>1. v = device[s]
    BY <1>1 DEF Trusted, AnswersAreTrue
  <2>2. s \in Sections
    BY <1>1, WhatIsAsked
  <2> QED
    BY <2>1, <2>2, DevicePageAssumption DEF PageInv, TypeOK
<1>4. /\ shown' = [shown EXCEPT ![s] = v] /\ dirty' = dirty \ {s}
      /\ enabled' = Allowed(s, v)
  BY <1>1, <1>2 DEF GetArrives, Update
<1>5. shown'[s] = v /\ \A t \in Sections \ {s} : shown'[t] = shown[t]
  BY <1>3, <1>4 DEF PageInv, TypeOK
<1>6. \A t \in Sections \ dirty' : shown'[t] \in {"none", device'[t]}
  <2> SUFFICES ASSUME NEW t \in Sections \ dirty'
               PROVE  shown'[t] \in {"none", device[t]}
    BY <1>1
  <2>1. CASE t = s
    BY <1>3, <1>5, <2>1
  <2>2. CASE t # s
    <3>1. shown[t] \in {"none", device[t]} \/ q = Saving(t, shown[t])
      BY <1>1, <1>4, <2>2 DEF Trusted, ShowsOrSaves
    <3>2. q # Saving(t, shown[t])
      BY KindsOfQueries
    <3> QED
      BY <1>5, <2>2, <3>1, <3>2
  <2> QED
    BY <2>1, <2>2
<1>7. StartIsFetched'
  <2> SUFFICES ASSUME NEW t \in enabled', Of[t].button = "start"
               PROVE  t \notin dirty' /\ shown'[t] \notin Disabling
    BY DEF StartIsFetched
  <2>1. CASE t = s
    <3>1. v \notin Disabling
      <4> HIDE DEF Of
      <4> QED
        BY <1>4, <2>1 DEF Allowed
    <3> QED
      BY <1>4, <1>5, <2>1, <3>1
  <2>2. CASE t # s
    <3>1. t \in enabled
      BY <1>4, <2>2 DEF Allowed
    <3>2. t \in Sections
      BY <3>1 DEF PageInv, TypeOK
    <3> QED
      BY <1>1, <1>4, <1>5, <2>2, <3>1, <3>2 DEF Trusted, StartIsFetched
  <2> QED
    BY <2>1, <2>2
\* A section that was fetched alone: all others are there.
<1>8. CASE q.then # "load"
  <2>1. network' = Ended(n)
    BY <1>2, <1>8 DEF GetArrives
  <2>2. ~Loading
    BY <1>1, <1>8 DEF Loading
  <2>3. \A t \in Sections : shown'[t] # "none"
    BY <1>1, <1>3, <1>5, <2>2 DEF Trusted, LoadedThen
  <2> QED
    BY <1>1, <1>6, <1>7, <2>1, <2>3, AfterEnding
\* The next section is asked for, or there is none.
<1>9. CASE q.then = "load"
  <2> DEFINE here == CHOOSE i \in DOMAIN chain : chain[i] = s
  <2>1. PICK k \in DOMAIN chain :
           s = chain[k] /\ \A j \in 1..k - 1 : shown[chain[j]] # "none"
    BY <1>1, <1>9 DEF Trusted, LoadsInOrder
  <2>2. here = k
    BY <2>1, ChainFacts DEF PageInv
  <2>3. spinner /\ hides = 0 /\ dirty = {}
    BY <1>1, <1>9 DEF Trusted, LoadsInOrder
  <2>4. DOMAIN chain = 1..Len(chain) /\ Len(chain) \in Nat
        /\ \A i \in DOMAIN chain : chain[i] \in Sections
    BY ChainFacts DEF PageInv
  <2>5. \A j \in 1..k : shown'[chain[j]] # "none"
    <3> SUFFICES ASSUME NEW j \in 1..k
                 PROVE  shown'[chain[j]] # "none"
      OBVIOUS
    <3>1. chain[j] \in Sections
      BY <2>4
    <3>2. chain[j] = s \/ j \in 1..k - 1
      BY <2>1, <2>4
    <3> QED
      BY <1>3, <1>5, <2>1, <3>1, <3>2
  <2>6. CASE k = Len(chain)
    <3>1. network' = Ended(n)
      BY <1>2, <1>9, <2>2, <2>6 DEF GetArrives
    <3>2. \A t \in Sections : shown'[t] # "none"
      BY <2>4, <2>5, <2>6 DEF Sections
    <3> QED
      BY <1>1, <1>6, <1>7, <3>1, <3>2, AfterEnding
  <2>7. CASE k # Len(chain)
    <3> DEFINE next == Get(chain[k + 1], "load")
               new == Number(Ended(n))
    <3>1. network' = Asking(Ended(n), next) /\ hides' = hides
      BY <1>2, <1>9, <2>2, <2>7 DEF GetArrives
    <3>2. next.do = "get" /\ next.then = "load" /\ next.section = chain[k + 1]
      BY KindsOfQueries
    <3>3. k + 1 \in DOMAIN chain /\ (k + 1) - 1 = k
      BY <2>4, <2>7
    <3> HIDE DEF next
    <3>4. Alone(new) /\ network'[new] = Sent(next)
      BY <1>1, <3>1, <3>2, AskedAlone
    <3>5. dirty' = {} /\ spinner' /\ hides' = 0 /\ onPage'
      BY <1>1, <1>4, <2>3, <3>1
    <3>6. \E i \in DOMAIN chain' :
            /\ next.section = chain'[i]
            /\ \A j \in 1..i - 1 : shown'[chain'[j]] # "none"
      BY <1>1, <2>5, <3>2, <3>3
    <3> HIDE DEF new
    <3> QED
      BY <1>1, <1>6, <1>7, <3>2, <3>4, <3>5, <3>6, AfterAsking
  <2> QED
    BY <2>6, <2>7
<1> QED
  BY <1>8, <1>9

\* What was saved is on the device, and shown unless it has been changed since.
LEMMA SaveArrivesTrusted ==
  ASSUME PageInv, NEW n, Arrive(n), network[n].query.do \in {"save", "set"}, ~doubt,
         n \in Others
  PROVE  Trusted'
<1> DEFINE q == network[n].query
           s == q.section
<1>1. /\ Trusted /\ onPage /\ Others = {n} /\ network[n].stage = "answered"
      /\ q \in Queries
      /\ OnlyPolls(Ended(n)) /\ DOMAIN Ended(n) # Numbers
      /\ network' = Ended(n) => NoneLeft
      /\ UNCHANGED <<spinner, doubt, chain, device, editing, onPage>>
      /\ Sections' = Sections
  BY Arriving
<1>2. SaveArrives(n)
  BY DEF Arrive
<1>3. UNCHANGED <<shown, dirty, enabled>>
  BY <1>2 DEF SaveArrives, fieldVars
<1>4. q.then # "load"
  BY <1>1, WhatIsAsked
<1>5. \A t \in Sections : shown[t] # "none"
  BY <1>1, <1>4 DEF Trusted, LoadedThen, Loading
<1>6. \A t \in Sections \ dirty : shown[t] = device[t]
  <2> SUFFICES ASSUME NEW t \in Sections \ dirty
               PROVE  shown[t] = device[t]
    OBVIOUS
  <2>1. CASE shown[t] \in {"none", device[t]}
    BY <1>5, <2>1
  <2>2. CASE q = Saving(t, shown[t])
    <3>1. q.do = "save" /\ q.section = t /\ q.value = shown[t]
      BY <2>2, KindsOfQueries
    <3> QED
      BY <1>1, <3>1 DEF Trusted, AnswersAreTrue
  <2> QED
    BY <1>1, <2>1, <2>2 DEF Trusted, ShowsOrSaves
<1>7. StartIsFetched'
  BY <1>1, <1>3 DEF Trusted, StartIsFetched
<1>8. CASE network' = Ended(n)
  BY <1>1, <1>3, <1>5, <1>6, <1>7, <1>8, AfterEnding
<1>9. CASE network' = Asking(Ended(n), Get(s, "hide"))
  <2> DEFINE next == Get(s, "hide")
             new == Number(Ended(n))
  <2>1. next.do = "get" /\ next.then = "hide"
    BY KindsOfQueries
  <2>2. network' = Asking(Ended(n), next)
    BY <1>9
  <2> HIDE DEF next
  <2>3. Alone(new) /\ network'[new] = Sent(next)
    BY <1>1, <2>1, <2>2, AskedAlone
  <2> HIDE DEF new
  <2> QED
    BY <1>1, <1>3, <1>5, <1>6, <1>7, <2>1, <2>3, AfterAsking
<1> QED
  BY <1>2, <1>8, <1>9 DEF SaveArrives

LEMMA UpdateStartsTrusted ==
  ASSUME PageInv, NEW n, Arrive(n), network[n].query.do = "start", ~doubt,
         n \in Others
  PROVE  Trusted'
<1> DEFINE q == network[n].query
<1>1. /\ Trusted /\ onPage /\ Others = {n} /\ q \in Queries
      /\ network' = Ended(n) => NoneLeft
      /\ UNCHANGED <<spinner, doubt, chain, device, editing, onPage>>
      /\ Sections' = Sections
  BY Arriving
<1>2. network' = Ended(n) /\ UNCHANGED <<shown, dirty, enabled>>
  BY DEF Arrive, UpdateStarts, fieldVars
<1>3. q.then # "load"
  BY <1>1, WhatIsAsked
<1>4. \A t \in Sections : shown[t] # "none"
  BY <1>1, <1>3 DEF Trusted, LoadedThen, Loading
<1>5. \A t \in Sections \ dirty : shown[t] = device[t]
  BY <1>1, <1>4, KindsOfQueries DEF Trusted, ShowsOrSaves
<1>6. StartIsFetched'
  BY <1>1, <1>2 DEF Trusted, StartIsFetched
<1> QED
  BY <1>1, <1>2, <1>4, <1>5, <1>6, AfterEnding

LEMMA ArriveTrusted ==
  ASSUME PageInv, NEW n, Arrive(n), ~doubt'
  PROVE  Trusted'
<1>1. ~doubt /\ Trusted
  BY DEF Arrive, PageInv
<1>2. n \in InNetwork /\ network[n].query \in Queries
  BY DEF Arrive, Awaited, PageInv, TypeOK, RequestOK
<1>3. CASE network[n].query.do = "poll"
  <2>1. n \notin Others /\ network' = Ended(n)
    BY <1>3, OthersAre DEF Arrive, PollArrives
  <2>2. SameOthers
    BY <1>1, <2>1, PollEnded DEF Trusted
  <2>3. UNCHANGED <<spinner, hides, chain, device, shown, dirty, enabled, onPage>>
    BY <1>3 DEF Arrive, PollArrives, fieldVars
  <2> QED
    BY <1>1, <2>2, <2>3, AfterPolls
<1>4. CASE network[n].query.do # "poll"
  <2>1. n \in Others
    BY <1>2, <1>4, OthersAre DEF InNetwork
  <2> QED
    BY <1>1, <1>2, <1>4, <2>1, WhatIsAsked, GetArrivesTrusted, SaveArrivesTrusted,
       UpdateStartsTrusted
<1> QED
  BY <1>3, <1>4

-----------------------------------------------------------------------------
(* Requests that are given up, timers, and the first state                 *)

\* No request of a page that can be trusted has been given up.
LEMMA NeverServedTrusted ==
  ASSUME PageInv, NEW n, NeverServed(n), ~doubt'
  PROVE  Trusted'
<1>1. ~doubt /\ n \in InNetwork /\ n \notin Awaited
  BY DEF NeverServed, Lose
<1>2. OneAtATime
  BY <1>1 DEF PageInv, Trusted
<1> QED
  BY <1>1, <1>2 DEF OneAtATime, Awaited

\* The spinner is not hidden while the page is loaded.
LEMMA HideTrusted ==
  ASSUME PageInv, Hide, ~doubt'
  PROVE  Trusted'
<1>1. /\ hides > 0
      /\ UNCHANGED <<network, doubt, chain, device, shown, dirty, enabled, onPage>>
  BY DEF Hide, HideTimer, ownVars, fieldVars
<1>2. Trusted
  BY <1>1 DEF PageInv
<1>3. Sections' = Sections /\ Others' = Others /\ InNetwork' = InNetwork
  BY <1>1 DEF Sections, Others, Polled, InNetwork
<1>4. \A n \in Others : network[n].query.then # "load"
  BY <1>1, <1>2 DEF Trusted, LoadsInOrder
<1>5. LoadsInOrder'
  BY <1>1, <1>3, <1>4 DEF LoadsInOrder
<1>6. LoadedThen'
  BY <1>1, <1>2, <1>3 DEF Trusted, LoadedThen, Loading
<1>7. OneAtATime' /\ AnswersAreTrue'
  BY <1>1, <1>2, <1>3 DEF Trusted, OneAtATime, AnswersAreTrue
<1>8. ShowsOrSaves' /\ SavesWhatIsShown' /\ StartIsFetched'
  BY <1>1, <1>2, <1>3 DEF Trusted, ShowsOrSaves, SavesWhatIsShown, StartIsFetched
<1> QED
  BY <1>5, <1>6, <1>7, <1>8 DEF Trusted

LEMMA PollTimerTrusted ==
  ASSUME PageInv, PollTimer, ~doubt'
  PROVE  Trusted'
<1>1. /\ UNCHANGED <<spinner, hides, chain, device, shown, dirty, enabled, onPage>>
      /\ ~doubt
  BY DEF PollTimer, fieldVars
<1>2. Trusted
  BY <1>1 DEF PageInv
<1>3. \/ Room /\ network' = Asking(network, PollQuery)
      \/ network' = network
  BY DEF PollTimer
<1>4. CASE network' = network
  <2>1. SameOthers
    BY <1>2, <1>4, OthersAre DEF SameOthers, Trusted, OneAtATime, InNetwork
  <2> QED
    BY <1>1, <1>2, <2>1, AfterPolls
<1>5. CASE Room /\ network' = Asking(network, PollQuery)
  <2>1. SameOthers
    BY <1>2, <1>5, PollAsked DEF Trusted
  <2> QED
    BY <1>1, <1>2, <2>1, AfterPolls
<1> QED
  BY <1>3, <1>4, <1>5

LEMMA UnchangedTrusted ==
  ASSUME PageInv, UNCHANGED vars, ~doubt'
  PROVE  Trusted'
<1>1. UNCHANGED <<spinner, hides, network, doubt, chain, device, shown, dirty,
                  enabled, onPage>>
  BY DEF vars, pageVars, ownVars, fieldVars
<1>2. Trusted
  BY <1>1 DEF PageInv
<1>3. SameOthers
  BY <1>1, <1>2, OthersAre DEF SameOthers, Trusted, OneAtATime, InNetwork
<1> QED
  BY <1>1, <1>2, <1>3, AfterPolls

\* The invariant of the page
LEMMA InitTrusted == Init => Trusted
<1> SUFFICES ASSUME Init
             PROVE  Trusted
  OBVIOUS
<1> DEFINE net == <<>>
           q == Get(chain[1], "load")
           k == Number(net)
<1>1. DOMAIN net = {} /\ network = Asking(net, q)
  BY DEF Init
<1>2. q.do = "get" /\ q.then = "load" /\ q.section = chain[1]
  BY KindsOfQueries
<1>3. 1 \in DOMAIN chain
  <2>1. TypeOK
    BY InitTypes
  <2> QED
    BY <2>1, ChainFacts
<1>4. /\ onPage /\ spinner /\ hides = 0 /\ dirty = {}
      /\ shown = [s \in Sections |-> "none"] /\ enabled = Sections
  BY DEF Init
<1> HIDE DEF net, q
<1>5. network = [n \in DOMAIN net \cup {k} |-> IF n = k THEN Sent(q) ELSE net[n]]
  BY <1>1, AskingAdds
<1>6. Numbers # {}
  BY PageAssumption DEF Numbers
<1>7. k \in Numbers
  BY <1>1, <1>6, NumberIsFree
<1> HIDE DEF k
<1>8. DOMAIN network = {k} /\ network[k] = Sent(q)
  BY <1>1, <1>5
<1>9. network[k].query = q /\ network[k].stage = "sent" /\ network[k].awaited
  BY <1>8 DEF Sent
<1>10. InNetwork = {k} /\ Others = {k}
  BY <1>2, <1>8, <1>9 DEF InNetwork, Others, Polled
<1>11. OneAtATime /\ AnswersAreTrue
  BY <1>4, <1>7, <1>9, <1>10 DEF OneAtATime, AnswersAreTrue
<1>12. LoadsInOrder
  BY <1>2, <1>3, <1>4, <1>9, <1>10 DEF LoadsInOrder
<1>13. LoadedThen
  BY <1>2, <1>9, <1>10 DEF LoadedThen, Loading
<1>14. ShowsOrSaves
  BY <1>4 DEF ShowsOrSaves
<1>15. SavesWhatIsShown
  BY <1>2, <1>9, <1>10 DEF SavesWhatIsShown
<1>16. StartIsFetched
  <2> HIDE DEF Of
  <2> QED
    BY <1>4, DevicePageAssumption DEF StartIsFetched
<1> QED
  BY <1>11, <1>12, <1>13, <1>14, <1>15, <1>16 DEF Trusted

-----------------------------------------------------------------------------
(* The invariant                                                           *)

LEMMA StepTrusted ==
  ASSUME PageInv, [Next]_vars, ~doubt'
  PROVE  Trusted'
<1>1. CASE GotoDevice \/ Reload \/ Leave
  BY <1>1, GotoDeviceTrusted, ReloadTrusted, LeaveTrusted
<1>2. ASSUME NEW s \in Sections, Refresh(s) \/ EditButton(s) \/ Save(s)
      PROVE  Trusted'
  BY <1>2, RefreshTrusted, EditButtonTrusted, SaveTrusted
<1>3. ASSUME NEW s \in Sections, NEW v \in Values, Type(s, v)
      PROVE  Trusted'
  BY <1>3, TypeTrusted
<1>4. CASE SetClock \/ StartUpdate
  BY <1>4, SetClockTrusted, StartUpdateTrusted
<1>5. ASSUME NEW n \in Numbers, Serve(n)
      PROVE  Trusted'
  BY <1>5, ServePollTrusted, ServeOtherTrusted
<1>6. ASSUME NEW n \in Numbers, Arrive(n) \/ NeverServed(n)
      PROVE  Trusted'
  BY <1>6, ArriveTrusted, NeverServedTrusted
<1>7. ASSUME NEW n \in Numbers, GiveUp(n)
      PROVE  Trusted'
  BY <1>7 DEF GiveUp, Fail, query_err
<1>8. CASE Hide \/ PollTimer
  BY <1>8, HideTrusted, PollTimerTrusted
<1> QED
  BY <1>1, <1>2, <1>3, <1>4, <1>5, <1>6, <1>7, <1>8, UnchangedTrusted
     DEF Next, UserStep

LEMMA PageInvariant == Spec => []PageInv
<1>1. Init => PageInv
  BY InitTypes, InitTrusted DEF PageInv
<1>2. PageInv /\ [Next]_vars => PageInv'
  BY StepTypes, StepTrusted DEF PageInv
<1> QED
  BY <1>1, <1>2, PTL DEF Spec

-----------------------------------------------------------------------------
(* The theorems                                                            *)

\* When only polls are under way, what the page shows unchanged is what the
\* device has, section by section: for pages of any sections, whatever is
\* typed, refused or late, and whether or not a save is followed by a fetch.
THEOREM ShownIsOnTheDevice == Spec => []ShownIsTrue
<1>1. PageInv => ShownIsTrue
  BY DEF PageInv, Trusted, ShownIsTrue, ShowsOrSaves, Others
<1> QED
  BY <1>1, PageInvariant, PTL

\* Only the answer to a click on a section takes away what was typed in it,
\* and the polls, which are answered at any time, never do.
THEOREM TypingIsKept == Spec => EditsAreKept
<1>1. ASSUME PageInv, NEW n \in Awaited, Arrive(n), ~doubt,
             NEW s \in dirty \ dirty'
      PROVE  network[n].query = Get(s, "hide")
  <2> DEFINE q == network[n].query
  <2>1. n \in InNetwork /\ q \in Queries /\ Trusted
    BY <1>1 DEF Awaited, PageInv, TypeOK, RequestOK
  <2>2. CASE q.do = "get"
    <3>1. n \in Others
      BY <2>1, <2>2, OthersAre DEF InNetwork
    <3>2. q.section = s
      BY <1>1, <2>2 DEF Arrive, GetArrives, Update, fieldVars
    <3>3. q.then # "load"
      BY <1>1, <2>1, <3>1 DEF Trusted, LoadsInOrder
    <3> QED
      BY <2>1, <2>2, <3>2, <3>3, WhatIsAsked
  <2>3. CASE q.do # "get"
    <3>1. dirty' = dirty
      BY <1>1, <2>3 DEF Arrive, PollArrives, UpdateStarts, SaveArrives, fieldVars
    <3> QED
      BY <1>1, <3>1
  <2> QED
    BY <2>2, <2>3
<1>2. PageInv /\ [Next]_vars =>
        [\A n \in Awaited : Arrive(n) /\ ~doubt =>
           \A s \in dirty \ dirty' : network[n].query = Get(s, "hide")]_vars
  BY <1>1
<1> QED
  BY <1>2, PageInvariant, PTL DEF Spec, EditsAreKept

\* An update is started only from a host and a path the device has, and shown:
\* the button is enabled by nothing but an answer, and disabled by any change.
THEOREM UpdatesStartFromTheDevice == Spec => UpdateIsFromWhatIsShown
<1>1. ASSUME PageInv, StartUpdate, InNetwork \subseteq Polled, ~doubt
      PROVE  shown["ota"] = device["ota"] /\ shown["ota"] \notin Disabling
  <2>1. onPage /\ "ota" \in Sections /\ "ota" \in enabled
    BY <1>1 DEF StartUpdate, ClickOn
  <2>2. Trusted /\ Others = {}
    BY <1>1 DEF PageInv, Others
  <2>3. Of["ota"].button = "start"
    BY DEF Of, ota, Section
  <2>4. "ota" \notin dirty /\ shown["ota"] \notin Disabling
    BY <2>1, <2>2, <2>3 DEF Trusted, StartIsFetched
  <2> QED
    BY <2>1, <2>2, <2>4, QuietFields
<1>2. PageInv /\ [Next]_vars =>
        [StartUpdate /\ InNetwork \subseteq Polled /\ ~doubt =>
           shown["ota"] = device["ota"] /\ shown["ota"] \notin Disabling]_vars
  BY <1>1
<1> QED
  BY <1>2, PageInvariant, PTL DEF Spec, UpdateIsFromWhatIsShown
=============================================================================
