---------------------------- MODULE CommandStore ----------------------------
(***************************************************************************)
(* What the command list promises a client while the device keeps its      *)
(* power: a table of commands by id, the ids registered with cron, and the *)
(* table the next restart would find.                                      *)
(***************************************************************************)
CONSTANT Ids

VARIABLES
  commands,    \* a function from the ids in use to commands
  scheduled,   \* the ids of the commands cron runs
  saved,       \* the table in the file
  answer       \* the answer to the last request

vars == <<commands, scheduled, saved, answer>>

Empty == <<>>

Init ==
  /\ commands = Empty
  /\ scheduled = {}
  /\ saved = Empty
  /\ answer = "none"

\* A command is registered only if it is enabled, and an enabled one may be
\* turned away by cron; the others keep their registration.
Schedule(id) ==
  \/ scheduled' = scheduled \ {id}
  \/ /\ id \in DOMAIN commands' /\ commands'[id].enabled
     /\ scheduled' = scheduled \cup {id}

\* "done" is not answered unless the file holds the new table; else the file
\* is the old one or has none.
Save ==
  \/ saved' = commands' /\ answer' = "done"
  \/ saved' \in {saved, Empty} /\ answer' = "not_saved"

\* a table but for the entry of one id
Rest(table, id) == [k \in DOMAIN table \ {id} |-> table[k]]

\* A request about one id leaves the rest alone.
Change(id) ==
  /\ Save
  /\ Schedule(id)
  /\ Rest(commands', id) = Rest(commands, id)

Add     == \E id \in Ids \ DOMAIN commands : id \in DOMAIN commands' /\ Change(id)
Replace == \E id \in DOMAIN commands : id \in DOMAIN commands' /\ Change(id)
Remove  == \E id \in DOMAIN commands : id \notin DOMAIN commands' /\ Change(id)

\* a question, a refused request or a minute of cron
Look ==
  /\ answer' \in {"none", "done", "refused"}
  /\ UNCHANGED <<commands, scheduled, saved>>

Next == Look \/ Add \/ Replace \/ Remove

Spec == Init /\ [][Next]_vars
=============================================================================
