----------------------- MODULE CommandListRefinement -----------------------
(***************************************************************************)
(* The command list of a device that keeps its power implements the        *)
(* abstract CommandStore: the slot, the job number, the position in the    *)
(* file and the heap do not show.                                          *)
(***************************************************************************)
EXTENDS CommandList

\* the commands of a list by their id
Commands(list) ==
  [id \in {list[s].id : s \in Live(list)} |->
     TextOf(list[CHOOSE s \in Slots : list[s].id = id])]

\* the commands of a text by their id
CommandsIn(text) ==
  [id \in {text[p].id : p \in DOMAIN text} |->
     text[CHOOSE p \in DOMAIN text : text[p].id = id]]

\* the ids of the commands that jobs run
ScheduledIds(list, js) == {list[j.slot].id : j \in js}

Outcome(status) == CASE status = "none"          -> "none"
                     [] status \in {"OK", "HEAP"} -> "done"
                     [] status = "BAD_REQUEST"   -> "refused"
                     [] status = "NOT_SAVED"     -> "not_saved"

Store == INSTANCE CommandStore WITH
  Ids       <- Slots,
  commands  <- Commands(command_list),
  scheduled <- ScheduledIds(command_list, jobs),
  saved     <- CommandsIn(command_cfg.text),
  answer    <- Outcome(reply.status)

\* Every behaviour of the list without a restart is one of the store: each
\* request adds, replaces or removes one command, wherever it is kept, and
\* says whether the file has the new table.
ImplementsStore == Store!Spec
=============================================================================
