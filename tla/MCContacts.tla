----------------------------- MODULE MCContacts -----------------------------
(* Small instances of Contacts for TLC. *)
EXTENDS Contacts

Body(name, logic, status) ==
  [syntax_ok |-> TRUE, name |-> name, logic |-> logic,
   status_at_boot |-> status]

\* settings that differ in the default status alone, and in the logic, and
\* numbers one out of range: what is undefined is so before the first PUT
MCBodies ==
  {Body("lamp", 1, 1), Body("lamp", 1, 2), Body("pump", 2, 1),
   Body("lamp", 3, 1), Body("lamp", -1, 1), Body("lamp", 1, 3),
   [Body("lamp", 1, 1) EXCEPT !.syntax_ok = FALSE]}

MCNames == {"lamp", "pump"}
MCPage == {"unprovisioned", "output", "high"}
=============================================================================
