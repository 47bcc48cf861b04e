-------------------------- MODULE ContactLifecycle --------------------------
(***************************************************************************)
(* What the state machine promises of the contacts, whatever requests are  *)
(* running: one status of one contact changes at a time, only along a row  *)
(* of its transition table.  This is the abstract specification;           *)
(* MatchDecision implements it with concurrent multi-statement             *)
(* transactions and an optimistic version.                                 *)
(***************************************************************************)
EXTENDS StateMachine

CONSTANT Contacts

VARIABLE status   \* status[c]: the two status columns of contact c

Init == status \in [Contacts -> ContactStatus]

(* Some actor moves one side of a contact along one row of its table. *)
Move(c, kind, to) ==
  /\ status' = [status EXCEPT ![c][kind] = to]
  /\ \E row \in Transitions[kind] : row.from = FromState(status[c][kind]) /\ row.to = to

Next == \E c \in Contacts, kind \in Kinds : \E to \in StateOf(kind) : Move(c, kind, to)

Spec == Init /\ [][Next]_status
=============================================================================
