---------------------------- MODULE StateMachine ----------------------------
(***************************************************************************)
(* The transition tables of domain/state_machine.py, as sets of rows       *)
(*                                                                         *)
(*     [from |-> s, to |-> t, role |-> r, event |-> e]                     *)
(*                                                                         *)
(* one row per actor role a cell of the Python table allows.  The adopter  *)
(* and the facilitator side of a contact are two such tables; the handler  *)
(* _transition_generic is shared.                                          *)
(***************************************************************************)

(* contacts.adopter_status / facilitator_status may be NULL: a contact that
   came in as a facilitator has no adopter status, and conversely.          *)
Null == "null"

Kinds == {"adopter", "facilitator"}

AdopterState ==
  {"draft", "new", "potential_adopter", "contacted", "engaged", "matched",
   "sent_back", "active", "inactive", "do_not_engage"}

FacilitatorState == {"draft", "new", "not_ready", "ready", "do_not_engage"}

StateOf(kind) == IF kind = "adopter" THEN AdopterState ELSE FacilitatorState

(* One row of contacts, as far as the state machine reads it. *)
ContactStatus == [adopter : AdopterState \cup {Null},
                  facilitator : FacilitatorState \cup {Null}]

-----------------------------------------------------------------------------
(* Roles *)

AnyRole == {"staff_admin", "adoption_manager", "triage_facilitator", "facilitator"}
ManagerOrAdmin == {"adoption_manager", "staff_admin"}
ManagerTriageAdmin == ManagerOrAdmin \cup {"triage_facilitator"}
FacilitatorOrAdmin == {"facilitator", "staff_admin"}

(* _pick_actor_role: the most privileged of the actor's roles is the one the
   table is consulted with, and the only one.                               *)
PickActorRole(roles) ==
  CASE "staff_admin" \in roles        -> "staff_admin"
    [] "adoption_manager" \in roles   -> "adoption_manager"
    [] "triage_facilitator" \in roles -> "triage_facilitator"
    [] OTHER                          -> "facilitator"

-----------------------------------------------------------------------------
(* Tables *)

(* Every row that moves a contact from one of the states `from' to one of the
   states `to', for each of the roles, emitting `event'.                    *)
Rows(from, to, roles, event) ==
  [from : from, to : to, role : roles, event : {event}]

(* The pre-match funnel, in order; a correction moves strictly backwards. *)
Backwards ==
  {<<"potential_adopter", "new">>, <<"contacted", "new">>,
   <<"contacted", "potential_adopter">>, <<"engaged", "new">>,
   <<"engaged", "potential_adopter">>, <<"engaged", "contacted">>}
  \cup ({"new", "potential_adopter", "contacted", "engaged"} \X {"draft"})

AdopterTransitions ==
  Rows({"draft"}, {"new"}, AnyRole, "contact.submitted")
  \cup Rows({"new"}, {"potential_adopter"}, ManagerTriageAdmin, "contact.triaged_no_fpg")
  \cup Rows({"new"}, {"contacted"}, ManagerOrAdmin, "contact.contacted")
  \cup Rows({"potential_adopter"}, {"contacted"}, ManagerTriageAdmin, "contact.contacted")
  \cup Rows({"contacted"}, {"engaged"}, ManagerOrAdmin, "contact.engaged")
  \cup Rows({"new", "potential_adopter", "contacted", "engaged"}, {"matched"},
            ManagerOrAdmin, "match.assigned")
  \cup Rows({"matched"}, {"sent_back"}, FacilitatorOrAdmin, "match.sent_back")
  \cup Rows({"sent_back"}, {"matched"}, ManagerOrAdmin, "match.reassigned")
  \cup Rows({"matched"}, {"active"}, FacilitatorOrAdmin, "match.accepted")
  \cup Rows({"active"}, {"inactive"}, ManagerOrAdmin, "contact.deactivated")
  \cup UNION {Rows({b[1]}, {b[2]}, ManagerOrAdmin, "contact.reclassified") : b \in Backwards}

FacilitatorTransitions ==
  Rows({"draft"}, {"new"}, AnyRole, "facilitator.submitted")
  \cup Rows({"new"}, {"not_ready"}, ManagerOrAdmin, "facilitator.marked_not_ready")
  \cup Rows({"new", "not_ready"}, {"ready"}, ManagerOrAdmin, "facilitator.marked_ready")
  \cup Rows({"ready"}, {"not_ready", "new"}, ManagerOrAdmin, "facilitator.reclassified")
  \cup Rows({"not_ready"}, {"new"}, ManagerOrAdmin, "facilitator.reclassified")
  \cup Rows({"new", "not_ready", "ready"}, {"draft"}, ManagerOrAdmin,
            "facilitator.reclassified")

(* The universal path to do_not_engage, from every state but itself. *)
UniversalTransitions(kind) ==
  Rows(StateOf(kind) \ {"do_not_engage"}, {"do_not_engage"}, ManagerOrAdmin,
       IF kind = "adopter" THEN "contact.do_not_engage" ELSE "facilitator.do_not_engage")

(* _lookup_adopter_spec / _lookup_facilitator_spec: the universal entry is
   found before the table, which holds no do_not_engage cell of its own.    *)
Transitions ==
  [kind \in Kinds |->
     UniversalTransitions(kind)
     \cup (IF kind = "adopter" THEN AdopterTransitions ELSE FacilitatorTransitions)]

(* A NULL status reads as draft. *)
FromState(s) == IF s = Null THEN "draft" ELSE s

(* _transition_generic's validation: the cell exists and allows the role.
   reason_code is optional in every cell, so the reason checks never refuse a
   code the request schema lets in.                                         *)
Permitted(kind, s, to, role) ==
  \E row \in Transitions[kind] : row.from = FromState(s) /\ row.to = to /\ row.role = role

(* available_transitions: what the UI offers from a state. *)
Available(kind, s, role) ==
  {row.to : row \in {x \in Transitions[kind] : x.from = FromState(s) /\ x.role = role}}
=============================================================================
