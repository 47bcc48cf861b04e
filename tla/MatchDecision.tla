--------------------------- MODULE MatchDecision ----------------------------
(***************************************************************************)
(* The matching core of the API: routers/matches.py (decide, run),         *)
(* routers/workflow.py (transition), domain/matching.py, the org admin     *)
(* endpoints of routers/admin.py, and the one write the intake form makes  *)
(* to a contact's status.                                                  *)
(*                                                                         *)
(* A worker is one request being served.  The session is READ COMMITTED    *)
(* and has autoflush off, so a request works on what it read while other   *)
(* requests commit.  SELECTs whose results a guard or a write relates to   *)
(* each other are separate steps; a check whose SELECTs only decide        *)
(* whether to go on (org scope, open matches of an org) is one step.  The  *)
(* writes of a request are one step: every row it writes is locked by the  *)
(* write and stays locked until commit, and no unlocked read comes after   *)
(* the first write, so they take effect together at the commit.  The       *)
(* exception is match_or_route, whose inserts meet the unique index one    *)
(* interest at a time.  The guards inside the write statements (version    *)
(* re-read under FOR UPDATE, capacity WHERE clause, partial unique index,  *)
(* CHECK constraints) are therefore evaluated on the committed state.      *)
(*                                                                         *)
(* A request that hits an early return, an HTTP error, an exception, a     *)
(* lost connection or a deadlock victim's abort rolls back: Fail.          *)
(* Outbox rows are inserted in the same transaction as the change they     *)
(* announce; `audit' stands for the TransitionAudit row and the outbox row *)
(* a transition writes together.                                           *)
(***************************************************************************)
EXTENDS StateMachine, Integers, Sequences, FiniteSetsExt

CONSTANTS
  Workers,          \* requests in progress at the same time
  Contacts,
  Interests,        \* adopter_interest ids
  InitialInterests, \* those already in the table
  NoFpg,            \* the interests with people_id3 NULL
  ContactOf,        \* ContactOf[i] is the contact interest i belongs to
  Orgs,             \* facilitating_org ids
  TriageOrg,        \* the org with is_triage_org
  NoOrg,            \* no target chosen
  Covers,           \* pairs <<org, interest>>: the org covers the people group
  Capacities,       \* values capacity_total may be given
  Actors,           \* the callers
  NoActor,
  RolesOf,          \* RolesOf[a]: roles of caller a
  OrgsOf,           \* OrgsOf[a]: the orgs a is a member of
  Ops,              \* the endpoints callers use
  Targets,          \* Targets[kind]: states asked of POST /transition
  Forces,           \* values of `force' in POST /run
  InitialStatus,    \* status rows the contacts start with
  MaxVersion,       \* bound on contacts.version
  MaxMatches        \* bound on the number of match rows

Decisions == {"accept", "send_back", "route_elsewhere"}
Endpoints == Decisions \cup {"transition", "run", "capacity", "deactivate", "activate", "intake"}

ASSUME ConstantsAssumption ==
  /\ InitialInterests \subseteq Interests /\ NoFpg \subseteq Interests
  /\ ContactOf \in [Interests -> Contacts]
  /\ TriageOrg \in Orgs /\ NoOrg \notin Orgs
  /\ Covers \subseteq Orgs \X Interests
  /\ Capacities \subseteq Nat
  /\ NoActor \notin Actors
  /\ RolesOf \in [Actors -> SUBSET AnyRole] /\ OrgsOf \in [Actors -> SUBSET Orgs]
  /\ Ops \subseteq Endpoints
  /\ Targets \in [Kinds -> SUBSET (AdopterState \cup FacilitatorState)]
  /\ \A kind \in Kinds : Targets[kind] \subseteq StateOf(kind)
  /\ Forces \subseteq BOOLEAN
  /\ InitialStatus \subseteq ContactStatus
  /\ MaxVersion \in Nat /\ MaxMatches \in Nat

TopN == 3   \* TOP_N_RECOMMENDED

MatchStatus == {"recommended", "triage", "accepted", "active", "sent_back", "declined"}
Queue == {"recommended", "triage", "accepted"}   \* QUEUE_STATUSES
Open == Queue \cup {"active"}                    \* uq_match_open_per_interest
Reserved == {"accepted", "active"}               \* _RESERVED_MATCH_STATUSES

Match == [interest : Interests, org : Orgs, status : MatchStatus,
          override : BOOLEAN, by : Actors \cup {NoActor}]

AuditRow == [kind : Kinds, from : AdopterState \cup FacilitatorState,
             to : AdopterState \cup FacilitatorState, role : AnyRole]

Attempt == Interests \X Orgs

Request ==
  [op : Decisions, match : Nat, actor : Actors]
  \cup [op : {"transition"}, contact : Contacts, kind : Kinds,
        to : AdopterState \cup FacilitatorState, actor : Actors]
  \cup [op : {"run"}, contact : Contacts]
  \cup [op : {"deactivate"}, org : Orgs]
  \cup [op : {"intake"}, contact : Contacts]

NoRequest == [op |-> "none"]

VARIABLES
  status,     \* status[c], version[c]: the contacts row
  version,
  audit,      \* audit[c]: its TransitionAudit rows, oldest first
  interests,  \* adopter_interest rows
  matches,    \* match rows; an id is a position
  attempts,   \* <<interest, org>> of the MatchAttempt rows with a rank, of every run
  total,      \* total[o], committed[o], active[o]: the facilitating_org row
  committed,
  active,
  pc,         \* pc[w]: what request w has read so far
  req,        \* req[w]: its path and body
  seenMatch,  \* seenMatch[w]: status of the match row it read
  seen,       \* seen[w]: the contact row it read
  target,     \* target[w]: the org route_elsewhere chose, and whether as an override
  run         \* run[w]: locals of match_or_route

dbVars == <<status, version, audit, interests, matches, attempts, total, committed, active>>
contactVars == <<status, version, audit>>
orgVars == <<total, committed, active>>
localVars == <<pc, req, seenMatch, seen, target, run>>
vars == <<dbVars, localVars>>

PC == {"idle", "match_read", "contact_read", "chosen", "transition", "run", "loaded",
       "deactivate", "intake"}

NoTarget == [org |-> NoOrg, override |-> FALSE]
NoRun == [todo |-> {}, passing |-> {}, inserts |-> <<>>, attempts |-> {}]
NoContact == [status |-> [adopter |-> Null, facilitator |-> Null], version |-> 0]

Init ==
  /\ status \in [Contacts -> InitialStatus]
  /\ version = [c \in Contacts |-> 1]
  /\ audit = [c \in Contacts |-> <<>>]
  /\ interests = InitialInterests
  /\ matches = <<>>
  /\ attempts = {}
  /\ total \in [Orgs -> Capacities]
  /\ committed = [o \in Orgs |-> 0]
  /\ active = [o \in Orgs |-> TRUE]
  /\ pc = [w \in Workers |-> "idle"]
  /\ req = [w \in Workers |-> NoRequest]
  /\ seenMatch = [w \in Workers |-> "none"]
  /\ seen = [w \in Workers |-> NoContact]
  /\ target = [w \in Workers |-> NoTarget]
  /\ run = [w \in Workers |-> NoRun]

-----------------------------------------------------------------------------
(* The database *)

MatchIds == DOMAIN matches
OpenOf(i) == {m \in MatchIds : matches[m].interest = i /\ matches[m].status \in Open}

InterestsOf(c) == {i \in interests : ContactOf[i] = c}

(* Another transaction holds an uncommitted open match for the interest: the
   unique index makes a second writer wait for it to end.                   *)
Blocked(w, i) ==
  \E o \in Workers \ {w} : \E k \in DOMAIN run[o].inserts : run[o].inserts[k].interest = i

(* Mutant: no unique index. *)
NoIndex(w, i, m) == TRUE

(* uq_match_open_per_interest accepts row m of interest i becoming open. *)
IndexAccepts(w, i, m) == OpenOf(i) \subseteq {m} /\ ~Blocked(w, i)

(* The contact row as it is now, as db.get(Contact) loads it. *)
ContactRow(c) == [status |-> status[c], version |-> version[c]]

(* The request ends; nothing of its session survives. *)
Finish(w) ==
  /\ pc' = [pc EXCEPT ![w] = "idle"]
  /\ req' = [req EXCEPT ![w] = NoRequest]
  /\ seenMatch' = [seenMatch EXCEPT ![w] = "none"]
  /\ seen' = [seen EXCEPT ![w] = NoContact]
  /\ target' = [target EXCEPT ![w] = NoTarget]
  /\ run' = [run EXCEPT ![w] = NoRun]

(* A request begins with the path and body r, having read what `to' names. *)
Begin(w, r, to) ==
  /\ pc[w] = "idle" /\ r.op \in Ops
  /\ pc' = [pc EXCEPT ![w] = to]
  /\ req' = [req EXCEPT ![w] = r]

-----------------------------------------------------------------------------
(* domain/state_machine.py: _transition_generic on the contact w has read *)

(* Mutant: the version is not checked before the write. *)
UnversionedTransition(w, c, kind, to, role) ==
  LET from == seen[w].status[kind] IN
  /\ Permitted(kind, from, to, role)
  /\ version[c] < MaxVersion
  /\ status' = [status EXCEPT ![c][kind] = to]
  /\ version' = [version EXCEPT ![c] = seen[w].version + 1]
  /\ audit' = [audit EXCEPT ![c] =
       Append(@, [kind |-> kind, from |-> FromState(from), to |-> to, role |-> role])]

(* Mutant: the new state is looked up for the actor, not for the old state. *)
UnguardedTransition(w, c, kind, to, role) ==
  LET from == seen[w].status[kind] IN
  /\ \E row \in Transitions[kind] : row.to = to /\ row.role = role
  /\ version[c] = seen[w].version /\ version[c] < MaxVersion
  /\ status' = [status EXCEPT ![c][kind] = to]
  /\ version' = [version EXCEPT ![c] = seen[w].version + 1]
  /\ audit' = [audit EXCEPT ![c] =
       Append(@, [kind |-> kind, from |-> FromState(from), to |-> to, role |-> role])]

(* Mutant: the version bump is forgotten. *)
UnbumpedTransition(w, c, kind, to, role) ==
  LET from == seen[w].status[kind] IN
  /\ Permitted(kind, from, to, role)
  /\ version[c] = seen[w].version
  /\ status' = [status EXCEPT ![c][kind] = to]
  /\ audit' = [audit EXCEPT ![c] =
       Append(@, [kind |-> kind, from |-> FromState(from), to |-> to, role |-> role])]
  /\ Len(audit[c]) < MaxVersion /\ UNCHANGED version

(* Mutant: the audit row is given the column as read, which may be NULL. *)
UnresolvedTransition(w, c, kind, to, role) ==
  LET from == seen[w].status[kind] IN
  /\ Permitted(kind, from, to, role)
  /\ version[c] = seen[w].version /\ version[c] < MaxVersion
  /\ status' = [status EXCEPT ![c][kind] = to]
  /\ version' = [version EXCEPT ![c] = seen[w].version + 1]
  /\ audit' = [audit EXCEPT ![c] =
       Append(@, [kind |-> kind, from |-> from, to |-> to, role |-> role])]

Transition(w, c, kind, to, role) ==
  LET from == seen[w].status[kind] IN
  /\ Permitted(kind, from, to, role)
  /\ version[c] = seen[w].version          \* _lock_and_check_version
  /\ version[c] < MaxVersion               \* bound
  /\ status' = [status EXCEPT ![c][kind] = to]
  /\ version' = [version EXCEPT ![c] = seen[w].version + 1]
  /\ audit' = [audit EXCEPT ![c] =
       Append(@, [kind |-> kind, from |-> FromState(from), to |-> to, role |-> role])]

-----------------------------------------------------------------------------
(* routers/matches.py: decide_match *)

StaffRoles == {"staff_admin", "adoption_manager"}
IsStaff(a) == RolesOf[a] \cap StaffRoles # {}

(* The role checks at the top: a facilitator stays within its orgs, a triage
   facilitator within the triage queue.                                     *)
MayActOn(a, m) ==
  /\ RolesOf[a] # {}
  /\ IsStaff(a) \/ "facilitator" \notin RolesOf[a] \/ matches[m].org \in OrgsOf[a]
  /\ \/ IsStaff(a) \/ "facilitator" \in RolesOf[a] \/ "triage_facilitator" \notin RolesOf[a]
     \/ matches[m].status = "triage"

(* db.get(Match).  A match outside the queue is answered with a replay of its
   state or a 409: such a request writes nothing and is not followed.  The
   target a route_elsewhere body names is chosen where it is looked at.     *)
ReadMatch(w) ==
  \E m \in MatchIds, verb \in Decisions, a \in Actors :
    /\ MayActOn(a, m) /\ matches[m].status \in Queue
    /\ Begin(w, [op |-> verb, match |-> m, actor |-> a], "match_read")
    /\ seenMatch' = [seenMatch EXCEPT ![w] = matches[m].status]
    /\ UNCHANGED <<dbVars, seen, target, run>>

(* db.get(Contact), through the interest: a second statement. *)
ReadContact(w) ==
  /\ pc[w] = "match_read"
  /\ pc' = [pc EXCEPT ![w] = "contact_read"]
  /\ seen' = [seen EXCEPT ![w] = ContactRow(ContactOf[matches[req[w].match].interest])]
  /\ UNCHANGED <<dbVars, req, seenMatch, target, run>>

(* _stamp_decision as the ORM flushes it: the status column is written only
   if it differs from the value read.                                       *)
Stamped(w, new) ==
  [matches[req[w].match] EXCEPT
     !.status = IF new = seenMatch[w] THEN @ ELSE new,
     !.by = req[w].actor]

(* The stamped row goes back to the table, if the unique index lets it. *)
Stamp(w, new) ==
  LET m == req[w].match
      row == Stamped(w, new) IN
  /\ row.status \in Open => IndexAccepts(w, row.interest, m)
  /\ matches' = [matches EXCEPT ![m] = row]

(* Mutant: the WHERE clause is off by one. *)
HasRoomForOneMore(f, o) == f[o] <= total[o]

(* _try_increment_capacity / _try_decrement_capacity, on a committed column. *)
HasRoom(f, o) == f[o] < total[o]
Taken(f, o) == [f EXCEPT ![o] = @ + 1]
Released(f, o) == IF f[o] > 0 THEN [f EXCEPT ![o] = @ - 1] ELSE f

(* Accept moves a matched contact to active, any other to matched; only the
   latter takes a slot, and never for a manual override.                    *)
CommitAccept(w) ==
  LET m == req[w].match
      o == matches[m].org
      toActive == seen[w].status.adopter = "matched" IN
  /\ pc[w] = "contact_read" /\ req[w].op = "accept"
  /\ Transition(w, ContactOf[matches[m].interest], "adopter",
                IF toActive THEN "active" ELSE "matched", PickActorRole(RolesOf[req[w].actor]))
  /\ Stamp(w, IF toActive THEN "active" ELSE "accepted")
  /\ IF toActive \/ matches[m].override
     THEN UNCHANGED committed
     ELSE HasRoom(committed, o) /\ committed' = Taken(committed, o)
  /\ Finish(w)
  /\ UNCHANGED <<interests, attempts, total, active>>

(* The match is sent back and its slot released if it was read as reserved. *)
CommitSendBack(w) ==
  LET m == req[w].match IN
  /\ pc[w] = "contact_read" /\ req[w].op = "send_back"
  /\ Transition(w, ContactOf[matches[m].interest], "adopter", "sent_back",
                PickActorRole(RolesOf[req[w].actor]))
  /\ Stamp(w, "sent_back")
  /\ committed' = IF seenMatch[w] \in Reserved /\ ~matches[m].override
                  THEN Released(committed, matches[m].org) ELSE committed
  /\ Finish(w)
  /\ UNCHANGED <<interests, attempts, total, active>>

Alternates(m) ==
  {o \in Orgs \ {matches[m].org} : <<matches[m].interest, o>> \in attempts}

(* route_elsewhere reads its target: an active org that staff names
   (facilitator_org_id, an override), or a ranked alternate, which is the one
   the body names (next_attempt_id) or else one of the best rank.  Any ranked
   alternate can be named, so the best ranked needs no case of its own.     *)
ChooseTarget(w) ==
  LET r == req[w] IN
  /\ pc[w] = "contact_read" /\ r.op = "route_elsewhere"
  /\ pc' = [pc EXCEPT ![w] = "chosen"]
  /\ \E o \in Orgs, override \in BOOLEAN :
       /\ IF override
          THEN IsStaff(r.actor) /\ active[o] /\ o \notin {TriageOrg, matches[r.match].org}
          ELSE o \in Alternates(r.match)
       /\ target' = [target EXCEPT ![w] = [org |-> o, override |-> override]]
  /\ UNCHANGED <<dbVars, req, seenMatch, seen, run>>

(* The match is declined and a new recommendation inserted.  A reservation
   moves along only if the match was read as reserved.                      *)
CommitRoute(w) ==
  LET old == matches[req[w].match]
      new == [interest |-> old.interest, org |-> target[w].org, status |-> "recommended",
              override |-> target[w].override, by |-> NoActor]
      moves == seenMatch[w] \in Reserved
      freed == IF moves /\ ~old.override THEN Released(committed, old.org) ELSE committed IN
  /\ pc[w] = "chosen" /\ Len(matches) < MaxMatches
  /\ IndexAccepts(w, old.interest, req[w].match)
  /\ matches' = Append([matches EXCEPT ![req[w].match] = Stamped(w, "declined")], new)
  /\ IF moves /\ ~new.override
     THEN HasRoom(freed, new.org) /\ committed' = Taken(freed, new.org)
     ELSE committed' = freed
  /\ Finish(w)
  /\ UNCHANGED <<contactVars, interests, attempts, total, active>>

-----------------------------------------------------------------------------
(* routers/workflow.py: post_transition *)

(* _assert_facilitator_org_scope: a caller who is not staff must belong to an
   org with an open match for the contact, if there is any such match.      *)
InOrgScope(a, c) ==
  LET orgs == {matches[m].org : m \in UNION {OpenOf(i) : i \in InterestsOf(c)}}
  IN IsStaff(a) \/ orgs = {} \/ orgs \cap OrgsOf[a] # {}

ReadForTransition(w) ==
  \E c \in Contacts, kind \in Kinds, a \in Actors : \E to \in Targets[kind] :
    /\ RolesOf[a] # {} /\ InOrgScope(a, c)
    /\ Begin(w, [op |-> "transition", contact |-> c, kind |-> kind, to |-> to, actor |-> a],
             "transition")
    /\ seen' = [seen EXCEPT ![w] = ContactRow(c)]
    /\ UNCHANGED <<dbVars, seenMatch, target, run>>

CommitTransition(w) ==
  /\ pc[w] = "transition"
  /\ Transition(w, req[w].contact, req[w].kind, req[w].to, PickActorRole(RolesOf[req[w].actor]))
  /\ Finish(w)
  /\ UNCHANGED <<interests, matches, attempts, orgVars>>

-----------------------------------------------------------------------------
(* routers/matches.py: run_match, and domain/matching.py: match_or_route *)

(* Refused without force while the contact has an open match. *)
StartRun(w) ==
  \E c \in Contacts, force \in Forces :
    /\ force \/ \A i \in InterestsOf(c) : OpenOf(i) = {}
    /\ Begin(w, [op |-> "run", contact |-> c], "run")
    /\ UNCHANGED <<dbVars, seenMatch, seen, target, run>>

(* _derive_exclusion_list: who sent this contact back or declined it. *)
Excluded(c) ==
  {matches[m].org : m \in {n \in MatchIds : /\ matches[n].status \in {"sent_back", "declined"}
                                            /\ matches[n].interest \in InterestsOf(c)}}

(* hard_filter, for the orgs _load_facilitators_with_coverage returns. *)
Passes(c, i, o) ==
  /\ o # TriageOrg /\ o \notin Excluded(c) /\ active[o]
  /\ HasRoom(committed, o) /\ <<o, i>> \in Covers

(* The SELECTs of match_or_route: interests, orgs, exclusion list. *)
LoadCandidates(w) ==
  LET c == req[w].contact IN
  /\ pc[w] = "run"
  /\ pc' = [pc EXCEPT ![w] = "loaded"]
  /\ run' = [run EXCEPT ![w] = [@ EXCEPT
       !.todo = InterestsOf(c),
       !.passing = {p \in (InterestsOf(c) \ NoFpg) \X Orgs : Passes(c, p[1], p[2])}]]
  /\ UNCHANGED <<dbVars, req, seenMatch, seen, target>>

(* The row a run may insert for interest i: the best of the promoted orgs, or
   the triage org when none passed.                                         *)
RunMatches(i, promoted) ==
  IF promoted = {}
  THEN {[interest |-> i, org |-> TriageOrg, status |-> "triage", override |-> FALSE, by |-> NoActor]}
  ELSE [interest : {i}, org : promoted, status : {"recommended"}, override : {FALSE}, by : {NoActor}]

(* Mutant: the insert does not yield to an open match. *)
ProcessedRegardless(r, i, promoted, new) ==
  [r EXCEPT !.todo = @ \ {i}, !.inserts = Append(@, new), !.attempts = @ \cup ({i} \X promoted)]

(* _insert_match_with_conflict_guard: an interest that has an open match keeps
   it; the attempts are kept in either case.                                *)
Processed(r, i, promoted, new) ==
  [r EXCEPT !.todo = @ \ {i},
            !.inserts = IF OpenOf(i) = {} THEN Append(@, new) ELSE @,
            !.attempts = @ \cup ({i} \X promoted)]

(* _process_interest: the passing orgs are ranked (the score is data: any
   order), the TopN best are promoted and one of these becomes the match.  The
   insert is tried against the unique index at this moment.                 *)
ProcessInterest(w, i) ==
  LET orgs == {o \in Orgs : <<i, o>> \in run[w].passing}
      size == IF Cardinality(orgs) < TopN THEN Cardinality(orgs) ELSE TopN IN
  /\ pc[w] = "loaded" /\ i \in run[w].todo
  /\ ~Blocked(w, i)
  /\ \E promoted \in kSubset(size, orgs) : \E new \in RunMatches(i, promoted) :
       run' = [run EXCEPT ![w] = Processed(@, i, promoted, new)]
  /\ UNCHANGED <<dbVars, pc, req, seenMatch, seen, target>>

CommitRun(w) ==
  /\ pc[w] = "loaded" /\ run[w].todo = {}
  /\ Len(matches) + Len(run[w].inserts) <= MaxMatches
  /\ matches' = matches \o run[w].inserts
  /\ attempts' = attempts \cup run[w].attempts
  /\ Finish(w)
  /\ UNCHANGED <<contactVars, interests, orgVars>>

-----------------------------------------------------------------------------
(* routers/admin.py: the facilitating-org endpoints *)

(* Mutant: the new total is not compared with what is committed. *)
PatchCapacityUnchecked(o) ==
  \E n \in Capacities :
    /\ "capacity" \in Ops /\ n # total[o]
    /\ total' = [total EXCEPT ![o] = n]
    /\ UNCHANGED <<contactVars, interests, matches, attempts, committed, active, localVars>>

(* capacity_total; the handler's own check and the CHECK constraint both
   refuse a total below what is committed.                                  *)
PatchCapacity(o) ==
  \E n \in Capacities :
    /\ "capacity" \in Ops /\ n # total[o] /\ committed[o] <= n
    /\ total' = [total EXCEPT ![o] = n]
    /\ UNCHANGED <<contactVars, interests, matches, attempts, committed, active, localVars>>

ReadForDeactivate(w) ==
  \E o \in Orgs :
    /\ active[o]
    /\ \A m \in MatchIds : ~(matches[m].org = o /\ matches[m].status \in Open)
    /\ Begin(w, [op |-> "deactivate", org |-> o], "deactivate")
    /\ UNCHANGED <<dbVars, seenMatch, seen, target, run>>

CommitDeactivate(w) ==
  /\ pc[w] = "deactivate"
  /\ active' = [active EXCEPT ![req[w].org] = FALSE]
  /\ Finish(w)
  /\ UNCHANGED <<contactVars, interests, matches, attempts, total, committed>>

Activate(o) ==
  /\ "activate" \in Ops /\ ~active[o]
  /\ active' = [active EXCEPT ![o] = TRUE]
  /\ UNCHANGED <<contactVars, interests, matches, attempts, total, committed, localVars>>

-----------------------------------------------------------------------------
(* routers/intake.py: process_adoption_payload for a contact already known  *)

(* The contact is found by e-mail; a do_not_engage one is blocked. *)
ReadForIntake(w) ==
  \E c \in Contacts :
    /\ status[c].adopter # "do_not_engage"
    /\ Begin(w, [op |-> "intake", contact |-> c], "intake")
    /\ seen' = [seen EXCEPT ![w] = ContactRow(c)]
    /\ UNCHANGED <<dbVars, seenMatch, target, run>>

(* No people group selected: the status column is overwritten (if it differs
   from what was read) with no version, audit row or table consulted, and an
   interest without people group is added.                                  *)
CommitIntakeNoFpg(w) ==
  LET c == req[w].contact IN
  /\ pc[w] = "intake"
  /\ \E i \in NoFpg \ interests : ContactOf[i] = c /\ interests' = interests \cup {i}
  /\ status' = IF seen[w].status.adopter = "potential_adopter" THEN status
               ELSE [status EXCEPT ![c].adopter = "potential_adopter"]
  /\ Finish(w)
  /\ UNCHANGED <<version, audit, matches, attempts, orgVars>>

(* People groups selected: interests are added, the contact is not written. *)
CommitIntakeFpg(w) ==
  LET c == req[w].contact IN
  /\ pc[w] = "intake"
  /\ \E i \in Interests \ (NoFpg \cup interests) :
       ContactOf[i] = c /\ interests' = interests \cup {i}
  /\ Finish(w)
  /\ UNCHANGED <<contactVars, matches, attempts, orgVars>>

-----------------------------------------------------------------------------
(* Rollback: any error, refusal or crash of a request in progress. *)
Fail(w) ==
  /\ pc[w] # "idle"
  /\ Finish(w)
  /\ UNCHANGED dbVars

Decide(w) ==
  \/ ReadMatch(w) \/ ReadContact(w) \/ CommitAccept(w) \/ CommitSendBack(w)
  \/ ChooseTarget(w) \/ CommitRoute(w)
RunMatch(w) ==
  StartRun(w) \/ LoadCandidates(w) \/ (\E i \in Interests : ProcessInterest(w, i)) \/ CommitRun(w)
Workflow(w) == ReadForTransition(w) \/ CommitTransition(w)
Intake(w) == ReadForIntake(w) \/ CommitIntakeNoFpg(w) \/ CommitIntakeFpg(w)
Deactivate(w) == ReadForDeactivate(w) \/ CommitDeactivate(w)

Next ==
  \/ \E w \in Workers : \/ Decide(w) \/ RunMatch(w) \/ Workflow(w) \/ Intake(w)
                        \/ Deactivate(w) \/ Fail(w)
  \/ \E o \in Orgs : PatchCapacity(o) \/ Activate(o)

Spec == Init /\ [][Next]_vars
-----------------------------------------------------------------------------
(* Properties *)

(* The rows and the locals of every request are of the shapes declared. *)
TypeOK ==
  /\ status \in [Contacts -> ContactStatus]
  /\ version \in [Contacts -> Nat \ {0}]
  /\ audit \in [Contacts -> Seq(AuditRow)]
  /\ interests \subseteq Interests
  /\ matches \in Seq(Match)
  /\ attempts \subseteq Attempt
  /\ total \in [Orgs -> Nat] /\ committed \in [Orgs -> Nat] /\ active \in [Orgs -> BOOLEAN]
  /\ pc \in [Workers -> PC]
  /\ req \in [Workers -> Request \cup {NoRequest}]
  /\ seenMatch \in [Workers -> Queue \cup {"none"}]
  /\ seen \in [Workers -> [status : ContactStatus, version : Nat]]
  /\ target \in [Workers -> [org : Orgs \cup {NoOrg}, override : BOOLEAN]]
  /\ run \in [Workers -> [todo : SUBSET Interests, passing : SUBSET (Interests \X Orgs),
                          inserts : Seq(Match), attempts : SUBSET Attempt]]

(* At most one open match per interest, whichever decisions, runs and
   re-routings of it race.  (uq_match_open_per_interest and B1's guard)     *)
OneOpenMatchPerInterest ==
  \A i \in Interests : \A m, n \in OpenOf(i) : m = n

(* An org never has more slots committed than it offers, though accepts,
   releases and capacity edits of it race.                                  *)
CapacityWithinBounds == \A o \in Orgs : committed[o] <= total[o]

(* No lost update on a contact: each version number was given out by exactly
   one committed transition, however many requests read the same version.   *)
NoLostTransition == \A c \in Contacts : version[c] = Len(audit[c]) + 1

(* The audit rows of one side of a contact form a path: each starts where the
   previous one of that side ended, and the last ends at the status stored. *)
AuditIsAPath ==
  \A c \in Contacts : \A k \in DOMAIN audit[c] :
    LET later == {j \in DOMAIN audit[c] : j > k /\ audit[c][j].kind = audit[c][k].kind} IN
    IF later = {}
    THEN status[c][audit[c][k].kind] = audit[c][k].to
    ELSE \E j \in later : (\A l \in later : j <= l) /\ audit[c][j].from = audit[c][k].to

(* Every match that claims a slot (accepted or active, not an override) is
   backed by one of its org's committed slots, as decide_match says: the
   count is exact.  It is not.                                              *)
ReservationsBacked ==
  \A o \in Orgs :
    Cardinality({m \in MatchIds : /\ matches[m].org = o /\ ~matches[m].override
                                  /\ matches[m].status \in Reserved}) <= committed[o]

(* The implementation of the abstract lifecycle: whatever runs concurrently, a
   status changes only along a row of its transition table.                 *)
Lifecycle == INSTANCE ContactLifecycle WITH status <- status
FollowsLifecycle == Lifecycle!Spec
=============================================================================
