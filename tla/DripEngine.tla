----------------------------- MODULE DripEngine -----------------------------
(***************************************************************************)
(* Drip campaigns: domain/drips.py, routers/drips.py, the worker's         *)
(* drain_drip_enrollments and send_drip_step, and the suppression list.    *)
(*                                                                         *)
(* A tick is one run of send_drip_step: it locks the enrolments that are   *)
(* due (FOR UPDATE SKIP LOCKED), mails them one after the other and        *)
(* commits everything at the end, in one transaction.  A drain is one run  *)
(* of drain_drip_enrollments: it locks outbox rows, enrols or exits their  *)
(* contacts and commits at the end.  The cron starts both every ten        *)
(* seconds whether the previous one has ended or not.  A request is one    *)
(* call of the campaign endpoints: what it loaded, then its commit.        *)
(*                                                                         *)
(* Time counts in half days: a step with send_at_hour 0 may be mailed in   *)
(* either half, any other in the second.  A tick is short against that and *)
(* none is in progress when a half day ends.  An enrolment keeps the age   *)
(* of its last mail and not the date, so that time needs no bound.         *)
(*                                                                         *)
(* Left out: contact deletion (its cascade removes enrolments), the        *)
(* enrolment states pending and paused (no code writes them), contacts     *)
(* without address, the second check of adopter_status after the claim     *)
(* (the claim loads the contact it filters on, so it cannot differ).       *)
(***************************************************************************)
EXTENDS Integers, Sequences, FiniteSets

CONSTANTS
  Contacts,
  NullStatus,     \* the contacts with adopter_status NULL
  Campaigns,
  TriggerOf,      \* TriggerOf[k]: trigger_event_type campaign k is drafted with
  Steps,          \* ids of campaign_step rows
  StepsAtStart,   \* StepsAtStart[k]: step at each position, a partial function
  Positions,      \* positions steps may be put at
  Delays,         \* values of delay_days, in half days
  LateSteps,      \* steps whose send_at_hour lies in the second half of the day
  Unrenderable,   \* steps whose template or body cannot be rendered
  Ticks, Drains, Requests,
  TickLimit,      \* DRIP_TICK_BATCH_SIZE
  DrainLimit,     \* _DRIP_DRAIN_BATCH_SIZE
  Events,         \* event types of outbox rows other than do_not_engage
  MaxEvents,      \* bound on outbox rows
  MaxEnrollments, \* bound on enrolment rows
  MaxVersion,     \* bound on campaign.version
  Ops             \* endpoints in use

DoNotEngage == "contact.do_not_engage"
Null == "null"

MaxAge == CHOOSE d \in Delays : \A e \in Delays : e <= d

Endpoints == {"activate", "pause", "archive", "patch_campaign", "enroll", "add_step",
              "patch_step", "delete_step", "suppress"}

ASSUME DripAssumption ==
  /\ DoNotEngage \notin Events /\ NullStatus \subseteq Contacts
  /\ TriggerOf \in [Campaigns -> Events]
  /\ LateSteps \subseteq Steps /\ Unrenderable \subseteq Steps
  /\ Positions \subseteq Nat /\ IsFiniteSet(Campaigns)
  /\ StepsAtStart \in [Campaigns -> UNION {[D -> Steps] : D \in SUBSET Positions}]
  /\ Delays \subseteq Nat /\ \E d \in Delays : \A e \in Delays : e <= d
  /\ TickLimit \in Nat \ {0} /\ DrainLimit \in Nat \ {0}
  /\ Ops \subseteq Endpoints

VARIABLES
  status,       \* status[c]: adopter_status, as far as the engine reads it
  suppressed,   \* contacts whose address is on the suppression list
  campaign,     \* campaign[k]: status, version and trigger of the campaign row
  steps,        \* steps[k]: position -> step id, the campaign_step rows
  delay,        \* delay[s]: delay_days of step s
  enrollments,  \* enrollment rows, oldest first, each with the step_sent events of its log
  outbox,       \* outbox rows, oldest first
  evening,      \* the second half of the day
  tick,         \* tick[w]: locals of send_drip_step
  drain,        \* drain[d]: locals of drain_drip_enrollments
  request,      \* request[r]: what an endpoint has loaded
  late          \* late[e]: mails sent for e after its contact asked for none (history)

dbVars == <<status, suppressed, campaign, steps, delay, enrollments, outbox>>
vars == <<dbVars, evening, tick, drain, request, late>>

Open == {"pending", "active", "paused"}   \* uq_enrollment_open_per_campaign_contact
Never == -1                               \* last_step_sent_at IS NULL

CampaignRow == [status : {"draft", "active", "paused", "archived"}, version : Nat,
                trigger : Events \cup {Null}]

Enrollment ==
  [campaign : Campaigns, contact : Contacts, version : Nat, position : Positions \cup {0},
   state : {"pending", "active", "paused", "completed", "exited"},
   age : {Never} \cup (0 .. MaxAge), log : Seq(Positions)]

OutboxRow == [contact : Contacts, event : Events \cup {DoNotEngage}, processed : BOOLEAN]

IdleTick == [pc |-> "idle", todo |-> {}, rows |-> <<>>, step |-> <<>>]
IdleDrain == [pc |-> "idle", todo |-> {}, claimed |-> {}, seen |-> <<>>, new |-> <<>>, exits |-> {}]
IdleRequest == [op |-> "none"]

Init ==
  /\ status = [c \in Contacts |-> IF c \in NullStatus THEN Null ELSE "engaged"]
  /\ suppressed = {}
  /\ campaign = [k \in Campaigns |-> [status |-> "draft", version |-> 1, trigger |-> TriggerOf[k]]]
  /\ steps = StepsAtStart
  /\ delay \in [Steps -> Delays]
  /\ enrollments = <<>>
  /\ outbox = <<>>
  /\ evening = FALSE
  /\ tick = [w \in Ticks |-> IdleTick]
  /\ drain = [d \in Drains |-> IdleDrain]
  /\ request = [r \in Requests |-> IdleRequest]
  /\ late = <<>>

Enrolled == DOMAIN enrollments

(* The n lowest elements of S, or all of them. *)
Lowest(n, S) == {x \in S : Cardinality({y \in S : y < x}) < n}
First(S) == CHOOSE x \in S : \A y \in S : x <= y

Occupied(k) == DOMAIN steps[k]
PositionsFrom(k, p) == {q \in Occupied(k) : q >= p}
PositionsAfter(k, p) == {q \in Occupied(k) : q > p}

-----------------------------------------------------------------------------
(* Enrolment *)

(* The campaign's lowest position, or 0 if it has no step. *)
StartingPosition(k) == IF Occupied(k) = {} THEN 0 ELSE First(Occupied(k))

(* enroll_contact_in_campaign refuses a contact it has seen as do_not_engage
   or finds suppressed.                                                     *)
MayEnroll(c, seen) == seen # "do_not_engage" /\ c \notin suppressed

NewEnrollment(k, c) ==
  [campaign |-> k, contact |-> c, version |-> campaign[k].version,
   position |-> StartingPosition(k), state |-> "active", age |-> Never, log |-> <<>>]

IsOpenFor(e, k, c) == e.campaign = k /\ e.contact = c /\ e.state \in Open

(* Mutant: no unique index on open enrolments. *)
NoIndex(k, c, closing) == TRUE

(* The unique index lets an open enrolment in, apart from those the same
   transaction is about to close.                                           *)
IndexAccepts(k, c, closing) ==
  ~ \E e \in Enrolled \ closing : IsOpenFor(enrollments[e], k, c)

(* Another drain holds an uncommitted open enrolment of the pair: the insert
   waits for it to end.                                                     *)
Blocked(d, k, c) ==
  \E o \in Drains \ {d} : \E n \in DOMAIN drain[o].new : IsOpenFor(drain[o].new[n], k, c)

-----------------------------------------------------------------------------
(* worker_settings.py: drain_drip_enrollments *)

LockedRows(d) == UNION {drain[o].claimed : o \in Drains \ {d}}

StartDrain(d) ==
  LET waiting == {n \in DOMAIN outbox : ~outbox[n].processed} \ LockedRows(d) IN
  /\ drain[d].pc = "idle" /\ waiting # {}
  /\ drain' = [drain EXCEPT ![d] =
       [IdleDrain EXCEPT !.pc = "working", !.todo = Lowest(DrainLimit, waiting),
                         !.claimed = Lowest(DrainLimit, waiting)]]
  /\ UNCHANGED <<dbVars, evening, tick, request, late>>

(* Mutant: rows a tick has locked are skipped. *)
ExitUnlocked(d, c) ==
  drain' = [drain EXCEPT
    ![d].todo = @ \ {First(@)},
    ![d].exits = @ \cup {e \in Enrolled : /\ enrollments[e].contact = c /\ enrollments[e].state \in Open
                                         /\ \A w \in Ticks : e \notin DOMAIN tick[w].rows}]

(* exit_enrollments_for_contact: the open enrolments are read, committed ones
   without a lock, and set to exited when the session is flushed.           *)
ExitContact(d, c) ==
  drain' = [drain EXCEPT
    ![d].todo = @ \ {First(@)},
    ![d].exits = @ \cup {e \in Enrolled : enrollments[e].contact = c /\ enrollments[e].state \in Open},
    ![d].new = [n \in DOMAIN @ |-> IF @[n].contact = c THEN [@[n] EXCEPT !.state = "exited"] ELSE @[n]]]

(* The session keeps the contact it loaded for an earlier row of the batch. *)
Seen(d, c) == IF c \in DOMAIN drain[d].seen THEN drain[d].seen[c] ELSE status[c]

Triggered(event) == {k \in Campaigns : campaign[k].status = "active" /\ campaign[k].trigger = event}

(* The campaigns in which the contact is enrolled on its event. *)
Joins(d, c, event) ==
  {k \in Triggered(event) : /\ MayEnroll(c, Seen(d, c))
                            /\ IndexAccepts(k, c, drain[d].exits)
                            /\ ~ \E n \in DOMAIN drain[d].new : IsOpenFor(drain[d].new[n], k, c)}

(* enroll_on_event: one attempt for each active campaign the event triggers. *)
EnrollContact(d, c, event) ==
  LET joins == Joins(d, c, event) IN
  /\ \A k \in Triggered(event) : ~Blocked(d, k, c)
  /\ \E order \in [1 .. Cardinality(joins) -> joins] :
       /\ \A k \in joins : \E n \in DOMAIN order : order[n] = k
       /\ drain' = [drain EXCEPT
            ![d].todo = @ \ {First(@)},
            ![d].seen = [x \in DOMAIN @ \cup {c} |-> IF x = c THEN Seen(d, c) ELSE @[x]],
            ![d].new = @ \o [n \in DOMAIN order |-> NewEnrollment(order[n], c)]]

HandleRow(d) ==
  LET row == outbox[First(drain[d].todo)] IN
  /\ drain[d].pc = "working" /\ drain[d].todo # {}
  /\ IF row.event = DoNotEngage
     THEN ExitContact(d, row.contact)
     ELSE EnrollContact(d, row.contact, row.event)
  /\ UNCHANGED <<dbVars, evening, tick, request, late>>

(* The enrolments a tick has locked. *)
LockedEnrollments(w) == UNION {DOMAIN tick[v].rows : v \in Ticks \ {w}}

(* The exits need the row locks of enrolments a tick may hold; then they are
   written, whatever the rows have become since they were read.             *)
CommitDrain(d) ==
  /\ drain[d].pc = "working" /\ drain[d].todo = {}
  /\ \A w \in Ticks : drain[d].exits \cap DOMAIN tick[w].rows = {}
  /\ Len(enrollments) + Len(drain[d].new) <= MaxEnrollments     \* bound
  /\ enrollments' =
       [e \in Enrolled |-> IF e \in drain[d].exits THEN [enrollments[e] EXCEPT !.state = "exited"]
                           ELSE enrollments[e]] \o drain[d].new
  /\ late' = late \o [n \in DOMAIN drain[d].new |-> 0]
  /\ outbox' = [n \in DOMAIN outbox |->
                  [outbox[n] EXCEPT !.processed = @ \/ n \in drain[d].claimed]]
  /\ drain' = [drain EXCEPT ![d] = IdleDrain]
  /\ UNCHANGED <<status, suppressed, campaign, steps, delay, evening, tick, request>>

AbortDrain(d) ==
  /\ drain[d].pc # "idle"
  /\ drain' = [drain EXCEPT ![d] = IdleDrain]
  /\ UNCHANGED <<dbVars, evening, tick, request, late>>

-----------------------------------------------------------------------------
(* tasks/send_drip_step.py: one tick *)

(* The position of the step that is next for a row: the lowest at or above its own. *)
NextPosition(row) == First(PositionsFrom(row.campaign, row.position))

(* Mutant: last_step_sent_at is compared, NULL or not. *)
IsDueSinceLast(row) ==
  /\ row.state = "active" /\ campaign[row.campaign].status = "active"
  /\ status[row.contact] \notin {"do_not_engage", Null}
  /\ PositionsFrom(row.campaign, row.position) # {}
  /\ row.age # Never /\ row.age >= delay[steps[row.campaign][NextPosition(row)]]

(* claim_due_steps' WHERE clause.  A NULL adopter_status is not unequal to
   do_not_engage in SQL, so the row is left out.  A first step is due at once. *)
IsDue(row) ==
  /\ row.state = "active"
  /\ campaign[row.campaign].status = "active"
  /\ status[row.contact] \notin {"do_not_engage", Null}
  /\ PositionsFrom(row.campaign, row.position) # {}
  /\ row.age = Never \/ row.age >= delay[steps[row.campaign][NextPosition(row)]]

(* Mutant: rows another tick has locked are not skipped. *)
DueUnlocked(w) == {e \in Enrolled : IsDue(enrollments[e])}

Due(w) == {e \in Enrolled \ LockedEnrollments(w) : IsDue(enrollments[e])}

(* The step row the claim joins to an enrolment. *)
ClaimedStep(row) ==
  [id |-> steps[row.campaign][NextPosition(row)], position |-> NextPosition(row)]

StartTick(w) ==
  LET batch == Lowest(TickLimit, Due(w)) IN
  /\ tick[w].pc = "idle" /\ batch # {}
  /\ tick' = [tick EXCEPT ![w] =
       [pc |-> "working", todo |-> batch,
        rows |-> [e \in batch |-> enrollments[e]],
        step |-> [e \in batch |-> ClaimedStep(enrollments[e])]]]
  /\ UNCHANGED <<dbVars, evening, drain, request, late>>

(* The next enrolment of the batch, as the tick has it, and the step claimed for it. *)
Current(w) == First(tick[w].todo)
Row(w) == tick[w].rows[Current(w)]
Step(w) == tick[w].step[Current(w)]

(* The tick is done with its current enrolment, whose row becomes `row'. *)
Done(w, row) ==
  tick' = [tick EXCEPT ![w] =
    [pc |-> "working", todo |-> tick[w].todo \ {Current(w)},
     rows |-> [tick[w].rows EXCEPT ![Current(w)] = row], step |-> tick[w].step]]

InSendWindow(w) == evening \/ Step(w).id \notin LateSteps

(* Mutant: the suppression list is not looked at again. *)
AlwaysMailable(w) == TRUE

(* is_suppressed is asked again for every enrolment of the batch. *)
Mailable(w) == Row(w).contact \notin suppressed

(* render_step_html: neither template nor body is missing, and the body compiles. *)
Renders(w) == Step(w).id \notin Unrenderable

(* exit_enrollment: the contact is suppressed, or the step cannot be rendered
   (looked at only inside the window).                                      *)
ExitCurrent(w) ==
  /\ tick[w].pc = "working" /\ tick[w].todo # {}
  /\ ~Mailable(w) \/ (InSendWindow(w) /\ ~Renders(w))
  /\ Done(w, [Row(w) EXCEPT !.state = "exited"])
  /\ UNCHANGED <<dbVars, evening, drain, request, late>>

Defer(w) ==
  /\ tick[w].pc = "working" /\ tick[w].todo # {}
  /\ Mailable(w) /\ ~InSendWindow(w)
  /\ Done(w, Row(w))
  /\ UNCHANGED <<dbVars, evening, drain, request, late>>

(* The message is rendered and handed to _send_via_acs, which may take a while. *)
BeginSend(w) ==
  /\ tick[w].pc = "working" /\ tick[w].todo # {}
  /\ Mailable(w) /\ InSendWindow(w) /\ Renders(w)
  /\ tick' = [tick EXCEPT ![w].pc = "sending"]
  /\ UNCHANGED <<dbVars, evening, drain, request, late>>

(* Mutant: the next position is looked for from the row's own on. *)
NotAdvanced(row, p) ==
  LET further == PositionsFrom(row.campaign, row.position) IN
  IF further = {} THEN [row EXCEPT !.age = 0, !.state = "completed", !.log = Append(@, p)]
  ELSE [row EXCEPT !.age = 0, !.position = First(further), !.log = Append(@, p)]

(* Mutant: the next position is the next number. *)
AdvancedByOne(row, p) ==
  IF PositionsFrom(row.campaign, row.position) = {}
  THEN [row EXCEPT !.age = 0, !.state = "completed", !.log = Append(@, p)]
  ELSE [row EXCEPT !.age = 0, !.position = @ + 1, !.log = Append(@, p)]

(* The step_sent event at position p, and advance_enrollment: to the next
   position above the one the row has, which may not be the one just sent.  *)
Advanced(row, p) ==
  LET further == PositionsAfter(row.campaign, row.position) IN
  IF further = {} THEN [row EXCEPT !.age = 0, !.state = "completed", !.log = Append(@, p)]
  ELSE [row EXCEPT !.age = 0, !.position = First(further), !.log = Append(@, p)]

Stopped(c) == status[c] = "do_not_engage" \/ c \in suppressed

CountMail(w) ==
  late' = IF Stopped(Row(w).contact) THEN [late EXCEPT ![Current(w)] = @ + 1] ELSE late

(* The mail is accepted, and the worker is told so. *)
Deliver(w) ==
  /\ tick[w].pc = "sending"
  /\ CountMail(w)
  /\ Done(w, Advanced(Row(w), Step(w).position))
  /\ UNCHANGED <<dbVars, evening, drain, request>>

(* The mail is accepted, but the answer takes longer than 30 seconds. *)
LoseAnswer(w) ==
  /\ tick[w].pc = "sending"
  /\ CountMail(w)
  /\ Done(w, Row(w))
  /\ UNCHANGED <<dbVars, evening, drain, request>>

(* The mail is refused: the row stays as it is, to be tried again. *)
RefuseSend(w) ==
  /\ tick[w].pc = "sending"
  /\ Done(w, Row(w))
  /\ UNCHANGED <<dbVars, evening, drain, request, late>>

CommitTick(w) ==
  /\ tick[w].pc = "working" /\ tick[w].todo = {}
  /\ enrollments' = [e \in Enrolled |-> IF e \in DOMAIN tick[w].rows THEN tick[w].rows[e]
                                        ELSE enrollments[e]]
  /\ tick' = [tick EXCEPT ![w] = IdleTick]
  /\ UNCHANGED <<status, suppressed, campaign, steps, delay, outbox, evening, drain, request, late>>

(* The process dies, the job is cancelled at its time limit, or a statement
   fails: all of the batch is rolled back.                                  *)
AbortTick(w) ==
  /\ tick[w].pc # "idle"
  /\ tick' = [tick EXCEPT ![w] = IdleTick]
  /\ UNCHANGED <<dbVars, evening, drain, request, late>>

-----------------------------------------------------------------------------
(* routers/drips.py: an endpoint loads the campaign, and what its checks need *)

Load(r, req) ==
  /\ request[r].op = "none" /\ req.op \in Ops
  /\ request' = [request EXCEPT ![r] = req]
  /\ UNCHANGED <<dbVars, evening, tick, drain, late>>

LoadForStatus(r) ==
  \E k \in Campaigns :
    /\ \E op \in {"activate", "pause", "archive"} :
         Load(r, [op |-> op, campaign |-> k, seen |-> campaign[k]])
    /\ campaign[k].status # "archived"
    /\ request'[r].op = "activate" => campaign[k].status # "active" /\ Occupied(k) # {}
    /\ request'[r].op = "archive" =>
         ~ \E e \in Enrolled : enrollments[e].campaign = k /\ enrollments[e].state = "active"

LoadForEnroll(r) ==
  \E k \in Campaigns, c \in Contacts :
    /\ campaign[k].status = "active"
    /\ Load(r, [op |-> "enroll", campaign |-> k, seen |-> campaign[k],
                contact |-> c, was |-> status[c]])

LoadForSteps(r) ==
  \E k \in Campaigns, p \in Positions, op \in {"add_step", "patch_step", "delete_step"} :
    /\ op = "add_step" => p \notin Occupied(k)
    /\ op = "patch_step" => p \in Occupied(k)
    /\ Load(r, [op |-> op, campaign |-> k, seen |-> campaign[k], position |-> p])

Unload(r) == request' = [request EXCEPT ![r] = IdleRequest]

Published == {"active", "paused"}

(* _bump_version_if_published, on the campaign as it was loaded. *)
BumpVersion(k, seen) ==
  /\ seen.version < MaxVersion   \* bound
  /\ campaign' = IF seen.status \in Published
                 THEN [campaign EXCEPT ![k].version = seen.version + 1] ELSE campaign

(* activate, pause, archive: the column is written if it differs from what was loaded. *)
CommitStatus(r) ==
  LET req == request[r]
      new == CASE req.op = "activate" -> "active" [] req.op = "pause" -> "paused" [] OTHER -> "archived"
  IN
  /\ req.op \in {"activate", "pause", "archive"}
  /\ campaign' = IF req.seen.status = new THEN campaign
                 ELSE [campaign EXCEPT ![req.campaign].status = new]
  /\ Unload(r)
  /\ UNCHANGED <<status, suppressed, steps, delay, enrollments, outbox, evening, tick, drain, late>>

(* manual_enroll: enroll_contact_in_campaign and its commit. *)
CommitEnroll(r) ==
  LET req == request[r] IN
  /\ req.op = "enroll"
  /\ \A d \in Drains : \A n \in DOMAIN drain[d].new :
       ~IsOpenFor(drain[d].new[n], req.campaign, req.contact)
  /\ Len(enrollments) < MaxEnrollments   \* bound
  /\ IF MayEnroll(req.contact, req.was) /\ IndexAccepts(req.campaign, req.contact, {})
     THEN /\ enrollments' = Append(enrollments,
                  [NewEnrollment(req.campaign, req.contact) EXCEPT !.version = req.seen.version])
          /\ late' = Append(late, 0)
     ELSE UNCHANGED <<enrollments, late>>
  /\ Unload(r)
  /\ UNCHANGED <<status, suppressed, campaign, steps, delay, outbox, evening, tick, drain>>

(* patch_campaign: an archived campaign may be edited too. *)
LoadForPatch(r) ==
  \E k \in Campaigns : Load(r, [op |-> "patch_campaign", campaign |-> k, seen |-> campaign[k]])

CommitPatchCampaign(r) ==
  LET req == request[r]
      k == req.campaign IN
  /\ req.op = "patch_campaign"
  /\ req.seen.version < MaxVersion   \* bound
  /\ \E event \in Events \cup {Null} :
       campaign' = [campaign EXCEPT
         ![k].trigger = event,
         ![k].version = IF req.seen.status \in Published THEN req.seen.version + 1 ELSE @]
  /\ Unload(r)
  /\ UNCHANGED <<status, suppressed, steps, delay, enrollments, outbox, evening, tick, drain, late>>

(* add_step, unless the position was taken meanwhile. *)
CommitAddStep(r) ==
  LET req == request[r]
      k == req.campaign IN
  /\ req.op = "add_step" /\ req.position \notin Occupied(k)
  /\ \E s \in Steps :
       /\ \A j \in Campaigns : \A p \in Occupied(j) : steps[j][p] # s
       /\ steps' = [steps EXCEPT ![k] = [p \in DOMAIN @ \cup {req.position} |->
                                           IF p = req.position THEN s ELSE @[p]]]
  /\ BumpVersion(k, req.seen)
  /\ Unload(r)
  /\ UNCHANGED <<status, suppressed, delay, enrollments, outbox, evening, tick, drain, late>>

(* The steps of campaign k with the one at p moved to q: an incumbent of q is swapped. *)
StepMoved(k, p, q) ==
  [x \in (Occupied(k) \ {p}) \cup {q} \cup (IF q \in Occupied(k) THEN {p} ELSE {}) |->
     IF x = q THEN steps[k][p] ELSE IF x = p THEN steps[k][q] ELSE steps[k][x]]

(* patch_step: another delay, or another position.  A step edited by two
   requests at a time is left out.                                          *)
CommitPatchStep(r) ==
  LET req == request[r]
      k == req.campaign
      p == req.position IN
  /\ req.op = "patch_step" /\ p \in Occupied(k)
  /\ \/ /\ \E n \in Delays : delay' = [delay EXCEPT ![steps[k][p]] = n]
        /\ UNCHANGED steps
     \/ /\ \E q \in Positions \ {p} : steps' = [steps EXCEPT ![k] = StepMoved(k, p, q)]
        /\ UNCHANGED delay
  /\ BumpVersion(k, req.seen)
  /\ Unload(r)
  /\ UNCHANGED <<status, suppressed, enrollments, outbox, evening, tick, drain, late>>

(* delete_step: the row at the position goes; an empty position is a 404. *)
CommitDeleteStep(r) ==
  LET req == request[r]
      k == req.campaign IN
  /\ req.op = "delete_step" /\ req.position \in Occupied(k)
  /\ steps' = [steps EXCEPT ![k] = [p \in DOMAIN @ \ {req.position} |-> @[p]]]
  /\ BumpVersion(k, req.seen)
  /\ Unload(r)
  /\ UNCHANGED <<status, suppressed, delay, enrollments, outbox, evening, tick, drain, late>>

FailRequest(r) ==
  /\ request[r].op # "none"
  /\ Unload(r)
  /\ UNCHANGED <<dbVars, evening, tick, drain, late>>

-----------------------------------------------------------------------------
(* routers/suppression.py, and the transitions of contacts *)

AddSuppression(c) ==
  /\ "suppress" \in Ops /\ c \notin suppressed
  /\ suppressed' = suppressed \cup {c}
  /\ UNCHANGED <<status, campaign, steps, delay, enrollments, outbox, evening, tick, drain, request, late>>

(* The count of late mails starts again: an address is taken off the list when
   its owner may be mailed.                                                 *)
RemoveSuppression(c) ==
  /\ "suppress" \in Ops /\ c \in suppressed
  /\ suppressed' = suppressed \ {c}
  /\ late' = [e \in Enrolled |-> IF enrollments[e].contact = c THEN 0 ELSE late[e]]
  /\ UNCHANGED <<status, campaign, steps, delay, enrollments, outbox, evening, tick, drain, request>>

(* A transition writes its status and its outbox row together (MatchDecision);
   do_not_engage is not left again.                                         *)
ContactEvent(c, event) ==
  /\ status[c] # "do_not_engage" /\ Len(outbox) < MaxEvents
  /\ status' = IF event = DoNotEngage THEN [status EXCEPT ![c] = "do_not_engage"] ELSE status
  /\ outbox' = Append(outbox, [contact |-> c, event |-> event, processed |-> FALSE])
  /\ UNCHANGED <<suppressed, campaign, steps, delay, enrollments, evening, tick, drain, request, late>>

(* Half a day passes. *)
HalfDay ==
  /\ \A w \in Ticks : tick[w].pc = "idle"
  /\ evening' = ~evening
  /\ enrollments' = [e \in Enrolled |->
       [enrollments[e] EXCEPT !.age = IF @ = Never \/ @ = MaxAge THEN @ ELSE @ + 1]]
  /\ UNCHANGED <<status, suppressed, campaign, steps, delay, outbox, tick, drain, request, late>>

-----------------------------------------------------------------------------
Tick(w) ==
  \/ StartTick(w) \/ ExitCurrent(w) \/ Defer(w) \/ BeginSend(w)
  \/ Deliver(w) \/ LoseAnswer(w) \/ RefuseSend(w) \/ CommitTick(w) \/ AbortTick(w)
Drain(d) == StartDrain(d) \/ HandleRow(d) \/ CommitDrain(d) \/ AbortDrain(d)
Request(r) ==
  \/ LoadForStatus(r) \/ LoadForEnroll(r) \/ LoadForSteps(r)
  \/ CommitStatus(r) \/ CommitEnroll(r) \/ LoadForPatch(r) \/ CommitPatchCampaign(r)
  \/ CommitAddStep(r) \/ CommitPatchStep(r) \/ CommitDeleteStep(r) \/ FailRequest(r)

Next ==
  \/ \E w \in Ticks : Tick(w)
  \/ \E d \in Drains : Drain(d)
  \/ \E r \in Requests : Request(r)
  \/ \E c \in Contacts : \/ AddSuppression(c) \/ RemoveSuppression(c)
                         \/ \E event \in Events \cup {DoNotEngage} : ContactEvent(c, event)
  \/ HalfDay

Safety == Init /\ [][Next]_vars
-----------------------------------------------------------------------------
(* Properties *)

TypeOK ==
  /\ status \in [Contacts -> {"engaged", "do_not_engage", Null}]
  /\ suppressed \subseteq Contacts
  /\ campaign \in [Campaigns -> CampaignRow]
  /\ \A k \in Campaigns : Occupied(k) \subseteq Positions /\ \A p \in Occupied(k) : steps[k][p] \in Steps
  /\ delay \in [Steps -> Delays]
  /\ enrollments \in Seq(Enrollment)
  /\ outbox \in Seq(OutboxRow)
  /\ \A w \in Ticks : /\ tick[w].todo \subseteq DOMAIN tick[w].rows
                      /\ \A e \in DOMAIN tick[w].rows : tick[w].rows[e] \in Enrollment
  /\ late \in Seq(Nat) /\ Len(late) = Len(enrollments)

(* At most one open enrolment per campaign and contact, though events of the
   contact are drained concurrently and staff enrol it by hand.             *)
OneOpenEnrollment ==
  \A e, f \in Enrolled :
    IsOpenFor(enrollments[f], enrollments[e].campaign, enrollments[e].contact)
      /\ enrollments[e].state \in Open => e = f

(* The steps an enrolment's log says were sent, position by position: each
   once and in order.                                                       *)
InOrder(row) == \A i, j \in DOMAIN row.log : i < j => row.log[i] < row.log[j]

(* While the steps of its campaign are as they were when it was enrolled (the
   campaign still has the version noted then), an enrolment gets each step
   once and in order, whatever ticks overlap, die or lose an answer.        *)
EachStepOnceInOrder ==
  \A e \in Enrolled :
    enrollments[e].version = campaign[enrollments[e].campaign].version => InOrder(enrollments[e])

(* A contact that asks for no more mail, by do_not_engage or by suppression,
   gets at most the one mail of each enrolment that is on its way.          *)
AtMostOneLateMail == \A e \in Enrolled : late[e] <= 1

(* An enrolment that ended stays ended: a tick that mailed it meanwhile does
   not bring it back, and none is opened again by an exit.                  *)
EndedStaysEnded ==
  [][\A e \in Enrolled : enrollments[e].state \notin Open => enrollments'[e].state \notin Open]_vars

-----------------------------------------------------------------------------
(* Liveness.  Time goes on, the cron starts ticks in every half day, and a
   drain whenever rows wait.  What is tried again and again succeeds in the
   end: a mail is delivered, a batch with a mail or an exit is committed, some
   drain's transaction is.  Each may fail any number of times before.       *)
ChangeIsCommitted(w) ==
  /\ \E e \in DOMAIN tick[w].rows : tick[w].rows[e] # enrollments[e]
  /\ CommitTick(w)

Fairness ==
  /\ SF_vars(HalfDay)
  /\ \A w \in Ticks :
       /\ SF_vars(evening /\ StartTick(w))
       /\ SF_vars(ExitCurrent(w)) /\ WF_vars(Defer(w)) /\ SF_vars(BeginSend(w))
       /\ SF_vars(Deliver(w)) /\ SF_vars(ChangeIsCommitted(w)) /\ WF_vars(CommitTick(w))
  /\ WF_vars(\E d \in Drains : StartDrain(d))
  /\ SF_vars(\E d \in Drains : HandleRow(d)) /\ SF_vars(\E d \in Drains : CommitDrain(d))

Spec == Safety /\ Fairness

Ended(e) == e \in Enrolled /\ enrollments[e].state \notin Open
Subject(e) == enrollments[e].contact

(* An enrolment may end by itself while its campaign is active, has a step at
   or above its position, and its contact is one the claim can return.      *)
MayProceed(e) ==
  /\ e \in Enrolled /\ campaign[enrollments[e].campaign].status = "active"
  /\ PositionsFrom(enrollments[e].campaign, enrollments[e].position) # {}
  /\ status[Subject(e)] \notin {Null, "do_not_engage"}

(* Every enrolment that may go on does, to its end, though others of the batch
   are deferred or refused, ticks die, and time passes only now and then.   *)
EnrollmentsEnd ==
  \A e \in 1 .. MaxEnrollments : MayProceed(e) ~> (Ended(e) \/ ~MayProceed(e))

Engaged(e) == e \in Enrolled /\ status[Subject(e)] # "do_not_engage"

(* do_not_engage ends every enrolment its contact has when it is set, though a
   tick holds the row, drains overlap and any of them die.  One that is
   inserted but not committed then is not covered: the drain of the
   do_not_engage row does not see it, and it may stay active for good (the
   claim's status filter keeps it from being mailed: AtMostOneLateMail).    *)
DisengagedEnrollmentsEnd ==
  \A e \in 1 .. MaxEnrollments : [](Engaged(e) => <>(Ended(e) \/ []Engaged(e)))
=============================================================================
