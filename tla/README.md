# A verification of the JP ADOPT core

TLA+ models of the server side of JP ADOPT (`apps/api`, `apps/worker`,
`apps/etl`): what its concurrent requests, cron ticks and imports do to the
database they share, checked with TLC on small instances and, for the
properties that matter most, proved with TLAPS for every instance.

Everything here is read from the source; the line ranges each definition stands
for are in `PROJECT.json` under `map`.

## 1. The system

JP ADOPT keeps the people and organisations (contacts) who want to adopt a
people group (an "FPG"), and matches each of their interests with a
facilitating organisation.

| Component | State (table) | Operations | Talks to |
|---|---|---|---|
| Contact state machine (`domain/state_machine.py`) | `contacts.adopter_status`, `facilitator_status`, `version`; `transition_audit` | `transition_adopter`, `transition_facilitator` | called by the decision and transition endpoints; writes `outbox` |
| Match decisions (`routers/matches.py`) | `match`, `facilitating_org.capacity_committed` | decide: accept, send_back, route_elsewhere; run | state machine, matching engine, outbox |
| Matching engine (`domain/matching.py`) | `match`, `match_attempt` | `match_or_route` | orgs, coverage, earlier matches |
| Transition endpoint (`routers/workflow.py`) | none of its own | `POST /v1/contacts/{id}/transition` | state machine; open matches for its scope check |
| Facilitating orgs (`routers/admin.py`) | `facilitating_org`, coverage, memberships, roles, intake keys | create, patch, deactivate, activate, coverage and role edits | matches (count of open ones) |
| Intake forms (`routers/intake.py`) | `contacts`, `adopter_interest`, `api_idempotency_keys`, `submissions_blocked` | adoption and facilitation submissions; hourly purge of keys | outbox |
| Forms import (`apps/etl/forms_orchestrator.py`) | the intake's tables, `etl_run` | `run_forms_etl` in batches, each row in its savepoint | intake's `process_*_payload` |
| Staff edits (`routers/contacts.py`, `manual_contacts.py`) | contacts, interests, assignments, tombstones | patch, assign, create, delete, remove interest | imports; matches, by foreign-key cascade |
| Outbox delivery (`apps/worker/outbox_delivery.py`) | `outbox.claimed_at`, `processed_at` | `drain_outbox` each 10 s | webhook receiver |
| Drip campaigns (`domain/drips.py`, `routers/drips.py`, `send_drip_step.py`) | `campaign`, `campaign_step`, `enrollment`, `enrollment_event`, `outbox.drip_processed_at` | enrol on an event or by hand, send the due step, exit, edit campaigns | outbox, e-mail provider, suppression list |
| Suppression list (`routers/suppression.py`) | `suppression_list` | add, remove | read by the drip tick |
| Daily digest (`domain/digest.py`, `send_daily_digest.py`) | `digest_run`, `digest_recipient` | tick every 10 min | matches, e-mail provider |
| Magic links (`auth_magic.py`, `auth_magic_link.py`) | `magic_link_token`, `magic_link_rate_limit`, `identity_link` | request, claim, mail in the background, purge | e-mail provider |
| Disciple.Tools import (`apps/etl/orchestrator.py`) | `etl_run`, watermarks, tombstones, `migration_conflicts` | hourly job: four tables, sweep of deleted rows | contacts, comments, interests, assignments |
| Duplicate merge (`reconcile/track_a_duplicate_email.py`, `routers/etl_admin.py`) | `duplicate_review_decision`, the rows above | plan, decide, apply | the import, staff |
| Web front end (`apps/web`) | none the server relies on | | API |

Behaviours that are hard:

* Requests run at READ COMMITTED with autoflush off. A handler reads rows in
  several statements, decides, and writes at the end; only the contact's
  version is re-read under a lock. Everything else a decision is based on (the
  match's status, the org's activity, the exclusion list) may be stale.
* Guards live in four places: Python `if`s on rows already read, WHERE clauses
  of UPDATEs, a partial unique index, and CHECK constraints. Which of them
  sees committed data decides what can go wrong.
* The matcher's insert waits for other transactions' uncommitted rows.
* The worker claims, sends and marks in three transactions; a crash between any
  two, an answer that is lost, or a claim that grows stale must not lose an
  event.
* E-mail is sent from inside transactions that may roll back.

The full list, each at its line, is `hazards` in `PROJECT.json`.

What makes each component correct:

* state machine: no lost update, the audit trail is the history, every status
  change is a row of the table;
* matching: one open match per interest, the ledger within capacity and equal
  to what is reserved, closed matches stay closed, deactivated orgs get nothing;
* outbox: every committed event is delivered at least once, no row is being
  sent twice at the same time, nothing is sent again once marked;
* drips: each step once per enrolment and in order, enrolments end, at most the
  mail on its way after do_not_engage;
* intake: a form is written once per idempotency key, and every form answered;
* digest: no match forgotten, every day's digest out, repeats only after a fault;
* magic links: an exact limit, one session per link, one subject per person;
* imports: a watermark skips nothing, deletions last, staff's work survives.

## 2. Modules

```
StateMachine            the transition tables (constants and operators)
  ContactLifecycle      abstract: statuses move along the tables
  MatchDecision         the concurrent requests   --implements--> ContactLifecycle
    MCMatchDecision     instances for TLC
    MatchDecision_proofs

OutboxChannel           abstract: at-least-once delivery of committed events
  OutboxDelivery        the worker's ticks        --implements--> OutboxChannel
    MCOutboxDelivery    instances for TLC
    OutboxDelivery_proofs

DripEngine      campaigns, enrolments, ticks, drains        MCDripEngine
    DripEngine_proofs
ContactImport   import, duplicate merge, staff's edits      MCContactImport
    ContactImport_proofs
Intake          form endpoints and the forms import         MCIntake
    Intake_proofs
MagicLink       requests, claims, identities                MCMagicLink
    MagicLink_proofs
DailyDigest     windows, runs, mails                        MCDailyDigest
    DailyDigest_proofs
```

The modules meet in tables. `MatchDecision` writes the statuses `DripEngine`
reads and the matches `DailyDigest` reports; both of these take such writes as
actions of their own (`ContactEvent`, `Recommend` to `Decide`). `Intake` writes
the contacts `ContactImport` merges. `OutboxDelivery` and `DripEngine` share the
outbox rows: the former has the latter's locks.

**StateMachine** holds the two Python tables as sets of rows
`[from, to, role, event]`, the universal path to `do_not_engage`, the role a
caller's role set is reduced to, and `Permitted`, the validation of
`_transition_generic`.

**ContactLifecycle** is what a reader of the tables expects: one status of one
contact moves along one row at a time. No version, audit or request exists here.

**MatchDecision** is the core. A *worker* is one HTTP request. `pc[w]` says how
far it has read; `seenMatch[w]`, `seen[w]`, `target[w]`, `run[w]` are the rows
and locals it carries. Code and actions:

| Code | Actions |
|---|---|
| `decide_match`, role checks and `db.get(Match)` | `ReadMatch` |
| `db.get(Contact)` | `ReadContact` |
| accept / send_back branch to commit | `CommitAccept`, `CommitSendBack` |
| route_elsewhere: target SELECTs, then writes | `ChooseTarget`, `CommitRoute` |
| `run_match`, `match_or_route` | `StartRun`, `LoadCandidates`, `ProcessInterest` per interest, `CommitRun` |
| `post_transition` | `ReadForTransition`, `CommitTransition` |
| org patch, deactivate, activate | `PatchCapacity`, `ReadForDeactivate` + `CommitDeactivate`, `Activate` |
| adoption form for a known contact | `ReadForIntake`, `CommitIntakeNoFpg`, `CommitIntakeFpg` |
| any error, refusal, abort or crash | `Fail` |

Why these steps: two SELECTs whose results are related by a later guard or
write are two actions, since another request may commit between them. A
request's writes are one action: each row is locked from its write to the
commit and no unlocked read follows the first write. Guards that the database
evaluates (version under FOR UPDATE, the capacity WHERE clause, the index, the
CHECKs) read committed state in the commit action; guards in Python read the
request's snapshot. The matcher is the exception: its inserts meet the unique
index one interest at a time, so they are separate steps, and a row inserted but
not committed blocks others (`Blocked`).

The matching score is data: `ProcessInterest` lets any order of the passing orgs
come out. Reason codes, texts and timestamps are left out. `_stamp_decision`
goes through the ORM, which writes the status column only if it changed from
what was read: `Stamped` models that.

**OutboxChannel** says what the outbox promises: an event committed is accepted
by the receiver and afterwards marked, each in the end.

**OutboxDelivery** is `drain_outbox`. A *tick* is one run of the cron job; ticks
overlap, because one may take longer than the ten seconds between them.

| Code | Actions |
|---|---|
| `emit_outbox`, committed with its producer | `Emit` |
| phase 1 of `process_outbox_batch` | `Claim`; `EndTick` when there is nothing to claim or the batch is used up |
| phase 2, `_post_row` | `Receive` (at the receiver), `Answered`, `PostFails`, `ArriveLate` |
| the except clause, and the `break` of `drain_outbox` | `ClearClaim` |
| phase 3 and the next round of the loop | `Mark` |
| process death, or ARQ's job timeout | `Stop` |
| the clock | `Pass` |
| `drain_drip_enrollments`, for its row locks | `DripLock`, `DripCommit`, `DripRollback` |

Time is relative: each claim has an age and each running tick an elapsed time,
both in units of a discrete clock; ages stop counting once stale. This keeps the
state space finite without a bound on the length of a behaviour. Each of the
three transactions is one action: another tick that meets its row lock skips the
row, and finds what it would have found after the commit. `session.get` and the
UPDATE that follows are one step because no other tick has the row, which is a
theorem (`ClaimsAreExclusive`) and not only a habit. A POST whose sender gave up
may still be taken (`stray`).

Assumed: the ticks read one clock (each compares `claimed_at`, written by
another worker's clock, with its own), and the job limit is at most
`CLAIM_STALE_AFTER`. Both are five minutes: ARQ's default applies, since the
cron job sets no timeout. `OutboxAssumption` names it, and the mutant
`StaleTooSoon` shows how close it is.

**DripEngine** has three kinds of process: ticks of `send_drip_step`, drains of
`drain_drip_enrollments`, and requests to the campaign endpoints.

| Code | Actions |
|---|---|
| `claim_due_steps` | `StartTick` (due, not locked by another tick, oldest first, up to the batch) |
| `_process_due_steps`, per enrolment | `ExitCurrent`, `Defer`, `BeginSend`, then `Deliver`, `LoseAnswer` or `RefuseSend` |
| end of the tick's transaction | `CommitTick`, `AbortTick` |
| the drain, its rows, its transaction | `StartDrain`, `HandleRow`, `CommitDrain`, `AbortDrain` |
| campaign endpoints | `LoadFor...` then `Commit...`, `FailRequest` |
| suppression list; any producer of an outbox row | `AddSuppression`, `RemoveSuppression`; `ContactEvent` |

A tick's rows are its own copies until it commits, since its mails are sent
inside the transaction: that is where a rollback makes a second mail. Time is
half days and the age of an enrolment's last mail, so nothing bounds it.

**ContactImport** is the hourly job with the staff around it. `StartJob` resolves
the watermark, `TakeLock` or `SkipImport` follows the advisory lock, and each
table is what it loads, then what it writes and commits (`Load`,
`WriteContacts`, `WriteAssignments`, `WriteActivity`, `WriteInterests`), or
`Fail`. `PlanMerges` and `ApplyMerges` are the second half of the job, which
runs without the lock. DT edits are `EditPost`, `RemovePost`, `AddComment`; staff
are `EditContact`, `AssignContact`, `CreateContact`, `DeleteContact`,
`RemoveInterest` and `Decide`. A merge deletes its loser: history and interests
move to the target before, a DT assignment may, and an assignment by staff goes
with the loser. A merge is refused for contacts with an open
match, which here is any choice. Two edits of DT never bear the same second:
`fetch_max_modified` and the strict comparison of the next run would otherwise
skip a post.

**Intake** holds both ways a form reaches the core. A request is one transaction
in the steps `authenticate`, `claim` (the idempotency key), `lookup`, `find` (the
contact), `put`, `commit`, `answer`. A row or key that another transaction has
inserted and not committed makes it wait; a rollback (`Lose`, or a unique
violation nobody handles) lets the waiter go on. The forms import takes its rows
in batches, each committed; a row is its select (`FindRow`), what it writes
(`PutRow`) and the flush of a profile it adds to a contact that was there before
(`FlushRow`), which fails the row if a request has inserted one meanwhile. The
forms site writes what it posts to its own database too, so `Rows` may hold
posted forms: `brought` counts what imports wrote of each form. Pending keys are
never visible (a key is committed together with its answer), so the branch that
answers 409 is unreachable and is left out.

**MagicLink** has calls to `/request` (`Ask`, `Count`, `Store`, `Issue`,
`SendMail`) and to `/claim` (`Click`, `Claim`, `FindIdentity`, `InsertIdentity`,
`CommitClaim`), with the advisory lock, the token's row lock and the unique index
on identities as what they wait for. `Lose` is the death of a process at any
point, also between the commit and the mail. `Purge`, `LinkB2C` (the ETL's staff
links) and `DeleteContact` happen meanwhile.

**DailyDigest** is the tick of the digest. A day is a few slots from 09:00 on,
with a tick in each. `StartRun` looks for an earlier run and fixes the plans;
`Send` and `FailSend` go through them; `CommitRun` records the run, `LoseRun`
loses it while its mails stay sent, `MissTick` is a worker that is down.
Meanwhile matches are made and committed, as recommended or for triage (a
transaction may cross into the next slot), and accepted or closed, in any order:
a stale accept may reopen one. `at` is `recommended_at`, which no decision
touches, and `seen` the slot since when the digest's query can find the match.

## 3. Runs

Bounds are constants of the models, each named and given in the `.cfg`. Deadlock
is not checked where the system may stop: when the bounds are used up and
nobody asks for anything, nothing is left to do, in the program too. Processes
are interchangeable where a `SYMMETRY` is given: no constant tells them apart,
and every property of such a run is an invariant or one of single steps. Runs
with a liveness property have no symmetry.

| Run | Question | Result |
|---|---|---|
| `match_core` | One contact, perhaps of both kinds, an org and the triage org, two callers, every decision, the transition endpoint and the matcher. Types, index, versions, audit path, implementation of `ContactLifecycle` | holds |
| `match_contention` | Two contacts compete for one org while its total is lowered and it is switched off and on, forced runs race each other and the intake form: is the ledger in bounds, and one match per interest open? | holds |
| `match_reservations` | A contact with two people groups: has every match that claims a slot one? | **violated** |
| `outbox_safety` | Two overlapping ticks, two rows: one tick per row, no event marked that was not taken, every step a step of the channel | holds |
| `outbox_liveness` | Whatever ticks die on the way, is the channel implemented with its fairness: is every committed row taken and marked in the end? | holds |
| `drip_safety` | Two overlapping ticks, a drain, an editor, a suppressor: one open enrolment, steps once and in order, at most one late mail, ended stays ended | holds |
| `drip_liveness` | Two overlapping drains. Do enrolments end, behind others that are deferred or refused, and those a contact had when it disengaged? | holds |
| `import_safety` | Two posts with one e-mail, overlapping jobs, staff: unique keys, deletions that last, a watermark that skips nothing, history and staff's assignments kept on every contact that is not merged away | holds |
| `import_edits` | Do staff's edits survive the next import? | **violated** |
| `intake` | Three clients, one key, two forms, and a forms database of two rows, one of them a posted form: effects match keys and imports, answers kept, one welcome, every form answered | holds |
| `magic_link` | One person, two calls at a time, up to three links: exact limit, true answers, one session per link, one subject, no call waits for ever | holds |
| `digest` | Two days, two matches, in triage or not, staff and facilitators, one fault: a done window left out no match its runs could find, repeats explained, every digest out | holds |

**Matching.** `MaxVersion` (contacts.version), `MaxMatches`, two concurrent
requests (`Workers`), and the callers. Two requests suffice for every race of a
pair of handlers; `MaxVersion = 4` lets a contact be matched, sent back and
matched again with a transition in flight, `MaxMatches = 3` lets a match be
re-routed twice. The capacity is 1, or 0 and 1 where it is edited: a shortage is
one accept away. `match_core` has the re-routing, `match_contention` the second
contact; `MaxVersion = 2` there lets each be accepted once. `match_reservations`
needs no concurrency: its counterexample is two accepts, one after the other.

**Outbox.** Two rows tell order and head-of-line apart, two ticks are what it
takes to share a row, and a third adds only another holder of a row that is
already exclusive (the proof covers any number). A batch of two lets a tick go
round its loop. Two units of time leave a claim room to be neither fresh nor
stale. The liveness run has one tick slot, which the cron fills again and again:
temporal checking of two slots is beyond the time a run may take. `Rejected` is
empty: with a row the receiver refuses for good, those behind it are not
delivered (section 5).

**Drips.** One campaign with two steps, the second in the second half of the day;
one contact for safety, two with batches of one for liveness, so that one
enrolment stands in the other's way. `MaxVersion` bounds campaign edits: one
edit of a published campaign is what `EachStepOnceInOrder` distinguishes. There
is one requester, since the property fails with two (section 5).
`drip_liveness` has two overlapping drains, with one row each, and one tick; it
leaves out steps, enrolment by hand and suppression, which `drip_safety` has.
`DisengagedEnrollmentsEnd` speaks of the enrolments a contact has at
do_not_engage. One that another drain has inserted and not committed is seen by
nobody then and may stay open for good (section 5).

**Imports.** Two posts and one e-mail make a duplicate; two jobs overlap, and up
to three run one after the other; three edits of DT, two staff requests, and
`MaxInAll` bounds jobs and requests together. `DroppedEmailsAreListed` exempts
contacts that were merged: a job that loaded its e-mails before another's merge
drops one that the merge takes off the list.

**Intake.** The clients are a double click (one form, one key, twice) and a
different body under the same key. The form of the double click is a row of the
forms database as well, after an older form that was not posted, in batches of
one. `MaxEvents` bounds crashes, lost answers, purges and
do_not_engage together, `MaxImports` the imports, `MaxInAll` all of these.

**Magic links.** `Limit = 2` of six, and one unit of time is at once the life of
a link, the window of the limit and the age a row is purged at. In the program
the three differ (15 minutes, one hour, two hours); `Window <= Retention` is what
the limit needs and is assumed, and `MagicLink` takes any values. The run meets
each at its boundary.

**Digest.** Two sending slots of a day of three, instead of three of 144, and
one fault: a fault in the first tick leaves the second. The one of staff is also a
facilitator, and another facilitator is of both orgs: the two cases in
`build_digest_for_window` that skip an address.

### Fairness

Outbox (`outbox_liveness`). Weak: the clock runs, the cron fires, a tick that may
end or clear does so, a tick at its limit is cancelled; these the runtime gives.
Strong: claims, deliveries, answers and marks of a row, and a commit of the drip
drain, succeed if they are possible again and again.

Drips (`drip_liveness`). Weak: some drain starts, a tick defers a step and
commits; nothing outside the process takes these away for ever. Strong: half days
pass, ticks start in the evening too, a step that may be sent or exited is, a
delivery and the commit of a batch that changes an enrolment succeed, and of all
drains, some get through a row and through the commit again and again: none of
these fails at the same point for ever. It is the assumption the code's retry by
the next tick is made for.

Intake. Weak only: a client that got no answer or a 500 sends again under its
key, and requests and imports that have begun go on. Failures are bounded by
`MaxEvents`.

Magic links. Strong, for each call's next step: PostgreSQL grants row and
advisory locks in the order they are waited for, so newer calls do not pass a
waiting one for ever. Nobody need ask or click.

Digest. Weak: time passes, transactions commit, a run goes on to its end. How
often a mail fails, a run dies or a tick is missed is `MaxFaults`, which the
assumption `MaxFaults < SendSlots` of `DigestGoesOut` keeps below the number of
ticks: a worker that is down from 09:00 to 09:30 skips the window for good.

All other runs check safety and assume none.

## 4. Proofs

### `MatchDecision_proofs`

For every set of workers, contacts, interests, orgs, capacities and endpoints,
from `ConstantsAssumption` alone:

* `TypeCorrect`: `Spec => []TypeOK`. `TypeOK` is not inductive: a request's
  commit dereferences the match id and contact it carries. `TypeInv` adds
  `RequestOK(w)`: what a request at each program point carries, and that its
  match id is a row that exists (rows are never removed).
* `TransitionsAreNotLost`: `Spec => []NoLostTransition`. The version check in
  `Transition` makes the version written the successor of the one stored, and an
  audit row is appended in the same step; `ContactSteps` shows nothing else
  writes a version.
* `CapacityIsNeverExceeded`: `Spec => []CapacityWithinBounds`, from the WHERE
  clause of the increment and the CHECK on the total.
* `MatchesAreExclusive`: `Spec => []OneOpenMatchPerInterest`. Not inductive
  alone: a run commits rows inserted several steps ago. `OpenInv` adds that no
  uncommitted row shares its interest with a committed open match, with another
  uncommitted row, or with an interest its own run has still to process, and
  that only a run in its insert phase has such rows.
* `ContactsFollowTheLifecycle`: the refinement `Spec => Lifecycle!Spec`, under
  the hypothesis that `intake` is not among the endpoints (with it the theorem
  is false: see section 5). The invariant is `SnapshotInv`: the
  snapshot a request holds is never newer than the row and equals it while the
  versions agree; so the table row looked up for the snapshot is the table row
  for the stored status. The mapping is the identity on `status`.
* `AuditTrailIsAPath`: `Spec => []AuditIsAPath`, under the same hypothesis and
  from `SnapshotInv`: an audit row starts at the status the row has, since the
  version the request read is still the stored one.

### `OutboxDelivery_proofs`

For every number of rows and ticks, every batch size and every job limit up to
`StaleAfter`, from `OutboxAssumption` alone:

* `TypeCorrect`, `ClaimsAreExclusive`, `ClaimsAreHeld`, `NothingIsLost`:
  `TypeOK`, `OneTickPerRow`, `WorkedRowIsClaimed`, `MarkedWasAccepted` always
  hold. The invariant `Inv` adds three facts. `ClaimIsYoung` is the heart: a
  claim is no older than the tick that holds it, so by the job's limit it is not
  stale while the tick runs, and no other tick can take the row
  (`HeldIsNotClaimable`); without it exclusivity is not inductive, since nothing
  in phases 2 and 3 looks at the claim again. `AnswersAreTrue` ties phase 3 to
  an acceptance, and `BatchCounts` keeps the batch counter from going below 0.
* `ImplementsChannelSteps`: `Safety => StepsOfChannel`, the refinement of
  `OutboxChannel` with the identity on the three variables. A mark is an
  `Acknowledge` because of `ClaimsAreHeld` and `NothingIsLost`.

### `DailyDigest_proofs`

For all matches, orgs and recipients, every length of the day and of its
half-hour and any number of faults, from `DigestAssumption` alone: `TypeCorrect`,
`NothingForgotten` and `RepeatsExplained`, of `TypeOK`, `NoMatchIsForgotten` and
`RepeatsAreExplained`. None is inductive. `IInv` adds, for the first, that the
plans of the run under way cover what is owed of its window (`PlansCover`), and
who was passed and did not fail has the mail; that what the query starts to find
from now on is owed by later runs only (`MatchStep`) carries it to the commit,
through triage matches accepted and closed ones reopened. For the second it
bounds the mails of one day to one address by the runs lost, the rows recorded
that are not empty, and the run under way once past the address
(`AllAccounted`), while a window is done at most once (`DoneOnce`), and `OneWindow`
shows that the windows of two days share no slot.

### `DripEngine_proofs`

For any contacts, campaigns and steps, any number of ticks, drains and requests
at a time and every bound, from `DripAssumption` alone:

* `TypeCorrect`: `Safety => []TypeOK`, with the locals of the three processes
  (`TickOK`: what a tick works on are rows it has locked).
* `EndedForGood`: `EndedStaysEnded`. The invariant is `LockInv`: a row a tick
  has is active, no other tick has it, and until its turn the tick's copy is the
  committed row. Without the last a commit could write an older state back.
* `OneEnrollmentOpen`: `OneOpenEnrollment`. A drain inserts rows long before it
  commits them; `OpenInv` says that an uncommitted row has no uncommitted rival,
  and a committed one only if the same drain is to exit it (`ReplacesOnlyExits`).
* `OneLateMail`: `AtMostOneLateMail`. `NotMailedAgain` is what holds after the
  one mail: no tick has the row still to do, or the contact is suppressed and the
  tick is not in the middle of sending, so that the second look will skip it.
* `StepsOnceInOrder`: `EachStepOnceInOrder`, under `OneEditor`: one campaign
  request at a time. `RowsInOrder` says of committed rows, a drain's new rows and
  a tick's copies that what was sent lies below the position, for rows of the
  campaign's version. With two editors it is false (section 5).

### `ContactImport_proofs`

For any posts, e-mails, comments and interests, any number of jobs and every
bound, from `ImportAssumption` alone. The import of a table and the merge are
folds over the posts in the order of their ids: `ImportIsStepwise` and
`MergeIsStepwise` unfold them, and `ImportMakes` and `MergeMakes` carry what is
true of the rows written so far (`ImportAcc`, `MergeAcc`) from one post to the
next, by the well-ordering of the numbers (`AllNumbers`). Every step to do
with a table uses these two instead of the fold.

* `TypeCorrect`: `TypeOK`. `TypeInv` adds `JobOK`, what a job's locals are at each
  point: the deletions it loaded are among those there are now, since deletions
  are never taken back, and a plan's target and loser are ids given out.
* `DroppedAreListed`: `DroppedEmailsAreListed`, inductive on top of `TypeInv`: a
  deletion unlists the deleted row's post only, and a merge those it merges.
* `DeletedAreGone`: `DeletedStayDeleted`. `DeletedInv` adds that a job about to
  write the contacts, or to merge, knows of every deletion that did not overlap
  it (what it loaded has the key, or no plan of its has that post), and that no
  entry for such a post is left on the list of duplicates to be planned.
* `CoreHasCaughtUp`: `CaughtUp`. `CaughtInv` speaks of marks, the times up to which
  the core is to have everything: what a table has recorded, and what a job has
  resolved and not used yet. `MarksHold`: up to any mark, posts are covered (in
  the core, as in DT or as staff left it, or deleted or merged). `SnapshotsHold`:
  a post that a running import's snapshot does not have as it is now is newer
  than every mark and than the snapshot itself, so that nothing the job records
  can pass it. `ContactsFirst`: past its first table a job's snapshot is covered,
  without which the watermark of `activity_log` could run ahead of contacts.
  `OneImport` is the advisory lock, and `LosersHold` says that a planned loser
  still has its plan's key or was merged, so that a merge removes no other row.
* `JobsKeep`: the action property `JobsKeepWhatStaffHave`, from `TypeInv`,
  `LosersHold` and what the two folds do to owners and to children. It is about all
  contacts: one that is gone after a job's step was the loser of a merge
  (`MergesKeep`), any other has the owner its staff gave it.

### `Intake_proofs`

For any clients, forms, keys and API keys, any forms database (of distinct rows,
posted or not) and batch size, from `IntakeAssumption` alone: `TypeCorrect`,
`EffectsMatch`, `AnswersKept` and `WelcomedOnceOnly`, of `TypeOK`, `EffectsMatchKeys`, `AnswersAreKept` and
`WelcomedOnce`. One invariant, `IInv`, carries the last three: `InsertInv` (of all
that have inserted an e-mail and not committed, requests or import, there is
one, and no contact has it), `KeyInv` (one request works under a key, and only
while nobody has committed it), `PromiseInv` (the balance itself; that
no promise is both stored and purged, and that the numbers given out so far
are at most what was written, so that a new promise is a new element and the count
goes up by one), `AnswerInv`, `RowInv` (a row that made a contact is brought once
and is in the list of every import under way) and `RunInv` (a run counts a row once:
what is still to be read has been brought by earlier runs only).

### `MagicLink_proofs`

For any calls and e-mails, every limit, life of a link, window and retention,
from `MagicLinkAssumption` alone:

* `TypeCorrect`: `TypeOK`; that ids run out only where the bound says so takes
  `RoomForTokens`: a call that asks reserves the number of its token.
* `LinksRationed`: `LinksAreRationed`. `RateInv` adds that a call that has
  counted keeps its place until it has issued (`PlaceKept`), that an e-mail has
  one such call (`OneCounter`, the advisory lock), and that rows that were
  purged are too old to count (`RecentKept`, from `Window <= Retention`).
* `LinksGiveOneSession`: `ClaimedForOneSession`, from `OneClaimer` and
  `NotYetClaimed`.
* `ToldTheTruth`: `CallsAreToldTheTruth`, from the two before.
* `OneSubject`: `OneSubjectPerEmail`. `SubjectInv` adds who is about to insert a
  first identity, and that every subject signed in is known from the rows or
  from the deletions.

### Only model-checked

Liveness: of the outbox with the refinement of the channel's fairness
(`ImplementsChannel`), `EnrollmentsEnd`, `DisengagedEnrollmentsEnd`,
`FormsAreAnswered`, `EveryCallEnds`, `DigestGoesOut`. Liveness under fairness and
ENABLED are out of the prover's reach here. Every other property of a passing
run is a theorem. Three theorems have a hypothesis, which their run makes too and
without which they are false: no intake form for `FollowsLifecycle` and
`AuditIsAPath`, one editor for `EachStepOnceInOrder`.

## 5. Where code and text disagree

Two are kept as runs, with their counterexamples (`import_edits`,
`match_reservations`). The others were
met in the same way while modelling: the property was stated, and TLC showed how
it fails. They explain why some properties above are not stronger.

* *Staff edits* (`import_edits`). The runbooks say that
  `local_modified_after_import` keeps the import away from an edited contact. No
  code sets it; the next change in DT overwrites the edit.
* *Second people group* (`match_reservations`; `routers/matches.py:839`, "the slot
  was already reserved"). accept goes by the contact's status: once one match
  has made it matched, the match for its second people group becomes active
  without a slot, at an org that may have none left.
* *Ledger leak* (`routers/matches.py:874`, "an exact count"). accept (slot
  taken), route_elsewhere (slot moves, but the successor is inserted as
  `recommended`), send_back of the successor: nothing is released. So does a
  send_back that read its match as recommended just before an accept committed,
  and the contact just after.
* *Double release* (`matches.py:715`). route_elsewhere looks at no version. It
  and a send_back that both read the match as accepted each release its slot;
  the second release is paid by another match of the org.
* *Reopened match* (`matches.py:821`). The match is read before the contact. A
  decision that commits between the two reads leaves the other with a stale match
  and a fresh version, which passes. A stale accept of a match that was sent
  back may take a slot and leave the match sent back, since the ORM does
  not write a status that equals the one read.
* *Accept retry* (`matches.py:801`). `accepted` is a queue status, so a staff
  admin's repeated accept is a new decision, on to active.
* *Intake and the lifecycle* (`routers/contacts.py:993`). The adoption form writes
  `potential_adopter` on any known contact that is not do_not_engage.
* *Inactive org* (`routers/admin.py:876`). The count of open matches is read
  without a lock; a matcher that read the org as active commits after it.
* *Head of line* (`worker_settings.py:55`). A failed POST ends the tick and gives
  the claim back, and the next tick takes the oldest row again: while the
  receiver refuses it, nothing behind it is sent.
* *Gap in a campaign* (`domain/drips.py:449`). After a middle step is deleted the
  claim sends the next one, the advance counts from the deleted position and
  finds the step just sent, which goes out twice.
* *Lost version* (`routers/drips.py:287`). The bump of a campaign's version is
  computed from the row as loaded, without a lock: of two overlapping edits one
  is lost, a new enrolment bears the version of before the second edit, and
  one step may be sent twice under it. That is why `drip_safety` has one requester
  and `StepsOnceInOrder` one editor.
* *Welcome* (`routers/intake.py:657`). A form that is refused for an unknown people
  group has flushed its contact, and the refusal commits: the corrected form
  finds a known contact and starts no `contact.submitted`.
* *Forms import*. Only a row that made its contact leaves its `source_id`; rows of
  known contacts are written again by every run that reads them. That includes
  every posted form: the site dual-writes (`routers/intake.py:4`), and
  `forms_source.py:30` selects all submissions. `EffectsMatchKeys` counts these
  writings apart, in `brought`, and bounds them by the runs.
* *Replay* (`routers/intake.py:20`). The docstring says that a replay is answered
  200; the code and its tests answer with the original code, as the model does.
* *Enrolled after do_not_engage* (`worker_settings.py:97`, `272`). Drains overlap and
  skip each other's rows. One that read the contact as engaged may commit its
  enrolment after the other has handled the do_not_engage row, and nobody exits
  it. It is never mailed, since the claim reads the contact's status.
* *Merge and staff* (`track_a_duplicate_email.py:929`, `1079`). A staff assignment
  of the target is kept; one of the loser is not moved, and cascades with it.
* *Digest* (`docs/runbooks/daily-digest.md:114`, "Should be impossible"). A failed
  recipient makes the run `failed`, and the next tick mails everybody again; the
  index the runbook names is per run. A facilitator of two orgs gets the matches
  of one of them.
* *Triage and digest* (`domain/digest.py:6`, "transitioned to `recommended` /
  `accepted` within" the window). The query goes by `recommended_at`, which
  accepting does not touch. A triage match accepted after its window is done is
  in no digest; nor is one that a stale accept reopens then.

## 6. Not modelled, and the plan

* Matching score: any order of the passing orgs is allowed (`ProcessInterest`).
  Planned as `MatchRanking`, pure operators against a reference.
* Deletion of a contact beside decisions: the cascade removes matches without
  releasing their slots. `ContactImport` deletes contacts, and has no matches.
* Lock order: two re-routings between two orgs in opposite directions deadlock
  and PostgreSQL aborts one, which `MatchDecision` has as `Fail`.
* Import: users, profiles, the second track of history rows, dry runs; a first run
  that fails after contacts, whose older comments no later delta run reads
  (`orchestrator.py:1130`); the staff identity tracks (`reconcile/track_b_*`) but
  for the link they write.
* Digest: the change of the UTC offset on fixed dates, around which windows
  overlap or leave an hour out. Modelled, and outside what `NoMatchIsForgotten`
  claims: a match whose transaction commits, or that is accepted from triage, in
  the slot of the run that ends its window or later (section 5).
* The DT import's upsert of a contact writes both statuses as DT has them
  (`orchestrator.py:538-546`), outside the state machine: `MatchDecision` has the
  endpoints and the form only, and `FollowsLifecycle` is about those.
* Admin: creation of orgs, coverage, memberships, role grants and API keys are
  single-row writes; they are fixed data of the models.
* Bearer authentication reads tokens and roles and keeps no state.
* Schemas, configuration, rendering of e-mails and the front end keep no state the
  server relies on; Microsoft Graph, Entra and Alembic migrations are external.

Next to prove: the functions `MatchRanking` will have, and, of the wider
questions, what the outbox rows that `OutboxDelivery` and `DripEngine` share owe to
each other's locks.
