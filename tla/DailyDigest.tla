---------------------------- MODULE DailyDigest ----------------------------
(***************************************************************************)
(* The digest of matches: domain/digest.py and tasks/send_daily_digest.py. *)
(*                                                                         *)
(* The worker ticks every ten minutes.  A tick between 09:00 and 09:30     *)
(* Eastern time mails the matches of the 24 hours before 09:00, unless a   *)
(* run of that window has been recorded as sent or empty.  All of a run is *)
(* one transaction: its rows are lost with it, its mails are not.  A job   *)
(* is stopped after five minutes, so that runs never overlap.              *)
(*                                                                         *)
(* A day has SlotsPerDay slots and begins at 09:00, and its first slots    *)
(* have a tick that may send.  The offset from UTC does not change: around *)
(* the days it does, windows overlap or leave an hour out.                 *)
(***************************************************************************)
EXTENDS Integers, FiniteSets

CONSTANTS
  Matches, Orgs,
  OrgOf,        \* OrgOf[m]
  Staff,        \* addresses of staff who take the digest
  MembersOf,    \* MembersOf[o]: addresses of the facilitators of org o
  SlotsPerDay,
  SendSlots,    \* slots from 09:00 to 09:30
  Days,
  MaxFaults     \* bound on failed mails, lost runs and missed ticks, together

Addresses == Staff \cup UNION {MembersOf[o] : o \in Orgs}
AllDays == 1..Days
Slots == 0..(Days * SlotsPerDay + SendSlots - 1)

ASSUME DigestAssumption ==
  /\ OrgOf \in [Matches -> Orgs] /\ DOMAIN MembersOf = Orgs
  /\ {Days, MaxFaults} \subseteq Nat
  /\ {SlotsPerDay, SendSlots} \subseteq Nat \ {0} /\ SendSlots <= SlotsPerDay

VARIABLES
  now,      \* the slot
  ticked,   \* the slot's tick has come, or is missed
  matches,  \* matches[m]
  run,      \* locals of send_daily_digest
  runs,     \* digest_run rows, one per slot at most
  mails,    \* mails the service took
  lost,     \* lost[d]: runs of day d that were rolled back (history)
  faults

vars == <<now, ticked, matches, run, runs, mails, lost, faults>>

(* DIGEST_MATCH_STATUSES *)
Reported == {"recommended", "accepted"}

(* at: recommended_at, the begin of the transaction, which no later change of
   the status touches; seen: while it is in Reported, the slot since when, that
   of its commit (the same as at or the next) or of a later acceptance.
   Closed stands for active, declined and sent_back.                       *)
Match == [status : {"none", "uncommitted", "triage", "closed"} \cup Reported,
          at : Slots, seen : Slots]
Run == [slot : Slots, day : AllDays, status : {"sent", "failed", "empty"}]

Idle == [pc |-> "idle"]

Init ==
  /\ now = 0 /\ ticked = FALSE
  /\ matches = [m \in Matches |-> [status |-> "none", at |-> 0, seen |-> 0]]
  /\ run = Idle /\ runs = {} /\ mails = {}
  /\ lost = [d \in AllDays |-> 0]
  /\ faults = 0

Fault == faults < MaxFaults /\ faults' = faults + 1

-----------------------------------------------------------------------------
(* match_or_route and decide_match *)

MatchOnly == UNCHANGED <<now, ticked, run, runs, mails, lost, faults>>

Recommend(m) ==
  /\ matches[m].status = "none"
  /\ matches' = [matches EXCEPT ![m] = [status |-> "uncommitted", at |-> now, seen |-> now]]
  /\ MatchOnly

(* A match without a people group, or that no org may take, is for triage. *)
CommitMatch(m) ==
  /\ matches[m].status = "uncommitted"
  /\ \/ matches' = [matches EXCEPT ![m].status = "recommended", ![m].seen = now]
     \/ matches' = [matches EXCEPT ![m].status = "triage"]
  /\ MatchOnly

(* Accepted or closed, from triage too.  A request that read the match open
   may accept it after another has closed it: at any time here.            *)
Accept(m) ==
  /\ matches[m].status \in {"triage", "recommended", "closed"}
  /\ matches' = [matches EXCEPT ![m].status = "accepted",
                   ![m].seen = IF matches[m].status \in Reported THEN @ ELSE now]

Decide(m) ==
  /\ \/ Accept(m)
     \/ /\ matches[m].status \in {"triage", "recommended", "accepted"}
        /\ matches' = [matches EXCEPT ![m].status = "closed", ![m].seen = matches[m].at]
  /\ MatchOnly

-----------------------------------------------------------------------------
(* build_digest_for_window *)

Day(t) == t \div SlotsPerDay
Nine(d) == d * SlotsPerDay

(* Mutant: the end belongs to the window. *)
ClosedWindow(d) == Nine(d - 1)..Nine(d)

Window(d) == Nine(d - 1)..(Nine(d) - 1)

Reportable(d) ==
  {m \in Matches : matches[m].status \in Reported /\ matches[m].at \in Window(d)}

OfOrg(ms, o) == {m \in ms : OrgOf[m] = o}

(* Mutant: a plan of a facilitator replaces the one of staff. *)
Overwritten(ms) == {a \in Addresses : \E o \in Orgs : a \in MembersOf[o] /\ OfOrg(ms, o) # {}}

(* Who is mailed as a facilitator: staff have their plan already. *)
Facilitators(ms) ==
  {a \in Addresses \ Staff : \E o \in Orgs : a \in MembersOf[o] /\ OfOrg(ms, o) # {}}

(* Staff get all matches, a facilitator those of an org with some: of the
   one the set of orgs happens to give first, when there are several.    *)
Plans(ms) ==
  IF ms = {} THEN {[a \in {} |-> {}]}
  ELSE {p \in [Staff \cup Facilitators(ms) -> SUBSET ms] :
          \A a \in DOMAIN p :
            IF a \in Facilitators(ms)
            THEN \E o \in Orgs : a \in MembersOf[o] /\ OfOrg(ms, o) # {} /\ p[a] = OfOrg(ms, o)
            ELSE p[a] = ms}

-----------------------------------------------------------------------------
(* send_daily_digest, run_digest *)

(* Mutant: nine o'clock sharp. *)
FirstSlotOnly(t) == t % SlotsPerDay = 0 /\ Day(t) \in AllDays

MaySend(t) == t % SlotsPerDay < SendSlots /\ Day(t) \in AllDays

(* Mutant: a finished window is taken for a new one. *)
NeverSent(d) == FALSE

AlreadySent(d) == \E r \in runs : r.day = d /\ r.status \in {"sent", "empty"}

StartRun ==
  LET d == Day(now) IN
  /\ MaySend(now) /\ ~ticked
  /\ ticked' = TRUE
  /\ IF AlreadySent(d) THEN run' = Idle
     ELSE \E plans \in Plans(Reportable(d)) :
            run' = [pc |-> "send", day |-> d, plans |-> plans, todo |-> DOMAIN plans, failed |-> {}]
  /\ UNCHANGED <<now, matches, runs, mails, lost, faults>>

Taken(a) == [slot |-> now, day |-> run.day, to |-> a, matches |-> run.plans[a]]

(* The plans are in the order of their addresses. *)
NextAddress == CHOOSE a \in run.todo : TRUE

Send ==
  /\ run.pc = "send" /\ run.todo # {}
  /\ mails' = mails \cup {Taken(NextAddress)}
  /\ run' = [run EXCEPT !.todo = @ \ {NextAddress}]
  /\ UNCHANGED <<now, ticked, matches, runs, lost, faults>>

(* Refused, or its answer came too late; the run goes on. *)
FailSend ==
  /\ run.pc = "send" /\ run.todo # {} /\ Fault
  /\ mails' \in {mails, mails \cup {Taken(NextAddress)}}
  /\ run' = [run EXCEPT !.todo = @ \ {NextAddress}, !.failed = @ \cup {NextAddress}]
  /\ UNCHANGED <<now, ticked, matches, runs, lost>>

(* Mutant: the row keeps the status it was added with. *)
NeverSet(plans, failed) == IF DOMAIN plans = {} THEN "empty" ELSE "pending"

Status(plans, failed) ==
  IF DOMAIN plans = {} THEN "empty" ELSE IF failed = {} THEN "sent" ELSE "failed"

CommitRun ==
  /\ run.pc = "send" /\ run.todo = {}
  /\ runs' = runs \cup {[slot |-> now, day |-> run.day, status |-> Status(run.plans, run.failed)]}
  /\ run' = Idle
  /\ UNCHANGED <<now, ticked, matches, mails, lost, faults>>

(* The process dies, the job is stopped, or a statement fails. *)
LoseRun ==
  /\ run.pc = "send" /\ Fault
  /\ lost' = [lost EXCEPT ![run.day] = @ + 1]
  /\ run' = Idle
  /\ UNCHANGED <<now, ticked, matches, runs, mails>>

(* The worker is down when the tick is due. *)
MissTick ==
  /\ MaySend(now) /\ ~ticked /\ Fault
  /\ ticked' = TRUE
  /\ UNCHANGED <<now, matches, run, runs, mails, lost>>

Pass ==
  /\ MaySend(now) => ticked
  /\ run = Idle /\ now + 1 \in Slots
  /\ \A m \in Matches : matches[m].status = "uncommitted" => matches[m].at = now
  /\ now' = now + 1 /\ ticked' = FALSE
  /\ UNCHANGED <<matches, run, runs, mails, lost, faults>>

-----------------------------------------------------------------------------
RunStep == StartRun \/ Send \/ FailSend \/ CommitRun

Next == \/ \E m \in Matches : Recommend(m) \/ CommitMatch(m) \/ Decide(m)
        \/ RunStep \/ LoseRun \/ MissTick \/ Pass

Spec == Init /\ [][Next]_vars

(* Time passes, a transaction and a run go on; whether mails are taken is
   for MaxFaults.                                                          *)
FairSpec == Spec /\ WF_vars(RunStep) /\ WF_vars(Pass) /\ \A m \in Matches : WF_vars(CommitMatch(m))

-----------------------------------------------------------------------------
TypeOK ==
  /\ now \in Slots /\ ticked \in BOOLEAN
  /\ matches \in [Matches -> Match]
  /\ run.pc \in {"idle", "send"} /\ runs \subseteq Run
  /\ \A r1, r2 \in runs : r1.slot = r2.slot => r1 = r2
  /\ \A x \in mails : x.slot \in Slots /\ x.to \in Addresses /\ x.matches \subseteq Matches

(* A run that ends its window, sent or empty, leaves out no match of it that
   the digest's query could find before the slot of that run, and still can:
   each has been mailed to each of the staff, those who are facilitators too
   included, whatever runs failed or died before.  A triage match accepted
   after that run, or one reopened then, is in no digest.                  *)
NoMatchIsForgotten ==
  \A r \in runs : r.status \in {"sent", "empty"} =>
    \A m \in Reportable(r.day), a \in Staff : matches[m].seen < r.slot =>
      \E x \in mails : x.to = a /\ m \in x.matches

(* Nobody is mailed twice for one day but for a run that failed or died, and
   no match is in the digests of two days.                                 *)
RepeatsAreExplained ==
  /\ \A d \in AllDays, a \in Addresses :
       Cardinality({x \in mails : x.day = d /\ x.to = a})
         <= 1 + lost[d] + Cardinality({r \in runs : r.day = d /\ r.status = "failed"})
  /\ \A x, y \in mails : x.matches \cap y.matches # {} => x.day = y.day

(* Every day's digest is sent, or found empty, as long as one of the
   ticks of its half-hour is spared a fault (MaxFaults < SendSlots).       *)
DigestGoesOut == \A d \in AllDays : <>AlreadySent(d)
=============================================================================
