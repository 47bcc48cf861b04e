--------------------------- MODULE OutboxDelivery ---------------------------
(***************************************************************************)
(* The delivery of outbox rows to the integration webhook                  *)
(* (apps/worker: outbox_delivery.py, and the cron of worker_settings.py).  *)
(*                                                                         *)
(* A tick is one run of drain_outbox.  Per row it works in three           *)
(* transactions: claim (SELECT ... FOR UPDATE SKIP LOCKED, then            *)
(* claimed_at), POST outside of any, and mark or, after an exception,      *)
(* clear the claim.  Ticks overlap, since one may take longer than the     *)
(* cron's ten seconds.  A tick may stop anywhere: the process dies, or the *)
(* job runner cancels it when it has run for JobTimeout.  Then its claim   *)
(* stays until it is stale, and its POST may still arrive.                 *)
(*                                                                         *)
(* Time is relative: age[r] is how long ago row r was claimed, elapsed[t]  *)
(* how long tick t has run, in units of the discrete clock.  All ticks     *)
(* read one clock.  The second reader of the table, the drip engine's      *)
(* drain, matters here for the row locks it holds.                         *)
(***************************************************************************)
EXTENDS Integers, FiniteSets

CONSTANTS
  Ticks,       \* runs of drain_outbox that can be in progress together
  NumRows,     \* bound on the number of rows
  BatchSize,   \* outbox_batch_size: rows per tick
  StaleAfter,  \* CLAIM_STALE_AFTER
  JobTimeout,  \* the job runner's limit on one tick
  Rejected     \* the rows whose payload the receiver always refuses

Rows == 1..NumRows   \* in the order of created_at

ASSUME OutboxAssumption ==
  /\ NumRows \in Nat /\ BatchSize \in Nat
  /\ StaleAfter \in Nat /\ JobTimeout \in Nat
  /\ JobTimeout <= StaleAfter   \* 300 s, the runner's default, and 5 minutes
  /\ Rejected \subseteq Rows

VARIABLES
  emitted,    \* rows whose transaction committed
  processed,  \* rows with processed_at set
  claimed,    \* rows with claimed_at set
  age,        \* age[r]: time since claimed_at
  pc,         \* pc[t]: where tick t is
  row,        \* row[t]: the row it works on, 0 if none
  elapsed,    \* elapsed[t]: time since it started
  left,       \* left[t]: rows it may still take
  answer,     \* answer[t]: what the receiver did with its POST
  accepted,   \* rows the receiver took
  stray,      \* rows with a POST in flight whose sender has given up on it
  dripLocked, \* rows locked by the drip engine's drain
  dripped     \* rows with drip_processed_at set

rowVars == <<emitted, processed, claimed, age>>
tickVars == <<pc, row, elapsed, left, answer>>
dripVars == <<dripLocked, dripped>>
vars == <<rowVars, tickVars, accepted, stray, dripVars>>

Init ==
  /\ emitted = {} /\ processed = {} /\ claimed = {}
  /\ age = [r \in Rows |-> 0]
  /\ pc = [t \in Ticks |-> "idle"]
  /\ row = [t \in Ticks |-> 0]
  /\ elapsed = [t \in Ticks |-> 0]
  /\ left = [t \in Ticks |-> 0]
  /\ answer = [t \in Ticks |-> "none"]
  /\ accepted = {} /\ stray = {}
  /\ dripLocked = {} /\ dripped = {}

-----------------------------------------------------------------------------
(* The producers and the other consumer *)

(* A transaction that emitted the row commits.  created_at is the time it
   began, so rows become visible in any order.                              *)
Emit(r) ==
  /\ r \in Rows \ emitted
  /\ emitted' = emitted \cup {r}
  /\ UNCHANGED <<processed, claimed, age, tickVars, accepted, stray, dripVars>>

(* drain_drip_enrollments locks the rows it has not consumed... *)
DripLock ==
  /\ dripLocked = {} /\ emitted \ dripped # {}
  /\ dripLocked' = emitted \ dripped
  /\ UNCHANGED <<rowVars, tickVars, accepted, stray, dripped>>

(* ... and commits, or rolls all of them back. *)
DripCommit ==
  /\ dripLocked # {}
  /\ dripped' = dripped \cup dripLocked
  /\ dripLocked' = {}
  /\ UNCHANGED <<rowVars, tickVars, accepted, stray>>

DripRollback ==
  /\ dripLocked # {}
  /\ dripLocked' = {}
  /\ UNCHANGED <<rowVars, tickVars, accepted, stray, dripped>>

-----------------------------------------------------------------------------
(* One tick *)

StartTick(t) ==
  /\ pc[t] = "idle"
  /\ pc' = [pc EXCEPT ![t] = "loop"]
  /\ left' = [left EXCEPT ![t] = BatchSize]
  /\ UNCHANGED <<rowVars, row, elapsed, answer, accepted, stray, dripVars>>

(* The tick is over; its claim, if it holds one, is left as it is. *)
Leave(t) ==
  /\ pc' = [pc EXCEPT ![t] = "idle"]
  /\ row' = [row EXCEPT ![t] = 0]
  /\ elapsed' = [elapsed EXCEPT ![t] = 0]
  /\ left' = [left EXCEPT ![t] = 0]
  /\ answer' = [answer EXCEPT ![t] = "none"]

(* Mutant: a claim is given up one instant too early. *)
StaleTooSoon(r) == age[r] >= StaleAfter

Stale(r) == age[r] > StaleAfter

(* Mutant: rows already processed are not left out. *)
ClaimableAgain == {r \in emitted \ dripLocked : r \notin claimed \/ Stale(r)}

(* Mutant: a claim never grows stale. *)
ClaimableOnce == {r \in emitted \ (processed \cup dripLocked) : r \notin claimed}

(* The WHERE clause of the claim, without the rows SKIP LOCKED skips. *)
Claimable ==
  {r \in emitted \ (processed \cup dripLocked) : r \notin claimed \/ Stale(r)}

(* Phase 1: the oldest one is claimed, and the POST goes out. *)
Claim(t) ==
  /\ pc[t] = "loop" /\ left[t] > 0
  /\ \E r \in Claimable :
       /\ \A s \in Claimable : r <= s
       /\ claimed' = claimed \cup {r}
       /\ age' = [age EXCEPT ![r] = 0]
       /\ row' = [row EXCEPT ![t] = r]
  /\ pc' = [pc EXCEPT ![t] = "posting"]
  /\ UNCHANGED <<emitted, processed, elapsed, left, answer, accepted, stray, dripVars>>

(* Nothing to claim, or the batch is used up. *)
EndTick(t) ==
  /\ pc[t] = "loop" /\ (left[t] = 0 \/ Claimable = {})
  /\ Leave(t)
  /\ UNCHANGED <<rowVars, accepted, stray, dripVars>>

(* Phase 2, at the receiver: the POST arrives and is taken. *)
Receive(t) ==
  /\ pc[t] = "posting" /\ answer[t] = "none" /\ row[t] \notin Rejected
  /\ accepted' = accepted \cup {row[t]}
  /\ answer' = [answer EXCEPT ![t] = "ok"]
  /\ UNCHANGED <<rowVars, pc, row, elapsed, left, stray, dripVars>>

(* Mutant: the row is marked whatever the answer was. *)
AnsweredAnyhow(t) ==
  /\ pc[t] = "posting"
  /\ pc' = [pc EXCEPT ![t] = "mark"]
  /\ UNCHANGED <<rowVars, row, elapsed, left, answer, accepted, stray, dripVars>>

(* The 2xx answer reaches the tick. *)
Answered(t) ==
  /\ pc[t] = "posting" /\ answer[t] = "ok"
  /\ pc' = [pc EXCEPT ![t] = "mark"]
  /\ UNCHANGED <<rowVars, row, elapsed, left, answer, accepted, stray, dripVars>>

(* POSTs that may arrive although nobody waits for their answer any more. *)
Abandoned(t) ==
  IF pc[t] = "posting" /\ answer[t] = "none" /\ row[t] \notin Rejected THEN {row[t]} ELSE {}

(* Any exception of the POST: refused, timed out, or its answer lost. *)
PostFails(t) ==
  /\ pc[t] = "posting"
  /\ pc' = [pc EXCEPT ![t] = "failed"]
  /\ stray' = stray \cup Abandoned(t)
  /\ UNCHANGED <<rowVars, row, elapsed, left, answer, accepted, dripVars>>

ArriveLate(r) ==
  /\ r \in stray
  /\ accepted' = accepted \cup {r}
  /\ stray' = stray \ {r}
  /\ UNCHANGED <<rowVars, tickVars, dripVars>>

(* The except clause: the claim is taken back whoever holds it, unless the row
   is processed, and the tick bails out.                                    *)
ClearClaim(t) ==
  LET r == row[t] IN
  /\ pc[t] = "failed"
  /\ IF r \in processed
     THEN UNCHANGED <<claimed, age>>
     ELSE /\ r \notin dripLocked
          /\ claimed' = claimed \ {r}
          /\ age' = [age EXCEPT ![r] = 0]
  /\ Leave(t)
  /\ UNCHANGED <<emitted, processed, accepted, stray, dripVars>>

(* Phase 3, and round the loop again. *)
Mark(t) ==
  LET r == row[t] IN
  /\ pc[t] = "mark" /\ r \notin dripLocked
  /\ processed' = processed \cup {r}
  /\ claimed' = claimed \ {r}
  /\ age' = [age EXCEPT ![r] = 0]
  /\ pc' = [pc EXCEPT ![t] = "loop"]
  /\ row' = [row EXCEPT ![t] = 0]
  /\ answer' = [answer EXCEPT ![t] = "none"]
  /\ left' = [left EXCEPT ![t] = @ - 1]
  /\ UNCHANGED <<emitted, elapsed, accepted, stray, dripVars>>

(* The process dies, or the runner cancels the job. *)
Stop(t) ==
  /\ pc[t] # "idle"
  /\ stray' = stray \cup Abandoned(t)
  /\ Leave(t)
  /\ UNCHANGED <<rowVars, accepted, dripVars>>

(* Time passes, but not beyond the limit of a running tick. *)
Older(n) == IF n > StaleAfter THEN n ELSE n + 1

(* Mutant: the runner cancels nothing. *)
PassUnlimited ==
  /\ age' = [r \in Rows |-> IF r \in claimed THEN Older(age[r]) ELSE age[r]]
  /\ elapsed' = [t \in Ticks |-> IF pc[t] = "idle" THEN 0 ELSE elapsed[t] + 1]
  /\ UNCHANGED <<emitted, processed, claimed, pc, row, left, answer, accepted, stray, dripVars>>

Pass ==
  /\ \A t \in Ticks : pc[t] # "idle" => elapsed[t] < JobTimeout
  /\ age' = [r \in Rows |-> IF r \in claimed THEN Older(age[r]) ELSE age[r]]
  /\ elapsed' = [t \in Ticks |-> IF pc[t] = "idle" THEN 0 ELSE elapsed[t] + 1]
  /\ UNCHANGED <<emitted, processed, claimed, pc, row, left, answer, accepted, stray, dripVars>>

-----------------------------------------------------------------------------
Step(t) ==
  \/ StartTick(t) \/ Claim(t) \/ EndTick(t) \/ Receive(t) \/ Answered(t) \/ PostFails(t)
  \/ ClearClaim(t) \/ Mark(t) \/ Stop(t)

Next ==
  \/ \E r \in Rows : Emit(r) \/ ArriveLate(r)
  \/ \E t \in Ticks : Step(t)
  \/ DripLock \/ DripCommit \/ DripRollback
  \/ Pass

Safety == Init /\ [][Next]_vars

(* The clock runs, the cron fires, and a running tick goes on and is cancelled
   in time.  Failures do not always hit the same point: ticks are not always
   killed before they claim or mark, the receiver is not down forever, not all
   its answers are lost, and the drip engine's drain succeeds now and then.  *)
OnRow(r, A(_)) == \E t \in Ticks : row[t] = r /\ A(t)
Fairness ==
  /\ WF_vars(Pass)
  /\ WF_vars(\E t \in Ticks : StartTick(t))
  /\ \A t \in Ticks : /\ WF_vars(EndTick(t) \/ ClearClaim(t))
                      /\ WF_vars(elapsed[t] = JobTimeout /\ Stop(t))
  /\ SF_vars(\E t \in Ticks : Claim(t))
  /\ \A r \in Rows : /\ SF_vars(OnRow(r, Receive))
                     /\ SF_vars(OnRow(r, Answered))
                     /\ SF_vars(OnRow(r, Mark))
  /\ SF_vars(DripCommit)

Spec == Safety /\ Fairness
-----------------------------------------------------------------------------
(* Properties *)

Working == {"posting", "mark", "failed"}

(* Sets and program counters keep their types; a working tick has a row. *)
TypeOK ==
  /\ emitted \subseteq Rows /\ processed \subseteq emitted /\ claimed \subseteq emitted
  /\ age \in [Rows -> 0..StaleAfter + 1]
  /\ pc \in [Ticks -> {"idle", "loop"} \cup Working]
  /\ row \in [Ticks -> Rows \cup {0}]
  /\ \A t \in Ticks : pc[t] \in Working => row[t] \in emitted
  /\ elapsed \in [Ticks -> 0..JobTimeout]
  /\ left \in [Ticks -> 0..BatchSize]
  /\ answer \in [Ticks -> {"none", "ok"}]
  /\ accepted \subseteq emitted /\ stray \subseteq emitted
  /\ dripLocked \subseteq emitted /\ dripped \subseteq emitted

(* No row is in the hands of two ticks, though ticks die with their claims and
   other ticks take these over by the clock alone.  (CLAIM_STALE_AFTER)      *)
OneTickPerRow ==
  \A t, u \in Ticks : pc[t] \in Working /\ pc[u] \in Working /\ row[t] = row[u] => t = u

(* A row in the hands of a tick is claimed and not processed: the tick neither
   sends what was delivered before nor takes back a claim that is not its own. *)
WorkedRowIsClaimed ==
  \A t \in Ticks : pc[t] \in Working => row[t] \in claimed \ processed

(* A row is marked processed only if the receiver has taken it: no event is
   lost, wherever a tick stops.                                             *)
MarkedWasAccepted == processed \subseteq accepted

(* The implementation of at-least-once delivery: the steps, and with fairness
   the delivery.                                                            *)
Channel == INSTANCE OutboxChannel WITH emitted <- emitted, accepted <- accepted, processed <- processed
StepsOfChannel == Channel!Safety
ImplementsChannel == Channel!Spec
=============================================================================
