------------------------ MODULE OutboxDelivery_proofs -----------------------
(***************************************************************************)
(* Theorems about OutboxDelivery, for every number of rows, ticks in       *)
(* progress and refused payloads, every batch size, and every timeout that *)
(* is at most the age at which a claim is stale.                           *)
(***************************************************************************)
EXTENDS OutboxDelivery, TLAPS

(* A tick has held its claim for no longer than it has run, and it may not run
   longer than it takes a claim to be stale: no other tick can take its row.  *)
ClaimIsYoung ==
  \A t \in Ticks : pc[t] \in Working => age[row[t]] <= elapsed[t]

(* A tick at work has a place left in its batch. *)
BatchCounts == \A t \in Ticks : pc[t] \in Working => left[t] > 0

(* An answer is held while the row is, is one the receiver gave, and is what
   brings a tick to phase 3.                                                *)
AnswersAreTrue ==
  \A t \in Ticks :
    /\ answer[t] = "ok" => pc[t] \in Working /\ row[t] \in accepted
    /\ pc[t] = "mark" => answer[t] = "ok"

(* The inductive invariant. *)
Held == OneTickPerRow /\ WorkedRowIsClaimed /\ ClaimIsYoung
Inv == TypeOK /\ BatchCounts /\ Held /\ AnswersAreTrue /\ MarkedWasAccepted

USE DEF Working

LEMMA InitInv == Init => Inv
BY OutboxAssumption
   DEF Init, Inv, TypeOK, BatchCounts, Held, OneTickPerRow, WorkedRowIsClaimed, ClaimIsYoung,
       AnswersAreTrue, MarkedWasAccepted

-----------------------------------------------------------------------------
(* Types *)

(* The part of the types that is about the ticks. *)
TicksOK ==
  /\ pc \in [Ticks -> {"idle", "loop"} \cup Working]
  /\ row \in [Ticks -> Rows \cup {0}]
  /\ elapsed \in [Ticks -> 0..JobTimeout]
  /\ left \in [Ticks -> 0..BatchSize]
  /\ answer \in [Ticks -> {"none", "ok"}]

(* A tick that ends leaves well-typed ticks, and changes no other one. *)
LEMMA LeaveTypes ==
  ASSUME TypeOK, BatchCounts, NEW t \in Ticks, Leave(t), emitted' = emitted
  PROVE  /\ TicksOK' /\ BatchCounts'
         /\ \A u \in Ticks : pc'[u] \in Working => row'[u] \in emitted'
<1>1. 0 \in 0..JobTimeout /\ 0 \in 0..BatchSize
  BY OutboxAssumption
<1>2. TicksOK'
  BY <1>1 DEF TypeOK, TicksOK, Leave
<1>3. ASSUME NEW u \in Ticks, pc'[u] \in Working
      PROVE  left'[u] > 0 /\ row'[u] \in emitted'
  BY <1>3 DEF TypeOK, BatchCounts, Leave
<1> QED BY <1>2, <1>3 DEF BatchCounts

(* A step keeps the types and the batch count. *)
LEMMA TypeSteps ==
  ASSUME Inv, [Next]_vars PROVE TypeOK' /\ BatchCounts'
<1> USE OutboxAssumption
<1> SUFFICES ASSUME TypeOK, BatchCounts, WorkedRowIsClaimed, AnswersAreTrue
             PROVE  TypeOK' /\ BatchCounts'
  BY DEF Inv, Held
<1>1. ASSUME NEW r \in Rows, Emit(r) PROVE TypeOK' /\ BatchCounts'
  BY <1>1 DEF TypeOK, BatchCounts, Emit, tickVars, dripVars
<1>2. ASSUME NEW r \in Rows, ArriveLate(r) PROVE TypeOK' /\ BatchCounts'
  BY <1>2 DEF TypeOK, BatchCounts, ArriveLate, rowVars, tickVars, dripVars
<1>3. CASE DripLock \/ DripCommit \/ DripRollback
  BY <1>3 DEF TypeOK, BatchCounts, DripLock, DripCommit, DripRollback, rowVars, tickVars, dripVars
<1>4. CASE Pass
  BY <1>4 DEF TypeOK, BatchCounts, Pass, Older, dripVars
<1>5. ASSUME NEW t \in Ticks, Step(t) PROVE TypeOK' /\ BatchCounts'
  <2>1. CASE StartTick(t)
    BY <2>1 DEF TypeOK, BatchCounts, StartTick, rowVars, dripVars
  <2>2. CASE Claim(t)
    <3>1. PICK r \in Claimable : /\ claimed' = claimed \cup {r}
                                 /\ age' = [age EXCEPT ![r] = 0]
                                 /\ row' = [row EXCEPT ![t] = r]
      BY <2>2 DEF Claim
    <3>2. r \in emitted /\ r \in Rows
      BY DEF Claimable, TypeOK
    <3>3. age' \in [Rows -> 0..StaleAfter + 1] /\ row' \in [Ticks -> Rows \cup {0}]
      BY <3>1, <3>2 DEF TypeOK
    <3>4. \A u \in Ticks : pc'[u] \in Working => row'[u] \in emitted' /\ left'[u] > 0
      BY <2>2, <3>1, <3>2 DEF TypeOK, BatchCounts, Claim
    <3>5. claimed' \subseteq emitted'
      BY <2>2, <3>1, <3>2 DEF TypeOK, Claim
    <3> QED BY <2>2, <3>3, <3>4, <3>5 DEF TypeOK, BatchCounts, Claim, dripVars
  <2>3. CASE EndTick(t)
    BY <2>3, LeaveTypes DEF TypeOK, TicksOK, EndTick, rowVars, dripVars
  <2>4. CASE Receive(t)
    BY <2>4 DEF TypeOK, BatchCounts, Receive, rowVars, dripVars
  <2>5. CASE Answered(t)
    BY <2>5 DEF TypeOK, BatchCounts, Answered, rowVars, dripVars
  <2>6. CASE PostFails(t)
    BY <2>6 DEF TypeOK, BatchCounts, PostFails, Abandoned, rowVars, dripVars
  <2>7. CASE ClearClaim(t)
    <3>1. claimed' \subseteq claimed /\ age' \in [Rows -> 0..StaleAfter + 1]
      BY <2>7 DEF TypeOK, ClearClaim
    <3> QED BY <2>7, <3>1, LeaveTypes DEF TypeOK, TicksOK, ClearClaim, dripVars
  <2>8. CASE Mark(t)
    <3>1. left[t] - 1 \in 0..BatchSize
      BY <2>8 DEF TypeOK, BatchCounts, Mark
    <3>2. TicksOK' /\ age' \in [Rows -> 0..StaleAfter + 1]
      BY <2>8, <3>1 DEF TypeOK, TicksOK, Mark
    <3>3. \A u \in Ticks : pc'[u] \in Working => row'[u] \in emitted' /\ left'[u] > 0
      BY <2>8 DEF TypeOK, BatchCounts, Mark
    <3> QED BY <2>8, <3>2, <3>3 DEF TypeOK, TicksOK, BatchCounts, Mark, dripVars
  <2>9. CASE Stop(t)
    <3>1. stray' \subseteq emitted
      BY <2>9 DEF TypeOK, Stop, Abandoned
    <3> QED BY <2>9, <3>1, LeaveTypes DEF TypeOK, TicksOK, Stop, rowVars, dripVars
  <2> QED BY <1>5, <2>1, <2>2, <2>3, <2>4, <2>5, <2>6, <2>7, <2>8, <2>9 DEF Step
<1>6. CASE UNCHANGED vars
  BY <1>6 DEF TypeOK, BatchCounts, vars, rowVars, tickVars, dripVars
<1> QED BY <1>1, <1>2, <1>3, <1>4, <1>5, <1>6 DEF Next

-----------------------------------------------------------------------------
(* Who holds a row *)

(* A row in the hands of a tick cannot be claimed: the tick's own time limit
   comes before the claim is stale.                                         *)
LEMMA HeldIsNotClaimable ==
  ASSUME Inv, NEW t \in Ticks, pc[t] \in Working PROVE row[t] \notin Claimable
<1>1. row[t] \in claimed
  BY DEF Inv, Held, WorkedRowIsClaimed
<1>2. row[t] \in Rows /\ age[row[t]] \in Nat /\ elapsed[t] \in 0..JobTimeout
  BY OutboxAssumption DEF Inv, TypeOK
<1>3. ~ Stale(row[t])
  BY <1>2, OutboxAssumption DEF Inv, Held, ClaimIsYoung, Stale
<1> QED BY <1>1, <1>3 DEF Claimable

(* A step leaves each row to the one tick that holds it. *)
LEMMA HeldSteps ==
  ASSUME Inv, [Next]_vars PROVE Held'
<1> USE OutboxAssumption DEF Held, OneTickPerRow, WorkedRowIsClaimed, ClaimIsYoung
<1> SUFFICES ASSUME TypeOK, Held PROVE Held'
  BY DEF Inv
<1>1. ASSUME NEW r \in Rows, Emit(r) \/ ArriveLate(r) PROVE Held'
  BY <1>1 DEF Emit, ArriveLate, rowVars, tickVars, dripVars
<1>2. CASE DripLock \/ DripCommit \/ DripRollback
  BY <1>2 DEF DripLock, DripCommit, DripRollback, rowVars, tickVars, dripVars
<1>3. CASE Pass
  <2>1. OneTickPerRow' /\ WorkedRowIsClaimed'
    BY <1>3 DEF Pass
  <2>2. ASSUME NEW t \in Ticks, pc'[t] \in Working PROVE age'[row'[t]] <= elapsed'[t]
    <3>1. pc[t] \in Working /\ row'[t] = row[t]
      BY <1>3, <2>2 DEF Pass
    <3>2. row[t] \in Rows /\ age[row[t]] \in Nat /\ elapsed[t] \in Nat
      BY <3>1 DEF TypeOK
    <3>3. elapsed'[t] = elapsed[t] + 1
      BY <1>3, <3>1 DEF Pass
    <3>4. age'[row[t]] <= age[row[t]] + 1
      BY <1>3, <3>2 DEF Pass, Older
    <3>5. age'[row[t]] \in Nat /\ age[row[t]] <= elapsed[t]
      BY <1>3, <3>1, <3>2 DEF Pass, Older
    <3> QED BY <3>1, <3>2, <3>3, <3>4, <3>5
  <2> QED BY <2>1, <2>2
<1>4. ASSUME NEW t \in Ticks, Step(t) PROVE Held'
  <2>1. CASE StartTick(t)
    BY <2>1 DEF TypeOK, StartTick, rowVars, dripVars
  <2>2. CASE Claim(t)
    <3>1. PICK r \in Claimable : /\ claimed' = claimed \cup {r}
                                 /\ age' = [age EXCEPT ![r] = 0]
                                 /\ row' = [row EXCEPT ![t] = r]
      BY <2>2 DEF Claim
    <3>2. pc' = [pc EXCEPT ![t] = "posting"] /\ UNCHANGED <<processed, elapsed>>
      BY <2>2 DEF Claim
    <3>3. r \in Rows \ processed
      BY DEF Claimable, TypeOK
    <3>4. \A u \in Ticks \ {t} : pc'[u] \in Working =>
             pc[u] \in Working /\ row'[u] = row[u] /\ row[u] # r
      BY <3>1, <3>2, HeldIsNotClaimable DEF TypeOK
    <3>5. row'[t] = r /\ age'[r] = 0 /\ r \in claimed' \ processed'
      BY <3>1, <3>2, <3>3 DEF TypeOK
    <3>6. OneTickPerRow'
      BY <3>1, <3>4, <3>5
    <3>7. WorkedRowIsClaimed'
      BY <3>1, <3>2, <3>4, <3>5
    <3>8. ASSUME NEW u \in Ticks, pc'[u] \in Working PROVE age'[row'[u]] <= elapsed'[u]
      <4>1. CASE u = t
        BY <4>1, <3>2, <3>5 DEF TypeOK
      <4>2. CASE u # t
        BY <4>2, <3>1, <3>2, <3>4, <3>8 DEF TypeOK
      <4> QED BY <4>1, <4>2
    <3> QED BY <3>6, <3>7, <3>8
  <2>3. CASE EndTick(t)
    BY <2>3 DEF TypeOK, EndTick, Leave, rowVars, dripVars
  <2>4. CASE Receive(t) \/ Answered(t) \/ PostFails(t)
    BY <2>4 DEF TypeOK, Receive, Answered, PostFails, rowVars, dripVars
  <2>5. CASE ClearClaim(t)
    <3>1. /\ pc[t] \in Working /\ pc' = [pc EXCEPT ![t] = "idle"]
          /\ row' = [row EXCEPT ![t] = 0]
          /\ elapsed' = [elapsed EXCEPT ![t] = 0] /\ processed' = processed
          /\ claimed \ {row[t]} \subseteq claimed'
          /\ \A r \in Rows \ {row[t]} : age'[r] = age[r]
      BY <2>5 DEF ClearClaim, Leave, TypeOK
    <3>2. \A u \in Ticks : pc'[u] \in Working => u # t /\ pc[u] \in Working /\ row'[u] = row[u]
                                                 /\ elapsed'[u] = elapsed[u] /\ row[u] \in Rows \ {row[t]}
      BY <3>1 DEF TypeOK
    <3> QED BY <3>1, <3>2
  <2>6. CASE Mark(t)
    <3>1. /\ pc[t] \in Working /\ pc' = [pc EXCEPT ![t] = "loop"]
          /\ row' = [row EXCEPT ![t] = 0]
          /\ elapsed' = elapsed /\ processed' = processed \cup {row[t]}
          /\ claimed \ {row[t]} \subseteq claimed'
          /\ \A r \in Rows \ {row[t]} : age'[r] = age[r]
      BY <2>6 DEF Mark, TypeOK
    <3>2. \A u \in Ticks : pc'[u] \in Working => u # t /\ pc[u] \in Working /\ row'[u] = row[u]
                                                 /\ row[u] \in Rows \ {row[t]}
      BY <3>1 DEF TypeOK
    <3> QED BY <3>1, <3>2
  <2>7. CASE Stop(t)
    BY <2>7 DEF TypeOK, Stop, Leave, rowVars, dripVars
  <2> QED BY <1>4, <2>1, <2>2, <2>3, <2>4, <2>5, <2>6, <2>7 DEF Step
<1>5. CASE UNCHANGED vars
  BY <1>5 DEF vars, rowVars, tickVars
<1> QED BY <1>1, <1>2, <1>3, <1>4, <1>5 DEF Next

-----------------------------------------------------------------------------
(* What was marked had been taken *)

(* A step keeps the answers true and marks only what the receiver took. *)
LEMMA AnswerSteps ==
  ASSUME Inv, [Next]_vars PROVE AnswersAreTrue' /\ MarkedWasAccepted'
<1> USE DEF AnswersAreTrue, MarkedWasAccepted
<1> SUFFICES ASSUME TypeOK, AnswersAreTrue, MarkedWasAccepted
             PROVE  AnswersAreTrue' /\ MarkedWasAccepted'
  BY DEF Inv
<1>1. ASSUME NEW r \in Rows, Emit(r) \/ ArriveLate(r)
      PROVE  AnswersAreTrue' /\ MarkedWasAccepted'
  BY <1>1 DEF Emit, ArriveLate, rowVars, tickVars
<1>2. CASE DripLock \/ DripCommit \/ DripRollback \/ Pass
  BY <1>2 DEF DripLock, DripCommit, DripRollback, Pass, rowVars, tickVars
<1>3. ASSUME NEW t \in Ticks, Step(t) PROVE AnswersAreTrue' /\ MarkedWasAccepted'
  <2>1. CASE StartTick(t) \/ EndTick(t) \/ Stop(t)
    BY <2>1 DEF TypeOK, StartTick, EndTick, Stop, Leave, rowVars
  <2>2. CASE Claim(t)
    BY <2>2 DEF TypeOK, Claim
  <2>3. CASE Receive(t)
    BY <2>3 DEF TypeOK, Receive, rowVars
  <2>4. CASE Answered(t) \/ PostFails(t)
    BY <2>4 DEF TypeOK, Answered, PostFails, rowVars
  <2>5. CASE ClearClaim(t)
    BY <2>5 DEF TypeOK, ClearClaim, Leave
  <2>6. CASE Mark(t)
    BY <2>6 DEF TypeOK, Mark
  <2> QED BY <1>3, <2>1, <2>2, <2>3, <2>4, <2>5, <2>6 DEF Step
<1>4. CASE UNCHANGED vars
  BY <1>4 DEF vars, rowVars, tickVars
<1> QED BY <1>1, <1>2, <1>3, <1>4 DEF Next

LEMMA NextInv == Inv /\ [Next]_vars => Inv'
BY TypeSteps, HeldSteps, AnswerSteps DEF Inv

(* The inductive invariant holds throughout. *)
THEOREM InvHolds == Safety => []Inv
BY InitInv, NextInv, PTL DEF Safety

(* The type invariant of the rows and the ticks. *)
THEOREM TypeCorrect == Safety => []TypeOK
<1>1. Inv => TypeOK
  BY DEF Inv
<1> QED BY <1>1, InvHolds, PTL

(* No two ticks are ever sending the same outbox row, although claims are taken
   over by the clock and never checked again by the tick that made them.    *)
THEOREM ClaimsAreExclusive == Safety => []OneTickPerRow
<1>1. Inv => OneTickPerRow
  BY DEF Inv, Held
<1> QED BY <1>1, InvHolds, PTL

(* A tick at work on a row has it claimed, and the row is not processed: nothing
   is sent again once it is marked.                                         *)
THEOREM ClaimsAreHeld == Safety => []WorkedRowIsClaimed
<1>1. Inv => WorkedRowIsClaimed
  BY DEF Inv, Held
<1> QED BY <1>1, InvHolds, PTL

(* No event is lost: what is marked processed was taken by the receiver. *)
THEOREM NothingIsLost == Safety => []MarkedWasAccepted
<1>1. Inv => MarkedWasAccepted
  BY DEF Inv
<1> QED BY <1>1, InvHolds, PTL

-----------------------------------------------------------------------------
(* Refinement of the at-least-once channel *)

LEMMA InitChannel == Init => Channel!Init
BY DEF Init, Channel!Init

LEMMA NextChannel == Inv /\ [Next]_vars => [Channel!Next]_(Channel!chanVars)
<1> USE DEF Channel!Next, Channel!chanVars
<1> SUFFICES ASSUME Inv, TypeOK, [Next]_vars PROVE [Channel!Next]_(Channel!chanVars)
  BY DEF Inv
<1>1. ASSUME NEW r \in Rows, Emit(r) PROVE Channel!Next
  BY <1>1 DEF Emit, Channel!Emit
<1>2. ASSUME NEW r \in Rows, ArriveLate(r) PROVE [Channel!Next]_(Channel!chanVars)
  BY <1>2 DEF ArriveLate, TypeOK, rowVars, Channel!Accept
<1>3. CASE DripLock \/ DripCommit \/ DripRollback \/ Pass
  BY <1>3 DEF DripLock, DripCommit, DripRollback, Pass, rowVars
<1>4. ASSUME NEW t \in Ticks, Step(t) PROVE [Channel!Next]_(Channel!chanVars)
  <2>1. CASE StartTick(t) \/ EndTick(t) \/ Stop(t)
    BY <2>1 DEF StartTick, EndTick, Stop, rowVars
  <2>2. CASE Claim(t) \/ ClearClaim(t)
    BY <2>2 DEF Claim, ClearClaim
  <2>3. CASE Answered(t) \/ PostFails(t)
    BY <2>3 DEF Answered, PostFails, rowVars
  <2>4. CASE Receive(t)
    BY <2>4 DEF Receive, TypeOK, rowVars, Channel!Accept
  <2>5. CASE Mark(t)
    <3>1. row[t] \in Rows /\ row[t] \in accepted \ processed
      BY <2>5 DEF Mark, Inv, Held, WorkedRowIsClaimed, AnswersAreTrue, TypeOK
    <3>2. Channel!Acknowledge(row[t])
      BY <2>5, <3>1 DEF Mark, Channel!Acknowledge
    <3> QED BY <3>1, <3>2
  <2> QED BY <1>4, <2>1, <2>2, <2>3, <2>4, <2>5 DEF Step
<1>5. CASE UNCHANGED vars
  BY <1>5 DEF vars, rowVars
<1> QED BY <1>1, <1>2, <1>3, <1>4, <1>5 DEF Next

(* Every behaviour of the worker is one of the at-least-once channel. *)
THEOREM ImplementsChannelSteps == Safety => StepsOfChannel
BY InitChannel, NextChannel, InvHolds, PTL DEF Safety, StepsOfChannel, Channel!Safety
=============================================================================
