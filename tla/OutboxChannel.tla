---------------------------- MODULE OutboxChannel ---------------------------
(***************************************************************************)
(* What the transactional outbox promises: an event that was committed is  *)
(* accepted by the receiver, at least once, and marked processed only      *)
(* after that.  OutboxDelivery implements it with claims, POSTs, crashes   *)
(* and a clock.                                                            *)
(***************************************************************************)
CONSTANT Rows

VARIABLES
  emitted,    \* events whose transaction committed
  accepted,   \* events the receiver has taken (it tells copies by their key)
  processed   \* events marked as done

chanVars == <<emitted, accepted, processed>>

Init == emitted = {} /\ accepted = {} /\ processed = {}

Emit(r) ==
  /\ r \in Rows \ emitted
  /\ emitted' = emitted \cup {r}
  /\ UNCHANGED <<accepted, processed>>

Accept(r) ==
  /\ r \in emitted \ accepted
  /\ accepted' = accepted \cup {r}
  /\ UNCHANGED <<emitted, processed>>

Acknowledge(r) ==
  /\ r \in accepted \ processed
  /\ processed' = processed \cup {r}
  /\ UNCHANGED <<emitted, accepted>>

Next == \E r \in Rows : Emit(r) \/ Accept(r) \/ Acknowledge(r)

Safety == Init /\ [][Next]_chanVars
Fairness == \A r \in Rows : WF_chanVars(Accept(r)) /\ WF_chanVars(Acknowledge(r))
Spec == Safety /\ Fairness
=============================================================================
