-------------------------- MODULE MCOutboxDelivery --------------------------
(***************************************************************************)
(* Instances of OutboxDelivery for TLC.                                    *)
(***************************************************************************)
EXTENDS OutboxDelivery, TLC

TickSymmetry == Permutations(Ticks)

NoneRejected == {}
=============================================================================
