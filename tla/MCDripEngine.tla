---------------------------- MODULE MCDripEngine ----------------------------
(***************************************************************************)
(* Instances of DripEngine for TLC.                                        *)
(***************************************************************************)
EXTENDS DripEngine, TLC

CONSTANTS c1, c2, k1, s0, s1

OneContact == {c1}
TwoContacts == {c1, c2}
OneCampaign == {k1}
AllOnSubmitted == [k \in Campaigns |-> "contact.submitted"]
TwoSteps == {s0, s1}
JustS1 == {s1}

(* The rows a campaign is drafted with. *)
ZeroAndOne == [k \in Campaigns |-> (0 :> s0) @@ (1 :> s1)]

SlotSymmetry == Permutations(Ticks) \cup Permutations(Drains)
=============================================================================
