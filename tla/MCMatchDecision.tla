-------------------------- MODULE MCMatchDecision ---------------------------
(***************************************************************************)
(* Instances of MatchDecision for TLC.  An org and the triage org, two     *)
(* callers, up to three interests; each configuration picks from these.    *)
(***************************************************************************)
EXTENDS MatchDecision, TLC

CONSTANTS c1, c2, i1, i2, n1, orgA, triage, none, admin, fac

MCContact == {c1}
MCContacts == {c1, c2}

(* i1 and i2 name a people group, n1 does not. *)
OneInterest == {i1}
AllThree == {i1, i2, n1}
JustSecond == {i2}
TwoInterests == {i1, i2}
MCNoFpg == {n1}
NoneOfThem == {}
AllOfOneContact == [i \in Interests |-> c1]
OnePerContact == [i \in Interests |-> IF i = i2 THEN c2 ELSE c1]

SmallOrgs == {orgA, triage}
CoverAll == (Orgs \ {TriageOrg}) \X (Interests \ NoFpg)

(* A staff admin may take any row of the table a facilitator may. *)
MCActors == {admin, fac}
JustAdmin == {admin}
MCRolesOf == [a \in Actors |-> IF a = admin THEN {"staff_admin"} ELSE {"facilitator"}]
MCOrgsOf == [a \in Actors |-> IF a = admin THEN {} ELSE {orgA}]

(* States asked of POST /transition. *)
NoTargets == [k \in Kinds |-> {}]
SomeTargets == [k \in Kinds |->
  IF k = "adopter" THEN {"contacted", "do_not_engage"} ELSE {"new"}]

(* A contact fresh from the intake form, or kept as both kinds of party. *)
Fresh == {[adopter |-> "new", facilitator |-> Null]}
FreshOrBoth == Fresh \cup {[adopter |-> "potential_adopter", facilitator |-> "new"]}

WorkerSymmetry == Permutations(Workers)
=============================================================================
