------------------------------ MODULE MCIntake ------------------------------
(***************************************************************************)
(* An instance of Intake for TLC: two clients send one form under one key, *)
(* a third another form, with an unknown people group, under the same key. *)
(* All are of one person.  The form two send is in the forms database too, *)
(* after an older one.                                                     *)
(***************************************************************************)
EXTENDS Intake

Bodies == {"good", "bad", "old"}
Email == [f \in Bodies |-> "e1"]
Kind == [f \in Bodies |-> "adopter"]
KnownBodies == Bodies \ {"bad"}
TwoRows == <<"old", "good">>

RaceForms == <<"good", "good", "bad">>
RaceIds == <<"k1", "k1", "k1">>
RaceKeys == [i \in {"k1"} |-> "env"]

ApiRows == {"db"}
=============================================================================
