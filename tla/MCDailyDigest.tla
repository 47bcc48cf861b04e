--------------------------- MODULE MCDailyDigest ---------------------------
(***************************************************************************)
(* An instance of DailyDigest for TLC: two days of two sending slots and   *)
(* one other, one fault, and a match of each of two orgs.  The one of      *)
(* staff is a facilitator as well, and another facilitator is of both orgs.*)
(***************************************************************************)
EXTENDS DailyDigest

TwoMatches == {"m1", "m2"}
TwoOrgs == {"o1", "o2"}
OneEach == [m \in TwoMatches |-> IF m = "m1" THEN "o1" ELSE "o2"]
OneStaff == {"both"}
Members == [o \in TwoOrgs |-> IF o = "o1" THEN {"both", "fac"} ELSE {"fac"}]
=============================================================================
