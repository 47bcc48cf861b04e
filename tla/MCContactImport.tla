--------------------------- MODULE MCContactImport ---------------------------
(***************************************************************************)
(* Instances of ContactImport for TLC.                                     *)
(***************************************************************************)
EXTENDS ContactImport, TLC

CONSTANTS j1, j2

TwoPosts == {1, 2}
OneEmail == {1}
OneComment == {"m"}
TwoInterests == {"i1", "i2"}
OfPosts == [x \in OneComment \cup TwoInterests |-> IF x = "i1" THEN 1 ELSE 2]
SameFpg == [i \in TwoInterests |-> "g"]
SecondOnly == {2}
BothHaveIt == [p \in TwoPosts |-> 1]
JobSymmetry == Permutations(Jobs)
=============================================================================
