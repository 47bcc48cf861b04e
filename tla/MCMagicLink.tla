---------------------------- MODULE MCMagicLink ----------------------------
(***************************************************************************)
(* An instance of MagicLink for TLC: one person, two calls at a time.  A   *)
(* tick is a link's life, the limit's window and the age at which a row is *)
(* purged: the clock passes each, and meets each at its boundary.          *)
(***************************************************************************)
EXTENDS MagicLink

CONSTANTS e1

OnePerson == {e1}
TwoCalls == {1, 2}
=============================================================================
