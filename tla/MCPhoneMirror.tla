--------------------------- MODULE MCPhoneMirror ---------------------------
(* An instance of PhoneMirror: two workers of one site and day. *)
EXTENDS PhoneMirror, TLC

CONSTANTS mason, helper
=============================================================================
