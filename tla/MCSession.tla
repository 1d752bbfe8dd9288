----------------------------- MODULE MCSession -----------------------------
(* Instances of Session for TLC. *)
EXTENDS Session, TLC

CONSTANTS app, bg

\* A status is decoded as a signed number (a .cfg cannot write one).
SignedStatuses == {-1, 0, 1}
=============================================================================
