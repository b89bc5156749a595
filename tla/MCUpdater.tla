------------------------------ MODULE MCUpdater ------------------------------
(* Updater with three messages for one domain, which may come in another   *)
(* order after a reorganization.                                           *)
EXTENDS Updater

CONSTANTS here, b1, b2, u1, m1
=============================================================================
