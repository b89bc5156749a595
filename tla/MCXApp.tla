------------------------------- MODULE MCXApp -------------------------------
(* Two Replicas of one Home, as around a redeployment, and one of another. *)
EXTENDS XAppConnectionManager, TLC

CONSTANTS ra, rb, rc, u1, u2, w1

MCRemoteDomain == ra :> 1 @@ rb :> 1 @@ rc :> 2
=============================================================================
