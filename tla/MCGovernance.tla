---------------------------- MODULE MCGovernance ----------------------------
(* Three chains that all know each other; the router of the third may be   *)
(* removed, replaced and enrolled again.                                   *)
EXTENDS GovernanceRouter, TLC

CONSTANTS g, h, m, n, ra, rx

MCRouterAt == [d \in Domains |-> ra]
MCFirstManager == [d \in Domains |-> m]
MCFirstDomains == 1 :> <<2, 3>> @@ 2 :> <<1, 3>> @@ 3 :> <<1, 2>>

ASSUME MCEnrolmentIsMutual == EnrolmentIsMutual

Budget(transfers, sets, batches, managers) ==
  [transfer |-> transfers, setRouter |-> sets, batch |-> batches, manager |-> managers]

MCBudgets == {Budget(5, 0, 0, 0), Budget(2, 2, 0, 0), Budget(1, 1, 1, 1)}
=============================================================================
