------------------------------ MODULE MCBridge ------------------------------
(* A token at home on chain 1, with a custom representation on chain 2.    *)
EXTENDS BridgeRouter, TLC

CONSTANTS eth, custom, user, provider

MCChainOf == eth :> 1 @@ custom :> 2
MCWealth == user :> 2 @@ provider :> 1
MCGasReserve == [d \in Domains |-> IF d = 2 THEN 1 ELSE 0]
=============================================================================
