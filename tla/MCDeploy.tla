------------------------------ MODULE MCDeploy ------------------------------
(* A hub and two spokes deployed together, the core contracts alone; two   *)
(* chains, with and without bridges; a hub and a spoke with their bridges, *)
(* and a third chain added to them, by the scripts of an environment in    *)
(* which governance acts later and by those of the local environment.      *)
EXTENDS Deploy

CONSTANTS ra, rb, rc

MCRouterAt == 1 :> ra @@ 2 :> rb @@ 3 :> rc

WithBridge == deployComplete(<<1, 2>>) \o deployBridgesComplete(<<1, 2>>)

OneAfterTheOther ==
  deployHubAndSpoke(<<2>>) \o deployBridgesHubAndSpoke(<<2>>) \o deployNewChain(3, <<2>>)
    \o deployNewChainBridge(3) \o enrollSpoke(3) \o checkHubToSpokeConnectionWithWaiter(3)

Locally == deployHubNSpoke(<<2>>) \o deployAdditionalNetwork(3, <<2>>)

MCScripts == {deployTwoChains(1, 2), deployHubAndSpoke(<<2, 3>>),
              WithBridge, OneAfterTheOther, Locally}
=============================================================================
