---------------------------- MODULE BridgeRouter ----------------------------
(***************************************************************************)
(* The token bridge: one BridgeRouter.sol with its TokenRegistry.sol on    *)
(* each chain, the canonical tokens they hold in escrow, the BridgeToken   *)
(* contracts that represent them elsewhere, and the transfers under way    *)
(* between them.  The messages travel over the channel of the other        *)
(* modules: each is handled at most once, at any time, in any order, and   *)
(* stays processed if its handle reverts.                                  *)
(***************************************************************************)
EXTENDS Integers, FiniteSets, Functions

CONSTANTS
  Domains,
  Tokens,          \* canonical token contracts
  Customs,         \* representations that are deployed by hand
  chainOf,         \* the domain of each of these contracts
  NoToken, NoContract,
  Accounts,
  NoAccount,       \* address(0)
  Router,          \* the BridgeRouter as a holder, on every chain
  Amounts,         \* amounts of a transfer
  Wealth,          \* canonical tokens of each account before the first transfer
  GasReserve,      \* gas the router of each chain holds, in units of DUST_AMOUNT
  MaxTransfers,    \* bound on the transfers sent
  MaxOwnerActs     \* bound on what owners do

(* The representation a TokenRegistry deploys itself, one per chain and    *)
(* token at most.                                                          *)
Defaults == {x \in Domains \X Tokens : chainOf[x[2]] # x[1]}

Contracts == Tokens \cup Defaults \cup Customs

Chain(x) == IF x \in Defaults THEN x[1] ELSE chainOf[x]

Holders == Accounts \cup {Router}

Transfer ==
  [origin : Domains, nonce : 0 .. MaxTransfers - 1, destination : Domains, token : Tokens,
   recipient : Accounts \cup {NoAccount}, amount : Amounts, fast : BOOLEAN]

ASSUME BridgeAssumption ==
  /\ chainOf \in [Tokens \cup Customs -> Domains]
  /\ IsFiniteSet(Contracts) /\ IsFiniteSet(Holders)
  /\ Tokens \cap Customs = {} /\ Defaults \cap (Tokens \cup Customs) = {}
  /\ NoToken \notin Tokens /\ NoContract \notin Contracts
  /\ NoAccount \notin Holders /\ Router \notin Accounts
  /\ Amounts \subseteq Nat \ {0}
  /\ Wealth \in [Accounts -> Nat] /\ GasReserve \in [Domains -> Nat]
  /\ MaxTransfers \in Nat

VARIABLES
  balance,                    \* of each holder in each contract
  representationToCanonical,  \* the token a contract represents
  canonicalToRepresentation,  \* the contract that represents a token on a chain
  remotes,                    \* the domains whose routers each router trusts
  liquidityProvider,          \* per transfer, who has pre-filled it
  sent, handled, reverted,    \* transfers: dispatched, and how their handle ended
  gas, dusted,                \* the routers' gas, and who has DUST_AMOUNT of it
  ownerActs

registryVars == <<representationToCanonical, canonicalToRepresentation>>
transferVars == <<sent, handled, reverted>>
gasVars == <<gas, dusted>>
vars == <<balance, registryVars, remotes, liquidityProvider, transferVars, gasVars, ownerActs>>

Init ==
  /\ balance = [x \in Contracts |-> [h \in Holders |->
                  IF x \in Tokens /\ h \in Accounts THEN Wealth[h] ELSE 0]]
  /\ representationToCanonical = [x \in Contracts |-> NoToken]
  /\ canonicalToRepresentation = [d \in Domains |-> [t \in Tokens |-> NoContract]]
  /\ remotes = [d \in Domains |-> Domains \ {d}]
  /\ liquidityProvider = [m \in {} |-> NoAccount]
  /\ sent = {} /\ handled = {} /\ reverted = {}
  /\ gas = GasReserve /\ dusted = [d \in Domains |-> {}]
  /\ ownerActs = 0

InTransit == sent \ (handled \cup reverted)

(***************************************************************************)
(* TokenRegistry                                                           *)
(***************************************************************************)

(* It has code, and represents nothing: a default that has been deployed   *)
(* represents its token.                                                   *)
isLocalOrigin(x) == x \notin Defaults /\ representationToCanonical[x] = NoToken

getTokenId(x) ==
  IF representationToCanonical[x] = NoToken THEN x ELSE representationToCanonical[x]

getLocalAddress(d, t) == IF chainOf[t] = d THEN t ELSE canonicalToRepresentation[d][t]

(* Mutated: the contract is not told which token it represents. *)
registerOneWay(d, t, x) ==
  /\ UNCHANGED representationToCanonical
  /\ canonicalToRepresentation' = [canonicalToRepresentation EXCEPT ![d][t] = x]

(* The lookup tables once x represents t on chain d. *)
register(d, t, x) ==
  /\ representationToCanonical' = [representationToCanonical EXCEPT ![x] = t]
  /\ canonicalToRepresentation' = [canonicalToRepresentation EXCEPT ![d][t] = x]

(* ensureLocalToken: the contract it returns, and the deployment it makes. *)
LocalToken(d, t) ==
  IF getLocalAddress(d, t) = NoContract THEN <<d, t>> ELSE getLocalAddress(d, t)

ensureLocalToken(d, t) ==
  IF getLocalAddress(d, t) = NoContract THEN register(d, t, <<d, t>>)
                                        ELSE UNCHANGED registryVars

(***************************************************************************)
(* Sending                                                                 *)
(***************************************************************************)

(* Balances after n tokens of x move, are burned, or are minted.  One may  *)
(* send to oneself: the receiver's balance is read when the sender's has   *)
(* been written.                                                           *)
moved(x, from, to, n) ==
  LET paid == [balance[x] EXCEPT ![from] = @ - n] IN
  [balance EXCEPT ![x] = [paid EXCEPT ![to] = @ + n]]

burned(x, from, n) == [balance EXCEPT ![x][from] = @ - n]
minted(x, to, n) == [balance EXCEPT ![x][to] = @ + n]

NextNonce(origin, destination) ==
  Cardinality({m \in sent : m.origin = origin /\ m.destination = destination})

(* `to` is NoAccount if the bytes32 is not zero but the 20 bytes that      *)
(* evmRecipient takes of it are.                                           *)
send(a, x, n, destination, to, fast) ==
  /\ destination \in remotes[Chain(x)]
  /\ balance[x][a] >= n
  /\ balance' = IF isLocalOrigin(x) THEN moved(x, a, Router, n) ELSE burned(x, a, n)
  /\ sent' = sent \cup
       {[origin |-> Chain(x), nonce |-> NextNonce(Chain(x), destination),
         destination |-> destination, token |-> getTokenId(x), recipient |-> to,
         amount |-> n, fast |-> fast]}
  /\ UNCHANGED <<registryVars, remotes, liquidityProvider, handled, reverted, gasVars,
                 ownerActs>>

(***************************************************************************)
(* Receiving                                                               *)
(***************************************************************************)

(* _dust: the gas is sent if the recipient is short of it and the router   *)
(* has it; sending may fail, which is ignored.                             *)
dust(d, a) ==
  \/ UNCHANGED gasVars
  \/ /\ a \notin dusted[d] /\ gas[d] > 0
     /\ gas' = [gas EXCEPT ![d] = @ - 1]
     /\ dusted' = [dusted EXCEPT ![d] = @ \cup {a}]

providerOf(m) == IF m \in DOMAIN liquidityProvider THEN liquidityProvider[m] ELSE NoAccount

isPreFilled(m) == m.fast /\ providerOf(m) # NoAccount

(* Mutated: the recipient is paid, whether or not somebody advanced it. *)
recipientAnyway(m) == m.recipient

(* Who is paid for m on its destination. *)
payee(m) == IF isPreFilled(m) THEN providerOf(m) ELSE m.recipient

(* The providers still to be repaid once m is handled. *)
recordsWithout(m) ==
  [k \in DOMAIN liquidityProvider \ {m} |-> liquidityProvider[k]]

(* What handle requires: the router it comes from is trusted, tokens are   *)
(* not paid to address(0), and the escrow suffices.                        *)
canHandle(m) ==
  LET x == LocalToken(m.destination, m.token) IN
  /\ m.origin \in remotes[m.destination]
  /\ payee(m) # NoAccount
  /\ isLocalOrigin(x) => balance[x][Router] >= m.amount

handle(m) ==
  LET x == LocalToken(m.destination, m.token) IN
  /\ canHandle(m)
  /\ handled' = handled \cup {m}
  /\ ensureLocalToken(m.destination, m.token)
  /\ balance' = IF isLocalOrigin(x) THEN moved(x, Router, payee(m), m.amount)
                                    ELSE minted(x, payee(m), m.amount)
  /\ liquidityProvider' = IF isPreFilled(m) THEN recordsWithout(m) ELSE liquidityProvider
  /\ dust(m.destination, payee(m))
  /\ UNCHANGED <<remotes, sent, reverted, ownerActs>>

handleReverts(m) ==
  /\ ~canHandle(m)
  /\ reverted' = reverted \cup {m}
  /\ UNCHANGED <<balance, registryVars, remotes, liquidityProvider, sent, handled, gasVars,
                 ownerActs>>

(***************************************************************************)
(* Fast liquidity and representations                                      *)
(***************************************************************************)

(* 5 basis points, rounded against the recipient. *)
applyPreFillFee(n) == (n * 9995) \div 10000

(* Nothing here depends on whether m is still on its way.  (The code takes *)
(* any message; one that is never sent is left out: it gives money away    *)
(* and touches nothing else.)                                              *)
preFill(a, m) ==
  LET x == getLocalAddress(m.destination, m.token)
      n == applyPreFillFee(m.amount)
  IN
  /\ m.fast
  /\ providerOf(m) = NoAccount
  /\ x # NoContract
  /\ m.recipient # NoAccount
  /\ balance[x][a] >= n
  /\ liquidityProvider' = [k \in DOMAIN liquidityProvider \cup {m} |->
                             IF k = m THEN a ELSE liquidityProvider[k]]
  /\ balance' = moved(x, a, m.recipient, n)
  /\ dust(m.destination, m.recipient)
  /\ UNCHANGED <<registryVars, remotes, transferVars, ownerActs>>

(* Mutated: the old tokens are not burned. *)
migratedTwice(a, old, new) == minted(new, a, balance[old][a])

migrated(a, old, new) ==
  [balance EXCEPT ![old][a] = 0, ![new][a] = @ + balance[old][a]]

migrate(a, old) ==
  LET t == representationToCanonical[old]
      new == canonicalToRepresentation[Chain(old)][t]
  IN
  /\ t # NoToken
  /\ new # old
  /\ balance' = migrated(a, old, new)
  /\ UNCHANGED <<registryVars, remotes, liquidityProvider, transferVars, gasVars, ownerActs>>
(***************************************************************************)
(* Owners                                                                  *)
(***************************************************************************)

ownerAct == ownerActs < MaxOwnerActs /\ ownerActs' = ownerActs + 1

(* What enrollCustom leaves to the caution of governance: the contract is  *)
(* not used for anything else, and the token is not at home on the chain.  *)
isFitCustom(d, t, x) ==
  /\ Chain(x) = d
  /\ chainOf[t] # d
  /\ representationToCanonical[x] \in {NoToken, t}

enrollCustom(d, t, x) ==
  /\ ownerAct
  /\ isFitCustom(d, t, x)
  /\ register(d, t, x)
  /\ UNCHANGED <<balance, remotes, liquidityProvider, transferVars, gasVars>>

(* Router.enrollRemoteRouter, with the router of domain e or without one.  *)
enrollRemoteRouter(d, e) ==
  /\ ownerAct
  /\ d # e
  /\ \E r \in {remotes[d] \cup {e}, remotes[d] \ {e}} :
       r # remotes[d] /\ remotes' = [remotes EXCEPT ![d] = r]
  /\ UNCHANGED <<balance, registryVars, liquidityProvider, transferVars, gasVars>>

Send ==
  /\ Cardinality(sent) < MaxTransfers
  /\ \E a \in Accounts, x \in Contracts, n \in Amounts, d \in Domains,
        to \in Accounts \cup {NoAccount}, fast \in BOOLEAN : send(a, x, n, d, to, fast)

Handle == \E m \in InTransit : handle(m) \/ handleReverts(m)

PreFill == \E a \in Accounts, m \in sent : preFill(a, m)

Migrate == \E a \in Accounts, x \in Contracts : migrate(a, x)

Owner ==
  \/ \E d \in Domains, t \in Tokens, x \in Customs : enrollCustom(d, t, x)
  \/ \E d, e \in Domains : enrollRemoteRouter(d, e)

Next == Send \/ Handle \/ PreFill \/ Migrate \/ Owner

(* Every message that is sent is processed, see OptimisticChannel.         *)
Spec == Init /\ [][Next]_vars /\ WF_vars(Handle)

(***************************************************************************)
(* Properties                                                              *)
(***************************************************************************)

(* Every variable holds a value of its Solidity type; the uint256 balances *)
(* do not go below zero.                                                   *)
TypeOK ==
  /\ balance \in [Contracts -> [Holders -> Nat]]
  /\ representationToCanonical \in [Contracts -> Tokens \cup {NoToken}]
  /\ canonicalToRepresentation \in [Domains -> [Tokens -> Contracts \cup {NoContract}]]
  /\ remotes \in [Domains -> SUBSET Domains]
  /\ sent \subseteq Transfer
  /\ handled \subseteq sent /\ reverted \subseteq sent
  /\ DOMAIN liquidityProvider \subseteq sent
  /\ \A m \in DOMAIN liquidityProvider : liquidityProvider[m] \in Accounts
  /\ gas \in [Domains -> Nat] /\ dusted \in [Domains -> SUBSET Accounts]

(* All of contract x that there is. *)
Supply(x) == SumFunctionOnSet(balance[x], Holders)

Representations(t) == {x \in Contracts : representationToCanonical[x] = t}

(* What represents t on all other chains. *)
Circulating(t) == SumFunctionOnSet([x \in Contracts |-> Supply(x)], Representations(t))

Unpaid(t) == {m \in sent \ handled : m.token = t}

(* What transfers of t have not paid out. *)
Owed(t) == SumFunctionOnSet([m \in sent |-> m.amount], Unpaid(t))

(* What is held in escrow for a token is what represents it on all other   *)
(* chains, in old representations and new ones, together with what is on   *)
(* its way and what was lost on the way: no order of transfers, advances   *)
(* and migrations lets anyone withdraw more than was put in, and a         *)
(* transfer that comes home finds the escrow to pay for it.                *)
FullyBacked ==
  \A t \in Tokens : balance[t][Router] = Circulating(t) + Owed(t)

(* The contract that represents a token on a chain is one that knows the   *)
(* token, and stays on that chain; tokens at home there are not in the     *)
(* tables.  Else a transfer is burned as one token and minted as another.  *)
RepresentationsPointBack ==
  /\ \A d \in Domains, t \in Tokens :
       LET x == canonicalToRepresentation[d][t] IN
       x # NoContract =>
         representationToCanonical[x] = t /\ Chain(x) = d /\ chainOf[t] # d
  /\ \A x \in Contracts :
       LET t == representationToCanonical[x] IN
       t # NoToken => x \notin Tokens /\ canonicalToRepresentation[Chain(x)][t] # NoContract

(* The transfers named by origin, destination and nonce.                   *)
MessageIds == {id \in Domains \X Domains \X (0 .. MaxTransfers - 1) : id[1] # id[2]}

Named(id) == {m \in sent : <<m.origin, m.destination, m.nonce>> = id}

(* A provider's money is out for it, and its handle has not reverted.      *)
IsFilled(id) == \E m \in Named(id) \ reverted : providerOf(m) # NoAccount

(* Who is to get the money of a transfer: who advanced it, if anybody did. *)
claimant(m) == IF providerOf(m) # NoAccount THEN providerOf(m) ELSE m.recipient

Claims(a, t) == {m \in InTransit : m.token = t /\ claimant(m) = a}

(* What an account has of a token on all chains, and is to get.            *)
Worth(a, t) ==
  SumFunctionOnSet([x \in Contracts |-> balance[x][a]], {t} \cup Representations(t))
    + SumFunctionOnSet([m \in sent |-> m.amount], Claims(a, t))

(* What the recipient of m pays for having it earlier. *)
fee(m) == m.amount - applyPreFillFee(m.amount)

(* Whoever advances a transfer that is on its way has a claim in return,   *)
(* and handle settles it in full: nobody's balances and claims together    *)
(* ever shrink, except those of who sends, of who is owed by a transfer    *)
(* that reverts, of a recipient by the fee, and of who fills a transfer    *)
(* already handled. Representations may be replaced and migrated between   *)
(* the advance and the repayment.                                          *)
FillersAreRepaid ==
  [][\A a \in Accounts, t \in Tokens :
       \/ Worth(a, t)' >= Worth(a, t)
       \/ sent' # sent \/ reverted' # reverted
       \/ \E m \in DOMAIN liquidityProvider' \ DOMAIN liquidityProvider :
            \/ m.recipient = a /\ Worth(a, t)' >= Worth(a, t) - fee(m)
            \/ liquidityProvider'[m] = a /\ m \notin InTransit]_vars

(* The documentation of preFill: it records the provider, who receives the *)
(* full amount when the transfer is handled.                               *)
ProvidersAreRepaid == \A id \in MessageIds : IsFilled(id) ~> ~IsFilled(id)
=============================================================================
