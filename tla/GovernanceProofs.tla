--------------------------- MODULE GovernanceProofs ---------------------------
(***************************************************************************)
(* For any set of chains, governors, routers and any length of behaviour:  *)
(* the list of domains and the mapping of routers agree, there is one      *)
(* mandate to govern, and chains that heard of every governor agree who    *)
(* governs.  And, about the contract that says which Replicas a router     *)
(* listens to, that its two mappings agree.                                *)
(***************************************************************************)
EXTENDS GovernanceRouter, XAppConnectionManager, FiniteSetTheorems, TLAPS

(* _setRouter refuses the chain's own domain: it is never enrolled.        *)
NotOwnRouter == \A l \in Domains : routers[l][l] = NoRouter

(* A chain that has a governor takes no orders from another.               *)
GovernorAtHome == \A l \in Domains : governor[l] # NoAccount => governorDomain[l] = l

(* A message on its way went to another chain, under a nonce that is used. *)
MessagesAreNumbered ==
  \A m \in inFlight : m.origin # m.destination /\ m.nonce < nonces[m.origin][m.destination]

(* OneMandate, without counting.                                           *)
SingleMandate ==
  \/ \E l \in Domains : Governing = {l} /\ Appointments = {}
  \/ \E m \in inFlight : Governing = {} /\ Appointments = {m}
  \/ Governing = {} /\ Appointments = {} /\ \E l \in Domains : spent[l]

IInv ==
  /\ TypeOK /\ DomainsMatchRouters /\ NotOwnRouter
  /\ GovernorAtHome /\ MessagesAreNumbered /\ SingleMandate

USE DomainsAssumption, AccountsAssumption, RoutersAssumption

(***************************************************************************)
(* The list of domains                                                     *)
(***************************************************************************)

(* 0 is no domain, so a deleted entry is not an entry.                     *)
LEMMA ZeroIsNoDomain == NoDomain \notin Domains
  BY DEF NoDomain

(* What _setRouter makes of the list: the domain is in it exactly if it    *)
(* has a router, once.                                                     *)
LEMMA ListAfterSetRouter ==
  ASSUME TypeOK, DomainsMatchRouters,
         NEW l \in Domains, NEW d \in Domains, NEW r \in Routers \cup {NoRouter}
  PROVE  LET list == domainsAfter(l, d, r)
         IN /\ list \in Seq(Domains \cup {NoDomain})
            /\ NoneTwice(list)
            /\ Entries(list) = IF r = NoRouter THEN Entries(domains[l]) \ {d}
                               ELSE Entries(domains[l]) \cup {d}
  <1> DEFINE old == domains[l]
  <1>0. old \in Seq(Domains \cup {NoDomain}) /\ NoneTwice(old)
    BY DEF TypeOK, DomainsMatchRouters
  <1>1. d \in Entries(old) <=> routers[l][d] # NoRouter
    BY DEF DomainsMatchRouters
  <1>2. CASE r = NoRouter
    <2>1. domainsAfter(l, d, r) = [i \in DOMAIN old |-> IF old[i] = d THEN NoDomain ELSE old[i]]
      BY <1>2 DEF domainsAfter, _removeDomain
    <2>2. d # NoDomain
      BY ZeroIsNoDomain
    <2> DEFINE new == [i \in DOMAIN old |-> IF old[i] = d THEN NoDomain ELSE old[i]]
    <2>3. new \in Seq(Domains \cup {NoDomain})
      BY <1>0
    <2>4. NoneTwice(new)
      BY <1>0 DEF NoneTwice
    <2>5. Entries(new) = Entries(old) \ {d}
      BY <2>2 DEF Entries
    <2> QED
      BY <1>2, <2>1, <2>3, <2>4, <2>5
  <1>3. CASE r # NoRouter /\ routers[l][d] = NoRouter
    <2>1. domainsAfter(l, d, r) = Append(old, d)
      BY <1>3 DEF domainsAfter
    <2>2. d \notin Entries(old) /\ d # NoDomain
      BY <1>1, <1>3, ZeroIsNoDomain
    <2> DEFINE new == Append(old, d)
    <2>3. new \in Seq(Domains \cup {NoDomain}) /\ DOMAIN new = 1 .. Len(old) + 1
          /\ DOMAIN old = 1 .. Len(old) /\ Len(old) \in Nat
      BY <1>0
    <2>4. \A i \in DOMAIN new : new[i] = IF i = Len(old) + 1 THEN d ELSE old[i]
      BY <1>0
    <2>5. \A i \in DOMAIN old : old[i] # d
      BY <2>2 DEF Entries
    <2>6. NoneTwice(new)
      <3> HIDE DEF old, new
      <3> QED
        BY <1>0, <2>3, <2>4, <2>5 DEF NoneTwice
    <2>7. Entries(new) = Entries(old) \cup {d}
      <3> HIDE DEF old, new
      <3> QED
        BY <2>2, <2>3, <2>4 DEF Entries
    <2> QED
      BY <1>3, <2>1, <2>3, <2>6, <2>7
  <1>4. CASE r # NoRouter /\ routers[l][d] # NoRouter
    BY <1>0, <1>1, <1>4 DEF domainsAfter
  <1> QED
    BY <1>2, <1>3, <1>4

RouterInv ==
  /\ routers \in [Domains -> [Domains -> Routers \cup {NoRouter}]]
  /\ domains \in [Domains -> Seq(Domains \cup {NoDomain})]
  /\ DomainsMatchRouters /\ NotOwnRouter

LEMMA SetRouterKeeps ==
  ASSUME TypeOK, DomainsMatchRouters, NotOwnRouter,
         NEW l \in Domains, NEW d \in Domains, NEW r \in Routers \cup {NoRouter},
         _setRouter(l, d, r)
  PROVE  RouterInv'
  <1> DEFINE list == domainsAfter(l, d, r)
  <1>1. /\ list \in Seq(Domains \cup {NoDomain})
        /\ NoneTwice(list)
        /\ Entries(list) = IF r = NoRouter THEN Entries(domains[l]) \ {d}
                           ELSE Entries(domains[l]) \cup {d}
    BY ListAfterSetRouter
  <1> HIDE DEF list
  <1>2. /\ d # l /\ domains' = [domains EXCEPT ![l] = list]
        /\ routers' = [routers EXCEPT ![l][d] = r]
    BY DEF _setRouter, list
  <1>3. /\ routers \in [Domains -> [Domains -> Routers \cup {NoRouter}]]
        /\ domains \in [Domains -> Seq(Domains \cup {NoDomain})]
    BY DEF TypeOK
  <1>4. /\ routers' \in [Domains -> [Domains -> Routers \cup {NoRouter}]]
        /\ domains' \in [Domains -> Seq(Domains \cup {NoDomain})]
    BY <1>1, <1>2, <1>3
  <1>5. NotOwnRouter'
    BY <1>2, <1>3 DEF NotOwnRouter
  <1>6. ASSUME NEW k \in Domains
        PROVE  /\ NoneTwice(domains'[k])
               /\ Entries(domains'[k]) = {e \in Domains : routers'[k][e] # NoRouter}
    <2>1. CASE k = l
      <3>1. domains'[k] = list /\ \A e \in Domains : routers'[k][e] = IF e = d THEN r ELSE routers[l][e]
        BY <1>2, <1>3, <2>1
      <3>2. Entries(domains[l]) = {e \in Domains : routers[l][e] # NoRouter}
        BY DEF DomainsMatchRouters
      <3> QED
        BY <1>1, <3>1, <3>2
    <2>2. CASE k # l
      <3>1. domains'[k] = domains[k] /\ routers'[k] = routers[k]
        BY <1>2, <1>3, <2>2
      <3> QED
        BY <3>1 DEF DomainsMatchRouters
    <2> QED
      BY <2>1, <2>2
  <1>7. DomainsMatchRouters'
    BY <1>6 DEF DomainsMatchRouters
  <1> QED
    BY <1>4, <1>5, <1>7 DEF RouterInv

(***************************************************************************)
(* Messages                                                                *)
(***************************************************************************)

LEMMA CallsAndTransfers ==
  /\ \A c \in Calls : c.type # "transferGovernor"
  /\ \A b \in Transfers : b.type = "transferGovernor" /\ b.domain \in Domains /\ b.governor \in Accounts
  BY DEF Calls, Transfers

(* What dispatch adds is new: its nonces have not been used.               *)
LEMMA DispatchKeeps ==
  ASSUME TypeOK, MessagesAreNumbered,
         NEW l \in Domains, NEW ds \in SUBSET Domains, l \notin ds,
         NEW rs \in [Domains -> Routers \cup {NoRouter}], \A d \in ds : rs[d] # NoRouter,
         NEW body \in Calls \cup Transfers,
         dispatch(l, ds, rs, body)
  PROVE  /\ nonces' \in [Domains -> [Domains -> Nat]]
         /\ inFlight' \subseteq Messages
         /\ MessagesAreNumbered'
         /\ \A m \in inFlight' : m \in inFlight \/ (m.origin = l /\ m.destination \in ds /\ m.body = body)
         /\ inFlight \subseteq inFlight'
         /\ \A d \in ds : \E m \in inFlight' : /\ m \notin inFlight /\ m.destination = d /\ m.body = body
                                             /\ \A n \in inFlight' \ inFlight : n.destination = d => n = m
  <1> DEFINE sent(d) == [origin |-> l, destination |-> d, nonce |-> nonces[l][d],
                         recipient |-> rs[d], body |-> body]
  <1>1. /\ nonces' = [nonces EXCEPT ![l] = [d \in Domains |-> IF d \in ds THEN @[d] + 1 ELSE @[d]]]
        /\ inFlight' = inFlight \cup {sent(d) : d \in ds}
    BY DEF dispatch
  <1>2. nonces \in [Domains -> [Domains -> Nat]] /\ inFlight \subseteq Messages
    BY DEF TypeOK
  <1>3. /\ nonces' \in [Domains -> [Domains -> Nat]]
        /\ \A o, d \in Domains : nonces[o][d] \in Nat
        /\ \A o, d \in Domains :
             nonces'[o][d] = IF o = l /\ d \in ds THEN nonces[o][d] + 1 ELSE nonces[o][d]
    BY <1>1, <1>2
  <1>4. \A d \in ds : /\ sent(d) \in Messages /\ sent(d).origin = l /\ sent(d).destination = d
                      /\ sent(d).nonce = nonces[l][d] /\ sent(d).body = body
    BY <1>2 DEF Messages
  <1>5. \A m \in Messages : m.origin \in Domains /\ m.destination \in Domains /\ m.nonce \in Nat
    BY DEF Messages
  <1> HIDE DEF sent
  <1>6. MessagesAreNumbered'
    <2> SUFFICES ASSUME NEW m \in inFlight'
                 PROVE  m.origin # m.destination /\ m.nonce < nonces'[m.origin][m.destination]
      BY DEF MessagesAreNumbered
    <2>1. CASE m \in inFlight
      <3>1. m.nonce < nonces[m.origin][m.destination] /\ m.origin # m.destination
        BY <2>1 DEF MessagesAreNumbered
      <3>2. m.origin \in Domains /\ m.destination \in Domains /\ m.nonce \in Nat
        BY <1>2, <1>5, <2>1
      <3> DEFINE o == m.origin
                 d == m.destination
      <3>3. /\ nonces[o][d] \in Nat
            /\ nonces'[o][d] = IF o = l /\ d \in ds THEN nonces[o][d] + 1 ELSE nonces[o][d]
        <4> HIDE DEF o, d
        <4> o \in Domains /\ d \in Domains
          BY <3>2 DEF o, d
        <4> QED
          BY <1>3
      <3> QED
        BY <3>1, <3>2, <3>3
    <2>2. CASE m \notin inFlight
      <3>1. PICK d \in ds : m = sent(d)
        BY <1>1, <2>2
      <3>2. nonces[l][d] \in Nat /\ nonces'[l][d] = nonces[l][d] + 1
        BY <1>3
      <3>3. m.origin = l /\ m.destination = d /\ m.nonce = nonces[l][d] /\ l # d
        BY <1>4, <3>1
      <3> QED
        BY <3>2, <3>3
    <2> QED
      BY <2>1, <2>2
  <1>7. \A d \in ds : sent(d) \notin inFlight
    <2> SUFFICES ASSUME NEW d \in ds, sent(d) \in inFlight PROVE FALSE
      OBVIOUS
    <2>1. nonces[l][d] < nonces[l][d]
      BY <1>4 DEF MessagesAreNumbered
    <2>2. nonces[l][d] \in Nat
      BY <1>2
    <2> QED
      BY <2>1, <2>2
  <1>8. ASSUME NEW d \in ds
        PROVE  \E m \in inFlight' : /\ m \notin inFlight /\ m.destination = d /\ m.body = body
                                   /\ \A n \in inFlight' \ inFlight : n.destination = d => n = m
    <2>1. sent(d) \in inFlight' /\ sent(d) \notin inFlight
      BY <1>1, <1>7
    <2>2. \A n \in inFlight' \ inFlight : n.destination = d => n = sent(d)
      BY <1>1, <1>4
    <2> QED
      BY <1>4, <2>1, <2>2
  <1>9. inFlight' \subseteq Messages
    BY <1>1, <1>2, <1>4
  <1>10. \A m \in inFlight' : m \in inFlight \/ (m.origin = l /\ m.destination \in ds /\ m.body = body)
    BY <1>1, <1>4
  <1> QED
    BY <1>1, <1>3, <1>6, <1>8, <1>9, <1>10

(***************************************************************************)
(* The operations                                                          *)
(***************************************************************************)

LEMMA BudgetKeepsType ==
  ASSUME TypeOK, NEW k \in Commands, command(k)
  PROVE  budget' \in [Commands -> Nat]
  BY DEF TypeOK, command

(* Who governs is told by three variables.                                 *)
LEMMA MandateKept ==
  ASSUME SingleMandate, governor' = governor, Appointments' = Appointments,
         \A l \in Domains : spent[l] => spent'[l]
  PROVE  SingleMandate'
  <1>1. Governing' = Governing
    BY DEF Governing
  <1>2. \A m : m \in Appointments' => m \in inFlight'
    BY DEF Appointments
  <1> QED
    BY <1>1, <1>2 DEF SingleMandate

LEMMA DomainsHaveRouters ==
  ASSUME DomainsMatchRouters, NotOwnRouter, NEW l \in Domains
  PROVE  /\ remoteDomains(l) \in SUBSET Domains /\ l \notin remoteDomains(l)
         /\ \A d \in Domains : d \in remoteDomains(l) <=> routers[l][d] # NoRouter
  BY DEF DomainsMatchRouters, NotOwnRouter, remoteDomains

(* The body of the messages that hand governorship to g on d.              *)
Handover(d, g) == [type |-> "transferGovernor", domain |-> d, governor |-> g]

(* What the governor on l does when it hands governorship to g on d, and   *)
(* who is told.                                                            *)
LEMMA TransferTells ==
  ASSUME IInv, NEW l \in Domains, NEW s \in Accounts \cup Managers,
         NEW d \in Domains, NEW g \in Accounts, transferGovernor(l, s, d, g)
  PROVE  /\ command("transfer")
         /\ governorDomain' = [governorDomain EXCEPT ![l] = d]
         /\ governor' = [governor EXCEPT ![l] = IF d = l THEN g ELSE NoAccount]
         /\ UNCHANGED <<routers, domains, recovery, recoveryManager, inboundCallBatches, spent>>
         /\ Governing = {l} /\ Appointments = {}
         /\ l \notin transferDestinations(l, d)
         /\ d # l => d \in transferDestinations(l, d)
         /\ nonces' \in [Domains -> [Domains -> Nat]]
         /\ inFlight' \subseteq Messages
         /\ MessagesAreNumbered'
         /\ \A m \in inFlight' : \/ m \in inFlight
                               \/ /\ m.origin = l /\ m.destination \in transferDestinations(l, d)
                                  /\ m.body = Handover(d, g)
         /\ inFlight \subseteq inFlight'
         /\ \A e \in transferDestinations(l, d) : \E m \in inFlight' :
              /\ m \notin inFlight /\ m.destination = e /\ m.body = Handover(d, g)
              /\ \A n \in inFlight' \ inFlight : n.destination = e => n = m
  <1> DEFINE body == Handover(d, g)
             ds == transferDestinations(l, d)
  <1>1. /\ command("transfer") /\ s \in {governor[l], Self}
        /\ d # l => routers[l][d] # NoRouter
        /\ governorDomain' = [governorDomain EXCEPT ![l] = d]
        /\ governor' = [governor EXCEPT ![l] = IF d = l THEN g ELSE NoAccount]
        /\ dispatch(l, ds, routers[l], body)
        /\ UNCHANGED <<routers, domains, recovery, recoveryManager, inboundCallBatches, spent>>
    BY DEF transferGovernor, onlyGovernor, _transferGovernor, _mustHaveRouter, newGovernor,
           routerVars, recoveryVars, Handover
  <1>2. TypeOK /\ DomainsMatchRouters /\ NotOwnRouter /\ MessagesAreNumbered /\ SingleMandate
    BY DEF IInv
  <1>3. /\ governor \in [Domains -> Accounts \cup {NoAccount}]
        /\ routers \in [Domains -> [Domains -> Routers \cup {NoRouter}]]
    BY <1>2 DEF TypeOK
  <1>4. Governing = {l} /\ Appointments = {}
    <2>1. l \in Governing
      BY <1>1, <1>3 DEF Governing
    <2> QED
      BY <1>2, <2>1 DEF SingleMandate
  <1>5. body \in Calls \cup Transfers
    BY DEF Transfers, Handover
  <1>6. /\ ds \in SUBSET Domains /\ l \notin ds /\ \A e \in ds : routers[l][e] # NoRouter
        /\ d # l => d \in ds
        /\ routers[l] \in [Domains -> Routers \cup {NoRouter}]
    BY <1>1, <1>2, <1>3, DomainsHaveRouters DEF transferDestinations
  <1>7. /\ nonces' \in [Domains -> [Domains -> Nat]]
        /\ inFlight' \subseteq Messages
        /\ MessagesAreNumbered'
        /\ \A m \in inFlight' : m \in inFlight \/ (m.origin = l /\ m.destination \in ds /\ m.body = body)
        /\ inFlight \subseteq inFlight'
        /\ \A e \in ds : \E m \in inFlight' : /\ m \notin inFlight /\ m.destination = e /\ m.body = body
                                            /\ \A n \in inFlight' \ inFlight : n.destination = e => n = m
    <2> HIDE DEF body, ds
    <2> QED
      BY <1>1, <1>2, <1>5, <1>6, DispatchKeeps
  <1> QED
    BY <1>1, <1>4, <1>6, <1>7

(* Governorship leaves a chain in the same step in which one message that  *)
(* appoints the next governor does.                                        *)
LEMMA TransferStep ==
  ASSUME IInv, NEW l \in Domains, NEW s \in Accounts \cup Managers,
         NEW d \in Domains, NEW g \in Accounts, transferGovernor(l, s, d, g)
  PROVE  IInv'
  <1> DEFINE body == Handover(d, g)
             ds == transferDestinations(l, d)
  <1>1. /\ command("transfer")
        /\ governorDomain' = [governorDomain EXCEPT ![l] = d]
        /\ governor' = [governor EXCEPT ![l] = IF d = l THEN g ELSE NoAccount]
        /\ UNCHANGED <<routers, domains, recovery, recoveryManager, inboundCallBatches, spent>>
    BY TransferTells
  <1>2. TypeOK /\ DomainsMatchRouters /\ NotOwnRouter /\ GovernorAtHome
    BY DEF IInv
  <1>3. /\ governor \in [Domains -> Accounts \cup {NoAccount}]
        /\ governorDomain \in [Domains -> Domains]
        /\ inFlight \subseteq Messages
    BY <1>2 DEF TypeOK
  <1>4. Governing = {l} /\ Appointments = {}
    BY TransferTells
  <1>6. l \notin ds /\ (d # l => d \in ds)
    BY TransferTells
  <1>7. /\ nonces' \in [Domains -> [Domains -> Nat]]
        /\ inFlight' \subseteq Messages
        /\ MessagesAreNumbered'
        /\ \A m \in inFlight' : m \in inFlight \/ (m.origin = l /\ m.destination \in ds /\ m.body = body)
        /\ inFlight \subseteq inFlight'
        /\ \A e \in ds : \E m \in inFlight' : /\ m \notin inFlight /\ m.destination = e /\ m.body = body
                                            /\ \A n \in inFlight' \ inFlight : n.destination = e => n = m
    BY TransferTells
  <1>0. body.type = "transferGovernor" /\ body.domain = d
    BY DEF Handover
  <1> HIDE DEF body
  <1>8. TypeOK'
    <2>1. governor' \in [Domains -> Accounts \cup {NoAccount}] /\ governorDomain' \in [Domains -> Domains]
      BY <1>1, <1>3
    <2>2. budget' \in [Commands -> Nat]
      BY <1>1, <1>2, BudgetKeepsType DEF Commands
    <2> QED
      BY <1>1, <1>2, <1>7, <2>1, <2>2 DEF TypeOK
  <1>9. DomainsMatchRouters' /\ NotOwnRouter'
    BY <1>1, <1>2 DEF DomainsMatchRouters, NotOwnRouter
  <1>10. GovernorAtHome'
    BY <1>1, <1>2, <1>3 DEF GovernorAtHome
  <1>11. SingleMandate'
    <2>1. \A m \in inFlight : ~(m.body.type = "transferGovernor" /\ m.body.domain = m.destination)
      BY <1>4 DEF Appointments
    <2>2. CASE d = l
      <3>1. Governing' = {l}
        BY <1>1, <1>3, <1>4, <2>2 DEF Governing
      <3>2. Appointments' = {}
        BY <1>7, <2>1, <2>2 DEF Appointments, transferDestinations
      <3> QED
        BY <3>1, <3>2 DEF SingleMandate
    <2>3. CASE d # l
      <3>1. Governing' = {}
        BY <1>1, <1>3, <1>4, <2>3 DEF Governing
      <3>2. PICK m \in inFlight' : /\ m \notin inFlight /\ m.destination = d /\ m.body = body
                                   /\ \A n \in inFlight' \ inFlight : n.destination = d => n = m
        BY <1>6, <1>7, <2>3
      <3>3. \A n \in inFlight' : n \in Appointments' <=> n = m
        <4> SUFFICES ASSUME NEW n \in inFlight' PROVE n \in Appointments' <=> n = m
          OBVIOUS
        <4>1. CASE n \in inFlight
          BY <2>1, <3>2, <4>1 DEF Appointments
        <4>2. CASE n \notin inFlight
          <5>1. n.body = body
            BY <1>7, <4>2
          <5>2. n \in Appointments' <=> n.destination = d
            BY <1>0, <5>1 DEF Appointments
          <5> QED
            BY <3>2, <4>2, <5>2
        <4> QED
          BY <4>1, <4>2
      <3>4. Appointments' = {m}
        BY <3>3 DEF Appointments
      <3> QED
        BY <3>1, <3>4 DEF SingleMandate
    <2> QED
      BY <2>2, <2>3
  <1> QED
    BY <1>7, <1>8, <1>9, <1>10, <1>11 DEF IInv

(* A step that tells other chains of a call, and no more than that,        *)
(* appoints nobody.                                                        *)
LEMMA OrderStep ==
  ASSUME IInv, RouterInv', budget' \in [Commands -> Nat],
         NEW l \in Domains, NEW ds \in SUBSET Domains, l \notin ds,
         NEW rs \in [Domains -> Routers \cup {NoRouter}], \A d \in ds : rs[d] # NoRouter,
         NEW body \in Calls, dispatch(l, ds, rs, body),
         UNCHANGED <<governorVars, recoveryVars, inboundCallBatches, spent>>
  PROVE  IInv'
  <1>1. TypeOK /\ DomainsMatchRouters /\ NotOwnRouter /\ GovernorAtHome
        /\ MessagesAreNumbered /\ SingleMandate
    BY DEF IInv
  <1>2. /\ nonces' \in [Domains -> [Domains -> Nat]]
        /\ inFlight' \subseteq Messages
        /\ MessagesAreNumbered'
        /\ \A m \in inFlight' : m \in inFlight \/ m.body = body
        /\ inFlight \subseteq inFlight'
    BY <1>1, DispatchKeeps
  <1>3. TypeOK' /\ DomainsMatchRouters' /\ NotOwnRouter'
    BY <1>1, <1>2 DEF TypeOK, RouterInv, governorVars, recoveryVars
  <1>4. GovernorAtHome'
    BY <1>1 DEF GovernorAtHome, governorVars
  <1>5. Appointments' = Appointments
    <2>1. body.type # "transferGovernor"
      BY CallsAndTransfers
    <2> QED
      BY <1>2, <2>1 DEF Appointments
  <1>6. SingleMandate'
    BY <1>1, <1>5, MandateKept DEF governorVars
  <1> QED
    BY <1>2, <1>3, <1>4, <1>6 DEF IInv

(* A step in which no message is sent or arrives and nobody's governorship *)
(* changes.                                                                *)
LEMMA QuietStep ==
  ASSUME IInv, TypeOK', RouterInv', UNCHANGED <<governorVars, messageVars, spent>>
  PROVE  IInv'
  <1> USE DEF governorVars, messageVars
  <1>1. GovernorAtHome' /\ MessagesAreNumbered'
    BY DEF IInv, GovernorAtHome, MessagesAreNumbered
  <1>2. Appointments' = Appointments
    BY DEF Appointments
  <1>3. SingleMandate'
    BY <1>2, MandateKept DEF IInv
  <1> QED
    BY <1>1, <1>3 DEF IInv, RouterInv

(* Routers that nobody touches.                                            *)
LEMMA RoutersUntouched ==
  ASSUME IInv, UNCHANGED routerVars
  PROVE  RouterInv'
  BY DEF IInv, TypeOK, RouterInv, routerVars, DomainsMatchRouters, NotOwnRouter

(* A call made locally leaves the two lists of routers in agreement.       *)
LEMMA CallLocalKeeps ==
  ASSUME IInv, NEW l \in Domains, NEW c \in Calls, _callLocal(l, c)
  PROVE  RouterInv'
  <1>1. CASE c.type = "other"
    <2>1. UNCHANGED routerVars
      BY <1>1 DEF _callLocal
    <2> QED
      BY <2>1, RoutersUntouched
  <1>2. CASE c.type = "setRouterLocal"
    <2>1. c.domain \in Domains /\ c.router \in Routers \cup {NoRouter}
      <3>1. c # [type |-> "other"]
        BY <1>2
      <3>2. c \in [type : {"setRouterLocal"}, domain : SetDomains, router : Routers \cup {NoRouter}]
        BY <3>1 DEF Calls
      <3> QED
        BY <3>2, BoundsAssumption
    <2>2. _setRouter(l, c.domain, c.router)
      BY <1>2 DEF _callLocal
    <2> QED
      BY <2>1, <2>2, SetRouterKeeps DEF IInv
  <1> QED
    BY <1>1, <1>2 DEF Calls

LEMMA SetRouterLocalStep ==
  ASSUME IInv, NEW l \in Domains, NEW s \in Accounts \cup Managers,
         NEW d \in SetDomains, NEW r \in Routers \cup {NoRouter}, setRouterLocal(l, s, d, r)
  PROVE  IInv'
  <1>1. /\ command("setRouter") /\ _setRouter(l, d, r)
        /\ UNCHANGED <<governorVars, recoveryVars, inboundCallBatches, messageVars, spent>>
    BY DEF setRouterLocal
  <1>2. d \in Domains
    BY BoundsAssumption
  <1>3. RouterInv'
    BY <1>1, <1>2, SetRouterKeeps DEF IInv
  <1>4. budget' \in [Commands -> Nat]
    BY <1>1, BudgetKeepsType DEF IInv, Commands
  <1>5. TypeOK'
    BY <1>1, <1>3, <1>4 DEF IInv, TypeOK, RouterInv, governorVars, recoveryVars, messageVars
  <1> QED
    BY <1>1, <1>3, <1>5, QuietStep

LEMMA SetRouterGlobalStep ==
  ASSUME IInv, NEW l \in Domains, NEW s \in Accounts \cup Managers,
         NEW d \in SetDomains, NEW r \in Routers \cup {NoRouter}, setRouterGlobal(l, s, d, r)
  PROVE  IInv'
  <1> DEFINE body == [type |-> "setRouterLocal", domain |-> d, router |-> r]
             ds == remoteDomains(l)
  <1>1. /\ command("setRouter") /\ _setRouter(l, d, r)
        /\ dispatch(l, ds, routers[l], body)
        /\ UNCHANGED <<governorVars, recoveryVars, inboundCallBatches, spent>>
    BY DEF setRouterGlobal
  <1>2. d \in Domains
    BY BoundsAssumption
  <1>3. RouterInv'
    BY <1>1, <1>2, SetRouterKeeps DEF IInv
  <1>4. budget' \in [Commands -> Nat]
    BY <1>1, BudgetKeepsType DEF IInv, Commands
  <1>5. /\ ds \in SUBSET Domains /\ l \notin ds /\ \A e \in ds : routers[l][e] # NoRouter
        /\ routers[l] \in [Domains -> Routers \cup {NoRouter}]
    BY DomainsHaveRouters DEF IInv, TypeOK
  <1>6. body \in Calls
    BY DEF Calls
  <1> HIDE DEF body, ds
  <1> QED
    BY <1>1, <1>3, <1>4, <1>5, <1>6, OrderStep

LEMMA ExecuteStep ==
  ASSUME IInv, NEW l \in Domains, NEW s \in Accounts \cup Managers,
         NEW c \in Calls, NEW b \in Calls, NEW ds \in SUBSET Domains,
         executeGovernanceActions(l, s, c, ds, b)
  PROVE  IInv'
  <1>1. /\ command("batch") /\ _callLocal(l, c)
        /\ \A d \in ds : routers'[l][d] # NoRouter
        /\ dispatch(l, ds, routers'[l], b)
        /\ UNCHANGED <<governorVars, recoveryVars, inboundCallBatches, spent>>
    BY DEF executeGovernanceActions
  <1>2. RouterInv'
    BY <1>1, CallLocalKeeps
  <1>3. budget' \in [Commands -> Nat]
    BY <1>1, BudgetKeepsType DEF IInv, Commands
  <1>4. l \notin ds /\ routers'[l] \in [Domains -> Routers \cup {NoRouter}]
    BY <1>1, <1>2 DEF RouterInv, NotOwnRouter
  <1> QED
    BY <1>1, <1>2, <1>3, <1>4, OrderStep

LEMMA RecoverStep ==
  ASSUME IInv, NEW l \in Domains, NEW s \in Managers, Recover(l, s)
  PROVE  IInv'
  <1>1. /\ UNCHANGED <<governorVars, routerVars, inboundCallBatches, messageVars, spent>>
        /\ recovery' \in [Domains -> {"none", "timelock", "active"}]
        /\ recoveryManager' \in [Domains -> Managers]
        /\ budget' \in [Commands -> Nat]
    <2>0. /\ TypeOK /\ "manager" \in Commands
          /\ recovery \in [Domains -> {"none", "timelock", "active"}]
          /\ recoveryManager \in [Domains -> Managers]
          /\ budget \in [Commands -> Nat]
      BY DEF IInv, TypeOK, Commands
    <2>1. CASE \E m \in Managers : transferRecoveryManager(l, s, m)
      BY <2>0, <2>1, BudgetKeepsType DEF transferRecoveryManager
    <2>2. CASE initiateRecoveryTimelock(l, s)
      BY <2>0, <2>2, BudgetKeepsType DEF initiateRecoveryTimelock
    <2>3. CASE TimelockExpires(l)
      BY <2>0, <2>3 DEF TimelockExpires
    <2>4. CASE exitRecovery(l, s)
      BY <2>0, <2>4 DEF exitRecovery
    <2> QED
      BY <2>1, <2>2, <2>3, <2>4 DEF Recover
  <1>2. RouterInv'
    BY <1>1, RoutersUntouched
  <1>3. TypeOK'
    BY <1>1, <1>2 DEF IInv, TypeOK, RouterInv, governorVars, messageVars
  <1> QED
    BY <1>1, <1>2, <1>3, QuietStep

LEMMA ExecuteCallBatchStep ==
  ASSUME IInv, NEW l \in Domains, NEW c \in Calls, executeCallBatch(l, c)
  PROVE  IInv'
  <1>1. /\ inboundCallBatches' = [inboundCallBatches EXCEPT ![l][c] = "Complete"]
        /\ _callLocal(l, c)
        /\ UNCHANGED <<governorVars, recoveryVars, messageVars, spent, budget>>
    BY DEF executeCallBatch
  <1>2. RouterInv'
    BY <1>1, CallLocalKeeps
  <1>3. TypeOK'
    BY <1>1, <1>2 DEF IInv, TypeOK, RouterInv, governorVars, recoveryVars, messageVars
  <1> QED
    BY <1>1, <1>2, <1>3, QuietStep

(* handle takes one message off; which governor there is changes with it   *)
(* exactly if the message appointed one.                                   *)
LEMMA HandleStep ==
  ASSUME IInv, NEW m \in inFlight, handle(m)
  PROVE  IInv'
  <1> DEFINE l == m.destination
             b == m.body
  <1>1. TypeOK /\ DomainsMatchRouters /\ NotOwnRouter /\ GovernorAtHome
        /\ MessagesAreNumbered /\ SingleMandate
    BY DEF IInv
  <1>2. l \in Domains /\ m.origin \in Domains /\ b \in Calls \cup Transfers /\ m.origin # l
    BY <1>1 DEF TypeOK, Messages, MessagesAreNumbered
  <1>3. /\ inFlight' = inFlight \ {m}
        /\ UNCHANGED <<routerVars, recoveryVars, nonces, budget>>
    BY DEF handle
  <1>4. RouterInv'
    BY <1>3, RoutersUntouched
  <1>5. inFlight' \subseteq Messages /\ MessagesAreNumbered'
    BY <1>1, <1>3 DEF TypeOK, MessagesAreNumbered
  <1>6. ASSUME governor' \in [Domains -> Accounts \cup {NoAccount}],
               governorDomain' \in [Domains -> Domains],
               inboundCallBatches' \in [Domains -> [Calls -> {"Unknown", "Pending", "Complete"}]],
               spent' \in [Domains -> BOOLEAN],
               GovernorAtHome', SingleMandate'
        PROVE  IInv'
    <2>1. TypeOK'
      BY <1>1, <1>3, <1>4, <1>5, <1>6 DEF TypeOK, RouterInv, recoveryVars
    <2> QED
      BY <1>4, <1>5, <1>6, <2>1 DEF IInv, RouterInv
  <1>7. CASE handleReverts(l, m)
    <2>1. spent' = [spent EXCEPT ![l] = TRUE] /\ UNCHANGED <<governorVars, inboundCallBatches>>
      BY <1>7 DEF handle
    <2>2. spent \in [Domains -> BOOLEAN]
      BY <1>1 DEF TypeOK
    <2>3. spent' \in [Domains -> BOOLEAN] /\ spent'[l] /\ \A k \in Domains : spent[k] => spent'[k]
      BY <1>2, <2>1, <2>2
    <2>4. Governing' = Governing /\ Appointments' = Appointments \ {m}
      BY <1>3, <2>1 DEF Governing, Appointments, governorVars
    <2>5. SingleMandate'
      <3>1. CASE \E k \in Domains : Governing = {k} /\ Appointments = {}
        BY <2>4, <3>1 DEF SingleMandate
      <3>2. CASE \E n \in inFlight : Governing = {} /\ Appointments = {n}
        <4> PICK n \in inFlight : Governing = {} /\ Appointments = {n}
          BY <3>2
        <4>1. CASE n = m
          BY <1>2, <2>3, <2>4, <4>1 DEF SingleMandate
        <4>2. CASE n # m
          BY <1>3, <2>4, <4>2 DEF SingleMandate
        <4> QED
          BY <4>1, <4>2
      <3>3. CASE Governing = {} /\ Appointments = {} /\ \E k \in Domains : spent[k]
        BY <2>3, <2>4, <3>3 DEF SingleMandate
      <3> QED
        BY <1>1, <3>1, <3>2, <3>3 DEF SingleMandate
    <2> QED
      BY <1>1, <1>6, <2>1, <2>3, <2>5 DEF TypeOK, GovernorAtHome, governorVars
  <1>8. CASE ~handleReverts(l, m) /\ b.type # "transferGovernor"
    <2>1. /\ inboundCallBatches' = [inboundCallBatches EXCEPT ![l][b] = "Pending"]
          /\ UNCHANGED <<governorVars, spent>>
      BY <1>8 DEF handle, _handleBatch
    <2>2. Appointments' = Appointments
      BY <1>3, <1>8 DEF Appointments
    <2>3. SingleMandate'
      BY <1>1, <2>1, <2>2, MandateKept DEF governorVars
    <2> QED
      BY <1>1, <1>6, <2>1, <2>3 DEF TypeOK, GovernorAtHome, governorVars
  <1>9. CASE ~handleReverts(l, m) /\ b.type = "transferGovernor"
    <2>1. b.domain \in Domains /\ b.governor \in Accounts
      BY <1>2, <1>9, CallsAndTransfers
    <2>2. /\ governorDomain' = [governorDomain EXCEPT ![l] = b.domain]
          /\ governor' = [governor EXCEPT ![l] = IF b.domain = l THEN b.governor ELSE NoAccount]
          /\ UNCHANGED <<inboundCallBatches, spent>>
      BY <1>9 DEF handle, _handleTransferGovernor, _transferGovernor, newGovernor
    <2>3. /\ governor \in [Domains -> Accounts \cup {NoAccount}]
          /\ governorDomain \in [Domains -> Domains]
      BY <1>1 DEF TypeOK
    <2>4. l \notin Governing
      <3>1. governorDomain[l] # l
        BY <1>2, <1>9 DEF handleReverts, onlyGovernorRouter
      <3> QED
        BY <1>1, <1>2, <3>1 DEF GovernorAtHome, Governing
    <2>5. GovernorAtHome'
      BY <1>1, <1>2, <2>2, <2>3 DEF GovernorAtHome
    <2>6. SingleMandate'
      <3>1. CASE b.domain = l
        <4>1. m \in Appointments
          BY <1>9, <3>1 DEF Appointments
        <4>2. Governing = {} /\ Appointments = {m}
          BY <1>1, <4>1 DEF SingleMandate
        <4>3. Appointments' = {}
          BY <1>3, <4>2 DEF Appointments
        <4>4. Governing' = {l}
          BY <1>2, <2>1, <2>2, <2>3, <3>1, <4>2 DEF Governing
        <4> QED
          BY <1>2, <4>3, <4>4 DEF SingleMandate
      <3>2. CASE b.domain # l
        <4>1. Appointments' = Appointments
          BY <1>3, <3>2 DEF Appointments
        <4>2. governor' = governor
          BY <1>2, <2>2, <2>3, <2>4, <3>2 DEF Governing
        <4> QED
          BY <1>1, <2>2, <4>1, <4>2, MandateKept
      <3> QED
        BY <3>1, <3>2
    <2> QED
      BY <1>1, <1>2, <1>6, <2>1, <2>2, <2>3, <2>5, <2>6 DEF TypeOK
  <1> QED
    BY <1>7, <1>8, <1>9

(***************************************************************************)
(* The theorems                                                            *)
(***************************************************************************)

LEMMA InitIsGoverned == Init => IInv
  <1> SUFFICES ASSUME Init PROVE IInv
    OBVIOUS
  <1>1. /\ governor \in [Domains -> Accounts \cup {NoAccount}]
        /\ \A l \in Domains : governor[l] = NoAccount <=> l # FirstGovernor
        /\ governorDomain = [l \in Domains |-> FirstGovernor]
        /\ domains = firstDomains
        /\ nonces = [l \in Domains |-> [d \in Domains |-> 0]]
        /\ inFlight = {} /\ spent = [l \in Domains |-> FALSE]
    BY DEF Init
  <1>2. routers = [l \in Domains |-> [d \in Domains |->
                     IF d \in Entries(firstDomains[l]) THEN routerAt[d] ELSE NoRouter]]
    BY DEF Init
  <1>3. \A l, d \in Domains : routers[l][d] # NoRouter <=> d \in Entries(firstDomains[l])
    BY <1>2
  <1>4. \A l \in Domains : Entries(firstDomains[l]) \subseteq Domains
    <2> SUFFICES ASSUME NEW l \in Domains, NEW e \in Entries(firstDomains[l])
                 PROVE  e \in Domains
      OBVIOUS
    <2>1. PICK s \in Seq(Domains) : s = firstDomains[l]
      BY FirstDomainsAssumption
    <2>2. PICK i \in DOMAIN s : e = s[i]
      BY <2>1 DEF Entries
    <2> QED
      BY <2>1, <2>2
  <1>5. DomainsMatchRouters /\ NotOwnRouter
    BY <1>1, <1>3, <1>4, FirstDomainsAssumption DEF DomainsMatchRouters, NotOwnRouter
  <1>6. TypeOK
    <2>1. routers \in [Domains -> [Domains -> Routers \cup {NoRouter}]]
      BY <1>2
    <2>2. domains \in [Domains -> Seq(Domains \cup {NoDomain})]
      <3>1. \A l \in Domains : firstDomains[l] \in Seq(Domains \cup {NoDomain})
        BY FirstDomainsAssumption
      <3> QED
        BY <1>1, <3>1, FirstDomainsAssumption
    <2>3. budget \in [Commands -> Nat]
      BY BoundsAssumption DEF Init
    <2> QED
      BY <1>1, <2>1, <2>2, <2>3 DEF Init, TypeOK
  <1>7. GovernorAtHome /\ MessagesAreNumbered
    BY <1>1 DEF GovernorAtHome, MessagesAreNumbered
  <1>8. SingleMandate
    <2>1. Governing = {FirstGovernor} /\ Appointments = {}
      BY <1>1 DEF Governing, Appointments
    <2> QED
      BY <2>1 DEF SingleMandate
  <1> QED
    BY <1>5, <1>6, <1>7, <1>8 DEF IInv

LEMMA StepsKeepGovernment == IInv /\ [Next]_vars => IInv'
  <1> SUFFICES ASSUME IInv, [Next]_vars PROVE IInv'
    OBVIOUS
  <1>1. ASSUME NEW l \in Domains, NEW s \in Accounts \cup Managers, Govern(l, s)
        PROVE  IInv'
    <2>1. CASE \E d \in Domains, g \in Accounts : transferGovernor(l, s, d, g)
      BY <2>1, TransferStep
    <2>2. CASE \E d \in SetDomains, r \in Routers \cup {NoRouter} : setRouterLocal(l, s, d, r)
      BY <2>2, SetRouterLocalStep
    <2>3. CASE \E d \in SetDomains, r \in Routers \cup {NoRouter} : setRouterGlobal(l, s, d, r)
      BY <2>3, SetRouterGlobalStep
    <2>4. CASE \E c, b \in Calls, ds \in SUBSET Domains : executeGovernanceActions(l, s, c, ds, b)
      BY <2>4, ExecuteStep
    <2> QED
      BY <1>1, <2>1, <2>2, <2>3, <2>4 DEF Govern
  <1>2. CASE \E l \in Domains, s \in Managers : Recover(l, s)
    BY <1>2, RecoverStep
  <1>3. CASE \E m \in inFlight : handle(m)
    BY <1>3, HandleStep
  <1>4. CASE \E l \in Domains, c \in Calls : executeCallBatch(l, c)
    BY <1>4, ExecuteCallBatchStep
  <1>5. CASE UNCHANGED vars
    <2>1. TypeOK' /\ UNCHANGED <<governorVars, routerVars, messageVars, spent>>
      BY <1>5 DEF vars, IInv, TypeOK, Calls, Messages, Transfers, governorVars, routerVars,
                  recoveryVars, messageVars
    <2> QED
      BY <2>1, RoutersUntouched, QuietStep
  <1> QED
    BY <1>1, <1>2, <1>3, <1>4, <1>5 DEF Next

LEMMA AlwaysGoverned == Spec => []IInv
  BY InitIsGoverned, StepsKeepGovernment, PTL DEF Spec

(* Every variable of the routers has its type in every behaviour.          *)
THEOREM GovernanceTypeOK == Spec => []TypeOK
  <1>1. IInv => TypeOK
    BY DEF IInv
  <1> QED
    BY <1>1, AlwaysGoverned, PTL

(* A broadcast reaches every router that is enrolled, and each once,       *)
(* whatever was enrolled, changed and removed before.                      *)
THEOREM GovernanceDomainsMatchRouters == Spec => []DomainsMatchRouters
  <1>1. IInv => DomainsMatchRouters
    BY DEF IInv
  <1> QED
    BY <1>1, AlwaysGoverned, PTL

(* Governorship is never held twice, however many chains there are and     *)
(* whatever messages about it are still on their way.                      *)
THEOREM GovernanceOneMandate == Spec => []OneMandate
  <1>1. IInv => OneMandate
    <2> SUFFICES ASSUME SingleMandate PROVE OneMandate
      BY DEF IInv
    <2> DEFINE a == Cardinality(Governing)
               b == Cardinality(Appointments)
    <2>1. CASE \E l \in Domains : Governing = {l} /\ Appointments = {}
      <3>1. a = 1 /\ b = 0
        BY <2>1, FS_EmptySet, FS_Singleton
      <3> QED
        BY <3>1 DEF OneMandate
    <2>2. CASE \E m \in inFlight : Governing = {} /\ Appointments = {m}
      <3>1. a = 0 /\ b = 1
        BY <2>2, FS_EmptySet, FS_Singleton
      <3> QED
        BY <3>1 DEF OneMandate
    <2>3. CASE Governing = {} /\ Appointments = {} /\ \E l \in Domains : spent[l]
      <3>1. a = 0 /\ b = 0
        BY <2>3, FS_EmptySet
      <3> QED
        BY <2>3, <3>1 DEF OneMandate
    <2> QED
      BY <2>1, <2>2, <2>3 DEF SingleMandate
  <1> QED
    BY <1>1, AlwaysGoverned, PTL

(***************************************************************************)
(* Succession.  To a chain that only listens, the messages of successive   *)
(* governors are the edges of a trail: each leads from the chain that sent *)
(* it to the chain it names.  A chain accepts a message only from the      *)
(* domain it takes for the governor's, so it walks the edges in the order  *)
(* of the trail, whatever order they arrive in.  What is invariant is the  *)
(* balance of the edges still on their way: as many lead to a domain as    *)
(* from it, but for the governor's (one more arrives) and the one the      *)
(* chain believes in (one more leaves).                                    *)
(***************************************************************************)

One(p) == IF p THEN 1 ELSE 0

TransfersInFlight == {m \in inFlight : m.body.type = "transferGovernor"}
Pending(l) == {m \in TransfersInFlight : m.destination = l}

Naming(S, x) == {m \in S : m.body.domain = x}
SentFrom(S, x) == {m \in S : m.origin = x}

Balanced(l, G) ==
  \A x \in Domains :
    One(governorDomain[l] = x) + Cardinality(Naming(Pending(l), x))
      = One(G = x) + Cardinality(SentFrom(Pending(l), x))

(* Domains that l will never have a router for.                            *)
Strangers(l) == Domains \ (SetDomains \cup {l} \cup Entries(firstDomains[l]))

(* A message to l names such a domain, so l is bound to refuse one.        *)
Doomed(l) == \E m \in Pending(l) : m.body.domain \in Strangers(l)

(* No router of a chain outside SetDomains was ever set.                   *)
RoutersKept ==
  \A l \in Domains, k \in Domains \ SetDomains :
    routers[l][k] # NoRouter <=> k \in Entries(firstDomains[l])

(* G is where the trail ends: it governs or is to be appointed.            *)
Heir(G) == Governing \subseteq {G} /\ \A m \in Appointments : m.destination = G

FollowedBy(G, l) == spent[l] \/ Doomed(l) \/ (G \notin Strangers(l) /\ Balanced(l, G))

Succession ==
  /\ RoutersKept
  /\ \A l \in Domains : IsFiniteSet(Pending(l))
  /\ \E G \in Domains : Heir(G) /\ \A l \in Domains \ SetDomains : FollowedBy(G, l)

(* One message more or less.                                               *)
LEMMA OneMoreMessage ==
  ASSUME NEW S, IsFiniteSet(S), NEW m, m \notin S, NEW x
  PROVE  /\ Cardinality(Naming(S, x)) \in Nat /\ Cardinality(SentFrom(S, x)) \in Nat
         /\ Cardinality(Naming(S \cup {m}, x)) = Cardinality(Naming(S, x)) + One(m.body.domain = x)
         /\ Cardinality(SentFrom(S \cup {m}, x)) = Cardinality(SentFrom(S, x)) + One(m.origin = x)
  <1>1. /\ IsFiniteSet(Naming(S, x)) /\ m \notin Naming(S, x)
        /\ IsFiniteSet(SentFrom(S, x)) /\ m \notin SentFrom(S, x)
    BY FS_Subset DEF Naming, SentFrom
  <1>2. Cardinality(Naming(S, x)) \in Nat /\ Cardinality(SentFrom(S, x)) \in Nat
    BY <1>1, FS_CardinalityType
  <1>3. Cardinality(Naming(S \cup {m}, x)) = Cardinality(Naming(S, x)) + One(m.body.domain = x)
    <2>1. CASE m.body.domain = x
      <3>1. Naming(S \cup {m}, x) = Naming(S, x) \cup {m}
        BY <2>1 DEF Naming
      <3> QED
        BY <1>1, <2>1, <3>1, FS_AddElement DEF One
    <2>2. CASE m.body.domain # x
      <3>1. Naming(S \cup {m}, x) = Naming(S, x)
        BY <2>2 DEF Naming
      <3> QED
        BY <1>2, <2>2, <3>1 DEF One
    <2> QED
      BY <2>1, <2>2
  <1>4. Cardinality(SentFrom(S \cup {m}, x)) = Cardinality(SentFrom(S, x)) + One(m.origin = x)
    <2>1. CASE m.origin = x
      <3>1. SentFrom(S \cup {m}, x) = SentFrom(S, x) \cup {m}
        BY <2>1 DEF SentFrom
      <3> QED
        BY <1>1, <2>1, <3>1, FS_AddElement DEF One
    <2>2. CASE m.origin # x
      <3>1. SentFrom(S \cup {m}, x) = SentFrom(S, x)
        BY <2>2 DEF SentFrom
      <3> QED
        BY <1>2, <2>2, <3>1 DEF One
    <2> QED
      BY <2>1, <2>2
  <1> QED
    BY <1>2, <1>3, <1>4

(* The router of a chain outside SetDomains stays as it is.                *)
LEMMA SetRouterKeepsOthers ==
  ASSUME TypeOK, RoutersKept,
         NEW l \in Domains, NEW d \in SetDomains, NEW r \in Routers \cup {NoRouter},
         _setRouter(l, d, r)
  PROVE  RoutersKept'
  <1>1. routers' = [routers EXCEPT ![l][d] = r]
    BY DEF _setRouter
  <1>2. routers \in [Domains -> [Domains -> Routers \cup {NoRouter}]] /\ d \in Domains
    BY BoundsAssumption DEF TypeOK
  <1>3. \A e \in Domains, k \in Domains \ SetDomains : routers'[e][k] = routers[e][k]
    BY <1>1, <1>2
  <1> QED
    BY <1>3 DEF RoutersKept

LEMMA CallLocalKeepsOthers ==
  ASSUME TypeOK, RoutersKept, NEW l \in Domains, NEW c \in Calls, _callLocal(l, c)
  PROVE  RoutersKept'
  <1>1. CASE c.type = "other"
    BY <1>1 DEF _callLocal, routerVars, RoutersKept
  <1>2. CASE c.type = "setRouterLocal"
    <2>1. c # [type |-> "other"]
      BY <1>2
    <2>2. c \in [type : {"setRouterLocal"}, domain : SetDomains, router : Routers \cup {NoRouter}]
      BY <2>1 DEF Calls
    <2>3. c.domain \in SetDomains /\ c.router \in Routers \cup {NoRouter}
      BY <2>2
    <2>4. _setRouter(l, c.domain, c.router)
      BY <1>2 DEF _callLocal
    <2> QED
      BY <2>3, <2>4, SetRouterKeepsOthers
  <1> QED
    BY <1>1, <1>2 DEF Calls

(* A step about other things than governorship.                            *)
LEMMA SuccessionUntouched ==
  ASSUME Succession, RoutersKept', TransfersInFlight' = TransfersInFlight,
         UNCHANGED <<governorVars, spent>>
  PROVE  Succession'
  <1>1. \A l : Pending(l)' = Pending(l)
    BY DEF Pending
  <1>2. Governing' = Governing /\ Appointments' = Appointments
    BY DEF Governing, governorVars, Appointments, TransfersInFlight
  <1>3. PICK G \in Domains : Heir(G) /\ \A l \in Domains \ SetDomains : FollowedBy(G, l)
    BY DEF Succession
  <1>4. Heir(G)'
    BY <1>2, <1>3 DEF Heir
  <1>5. ASSUME NEW l \in Domains \ SetDomains PROVE FollowedBy(G, l)'
    <2>1. (Doomed(l) => Doomed(l)') /\ (Balanced(l, G) => Balanced(l, G)')
      BY <1>1 DEF Doomed, Balanced, governorVars
    <2> QED
      BY <1>3, <2>1 DEF FollowedBy
  <1>6. \A l \in Domains : IsFiniteSet(Pending(l)')
    BY <1>1 DEF Succession
  <1> QED
    BY <1>4, <1>5, <1>6 DEF Succession

(* Messages about other things.                                            *)
LEMMA DispatchKeepsTransfers ==
  ASSUME TypeOK, MessagesAreNumbered,
         NEW l \in Domains, NEW ds \in SUBSET Domains, l \notin ds,
         NEW rs \in [Domains -> Routers \cup {NoRouter}], \A d \in ds : rs[d] # NoRouter,
         NEW body \in Calls, dispatch(l, ds, rs, body)
  PROVE  TransfersInFlight' = TransfersInFlight
  <1>1. inFlight \subseteq inFlight' /\ \A m \in inFlight' : m \in inFlight \/ m.body = body
    BY DispatchKeeps
  <1>2. body.type # "transferGovernor"
    BY CallsAndTransfers
  <1> QED
    BY <1>1, <1>2 DEF TransfersInFlight

(* The trail grows by one edge, and whoever follows the governor is told:  *)
(* enrolment is mutual, so the governor's router knows it.                 *)
LEMMA TransferSuccession ==
  ASSUME EnrolmentIsMutual, IInv, Succession,
         NEW l \in Domains, NEW s \in Accounts \cup Managers,
         NEW d \in Domains, NEW g \in Accounts, transferGovernor(l, s, d, g)
  PROVE  Succession'
  <1> DEFINE ds == transferDestinations(l, d)
  <1>1. /\ governorDomain' = [governorDomain EXCEPT ![l] = d]
        /\ governor' = [governor EXCEPT ![l] = IF d = l THEN g ELSE NoAccount]
        /\ routers' = routers /\ spent' = spent
        /\ Governing = {l} /\ Appointments = {}
        /\ l \notin ds
    BY TransferTells
  <1>2. /\ \A m \in inFlight' :
             m \in inFlight \/ (m.origin = l /\ m.destination \in ds /\ m.body = Handover(d, g))
        /\ inFlight \subseteq inFlight'
        /\ \A e \in ds : \E m \in inFlight' :
             /\ m \notin inFlight /\ m.destination = e /\ m.body = Handover(d, g)
             /\ \A n \in inFlight' \ inFlight : n.destination = e => n = m
    BY TransferTells
  <1>3. /\ governor \in [Domains -> Accounts \cup {NoAccount}]
        /\ governorDomain \in [Domains -> Domains]
    BY DEF IInv, TypeOK
  <1>4. Handover(d, g).type = "transferGovernor" /\ Handover(d, g).domain = d
    BY DEF Handover
  <1>5. PICK G \in Domains : Heir(G) /\ \A k \in Domains \ SetDomains : FollowedBy(G, k)
    BY DEF Succession
  <1>6. G = l
    BY <1>1, <1>5 DEF Heir
  <1>7. RoutersKept'
    BY <1>1 DEF Succession, RoutersKept
  <1>8. Heir(d)'
    <2>1. Governing' \subseteq {d}
      BY <1>1, <1>3 DEF Governing
    <2>2. ASSUME NEW m \in Appointments' PROVE m.destination = d
      <3>1. m \in inFlight' /\ m.body.type = "transferGovernor" /\ m.body.domain = m.destination
        BY DEF Appointments
      <3>2. m \notin inFlight
        BY <1>1, <3>1 DEF Appointments
      <3> QED
        BY <1>2, <1>4, <3>1, <3>2
    <2> QED
      BY <2>1, <2>2 DEF Heir
  (* Nothing new is on its way to a chain that is not told.                *)
  <1>9. ASSUME NEW k \in Domains, k \notin ds PROVE Pending(k)' = Pending(k)
    BY <1>2, <1>9 DEF Pending, TransfersInFlight
  <1>10. ASSUME NEW k \in ds
         PROVE  \E m : /\ m \notin Pending(k) /\ Pending(k)' = Pending(k) \cup {m}
                       /\ m.origin = l /\ m.body.domain = d
    <2>1. PICK m \in inFlight' : /\ m \notin inFlight /\ m.destination = k /\ m.body = Handover(d, g)
                                 /\ \A n \in inFlight' \ inFlight : n.destination = k => n = m
      BY <1>2
    <2>2. m.origin = l
      BY <1>2, <2>1
    <2>3. m \notin Pending(k)
      BY <2>1 DEF Pending, TransfersInFlight
    <2>4. \A n : n \in Pending(k)' <=> n \in Pending(k) \cup {m}
      BY <1>2, <1>4, <2>1 DEF Pending, TransfersInFlight
    <2>5. Pending(k)' = Pending(k) \cup {m}
      BY <2>4
    <2> QED
      BY <1>4, <2>1, <2>2, <2>3, <2>5
  <1>11. \A k \in Domains : IsFiniteSet(Pending(k)')
    BY <1>9, <1>10, FS_AddElement DEF Succession
  <1>12. ASSUME NEW k \in Domains \ SetDomains PROVE FollowedBy(d, k)'
    <2>0. FollowedBy(l, k)
      BY <1>5, <1>6
    <2>1. CASE spent[k]
      BY <1>1, <2>1 DEF FollowedBy
    <2>2. CASE Doomed(k)
      <3>1. Pending(k) \subseteq Pending(k)'
        BY <1>9, <1>10
      <3> QED
        BY <2>2, <3>1 DEF Doomed, FollowedBy
    <2>3. CASE k = l /\ l \notin Strangers(k) /\ Balanced(k, l)
      <3>1. Pending(k)' = Pending(k)
        BY <1>1, <1>9, <2>3
      <3>2. governorDomain'[k] = d /\ governorDomain[k] = l
        BY <1>1, <1>3, <2>3 DEF IInv, GovernorAtHome, Governing
      <3>3. CASE d = l
        <4>1. governorDomain' = governorDomain
          BY <1>1, <1>3, <2>3, <3>2, <3>3
        <4> QED
          BY <2>3, <3>1, <3>3, <4>1 DEF FollowedBy, Balanced
      <3>4. CASE d # l /\ d \in Strangers(k)
        <4>1. routers[l][d] # NoRouter
          BY <3>4 DEF transferGovernor, _transferGovernor, _mustHaveRouter
        <4>2. d \in Entries(firstDomains[l])
          BY <2>3, <3>4, <4>1 DEF Succession, RoutersKept, Strangers
        <4> QED
          BY <2>3, <3>4, <4>2 DEF Strangers
      <3>5. CASE d \notin Strangers(k)
        <4>1. ASSUME NEW x \in Domains
              PROVE  One(governorDomain'[k] = x) + Cardinality(Naming(Pending(k)', x))
                       = One(d = x) + Cardinality(SentFrom(Pending(k)', x))
          <5> DEFINE a == Cardinality(Naming(Pending(k), x))
                     b == Cardinality(SentFrom(Pending(k), x))
          <5>1. One(l = x) + a = One(l = x) + b
            BY <2>3, <3>2 DEF Balanced
          <5>2. a \in Nat /\ b \in Nat
            <6>1. IsFiniteSet(Naming(Pending(k), x)) /\ IsFiniteSet(SentFrom(Pending(k), x))
              BY FS_Subset DEF Succession, Naming, SentFrom
            <6> QED
              BY <6>1, FS_CardinalityType
          <5>3. a = b
            <6> HIDE DEF a, b
            <6> QED
              BY <5>1, <5>2 DEF One
          <5> QED
            BY <3>1, <3>2, <5>3
        <4>2. Balanced(k, d)'
          BY <4>1 DEF Balanced
        <4> QED
          BY <3>5, <4>2 DEF FollowedBy
      <3> QED
        BY <3>3, <3>4, <3>5
    <2>4. CASE k # l /\ l \notin Strangers(k) /\ Balanced(k, l)
      <3>1. CASE d = l
        <4>1. ds = {}
          BY <3>1 DEF transferDestinations
        <4>2. Pending(k)' = Pending(k) /\ governorDomain'[k] = governorDomain[k]
          BY <1>1, <1>3, <1>9, <2>4, <4>1
        <4> QED
          BY <2>4, <3>1, <4>2 DEF FollowedBy, Balanced
      <3>2. CASE d # l
        <4>1. routers[l][k] # NoRouter
          <5>1. k \in Entries(firstDomains[l])
            BY <2>4 DEF EnrolmentIsMutual, Strangers
          <5> QED
            BY <5>1 DEF Succession, RoutersKept
        <4>2. k \in ds
          BY <3>2, <4>1, DomainsHaveRouters DEF transferDestinations, IInv
        <4>3. PICK m : /\ m \notin Pending(k) /\ Pending(k)' = Pending(k) \cup {m}
                       /\ m.origin = l /\ m.body.domain = d
          BY <1>10, <4>2
        <4>4. CASE d \in Strangers(k)
          BY <4>3, <4>4 DEF Doomed, FollowedBy
        <4>5. CASE d \notin Strangers(k)
          <5>1. governorDomain'[k] = governorDomain[k]
            BY <1>1, <1>3, <2>4
          <5>2. ASSUME NEW x \in Domains
                PROVE  One(governorDomain'[k] = x) + Cardinality(Naming(Pending(k)', x))
                         = One(d = x) + Cardinality(SentFrom(Pending(k)', x))
            <6> DEFINE a == Cardinality(Naming(Pending(k), x))
                       b == Cardinality(SentFrom(Pending(k), x))
                       a1 == Cardinality(Naming(Pending(k)', x))
                       b1 == Cardinality(SentFrom(Pending(k)', x))
            <6>1. One(governorDomain[k] = x) + a = One(l = x) + b
              BY <2>4 DEF Balanced
            <6>2. IsFiniteSet(Pending(k))
              BY DEF Succession
            <6>3. a \in Nat /\ b \in Nat
              BY <4>3, <6>2, OneMoreMessage
            <6>4. a1 = a + One(d = x)
              BY <4>3, <6>2, OneMoreMessage
            <6>5. b1 = b + One(l = x)
              <7>1. PICK S : S = Pending(k)
                OBVIOUS
              <7>2. m \notin S /\ IsFiniteSet(S)
                BY <4>3, <6>2, <7>1
              <7>3. Cardinality(SentFrom(S \cup {m}, x))
                      = Cardinality(SentFrom(S, x)) + One(m.origin = x)
                BY <7>2, OneMoreMessage
              <7>4. b1 = b + One(m.origin = x)
                BY <4>3, <7>1, <7>3
              <7> QED
                BY <4>3, <7>4
            <6> HIDE DEF a, b, a1, b1
            <6>6. One(governorDomain[k] = x) + a1 = One(d = x) + b1
              BY <6>1, <6>3, <6>4, <6>5 DEF One
            <6> QED
              BY <5>1, <6>6 DEF a1, b1
          <5>3. Balanced(k, d)'
            BY <5>2 DEF Balanced
          <5> QED
            BY <4>5, <5>3 DEF FollowedBy
        <4> QED
          BY <4>4, <4>5
      <3> QED
        BY <3>1, <3>2
    <2> QED
      BY <2>0, <2>1, <2>2, <2>3, <2>4 DEF FollowedBy
  <1> QED
    BY <1>7, <1>8, <1>11, <1>12 DEF Succession

(* A chain walks one edge of the trail, or refuses to.                     *)
LEMMA HandleSuccession ==
  ASSUME IInv, Succession, NEW m \in inFlight, handle(m)
  PROVE  Succession'
  <1> DEFINE l == m.destination
             b == m.body
  <1>1. /\ inFlight' = inFlight \ {m} /\ routers' = routers
        /\ l \in Domains /\ m.origin \in Domains /\ b \in Calls \cup Transfers
    BY DEF handle, routerVars, IInv, TypeOK, Messages
  <1>2. /\ governor \in [Domains -> Accounts \cup {NoAccount}]
        /\ governorDomain \in [Domains -> Domains]
        /\ spent \in [Domains -> BOOLEAN]
    BY DEF IInv, TypeOK
  <1>3. RoutersKept'
    BY <1>1 DEF Succession, RoutersKept
  <1>4. \A k : Pending(k)' = Pending(k) \ {m}
    BY <1>1 DEF Pending, TransfersInFlight
  <1>5. \A k : k # l => Pending(k)' = Pending(k)
    BY <1>4 DEF Pending
  <1>6. \A k \in Domains : IsFiniteSet(Pending(k)')
    BY <1>4, FS_RemoveElement DEF Succession
  <1>7. PICK G \in Domains : Heir(G) /\ \A k \in Domains \ SetDomains : FollowedBy(G, k)
    BY DEF Succession
  <1>8. \A n \in Appointments' : n \in Appointments
    BY <1>1 DEF Appointments
  (* What the others follow has not changed.                               *)
  <1>9. ASSUME NEW k \in Domains \ SetDomains, k # l,
               governorDomain'[k] = governorDomain[k], spent'[k] = spent[k]
        PROVE  FollowedBy(G, k)'
    <2>1. (Doomed(k) => Doomed(k)') /\ (Balanced(k, G) => Balanced(k, G)')
      BY <1>5, <1>9 DEF Doomed, Balanced
    <2> QED
      BY <1>7, <1>9, <2>1 DEF FollowedBy
  <1>10. CASE handleReverts(l, m)
    <2>1. spent' = [spent EXCEPT ![l] = TRUE] /\ UNCHANGED governorVars
      BY <1>10 DEF handle
    <2>2. Heir(G)'
      <3>1. Governing' = Governing
        BY <2>1 DEF Governing, governorVars
      <3> QED
        BY <1>7, <1>8, <3>1 DEF Heir
    <2>3. ASSUME NEW k \in Domains \ SetDomains PROVE FollowedBy(G, k)'
      <3>1. CASE k = l
        <4>1. spent'[k]
          BY <1>1, <1>2, <2>1, <3>1
        <4> QED
          BY <4>1 DEF FollowedBy
      <3>2. CASE k # l
        <4>1. governorDomain'[k] = governorDomain[k] /\ spent'[k] = spent[k]
          BY <1>1, <1>2, <2>1, <3>2 DEF governorVars
        <4> QED
          BY <1>9, <3>2, <4>1
      <3> QED
        BY <3>1, <3>2
    <2> QED
      BY <1>3, <1>6, <2>2, <2>3 DEF Succession
  <1>11. CASE ~handleReverts(l, m) /\ b.type # "transferGovernor"
    <2>1. UNCHANGED <<governorVars, spent>>
      BY <1>11 DEF handle, _handleBatch
    <2>2. TransfersInFlight' = TransfersInFlight
      BY <1>1, <1>11 DEF TransfersInFlight
    <2> QED
      BY <1>3, <2>1, <2>2, SuccessionUntouched
  <1>12. CASE ~handleReverts(l, m) /\ b.type = "transferGovernor"
    <2>1. b.domain \in Domains
      BY <1>1, <1>12, CallsAndTransfers
    <2>2. /\ governorDomain' = [governorDomain EXCEPT ![l] = b.domain]
          /\ governor' = [governor EXCEPT ![l] = IF b.domain = l THEN b.governor ELSE NoAccount]
          /\ spent' = spent
      BY <1>12 DEF handle, _handleTransferGovernor, _transferGovernor, newGovernor
    <2>3. m.origin = governorDomain[l]
      BY <1>12 DEF handleReverts, onlyGovernorRouter
    <2>4. b.domain \notin Strangers(l)
      <3> SUFFICES ASSUME b.domain \in Strangers(l) PROVE FALSE
        OBVIOUS
      <3>1. b.domain # l /\ b.domain \notin SetDomains /\ b.domain \notin Entries(firstDomains[l])
        BY DEF Strangers
      <3>2. routers[l][b.domain] # NoRouter
        BY <1>12, <3>1 DEF handleReverts, _mustHaveRouter
      <3> QED
        BY <1>1, <2>1, <3>1, <3>2 DEF Succession, RoutersKept
    <2>5. Heir(G)'
      <3>1. ASSUME NEW k \in Governing' PROVE k = G
        <4>1. k \in Domains /\ governor'[k] # NoAccount
          BY DEF Governing
        <4>2. CASE k # l
          <5>1. k \in Governing
            BY <1>1, <1>2, <2>2, <4>1, <4>2 DEF Governing
          <5> QED
            BY <1>7, <5>1 DEF Heir
        <4>3. CASE k = l
          <5>1. b.domain = l
            BY <1>1, <1>2, <2>2, <4>1, <4>3
          <5>2. m \in Appointments
            BY <1>12, <5>1 DEF Appointments
          <5> QED
            BY <1>7, <4>3, <5>2 DEF Heir
        <4> QED
          BY <4>2, <4>3
      <3> QED
        BY <1>7, <1>8, <3>1 DEF Heir
    <2>6. ASSUME NEW k \in Domains \ SetDomains PROVE FollowedBy(G, k)'
      <3>1. CASE k # l
        <4>1. governorDomain'[k] = governorDomain[k] /\ spent'[k] = spent[k]
          BY <1>1, <1>2, <2>2, <3>1
        <4> QED
          BY <1>9, <3>1, <4>1
      <3>2. CASE k = l /\ spent[k]
        BY <2>2, <3>2 DEF FollowedBy
      <3>3. CASE k = l /\ Doomed(k)
        <4>1. PICK n \in Pending(k) : n.body.domain \in Strangers(k)
          BY <3>3 DEF Doomed
        <4>2. n \in Pending(k)'
          BY <1>4, <2>4, <3>3, <4>1
        <4> QED
          BY <4>1, <4>2 DEF Doomed, FollowedBy
      <3>4. CASE k = l /\ G \notin Strangers(k) /\ Balanced(k, G)
        <4>1. governorDomain'[k] = b.domain /\ governorDomain[k] = m.origin
          BY <1>1, <1>2, <2>2, <2>3, <3>4
        <4> DEFINE P == Pending(k) \ {m}
        <4>2. m \notin P /\ Pending(k) = P \cup {m} /\ Pending(k)' = P
          BY <1>4, <1>12, <3>4 DEF Pending, TransfersInFlight
        <4>3. IsFiniteSet(P)
          BY <1>6, <4>2
        <4> HIDE DEF P
        <4>4. ASSUME NEW x \in Domains
              PROVE  One(governorDomain'[k] = x) + Cardinality(Naming(Pending(k)', x))
                       = One(G = x) + Cardinality(SentFrom(Pending(k)', x))
          <5> DEFINE c == Cardinality(Naming(P, x))
                     e == Cardinality(SentFrom(P, x))
                     c0 == Cardinality(Naming(P \cup {m}, x))
                     e0 == Cardinality(SentFrom(P \cup {m}, x))
          <5>1. One(governorDomain[k] = x) + c0 = One(G = x) + e0
            BY <3>4, <4>2 DEF Balanced
          <5>2. /\ c \in Nat /\ e \in Nat
                /\ c0 = c + One(m.body.domain = x)
                /\ e0 = e + One(m.origin = x)
            BY <4>3, <4>2, OneMoreMessage
          <5> HIDE DEF c, e, c0, e0
          <5>3. One(m.origin = x) + c0 = One(G = x) + e0
            BY <4>1, <5>1
          <5>4. One(m.body.domain = x) + c = One(G = x) + e
            BY <5>2, <5>3 DEF One
          <5> QED
            BY <4>1, <4>2, <5>4 DEF c, e
        <4>5. Balanced(k, G)'
          BY <4>4 DEF Balanced
        <4> QED
          BY <3>4, <4>5 DEF FollowedBy
      <3> QED
        BY <1>7, <3>1, <3>2, <3>3, <3>4 DEF FollowedBy
    <2> QED
      BY <1>3, <1>6, <2>5, <2>6 DEF Succession
  <1> QED
    BY <1>10, <1>11, <1>12

LEMMA InitSuccession == Init => Succession
  <1> SUFFICES ASSUME Init PROVE Succession
    OBVIOUS
  <1>1. /\ \A l \in Domains : governor[l] = NoAccount <=> l # FirstGovernor
        /\ governorDomain = [l \in Domains |-> FirstGovernor] /\ inFlight = {}
        /\ routers = [l \in Domains |-> [d \in Domains |->
                        IF d \in Entries(firstDomains[l]) THEN routerAt[d] ELSE NoRouter]]
    BY DEF Init
  <1>2. RoutersKept
    BY <1>1 DEF RoutersKept
  <1>3. \A l : Pending(l) = {}
    BY <1>1 DEF Pending, TransfersInFlight
  <1>4. Heir(FirstGovernor)
    BY <1>1 DEF Heir, Governing, Appointments
  <1>5. ASSUME NEW l \in Domains \ SetDomains PROVE FollowedBy(FirstGovernor, l)
    <2>1. FirstGovernor \notin Strangers(l)
      BY FirstDomainsAssumption DEF Strangers
    <2>2. \A x : Naming(Pending(l), x) = {} /\ SentFrom(Pending(l), x) = {}
      BY <1>3 DEF Naming, SentFrom
    <2>3. Balanced(l, FirstGovernor)
      BY <1>1, <2>2 DEF Balanced
    <2> QED
      BY <2>1, <2>3 DEF FollowedBy
  <1>6. \A l \in Domains : IsFiniteSet(Pending(l))
    BY <1>3, FS_EmptySet
  <1> QED
    BY <1>2, <1>4, <1>5, <1>6 DEF Succession

LEMMA StepsKeepSuccession ==
  EnrolmentIsMutual /\ IInv /\ Succession /\ [Next]_vars => Succession'
  <1> SUFFICES ASSUME EnrolmentIsMutual, IInv, Succession, [Next]_vars PROVE Succession'
    OBVIOUS
  <1>0. TypeOK /\ RoutersKept /\ MessagesAreNumbered
    BY DEF IInv, Succession
  (* An order goes to chains whose routers the sender knows.               *)
  <1>1. ASSUME NEW l \in Domains, NEW s \in Accounts \cup Managers, Govern(l, s)
        PROVE  Succession'
    <2>1. CASE \E d \in Domains, g \in Accounts : transferGovernor(l, s, d, g)
      BY <2>1, TransferSuccession
    <2>2. ASSUME NEW d \in SetDomains, NEW r \in Routers \cup {NoRouter}, setRouterLocal(l, s, d, r)
          PROVE  Succession'
      <3>1. _setRouter(l, d, r) /\ UNCHANGED <<governorVars, messageVars, spent>>
        BY <2>2 DEF setRouterLocal
      <3>2. RoutersKept'
        BY <1>0, <3>1, SetRouterKeepsOthers
      <3> QED
        BY <3>1, <3>2, SuccessionUntouched DEF messageVars, TransfersInFlight
    <2>3. ASSUME NEW d \in SetDomains, NEW r \in Routers \cup {NoRouter}, setRouterGlobal(l, s, d, r)
          PROVE  Succession'
      <3> DEFINE body == [type |-> "setRouterLocal", domain |-> d, router |-> r]
                 ds == remoteDomains(l)
      <3>1. /\ _setRouter(l, d, r) /\ UNCHANGED <<governorVars, spent>>
            /\ dispatch(l, ds, routers[l], body)
        BY <2>3 DEF setRouterGlobal
      <3>2. /\ ds \in SUBSET Domains /\ l \notin ds /\ \A e \in ds : routers[l][e] # NoRouter
            /\ routers[l] \in [Domains -> Routers \cup {NoRouter}]
        BY DomainsHaveRouters DEF IInv, TypeOK
      <3>3. body \in Calls
        BY DEF Calls
      <3> HIDE DEF body, ds
      <3>4. TransfersInFlight' = TransfersInFlight
        BY <1>0, <3>1, <3>2, <3>3, DispatchKeepsTransfers
      <3>5. RoutersKept'
        BY <1>0, <3>1, SetRouterKeepsOthers
      <3> QED
        BY <3>1, <3>4, <3>5, SuccessionUntouched
    <2>4. ASSUME NEW c \in Calls, NEW b \in Calls, NEW ds \in SUBSET Domains,
                 executeGovernanceActions(l, s, c, ds, b)
          PROVE  Succession'
      <3>1. /\ _callLocal(l, c) /\ UNCHANGED <<governorVars, spent>>
            /\ \A d \in ds : routers'[l][d] # NoRouter
            /\ dispatch(l, ds, routers'[l], b)
        BY <2>4 DEF executeGovernanceActions
      <3>2. l \notin ds /\ routers'[l] \in [Domains -> Routers \cup {NoRouter}]
        BY <3>1, CallLocalKeeps DEF RouterInv, NotOwnRouter
      <3>3. TransfersInFlight' = TransfersInFlight
        BY <1>0, <3>1, <3>2, DispatchKeepsTransfers
      <3>4. RoutersKept'
        BY <1>0, <3>1, CallLocalKeepsOthers
      <3> QED
        BY <3>1, <3>3, <3>4, SuccessionUntouched
    <2> QED
      BY <1>1, <2>1, <2>2, <2>3, <2>4 DEF Govern
  <1>2. CASE \E l \in Domains, s \in Managers : Recover(l, s)
    <2>1. UNCHANGED <<governorVars, routerVars, messageVars, spent>>
      BY <1>2 DEF Recover, transferRecoveryManager, initiateRecoveryTimelock, TimelockExpires,
                  exitRecovery
    <2> QED
      BY <1>0, <2>1, SuccessionUntouched DEF routerVars, messageVars, TransfersInFlight, RoutersKept
  <1>3. CASE \E m \in inFlight : handle(m)
    BY <1>3, HandleSuccession
  <1>4. ASSUME NEW l \in Domains, NEW c \in Calls, executeCallBatch(l, c)
        PROVE  Succession'
    <2>1. _callLocal(l, c) /\ UNCHANGED <<governorVars, messageVars, spent>>
      BY <1>4 DEF executeCallBatch
    <2>2. RoutersKept'
      BY <1>0, <2>1, CallLocalKeepsOthers
    <2> QED
      BY <2>1, <2>2, SuccessionUntouched DEF messageVars, TransfersInFlight
  <1>5. CASE UNCHANGED vars
    BY <1>0, <1>5, SuccessionUntouched
       DEF vars, routerVars, messageVars, TransfersInFlight, RoutersKept
  <1> QED
    BY <1>1, <1>2, <1>3, <1>4, <1>5 DEF Next

(* Chains that nobody un-enrols, that refused no message of a governor and *)
(* have none left to handle, all take the same chain for the governor's,   *)
(* in whatever order the messages came: where enrolment is mutual, as the  *)
(* deployment makes it, whether in a mesh or around a hub.                 *)
THEOREM GovernanceUpToDateChainsAgree ==
  ASSUME EnrolmentIsMutual
  PROVE  Spec => []UpToDateChainsAgree
  <1>1. Init => IInv /\ Succession
    BY InitIsGoverned, InitSuccession
  <1>2. IInv /\ Succession /\ [Next]_vars => (IInv /\ Succession)'
    BY StepsKeepGovernment, StepsKeepSuccession
  <1>3. IInv /\ Succession => UpToDateChainsAgree
    <2> SUFFICES ASSUME IInv, Succession PROVE UpToDateChainsAgree
      OBVIOUS
    <2>1. PICK G \in Domains : \A l \in Domains \ SetDomains : FollowedBy(G, l)
      BY DEF Succession
    <2>2. ASSUME NEW l \in Domains \ SetDomains, UpToDate(l) PROVE governorDomain[l] = G
      <3>1. ~spent[l] /\ Pending(l) = {}
        BY <2>2 DEF UpToDate, Pending, TransfersInFlight
      <3>2. Balanced(l, G)
        BY <2>1, <3>1 DEF FollowedBy, Doomed
      <3>3. Cardinality(Naming(Pending(l), G)) = 0 /\ Cardinality(SentFrom(Pending(l), G)) = 0
        BY <3>1, FS_EmptySet DEF Naming, SentFrom
      <3>4. One(governorDomain[l] = G) + 0 = One(G = G) + 0
        BY <3>2, <3>3 DEF Balanced
      <3> QED
        BY <3>4 DEF One
    <2> QED
      BY <2>2 DEF UpToDateChainsAgree
  <1> QED
    BY <1>1, <1>2, <1>3, PTL DEF Spec

(***************************************************************************)
(* The two mappings of XAppConnectionManager.  That a domain points to a   *)
(* Replica enrolled for it needs nothing of the owner; that an enrolled    *)
(* Replica is the one its domain points to needs a careful owner.          *)
(***************************************************************************)

DomainsPointBack ==
  \A d \in RemoteDomains :
    domainToReplica[d] # NoReplica => replicaToDomain[domainToReplica[d]] = d

ReplicasPointBack ==
  \A r \in Replicas : isReplica(r) => domainToReplica[replicaToDomain[r]] = r

XAppInv ==
  /\ MappingsTypeOK
  /\ DomainsPointBack
  /\ CarefulOwner => ReplicasPointBack

(* The initial states. *)
LEMMA InitXAppInv == XAppInit => XAppInv
BY RemoteDomainsAssumption
   DEF XAppInit, XAppInv, MappingsTypeOK, DomainsPointBack, ReplicasPointBack, isReplica, NotEnrolled

(* The types of the mappings after a removal. *)
LEMMA WithoutTypes ==
  ASSUME MappingsTypeOK, NEW r \in Replicas
  PROVE  /\ domainsWithout(r) \in [{NotEnrolled} \cup RemoteDomains -> Replicas \cup {NoReplica}]
         /\ replicasWithout(r) \in [Replicas -> {NotEnrolled} \cup RemoteDomains]
BY DEF MappingsTypeOK, domainsWithout, replicasWithout

(* Removing a Replica keeps the mappings inverse, as far as they were.     *)
LEMMA UnenrollXAppInv ==
  ASSUME XAppInv, NEW r \in Replicas, _unenrollReplica(r),
         UNCHANGED <<watcherPermissions, updaterVars, notifications>>
  PROVE  XAppInv'
<1>1. MappingsTypeOK'
  BY WithoutTypes DEF XAppInv, MappingsTypeOK, _unenrollReplica, updaterVars
<1>2. DomainsPointBack'
  BY RemoteDomainsAssumption DEF XAppInv, MappingsTypeOK, DomainsPointBack, _unenrollReplica,
     domainsWithout, replicasWithout
<1>3. ASSUME CarefulOwner PROVE ReplicasPointBack'
  BY <1>3, RemoteDomainsAssumption DEF XAppInv, MappingsTypeOK, ReplicasPointBack, isReplica, NotEnrolled,
     _unenrollReplica, domainsWithout, replicasWithout
<1> QED
  BY <1>1, <1>2, <1>3 DEF XAppInv

(* So does an enrolment; the domain is free or the Replica's own if the    *)
(* owner is careful.                                                       *)
LEMMA EnrollXAppInv ==
  ASSUME XAppInv, NEW r \in Replicas, NEW d \in RemoteDomains, ownerEnrollReplica(r, d)
  PROVE  XAppInv'
<1>1. MappingsTypeOK'
  BY WithoutTypes DEF XAppInv, MappingsTypeOK, ownerEnrollReplica, updaterVars
<1>2. DomainsPointBack'
  BY RemoteDomainsAssumption DEF XAppInv, MappingsTypeOK, DomainsPointBack, ownerEnrollReplica,
     domainsWithout, replicasWithout
<1>3. ASSUME CarefulOwner PROVE ReplicasPointBack'
  <2>1. domainToReplica[d] \in {NoReplica, r}
    BY <1>3 DEF ownerEnrollReplica, isCareful
  <2> QED
    BY <1>3, <2>1, RemoteDomainsAssumption DEF XAppInv, MappingsTypeOK, ReplicasPointBack, isReplica,
       NotEnrolled, ownerEnrollReplica, domainsWithout, replicasWithout
<1> QED
  BY <1>1, <1>2, <1>3 DEF XAppInv

(* A step that leaves the mappings alone. *)
LEMMA MapsUnchanged ==
  ASSUME XAppInv, MappingsTypeOK', UNCHANGED mapVars
  PROVE  XAppInv'
BY DEF XAppInv, mapVars, DomainsPointBack, ReplicasPointBack, isReplica

(* The invariant is preserved by every transaction. *)
LEMMA NextXAppInv == XAppInv /\ [XAppNext]_xAppVars => XAppInv'
<1> SUFFICES ASSUME XAppInv, [XAppNext]_xAppVars PROVE XAppInv'
  OBVIOUS
<1>1. CASE Owner
  <2>1. ASSUME NEW r \in Replicas, NEW d \in RemoteDomains, ownerEnrollReplica(r, d)
        PROVE  XAppInv'
    BY <2>1, EnrollXAppInv
  <2>2. ASSUME NEW r \in Replicas, ownerUnenrollReplica(r) PROVE XAppInv'
    BY <2>2, UnenrollXAppInv DEF ownerUnenrollReplica
  <2>3. ASSUME NEW w \in Watchers, NEW d \in RemoteDomains, NEW a \in BOOLEAN,
               setWatcherPermission(w, d, a)
        PROVE  XAppInv'
    <3>1. MappingsTypeOK'
      BY <2>3 DEF XAppInv, MappingsTypeOK, setWatcherPermission, mapVars, updaterVars
    <3> QED
      BY <2>3, <3>1, MapsUnchanged DEF setWatcherPermission
  <2> QED
    BY <1>1, <2>1, <2>2, <2>3 DEF Owner
<1>2. CASE Notify
  <2>1. MappingsTypeOK'
    BY <1>2 DEF Notify, create_signed_failure, XAppInv, MappingsTypeOK, Notifications, mapVars,
                updaterVars
  <2> QED
    BY <1>2, <2>1, MapsUnchanged DEF Notify, create_signed_failure
<1>3. CASE Unenroll
  <2> PICK n \in notifications : unenrollReplica(n)
    BY <1>3 DEF Unenroll
  <2>1. n.home_domain \in RemoteDomains
    BY DEF XAppInv, MappingsTypeOK, Notifications
  <2>2. domainToReplica[n.home_domain] \in Replicas
    BY <2>1 DEF XAppInv, MappingsTypeOK, unenrollReplica
  <2> QED
    BY <2>2, UnenrollXAppInv DEF unenrollReplica
<1>4. CASE Rotate
  <2>1. MappingsTypeOK'
    BY <1>4 DEF Rotate, RotateOnHome, RotateOnReplica, XAppInv, MappingsTypeOK, mapVars
  <2> QED
    BY <1>4, <2>1, MapsUnchanged DEF Rotate, RotateOnHome, RotateOnReplica
<1>5. CASE UNCHANGED xAppVars
  <2>1. MappingsTypeOK'
    BY <1>5 DEF XAppInv, MappingsTypeOK, xAppVars, mapVars, updaterVars
  <2> QED
    BY <1>5, <2>1, MapsUnchanged DEF xAppVars
<1> QED
  BY <1>1, <1>2, <1>3, <1>4, <1>5 DEF XAppNext

(* The invariant of the specification. *)
LEMMA SpecXAppInv == XAppSpec => []XAppInv
BY InitXAppInv, NextXAppInv, PTL DEF XAppSpec

(* Every mapping of XAppConnectionManager holds values of its type.        *)
THEOREM XAppTypeOK == XAppSpec => []MappingsTypeOK
<1>1. XAppInv => MappingsTypeOK
  BY DEF XAppInv
<1> QED
  BY <1>1, SpecXAppInv, PTL

(* If the owner empties a domain before enrolling another Replica for it,  *)
(* replicaToDomain and domainToReplica stay inverse to each other: no      *)
(* Replica may call applications beyond a watcher's reach.                 *)
THEOREM XAppTwoWayMapping == XAppSpec => [](CarefulOwner => TwoWayMapping)
<1>1. XAppInv => (CarefulOwner => TwoWayMapping)
  BY DEF XAppInv, TwoWayMapping, DomainsPointBack, ReplicasPointBack
<1> QED
  BY <1>1, SpecXAppInv, PTL
=============================================================================
