------------------------------- MODULE Replica -------------------------------
(***************************************************************************)
(* Replica.sol with its NomadBase.sol half: signed roots, their optimistic *)
(* timers, and the proving and processing of messages.  One action is one  *)
(* transaction, except that process makes an external call: it is split    *)
(* where control is handed to the recipient, so that whatever the          *)
(* recipient calls back happens between its two halves.                    *)
(***************************************************************************)
EXTENDS Message

CONSTANTS
  Updaters,            \* addresses that may hold the updater role
  Roots,               \* roots that may be named
  localDomain,         \* the chain this Replica is deployed on
  OptimisticTimeouts,  \* values of optimisticSeconds
  TimeModulus,         \* 2^256 in the code: timers are uint256
  MaxTime              \* bound on the clock

ASSUME RootsAssumption == Roots \subseteq Root
ASSUME localDomainAssumption == localDomain \in Domains
ASSUME TimeAssumption ==
  /\ MaxTime \in Nat \ {0}
  /\ TimeModulus \in Nat
  /\ MaxTime < TimeModulus
  /\ OptimisticTimeouts \subseteq 0 .. TimeModulus - 1

VARIABLES
  state,              \* NomadBase.state
  updater,            \* NomadBase.updater
  committedRoot,      \* NomadBase.committedRoot
  optimisticSeconds,
  confirmAt,          \* per root, when it is acceptable; 0: never
  messages,           \* MessageStatus per leaf
  entered,            \* re-entrancy guard
  calls,              \* the handle calls under way, the innermost last
  handled,            \* how many times each message's handle ran to its end
  now                 \* block.timestamp

baseVars == <<state, updater>>
rootVars == <<committedRoot, confirmAt>>
processVars == <<messages, entered, calls, handled>>
vars == <<baseVars, rootVars, optimisticSeconds, processVars, now>>

wrap(t) == t % TimeModulus

(* Replica.initialize: the deployment takes the root the Home has          *)
(* committed, which needs no proof of its own.                             *)
Init ==
  /\ state = "Active"
  /\ updater \in Updaters
  /\ committedRoot \in Roots
  /\ optimisticSeconds \in OptimisticTimeouts
  /\ confirmAt = [r \in Roots |-> IF r = committedRoot THEN 1 ELSE 0]
  /\ messages = [l \in Leaf |-> "None"]
  /\ entered = 1
  /\ calls = << >>
  /\ handled = [l \in Leaf |-> 0]
  /\ now = 1

(***************************************************************************)
(* Updates                                                                 *)
(***************************************************************************)

notFailed == state # "Failed"

(* Mutated: an update of any root will do. *)
isAnyUpdate(oldRoot) == TRUE

isCurrentUpdate(oldRoot) == oldRoot = committedRoot

(* Replica.update *)
update(oldRoot, newRoot, signer) ==
  /\ notFailed
  /\ isCurrentUpdate(oldRoot)
  /\ signer = updater
  /\ confirmAt' = [confirmAt EXCEPT ![newRoot] = wrap(now + optimisticSeconds)]
  /\ committedRoot' = newRoot
  /\ UNCHANGED <<baseVars, optimisticSeconds, processVars, now>>

(* NomadBase.doubleUpdate *)
doubleUpdate(oldRoot, newRoot, newRoot2, signer) ==
  /\ notFailed
  /\ signer = updater
  /\ newRoot # newRoot2
  /\ state' = "Failed"
  /\ UNCHANGED <<updater, rootVars, optimisticSeconds, processVars, now>>

(***************************************************************************)
(* Messages                                                                *)
(***************************************************************************)

(* Mutated: the timer is started and not looked at. *)
submittedRoot(root) == confirmAt[root] # 0

acceptableRoot(root) == confirmAt[root] # 0 /\ now >= confirmAt[root]

(* Mutated: it asks that the message be unproven, not that it be new. *)
canProveUnlessProven(leaf, index, root) ==
  /\ messages[leaf] # "Proven"
  /\ IsBranch(leaf, index, root)
  /\ acceptableRoot(root)

(* Replica.prove, when it returns true; otherwise it changes nothing. *)
canProve(leaf, index, root) ==
  /\ messages[leaf] = "None"
  /\ IsBranch(leaf, index, root)
  /\ acceptableRoot(root)

prove(leaf, index, root) ==
  /\ canProve(leaf, index, root)
  /\ messages' = [messages EXCEPT ![leaf] = "Proven"]
  /\ UNCHANGED <<baseVars, rootVars, optimisticSeconds, entered, calls, handled, now>>

(* Mutated: the guard is not looked at. *)
unguarded == TRUE

guardIsUp == entered = 1

(* The calls that process a message whose status passes `statusOK`.  If    *)
(* handle reverts, so does all it called, and the message is processed     *)
(* nonetheless; if not, control is with the recipient until return.        *)
callHandle(leaf) ==
  /\ leaf.destination = localDomain
  /\ guardIsUp
  /\ messages' = [messages EXCEPT ![leaf] = "Processed"]
  /\ \/ UNCHANGED <<entered, calls>>
     \/ entered' = 0 /\ calls' = Append(calls, leaf)
  /\ UNCHANGED <<baseVars, rootVars, optimisticSeconds, handled, now>>

(* Mutated: a processed message was proven, too. *)
processOnceProven(leaf) == messages[leaf] # "None" /\ callHandle(leaf)

process(leaf) == messages[leaf] = "Proven" /\ callHandle(leaf)

proveAndProcess(leaf, index, root) ==
  canProve(leaf, index, root) /\ callHandle(leaf)

(* handle returns and process resets the guard. *)
handleReturns ==
  /\ calls # << >>
  /\ entered' = 1
  /\ calls' = SubSeq(calls, 1, Len(calls) - 1)
  /\ handled' = [handled EXCEPT ![calls[Len(calls)]] = @ + 1]
  /\ UNCHANGED <<baseVars, rootVars, optimisticSeconds, messages, now>>

(***************************************************************************)
(* Owner and clock                                                         *)
(***************************************************************************)

setOptimisticTimeout(seconds) ==
  /\ optimisticSeconds' = seconds
  /\ UNCHANGED <<baseVars, rootVars, processVars, now>>

setUpdater(u) ==
  /\ updater' = u
  /\ UNCHANGED <<state, rootVars, optimisticSeconds, processVars, now>>

setConfirmation(root, time) ==
  /\ confirmAt' = [confirmAt EXCEPT ![root] = time]
  /\ UNCHANGED <<baseVars, committedRoot, optimisticSeconds, processVars, now>>

(* Time passes between transactions, never within one. *)
Tick ==
  /\ calls = << >>
  /\ now < MaxTime
  /\ now' = now + 1
  /\ UNCHANGED <<baseVars, rootVars, optimisticSeconds, processVars>>

(***************************************************************************)
(* The transactions                                                        *)
(***************************************************************************)

Update == \E old, new \in Roots, s \in Updaters : update(old, new, s)

ReportDoubleUpdate ==
  \E old, new, new2 \in Roots, s \in Updaters : doubleUpdate(old, new, new2, s)

Prove == \E root \in Roots : \E i \in DOMAIN root : prove(root[i], i - 1, root)

ProveAndProcess ==
  \E root \in Roots : \E i \in DOMAIN root : proveAndProcess(root[i], i - 1, root)

Process == \E leaf \in Leaf : process(leaf)

Govern ==
  \/ \E s \in OptimisticTimeouts : setOptimisticTimeout(s)
  \/ \E u \in Updaters : setUpdater(u)
  \/ \E r \in Roots, t \in 0 .. MaxTime : setConfirmation(r, t)

Next ==
  \/ Update \/ ReportDoubleUpdate
  \/ Prove \/ ProveAndProcess \/ Process \/ handleReturns
  \/ Govern \/ Tick

Spec == Init /\ [][Next]_vars

(***************************************************************************)
(* Properties                                                              *)
(***************************************************************************)

(* Every variable holds a value of its Solidity type. *)
TypeOK ==
  /\ state \in {"Active", "Failed"}
  /\ updater \in Updaters
  /\ committedRoot \in Roots
  /\ optimisticSeconds \in OptimisticTimeouts
  /\ confirmAt \in [Roots -> 0 .. TimeModulus - 1]
  /\ messages \in [Leaf -> {"None", "Proven", "Processed"}]
  /\ entered \in {0, 1}
  /\ calls \in Seq(Leaf)
  /\ handled \in [Leaf -> Nat]
  /\ now \in 1 .. MaxTime

CallsTo(leaf) == {i \in DOMAIN calls : calls[i] = leaf}

(* A message reaches its recipient at most once, whatever is proven again  *)
(* or called back from handle, and only if it was for this domain.         *)
HandledOnce ==
  \A l \in Leaf :
    /\ handled[l] + (IF CallsTo(l) = {} THEN 0 ELSE 1) <= 1
    /\ handled[l] = 1 \/ CallsTo(l) # {} =>
         messages[l] = "Processed" /\ l.destination = localDomain

(* The guard is down exactly while one recipient has control: handle never *)
(* runs within another handle of the same Replica, and when all calls have *)
(* returned the guard is up again.                                         *)
OneHandleAtATime ==
  /\ Len(calls) <= 1
  /\ entered = 1 <=> calls = << >>

(* A message never goes back to a status it has left, so nothing proves a  *)
(* message that has been processed.                                        *)
Rank == [None |-> 0, Proven |-> 1, Processed |-> 2]

StatusOnlyAdvances ==
  [][\A l \in Leaf : Rank[messages'[l]] >= Rank[messages[l]]]_vars
=============================================================================
