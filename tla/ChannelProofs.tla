---------------------------- MODULE ChannelProofs ----------------------------
(***************************************************************************)
(* Optimistic security, for any messages, any roots, any signatures, any   *)
(* window longer than the watcher's delay and any number of restarts: what *)
(* was not dispatched is not handled, so the whole system is a channel;    *)
(* and what an honest updater signs is never taken for fraud.  The proofs  *)
(* rest on those about Home and Replica.                                   *)
(***************************************************************************)
EXTENDS OptimisticChannel, TLAPS

HP == INSTANCE HomeProofs WITH
  ForgedRoots <- Roots, state <- homeState, committedRoot <- homeCommitted

RP == INSTANCE ReplicaProofs WITH
  OptimisticTimeouts <- {OptimisticSeconds},
  state <- replicaState, committedRoot <- replicaCommitted

(* The assumptions of the contracts hold of the instances. *)
LEMMA ContractAssumptions ==
  /\ HP!NonceModulusAssumption /\ HP!MaxLeavesAssumption /\ HP!ForgedRootsAssumption
  /\ RP!NonceModulusAssumption /\ RP!RootsAssumption /\ RP!localDomainAssumption
  /\ RP!TimeAssumption
<1>1. HP!NonceModulusAssumption /\ HP!MaxLeavesAssumption /\ HP!ForgedRootsAssumption
  BY NonceModulusAssumption, ChannelAssumption
     DEF HP!NonceModulusAssumption, HP!MaxLeavesAssumption, HP!ForgedRootsAssumption,
         HP!Root, HP!Leaf, Root, Leaf
<1>2. RP!NonceModulusAssumption /\ RP!RootsAssumption /\ RP!localDomainAssumption
  BY NonceModulusAssumption, ChannelAssumption
     DEF RP!NonceModulusAssumption, RP!RootsAssumption, RP!localDomainAssumption,
         RP!Root, RP!Leaf, Root, Leaf
<1>3. RP!TimeAssumption
  BY ChannelAssumption, WatcherAssumption DEF RP!TimeAssumption
<1>. QED  BY <1>1, <1>2, <1>3

(***************************************************************************)
(* The invariant                                                           *)
(***************************************************************************)

Timers ==
  /\ confirmAt \in [Roots -> Nat]
  /\ now \in Nat /\ now <= MaxTime
  /\ optimisticSeconds = OptimisticSeconds
  /\ enrolled \in BOOLEAN

(* As long as the Replica is enrolled, no forged root is acceptable: that  *)
(* is what the watcher is in time for.                                     *)
ForgedNotAcceptable ==
  enrolled => \A r \in Roots : Genuine(r) \/ confirmAt[r] = 0 \/ now < confirmAt[r]

(* What has been proven until then was dispatched. *)
ProvenWereSent ==
  enrolled => \A l \in Leaf : messages[l] = "Proven" => InTree(l)

SafetyInv == Timers /\ ForgedNotAcceptable /\ ProvenWereSent /\ ForgedNeverHandled

IInv == HP!IndInv /\ RP!ProcessInv /\ SafetyInv

(***************************************************************************)
(* Home                                                                    *)
(***************************************************************************)

(* The tree stays, or gets a message it did not have.                      *)
gets(leaf) == leaf \in Leaf /\ ~InTree(leaf) /\ tree' = Append(tree, leaf)

treeGrows == UNCHANGED tree \/ \E leaf : gets(leaf)

(* What leaves Home alone keeps its invariant. *)
LEMMA HomeStands ==
  HP!IndInv /\ UNCHANGED homeVars => HP!IndInv'
<1>1. UNCHANGED homeVars => UNCHANGED HP!vars
  BY DEF homeVars, HP!vars, HP!rootVars, HP!managerVars
<1>. QED  BY <1>1, ContractAssumptions, HP!NextIndInv

(* Until the tree is full the next nonce is ahead of those in the tree. *)
LEMMA DispatchKeepsHome ==
  ASSUME HP!IndInv, H!Dispatch
  PROVE  HP!IndInv' /\ (\E leaf : gets(leaf)) /\ UNCHANGED <<homeState, homeCommitted, updater>>
<1>1. PICK d \in Domains, b \in Bodies : H!dispatch(d, b)
  BY DEF H!Dispatch
<1>2. HP!dispatch(d, b)
  BY <1>1 DEF HP!dispatch, H!dispatch, HP!notFailed, H!notFailed, HP!canInsert, H!canInsert,
              HP!formatMessage, H!formatMessage, HP!nextNonce, H!nextNonce,
              HP!enqueue, H!enqueue, HP!managerVars, H!managerVars
<1>3. HP!IndInv'
  BY <1>2, ContractAssumptions, HP!DispatchIndInv
<1> DEFINE leaf == [destination |-> d, nonce |-> nonces[d], body |-> b]
<1>4. tree' = Append(tree, leaf) /\ Len(tree) < MaxLeaves
      /\ UNCHANGED <<homeState, homeCommitted, updater>>
  BY <1>1 DEF H!dispatch, H!canInsert, H!formatMessage
<1>5. /\ nonces \in [Domains -> 0 .. NonceModulus - 1]
      /\ tree \in Seq(Leaf)
  BY DEF HP!IndInv, HP!TypeOK, HP!Leaf, Leaf
<1>6. Len(tree) < NonceModulus
  BY <1>4, <1>5, ChannelAssumption, NonceModulusAssumption
<1>7. \A i \in DOMAIN tree : tree[i].nonce < nonces[tree[i].destination]
  BY <1>6 DEF HP!IndInv, HP!NoncesAhead
<1>8. leaf \in Leaf
  BY <1>5 DEF Leaf
<1>9. ~InTree(leaf)
  <2> SUFFICES ASSUME NEW i \in DOMAIN tree, tree[i] = leaf PROVE FALSE
    BY DEF InTree
  <2>1. nonces[d] < nonces[d] /\ nonces[d] \in Nat
    BY <1>5, <1>7, NonceModulusAssumption
  <2>. QED  BY <2>1
<1>. QED  BY <1>3, <1>4, <1>8, <1>9 DEF gets

(* update keeps the queue the list of pending roots. *)
LEMMA UpdateKeepsHome ==
  ASSUME HP!IndInv, NEW old, NEW new, H!update(old, new, updater)
  PROVE  HP!IndInv' /\ UNCHANGED <<tree, updater>>
<1>1. HP!commit(old, new, updater) \/ HP!fail
  BY DEF HP!commit, H!commit, HP!notFailed, H!notFailed,
         HP!isCurrentUpdate, H!isCurrentUpdate, HP!contains, H!contains,
         HP!dequeueUntil, H!dequeueUntil, HP!FirstIndexOf, H!FirstIndexOf,
         HP!Zero, H!Zero, HP!managerVars, H!managerVars,
         H!update, H!improperUpdate, HP!fail, H!fail, HP!rootVars, H!rootVars
<1>2. HP!IndInv'
  BY <1>1, ContractAssumptions, HP!CommitIndInv, HP!FailIndInv
<1>3. UNCHANGED <<tree, updater>>
  BY <1>1 DEF HP!commit, HP!fail, HP!rootVars
<1>. QED  BY <1>2, <1>3

(* A reported double update may only fail Home. *)
LEMMA ReportKeepsHome ==
  ASSUME HP!IndInv, NEW old, NEW new, NEW new2, H!doubleUpdate(old, new, new2, updater)
  PROVE  HP!IndInv' /\ UNCHANGED <<tree, updater>>
<1>1. HP!fail
  BY DEF H!doubleUpdate, HP!fail, H!fail, HP!rootVars, H!rootVars, HP!managerVars, H!managerVars
<1>2. HP!IndInv'
  BY <1>1, ContractAssumptions, HP!FailIndInv
<1>3. UNCHANGED <<tree, updater>>
  BY <1>1 DEF HP!fail, HP!rootVars
<1>. QED  BY <1>2, <1>3

(* What the tree has, it keeps. *)
LEMMA SentStaysSent ==
  ASSUME HP!IndInv, treeGrows
  PROVE  /\ \A l : InTree(l) => InTree(l)'
         /\ \A r : Genuine(r) => Genuine(r)'
<1>1. tree \in Seq(Leaf)
  BY DEF HP!IndInv, HP!TypeOK, HP!Leaf, Leaf
<1>2. CASE UNCHANGED tree
  BY <1>2 DEF InTree, Genuine
<1>3. CASE \E leaf : gets(leaf)
  <2>1. PICK leaf \in Leaf : tree' = Append(tree, leaf)
    BY <1>3 DEF gets
  <2>2. \A n \in 0 .. Len(tree) : RootAt(tree', n) = RootAt(tree, n)
    BY <1>1, <2>1 DEF RootAt
  <2>3. Len(tree') = Len(tree) + 1 /\ Len(tree) \in Nat
    BY <1>1, <2>1
  <2>4. RootsOf(tree) \subseteq RootsOf(tree)'
    BY <2>2, <2>3 DEF RootsOf
  <2>5. \A l : InTree(l) => InTree(l)'
    BY <1>1, <2>1 DEF InTree
  <2>. QED  BY <2>4, <2>5 DEF Genuine, RootsOf
<1>. QED  BY <1>2, <1>3 DEF treeGrows
(***************************************************************************)
(* Replica                                                                 *)
(***************************************************************************)

(* What leaves the Replica alone keeps its invariant. *)
LEMMA ReplicaStands ==
  RP!ProcessInv /\ UNCHANGED <<messages, entered, calls, handled>> => RP!ProcessInv'
BY ContractAssumptions, RP!ProcessVarsUnchanged DEF RP!processVars

(* A root with leaves that is acceptable while the Replica is enrolled is  *)
(* one of Home's, so its leaves were dispatched.                           *)
LEMMA AcceptableWereSent ==
  ASSUME IInv, enrolled, NEW r \in Roots, R!acceptableRoot(r), NEW i \in DOMAIN r
  PROVE  InTree(r[i])
<1>1. confirmAt[r] # 0 /\ now >= confirmAt[r] /\ confirmAt[r] \in Nat /\ now \in Nat
  BY DEF R!acceptableRoot, IInv, SafetyInv, Timers
<1>2. Genuine(r)
  BY <1>1 DEF IInv, SafetyInv, ForgedNotAcceptable
<1>3. r # Zero
  BY DEF Zero
<1>4. PICK n \in 1 .. Len(tree) : r = RootAt(tree, n)
  BY <1>2, <1>3 DEF Genuine, RootsOf
<1>5. tree \in Seq(Leaf)
  BY DEF IInv, HP!IndInv, HP!TypeOK, HP!Leaf, Leaf
<1>6. i \in DOMAIN tree /\ tree[i] = r[i]
  BY <1>4, <1>5 DEF RootAt
<1>. QED  BY <1>6 DEF InTree

(* The leaves of Roots are messages. *)
LEMMA LeafOfRoot ==
  ASSUME NEW r \in Roots, NEW i \in DOMAIN r
  PROVE  r[i] \in Leaf
BY ChannelAssumption DEF Root

(* A message is proven, here or within proveAndProcess. *)
LEMMA ProveKeeps ==
  ASSUME IInv, R!Prove
  PROVE  RP!ProcessInv' /\ \A l \in Leaf : enrolled /\ messages'[l] = "Proven" => InTree(l)
<1>1. PICK r \in Roots : \E i \in DOMAIN r : R!prove(r[i], i - 1, r)
  BY DEF R!Prove
<1>2. PICK i \in DOMAIN r : R!prove(r[i], i - 1, r)
  BY <1>1
<1>3. r[i] \in Leaf /\ r[i] \in RP!Leaf
  BY LeafOfRoot DEF RP!Leaf, Leaf
<1>4. RP!prove(r[i], i - 1, r)
  BY <1>2 DEF RP!prove, R!prove, RP!canProve, R!canProve, RP!IsBranch, R!IsBranch,
              RP!acceptableRoot, R!acceptableRoot, RP!baseVars, R!baseVars,
              RP!rootVars, R!rootVars
<1>5. RP!ProcessInv'
  BY <1>3, <1>4, ContractAssumptions, RP!ProveProcessInv DEF IInv
<1>6. /\ R!acceptableRoot(r)
      /\ messages' = [messages EXCEPT ![r[i]] = "Proven"]
  BY <1>2 DEF R!prove, R!canProve
<1>7. enrolled => InTree(r[i])
  BY <1>6, AcceptableWereSent
<1>8. messages \in [Leaf -> {"None", "Proven", "Processed"}]
  BY DEF IInv, RP!ProcessInv, RP!ProcessTypes, RP!Leaf, Leaf
<1>9. enrolled => \A l \in Leaf : messages[l] = "Proven" => InTree(l)
  BY DEF IInv, SafetyInv, ProvenWereSent
<1>. QED  BY <1>3, <1>5, <1>6, <1>7, <1>8, <1>9

(* handle is called for a message that was dispatched. *)
LEMMA CallKeeps ==
  ASSUME IInv, R!ProveAndProcess \/ R!Process, OnlyReplica
  PROVE  /\ RP!ProcessInv'
         /\ UNCHANGED handled
         /\ \A l \in Leaf : messages'[l] = "Proven" => messages[l] = "Proven"
         /\ UNCHANGED calls \/ \E l \in Leaf : InTree(l) /\ calls' = Append(calls, l)
<1>1. PICK l \in Leaf : /\ R!callHandle(l)
                        /\ messages[l] # "Processed"
                        /\ enrolled => InTree(l)
  <2>1. CASE R!Process
    <3>1. PICK l \in R!Leaf : R!process(l)
      BY <2>1 DEF R!Process
    <3>2. l \in Leaf
      BY DEF R!Leaf, Leaf
    <3>. QED  BY <3>1, <3>2 DEF R!process, IInv, SafetyInv, ProvenWereSent
  <2>2. CASE R!ProveAndProcess
    <3>1. PICK r \in Roots : \E i \in DOMAIN r : R!proveAndProcess(r[i], i - 1, r)
      BY <2>2 DEF R!ProveAndProcess
    <3>2. PICK i \in DOMAIN r : R!proveAndProcess(r[i], i - 1, r)
      BY <3>1
    <3>3. R!acceptableRoot(r) /\ messages[r[i]] = "None" /\ R!callHandle(r[i])
      BY <3>2 DEF R!proveAndProcess, R!canProve
    <3>. QED  BY <3>3, LeafOfRoot, AcceptableWereSent
  <2>. QED  BY <2>1, <2>2
<1>2. l \in RP!Leaf /\ RP!callHandle(l)
  BY <1>1 DEF RP!Leaf, Leaf, RP!callHandle, R!callHandle, RP!guardIsUp, R!guardIsUp,
              RP!baseVars, R!baseVars, RP!rootVars, R!rootVars
<1>3. RP!ProcessInv'
  BY <1>1, <1>2, ContractAssumptions, RP!CallProcessInv DEF IInv
<1>4. messages' = [messages EXCEPT ![l] = "Processed"] /\ UNCHANGED handled
  BY <1>1 DEF R!callHandle
<1>5. messages \in [Leaf -> {"None", "Proven", "Processed"}]
  BY DEF IInv, RP!ProcessInv, RP!ProcessTypes, RP!Leaf, Leaf
<1>6. \A k \in Leaf : messages'[k] = "Proven" => messages[k] = "Proven"
  BY <1>4, <1>5
<1>7. UNCHANGED calls \/ (calls' = Append(calls, l) /\ InTree(l))
  BY <1>1 DEF R!callHandle, OnlyReplica
<1>. QED  BY <1>3, <1>4, <1>6, <1>7

(* The message that returns had not been handled before. *)
LEMMA ReturnKeeps ==
  ASSUME IInv, R!handleReturns
  PROVE  /\ RP!ProcessInv'
         /\ calls' = << >> /\ UNCHANGED messages
         /\ \E l \in Leaf : /\ InTree(l) /\ handled[l] = 0
                            /\ handled' = [handled EXCEPT ![l] = 1]
<1>1. RP!handleReturns
  BY DEF R!handleReturns, RP!handleReturns, R!baseVars, RP!baseVars, R!rootVars, RP!rootVars
<1>2. RP!ProcessInv'
  BY <1>1, ContractAssumptions, RP!ReturnProcessInv DEF IInv
<1>3. /\ calls \in Seq(Leaf) /\ calls # << >> /\ Len(calls) <= 1
      /\ handled \in [Leaf -> Nat]
  BY DEF IInv, RP!ProcessInv, RP!ProcessTypes, RP!OneHandleAtATime, R!handleReturns, RP!Leaf, Leaf
<1>4. Len(calls) = 1 /\ calls[1] \in Leaf
  BY <1>3, RP!OnlyElement, ContractAssumptions
<1>5. DOMAIN calls = {1}
  BY <1>3, <1>4
<1>6. 1 \in R!CallsTo(calls[1]) /\ 1 \in RP!CallsTo(calls[1])
  BY <1>5 DEF R!CallsTo, RP!CallsTo
<1>7. InTree(calls[1])
  BY <1>4, <1>6 DEF IInv, SafetyInv, ForgedNeverHandled
<1>8. handled[calls[1]] = 0
  <2>1. handled[calls[1]] + 1 <= 1
    BY <1>4, <1>6 DEF IInv, RP!ProcessInv, RP!HandledOnce, RP!Leaf, Leaf
  <2>2. handled[calls[1]] \in Nat
    BY <1>3, <1>4
  <2>. QED  BY <2>1, <2>2
<1>9. /\ calls' = SubSeq(calls, 1, 0) /\ UNCHANGED messages
      /\ handled' = [handled EXCEPT ![calls[1]] = 1]
  BY <1>3, <1>4, <1>8 DEF R!handleReturns
<1>10. calls' = << >>
  BY <1>3, <1>9
<1>. QED  BY <1>2, <1>4, <1>7, <1>8, <1>9, <1>10
(***************************************************************************)
(* The safety invariant                                                    *)
(***************************************************************************)

processed == <<messages, calls, handled>>
timed == <<confirmAt, optimisticSeconds, now>>

unenrols == enrolled' \in BOOLEAN /\ (enrolled' => enrolled)

(* Once acceptable roots and what is handled stand, more messages in the   *)
(* tree and the end of the enrolment do no harm.                           *)
LEMMA SafetyStands ==
  ASSUME IInv, treeGrows, unenrols, UNCHANGED processed, UNCHANGED timed
  PROVE  SafetyInv'
<1>1. /\ \A l : InTree(l) => InTree(l)'
      /\ \A r : Genuine(r) => Genuine(r)'
  BY SentStaysSent DEF IInv
<1>2. Timers'
  BY DEF IInv, SafetyInv, Timers, unenrols, timed
<1>3. ForgedNotAcceptable'
  BY <1>1 DEF IInv, SafetyInv, ForgedNotAcceptable, unenrols, timed
<1>4. ProvenWereSent'
  BY <1>1 DEF IInv, SafetyInv, ProvenWereSent, unenrols, processed
<1>5. \A l : R!CallsTo(l)' = R!CallsTo(l)
  BY DEF R!CallsTo, processed
<1>6. ForgedNeverHandled'
  BY <1>1, <1>5 DEF IInv, SafetyInv, ForgedNeverHandled, processed
<1>. QED  BY <1>2, <1>3, <1>4, <1>6 DEF SafetyInv

(* An update that reaches the Replica starts a timer that is running. *)
LEMMA UpdateKeepsSafety ==
  ASSUME IInv, UNCHANGED <<tree, enrolled>>, NEW old, NEW new, R!update(old, new, updater)
  PROVE  SafetyInv'
<1>1. /\ confirmAt' = [confirmAt EXCEPT ![new] = (now + OptimisticSeconds) % TimeModulus]
      /\ UNCHANGED <<optimisticSeconds, now, messages, calls, handled>>
  BY DEF IInv, SafetyInv, Timers, R!update, R!wrap, R!processVars
<1>2. /\ now \in Nat /\ OptimisticSeconds \in Nat /\ OptimisticSeconds > 0
      /\ now + OptimisticSeconds \in 0 .. TimeModulus - 1 /\ TimeModulus \in Nat \ {0}
  BY ChannelAssumption, WatcherAssumption DEF IInv, SafetyInv, Timers
<1>3. (now + OptimisticSeconds) % TimeModulus = now + OptimisticSeconds
  BY <1>2
<1>4. confirmAt' = [confirmAt EXCEPT ![new] = now + OptimisticSeconds]
  BY <1>1, <1>3
<1>5. confirmAt \in [Roots -> Nat]
  BY DEF IInv, SafetyInv, Timers
<1>6. Timers'
  <2>1. now + OptimisticSeconds \in Nat
    BY <1>2
  <2>2. confirmAt' \in [Roots -> Nat]
    BY ONLY <1>4, <1>5, <2>1
  <2>. QED  BY <1>1, <2>2 DEF IInv, SafetyInv, Timers
<1>7. \A r : Genuine(r)' = Genuine(r)
  BY DEF Genuine
<1>8. ForgedNotAcceptable'
  BY <1>1, <1>2, <1>4, <1>5, <1>7 DEF IInv, SafetyInv, ForgedNotAcceptable
<1>9. ProvenWereSent' /\ ForgedNeverHandled'
  BY <1>1 DEF IInv, SafetyInv, ProvenWereSent, ForgedNeverHandled, InTree, R!CallsTo
<1>. QED  BY <1>6, <1>8, <1>9 DEF SafetyInv

(* The clock does not reach a forged root's time before the watcher has    *)
(* had the delay it is given.                                              *)
LEMMA TickKeepsSafety ==
  ASSUME IInv, Tick
  PROVE  SafetyInv'
<1>1. /\ now' = now + 1 /\ now < MaxTime /\ UNCHANGED <<confirmAt, optimisticSeconds>>
      /\ UNCHANGED <<messages, calls, handled, tree, enrolled>>
  BY DEF Tick, R!Tick, R!baseVars, R!rootVars, R!processVars, homeVars
<1>2. /\ now \in Nat /\ confirmAt \in [Roots -> Nat] /\ MaxTime \in Nat
      /\ OptimisticSeconds \in Nat /\ WatcherDelay \in Nat
      /\ WatcherDelay + 1 <= OptimisticSeconds
  BY ChannelAssumption, WatcherAssumption DEF IInv, SafetyInv, Timers
<1>3. Timers'
  BY <1>1, <1>2 DEF IInv, SafetyInv, Timers
<1>4. \A r : Genuine(r)' = Genuine(r)
  BY <1>1 DEF Genuine
<1>5. ASSUME enrolled, NEW r \in Roots, ~Genuine(r), confirmAt[r] # 0
      PROVE  now + 1 < confirmAt[r]
  <2>1. ~(now >= confirmAt[r] - OptimisticSeconds + WatcherDelay)
    BY <1>5 DEF Tick, WatcherInTime, Overdue
  <2>. QED  BY <1>2, <2>1
<1>6. ForgedNotAcceptable'
  BY <1>1, <1>4, <1>5 DEF ForgedNotAcceptable
<1>7. ProvenWereSent' /\ ForgedNeverHandled'
  BY <1>1 DEF IInv, SafetyInv, ProvenWereSent, ForgedNeverHandled, InTree, R!CallsTo
<1>. QED  BY <1>3, <1>6, <1>7 DEF SafetyInv

(* What processing leaves alone. *)
LEMMA ProcessingKeepsTimers ==
  ASSUME IInv, UNCHANGED timed, UNCHANGED <<tree, enrolled>>
  PROVE  Timers' /\ ForgedNotAcceptable' /\ \A l : InTree(l)' = InTree(l)
<1>1. \A r : Genuine(r)' = Genuine(r)
  BY DEF Genuine
<1>2. \A l : InTree(l)' = InTree(l)
  BY DEF InTree
<1>. QED  BY <1>1, <1>2 DEF IInv, SafetyInv, Timers, ForgedNotAcceptable, timed

(* prove, process and the return of handle. *)
LEMMA ProcessingKeepsSafety ==
  ASSUME IInv, Deliver \/ HandleReturns
  PROVE  SafetyInv' /\ RP!ProcessInv'
<1>1. UNCHANGED timed /\ UNCHANGED <<tree, enrolled>>
  BY DEF Deliver, HandleReturns, R!Prove, R!prove, R!ProveAndProcess, R!proveAndProcess,
         R!Process, R!process, R!callHandle, R!handleReturns, R!rootVars, homeVars, timed
<1>2. Timers' /\ ForgedNotAcceptable' /\ \A l : InTree(l)' = InTree(l)
  BY <1>1, ProcessingKeepsTimers
<1>3. CASE R!Prove
  <2>1. RP!ProcessInv' /\ \A l \in Leaf : enrolled /\ messages'[l] = "Proven" => InTree(l)
    BY <1>3, ProveKeeps
  <2>2. UNCHANGED <<calls, handled>>
    BY <1>3 DEF R!Prove, R!prove
  <2>3. ProvenWereSent'
    BY <1>1, <1>2, <2>1 DEF ProvenWereSent
  <2>4. ForgedNeverHandled'
    BY <1>2, <2>2 DEF IInv, SafetyInv, ForgedNeverHandled, R!CallsTo
  <2>. QED  BY <1>2, <2>1, <2>3, <2>4 DEF SafetyInv
<1>4. CASE (R!ProveAndProcess \/ R!Process) /\ OnlyReplica
  <2>1. /\ RP!ProcessInv' /\ UNCHANGED handled
        /\ \A l \in Leaf : messages'[l] = "Proven" => messages[l] = "Proven"
        /\ UNCHANGED calls \/ \E l \in Leaf : InTree(l) /\ calls' = Append(calls, l)
    BY <1>4, CallKeeps
  <2>2. ProvenWereSent'
    BY <1>1, <1>2, <2>1 DEF IInv, SafetyInv, ProvenWereSent
  <2>3. calls \in Seq(Leaf)
    BY DEF IInv, RP!ProcessInv, RP!ProcessTypes, RP!Leaf, Leaf
  <2>4. \A l \in Leaf : R!CallsTo(l)' # {} => R!CallsTo(l) # {} \/ InTree(l)
    <3>1. CASE UNCHANGED calls
      BY <3>1 DEF R!CallsTo
    <3>2. CASE \E l \in Leaf : InTree(l) /\ calls' = Append(calls, l)
      BY <2>3, <3>2 DEF R!CallsTo
    <3>. QED  BY <2>1, <3>1, <3>2
  <2>5. ForgedNeverHandled'
    BY <1>2, <2>1, <2>4 DEF IInv, SafetyInv, ForgedNeverHandled
  <2>. QED  BY <1>2, <2>1, <2>2, <2>5 DEF SafetyInv
<1>5. CASE R!handleReturns
  <2>1. /\ RP!ProcessInv' /\ calls' = << >> /\ UNCHANGED messages
        /\ \E l \in Leaf : InTree(l) /\ handled[l] = 0 /\ handled' = [handled EXCEPT ![l] = 1]
    BY <1>5, ReturnKeeps
  <2>2. ProvenWereSent'
    BY <1>1, <1>2, <2>1 DEF IInv, SafetyInv, ProvenWereSent
  <2>3. \A l : R!CallsTo(l)' = {}
    BY <2>1 DEF R!CallsTo
  <2>4. handled \in [Leaf -> Nat]
    BY DEF IInv, RP!ProcessInv, RP!ProcessTypes, RP!Leaf, Leaf
  <2>5. ForgedNeverHandled'
    BY <1>2, <2>1, <2>3, <2>4 DEF IInv, SafetyInv, ForgedNeverHandled
  <2>. QED  BY <1>2, <2>1, <2>2, <2>5 DEF SafetyInv
<1>. QED  BY <1>3, <1>4, <1>5 DEF Deliver, HandleReturns
(***************************************************************************)
(* Every step                                                              *)
(***************************************************************************)

(* Nothing is sent, signed, or pending. *)
LEMMA InitIInv == Init => IInv
<1> SUFFICES ASSUME Init PROVE IInv
  OBVIOUS
<1>1. HP!IndInv
  BY ChannelAssumption, NonceModulusAssumption
     DEF Init, H!InitRoots, H!Zero, H!initialize, H!Slots, R!Init, HP!IndInv, HP!TypeOK,
         HP!Root, HP!Slots, HP!HomeAddresses, HP!QueueHoldsPendingRoots,
         HP!CommittedIsPrefix, HP!IsPrefixRoot, HP!RootAt, HP!NoncesAhead,
         HP!DistinctNonces, HP!Zero
<1>2. \A l : R!CallsTo(l) = {} /\ RP!CallsTo(l) = {}
  BY DEF Init, R!Init, R!CallsTo, RP!CallsTo
<1>3. RP!ProcessInv
  BY <1>2 DEF Init, R!Init, R!Leaf, RP!ProcessInv, RP!ProcessTypes, RP!OneHandleAtATime,
              RP!HandledOnce, RP!Leaf
<1>4. confirmAt = [r \in Roots |-> IF r = Zero THEN 1 ELSE 0] /\ now = 1
  BY DEF Init, R!Init, H!InitRoots, H!Zero, Zero
<1>5. Timers /\ ForgedNotAcceptable
  BY <1>4, ChannelAssumption
     DEF Init, R!Init, Timers, ForgedNotAcceptable, Genuine
<1>6. ProvenWereSent /\ ForgedNeverHandled
  BY <1>2 DEF Init, R!Init, R!Leaf, Leaf, ProvenWereSent, ForgedNeverHandled
<1>. QED  BY <1>1, <1>3, <1>5, <1>6 DEF IInv, SafetyInv

(* A step that only adds to the tree, or commits, fails or unenrols. *)
LEMMA QuietStep ==
  ASSUME IInv, HP!IndInv', treeGrows, unenrols, UNCHANGED <<processed, entered>>,
         UNCHANGED timed
  PROVE  IInv'
<1>1. SafetyInv'
  BY SafetyStands
<1>2. RP!ProcessInv'
  BY ReplicaStands DEF processed, IInv
<1>. QED  BY <1>1, <1>2 DEF IInv

(* A signed update is submitted to Home. *)
LEMMA UpdateHomeStep ==
  ASSUME IInv, NEW p, UpdateHome(p)
  PROVE  IInv' /\ UNCHANGED <<tree, handled>>
<1>1. HP!IndInv' /\ UNCHANGED tree
  BY UpdateKeepsHome DEF UpdateHome, IInv
<1>2. UNCHANGED <<processed, entered>> /\ UNCHANGED timed /\ UNCHANGED enrolled
  BY DEF UpdateHome, replicaVars, processed, timed
<1>. QED  BY <1>1, <1>2, QuietStep DEF treeGrows, unenrols, processed, IInv, SafetyInv, Timers

(* A signed update is relayed to the Replica. *)
LEMMA UpdateReplicaStep ==
  ASSUME IInv, NEW p, UpdateReplica(p)
  PROVE  IInv' /\ UNCHANGED <<tree, handled>>
<1>1. UNCHANGED homeVars /\ UNCHANGED <<tree, enrolled>>
  BY DEF UpdateReplica, homeVars
<1>2. HP!IndInv'
  BY <1>1, HomeStands DEF IInv
<1>3. SafetyInv'
  BY <1>1, UpdateKeepsSafety DEF UpdateReplica
<1>4. UNCHANGED <<messages, entered, calls, handled>>
  BY DEF UpdateReplica, R!update, R!processVars
<1>. QED  BY <1>1, <1>2, <1>3, <1>4, ReplicaStands DEF IInv

(* Steps of the watcher that send nothing, and signing. *)
LEMMA ContractsStand ==
  ASSUME IInv, UNCHANGED <<homeVars, replicaVars>>, unenrols
  PROVE  IInv' /\ UNCHANGED <<tree, handled>>
<1>1. HP!IndInv' /\ UNCHANGED tree
  BY HomeStands DEF IInv, homeVars
<1>2. UNCHANGED <<processed, entered>> /\ UNCHANGED timed
  BY DEF replicaVars, processed, timed
<1>. QED  BY <1>1, <1>2, QuietStep DEF treeGrows, processed

(* Either the invariant stays and neither end of the channel moves, or a   *)
(* message is sent, or one is received.                                    *)
moves ==
  \/ UNCHANGED <<tree, handled>>
  \/ UNCHANGED handled /\ \E leaf : gets(leaf)
  \/ /\ UNCHANGED tree
     /\ \E l \in Leaf : InTree(l) /\ handled[l] = 0 /\ handled' = [handled EXCEPT ![l] = 1]

(* Whatever the watcher does, it at most fails contracts and unenrols. *)
LEMMA WatcherStep ==
  ASSUME IInv,
         WatcherReads \/ WatcherHandles \/ WatcherSeesHomeFail \/ WatcherActsOnFailure
           \/ WatcherRestarts
  PROVE  IInv' /\ UNCHANGED <<tree, handled>>
<1>1. enrolled \in BOOLEAN
  BY DEF IInv, SafetyInv, Timers
<1>2. CASE WatcherReads \/ WatcherSeesHomeFail \/ WatcherRestarts
  <2>1. UNCHANGED <<homeVars, replicaVars>> /\ UNCHANGED enrolled
    BY <1>2 DEF WatcherReads, WatcherSeesHomeFail, WatcherRestarts, contractVars
  <2>. QED  BY <1>1, <2>1, ContractsStand DEF unenrols
<1>3. CASE WatcherHandles
  <2>1. UpdateHome(Head(inbox)) \/ UNCHANGED <<homeVars, replicaVars, enrolled>>
    BY <1>3 DEF WatcherHandles
  <2>. QED  BY <1>1, <2>1, UpdateHomeStep, ContractsStand DEF unenrols
<1>4. CASE WatcherUnenrolls
  BY <1>4, ContractsStand DEF WatcherUnenrolls, unenrols
<1>5. CASE WatcherReportsToHome
  <2>1. UNCHANGED replicaVars /\ UNCHANGED enrolled
    BY <1>5 DEF WatcherReportsToHome
  <2>2. HP!IndInv' /\ UNCHANGED tree
    <3>1. CASE UNCHANGED homeVars
      BY <3>1, HomeStands DEF IInv, homeVars
    <3>2. CASE H!doubleUpdate(double[1][1], double[1][2], double[2][2], updater)
      BY <3>2, ReportKeepsHome DEF IInv
    <3>. QED  BY <1>5, <3>1, <3>2 DEF WatcherReportsToHome
  <2>3. UNCHANGED <<processed, entered>> /\ UNCHANGED timed
    BY <2>1 DEF replicaVars, processed, timed
  <2>. QED  BY <1>1, <2>1, <2>2, <2>3, QuietStep DEF treeGrows, unenrols, processed
<1>6. CASE WatcherReportsToReplica
  <2>1. UNCHANGED homeVars /\ UNCHANGED enrolled
    BY <1>6 DEF WatcherReportsToReplica
  <2>2. UNCHANGED <<processed, entered>> /\ UNCHANGED timed
    BY <1>6 DEF WatcherReportsToReplica, R!doubleUpdate, R!rootVars, R!processVars,
                replicaVars, processed, timed
  <2>3. HP!IndInv' /\ UNCHANGED tree
    BY <2>1, HomeStands DEF IInv, homeVars
  <2>. QED  BY <1>1, <2>1, <2>2, <2>3, QuietStep DEF treeGrows, unenrols, processed
<1>. QED  BY <1>2, <1>3, <1>4, <1>5, <1>6 DEF WatcherActsOnFailure

(* One step of the invariant, and each that moves the contract state a channel step. *)
LEMMA NextIInv == IInv /\ [Next]_vars => IInv' /\ moves
<1> SUFFICES ASSUME IInv, [Next]_vars PROVE IInv' /\ moves
  OBVIOUS
<1>a. enrolled \in BOOLEAN
  BY DEF IInv, SafetyInv, Timers
<1>1. CASE Dispatch
  <2>1. HP!IndInv' /\ \E leaf : gets(leaf)
    BY <1>1, DispatchKeepsHome DEF Dispatch, IInv
  <2>2. UNCHANGED <<processed, entered>> /\ UNCHANGED timed /\ UNCHANGED <<handled, enrolled>>
    BY <1>1 DEF Dispatch, replicaVars, processed, timed
  <2>3. treeGrows /\ unenrols
    BY <1>a, <2>1, <2>2 DEF treeGrows, unenrols
  <2>. QED  BY <2>1, <2>2, <2>3, QuietStep DEF moves
<1>2. CASE SignSuggestion \/ UNCHANGED vars
  <2>1. UNCHANGED <<homeVars, replicaVars>> /\ UNCHANGED enrolled
    BY <1>2 DEF SignSuggestion, vars
  <2>. QED  BY <1>a, <2>1, ContractsStand DEF unenrols, moves
<1>3. CASE SubmitUpdate
  <2>1. PICK p : UpdateHome(p)
    BY <1>3 DEF SubmitUpdate
  <2>. QED  BY <2>1, UpdateHomeStep DEF moves
<1>4. CASE BypassHome \/ Relay
  <2>1. PICK p : UpdateReplica(p)
    BY <1>4 DEF BypassHome, Relay
  <2>. QED  BY <2>1, UpdateReplicaStep DEF moves
<1>5. CASE Deliver \/ HandleReturns
  <2>1. SafetyInv' /\ RP!ProcessInv'
    BY <1>5, ProcessingKeepsSafety
  <2>2. HP!IndInv' /\ UNCHANGED tree
    BY <1>5, HomeStands DEF Deliver, HandleReturns, homeVars, IInv
  <2>3. moves
    <3>1. CASE HandleReturns
      BY <2>2, <3>1, ReturnKeeps DEF HandleReturns, moves
    <3>2. CASE Deliver
      BY <2>2, <3>2, CallKeeps DEF Deliver, R!Prove, R!prove, moves
    <3>. QED  BY <1>5, <3>1, <3>2
  <2>. QED  BY <2>1, <2>2, <2>3 DEF IInv
<1>6. CASE WatcherReads \/ WatcherHandles \/ WatcherSeesHomeFail \/ WatcherActsOnFailure
             \/ WatcherRestarts
  BY <1>6, WatcherStep DEF moves
<1>7. CASE Tick
  <2>1. UNCHANGED homeVars /\ UNCHANGED <<tree, messages, entered, calls, handled>>
    BY <1>7 DEF Tick, R!Tick, R!processVars, homeVars
  <2>2. HP!IndInv' /\ RP!ProcessInv'
    BY <2>1, HomeStands, ReplicaStands DEF IInv
  <2>. QED  BY <1>7, <2>1, <2>2, TickKeepsSafety DEF IInv, moves
<1>. QED  BY <1>1, <1>2, <1>3, <1>4, <1>5, <1>6, <1>7 DEF Next

(* The invariant of the specification. *)
LEMMA SpecIInv == Spec => []IInv
BY InitIInv, NextIInv, PTL DEF Spec

(***************************************************************************)
(* The theorems, whoever holds the updater's key                           *)
(***************************************************************************)

(* No application handles what was not dispatched on Home: the optimistic  *)
(* window is longer than the watcher takes to have the Replica unenrolled. *)
THEOREM ChannelForgedNeverHandled == Spec => []ForgedNeverHandled
BY SpecIInv, PTL DEF IInv, SafetyInv

(* The contracts and the agents implement a channel that gives each        *)
(* message sent to its recipient at most once.                             *)
THEOREM ChannelImplementsMessageChannel == Spec => ImplementsMessageChannel
<1> DEFINE sent == {tree[i] : i \in DOMAIN tree}
<1>1. Init => Channel!Init
  BY DEF Init, H!InitRoots, R!Init, R!Leaf, Leaf, Channel!Init
<1>2. IInv /\ moves => [Channel!Next]_<<sent, handled>>
  <2> SUFFICES ASSUME IInv, moves PROVE Channel!Next \/ UNCHANGED <<sent, handled>>
    OBVIOUS
  <2>1. tree \in Seq(Leaf)
    BY DEF IInv, HP!IndInv, HP!TypeOK, HP!Leaf, Leaf
  <2>2. ASSUME NEW leaf, gets(leaf), UNCHANGED handled PROVE Channel!Next
    <3>1. leaf \in Leaf /\ leaf \notin sent /\ tree' = Append(tree, leaf)
      BY <2>2 DEF gets, InTree
    <3>2. sent' = sent \cup {leaf}
      BY <2>1, <3>1
    <3>. QED  BY <2>2, <3>1, <3>2 DEF Channel!Next, Channel!Send
  <2>3. ASSUME UNCHANGED tree, NEW l \in Leaf, InTree(l), handled[l] = 0,
               handled' = [handled EXCEPT ![l] = 1]
        PROVE  Channel!Next
    BY <2>3 DEF Channel!Next, Channel!Receive, InTree
  <2>. QED  BY <2>2, <2>3 DEF moves
<1>. QED
  BY <1>1, <1>2, SpecIInv, NextIInv, PTL
     DEF Spec, ImplementsMessageChannel, Channel!Spec, Channel!channelVars

(***************************************************************************)
(* The honest updater                                                      *)
(* If the updater signs only what Home suggests, and once per committed    *)
(* root, then nothing in the system passes for fraud: not a signature that *)
(* is submitted late, relayed out of step, or found by the watcher on      *)
(* either contract, after any number of restarts.                          *)
(***************************************************************************)

(***************************************************************************)
(* The invariant                                                           *)
(***************************************************************************)

(* A pair of roots of the tree, in order. *)
isSound(u) == u \in Root \X Root /\ IsPrefixRoot(u[2], tree) /\ Len(u[1]) < Len(u[2])

SignedOnce ==
  /\ \A u \in signed : isSound(u)
  /\ \A u, v \in signed : u[1] = v[1] => u = v

(* All the agents know of was signed. *)
KnownWereSigned ==
  /\ homeUpdates.update \subseteq signed /\ replicaUpdates.update \subseteq signed
  /\ inbox \in Seq(signed) /\ watcherDB \subseteq signed

(* The Replica moves forward, so no root it comes to has a timer.          *)
TimersBehind ==
  /\ replicaCommitted \in Root
  /\ \A r \in Roots : confirmAt[r] # 0 => Len(r) <= Len(replicaCommitted)

NothingFails == homeState = "Active" /\ replicaState = "Active" /\ enrolled /\ todo = {}

HonestInv == SignedOnce /\ KnownWereSigned /\ TimersBehind /\ NothingFails

staysAcceptable == \A r \in Roots : R!acceptableRoot(r) => R!acceptableRoot(r)'

(***************************************************************************)
(* Home takes what is signed                                               *)
(***************************************************************************)

(* What the invariant of Home says of its roots. *)
LEMMA HomeRoots ==
  ASSUME HP!IndInv
  PROVE  /\ tree \in Root /\ homeCommitted \in Root
         /\ Len(homeCommitted) <= Len(tree) /\ Len(tree) <= MaxLeaves
         /\ queue.first = Len(homeCommitted) + 1 /\ queue.last = Len(tree)
         /\ \A i \in queue.first .. queue.last : queue.queue[i] = RootAt(tree, i)
<1>1. /\ tree \in Root /\ homeCommitted \in Root
      /\ Len(homeCommitted) <= Len(tree) /\ Len(tree) <= MaxLeaves
      /\ queue.first = Len(homeCommitted) + 1 /\ queue.last = Len(tree)
  BY DEF HP!IndInv, HP!TypeOK, HP!Root, HP!Leaf, Root, Leaf, HP!QueueHoldsPendingRoots,
         HP!CommittedIsPrefix, HP!IsPrefixRoot
<1>2. \A i \in queue.first .. queue.last : i \in HP!Slots
  BY <1>1, ChannelAssumption DEF HP!Slots, Root
<1>3. \A i \in queue.first .. queue.last : queue.queue[i] = RootAt(tree, i)
  BY <1>2 DEF HP!IndInv, HP!QueueHoldsPendingRoots, HP!RootAt, RootAt
<1>. QED  BY <1>1, <1>3

(* The suggestion is the pair of the committed root and the whole tree. *)
LEMMA SuggestionIsSound ==
  ASSUME HP!IndInv, H!suggestUpdate # <<Zero, Zero>>
  PROVE  H!suggestUpdate[1] = homeCommitted /\ isSound(H!suggestUpdate)
<1>1. /\ H!length(queue) # 0
      /\ H!suggestUpdate = <<homeCommitted, H!lastItem(queue)>>
  BY DEF H!suggestUpdate, H!Zero, Zero
<1>2. queue.last \in queue.first .. queue.last
  BY <1>1, HomeRoots DEF H!length, Root
<1>3. H!lastItem(queue) = RootAt(tree, Len(tree))
  BY <1>2, HomeRoots DEF H!lastItem
<1>4. RootAt(tree, Len(tree)) = tree /\ IsPrefixRoot(tree, tree)
  BY HomeRoots DEF RootAt, IsPrefixRoot, Root
<1>5. H!suggestUpdate = <<homeCommitted, tree>>
  BY <1>1, <1>3, <1>4
<1>6. Len(homeCommitted) < Len(tree)
  BY <1>2, HomeRoots DEF Root
<1>. QED  BY <1>4, <1>5, <1>6, HomeRoots DEF isSound

(* A sound pair that is current is committed. *)
LEMMA SoundIsCommitted ==
  ASSUME HP!IndInv, NEW p, isSound(p), H!update(p[1], p[2], updater)
  PROVE  UNCHANGED <<homeState, tree>>
<1>1. p[1] = homeCommitted
  BY DEF H!update, H!improperUpdate, H!commit, H!isCurrentUpdate
<1>2. Len(p[2]) \in queue.first .. queue.last
  BY <1>1, HomeRoots DEF isSound, IsPrefixRoot, Root
<1>3. H!contains(queue, p[2])
  BY <1>2, HomeRoots DEF H!contains, isSound, IsPrefixRoot
<1>. QED  BY <1>3 DEF H!update, H!improperUpdate, H!commit

(* Roots of the tree stay roots of the tree. *)
LEMMA SoundStaysSound ==
  ASSUME HP!IndInv, treeGrows, NEW u, isSound(u)
  PROVE  isSound(u)'
<1>1. tree \in Root /\ u[2] \in Root
  BY HomeRoots DEF isSound
<1>2. CASE UNCHANGED tree
  BY <1>2 DEF isSound
<1>3. CASE \E leaf : gets(leaf)
  <2>1. PICK leaf \in Leaf : tree' = Append(tree, leaf)
    BY <1>3 DEF gets
  <2>2. Len(tree') = Len(tree) + 1 /\ Len(tree) \in Nat /\ Len(u[2]) \in Nat
    BY <1>1, <2>1 DEF Root
  <2>3. RootAt(tree', Len(u[2])) = RootAt(tree, Len(u[2]))
    BY <1>1, <2>1 DEF RootAt, Root, isSound, IsPrefixRoot
  <2>4. IsPrefixRoot(u[2], tree')
    BY <2>2, <2>3 DEF isSound, IsPrefixRoot
  <2>. QED  BY <2>4 DEF isSound
<1>. QED  BY <1>2, <1>3 DEF treeGrows

(***************************************************************************)
(* The steps                                                               *)
(***************************************************************************)

HonestSteps == IInv /\ HonestInv

(* What neither signs nor moves the Replica. *)
LEMMA SignedStands ==
  ASSUME HP!IndInv, SignedOnce, treeGrows, signed' = signed
  PROVE  SignedOnce'
BY SoundStaysSound DEF SignedOnce

(* Timers depend on Home and Replica alone. *)
LEMMA TimersStand ==
  ASSUME TimersBehind, UNCHANGED <<replicaCommitted, confirmAt, now>>
  PROVE  TimersBehind' /\ staysAcceptable
BY DEF TimersBehind, staysAcceptable, R!acceptableRoot

(* A pair that was signed before is stored in an index of signed pairs. *)
LEMMA StoreKeepsSigned ==
  ASSUME NEW db, db.update \subseteq signed, NEW p \in signed
  PROVE  W!store_update(db, p).update \subseteq signed
BY DEF W!store_update

(* Home commits a signed update and does not fail. *)
LEMMA HonestUpdateHome ==
  ASSUME HonestSteps, NEW p \in signed, UpdateHome(p)
  PROVE  /\ UNCHANGED <<homeState, tree, signed, replicaVars, enrolled, replicaUpdates>>
         /\ homeUpdates'.update \subseteq signed
<1>1. isSound(p) /\ HP!IndInv
  BY DEF HonestSteps, HonestInv, SignedOnce, IInv
<1>2. UNCHANGED <<homeState, tree>>
  BY <1>1, SoundIsCommitted DEF UpdateHome
<1>3. signed' = signed
  BY DEF UpdateHome
<1>4. homeUpdates'.update \subseteq signed
  BY StoreKeepsSigned DEF UpdateHome, HonestSteps, HonestInv, KnownWereSigned
<1>. QED  BY <1>2, <1>3, <1>4 DEF UpdateHome

(* The Replica comes to a longer root, whose timer was not running. *)
LEMMA HonestUpdateReplica ==
  ASSUME HonestSteps, NEW p \in signed, UpdateReplica(p)
  PROVE  /\ UNCHANGED <<homeVars, enrolled, signed, replicaState, homeUpdates>>
         /\ replicaUpdates'.update \subseteq signed
         /\ TimersBehind' /\ staysAcceptable
<1>1. /\ p[1] = replicaCommitted /\ replicaCommitted' = p[2]
      /\ confirmAt' = [confirmAt EXCEPT ![p[2]] = R!wrap(now + optimisticSeconds)]
      /\ UNCHANGED <<replicaState, now>>
  BY DEF UpdateReplica, R!update, R!isCurrentUpdate, R!baseVars
<1>2. /\ p[2] \in Root /\ p[1] \in Root
      /\ Len(p[1]) < Len(p[2]) /\ Len(p[1]) \in Nat /\ Len(p[2]) \in Nat
  BY DEF HonestSteps, HonestInv, SignedOnce, isSound, Root
<1>3. confirmAt \in [Roots -> Nat] /\ \A r \in Roots : Len(r) \in Nat
  BY ChannelAssumption DEF HonestSteps, IInv, SafetyInv, Timers, Root
<1>4. \A r \in Roots : confirmAt[r] # 0 => Len(r) <= Len(p[1]) /\ r # p[2]
  BY <1>1, <1>2, <1>3 DEF HonestSteps, HonestInv, TimersBehind
<1>5. \A r \in Roots : r # p[2] => confirmAt'[r] = confirmAt[r]
  BY <1>1, <1>3
<1>6. TimersBehind'
  BY <1>1, <1>2, <1>3, <1>4, <1>5 DEF TimersBehind
<1>7. staysAcceptable
  BY <1>1, <1>4, <1>5 DEF staysAcceptable, R!acceptableRoot
<1>8. signed' = signed
  BY DEF UpdateReplica
<1>9. replicaUpdates'.update \subseteq signed
  BY StoreKeepsSigned DEF UpdateReplica, HonestSteps, HonestInv, KnownWereSigned
<1>. QED  BY <1>1, <1>6, <1>7, <1>8, <1>9 DEF UpdateReplica
replicaRoots == <<replicaState, replicaCommitted, confirmAt>>
agentOnly == <<homeState, replicaRoots, now, enrolled, signed, tree>>

(* What the watcher takes from an index into its channel was signed. *)
LEMMA SendKeepsSigned ==
  ASSUME KnownWereSigned, NEW u \in signed, W!send(u),
         UNCHANGED <<homeUpdates, replicaUpdates, signed>>
  PROVE  KnownWereSigned' /\ UNCHANGED todo
BY DEF KnownWereSigned, W!send

(* Steps in which nothing is signed, submitted, or found. *)
LEMMA RestStands ==
  ASSUME HonestSteps, UNCHANGED agentOnly, KnownWereSigned', todo' = {}
  PROVE  HonestInv' /\ staysAcceptable
<1>1. SignedOnce' /\ TimersBehind' /\ staysAcceptable
  BY SignedStands, TimersStand
     DEF HonestSteps, HonestInv, IInv, agentOnly, replicaRoots, treeGrows
<1>2. NothingFails'
  BY DEF HonestSteps, HonestInv, NothingFails, agentOnly, replicaRoots
<1>. QED  BY <1>1, <1>2 DEF HonestInv

(* The watcher reads events of signed updates. *)
LEMMA WatcherReadsHonestly ==
  ASSUME HonestSteps, WatcherReads
  PROVE  HonestInv' /\ staysAcceptable
<1>1. UNCHANGED agentOnly /\ UNCHANGED <<homeUpdates, replicaUpdates, signed>>
  BY DEF WatcherReads, contractVars, homeVars, replicaVars, eventVars, agentOnly, replicaRoots
<1>2. \E u \in signed : W!send(u)
  <2>1. homeUpdates.update \subseteq signed /\ replicaUpdates.update \subseteq signed
    BY DEF HonestSteps, HonestInv, KnownWereSigned
  <2>2. \A db, r : /\ W!update_by_previous_root(db, r) \subseteq db.update
                   /\ W!update_by_new_root(db, r) \subseteq db.update
    BY DEF W!update_by_previous_root, W!update_by_new_root
  <2>3. CASE W!pollHome(homeUpdates) \/ W!syncHomeHistory(homeUpdates)
    BY <2>1, <2>2, <2>3 DEF W!pollHome, W!syncHomeHistory
  <2>4. CASE W!pollReplica(replicaUpdates) \/ W!syncReplicaHistory(replicaUpdates)
    BY <2>1, <2>2, <2>4 DEF W!pollReplica, W!syncReplicaHistory
  <2>. QED  BY <2>3, <2>4 DEF WatcherReads
<1>3. KnownWereSigned' /\ UNCHANGED todo
  BY <1>1, <1>2, SendKeepsSigned DEF HonestSteps, HonestInv
<1>. QED  BY <1>1, <1>3, RestStands DEF HonestSteps, HonestInv, NothingFails

(* No two signed updates conflict, so the handler only stores. *)
LEMMA WatcherHandlesHonestly ==
  ASSUME HonestSteps, WatcherHandles
  PROVE  HonestInv' /\ staysAcceptable
<1> DEFINE u == Head(inbox)
<1>1. inbox # << >> /\ inbox \in Seq(signed)
  BY DEF WatcherHandles, HonestSteps, HonestInv, KnownWereSigned
<1>2. u \in signed /\ Tail(inbox) \in Seq(signed)
  BY <1>1
<1>3. W!conflicts(u) = {}
  BY <1>2 DEF HonestSteps, HonestInv, SignedOnce, KnownWereSigned, W!conflicts
<1>4. inbox' = Tail(inbox) /\ watcherDB' = watcherDB \cup {u} /\ UNCHANGED todo
  BY <1>3 DEF WatcherHandles, W!handle
<1>5. /\ UNCHANGED <<homeState, tree, signed, enrolled, replicaUpdates>>
      /\ UNCHANGED <<replicaRoots, now>>
      /\ homeUpdates'.update \subseteq signed
  <2>1. CASE UpdateHome(u)
    BY <1>2, <2>1, HonestUpdateHome DEF replicaVars, replicaRoots
  <2>2. CASE UNCHANGED <<homeVars, replicaVars, enrolled, signed, eventVars>>
    BY <2>2 DEF homeVars, replicaVars, eventVars, replicaRoots, HonestSteps, HonestInv,
                KnownWereSigned
  <2>. QED  BY <2>1, <2>2 DEF WatcherHandles
<1>6. KnownWereSigned'
  BY <1>2, <1>4, <1>5 DEF KnownWereSigned, HonestSteps, HonestInv
<1>. QED
  BY <1>4, <1>5, <1>6, RestStands DEF agentOnly, HonestSteps, HonestInv, NothingFails

(* A suggestion is signed once for its root. *)
LEMMA SignSuggestionHonestly ==
  ASSUME HonestSteps, SignSuggestion
  PROVE  HonestInv' /\ staysAcceptable
<1> DEFINE p == H!suggestUpdate
<1>1. /\ p # <<Zero, Zero>> /\ (\A q \in signed : q[1] # p[1])
      /\ signed' = signed \cup {p}
      /\ UNCHANGED <<homeVars, replicaVars, enrolled, eventVars, agentVars>>
  BY DEF SignSuggestion
<1>2. isSound(p)
  BY <1>1, SuggestionIsSound DEF HonestSteps, IInv
<1>3. UNCHANGED tree
  BY <1>1 DEF homeVars
<1>4. \A u : isSound(u) => isSound(u)'
  BY <1>3 DEF isSound
<1>5. SignedOnce'
  BY <1>1, <1>2, <1>4 DEF SignedOnce, HonestSteps, HonestInv
<1>6. KnownWereSigned'
  <2>1. Seq(signed) \subseteq Seq(signed')
    BY <1>1
  <2>. QED
    BY <1>1, <2>1 DEF KnownWereSigned, HonestSteps, HonestInv, eventVars, agentVars
<1>7. TimersBehind' /\ staysAcceptable
  BY <1>1, TimersStand DEF HonestSteps, HonestInv, replicaVars
<1>8. NothingFails'
  BY <1>1 DEF NothingFails, HonestSteps, HonestInv, homeVars, replicaVars, agentVars
<1>. QED  BY <1>5, <1>6, <1>7, <1>8 DEF HonestInv

(* Nothing is signed, known, or running. *)
LEMMA InitHonestInv == Init => HonestInv
<1> SUFFICES ASSUME Init PROVE HonestInv
  OBVIOUS
<1>1. SignedOnce
  BY DEF Init, SignedOnce
<1>2. KnownWereSigned
  BY DEF Init, W!Init, W!NoUpdates, KnownWereSigned
<1>3. confirmAt = [r \in Roots |-> IF r = Zero THEN 1 ELSE 0] /\ replicaCommitted = Zero
  BY DEF Init, R!Init, H!InitRoots, H!Zero, Zero
<1>4. TimersBehind
  BY <1>3 DEF TimersBehind, Zero, Root
<1>5. NothingFails
  BY DEF Init, W!Init, R!Init, H!InitRoots, NothingFails
<1>. QED  BY <1>1, <1>2, <1>4, <1>5 DEF HonestInv

(* Each step keeps to what was signed once. *)
LEMMA NextHonestInv ==
  ASSUME HonestUpdater, HonestSteps, [Next]_vars
  PROVE  HonestInv' /\ staysAcceptable
<1>a. KnownWereSigned /\ todo = {} /\ homeState = "Active"
  BY DEF HonestSteps, HonestInv, NothingFails
<1>b. UNCHANGED <<eventVars, agentVars, signed>> => KnownWereSigned' /\ todo' = {}
  BY <1>a DEF KnownWereSigned, eventVars, agentVars
<1>1. CASE Dispatch
  <2>1. HP!IndInv /\ treeGrows /\ UNCHANGED homeState
    BY <1>1, DispatchKeepsHome DEF Dispatch, HonestSteps, IInv, treeGrows
  <2>2. SignedOnce'
    BY <1>1, <2>1, SignedStands DEF Dispatch, HonestSteps, HonestInv
  <2>3. TimersBehind' /\ staysAcceptable
    BY <1>1, TimersStand DEF Dispatch, replicaVars, HonestSteps, HonestInv
  <2>4. KnownWereSigned'
    BY <1>1, <1>b DEF Dispatch
  <2>5. NothingFails'
    BY <1>1, <2>1 DEF Dispatch, replicaVars, agentVars, HonestSteps, HonestInv, NothingFails
  <2>. QED  BY <2>2, <2>3, <2>4, <2>5 DEF HonestInv
<1>2. CASE SignSuggestion
  BY <1>2, SignSuggestionHonestly
<1>3. CASE SubmitUpdate
  <2>1. PICK p \in signed : UpdateHome(p)
    BY <1>3 DEF SubmitUpdate, Signatures, HonestUpdater
  <2>2. /\ UNCHANGED <<homeState, tree, signed, replicaVars, enrolled, replicaUpdates>>
        /\ homeUpdates'.update \subseteq signed
    BY <2>1, HonestUpdateHome
  <2>3. UNCHANGED agentOnly
    BY <2>2 DEF agentOnly, replicaRoots, replicaVars
  <2>4. KnownWereSigned' /\ todo' = {}
    BY <1>3, <1>a, <2>2 DEF SubmitUpdate, agentVars, KnownWereSigned
  <2>. QED  BY <2>3, <2>4, RestStands
<1>4. CASE Relay
  <2>1. PICK p \in signed : UpdateReplica(p)
    BY <1>4, <1>a DEF Relay, KnownWereSigned
  <2>2. /\ UNCHANGED <<homeVars, enrolled, signed, replicaState, homeUpdates>>
        /\ replicaUpdates'.update \subseteq signed
        /\ TimersBehind' /\ staysAcceptable
    BY <2>1, HonestUpdateReplica
  <2>3. KnownWereSigned' /\ NothingFails'
    BY <1>4, <1>a, <2>2
       DEF Relay, agentVars, homeVars, KnownWereSigned, NothingFails, HonestSteps, HonestInv
  <2>4. SignedOnce'
    BY <2>2, SignedStands DEF HonestSteps, HonestInv, IInv, homeVars, treeGrows
  <2>. QED  BY <2>2, <2>3, <2>4 DEF HonestInv
<1>5. CASE Deliver \/ HandleReturns \/ UNCHANGED vars
  <2>1. UNCHANGED agentOnly
    BY <1>5 DEF Deliver, HandleReturns, R!Prove, R!prove, R!ProveAndProcess, R!proveAndProcess,
                R!Process, R!process, R!callHandle, R!handleReturns, R!baseVars, R!rootVars,
                homeVars, replicaVars, vars, agentOnly, replicaRoots
  <2>2. UNCHANGED <<eventVars, agentVars, signed>>
    BY <1>5 DEF Deliver, HandleReturns, vars
  <2>. QED  BY <1>b, <2>1, <2>2, RestStands
<1>6. CASE WatcherReads
  BY <1>6, WatcherReadsHonestly
<1>7. CASE WatcherHandles
  BY <1>7, WatcherHandlesHonestly
<1>8. CASE WatcherRestarts
  <2>1. UNCHANGED agentOnly
    BY <1>8 DEF WatcherRestarts, homeVars, replicaVars, agentOnly, replicaRoots
  <2>2. KnownWereSigned' /\ todo' = {}
    BY <1>8, <1>a DEF WatcherRestarts, W!Restart, eventVars, KnownWereSigned
  <2>. QED  BY <2>1, <2>2, RestStands
<1>9. CASE Tick
  <2>1. /\ UNCHANGED <<homeState, replicaRoots, enrolled, signed, tree>>
        /\ UNCHANGED <<eventVars, agentVars>> /\ now' = now + 1
    BY <1>9 DEF Tick, R!Tick, R!baseVars, R!rootVars, homeVars, replicaRoots
  <2>2. SignedOnce'
    BY <2>1, SignedStands DEF HonestSteps, HonestInv, IInv, treeGrows
  <2>3. now \in Nat /\ confirmAt \in [Roots -> Nat]
    BY DEF HonestSteps, IInv, SafetyInv, Timers
  <2>4. TimersBehind' /\ staysAcceptable
    BY <2>1, <2>3
       DEF TimersBehind, staysAcceptable, R!acceptableRoot, HonestSteps, HonestInv, replicaRoots
  <2>5. KnownWereSigned' /\ NothingFails'
    BY <1>b, <2>1 DEF HonestSteps, HonestInv, NothingFails, replicaRoots
  <2>. QED  BY <2>2, <2>4, <2>5 DEF HonestInv
<1>10. ~BypassHome /\ ~WatcherSeesHomeFail /\ ~WatcherActsOnFailure
  BY <1>a DEF BypassHome, WatcherSeesHomeFail, WatcherActsOnFailure, WatcherReportsToHome,
              WatcherReportsToReplica, WatcherUnenrolls, W!sent
<1>. QED  BY <1>1, <1>2, <1>3, <1>4, <1>5, <1>6, <1>7, <1>8, <1>9, <1>10 DEF Next

(***************************************************************************)
(* The theorem                                                             *)
(***************************************************************************)

(* Nothing an honest updater signs makes a contract fail, takes the        *)
(* Replica off the applications, or restarts a timer that has run out.     *)
THEOREM ChannelHonestUpdaterIsSafe ==
  ASSUME HonestUpdater
  PROVE  Spec => HonestUpdaterIsSafe
<1> DEFINE isSafe == /\ homeState' = "Active" /\ replicaState' = "Active" /\ enrolled'
                     /\ staysAcceptable
<1>1. Init => HonestSteps
  BY InitIInv, InitHonestInv DEF HonestSteps
<1>2. HonestSteps /\ [Next]_vars => HonestSteps'
  BY NextIInv, NextHonestInv DEF HonestSteps
<1>3. HonestSteps /\ [Next]_vars => isSafe
  BY NextHonestInv DEF HonestInv, NothingFails
<1>4. isSafe => [/\ homeState' = "Active" /\ replicaState' = "Active" /\ enrolled'
                 /\ \A r \in Roots : R!acceptableRoot(r) => R!acceptableRoot(r)']_vars
  BY DEF staysAcceptable
<1>. QED  BY <1>1, <1>2, <1>3, <1>4, PTL DEF Spec, HonestUpdaterIsSafe
=============================================================================
