----------------------------- MODULE HomeProofs -----------------------------
(***************************************************************************)
(* Proofs about Home for every set of domains, bodies, updaters, managers  *)
(* and forged roots, and every number of messages.  One inductive          *)
(* invariant carries them all: the types, the shape of the queue and the   *)
(* nonces being ahead of the tree.                                         *)
(***************************************************************************)
EXTENDS Home, TLAPS

(***************************************************************************)
(* Sequences and roots                                                     *)
(***************************************************************************)

(* A root at n leaves is a sequence of n leaves. *)
LEMMA RootAtType ==
  ASSUME NEW S, NEW t \in Seq(S), NEW n \in 0 .. Len(t)
  PROVE  RootAt(t, n) \in Seq(S) /\ Len(RootAt(t, n)) = n
BY DEF RootAt

(* The root at all the leaves is the tree itself, at none it is zero. *)
LEMMA RootAtEnds ==
  ASSUME NEW S, NEW t \in Seq(S)
  PROVE  RootAt(t, Len(t)) = t /\ RootAt(t, 0) = Zero
BY DEF RootAt, Zero

(* Inserting a leaf leaves the earlier roots alone. *)
LEMMA RootAtAppend ==
  ASSUME NEW S, NEW t \in Seq(S), NEW e \in S, NEW n \in 0 .. Len(t)
  PROVE  RootAt(Append(t, e), n) = RootAt(t, n)
BY DEF RootAt

(* Roots at different leaf counts differ. *)
LEMMA RootAtInjective ==
  ASSUME NEW S, NEW t \in Seq(S), NEW m \in 0 .. Len(t), NEW n \in 0 .. Len(t),
         RootAt(t, m) = RootAt(t, n)
  PROVE  m = n
BY RootAtType

(* The nonce arithmetic stays in the type and only wraps at the modulus. *)
LEMMA NextNonce ==
  ASSUME NEW n \in 0 .. NonceModulus - 1
  PROVE  /\ nextNonce(n) \in 0 .. NonceModulus - 1
         /\ n + 1 < NonceModulus => nextNonce(n) = n + 1
BY NonceModulusAssumption DEF nextNonce

(***************************************************************************)
(* The inductive invariant                                                 *)
(***************************************************************************)

(* Until the tree is as long as the nonce space, the next nonce of a       *)
(* destination exceeds every nonce in the tree for it.                     *)
NoncesAhead ==
  Len(tree) < NonceModulus =>
    /\ \A d \in Domains : nonces[d] <= Len(tree)
    /\ \A i \in DOMAIN tree : tree[i].nonce < nonces[tree[i].destination]

IndInv ==
  /\ TypeOK
  /\ Len(tree) <= MaxLeaves
  /\ QueueHoldsPendingRoots
  /\ NoncesAhead
  /\ DistinctNonces

(* The initial states. *)
LEMMA InitIndInv == Init => IndInv
BY NonceModulusAssumption, MaxLeavesAssumption, RootAtEnds
   DEF Init, InitRoots, IndInv, TypeOK, QueueHoldsPendingRoots, CommittedIsPrefix, IsPrefixRoot,
       NoncesAhead, DistinctNonces, initialize, Zero, Root, Slots, HomeAddresses, RootAt

(* Under the invariant the queue holds the roots of the tree past the      *)
(* committed one, and the loop of update stops at the slot of its root.    *)
LEMMA QueueContents ==
  ASSUME IndInv, NEW r, contains(queue, r)
  PROVE  /\ r \in Root
         /\ Len(r) \in Len(committedRoot) + 1 .. Len(tree)
         /\ r = RootAt(tree, Len(r))
         /\ FirstIndexOf(queue, r) = Len(r)
<1>1. PICK i \in queue.first .. queue.last : queue.queue[i] = r
  BY DEF contains
<1>2. /\ tree \in Root /\ committedRoot \in Root
      /\ i \in Slots /\ i \in 0 .. Len(tree) /\ i \in Len(committedRoot) + 1 .. Len(tree)
  BY <1>1, MaxLeavesAssumption
     DEF IndInv, TypeOK, QueueHoldsPendingRoots, CommittedIsPrefix, IsPrefixRoot, Slots, Root
<1>3. r = RootAt(tree, i)
  BY <1>1, <1>2 DEF IndInv, QueueHoldsPendingRoots
<1>4. r \in Root /\ Len(r) = i
  BY <1>2, <1>3, RootAtType DEF Root
<1>5. ASSUME NEW j \in queue.first .. queue.last, queue.queue[j] = r
      PROVE  j = i
  <2>1. j \in Slots /\ j \in 0 .. Len(tree)
    BY <1>2, <1>5, MaxLeavesAssumption
       DEF IndInv, TypeOK, QueueHoldsPendingRoots, Slots, Root
  <2>2. r = RootAt(tree, j)
    BY <1>5, <2>1 DEF IndInv, QueueHoldsPendingRoots
  <2>. QED  BY <1>2, <1>3, <2>1, <2>2, RootAtInjective DEF Root
<1>6. \A j \in queue.first .. i - 1 : queue.queue[j] # r
  BY <1>1, <1>2, <1>5 DEF IndInv, TypeOK
<1>7. FirstIndexOf(queue, r) = i
  BY <1>1, <1>5, <1>6 DEF FirstIndexOf
<1>. QED  BY <1>2, <1>3, <1>4, <1>7

(* The transactions that touch neither roots nor tree keep the invariant.  *)
LEMMA FailIndInv == IndInv /\ fail => IndInv'
BY DEF IndInv, fail, rootVars, managerVars, TypeOK, QueueHoldsPendingRoots,
       CommittedIsPrefix, NoncesAhead, DistinctNonces

(* Configuration touches no root. *)
LEMMA ConfigureIndInv == IndInv /\ Configure => IndInv'
<1> SUFFICES ASSUME IndInv, Configure PROVE IndInv'
  OBVIOUS
<1>1. UNCHANGED <<state, committedRoot, nonces, tree, queue>>
  BY DEF Configure, setUpdaterManager, setHome, setUpdater, rootVars
<1>2. (updater \in Updaters)' /\ (updaterManager \in Managers)'
  BY DEF IndInv, TypeOK, Configure, setUpdaterManager, setHome, setUpdater
<1>3. (managerHome \in [Managers -> HomeAddresses])'
  BY DEF IndInv, TypeOK, Configure, setUpdaterManager, setHome, setUpdater
<1>4. (managerUpdater \in [Managers -> Updaters])'
  BY DEF IndInv, TypeOK, Configure, setUpdaterManager, setHome, setUpdater
<1>5. TypeOK'
  BY <1>1, <1>2, <1>3, <1>4 DEF IndInv, TypeOK
<1>. QED
  BY <1>1, <1>5
     DEF IndInv, QueueHoldsPendingRoots, CommittedIsPrefix, NoncesAhead, DistinctNonces

(* A commit dequeues up to the root it commits. *)
LEMMA CommitIndInv ==
  ASSUME IndInv, NEW old, NEW new, NEW signer, commit(old, new, signer)
  PROVE  IndInv'
<1>1. contains(queue, new) /\ queue' = dequeueUntil(queue, new) /\ committedRoot' = new
  BY DEF commit
<1>2. UNCHANGED <<state, updater, nonces, tree, updaterManager, managerHome, managerUpdater>>
  BY DEF commit, managerVars
<1>3. /\ new \in Root /\ Len(new) \in Len(committedRoot) + 1 .. Len(tree)
      /\ new = RootAt(tree, Len(new))
      /\ FirstIndexOf(queue, new) = Len(new)
  BY <1>1, QueueContents
<1>4. queue \in [first : Nat, last : Nat, queue : [Slots -> Root]]
      /\ tree \in Root /\ committedRoot \in Root /\ Zero \in Root
  BY DEF IndInv, TypeOK, Root, Zero
<1>5. /\ queue'.first = Len(new) + 1
      /\ queue'.last = queue.last
      /\ queue'.queue = [i \in Slots |->
                           IF i \in queue.first .. Len(new) THEN Zero ELSE queue.queue[i]]
      /\ queue' \in [first : Nat, last : Nat, queue : [Slots -> Root]]
  <2> DEFINE cleared == [i \in Slots |->
                           IF i \in queue.first .. Len(new) THEN Zero ELSE queue.queue[i]]
  <2>1. cleared \in [Slots -> Root]
    BY <1>4
  <2>2. queue' = [queue EXCEPT !.first = Len(new) + 1, !.queue = cleared]
    BY <1>1, <1>3, <1>4 DEF dequeueUntil
  <2>3. Len(new) + 1 \in Nat
    BY <1>3 DEF Root
  <2>. HIDE DEF cleared
  <2>4. /\ queue'.first = Len(new) + 1 /\ queue'.last = queue.last /\ queue'.queue = cleared
        /\ queue' \in [first : Nat, last : Nat, queue : [Slots -> Root]]
    BY <1>4, <2>1, <2>2, <2>3
  <2>. QED  BY <2>4 DEF cleared
<1>6. TypeOK'
  BY <1>1, <1>2, <1>3, <1>5 DEF IndInv, TypeOK
<1>7. QueueHoldsPendingRoots'
  <2>1. CommittedIsPrefix'
    BY <1>1, <1>2, <1>3 DEF CommittedIsPrefix, IsPrefixRoot
  <2>2. ASSUME NEW i \in Slots
        PROVE  queue'.queue[i]
                 = IF i \in queue'.first .. queue'.last THEN RootAt(tree, i) ELSE Zero
    BY <1>3, <1>4, <1>5 DEF IndInv, QueueHoldsPendingRoots, Slots, Root
  <2>. QED  BY <1>1, <1>2, <1>5, <2>1, <2>2 DEF IndInv, QueueHoldsPendingRoots
<1>8. (Len(tree) <= MaxLeaves /\ NoncesAhead /\ DistinctNonces)'
  BY <1>2 DEF IndInv, NoncesAhead, DistinctNonces
<1>. QED  BY <1>6, <1>7, <1>8 DEF IndInv

(* A dispatch enqueues the root it makes and uses up a nonce. *)
LEMMA DispatchIndInv ==
  ASSUME IndInv, NEW d \in Domains, NEW b \in Bodies, dispatch(d, b)
  PROVE  IndInv'
<1> DEFINE leaf == formatMessage(nonces[d], d, b)
<1>1. /\ leaf \in Leaf
      /\ tree \in Seq(Leaf) /\ tree' = Append(tree, leaf)
      /\ tree' \in Seq(Leaf) /\ Len(tree') = Len(tree) + 1
      /\ Len(tree) < MaxLeaves
      /\ nonces \in [Domains -> 0 .. NonceModulus - 1]
      /\ nonces' = [nonces EXCEPT ![d] = nextNonce(nonces[d])]
  BY DEF IndInv, TypeOK, dispatch, canInsert, formatMessage, Leaf
<1>2. UNCHANGED <<state, updater, committedRoot, updaterManager, managerHome, managerUpdater>>
  BY DEF dispatch, managerVars
<1>3. nonces' \in [Domains -> 0 .. NonceModulus - 1]
  BY <1>1, NextNonce
<1>4. /\ queue \in [first : Nat, last : Nat, queue : [Slots -> Root]]
      /\ queue.last = Len(tree)
      /\ Len(tree) + 1 \in Slots
      /\ queue' = [queue EXCEPT !.last = queue.last + 1, !.queue[queue.last + 1] = tree']
  BY <1>1, MaxLeavesAssumption
     DEF IndInv, TypeOK, QueueHoldsPendingRoots, dispatch, enqueue, Slots
<1>5. /\ queue'.first = queue.first
      /\ queue'.last = Len(tree')
      /\ queue'.queue = [queue.queue EXCEPT ![Len(tree')] = tree']
      /\ queue' \in [first : Nat, last : Nat, queue : [Slots -> Root]]
  <2>1. tree' \in Root /\ Len(tree) + 1 = Len(tree') /\ Len(tree') \in Nat
    BY <1>1 DEF Root
  <2>2. queue' = [queue EXCEPT !.last = Len(tree'),
                               !.queue = [queue.queue EXCEPT ![Len(tree')] = tree']]
    BY <1>4, <2>1
  <2>3. [queue.queue EXCEPT ![Len(tree')] = tree'] \in [Slots -> Root]
    BY <1>4, <2>1
  <2>. QED  BY <1>4, <2>1, <2>2, <2>3
<1>6. TypeOK'
  BY <1>1, <1>2, <1>3, <1>5 DEF IndInv, TypeOK
<1>7. \A n \in 0 .. Len(tree) : RootAt(tree', n) = RootAt(tree, n)
  BY <1>1, RootAtAppend
<1>8. RootAt(tree', Len(tree')) = tree'
  BY <1>1, RootAtEnds
<1>9. QueueHoldsPendingRoots'
  <2>1. CommittedIsPrefix'
    BY <1>1, <1>2, <1>7
       DEF IndInv, TypeOK, Root, QueueHoldsPendingRoots, CommittedIsPrefix, IsPrefixRoot
  <2>2. committedRoot \in Root /\ Len(committedRoot) <= Len(tree)
        /\ queue.first = Len(committedRoot) + 1
    BY DEF IndInv, TypeOK, QueueHoldsPendingRoots, CommittedIsPrefix, IsPrefixRoot
  <2>3. ASSUME NEW i \in Slots
        PROVE  queue'.queue[i]
                 = IF i \in queue'.first .. queue'.last THEN RootAt(tree', i) ELSE Zero
    <3>1. CASE i = Len(tree')
      <4>1. queue'.queue[i] = tree'
        BY <1>4, <1>5, <3>1
      <4>2. i \in queue'.first .. queue'.last
        BY <1>1, <1>5, <2>2, <3>1 DEF Root
      <4>. QED  BY <1>8, <3>1, <4>1, <4>2
    <3>2. CASE i # Len(tree')
      <4>1. queue'.queue[i] = queue.queue[i]
        BY <1>4, <1>5, <3>2
      <4>2. queue.queue[i]
              = IF i \in queue.first .. queue.last THEN RootAt(tree, i) ELSE Zero
        BY DEF IndInv, QueueHoldsPendingRoots
      <4>3. (i \in queue'.first .. queue'.last) <=> (i \in queue.first .. queue.last)
        BY <1>1, <1>4, <1>5, <2>2, <3>2 DEF Slots, Root
      <4>4. i \in queue.first .. queue.last => RootAt(tree', i) = RootAt(tree, i)
        BY <1>4, <1>7, <2>2 DEF Root
      <4>. QED  BY <4>1, <4>2, <4>3, <4>4
    <3>. QED  BY <3>1, <3>2
  <2>. QED  BY <1>2, <1>5, <2>1, <2>2, <2>3 DEF QueueHoldsPendingRoots
<1>10. Len(tree) < NonceModulus
  BY <1>1, MaxLeavesAssumption, NonceModulusAssumption
<1>11. /\ \A e \in Domains : nonces[e] \in Nat /\ nonces[e] <= Len(tree)
       /\ \A i \in DOMAIN tree : tree[i].nonce < nonces[tree[i].destination]
  BY <1>1, <1>10, NonceModulusAssumption DEF IndInv, NoncesAhead
<1>12. /\ DOMAIN tree' = DOMAIN tree \cup {Len(tree) + 1}
       /\ \A i \in DOMAIN tree : tree'[i] = tree[i] /\ tree[i] \in Leaf
       /\ tree'[Len(tree) + 1] = leaf
       /\ Len(tree) + 1 \notin DOMAIN tree
       /\ leaf.destination = d /\ leaf.nonce = nonces[d]
  BY <1>1 DEF formatMessage
<1>13. NoncesAhead'
  <2> SUFFICES ASSUME Len(tree') < NonceModulus
               PROVE  /\ \A e \in Domains : nonces'[e] <= Len(tree')
                      /\ \A i \in DOMAIN tree' : tree'[i].nonce < nonces'[tree'[i].destination]
    BY DEF NoncesAhead
  <2>1. nonces'[d] = nonces[d] + 1
    BY <1>1, <1>11, NextNonce, NonceModulusAssumption
  <2>2. \A e \in Domains : e # d => nonces'[e] = nonces[e]
    BY <1>1
  <2>3. \A e \in Domains : nonces'[e] <= Len(tree')
    BY <1>1, <1>11, <2>1, <2>2
  <2>4. ASSUME NEW i \in DOMAIN tree'
        PROVE  tree'[i].nonce < nonces'[tree'[i].destination]
    <3>1. CASE i \in DOMAIN tree
      <4>1. tree[i].destination \in Domains /\ tree[i].nonce \in Nat
        BY <1>12, <3>1, NonceModulusAssumption DEF Leaf
      <4>. QED  BY <1>11, <1>12, <2>1, <2>2, <3>1, <4>1
    <3>2. CASE i = Len(tree) + 1
      BY <1>11, <1>12, <2>1, <3>2
    <3>. QED  BY <1>12, <3>1, <3>2
  <2>. QED  BY <2>3, <2>4
<1>14. DistinctNonces'
  BY <1>11, <1>12, NonceModulusAssumption DEF IndInv, DistinctNonces, Leaf
<1>. QED  BY <1>1, <1>6, <1>9, <1>13, <1>14, MaxLeavesAssumption DEF IndInv

(* The invariant is preserved by every transaction. *)
LEMMA NextIndInv == IndInv /\ [Next]_vars => IndInv'
<1> SUFFICES ASSUME IndInv, [Next]_vars PROVE IndInv'
  OBVIOUS
<1>1. CASE Dispatch
  BY <1>1, DispatchIndInv DEF Dispatch
<1>2. CASE Update
  BY <1>2, CommitIndInv, FailIndInv DEF Update, update, improperUpdate
<1>3. CASE ReportImproperUpdate
  BY <1>3, FailIndInv DEF ReportImproperUpdate, improperUpdate
<1>4. CASE ReportDoubleUpdate
  BY <1>4, FailIndInv DEF ReportDoubleUpdate, doubleUpdate
<1>5. CASE Configure
  BY <1>5, ConfigureIndInv
<1>6. CASE UNCHANGED vars
  BY <1>6 DEF vars, rootVars, managerVars, IndInv, TypeOK, QueueHoldsPendingRoots,
              CommittedIsPrefix, NoncesAhead, DistinctNonces
<1>. QED  BY <1>1, <1>2, <1>3, <1>4, <1>5, <1>6 DEF Next

(***************************************************************************)
(* The theorems                                                            *)
(***************************************************************************)

(* The invariant of the specification. *)
LEMMA SpecIndInv == Spec => []IndInv
BY InitIndInv, NextIndInv, PTL DEF Spec

(* Every variable of Home keeps its type. *)
THEOREM HomeTypeOK == Spec => []TypeOK
BY SpecIndInv, PTL DEF IndInv

(* The queue of Home.sol always holds exactly the roots the tree had after *)
(* the committed one, in order: update never runs off its end.             *)
THEOREM HomeQueueHoldsPendingRoots == Spec => []QueueHoldsPendingRoots
BY SpecIndInv, PTL DEF IndInv

(* Home.dispatch never gives two messages the same destination and nonce.  *)
THEOREM HomeDistinctNonces == Spec => []DistinctNonces
BY SpecIndInv, PTL DEF IndInv

(* A root that update would accept stays acceptable until the committed    *)
(* root moves.                                                             *)
THEOREM HomeSuggestionNeverTurnsImproper == Spec => SuggestionNeverTurnsImproper
<1>1. IndInv /\ IndInv' /\ [Next]_vars =>
        [committedRoot' = committedRoot =>
           \A r \in RootsOf(tree) : contains(queue, r) => contains(queue', r)]_vars
  <2> SUFFICES ASSUME IndInv, IndInv', Next, committedRoot' = committedRoot,
                      NEW r, contains(queue, r)
               PROVE  contains(queue', r)
    BY DEF vars
  <2>1. CASE Dispatch
    <3>1. PICK d \in Domains, b \in Bodies : dispatch(d, b)
      BY <2>1 DEF Dispatch
    <3>2. PICK i \in queue.first .. queue.last : queue.queue[i] = r
      BY DEF contains
    <3>3. /\ queue \in [first : Nat, last : Nat, queue : [Slots -> Root]]
          /\ queue' = enqueue(queue, tree')
      BY <3>1 DEF dispatch, IndInv, TypeOK
    <3>4. queue'.first = queue.first /\ queue'.last = queue.last + 1
          /\ queue'.queue[i] = queue.queue[i]
      BY <3>2, <3>3 DEF enqueue
    <3>. QED  BY <3>2, <3>3, <3>4 DEF contains
  <2>2. CASE \E old, new, signer : commit(old, new, signer)
    <3>1. PICK old, new, signer : commit(old, new, signer)
      BY <2>2
    <3>2. contains(queue, new) /\ committedRoot' = new
      BY <3>1 DEF commit
    <3>3. Len(new) > Len(committedRoot)
      BY <3>2, QueueContents DEF IndInv, TypeOK, Root
    <3>. QED  BY <3>2, <3>3 DEF IndInv, TypeOK, Root
  <2>3. CASE UNCHANGED queue
    BY <2>3
  <2>. QED
    BY <2>1, <2>2, <2>3
       DEF Next, Update, update, improperUpdate, ReportImproperUpdate, ReportDoubleUpdate,
           doubleUpdate, fail, Configure, setUpdaterManager, setHome, setUpdater, rootVars
<1>. QED  BY <1>1, SpecIndInv, PTL DEF Spec, SuggestionNeverTurnsImproper

(* Home implements the append-only committed log that MessageLog states.   *)
THEOREM HomeImplementsMessageLog == Spec => ImplementsMessageLog
<1>1. Init => Log!Init
  BY DEF Init, InitRoots, Log!Init, Zero
<1>2. IndInv /\ IndInv' /\ [Next]_vars => [Log!Next]_(Log!logVars)
  <2> SUFFICES ASSUME IndInv, IndInv', [Next]_vars
               PROVE  Log!Next \/ UNCHANGED Log!logVars
    OBVIOUS
  <2>1. CASE Dispatch
    <3>1. PICK d \in Domains, b \in Bodies : dispatch(d, b)
      BY <2>1 DEF Dispatch
    <3>2. /\ notFailed
          /\ Len(tree) < MaxLeaves
          /\ tree' = Append(tree, formatMessage(nonces[d], d, b))
          /\ UNCHANGED <<state, committedRoot>>
      BY <3>1 DEF dispatch, canInsert
    <3>3. formatMessage(nonces[d], d, b) \in Leaf
      BY DEF IndInv, TypeOK, formatMessage, Leaf
    <3>4. \A i \in DOMAIN tree : tree[i] # formatMessage(nonces[d], d, b)
      <4>1. Len(tree) < NonceModulus
        BY <3>2, MaxLeavesAssumption, NonceModulusAssumption DEF IndInv, TypeOK
      <4>2. \A i \in DOMAIN tree : tree[i].nonce < nonces[tree[i].destination]
        BY <4>1 DEF IndInv, NoncesAhead
      <4>3. nonces[d] \in Nat
        BY NonceModulusAssumption DEF IndInv, TypeOK
      <4>. QED  BY <4>2, <4>3 DEF formatMessage
    <3>5. Log!Append1(formatMessage(nonces[d], d, b))
      BY <3>2, <3>4 DEF notFailed, Log!Append1
    <3>. QED  BY <3>3, <3>5 DEF Log!Next
  <2>2. CASE \E old, new, signer : commit(old, new, signer)
    <3>1. PICK old, new, signer : commit(old, new, signer)
      BY <2>2
    <3>2. Len(new) \in Len(committedRoot) + 1 .. Len(tree)
      BY <3>1, QueueContents DEF commit
    <3>3. Log!Commit(Len(new))
      BY <3>1, <3>2 DEF commit, notFailed, Log!Commit
    <3>. QED  BY <3>2, <3>3 DEF Log!Next
  <2>3. CASE notFailed /\ fail
    BY <2>3 DEF notFailed, fail, rootVars, Log!Next, Log!Halt
  <2>4. CASE Configure \/ UNCHANGED vars
    BY <2>4 DEF Configure, setUpdaterManager, setHome, setUpdater, vars, rootVars,
                Log!logVars
  <2>. QED
    BY <2>1, <2>2, <2>3, <2>4
       DEF Next, Update, update, improperUpdate, ReportImproperUpdate, ReportDoubleUpdate,
           doubleUpdate
<1>. QED  BY <1>1, <1>2, SpecIndInv, PTL DEF Spec, ImplementsMessageLog, Log!Spec
=============================================================================
