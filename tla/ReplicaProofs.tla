---------------------------- MODULE ReplicaProofs ----------------------------
(***************************************************************************)
(* What Replica guarantees whatever the domains, roots, time-outs and      *)
(* clock: its types, that a message is handled at most once, that the      *)
(* guard admits one handle at a time, and that a status only advances.     *)
(*                                                                         *)
(* The three invariants are inductive together: process may call handle    *)
(* because a message that is not yet Processed was never handled, and the  *)
(* guard is up only when no call is under way.                             *)
(***************************************************************************)
EXTENDS Replica, SequenceTheorems, TLAPS

(* What process keeps, and the rest, which it leaves alone.                *)
ProcessTypes ==
  /\ messages \in [Leaf -> {"None", "Proven", "Processed"}]
  /\ entered \in {0, 1}
  /\ calls \in Seq(Leaf)
  /\ handled \in [Leaf -> Nat]

OtherTypes ==
  /\ state \in {"Active", "Failed"}
  /\ updater \in Updaters
  /\ committedRoot \in Roots
  /\ optimisticSeconds \in OptimisticTimeouts
  /\ confirmAt \in [Roots -> 0 .. TimeModulus - 1]
  /\ now \in 1 .. MaxTime

ProcessInv == ProcessTypes /\ OneHandleAtATime /\ HandledOnce

IndInv == ProcessInv /\ OtherTypes

(* The invariant has the properties of Replica. *)
LEMMA IndInvImplies == IndInv => TypeOK /\ OneHandleAtATime /\ HandledOnce
BY DEF IndInv, ProcessInv, ProcessTypes, OtherTypes, TypeOK

noCalls == calls = << >>

(* A sequence that is neither empty nor longer than one. *)
LEMMA OnlyElement ==
  ASSUME NEW S, NEW s \in Seq(S), s # << >>, Len(s) <= 1
  PROVE  Len(s) = 1 /\ s[1] \in S
<1>1. Len(s) \in Nat \ {0}
  BY EmptySeq
<1>2. \A n \in Nat \ {0} : n <= 1 => n = 1
  OBVIOUS
<1>3. Len(s) = 1
  BY ONLY <1>1, <1>2, Len(s) <= 1, Zenon
<1> QED
  BY <1>3, ElementOfSeq

(* When no call is under way, none is to any message. *)
LEMMA CallsToNone == noCalls => \A l \in Leaf : CallsTo(l) = {}
BY DEF noCalls, CallsTo

(* The one call made when none was under way. *)
LEMMA CallsToOne ==
  ASSUME NEW leaf \in Leaf, noCalls, calls' = Append(calls, leaf)
  PROVE  /\ calls' = <<leaf>>
         /\ \A l \in Leaf : CallsTo(l)' # {} <=> l = leaf
<1>1. calls' = <<leaf>>
  BY DEF noCalls
<1>2. DOMAIN calls' = {1} /\ calls'[1] = leaf
  BY <1>1
<1> QED
  BY <1>1, <1>2 DEF CallsTo

(* The initial states. *)
LEMMA InitIndInv == Init => IndInv
<1> SUFFICES ASSUME Init PROVE IndInv
  OBVIOUS
<1>1. ProcessTypes /\ OtherTypes
  BY RootsAssumption, TimeAssumption DEF Init, ProcessTypes, OtherTypes
<1>2. OneHandleAtATime
  BY DEF Init, OneHandleAtATime
<1>3. HandledOnce
  BY CallsToNone DEF Init, HandledOnce, noCalls
<1> QED
  BY <1>1, <1>2, <1>3 DEF IndInv, ProcessInv

(* A step that leaves messages and calls alone.                            *)
LEMMA ProcessVarsUnchanged ==
  ASSUME ProcessInv, UNCHANGED processVars
  PROVE  ProcessInv'
<1>1. \A l \in Leaf : CallsTo(l)' = CallsTo(l)
  BY DEF CallsTo, processVars
<1> QED
  BY <1>1 DEF ProcessInv, ProcessTypes, OneHandleAtATime, HandledOnce, processVars

(* The types of the variables process leaves alone.                        *)
LEMMA OtherTypesKept ==
  ASSUME OtherTypes, Next
  PROVE  OtherTypes'
<1> USE DEF OtherTypes, processVars, baseVars, rootVars
<1>1. CASE Update
  <2> PICK old \in Roots, new \in Roots, s \in Updaters : update(old, new, s)
    BY <1>1 DEF Update
  <2>1. wrap(now + optimisticSeconds) \in 0 .. TimeModulus - 1
    BY TimeAssumption DEF wrap
  <2> QED
    BY <2>1 DEF update
<1>2. CASE ReportDoubleUpdate
  BY <1>2 DEF ReportDoubleUpdate, doubleUpdate
<1>3. CASE Govern
  <2>1. 0 .. MaxTime \subseteq 0 .. TimeModulus - 1
    BY TimeAssumption
  <2> QED
    BY <1>3, <2>1 DEF Govern, setOptimisticTimeout, setUpdater, setConfirmation
<1>4. CASE Tick
  BY <1>4, TimeAssumption DEF Tick
<1>5. CASE Prove \/ ProveAndProcess \/ Process \/ handleReturns
  BY <1>5 DEF Prove, prove, ProveAndProcess, proveAndProcess, Process, process, callHandle,
              handleReturns
<1> QED
  BY <1>1, <1>2, <1>3, <1>4, <1>5 DEF Next

(* Proving a message touches one that is neither handled nor in a call.    *)
LEMMA ProveProcessInv ==
  ASSUME ProcessInv, NEW leaf \in Leaf, NEW index, NEW root, prove(leaf, index, root)
  PROVE  ProcessInv'
<1>1. ProcessTypes'
  BY DEF ProcessInv, ProcessTypes, prove
<1>2. \A l \in Leaf : CallsTo(l)' = CallsTo(l)
  BY DEF CallsTo, prove
<1>3. OneHandleAtATime'
  BY DEF ProcessInv, OneHandleAtATime, prove
<1>4. HandledOnce'
  BY <1>2 DEF ProcessInv, ProcessTypes, HandledOnce, prove, canProve
<1> QED
  BY <1>1, <1>3, <1>4 DEF ProcessInv

(* Calling handle, for a message that is not yet Processed.                *)
LEMMA CallProcessInv ==
  ASSUME ProcessInv, NEW leaf \in Leaf, messages[leaf] # "Processed", callHandle(leaf)
  PROVE  ProcessInv'
<1>1. noCalls
  BY DEF ProcessInv, OneHandleAtATime, callHandle, guardIsUp, noCalls
<1>2. handled[leaf] = 0 /\ \A l \in Leaf : CallsTo(l) = {}
  <2>1. \A l \in Leaf : CallsTo(l) = {}
    BY <1>1, CallsToNone
  <2>2. handled[leaf] \in Nat
    BY DEF ProcessInv, ProcessTypes
  <2>3. handled[leaf] <= 1 /\ handled[leaf] # 1
    BY <2>1, <2>2 DEF ProcessInv, HandledOnce
  <2> QED
    BY <2>1, <2>2, <2>3
<1>3. leaf.destination = localDomain
  BY DEF callHandle
<1>4. CASE UNCHANGED <<entered, calls>>
  <2>1. ProcessTypes'
    BY <1>4 DEF ProcessInv, ProcessTypes, callHandle
  <2>2. \A l \in Leaf : CallsTo(l)' = CallsTo(l)
    BY <1>4 DEF CallsTo
  <2>3. OneHandleAtATime'
    BY <1>4 DEF ProcessInv, OneHandleAtATime
  <2>4. HandledOnce'
    BY <2>2, <1>2, <1>3 DEF ProcessInv, ProcessTypes, HandledOnce, callHandle
  <2> QED
    BY <2>1, <2>3, <2>4 DEF ProcessInv
<1>5. CASE entered' = 0 /\ calls' = Append(calls, leaf)
  <2>1. calls' = <<leaf>> /\ \A l \in Leaf : CallsTo(l)' # {} <=> l = leaf
    BY <1>1, <1>5, CallsToOne
  <2>2. ProcessTypes'
    BY <1>5, <2>1 DEF ProcessInv, ProcessTypes, callHandle
  <2>3. OneHandleAtATime'
    BY <1>5, <2>1 DEF OneHandleAtATime
  <2>4. HandledOnce'
    BY <2>1, <1>2, <1>3 DEF ProcessInv, ProcessTypes, HandledOnce, callHandle
  <2> QED
    BY <2>2, <2>3, <2>4 DEF ProcessInv
<1> QED
  BY <1>4, <1>5 DEF callHandle

(* The call under way, which is the only one, returns.                     *)
LEMMA ReturnProcessInv ==
  ASSUME ProcessInv, handleReturns
  PROVE  ProcessInv'
<1>1. Len(calls) = 1 /\ calls[1] \in Leaf
  BY OnlyElement DEF ProcessInv, ProcessTypes, OneHandleAtATime, handleReturns
<1> DEFINE leaf == calls[1]
<1>2. calls' = << >>
  BY <1>1 DEF handleReturns, ProcessInv, ProcessTypes
<1>3. handled' = [handled EXCEPT ![leaf] = @ + 1] /\ UNCHANGED messages /\ entered' = 1
  BY <1>1 DEF handleReturns
<1>4. \A l \in Leaf : CallsTo(l) # {} <=> l = leaf
  BY <1>1 DEF CallsTo, ProcessInv, ProcessTypes
<1>5. handled[leaf] = 0 /\ messages[leaf] = "Processed" /\ leaf.destination = localDomain
  BY <1>1, <1>4 DEF ProcessInv, ProcessTypes, HandledOnce
<1>6. ProcessTypes'
  BY <1>1, <1>2, <1>3 DEF ProcessInv, ProcessTypes, handleReturns
<1>7. OneHandleAtATime'
  BY <1>2, <1>3 DEF OneHandleAtATime
<1>8. \A l \in Leaf : CallsTo(l)' = {}
  BY <1>2 DEF CallsTo
<1>9. HandledOnce'
  BY <1>3, <1>4, <1>5, <1>8 DEF ProcessInv, ProcessTypes, HandledOnce
<1> QED
  BY <1>6, <1>7, <1>9 DEF ProcessInv

(* Every leaf of a root is a leaf. *)
LEMMA LeafOfRoot ==
  ASSUME NEW root \in Roots, NEW i \in DOMAIN root
  PROVE  root[i] \in Leaf
BY RootsAssumption DEF Root

(* The invariant is preserved by every transaction. *)
LEMMA NextIndInv == IndInv /\ [Next]_vars => IndInv'
<1> SUFFICES ASSUME ProcessInv, OtherTypes, [Next]_vars PROVE ProcessInv' /\ OtherTypes'
  BY DEF IndInv
<1>1. CASE Update \/ ReportDoubleUpdate \/ Govern \/ Tick
  <2>1. UNCHANGED processVars
    BY <1>1 DEF Update, update, ReportDoubleUpdate, doubleUpdate, Govern,
                setOptimisticTimeout, setUpdater, setConfirmation, Tick
  <2> QED
    BY <1>1, <2>1, ProcessVarsUnchanged, OtherTypesKept DEF Next
<1>2. CASE Prove
  <2> PICK root \in Roots : \E i \in DOMAIN root : prove(root[i], i - 1, root)
    BY <1>2 DEF Prove
  <2> QED
    BY <1>2, LeafOfRoot, ProveProcessInv, OtherTypesKept DEF Next
<1>3. CASE ProveAndProcess
  <2> PICK root \in Roots : \E i \in DOMAIN root : proveAndProcess(root[i], i - 1, root)
    BY <1>3 DEF ProveAndProcess
  <2> PICK i \in DOMAIN root : proveAndProcess(root[i], i - 1, root)
    OBVIOUS
  <2>1. messages[root[i]] # "Processed" /\ callHandle(root[i])
    BY DEF proveAndProcess, canProve
  <2> QED
    BY <1>3, <2>1, LeafOfRoot, CallProcessInv, OtherTypesKept DEF Next
<1>4. CASE Process
  <2> PICK leaf \in Leaf : process(leaf)
    BY <1>4 DEF Process
  <2> QED
    BY <1>4, CallProcessInv, OtherTypesKept DEF process, Next
<1>5. CASE handleReturns
  BY <1>5, ReturnProcessInv, OtherTypesKept DEF Next
<1>6. CASE UNCHANGED vars
  BY <1>6, ProcessVarsUnchanged DEF vars, baseVars, rootVars, processVars, OtherTypes
<1> QED
  BY <1>1, <1>2, <1>3, <1>4, <1>5, <1>6 DEF Next

(* The invariant of the specification. *)
LEMMA SpecIndInv == Spec => []IndInv
BY InitIndInv, NextIndInv, PTL DEF Spec

(* Every variable of a Replica holds a value of its Solidity type: timers  *)
(* are uint256 even if timestamp + optimisticSeconds wraps (Replica.sol).  *)
THEOREM ReplicaTypeOK == Spec => []TypeOK
<1>1. IndInv => TypeOK
  BY IndInvImplies
<1> QED
  BY <1>1, SpecIndInv, PTL

(* No message is handled twice, or by a Replica of another domain than its *)
(* destination, whatever the recipients call back (Replica.process).       *)
THEOREM ReplicaHandledOnce == Spec => []HandledOnce
<1>1. IndInv => HandledOnce
  BY IndInvImplies
<1> QED
  BY <1>1, SpecIndInv, PTL

(* The re-entrancy guard of Replica.process admits one handle at a time    *)
(* and is up again when it has returned.                                   *)
THEOREM ReplicaOneHandleAtATime == Spec => []OneHandleAtATime
<1>1. IndInv => OneHandleAtATime
  BY IndInvImplies
<1> QED
  BY <1>1, SpecIndInv, PTL

(* No transaction takes a message back to a status it has left.            *)
THEOREM ReplicaStatusOnlyAdvances == Spec => StatusOnlyAdvances
<1> DEFINE advances == \A l \in Leaf : Rank[messages'[l]] >= Rank[messages[l]]
<1>1. ASSUME TypeOK, Next PROVE advances
  <2>1. CASE UNCHANGED messages
    BY <2>1, <1>1 DEF TypeOK, Rank
  <2>2. ASSUME NEW leaf \in Leaf, NEW status \in {"Proven", "Processed"},
               messages[leaf] = "None" \/ (messages[leaf] = "Proven" /\ status = "Processed"),
               messages' = [messages EXCEPT ![leaf] = status]
        PROVE  advances
    BY <2>2, <1>1 DEF TypeOK, Rank
  <2>3. CASE Prove
    <3> PICK root \in Roots : \E i \in DOMAIN root : prove(root[i], i - 1, root)
      BY <2>3 DEF Prove
    <3> QED
      BY <2>2, LeafOfRoot DEF prove, canProve
  <2>4. CASE ProveAndProcess
    <3> PICK root \in Roots : \E i \in DOMAIN root : proveAndProcess(root[i], i - 1, root)
      BY <2>4 DEF ProveAndProcess
    <3> QED
      BY <2>2, LeafOfRoot DEF proveAndProcess, canProve, callHandle
  <2>5. CASE Process
    BY <2>2, <2>5 DEF Process, process, callHandle
  <2>6. CASE Update \/ ReportDoubleUpdate \/ Govern \/ Tick \/ handleReturns
    BY <2>1, <2>6 DEF Update, update, ReportDoubleUpdate, doubleUpdate, Govern,
         setOptimisticTimeout, setUpdater, setConfirmation, Tick, handleReturns, processVars
  <2> QED
    BY <1>1, <2>3, <2>4, <2>5, <2>6 DEF Next
<1>2. TypeOK /\ [Next]_vars => [advances]_vars
  BY <1>1
<1> QED
  BY <1>2, ReplicaTypeOK, PTL DEF Spec, StatusOnlyAdvances
=============================================================================
