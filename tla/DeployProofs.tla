------------------------------ MODULE DeployProofs ------------------------------
(***************************************************************************)
(* What the deployments keep to for any number of chains, any watchers and *)
(* any sequence of the scripts: no chain is orphaned, the Replicas of a    *)
(* chain share a beacon, and agents index from before there is a Home.     *)
(*                                                                         *)
(* The first part follows scripts that keep a discipline while their tasks *)
(* take turns with the chains: whatever a step of a script requires is     *)
(* done, in its own task or an earlier phase, when the transaction it      *)
(* sends is mined. The second part shows that the scripts of DeployScripts *)
(* keep to the discipline, and that those run one after the other do.      *)
(***************************************************************************)
EXTENDS Deploy, FiniteSetTheorems, WellFoundedInduction, TLAPS

(***************************************************************************)
(* What the scripts are made of                                            *)
(***************************************************************************)

Ops ==
  {"Implementation", "Beacon", "Proxy", "deploy", "setHome", "transferOwnership",
   "ownerEnrollReplica", "setWatcherPermission", "setRouterLocal", "transferGovernor", "batch",
   "enrollRemoteRouter", "enrollCustom", "initialize", "setDetails", "setDetailsByOthers",
   "deployUnenrolledReplica", "assignReplica", "transferGovernorship", "recordFromBlock",
   "writeOutput", "writeReplica", "enrollSpoke", "enrollSpokeInDev",
   "checkHubToSpokeConnectionWithWaiter"} \cup Checks

Names ==
  {"", "Home", "Replica", "GovernanceRouter", "UpdaterManager", "XAppConnectionManager",
   "UpgradeBeaconController", "BridgeToken", "BridgeRouter", "TokenRegistry", "EthHelper",
   "CustomController", "CustomToken", NoAccount} \cup Accounts \cup Watchers

Steps ==
  [kind : {"send", "wait", "call"}, op : Ops, on : Chains, name : Names,
   remote : Chains \cup {None}, beacon : Chains \cup {None}]

Phases == UNION {[ts -> Seq(Steps)] : ts \in SUBSET Chains}

sent(x) == [x EXCEPT !.kind = "send"]

(* The steps of a task before the i-th, and all steps of a phase. *)
before(q, i) == {q[j] : j \in 1 .. i - 1}

stepsOf(ph) == UNION {ToSet(ph[t]) : t \in DOMAIN ph}

isCall(x, op) == x.kind = "call" /\ x.op = op

isSend(x, op) == x.kind = "send" /\ x.op = op

(* What a step may rest on though another task has done it: what was       *)
(* waited for, and what was recorded.                                      *)
Facts ==
  {x \in Steps : \/ x.kind = "wait" /\ x.op # "batch"
                 \/ isCall(x, "recordFromBlock")}

(***************************************************************************)
(* The discipline of the scripts                                           *)
(***************************************************************************)

IsReplicaProxy(x) == x.op = "Proxy" /\ x.name = "Replica"

(* A transaction of the scripts, and a call of theirs. *)
SoundTx(x) ==
  /\ isSend(x, "transferGovernor") => x.remote = Hub /\ (x.on = Hub => x.name \in Accounts)
  /\ isSend(x, "deploy") => x.name # "GovernanceRouter"
  /\ isSend(x, "Proxy") /\ x.name = "Replica" => x.remote \in Chains /\ x.beacon \in Chains
  /\ isSend(x, "setRouterLocal") => x.remote \in Chains
  /\ isSend(x, "batch") => x.remote \in Chains

SoundCall(x) ==
  /\ x.op \in Checks => x.kind = "call"
  /\ isCall(x, "transferGovernorship") => x.on # Hub
  /\ isCall(x, "deployUnenrolledReplica") => x.remote \in Chains
  /\ isCall(x, "assignReplica") => x.remote \in Chains
  /\ isCall(x, "enrollSpoke") => x.remote \in Chains
  /\ isCall(x, "enrollSpokeInDev") => x.remote \in Chains

(* The Replica that x notes is waited for in `own`. *)
WaitedFor(x, own) ==
  \E y \in own : y.kind = "wait" /\ IsReplicaProxy(y) /\ y.on = x.on /\ y.remote = x.remote

(* A step of a script that comes after the steps `own` of its task. *)
Orderly(x, own) ==
  /\ x.kind = "wait" => sent(x) \in own
  /\ SoundTx(x) /\ SoundCall(x)
  /\ isCall(x, "assignReplica") => WaitedFor(x, own)

OrderlyTask(q, own) == \A i \in DOMAIN q : Orderly(q[i], before(q, i) \cup own)

OrderlyScript(s) == \A p \in DOMAIN s : \A t \in DOMAIN s[p] : OrderlyTask(s[p][t], {})

(* Each step of s comes after the facts it requires, in its own task or in *)
(* an earlier phase.                                                       *)
stepsBefore(s, p) == UNION {stepsOf(s[r]) : r \in 1 .. p - 1}

Meets(requires, x, done) == \A y : <<x, y>> \in requires => y \in done

MeetsTask(requires, q, done) ==
  \A i \in DOMAIN q : Meets(requires, q[i], before(q, i) \cup done)

MeetsPhase(requires, ph, done) == \A t \in DOMAIN ph : MeetsTask(requires, ph[t], done)

MeetsScript(requires, s, done) ==
  \A p \in DOMAIN s : MeetsPhase(requires, s[p], stepsBefore(s, p) \cup done)

(***************************************************************************)
(* The scripts while they run                                              *)
(***************************************************************************)

mined(x) == did(x.on, x.op, x.name, x.remote)

known(x) == IF x.kind = "wait" THEN mined(x) ELSE x.on \in recorded

Known == {x \in Facts : known(x)}

(* A transaction that was sent is in the mempool or was mined; a batch     *)
(* leaves traces of its own.                                               *)
Out(x) == x \in ToSet(mempool[x.on]) \/ x \in reverted \/ mined(x) \/ x.op = "batch"

(* A step of a running task that has the steps `own` before it. *)
Expected(x, own) ==
  /\ x.kind = "wait" => sent(x) \in own \/ Out(sent(x))
  /\ SoundTx(x) /\ SoundCall(x)
  /\ isCall(x, "assignReplica") => beaconOf[x.on][x.remote] # None \/ WaitedFor(x, own)

ExpectedTask(q) == \A i \in DOMAIN q : Expected(q[i], before(q, i))

ExpectedTodo == \A t \in DOMAIN todo : ExpectedTask(todo[t])

ScriptsType ==
  /\ script \in Seq(Phases) /\ todo \in Phases
  /\ mempool \in [Chains -> Seq(Steps)] /\ reverted \subseteq Steps
  /\ executed \in [Chains -> SUBSET (Ops \X Names \X (Chains \cup {None}))]
  /\ recorded \subseteq Chains /\ batchFile \subseteq Chains
  /\ replicas \in [Chains -> SUBSET Chains]
  /\ beaconOf \in [Chains -> [Chains -> Chains \cup {None}]]

SoundMempool ==
  \A l \in Chains : \A x \in ToSet(mempool[l]) : x.on = l /\ x.kind = "send" /\ SoundTx(x)

(* What was mined of a Replica's proxy gave it a beacon, and the script    *)
(* knows of no Replica without one.                                        *)
ProxiesHaveBeacons ==
  \A l, d \in Chains : did(l, "Proxy", "Replica", d) => beaconOf[l][d] # None

ReplicasHaveBeacons == \A l \in Chains : \A d \in replicas[l] : beaconOf[l][d] # None

ScriptInv ==
  /\ ScriptsType /\ SoundMempool
  /\ ProxiesHaveBeacons /\ ReplicasHaveBeacons
  /\ ExpectedTodo /\ OrderlyScript(script)

(* What is required is done before. *)
ReadyInv(requires) ==
  /\ MeetsPhase(requires, todo, Known)
  /\ MeetsScript(requires, script, stepsOf(todo) \cup Known)
  /\ \A l \in Chains : \A x \in ToSet(mempool[l]) : Meets(requires, x, Known)

(***************************************************************************)
(* Sequences of steps                                                      *)
(***************************************************************************)

(* The transaction that a wait waits for is a step too.                    *)
LEMMA SentStep ==
  ASSUME NEW x \in Steps
  PROVE  /\ sent(x) \in Steps /\ sent(x).kind = "send"
         /\ sent(x).op = x.op /\ sent(x).on = x.on /\ sent(x).name = x.name
         /\ sent(x).remote = x.remote /\ sent(x).beacon = x.beacon
BY DEF Steps, sent

(* A phase gives tasks, named for chains, their steps.                     *)
LEMMA PhaseType ==
  ASSUME NEW ph \in Phases
  PROVE  DOMAIN ph \subseteq Chains /\ \A t \in DOMAIN ph : ph[t] \in Seq(Steps)
BY DEF Phases

(* A phase with the steps of one task replaced is a phase.                 *)
LEMMA ChangedPhase ==
  ASSUME NEW ph \in Phases, NEW t \in DOMAIN ph, NEW q \in Seq(Steps)
  PROVE  [ph EXCEPT ![t] = q] \in Phases
BY DEF Phases

(* The steps that a task has left after its first. *)
LEMMA AfterFirst ==
  ASSUME NEW q \in Seq(Steps), q # << >>
  PROVE  /\ Tail(q) \in Seq(Steps) /\ Head(q) \in Steps /\ Head(q) = q[1] /\ 1 \in DOMAIN q
         /\ before(q, 1) = {}
         /\ \A i \in DOMAIN Tail(q) :
              /\ i + 1 \in DOMAIN q /\ Tail(q)[i] = q[i + 1]
              /\ before(q, i + 1) = before(Tail(q), i) \cup {Head(q)}
         /\ ToSet(q) = ToSet(Tail(q)) \cup {Head(q)}
<1>1. Tail(q) \in Seq(Steps) /\ Len(Tail(q)) = Len(q) - 1 /\ Len(q) \in Nat \ {0}
  OBVIOUS
<1>2. \A i \in 1 .. Len(q) - 1 : Tail(q)[i] = q[i + 1]
  OBVIOUS
<1>3. Head(q) = q[1] /\ q[1] \in Steps
  OBVIOUS
<1>4. before(q, 1) = {}
  BY DEF before
<1>5. ASSUME NEW i \in DOMAIN Tail(q)
      PROVE  before(q, i + 1) = before(Tail(q), i) \cup {Head(q)}
  <2>1. i \in 1 .. Len(q) - 1
    BY <1>1
  <2>2. \A j \in 1 .. i : j = 1 \/ (j - 1 \in 1 .. i - 1 /\ Tail(q)[j - 1] = q[j])
    BY <1>1, <1>2, <2>1
  <2>3. \A j \in 1 .. i - 1 : j + 1 \in 1 .. i /\ Tail(q)[j] = q[j + 1]
    BY <1>1, <1>2, <2>1
  <2>4. (i + 1) - 1 = i /\ 1 \in 1 .. i
    BY <2>1
  <2>5. before(q, i + 1) \subseteq before(Tail(q), i) \cup {Head(q)}
    BY <1>3, <2>2, <2>4 DEF before
  <2>6. before(Tail(q), i) \subseteq before(q, i + 1)
    BY <2>3, <2>4 DEF before
  <2>7. Head(q) \in before(q, i + 1)
    BY <1>3, <2>4 DEF before
  <2> QED
    BY <2>5, <2>6, <2>7
<1>6. ToSet(q) = ToSet(Tail(q)) \cup {Head(q)}
  <2>1. \A j \in 1 .. Len(q) : j = 1 \/ (j - 1 \in 1 .. Len(q) - 1 /\ Tail(q)[j - 1] = q[j])
    BY <1>1, <1>2
  <2>2. \A j \in 1 .. Len(q) - 1 : j + 1 \in 1 .. Len(q)
    BY <1>1
  <2>3. DOMAIN q = 1 .. Len(q) /\ DOMAIN Tail(q) = 1 .. Len(q) - 1 /\ 1 \in DOMAIN q
    BY <1>1
  <2>4. ASSUME NEW y \in ToSet(q)
        PROVE  y \in ToSet(Tail(q)) \cup {Head(q)}
    <3>1. PICK j \in 1 .. Len(q) : y = q[j]
      BY <2>3 DEF ToSet
    <3>2. y = Head(q) \/ (j - 1 \in DOMAIN Tail(q) /\ y = Tail(q)[j - 1])
      BY <1>3, <2>1, <2>3, <3>1
    <3> QED
      BY <3>2 DEF ToSet
  <2>5. ASSUME NEW y \in ToSet(Tail(q))
        PROVE  y \in ToSet(q)
    <3>1. PICK j \in 1 .. Len(q) - 1 : y = Tail(q)[j]
      BY <2>3 DEF ToSet
    <3>2. y = q[j + 1] /\ j + 1 \in DOMAIN q
      BY <1>2, <2>2, <2>3, <3>1
    <3> QED
      BY <3>2 DEF ToSet
  <2>6. Head(q) \in ToSet(q)
    BY <1>3, <2>3 DEF ToSet
  <2> QED
    BY <2>4, <2>5, <2>6
<1> QED
  BY <1>1, <1>2, <1>3, <1>4, <1>5, <1>6

(* Two sequences, one after the other. *)
LEMMA OneAfterOther ==
  ASSUME NEW q \in Seq(Steps), NEW r \in Seq(Steps)
  PROVE  /\ q \o r \in Seq(Steps) /\ ToSet(q \o r) = ToSet(q) \cup ToSet(r)
         /\ \A i \in DOMAIN (q \o r) :
              \/ /\ i \in DOMAIN q /\ (q \o r)[i] = q[i]
                 /\ before(q \o r, i) = before(q, i)
              \/ \E j \in DOMAIN r : /\ i = Len(q) + j /\ (q \o r)[i] = r[j]
                                     /\ before(q \o r, i) = ToSet(q) \cup before(r, j)
<1>1. PICK m \in Nat : m = Len(q)
  OBVIOUS
<1>2. PICK n \in Nat : n = Len(r)
  OBVIOUS
<1>0. q \o r \in Seq(Steps) /\ Len(q \o r) = Len(q) + Len(r)
  OBVIOUS
<1>3. PICK s \in Seq(Steps) : s = q \o r /\ Len(s) = m + n
  BY <1>0, <1>1, <1>2
<1>4. \A i \in 1 .. m : s[i] = q[i]
  BY <1>1, <1>3
<1>5. \A j \in 1 .. n : s[m + j] = r[j]
  BY <1>1, <1>2, <1>3
<1>6. DOMAIN s = 1 .. m + n /\ DOMAIN q = 1 .. m /\ DOMAIN r = 1 .. n
  BY <1>1, <1>2, <1>3
<1>7. \A i \in 1 .. m + n : i \in 1 .. m \/ (i - m \in 1 .. n /\ i = m + (i - m))
  OBVIOUS
<1>8. \A i \in 1 .. m : i \in 1 .. m + n
  OBVIOUS
<1>9. \A j \in 1 .. n : m + j \in 1 .. m + n
  OBVIOUS
<1>10. ToSet(s) = ToSet(q) \cup ToSet(r)
  <2>1. ToSet(s) \subseteq ToSet(q) \cup ToSet(r)
    <3>1. \A i \in 1 .. m : s[i] \in ToSet(q)
      BY <1>4, <1>6 DEF ToSet
    <3>2. \A j \in 1 .. n : s[m + j] \in ToSet(r)
      BY <1>5, <1>6 DEF ToSet
    <3>3. \A i \in 1 .. m + n : s[i] \in ToSet(q) \cup ToSet(r)
      BY <1>7, <3>1, <3>2
    <3> QED
      BY <1>6, <3>3 DEF ToSet
  <2>2. ToSet(q) \subseteq ToSet(s)
    BY <1>4, <1>6, <1>8 DEF ToSet
  <2>3. ToSet(r) \subseteq ToSet(s)
    BY <1>5, <1>6, <1>9 DEF ToSet
  <2> QED
    BY <2>1, <2>2, <2>3
<1>11. ASSUME NEW i \in 1 .. m PROVE before(s, i) = before(q, i)
  <2>1. \A j \in 1 .. i - 1 : j \in 1 .. m
    OBVIOUS
  <2> QED
    BY <1>4, <2>1 DEF before
<1>12. ASSUME NEW j \in 1 .. n PROVE before(s, m + j) = ToSet(q) \cup before(r, j)
  <2>1. \A k \in 1 .. (m + j) - 1 : k \in 1 .. m \/ (k - m \in 1 .. j - 1 /\ k - m \in 1 .. n /\ k = m + (k - m))
    OBVIOUS
  <2>2. \A k \in 1 .. m : k \in 1 .. (m + j) - 1
    OBVIOUS
  <2>3. \A k \in 1 .. j - 1 : m + k \in 1 .. (m + j) - 1 /\ k \in 1 .. n
    OBVIOUS
  <2>4. before(s, m + j) \subseteq ToSet(q) \cup before(r, j)
    <3>1. \A k \in 1 .. m : s[k] \in ToSet(q)
      BY <1>4, <1>6 DEF ToSet
    <3>2. \A k \in 1 .. j - 1 : k \in 1 .. n => s[m + k] \in before(r, j)
      BY <1>5 DEF before
    <3>3. \A k \in 1 .. (m + j) - 1 : s[k] \in ToSet(q) \cup before(r, j)
      BY <2>1, <3>1, <3>2
    <3> QED
      BY <3>3 DEF before
  <2>5. ToSet(q) \subseteq before(s, m + j)
    BY <1>4, <1>6, <2>2 DEF before, ToSet
  <2>6. before(r, j) \subseteq before(s, m + j)
    BY <1>5, <2>3 DEF before
  <2> QED
    BY <2>4, <2>5, <2>6
<1>13. ASSUME NEW i \in DOMAIN s
       PROVE  \/ i \in DOMAIN q /\ s[i] = q[i] /\ before(s, i) = before(q, i)
              \/ \E j \in DOMAIN r : /\ i = m + j /\ s[i] = r[j]
                                     /\ before(s, i) = ToSet(q) \cup before(r, j)
  <2>1. CASE i \in 1 .. m
    BY <1>4, <1>6, <1>11, <2>1
  <2>2. CASE i \notin 1 .. m
    <3>1. PICK j \in 1 .. n : i = m + j
      BY <1>6, <1>7, <2>2
    <3> QED
      BY <1>5, <1>6, <1>12, <3>1
  <2> QED
    BY <2>1, <2>2
<1> QED
  BY <1>1, <1>3, <1>10, <1>13

(***************************************************************************)
(* A task goes on                                                          *)
(***************************************************************************)

(* What is out stays out, and what is known stays known. *)
Keeps ==
  /\ \A x \in Steps : Out(x) => Out(x)'
  /\ \A x \in Facts : known(x) => known(x)'
  /\ \A l, d \in Chains : beaconOf[l][d] # None => beaconOf'[l][d] # None
  /\ ProxiesHaveBeacons'

(* A step that is done has done what others rely on. *)
Finishes(h) ==
  /\ h.kind = "send" => Out(h)'
  /\ h \in Facts => known(h)'

(* A step that was expected is so still when steps before it are done. *)
LEMMA StillExpected ==
  ASSUME NEW H \in SUBSET Steps, Keeps, \A h \in H : Finishes(h),
         NEW x \in Steps, NEW own, NEW rest, own \subseteq rest \cup H, Expected(x, own)
  PROVE  Expected(x, rest)'
<1>1. x.kind = "wait" => sent(x) \in rest \/ Out(sent(x))'
  <2> SUFFICES ASSUME x.kind = "wait", sent(x) \notin rest PROVE Out(sent(x))'
    OBVIOUS
  <2>1. CASE sent(x) \in own
    BY <2>1, SentStep DEF Finishes
  <2>2. CASE Out(sent(x))
    BY <2>2, SentStep DEF Keeps
  <2> QED
    BY <2>1, <2>2 DEF Expected
<1>2. ASSUME isCall(x, "assignReplica")
      PROVE  beaconOf'[x.on][x.remote] # None \/ WaitedFor(x, rest)
  <2>1. x.remote \in Chains /\ x.on \in Chains
    BY <1>2 DEF Expected, SoundCall, Steps
  <2>2. CASE beaconOf[x.on][x.remote] # None
    BY <2>1, <2>2 DEF Keeps
  <2>3. CASE WaitedFor(x, own)
    <3>1. PICK y \in own : y.kind = "wait" /\ IsReplicaProxy(y) /\ y.on = x.on /\ y.remote = x.remote
      BY <2>3 DEF WaitedFor
    <3>2. CASE y \in rest
      BY <3>1, <3>2 DEF WaitedFor
    <3>3. CASE y \in H
      <4>1. y \in Facts
        BY <3>1, <3>3 DEF Facts, IsReplicaProxy
      <4>2. did(x.on, "Proxy", "Replica", x.remote)'
        BY <3>1, <3>3, <4>1 DEF Finishes, known, mined, IsReplicaProxy, did
      <4> QED
        BY <2>1, <4>2 DEF Keeps, ProxiesHaveBeacons
    <3> QED
      BY <3>1, <3>2, <3>3
  <2> QED
    BY <1>2, <2>2, <2>3 DEF Expected
<1> QED
  BY <1>1, <1>2 DEF Expected

(* What a task may expect of the chains stays true while they keep what    *)
(* they have.                                                              *)
LEMMA StillExpectedTask ==
  ASSUME Keeps, NEW w \in Seq(Steps), ExpectedTask(w)
  PROVE  ExpectedTask(w)'
<1>1. ASSUME NEW i \in DOMAIN w PROVE Expected(w[i], before(w, i))'
  <2>1. PICK x \in Steps : x = w[i]
    OBVIOUS
  <2>2. PICK own : own = before(w, i)
    OBVIOUS
  <2>3. PICK rest : rest = own
    OBVIOUS
  <2>4. Expected(x, own)
    BY <2>1, <2>2 DEF ExpectedTask
  <2>5. own \subseteq rest \cup {}
    BY <2>3
  <2>6. Keeps /\ {} \in SUBSET Steps /\ \A h \in {} : Finishes(h)
    OBVIOUS
  <2>7. Expected(x, rest)'
    BY <2>4, <2>5, <2>6, StillExpected
  <2> QED
    BY <2>1, <2>2, <2>3, <2>7
<1> QED
  BY <1>1 DEF ExpectedTask

(* So it does for all tasks.                                               *)
LEMMA StillExpectedTodo ==
  ASSUME todo \in Phases, Keeps, ExpectedTodo, UNCHANGED todo
  PROVE  ExpectedTodo'
<1> SUFFICES ASSUME NEW u \in DOMAIN todo' PROVE ExpectedTask(todo[u])'
  BY DEF ExpectedTodo
<1>1. PICK w \in Seq(Steps) : w = todo[u]
  BY PhaseType
<1>2. ExpectedTask(w)'
  BY <1>1, StillExpectedTask DEF ExpectedTodo
<1>3. todo'[u] = w
  BY <1>1
<1> QED
  BY <1>2, <1>3

(* A step of two sequences in turn is one of the first, or one of the      *)
(* second that comes after all of the first.                               *)
LEMMA StepsOfBoth ==
  ASSUME NEW q \in Seq(Steps), NEW r \in Seq(Steps)
  PROVE  \A i \in DOMAIN (q \o r) :
           \/ i \in DOMAIN q /\ (q \o r)[i] = q[i] /\ before(q \o r, i) = before(q, i)
           \/ \E j \in DOMAIN r : /\ (q \o r)[i] = r[j]
                                  /\ before(q \o r, i) = ToSet(q) \cup before(r, j)
<1>1. \A i \in DOMAIN (q \o r) :
        \/ /\ i \in DOMAIN q /\ (q \o r)[i] = q[i]
           /\ before(q \o r, i) = before(q, i)
        \/ \E j \in DOMAIN r : /\ i = Len(q) + j /\ (q \o r)[i] = r[j]
                               /\ before(q \o r, i) = ToSet(q) \cup before(r, j)
  BY OneAfterOther
<1> QED
  BY <1>1, Zenon

(* The first step of a task is replaced by others. *)
LEMMA Proceeds ==
  ASSUME todo \in Phases, NEW t \in DOMAIN todo, NEW q \in Seq(Steps), q = todo[t], q # << >>,
         NEW h \in Steps, h = Head(q), NEW steps \in Seq(Steps),
         todo' = [todo EXCEPT ![t] = steps \o Tail(q)], Keeps, Finishes(h),
         ExpectedTodo, OrderlyTask(steps, {})
  PROVE  todo' \in Phases /\ ExpectedTodo'
<1>2. PICK r \in Seq(Steps) : r = Tail(q)
  BY AfterFirst
<1>4. PICK s \in Seq(Steps) : s = steps \o r
  BY OneAfterOther
<1>5. todo' = [todo EXCEPT ![t] = s]
  BY <1>2, <1>4
<1>6. todo' \in Phases
  <2>1. [todo EXCEPT ![t] = s] \in Phases
    BY ChangedPhase, Zenon
  <2> QED
    BY <1>5, <2>1, Zenon
<1>7. ASSUME NEW i \in DOMAIN r
      PROVE  Expected(r[i], ToSet(steps) \cup before(r, i))'
  <2>1. i + 1 \in DOMAIN q /\ r[i] = q[i + 1] /\ before(q, i + 1) = before(r, i) \cup {h} /\ r[i] \in Steps
    BY <1>2, AfterFirst
  <2>2. PICK x \in Steps : x = r[i]
    BY <2>1
  <2>3. PICK own : own = before(q, i + 1)
    OBVIOUS
  <2>4. PICK rest : rest = ToSet(steps) \cup before(r, i)
    OBVIOUS
  <2>5. Expected(x, own)
    BY <2>1, <2>2, <2>3 DEF ExpectedTodo, ExpectedTask
  <2>6. own \subseteq rest \cup {h}
    BY <2>1, <2>3, <2>4
  <2>7. Keeps /\ {h} \in SUBSET Steps /\ \A g \in {h} : Finishes(g)
    OBVIOUS
  <2>8. Expected(x, rest)'
    BY <2>5, <2>6, <2>7, StillExpected
  <2> QED
    BY <2>2, <2>4, <2>8
<1>11. \A i \in DOMAIN s :
         \/ i \in DOMAIN steps /\ s[i] = steps[i] /\ before(s, i) = before(steps, i)
         \/ \E j \in DOMAIN r : s[i] = r[j] /\ before(s, i) = ToSet(steps) \cup before(r, j)
  <2>1. \A i \in DOMAIN (steps \o r) :
          \/ i \in DOMAIN steps /\ (steps \o r)[i] = steps[i]
             /\ before(steps \o r, i) = before(steps, i)
          \/ \E j \in DOMAIN r : /\ (steps \o r)[i] = r[j]
                                 /\ before(steps \o r, i) = ToSet(steps) \cup before(r, j)
    BY StepsOfBoth
  <2> QED
    BY <1>4, <2>1, Zenon
<1>8. ExpectedTask(s)'
  <2> SUFFICES ASSUME NEW i \in DOMAIN s PROVE Expected(s[i], before(s, i))'
    BY DEF ExpectedTask
  <2>1. CASE i \in DOMAIN steps /\ s[i] = steps[i] /\ before(s, i) = before(steps, i)
    <3>1. Orderly(s[i], before(s, i) \cup {})
      BY <2>1 DEF OrderlyTask
    <3>2. before(s, i) \cup {} = before(s, i)
      OBVIOUS
    <3>3. Orderly(s[i], before(s, i))
      BY <3>1, <3>2
    <3> QED
      BY <3>3 DEF Expected, Orderly
  <2>2. CASE \E j \in DOMAIN r : s[i] = r[j] /\ before(s, i) = ToSet(steps) \cup before(r, j)
    BY <1>7, <2>2
  <2> QED
    BY <1>11, <2>1, <2>2
<1>9. \A u \in DOMAIN todo' : u # t => ExpectedTask(todo[u])'
  <2> SUFFICES ASSUME NEW u \in DOMAIN todo', u # t PROVE ExpectedTask(todo[u])'
    OBVIOUS
  <2>0. u \in DOMAIN todo
    BY <1>5
  <2>1. PICK w \in Seq(Steps) : w = todo[u]
    BY <2>0, PhaseType
  <2>3. ExpectedTask(w)'
    BY <2>0, <2>1, StillExpectedTask DEF ExpectedTodo
  <2>2. todo'[u] = w
    BY <1>5, <2>0, <2>1
  <2> QED
    BY <2>2, <2>3
<1>10. DOMAIN todo' = DOMAIN todo /\ todo'[t] = s
  BY <1>5
<1> QED
  BY <1>6, <1>8, <1>9, <1>10 DEF ExpectedTodo

(* What is required of a task that is done in part. *)
LEMMA ProceedsReady ==
  ASSUME NEW requires \in SUBSET (Steps \X Facts),
         todo \in Phases, NEW t \in DOMAIN todo, NEW q \in Seq(Steps), q = todo[t], q # << >>,
         NEW h \in Steps, h = Head(q), NEW steps \in Seq(Steps),
         todo' = [todo EXCEPT ![t] = steps \o Tail(q)], UNCHANGED script, Keeps, Finishes(h),
         MeetsPhase(requires, todo, Known), MeetsScript(requires, script, stepsOf(todo) \cup Known),
         MeetsTask(requires, steps, Known')
  PROVE  /\ MeetsPhase(requires, todo', Known')
         /\ MeetsScript(requires, script', stepsOf(todo') \cup Known')
<1>2. PICK r \in Seq(Steps) : r = Tail(q)
  BY AfterFirst
<1>4. PICK s \in Seq(Steps) : s = steps \o r
  BY OneAfterOther
<1>5. todo' = [todo EXCEPT ![t] = s]
  BY <1>2, <1>4
<1>6. Known \subseteq Known' /\ (h \in Facts => h \in Known')
  BY DEF Keeps, Finishes, Known
<1>7. ASSUME NEW i \in DOMAIN r
      PROVE  Meets(requires, r[i], (ToSet(steps) \cup before(r, i)) \cup Known')
  <2>1. i + 1 \in DOMAIN q /\ r[i] = q[i + 1] /\ before(q, i + 1) = before(r, i) \cup {h}
    BY <1>2, AfterFirst
  <2>2. Meets(requires, r[i], before(r, i) \cup {h} \cup Known)
    BY <2>1 DEF MeetsPhase, MeetsTask
  <2> QED
    BY <1>6, <2>2 DEF Meets
<1>11. \A i \in DOMAIN s :
         \/ i \in DOMAIN steps /\ s[i] = steps[i] /\ before(s, i) = before(steps, i)
         \/ \E j \in DOMAIN r : s[i] = r[j] /\ before(s, i) = ToSet(steps) \cup before(r, j)
  <2>1. \A i \in DOMAIN (steps \o r) :
          \/ i \in DOMAIN steps /\ (steps \o r)[i] = steps[i]
             /\ before(steps \o r, i) = before(steps, i)
          \/ \E j \in DOMAIN r : /\ (steps \o r)[i] = r[j]
                                 /\ before(steps \o r, i) = ToSet(steps) \cup before(r, j)
    BY StepsOfBoth
  <2> QED
    BY <1>4, <2>1, Zenon
<1>8. MeetsTask(requires, s, Known')
  BY <1>7, <1>11 DEF MeetsTask
<1>9. MeetsPhase(requires, todo', Known')
  <2> SUFFICES ASSUME NEW u \in DOMAIN todo, u # t PROVE MeetsTask(requires, todo[u], Known')
    BY <1>5, <1>8 DEF MeetsPhase
  <2>1. MeetsTask(requires, todo[u], Known)
    BY DEF MeetsPhase
  <2> QED
    BY <1>6, <2>1 DEF MeetsTask, Meets
<1>10. \A x \in stepsOf(todo) : x = h \/ x \in stepsOf(todo')
  <2> SUFFICES ASSUME NEW u \in DOMAIN todo, NEW x \in ToSet(todo[u]), x # h
               PROVE  x \in stepsOf(todo')
    BY DEF stepsOf
  <2>1. CASE u = t
    <3>1. x \in ToSet(r)
      BY <1>2, <2>1, AfterFirst
    <3>2. x \in ToSet(s)
      BY <1>4, <3>1, OneAfterOther
    <3> QED
      BY <1>5, <2>1, <3>2 DEF stepsOf
  <2>2. CASE u # t
    BY <1>5, <2>2 DEF stepsOf
  <2> QED
    BY <2>1, <2>2
<1>12. \A x \in Facts : x \in stepsOf(todo) \cup Known => x \in stepsOf(todo') \cup Known'
  BY <1>6, <1>10
<1>13. MeetsScript(requires, script, stepsOf(todo') \cup Known')
  BY <1>12 DEF MeetsScript, MeetsPhase, MeetsTask, Meets
<1> QED
  BY <1>9, <1>13
(***************************************************************************)
(* The steps of the scripts                                                *)
(***************************************************************************)

GoesOn(t, steps) ==
  /\ \E q \in Seq(Steps), h \in Steps :
       /\ q = todo[t] /\ q # << >> /\ h = Head(q) /\ Finishes(h)
       /\ todo' = [todo EXCEPT ![t] = steps \o Tail(q)]
  /\ Keeps /\ UNCHANGED script
  /\ steps \in Seq(Steps) /\ OrderlyTask(steps, {})

(* A task that replaces its first step by orderly ones expects what it     *)
(* may.                                                                    *)
LEMMA GoesOnExpected ==
  ASSUME ScriptInv, NEW t \in DOMAIN todo, NEW steps, GoesOn(t, steps)
  PROVE  todo' \in Phases /\ ExpectedTodo'
<1>1. PICK q \in Seq(Steps), h \in Steps :
        /\ q = todo[t] /\ q # << >> /\ h = Head(q) /\ Finishes(h)
        /\ todo' = [todo EXCEPT ![t] = steps \o Tail(q)]
  BY DEF GoesOn
<1>2. Keeps /\ steps \in Seq(Steps) /\ OrderlyTask(steps, {})
  BY DEF GoesOn
<1>3. todo \in Phases /\ ExpectedTodo
  BY DEF ScriptInv, ScriptsType
<1> QED
  BY <1>1, <1>2, <1>3, Proceeds

(* The steps a task puts in the place of its first find what they          *)
(* require, and so do all later ones.                                      *)
LEMMA GoesOnReady ==
  ASSUME ScriptInv, NEW t \in DOMAIN todo, NEW steps, GoesOn(t, steps),
         NEW requires \in SUBSET (Steps \X Facts),
         MeetsPhase(requires, todo, Known), MeetsScript(requires, script, stepsOf(todo) \cup Known),
         MeetsTask(requires, steps, Known')
  PROVE  /\ MeetsPhase(requires, todo', Known')
         /\ MeetsScript(requires, script', stepsOf(todo') \cup Known')
<1>1. PICK q \in Seq(Steps), h \in Steps :
        /\ q = todo[t] /\ q # << >> /\ h = Head(q) /\ Finishes(h)
        /\ todo' = [todo EXCEPT ![t] = steps \o Tail(q)]
  BY DEF GoesOn
<1>2. Keeps /\ steps \in Seq(Steps) /\ UNCHANGED script
  BY DEF GoesOn
<1>3. todo \in Phases
  BY DEF ScriptInv, ScriptsType
<1> QED
  BY <1>1, <1>2, <1>3, ProceedsReady

(* The step a task is at. *)
LEMMA FirstStep ==
  ASSUME ScriptInv, NEW t \in DOMAIN todo, todo[t] # << >>
  PROVE  /\ todo[t] \in Seq(Steps) /\ Head(todo[t]) \in Steps
         /\ Expected(Head(todo[t]), {}) /\ Head(todo[t]) \in ToSet(todo[t])
         /\ \A requires : MeetsPhase(requires, todo, Known) => Meets(requires, Head(todo[t]), Known)
<1>1. PICK q \in Seq(Steps) : q = todo[t]
  BY PhaseType DEF ScriptInv, ScriptsType
<1>2. Head(q) \in Steps /\ Head(q) = q[1] /\ 1 \in DOMAIN q /\ before(q, 1) = {} /\ Head(q) \in ToSet(q)
  BY <1>1, AfterFirst
<1>3. Expected(q[1], before(q, 1))
  BY <1>1, <1>2 DEF ScriptInv, ExpectedTodo, ExpectedTask
<1>4. ASSUME NEW requires, MeetsPhase(requires, todo, Known)
      PROVE  Meets(requires, Head(q), Known)
  <2>1. Meets(requires, q[1], before(q, 1) \cup Known)
    BY <1>1, <1>2, <1>4 DEF MeetsPhase, MeetsTask
  <2> QED
    BY <1>2, <2>1 DEF Meets
<1> QED
  BY <1>1, <1>2, <1>3, <1>4

(* The task with no steps.                                                 *)
LEMMA NothingIsOrderly == << >> \in Seq(Steps) /\ OrderlyTask(<< >>, {}) /\ DOMAIN << >> = {}
<1>1. << >> \in Seq(Steps) /\ Len(<< >>) = 0
  OBVIOUS
<1>2. \A q \in Seq(Steps) : Len(q) = 0 => DOMAIN q = {}
  OBVIOUS
<1>3. DOMAIN << >> = {}
  BY <1>1, <1>2
<1> QED
  BY <1>1, <1>3 DEF OrderlyTask

(* Nothing the script relies on changes but for what it records. *)
LEMMA OthersKeep ==
  ASSUME ScriptInv, UNCHANGED <<mempool, reverted, executed, beaconOf>>, recorded \subseteq recorded'
  PROVE  Keeps
<1>1. \A x \in Steps : Out(x) => Out(x)'
  BY DEF Out, mined, did
<1>2. \A x \in Facts : known(x) => known(x)'
  BY DEF known, mined, did
<1>3. ProxiesHaveBeacons'
  BY DEF ScriptInv, ProxiesHaveBeacons, did
<1> QED
  BY <1>1, <1>2, <1>3 DEF Keeps

(* Appending a step.                                                       *)
LEMMA Appended ==
  ASSUME NEW s \in Seq(Steps), NEW x \in Steps
  PROVE  Append(s, x) \in Seq(Steps) /\ ToSet(Append(s, x)) = ToSet(s) \cup {x}
<1>0. Append(s, x) \in Seq(Steps)
  OBVIOUS
<1>1. PICK r \in Seq(Steps) : r = Append(s, x)
  BY <1>0
<1>2. PICK n \in Nat : n = Len(s)
  OBVIOUS
<1>3. DOMAIN r = 1 .. n + 1 /\ DOMAIN s = 1 .. n /\ r[n + 1] = x /\ \A i \in 1 .. n : r[i] = s[i]
  BY <1>1, <1>2
<1>4. \A i \in 1 .. n + 1 : i \in 1 .. n \/ i = n + 1
  OBVIOUS
<1>5. 1 .. n \subseteq 1 .. n + 1 /\ n + 1 \in 1 .. n + 1
  OBVIOUS
<1>6. ToSet(r) \subseteq ToSet(s) \cup {x}
  BY <1>3, <1>4 DEF ToSet
<1>7. ToSet(s) \subseteq ToSet(r) /\ x \in ToSet(r)
  BY <1>3, <1>5 DEF ToSet
<1> QED
  BY <1>1, <1>6, <1>7

(* Send puts one transaction in the mempool of its chain.                  *)
LEMMA SendStep ==
  ASSUME ScriptInv, NEW t \in DOMAIN todo, Send(t)
  PROVE  /\ GoesOn(t, << >>) /\ ScriptInv'
         /\ \A l \in Chains : ToSet(mempool'[l]) \subseteq ToSet(mempool[l]) \cup {Head(todo[t])}
<1>1. todo[t] # << >>
  BY DEF Send, at, running
<1>2. PICK q \in Seq(Steps) : q = todo[t] /\ q # << >>
  BY <1>1, FirstStep
<1>3. PICK h \in Steps : h = Head(q)
  BY <1>1, <1>2, FirstStep
<1>4. h.kind = "send" /\ Expected(h, {})
  BY <1>1, <1>2, <1>3, FirstStep DEF Send, at
<1>5. h.on \in Chains /\ mempool[h.on] \in Seq(Steps)
  BY DEF Steps, ScriptInv, ScriptsType
<1>6. mempool' = [mempool EXCEPT ![h.on] = Append(@, h)]
  BY <1>2, <1>3 DEF Send
<1>7. todo' = [todo EXCEPT ![t] = << >> \o Tail(q)]
  BY <1>2 DEF Send, next, instead
<1>8. /\ mempool' \in [Chains -> Seq(Steps)]
      /\ ToSet(mempool'[h.on]) = ToSet(mempool[h.on]) \cup {h}
      /\ \A l \in Chains \ {h.on} : mempool'[l] = mempool[l]
  <2>1. Append(mempool[h.on], h) \in Seq(Steps)
        /\ ToSet(Append(mempool[h.on], h)) = ToSet(mempool[h.on]) \cup {h}
    BY <1>5, Appended
  <2>2. mempool \in [Chains -> Seq(Steps)]
    BY DEF ScriptInv, ScriptsType
  <2>3. mempool'[h.on] = Append(mempool[h.on], h)
    BY <1>5, <1>6, <2>2
  <2> QED
    BY <1>5, <1>6, <2>1, <2>2, <2>3
<1>9. Keeps
  <2>1. \A x \in Steps : x \in ToSet(mempool[x.on]) => x \in ToSet(mempool'[x.on])
    BY <1>8 DEF Steps
  <2>2. UNCHANGED <<reverted, executed, beaconOf, recorded>>
    BY DEF Send
  <2>3. \A x \in Steps : Out(x) => Out(x)'
    BY <2>1, <2>2 DEF Out, mined, did
  <2>4. \A x \in Facts : known(x) => known(x)'
    BY <2>2 DEF known, mined, did
  <2>5. ProxiesHaveBeacons'
    BY <2>2 DEF ScriptInv, ProxiesHaveBeacons, did
  <2> QED
    BY <2>2, <2>3, <2>4, <2>5 DEF Keeps
<1>10. Finishes(h)
  <2>1. h \notin Facts
    BY <1>4 DEF Facts, isCall
  <2>2. h \in ToSet(mempool'[h.on])
    BY <1>8
  <2> QED
    BY <2>1, <2>2 DEF Finishes, Out
<1>11. GoesOn(t, << >>)
  <2>1. UNCHANGED script
    BY DEF Send
  <2> QED
    BY <1>2, <1>3, <1>7, <1>9, <1>10, <2>1, NothingIsOrderly DEF GoesOn
<1>12. todo' \in Phases /\ ExpectedTodo'
  BY <1>11, GoesOnExpected
<1>13. SoundMempool'
  <2>1. SoundTx(h)
    BY <1>4 DEF Expected
  <2>2. SoundMempool
    BY DEF ScriptInv
  <2> SUFFICES ASSUME NEW l \in Chains, NEW x \in ToSet(mempool'[l])
               PROVE  x.on = l /\ x.kind = "send" /\ SoundTx(x)
    BY DEF SoundMempool
  <2>3. CASE x \in ToSet(mempool[l])
    BY <2>2, <2>3 DEF SoundMempool
  <2>4. CASE l = h.on /\ x = h
    BY <1>4, <2>1, <2>4
  <2>5. x \in ToSet(mempool[l]) \/ (l = h.on /\ x = h)
    BY <1>8
  <2> QED
    BY <2>3, <2>4, <2>5
<1>14. ScriptInv'
  <2>1. UNCHANGED <<script, replicas, recorded, batchFile, reverted, executed, beaconOf>>
    BY DEF Send
  <2> QED
    BY <1>8, <1>9, <1>12, <1>13, <2>1 DEF ScriptInv, ScriptsType, Keeps, ReplicasHaveBeacons
<1> QED
  BY <1>2, <1>3, <1>5, <1>8, <1>11, <1>14

(* Wait changes its task alone.                                            *)
LEMMA WaitStep ==
  ASSUME ScriptInv, NEW t \in DOMAIN todo, Wait(t)
  PROVE  GoesOn(t, << >>) /\ ScriptInv'
<1>1. todo[t] # << >>
  BY DEF Wait, at, running
<1>2. PICK q \in Seq(Steps) : q = todo[t] /\ q # << >>
  BY <1>1, FirstStep
<1>3. PICK h \in Steps : h = Head(q)
  BY <1>1, <1>2, FirstStep
<1>4. h.kind = "wait" /\ Expected(h, {})
  BY <1>1, <1>2, <1>3, FirstStep DEF Wait, at
<1>5. sent(h) \notin ToSet(mempool[h.on]) /\ sent(h) \notin reverted
  BY <1>2, <1>3, SentStep DEF Wait, sent
<1>6. todo' = [todo EXCEPT ![t] = << >> \o Tail(q)]
  BY <1>2 DEF Wait, next, instead
<1>7. UNCHANGED <<script, replicas, recorded, batchFile, mempool, reverted, executed, beaconOf>>
  BY DEF Wait
<1>8. Keeps
  BY <1>7, OthersKeep
<1>9. Finishes(h)
  <2>1. ASSUME h \in Facts PROVE known(h)'
    <3>1. Out(sent(h)) /\ h.op # "batch"
      BY <1>4, <2>1 DEF Expected, Facts, isCall
    <3>2. mined(h)
      BY <1>5, <3>1, SentStep DEF Out, mined
    <3> QED
      BY <1>4, <1>7, <3>2 DEF known, mined, did
  <2> QED
    BY <1>4, <2>1 DEF Finishes
<1>10. GoesOn(t, << >>)
  BY <1>2, <1>3, <1>6, <1>7, <1>8, <1>9, NothingIsOrderly DEF GoesOn
<1>11. todo' \in Phases /\ ExpectedTodo'
  BY <1>10, GoesOnExpected
<1> QED
  BY <1>7, <1>8, <1>10, <1>11
     DEF ScriptInv, ScriptsType, Keeps, ReplicasHaveBeacons, SoundMempool

(***************************************************************************)
(* Sequences put together of steps                                         *)
(***************************************************************************)

(* Orderly steps in turn are orderly.                                      *)
LEMMA OrderlyBoth ==
  ASSUME NEW q \in Seq(Steps), NEW r \in Seq(Steps), NEW own,
         OrderlyTask(q, own), OrderlyTask(r, own \cup ToSet(q))
  PROVE  OrderlyTask(q \o r, own)
<1> SUFFICES ASSUME NEW i \in DOMAIN (q \o r)
             PROVE  Orderly((q \o r)[i], before(q \o r, i) \cup own)
  BY DEF OrderlyTask
<1>1. CASE i \in DOMAIN q /\ (q \o r)[i] = q[i] /\ before(q \o r, i) = before(q, i)
  <2>1. Orderly(q[i], before(q, i) \cup own)
    BY <1>1 DEF OrderlyTask
  <2> QED
    BY <1>1, <2>1
<1>2. ASSUME NEW j \in DOMAIN r, (q \o r)[i] = r[j], before(q \o r, i) = ToSet(q) \cup before(r, j)
      PROVE  Orderly((q \o r)[i], before(q \o r, i) \cup own)
  <2>1. Orderly(r[j], before(r, j) \cup (own \cup ToSet(q)))
    BY DEF OrderlyTask
  <2>2. before(r, j) \cup (own \cup ToSet(q)) = before(q \o r, i) \cup own
    BY <1>2
  <2>3. Orderly(r[j], before(q \o r, i) \cup own)
    BY <2>1, <2>2
  <2> QED
    BY <1>2, <2>3
<1> QED
  BY <1>1, <1>2, StepsOfBoth

(* The sequence of one step.                                               *)
LEMMA SingleStep ==
  ASSUME NEW x \in Steps
  PROVE  /\ <<x>> \in Seq(Steps) /\ Len(<<x>>) = 1 /\ <<x>>[1] = x
         /\ DOMAIN <<x>> = {1} /\ ToSet(<<x>>) = {x} /\ before(<<x>>, 1) = {}
<1>1. <<x>> \in Seq(Steps) /\ Len(<<x>>) = 1 /\ <<x>>[1] = x
  OBVIOUS
<1>2. PICK q \in Seq(Steps) : q = <<x>>
  BY <1>1
<1>3. DOMAIN q = {1}
  <2>1. DOMAIN q = 1 .. Len(q) /\ Len(q) = 1
    BY <1>1, <1>2
  <2>2. 1 .. 1 = {1}
    OBVIOUS
  <2> QED
    BY <2>1, <2>2
<1>4. ToSet(q) = {x}
  BY <1>1, <1>2, <1>3 DEF ToSet
<1>5. before(q, 1) = {}
  BY DEF before
<1> QED
  BY <1>1, <1>2, <1>3, <1>4, <1>5

(* One orderly step.                                                       *)
LEMMA OrderlySingle ==
  ASSUME NEW x \in Steps, NEW own, Orderly(x, own)
  PROVE  OrderlyTask(<<x>>, own)
<1>1. PICK q \in Seq(Steps) : q = <<x>>
  BY SingleStep
<1>2. DOMAIN q = {1} /\ q[1] = x /\ before(q, 1) \cup own = own
  BY <1>1, SingleStep
<1>3. OrderlyTask(q, own)
  BY <1>2 DEF OrderlyTask
<1> QED
  BY <1>1, <1>3

(* A sequence of two steps.                                                *)
LEMMA TwoLong == ASSUME NEW r \in Seq(Steps), Len(r) = 2 PROVE r = <<r[1], r[2]>>
OBVIOUS

(* A sequence of four steps.                                               *)
LEMMA FourLong ==
  ASSUME NEW r \in Seq(Steps), Len(r) = 4 PROVE r = <<r[1], r[2], r[3], r[4]>>
OBVIOUS

(* One step after the other.                                               *)
LEMMA PairOf ==
  ASSUME NEW a \in Steps, NEW b \in Steps
  PROVE  /\ <<a>> \o <<b>> \in Seq(Steps) /\ <<a>> \o <<b>> = <<a, b>>
         /\ ToSet(<<a>> \o <<b>>) = {a, b}
<1>1. PICK p \in Seq(Steps) : p = <<a>> /\ Len(p) = 1 /\ p[1] = a /\ ToSet(p) = {a}
  BY SingleStep
<1>2. PICK q \in Seq(Steps) : q = <<b>> /\ Len(q) = 1 /\ q[1] = b /\ ToSet(q) = {b}
  BY SingleStep
<1>3. p \o q \in Seq(Steps) /\ Len(p \o q) = 2 /\ (p \o q)[1] = a /\ (p \o q)[2] = b
  BY <1>1, <1>2
<1>4. PICK r \in Seq(Steps) : r = p \o q
  BY <1>3
<1>5. r = <<r[1], r[2]>>
  BY <1>3, <1>4, TwoLong
<1>6. ToSet(p \o q) = ToSet(p) \cup ToSet(q)
  BY OneAfterOther
<1> QED
  BY <1>1, <1>2, <1>3, <1>4, <1>5, <1>6

(* Two steps after two.                                                    *)
LEMMA FourOf ==
  ASSUME NEW a \in Steps, NEW b \in Steps, NEW c \in Steps, NEW d \in Steps
  PROVE  /\ <<a>> \o <<b>> \o (<<c>> \o <<d>>) \in Seq(Steps)
         /\ <<a>> \o <<b>> \o (<<c>> \o <<d>>) = <<a, b, c, d>>
<1>1. PICK p \in Seq(Steps) : p = <<a>> \o <<b>> /\ p = <<a, b>>
  BY PairOf
<1>2. PICK q \in Seq(Steps) : q = <<c>> \o <<d>> /\ q = <<c, d>>
  BY PairOf
<1>3. Len(p) = 2 /\ p[1] = a /\ p[2] = b
  <2>1. Len(<<a, b>>) = 2 /\ <<a, b>>[1] = a /\ <<a, b>>[2] = b
    OBVIOUS
  <2> QED
    BY <1>1, <2>1
<1>4. Len(q) = 2 /\ q[1] = c /\ q[2] = d
  <2>1. Len(<<c, d>>) = 2 /\ <<c, d>>[1] = c /\ <<c, d>>[2] = d
    OBVIOUS
  <2> QED
    BY <1>2, <2>1
<1>5. /\ p \o q \in Seq(Steps) /\ Len(p \o q) = 4
      /\ (p \o q)[1] = a /\ (p \o q)[2] = b /\ (p \o q)[3] = c /\ (p \o q)[4] = d
  <2>1. p \o q \in Seq(Steps) /\ Len(p \o q) = Len(p) + Len(q)
    OBVIOUS
  <2>2. PICK m \in Nat : m = Len(p)
    OBVIOUS
  <2>3. PICK n \in Nat : n = Len(q)
    OBVIOUS
  <2>4. PICK s \in Seq(Steps) : s = p \o q
    BY <2>1
  <2>5. \A i \in 1 .. m : s[i] = p[i]
    BY <2>2, <2>4
  <2>6. \A i \in 1 .. n : s[m + i] = q[i]
    BY <2>2, <2>3, <2>4
  <2>7. m = 2 /\ n = 2
    BY <1>3, <1>4, <2>2, <2>3
  <2>8. s[1] = a /\ s[2] = b
    <3>1. 1 \in 1 .. m /\ 2 \in 1 .. m
      BY <2>7
    <3> QED
      BY <1>3, <2>5, <3>1
  <2>9. s[2 + 1] = c /\ s[2 + 2] = d
    <3>1. 1 \in 1 .. n /\ 2 \in 1 .. n
      BY <2>7
    <3>2. s[m + 1] = c /\ s[m + 2] = d
      BY <1>4, <2>6, <3>1
    <3> QED
      BY <2>7, <3>2
  <2>10. Len(s) = 4
    <3>1. Len(s) = m + n
      BY <2>1, <2>2, <2>3, <2>4
    <3> QED
      BY <2>7, <3>1
  <2> QED
    BY <2>1, <2>4, <2>8, <2>9, <2>10
<1>6. PICK r \in Seq(Steps) : r = p \o q
  BY <1>5
<1>7. r = <<r[1], r[2], r[3], r[4]>>
  BY <1>5, <1>6, FourLong
<1> QED
  BY <1>1, <1>2, <1>5, <1>6, <1>7

(* A transaction that is waited for. *)
LEMMA OrderlyPair ==
  ASSUME NEW a \in Steps, NEW b \in Steps, NEW own, Orderly(a, own),
         b.kind = "wait", sent(b) = a, SoundTx(b), SoundCall(b)
  PROVE  OrderlyTask(<<a>> \o <<b>>, own)
<1>1. OrderlyTask(<<a>>, own) /\ <<a>> \in Seq(Steps) /\ ToSet(<<a>>) = {a}
  BY OrderlySingle, SingleStep
<1>2. Orderly(b, own \cup {a})
  BY DEF Orderly, isCall
<1>3. OrderlyTask(<<b>>, own \cup {a}) /\ <<b>> \in Seq(Steps)
  BY <1>2, OrderlySingle, SingleStep
<1> QED
  BY <1>1, <1>3, OrderlyBoth

(***************************************************************************)
(* The calls of the scripts                                                *)
(***************************************************************************)

(* A call that puts orderly steps in its place keeps the chains and what   *)
(* is expected of them.                                                    *)
LEMMA CallGoesOn ==
  ASSUME ScriptInv, NEW t \in DOMAIN todo, todo[t] # << >>,
         NEW steps \in Seq(Steps), OrderlyTask(steps, {}), instead(t, steps),
         Head(todo[t]).kind = "call",
         isCall(Head(todo[t]), "recordFromBlock") => Head(todo[t]).on \in recorded',
         UNCHANGED <<script, mempool, reverted, executed, beaconOf>>, recorded \subseteq recorded'
  PROVE  /\ GoesOn(t, steps)
         /\ todo' \in Phases /\ ExpectedTodo' /\ SoundMempool' /\ ProxiesHaveBeacons'
         /\ OrderlyScript(script')
<1>1. PICK q \in Seq(Steps) : q = todo[t] /\ q # << >>
  BY FirstStep
<1>2. PICK h \in Steps : h = Head(q)
  BY <1>1, FirstStep
<1>3. Keeps
  BY OthersKeep
<1>4. Finishes(h)
  BY <1>1, <1>2 DEF Finishes, Facts, known
<1>5. todo' = [todo EXCEPT ![t] = steps \o Tail(q)]
  BY <1>1 DEF instead
<1>6. GoesOn(t, steps)
  BY <1>1, <1>2, <1>3, <1>4, <1>5 DEF GoesOn
<1>7. todo' \in Phases /\ ExpectedTodo'
  BY <1>6, GoesOnExpected
<1> QED
  BY <1>3, <1>6, <1>7 DEF Keeps, ScriptInv, SoundMempool

(* Note changes what the script knows.                                     *)
LEMMA NoteStep ==
  ASSUME ScriptInv, NEW t \in DOMAIN todo, Note(t)
  PROVE  GoesOn(t, << >>) /\ ScriptInv'
<1>1. todo[t] # << >> /\ Head(todo[t]).kind = "call"
  BY DEF Note, calling, at, running
<1>2. PICK h \in Steps : h = Head(todo[t])
  BY <1>1, FirstStep
<1>3. Expected(h, {}) /\ h.kind = "call" /\ h.on \in Chains
  BY <1>1, <1>2, FirstStep DEF Steps
<1>4. UNCHANGED <<script, batchFile, mempool, reverted, executed, beaconOf>>
  BY DEF Note
<1>5. recorded \subseteq recorded' /\ recorded' \subseteq Chains
      /\ (isCall(h, "recordFromBlock") => h.on \in recorded')
  BY <1>2, <1>3 DEF Note, calling, at, isCall, ScriptInv, ScriptsType
<1>6. instead(t, << >>)
  BY DEF Note, next
<1>7. /\ GoesOn(t, << >>) /\ todo' \in Phases /\ ExpectedTodo' /\ SoundMempool'
      /\ ProxiesHaveBeacons' /\ OrderlyScript(script')
  BY <1>1, <1>2, <1>4, <1>5, <1>6, NothingIsOrderly, CallGoesOn
<1>8. replicas' \in [Chains -> SUBSET Chains] /\ ReplicasHaveBeacons'
  <2>1. CASE isCall(h, "assignReplica")
    <3>1. h.remote \in Chains /\ beaconOf[h.on][h.remote] # None
      BY <1>3, <2>1 DEF Expected, SoundCall, WaitedFor
    <3>2. replicas' = [replicas EXCEPT ![h.on] = @ \cup {h.remote}]
      BY <1>2, <2>1 DEF Note, calling, at, isCall
    <3> QED
      BY <1>3, <1>4, <3>1, <3>2 DEF ScriptInv, ScriptsType, ReplicasHaveBeacons
  <2>2. CASE ~isCall(h, "assignReplica")
    <3>1. UNCHANGED replicas
      BY <1>2, <1>3, <2>2 DEF Note, calling, at, isCall
    <3> QED
      BY <1>4, <3>1 DEF ScriptInv, ScriptsType, ReplicasHaveBeacons
  <2> QED
    BY <2>1, <2>2
<1> QED
  BY <1>4, <1>5, <1>7, <1>8 DEF ScriptInv, ScriptsType

(* Check changes its task, and the status.                                 *)
LEMMA CheckStep ==
  ASSUME ScriptInv, NEW t \in DOMAIN todo, Check(t)
  PROVE  GoesOn(t, << >>) /\ ScriptInv'
<1>1. todo[t] # << >> /\ Head(todo[t]).op \in Checks
  BY DEF Check, running
<1>2. Head(todo[t]).kind = "call"
  BY <1>1, FirstStep DEF Expected, SoundCall
<1>3. ~isCall(Head(todo[t]), "recordFromBlock")
  BY <1>1 DEF isCall, Checks
<1>4. UNCHANGED <<script, replicas, recorded, batchFile, mempool, reverted, executed, beaconOf>>
  BY DEF Check
<1>6. instead(t, << >>)
  BY DEF Check, next
<1>7. /\ GoesOn(t, << >>) /\ todo' \in Phases /\ ExpectedTodo' /\ SoundMempool'
      /\ ProxiesHaveBeacons' /\ OrderlyScript(script')
  BY <1>1, <1>2, <1>3, <1>4, <1>6, NothingIsOrderly, CallGoesOn
<1> QED
  BY <1>4, <1>7 DEF ScriptInv, ScriptsType, ReplicasHaveBeacons

(* CheckWithWaiter changes its task alone.                                 *)
LEMMA CheckWithWaiterStep ==
  ASSUME ScriptInv, NEW t \in DOMAIN todo, CheckWithWaiter(t)
  PROVE  GoesOn(t, << >>) /\ ScriptInv'
<1>1. /\ todo[t] # << >> /\ Head(todo[t]).kind = "call"
      /\ ~isCall(Head(todo[t]), "recordFromBlock")
  BY DEF CheckWithWaiter, calling, at, running, isCall
<1>4. UNCHANGED <<script, replicas, recorded, batchFile, mempool, reverted, executed, beaconOf>>
  BY DEF CheckWithWaiter
<1>6. instead(t, << >>)
  BY DEF CheckWithWaiter, next
<1>7. /\ GoesOn(t, << >>) /\ todo' \in Phases /\ ExpectedTodo' /\ SoundMempool'
      /\ ProxiesHaveBeacons' /\ OrderlyScript(script')
  BY <1>1, <1>4, <1>6, NothingIsOrderly, CallGoesOn
<1> QED
  BY <1>4, <1>7 DEF ScriptInv, ScriptsType, ReplicasHaveBeacons

(* The steps of a transaction that is waited for. *)
SentAndAwaited(a, b, op, l, name, r) ==
  /\ a = step("send", op, l, name, r) /\ b = step("wait", op, l, name, r)
  /\ a \in Steps /\ b \in Steps /\ sent(b) = a

(* A transaction that is sent and waited for is a pair of steps.           *)
LEMMA SendAndWait ==
  \A op \in Ops, l \in Chains, name \in Names, r \in Chains \cup {None} :
    \E a, b \in Steps : /\ SentAndAwaited(a, b, op, l, name, r)
                        /\ sendAndWait(op, l, name, r) = <<a>> \o <<b>>
<1> TAKE op \in Ops, l \in Chains, name \in Names, r \in Chains \cup {None}
<1>1. PICK a : a = step("send", op, l, name, r)
  OBVIOUS
<1>2. PICK b : b = step("wait", op, l, name, r)
  OBVIOUS
<1>3. a \in Steps /\ b \in Steps /\ sent(b) = a
  BY <1>1, <1>2 DEF step, Steps, sent
<1>4. sendAndWait(op, l, name, r) = <<a>> \o <<b>>
  BY <1>1, <1>2 DEF sendAndWait, send, wait
<1> QED
  BY <1>1, <1>2, <1>3, <1>4 DEF SentAndAwaited

(* TransferGovernorship sends one transaction, with the governor that      *)
(* the Hub has now, and waits for it.                                      *)
LEMMA TransferGovernorshipStep ==
  ASSUME ScriptInv, NEW t \in DOMAIN todo, TransferGovernorship(t),
         governor[Hub] \in Accounts \cup {NoAccount}
  PROVE  /\ \E a, b \in Steps :
              /\ SentAndAwaited(a, b, "transferGovernor", Head(todo[t]).on, governor[Hub], Hub)
              /\ GoesOn(t, <<a>> \o <<b>>)
         /\ ScriptInv'
<1>1. /\ todo[t] # << >> /\ Head(todo[t]).kind = "call"
      /\ isCall(Head(todo[t]), "transferGovernorship")
      /\ ~isCall(Head(todo[t]), "recordFromBlock")
  BY DEF TransferGovernorship, calling, at, running, isCall
<1>2. PICK h \in Steps : h = Head(todo[t])
  BY <1>1, FirstStep
<1>3. h.on \in Chains /\ h.on # Hub
  BY <1>1, <1>2, FirstStep DEF Expected, SoundCall, Steps
<1>4. UNCHANGED <<script, replicas, recorded, batchFile, mempool, reverted, executed, beaconOf>>
  BY DEF TransferGovernorship
<1>5. /\ "transferGovernor" \in Ops /\ governor[Hub] \in Names
      /\ Hub \in Chains /\ Hub \in Chains \cup {None}
  BY DeployAssumption DEF Ops, Names
<1>6. PICK a \in Steps, b \in Steps :
        /\ SentAndAwaited(a, b, "transferGovernor", h.on, governor[Hub], Hub)
        /\ sendAndWait("transferGovernor", h.on, governor[Hub], Hub) = <<a>> \o <<b>>
  BY <1>3, <1>5, SendAndWait
<1>7. /\ a.kind = "send" /\ a.op = "transferGovernor" /\ a.on = h.on /\ a.remote = Hub
      /\ b.kind = "wait" /\ b.op = "transferGovernor" /\ sent(b) = a
  BY <1>6 DEF SentAndAwaited, step
<1>8. Orderly(a, {}) /\ SoundTx(b) /\ SoundCall(b)
  BY <1>3, <1>7 DEF Orderly, SoundTx, SoundCall, isSend, isCall, Checks
<1>9. <<a>> \o <<b>> \in Seq(Steps) /\ OrderlyTask(<<a>> \o <<b>>, {})
  BY <1>7, <1>8, OrderlyPair, PairOf
<1>10. instead(t, <<a>> \o <<b>>)
  BY <1>2, <1>6 DEF TransferGovernorship
<1>11. /\ GoesOn(t, <<a>> \o <<b>>) /\ todo' \in Phases /\ ExpectedTodo' /\ SoundMempool'
       /\ ProxiesHaveBeacons' /\ OrderlyScript(script')
  BY <1>1, <1>4, <1>9, <1>10, CallGoesOn
<1>12. ScriptInv'
  BY <1>4, <1>11 DEF ScriptInv, ScriptsType, ReplicasHaveBeacons
<1> QED
  BY <1>2, <1>6, <1>11, <1>12

(* EnrollSpoke leaves a batch in the file, or sends it and waits for it.   *)
LEMMA EnrollSpokeStep ==
  ASSUME ScriptInv, NEW t \in DOMAIN todo, EnrollSpoke(t)
  PROVE  /\ \/ GoesOn(t, << >>)
            \/ \E a, b \in Steps, spoke \in Chains :
                 /\ SentAndAwaited(a, b, "batch", Hub, "GovernanceRouter", spoke)
                 /\ GoesOn(t, <<a>> \o <<b>>)
         /\ ScriptInv'
<1>1. /\ todo[t] # << >> /\ Head(todo[t]).kind = "call"
      /\ ~isCall(Head(todo[t]), "recordFromBlock")
  BY DEF EnrollSpoke, calling, at, running, isCall
<1>2. PICK h \in Steps : h = Head(todo[t])
  BY <1>1, FirstStep
<1>3. h.on \in Chains /\ h.remote \in Chains
  BY <1>1, <1>2, FirstStep DEF EnrollSpoke, calling, at, running, isCall, Expected, SoundCall, Steps
<1>4. UNCHANGED <<script, replicas, recorded, mempool, reverted, executed, beaconOf>>
  BY DEF EnrollSpoke
<1>5. batchFile' \subseteq Chains
  BY <1>2, <1>3 DEF EnrollSpoke, ScriptInv, ScriptsType
<1>6. CASE next(t)
  <2>1. instead(t, << >>)
    BY <1>6 DEF next
  <2>2. /\ GoesOn(t, << >>) /\ todo' \in Phases /\ ExpectedTodo' /\ SoundMempool'
        /\ ProxiesHaveBeacons' /\ OrderlyScript(script')
    BY <1>1, <1>4, <2>1, NothingIsOrderly, CallGoesOn
  <2>3. ScriptInv'
    BY <1>4, <1>5, <2>2 DEF ScriptInv, ScriptsType, ReplicasHaveBeacons
  <2> QED
    BY <2>2, <2>3
<1>7. CASE instead(t, sendAndWait("batch", Hub, "GovernanceRouter", h.remote))
  <2>1. /\ "batch" \in Ops /\ "GovernanceRouter" \in Names /\ Hub \in Chains
        /\ h.remote \in Chains \cup {None}
    BY <1>3, DeployAssumption DEF Ops, Names
  <2>2. PICK a \in Steps, b \in Steps :
          /\ SentAndAwaited(a, b, "batch", Hub, "GovernanceRouter", h.remote)
          /\ sendAndWait("batch", Hub, "GovernanceRouter", h.remote) = <<a>> \o <<b>>
    BY <1>3, <2>1, SendAndWait
  <2>3. /\ a.kind = "send" /\ a.op = "batch" /\ a.remote \in Chains
        /\ b.kind = "wait" /\ b.op = "batch" /\ sent(b) = a
    BY <1>3, <2>2 DEF SentAndAwaited, step
  <2>4. Orderly(a, {}) /\ SoundTx(b) /\ SoundCall(b)
    BY <2>3 DEF Orderly, SoundTx, SoundCall, isSend, isCall, Checks
  <2>5. <<a>> \o <<b>> \in Seq(Steps) /\ OrderlyTask(<<a>> \o <<b>>, {})
    BY <2>3, <2>4, OrderlyPair, PairOf
  <2>6. instead(t, <<a>> \o <<b>>)
    BY <1>7, <2>2
  <2>7. /\ GoesOn(t, <<a>> \o <<b>>) /\ todo' \in Phases /\ ExpectedTodo' /\ SoundMempool'
        /\ ProxiesHaveBeacons' /\ OrderlyScript(script')
    BY <1>1, <1>4, <2>5, <2>6, CallGoesOn
  <2>8. ScriptInv'
    BY <1>4, <1>5, <2>7 DEF ScriptInv, ScriptsType, ReplicasHaveBeacons
  <2> QED
    BY <1>3, <2>2, <2>7, <2>8
<1> QED
  BY <1>2, <1>6, <1>7 DEF EnrollSpoke

(***************************************************************************)
(* A Replica is deployed                                                   *)
(***************************************************************************)

(* The least Replica of a chain, whose beacon the others share. *)
LEMMA LeastChain ==
  ASSUME NEW S \in SUBSET Chains, S # {}
  PROVE  Min(S) \in S
<1>1. S \in SUBSET Nat
  BY DeployAssumption
<1>2. \E x \in S : \A y \in S : <<y, x>> \notin OpToRel(<, Nat)
  BY <1>1, NatLessThanWellFounded, WFMin
<1>3. \A x, y \in Nat : x < y => <<x, y>> \in OpToRel(<, Nat)
  BY Zenon DEF OpToRel
<1>4. PICK x \in S : \A y \in S : ~(y < x)
  BY <1>1, <1>2, <1>3
<1>5. \A y \in S : x =< y
  BY <1>1, <1>4
<1> QED
  BY <1>5 DEF Min

replicaStep(kind, op, l, r, b) == [step(kind, op, l, "Replica", r) EXCEPT !.beacon = b]

onBeacon(q, b) == [i \in DOMAIN q |-> [q[i] EXCEPT !.beacon = b]]

(* The steps that deploy the Replica of r on l with the beacon b. *)
DeploysWith(steps, l, r, b) ==
  \E i, c, p, w, n \in Steps :
    /\ i = replicaStep("send", "Implementation", l, r, b)
    /\ c = replicaStep("send", "Beacon", l, r, b)
    /\ p = replicaStep("send", "Proxy", l, r, b) /\ w = replicaStep("wait", "Proxy", l, r, b)
    /\ n = step("call", "assignReplica", l, "", r)
    /\ steps \in {<<i>> \o <<c>> \o (<<p>> \o <<w>>) \o <<n>>, (<<p>> \o <<w>>) \o <<n>>}

(* A step of the deployment of a Replica, field by field.                  *)
LEMMA ReplicaStepIs ==
  ASSUME NEW l, NEW r, NEW b, NEW kind, NEW op
  PROVE  replicaStep(kind, op, l, r, b) =
           [kind |-> kind, op |-> op, on |-> l, name |-> "Replica", remote |-> r, beacon |-> b]
BY DEF replicaStep, step

(* It is a step.                                                           *)
LEMMA ReplicaStepType ==
  ASSUME NEW l \in Chains, NEW r \in Chains, NEW b \in Chains, NEW kind \in {"send", "wait"},
         NEW op \in {"Implementation", "Beacon", "Proxy"}
  PROVE  /\ replicaStep(kind, op, l, r, b) \in Steps
         /\ step(kind, op, l, "Replica", r) \in Steps
<1>1. op \in Ops /\ "Replica" \in Names /\ kind \in {"send", "wait", "call"}
      /\ r \in Chains \cup {None} /\ b \in Chains \cup {None} /\ None \in Chains \cup {None}
  BY DEF Ops, Names
<1>2. step(kind, op, l, "Replica", r) \in Steps
  BY <1>1 DEF step, Steps
<1>3. replicaStep(kind, op, l, r, b) \in Steps
  BY <1>1, ReplicaStepIs DEF Steps
<1> QED
  BY <1>2, <1>3

(* A duplicate Replica is a proxy, on the beacon that was chosen.          *)
LEMMA ProxyOnBeacon ==
  ASSUME NEW l \in Chains, NEW r \in Chains, NEW b \in Chains
  PROVE  onBeacon(duplicate(l, "Replica", r), b) =
           <<replicaStep("send", "Proxy", l, r, b)>> \o <<replicaStep("wait", "Proxy", l, r, b)>>
<1>1. PICK p \in Steps : p = replicaStep("send", "Proxy", l, r, b)
  BY ReplicaStepType
<1>2. PICK w \in Steps : w = replicaStep("wait", "Proxy", l, r, b)
  BY ReplicaStepType
<1>3. PICK x \in Steps : x = step("send", "Proxy", l, "Replica", r)
  BY ReplicaStepType
<1>4. PICK y \in Steps : y = step("wait", "Proxy", l, "Replica", r)
  BY ReplicaStepType
<1>5. duplicate(l, "Replica", r) = <<x, y>>
  BY <1>3, <1>4, PairOf DEF duplicate, sendAndWait, send, wait
<1>6. p = [x EXCEPT !.beacon = b] /\ w = [y EXCEPT !.beacon = b]
  BY <1>1, <1>2, <1>3, <1>4 DEF replicaStep
<1>7. onBeacon(<<x, y>>, b) = <<p, w>>
  BY <1>6 DEF onBeacon
<1> QED
  BY <1>1, <1>2, <1>5, <1>7, PairOf

(* A first Replica is an implementation, a beacon and a proxy on it.       *)
LEMMA AllOnBeacon ==
  ASSUME NEW l \in Chains, NEW r \in Chains, NEW b \in Chains
  PROVE  onBeacon(deployProxy(l, "Replica", r), b) =
           <<replicaStep("send", "Implementation", l, r, b)>>
             \o <<replicaStep("send", "Beacon", l, r, b)>>
             \o (<<replicaStep("send", "Proxy", l, r, b)>> \o <<replicaStep("wait", "Proxy", l, r, b)>>)
<1>1. PICK p \in Steps : p = replicaStep("send", "Proxy", l, r, b)
  BY ReplicaStepType
<1>2. PICK w \in Steps : w = replicaStep("wait", "Proxy", l, r, b)
  BY ReplicaStepType
<1>3. PICK x \in Steps : x = step("send", "Proxy", l, "Replica", r)
  BY ReplicaStepType
<1>4. PICK y \in Steps : y = step("wait", "Proxy", l, "Replica", r)
  BY ReplicaStepType
<1>5. PICK i \in Steps : i = replicaStep("send", "Implementation", l, r, b)
  BY ReplicaStepType
<1>6. PICK c \in Steps : c = replicaStep("send", "Beacon", l, r, b)
  BY ReplicaStepType
<1>7. PICK u \in Steps : u = step("send", "Implementation", l, "Replica", r)
  BY ReplicaStepType
<1>8. PICK v \in Steps : v = step("send", "Beacon", l, "Replica", r)
  BY ReplicaStepType
<1>9. deployProxy(l, "Replica", r) = <<u, v, x, y>>
  BY <1>3, <1>4, <1>7, <1>8, FourOf DEF deployProxy, sendAndWait, send, wait
<1>10. /\ p = [x EXCEPT !.beacon = b] /\ w = [y EXCEPT !.beacon = b]
       /\ i = [u EXCEPT !.beacon = b] /\ c = [v EXCEPT !.beacon = b]
  BY <1>1, <1>2, <1>3, <1>4, <1>5, <1>6, <1>7, <1>8 DEF replicaStep
<1>11. onBeacon(<<u, v, x, y>>, b) = <<i, c, p, w>>
  BY <1>10 DEF onBeacon
<1>12. <<i>> \o <<c>> \o (<<p>> \o <<w>>) = <<i, c, p, w>>
  BY FourOf
<1> QED
  BY <1>1, <1>2, <1>5, <1>6, <1>9, <1>11, <1>12

(* Those steps are in order. *)
LEMMA DeploysWithOrderly ==
  ASSUME NEW l \in Chains, NEW r \in Chains, NEW b \in Chains, NEW steps,
         DeploysWith(steps, l, r, b)
  PROVE  steps \in Seq(Steps) /\ OrderlyTask(steps, {})
<1>1. PICK i \in Steps, c \in Steps, p \in Steps, w \in Steps, n \in Steps :
        /\ i = replicaStep("send", "Implementation", l, r, b)
        /\ c = replicaStep("send", "Beacon", l, r, b)
        /\ p = replicaStep("send", "Proxy", l, r, b) /\ w = replicaStep("wait", "Proxy", l, r, b)
        /\ n = step("call", "assignReplica", l, "", r)
        /\ steps \in {<<i>> \o <<c>> \o (<<p>> \o <<w>>) \o <<n>>, (<<p>> \o <<w>>) \o <<n>>}
  BY DEF DeploysWith
<1>2. /\ i.kind = "send" /\ i.op = "Implementation" /\ c.kind = "send" /\ c.op = "Beacon"
      /\ p.kind = "send" /\ p.op = "Proxy" /\ p.remote \in Chains /\ p.beacon \in Chains
      /\ w.kind = "wait" /\ w.op = "Proxy" /\ w.name = "Replica" /\ w.on = l /\ w.remote = r
      /\ n.kind = "call" /\ n.op = "assignReplica" /\ n.on = l /\ n.remote = r
  <2>1. i.kind = "send" /\ i.op = "Implementation" /\ c.kind = "send" /\ c.op = "Beacon"
    BY <1>1, ReplicaStepIs
  <2>2. p.kind = "send" /\ p.op = "Proxy" /\ p.remote \in Chains /\ p.beacon \in Chains
    BY <1>1, ReplicaStepIs
  <2>3. w.kind = "wait" /\ w.op = "Proxy" /\ w.name = "Replica" /\ w.on = l /\ w.remote = r
    BY <1>1, ReplicaStepIs
  <2>4. n.kind = "call" /\ n.op = "assignReplica" /\ n.on = l /\ n.remote = r
    BY <1>1 DEF step
  <2> QED
    BY <2>1, <2>2, <2>3, <2>4
<1>3. sent(w) = p
  <2>1. p = [kind |-> "send", op |-> "Proxy", on |-> l, name |-> "Replica", remote |-> r, beacon |-> b]
    BY <1>1, ReplicaStepIs
  <2>2. w = [kind |-> "wait", op |-> "Proxy", on |-> l, name |-> "Replica", remote |-> r, beacon |-> b]
    BY <1>1, ReplicaStepIs
  <2> QED
    BY <2>1, <2>2 DEF sent
<1>4. \A own : Orderly(i, own) /\ Orderly(c, own) /\ Orderly(p, own)
  BY <1>2 DEF Orderly, SoundTx, SoundCall, isSend, isCall, Checks
<1>5. SoundTx(w) /\ SoundCall(w)
  BY <1>2 DEF SoundTx, SoundCall, isSend, isCall, Checks
<1>6. \A own : w \in own => Orderly(n, own)
  BY <1>2 DEF Orderly, WaitedFor, IsReplicaProxy, SoundTx, SoundCall, isSend, isCall, Checks
<1>7. PICK s \in Seq(Steps) : s = <<p>> \o <<w>> /\ ToSet(s) = {p, w}
  BY PairOf
<1>8. \A own : OrderlyTask(s, own)
  BY <1>2, <1>3, <1>4, <1>5, <1>7, OrderlyPair
<1>9. PICK m \in Seq(Steps) : m = <<n>>
  BY SingleStep
<1>10. \A own : w \in own => OrderlyTask(m, own)
  BY <1>6, <1>9, OrderlySingle
<1>11. s \o m \in Seq(Steps) /\ OrderlyTask(s \o m, {})
  <2>1. w \in {} \cup ToSet(s)
    BY <1>7
  <2> QED
    BY <1>8, <1>10, <2>1, OrderlyBoth, OneAfterOther
<1>12. PICK k \in Seq(Steps) : k = <<i>> \o <<c>> /\ OrderlyTask(k, {})
  <2>1. <<i>> \in Seq(Steps) /\ <<c>> \in Seq(Steps) /\ <<i>> \o <<c>> \in Seq(Steps)
    BY SingleStep, PairOf
  <2>2. OrderlyTask(<<i>>, {}) /\ OrderlyTask(<<c>>, {} \cup ToSet(<<i>>))
    BY <1>4, OrderlySingle
  <2> QED
    BY <2>1, <2>2, OrderlyBoth
<1>13. PICK z \in Seq(Steps) : z = k \o s /\ OrderlyTask(z, {}) /\ w \in ToSet(z)
  <2>1. k \o s \in Seq(Steps) /\ ToSet(k \o s) = ToSet(k) \cup ToSet(s)
    BY OneAfterOther
  <2>2. OrderlyTask(k \o s, {})
    BY <1>8, <1>12, OrderlyBoth
  <2> QED
    BY <1>7, <2>1, <2>2
<1>14. z \o m \in Seq(Steps) /\ OrderlyTask(z \o m, {})
  <2>1. w \in {} \cup ToSet(z)
    BY <1>13
  <2> QED
    BY <1>10, <1>13, <2>1, OrderlyBoth, OneAfterOther
<1> QED
  BY <1>1, <1>7, <1>9, <1>11, <1>12, <1>13, <1>14

(* DeployUnenrolledReplica chooses the beacon by what the script knows     *)
(* of, and leaves the steps to deploy a Replica on it.                     *)
LEMMA DeployReplicaStep ==
  ASSUME ScriptInv, NEW t \in DOMAIN todo, DeployUnenrolledReplica(t)
  PROVE  /\ \E l, r, b \in Chains, steps \in Seq(Steps) :
              /\ l = Head(todo[t]).on /\ r = Head(todo[t]).remote
              /\ b = IF replicas[l] = {} THEN r ELSE beaconOf[l][Min(replicas[l])]
              /\ DeploysWith(steps, l, r, b) /\ GoesOn(t, steps)
         /\ ScriptInv'
<1>1. /\ todo[t] # << >> /\ Head(todo[t]).kind = "call"
      /\ isCall(Head(todo[t]), "deployUnenrolledReplica")
      /\ ~isCall(Head(todo[t]), "recordFromBlock")
  BY DEF DeployUnenrolledReplica, calling, at, running, isCall
<1>2. PICK h \in Steps : h = Head(todo[t])
  BY <1>1, FirstStep
<1>3. h.on \in Chains /\ h.remote \in Chains
  BY <1>1, <1>2, FirstStep DEF Expected, SoundCall, Steps
<1>4. UNCHANGED <<script, replicas, recorded, batchFile, mempool, reverted, executed, beaconOf>>
  BY DEF DeployUnenrolledReplica
<1>5. PICK l \in Chains, r \in Chains : l = h.on /\ r = h.remote
  BY <1>3
<1>6. replicas[l] # {} => beaconOf[l][Min(replicas[l])] \in Chains
  <2>1. replicas[l] \in SUBSET Chains
    BY DEF ScriptInv, ScriptsType
  <2>2. ASSUME replicas[l] # {} PROVE Min(replicas[l]) \in replicas[l]
    BY <2>1, <2>2, LeastChain
  <2> QED
    BY <2>1, <2>2 DEF ScriptInv, ScriptsType, ReplicasHaveBeacons
<1>7. PICK b \in Chains : b = IF replicas[l] = {} THEN r ELSE beaconOf[l][Min(replicas[l])]
  BY <1>6
<1>8. PICK n \in Steps : n = step("call", "assignReplica", l, "", r)
  <2>1. step("call", "assignReplica", l, "", r) \in Steps
    BY DEF step, Steps, Ops, Names
  <2> QED
    BY <2>1
<1>9. PICK steps : /\ instead(t, steps) /\ DeploysWith(steps, l, r, b)
  <2>1. PICK i \in Steps, c \in Steps, p \in Steps, w \in Steps :
          /\ i = replicaStep("send", "Implementation", l, r, b)
          /\ c = replicaStep("send", "Beacon", l, r, b)
          /\ p = replicaStep("send", "Proxy", l, r, b)
          /\ w = replicaStep("wait", "Proxy", l, r, b)
    BY ReplicaStepType
  <2>2. call("assignReplica", l, r) = <<n>>
    BY <1>8 DEF call
  <2>3. CASE replicas[l] = {}
    <3>1. b = r
      BY <1>7, <2>3
    <3>2. instead(t, onBeacon(deployProxy(l, "Replica", r), b) \o <<n>>)
      BY <1>2, <1>5, <2>2, <2>3, <3>1 DEF DeployUnenrolledReplica, onBeacon
    <3>3. onBeacon(deployProxy(l, "Replica", r), b) = <<i>> \o <<c>> \o (<<p>> \o <<w>>)
      BY <2>1, AllOnBeacon
    <3>4. PICK steps : steps = <<i>> \o <<c>> \o (<<p>> \o <<w>>) \o <<n>>
      OBVIOUS
    <3>5. DeploysWith(steps, l, r, b)
      BY <1>8, <2>1, <3>4 DEF DeploysWith
    <3> QED
      BY <3>2, <3>3, <3>4, <3>5
  <2>4. CASE replicas[l] # {}
    <3>1. b = beaconOf[l][Min(replicas[l])]
      BY <1>7, <2>4
    <3>2. instead(t, onBeacon(duplicate(l, "Replica", r), b) \o <<n>>)
      BY <1>2, <1>5, <2>2, <2>4, <3>1 DEF DeployUnenrolledReplica, onBeacon
    <3>3. onBeacon(duplicate(l, "Replica", r), b) = <<p>> \o <<w>>
      BY <2>1, ProxyOnBeacon
    <3>4. PICK steps : steps = (<<p>> \o <<w>>) \o <<n>>
      OBVIOUS
    <3>5. DeploysWith(steps, l, r, b)
      BY <1>8, <2>1, <3>4 DEF DeploysWith
    <3> QED
      BY <3>2, <3>3, <3>4, <3>5
  <2> QED
    BY <2>3, <2>4
<1>10. steps \in Seq(Steps) /\ OrderlyTask(steps, {})
  BY <1>9, DeploysWithOrderly
<1>11. /\ GoesOn(t, steps) /\ todo' \in Phases /\ ExpectedTodo' /\ SoundMempool'
       /\ ProxiesHaveBeacons' /\ OrderlyScript(script')
  BY <1>1, <1>4, <1>9, <1>10, CallGoesOn
<1>12. ScriptInv'
  BY <1>4, <1>11 DEF ScriptInv, ScriptsType, ReplicasHaveBeacons
<1> QED
  BY <1>2, <1>5, <1>7, <1>9, <1>10, <1>11, <1>12

(***************************************************************************)
(* Other steps                                                             *)
(***************************************************************************)

(* A task that has not begun expects nothing of the chains.                *)
LEMMA OrderlyExpected ==
  ASSUME NEW w \in Seq(Steps), OrderlyTask(w, {})
  PROVE  ExpectedTask(w)'
<1> SUFFICES ASSUME NEW i \in DOMAIN w PROVE Expected(w[i], before(w, i))'
  BY DEF ExpectedTask
<1>1. Orderly(w[i], before(w, i) \cup {})
  BY DEF OrderlyTask
<1>2. before(w, i) \cup {} = before(w, i)
  OBVIOUS
<1>3. Orderly(w[i], before(w, i))
  BY <1>1, <1>2
<1> QED
  BY <1>3 DEF Expected, Orderly

(* The phases after the first. *)
LEMMA AfterFirstPhase ==
  ASSUME NEW s \in Seq(Phases), s # << >>
  PROVE  /\ Tail(s) \in Seq(Phases) /\ Head(s) \in Phases /\ Head(s) = s[1] /\ 1 \in DOMAIN s
         /\ stepsBefore(s, 1) = {}
         /\ \A p \in DOMAIN Tail(s) :
              /\ p + 1 \in DOMAIN s /\ Tail(s)[p] = s[p + 1]
              /\ stepsBefore(s, p + 1) \subseteq stepsBefore(Tail(s), p) \cup stepsOf(Head(s))
<1>1. Tail(s) \in Seq(Phases) /\ Len(Tail(s)) = Len(s) - 1 /\ Len(s) \in Nat \ {0}
  OBVIOUS
<1>2. \A p \in 1 .. Len(s) - 1 : Tail(s)[p] = s[p + 1]
  OBVIOUS
<1>3. Head(s) = s[1] /\ s[1] \in Phases /\ 1 \in DOMAIN s
  BY <1>1
<1>4. stepsBefore(s, 1) = {}
  BY DEF stepsBefore
<1>5. ASSUME NEW p \in DOMAIN Tail(s)
      PROVE  /\ p + 1 \in DOMAIN s /\ Tail(s)[p] = s[p + 1]
             /\ stepsBefore(s, p + 1) \subseteq stepsBefore(Tail(s), p) \cup stepsOf(Head(s))
  <2>1. p \in 1 .. Len(s) - 1
    BY <1>1
  <2>2. \A j \in 1 .. p : j = 1 \/ (j - 1 \in 1 .. p - 1 /\ Tail(s)[j - 1] = s[j])
    BY <1>1, <1>2, <2>1
  <2>3. (p + 1) - 1 = p
    BY <2>1
  <2> QED
    BY <1>1, <1>2, <1>3, <2>1, <2>2, <2>3 DEF stepsBefore
<1> QED
  BY <1>1, <1>3, <1>4, <1>5

(* The next phase begins with what the scripts keep to.                    *)
LEMMA NextPhaseStep ==
  ASSUME ScriptInv, NextPhase
  PROVE  ScriptInv'
<1>1. UNCHANGED <<replicas, recorded, batchFile, mempool, reverted, executed, beaconOf>>
  BY DEF NextPhase
<1>2. Keeps
  BY <1>1, OthersKeep
<1>3. script \in Seq(Phases) /\ todo \in Phases /\ OrderlyScript(script) /\ ExpectedTodo
  BY DEF ScriptInv, ScriptsType
<1>4. script' \in Seq(Phases) /\ todo' \in Phases /\ OrderlyScript(script') /\ ExpectedTodo'
  <2>1. CASE UNCHANGED <<script, todo>>
    BY <1>2, <1>3, <2>1, StillExpectedTodo
  <2>2. CASE script # << >> /\ script' = Tail(script) /\ todo' = Head(script)
    <3>1. PICK ph \in Phases : ph = Head(script)
      BY <1>3, <2>2, AfterFirstPhase
    <3>2. ASSUME NEW t \in DOMAIN ph PROVE ExpectedTask(ph[t])'
      <4>1. ph[t] \in Seq(Steps)
        BY PhaseType
      <4>2. OrderlyTask(ph[t], {})
        BY <1>3, <2>2, <3>1, AfterFirstPhase DEF OrderlyScript
      <4> QED
        BY <4>1, <4>2, OrderlyExpected
    <3>3. todo' = ph
      BY <2>2, <3>1
    <3>4. ExpectedTodo'
      BY <3>2, <3>3 DEF ExpectedTodo
    <3>5. OrderlyScript(Tail(script))
      BY <1>3, <2>2, AfterFirstPhase DEF OrderlyScript
    <3> QED
      BY <1>3, <2>2, <3>3, <3>4, <3>5, AfterFirstPhase
  <2> QED
    BY <2>1, <2>2 DEF NextPhase
<1> QED
  BY <1>1, <1>2, <1>4 DEF ScriptInv, ScriptsType, Keeps, SoundMempool, ReplicasHaveBeacons

(* What the next phase requires is done: all steps of the last one are.    *)
LEMMA NextPhaseReady ==
  ASSUME ScriptInv, NextPhase, NEW requires, ReadyInv(requires)
  PROVE  ReadyInv(requires)'
<1>1. UNCHANGED <<recorded, mempool, executed>>
  BY DEF NextPhase
<1>2. Known' = Known
  BY <1>1 DEF Known, known, mined, did
<1>3. \A l \in Chains : \A x \in ToSet(mempool'[l]) : Meets(requires, x, Known')
  BY <1>1, <1>2 DEF ReadyInv
<1>4. CASE UNCHANGED <<script, todo>>
  BY <1>2, <1>3, <1>4 DEF ReadyInv
<1>5. CASE script # << >> /\ script' = Tail(script) /\ todo' = Head(script)
  <2>1. script \in Seq(Phases)
    BY DEF ScriptInv, ScriptsType
  <2>2. stepsOf(todo) = {}
    <3>1. \A t \in DOMAIN todo : todo[t] = << >>
      BY DEF NextPhase
    <3> QED
      BY <3>1, NothingIsOrderly DEF stepsOf, ToSet
  <2>3. MeetsScript(requires, script, Known)
    BY <2>2 DEF ReadyInv
  <2>4. MeetsPhase(requires, Head(script), Known)
    BY <1>5, <2>1, <2>3, AfterFirstPhase DEF MeetsScript
  <2>5. MeetsScript(requires, Tail(script), stepsOf(Head(script)) \cup Known)
    <3> SUFFICES ASSUME NEW p \in DOMAIN Tail(script)
                 PROVE  MeetsPhase(requires, Tail(script)[p],
                          stepsBefore(Tail(script), p) \cup (stepsOf(Head(script)) \cup Known))
      BY DEF MeetsScript
    <3>1. MeetsPhase(requires, Tail(script)[p], stepsBefore(script, p + 1) \cup Known)
      BY <1>5, <2>1, <2>3, AfterFirstPhase DEF MeetsScript
    <3>2. stepsBefore(script, p + 1) \subseteq stepsBefore(Tail(script), p) \cup stepsOf(Head(script))
      BY <1>5, <2>1, AfterFirstPhase
    <3> QED
      BY <3>1, <3>2 DEF MeetsPhase, MeetsTask, Meets
  <2> QED
    BY <1>2, <1>3, <1>5, <2>4, <2>5 DEF ReadyInv
<1> QED
  BY <1>4, <1>5 DEF NextPhase

(***************************************************************************)
(* Transactions                                                            *)
(***************************************************************************)

(* A transaction takes nothing back that is done.                          *)
LEMMA ExecuteKeeps ==
  ASSUME ScriptInv, NEW tx \in Steps, tx.kind = "send", SoundTx(tx), Execute(tx)
  PROVE  /\ executed' \in [Chains -> SUBSET (Ops \X Names \X (Chains \cup {None}))]
         /\ beaconOf' \in [Chains -> [Chains -> Chains \cup {None}]]
         /\ \A l \in Chains : executed[l] \subseteq executed'[l]
         /\ \A l, d \in Chains : beaconOf[l][d] # None => beaconOf'[l][d] # None
         /\ ProxiesHaveBeacons'
         /\ tx.op = "batch" \/ <<tx.op, tx.name, tx.remote>> \in executed'[tx.on]
<1>1. /\ tx.on \in Chains /\ tx.op \in Ops /\ tx.name \in Names /\ tx.remote \in Chains \cup {None}
  BY DEF Steps
<1>2. PICK new : /\ new = IF tx.op = "batch" THEN batchCalls(tx.remote)
                          ELSE {<<tx.op, tx.name, tx.remote>>}
  OBVIOUS
<1>3. executed' = [executed EXCEPT ![tx.on] = @ \cup new]
  BY <1>2 DEF Execute
<1>4. /\ executed \in [Chains -> SUBSET (Ops \X Names \X (Chains \cup {None}))]
      /\ beaconOf \in [Chains -> [Chains -> Chains \cup {None}]]
      /\ ProxiesHaveBeacons
  BY DEF ScriptInv, ScriptsType
<1>5. new \in SUBSET (Ops \X Names \X (Chains \cup {None}))
  <2>1. CASE tx.op = "batch"
    <3>1. tx.remote \in Chains
      BY <2>1 DEF SoundTx, isSend
    <3>2. /\ \A w \in Watchers : w \in Names
          /\ {"setWatcherPermission", "ownerEnrollReplica", "setRouterLocal", "enrollRemoteRouter"} \subseteq Ops
          /\ {"XAppConnectionManager", "GovernanceRouter", "BridgeRouter"} \subseteq Names
      BY DEF Ops, Names
    <3>3. batchCalls(tx.remote) \subseteq Ops \X Names \X Chains
      BY <3>1, <3>2 DEF batchCalls
    <3>4. Ops \X Names \X Chains \subseteq Ops \X Names \X (Chains \cup {None})
      OBVIOUS
    <3> QED
      BY <1>2, <2>1, <3>3, <3>4
  <2>2. CASE tx.op # "batch"
    BY <1>1, <1>2, <2>2
  <2> QED
    BY <2>1, <2>2
<1>6. /\ executed' \in [Chains -> SUBSET (Ops \X Names \X (Chains \cup {None}))]
      /\ \A l \in Chains : executed[l] \subseteq executed'[l]
      /\ executed'[tx.on] = executed[tx.on] \cup new
      /\ \A l \in Chains : l # tx.on => executed'[l] = executed[l]
  BY <1>1, <1>3, <1>4, <1>5
<1>7. CASE tx.op = "Proxy" /\ tx.name = "Replica"
  <2>1. tx.remote \in Chains /\ tx.beacon \in Chains /\ tx.beacon # None
    BY <1>7, DeployAssumption DEF SoundTx, isSend, None
  <2>2. beaconOf' = [beaconOf EXCEPT ![tx.on][tx.remote] = tx.beacon]
    BY <1>7 DEF Execute
  <2>3. /\ beaconOf' \in [Chains -> [Chains -> Chains \cup {None}]]
        /\ beaconOf'[tx.on][tx.remote] # None
        /\ \A l, d \in Chains : beaconOf'[l][d] = beaconOf[l][d] \/ beaconOf'[l][d] # None
    BY <1>1, <1>4, <2>1, <2>2
  <2>4. new = {<<"Proxy", "Replica", tx.remote>>}
    BY <1>2, <1>7
  <2>5. ProxiesHaveBeacons'
    <3> SUFFICES ASSUME NEW l \in Chains, NEW d \in Chains,
                        <<"Proxy", "Replica", d>> \in executed'[l]
                 PROVE  beaconOf'[l][d] # None
      BY DEF ProxiesHaveBeacons, did
    <3>1. CASE l = tx.on /\ d = tx.remote
      BY <2>3, <3>1
    <3>2. CASE <<"Proxy", "Replica", d>> \in executed[l]
      <4>1. beaconOf[l][d] # None
        BY <1>4, <3>2 DEF ProxiesHaveBeacons, did
      <4> QED
        BY <2>3, <4>1
    <3>3. (l = tx.on /\ d = tx.remote) \/ <<"Proxy", "Replica", d>> \in executed[l]
      BY <1>6, <2>4
    <3> QED
      BY <3>1, <3>2, <3>3
  <2> QED
    BY <1>2, <1>6, <1>7, <2>3, <2>5
<1>8. CASE ~(tx.op = "Proxy" /\ tx.name = "Replica")
  <2>1. UNCHANGED beaconOf
    BY <1>8 DEF Execute
  <2>2. \A d : <<"Proxy", "Replica", d>> \notin new
    BY <1>2, <1>8 DEF batchCalls
  <2>3. ProxiesHaveBeacons'
    BY <1>1, <1>4, <1>6, <2>1, <2>2 DEF ProxiesHaveBeacons, did
  <2> QED
    BY <1>2, <1>4, <1>6, <2>1, <2>3
<1> QED
  BY <1>7, <1>8

(* Mining keeps what the scripts rest on.                                  *)
LEMMA MineStep ==
  ASSUME ScriptInv, NEW l \in Chains, Mine(l)
  PROVE  /\ Keeps /\ ScriptInv'
         /\ \A k \in Chains : ToSet(mempool'[k]) \subseteq ToSet(mempool[k])
<1>1. PICK q \in Seq(Steps) : q = mempool[l] /\ q # << >>
  BY DEF Mine, ScriptInv, ScriptsType
<1>2. PICK tx \in Steps : tx = Head(q)
  BY <1>1, AfterFirst
<1>3. tx.on = l /\ tx.kind = "send" /\ SoundTx(tx)
  BY <1>1, <1>2, AfterFirst DEF ScriptInv, SoundMempool
<1>4. UNCHANGED <<script, todo, replicas, recorded, batchFile>>
  BY DEF Mine, scriptVars
<1>5. /\ mempool' \in [Chains -> Seq(Steps)]
      /\ \A k \in Chains : ToSet(mempool'[k]) \subseteq ToSet(mempool[k])
      /\ \A k \in Chains : \A x \in ToSet(mempool[k]) : x \in ToSet(mempool'[k]) \/ (k = l /\ x = tx)
  <2>1. mempool' = [mempool EXCEPT ![l] = Tail(q)] /\ mempool \in [Chains -> Seq(Steps)]
    BY <1>1 DEF Mine, ScriptInv, ScriptsType
  <2>2. Tail(q) \in Seq(Steps) /\ ToSet(q) = ToSet(Tail(q)) \cup {tx}
    BY <1>1, <1>2, AfterFirst
  <2> QED
    BY <1>1, <2>1, <2>2
<1>6. /\ executed' \in [Chains -> SUBSET (Ops \X Names \X (Chains \cup {None}))]
      /\ beaconOf' \in [Chains -> [Chains -> Chains \cup {None}]]
      /\ reverted' \subseteq Steps /\ reverted \subseteq reverted'
      /\ \A k \in Chains : executed[k] \subseteq executed'[k]
      /\ \A k, d \in Chains : beaconOf[k][d] # None => beaconOf'[k][d] # None
      /\ ProxiesHaveBeacons'
      /\ tx \in reverted' \/ tx.op = "batch" \/ <<tx.op, tx.name, tx.remote>> \in executed'[l]
  <2>1. CASE Execute(tx) /\ UNCHANGED reverted
    BY <1>3, <2>1, ExecuteKeeps DEF ScriptInv, ScriptsType
  <2>2. CASE reverted' = reverted \cup {tx} /\ UNCHANGED <<executed, beaconOf>>
    BY <2>2 DEF ScriptInv, ScriptsType, ProxiesHaveBeacons, did
  <2> QED
    BY <1>1, <1>2, <2>1, <2>2 DEF Mine
<1>7. Keeps
  <2>1. ASSUME NEW x \in Steps, Out(x) PROVE Out(x)'
    <3>1. x.on \in Chains
      BY DEF Steps
    <3> QED
      BY <1>5, <1>6, <2>1, <3>1 DEF Out, mined, did
  <2>2. \A x \in Facts : known(x) => known(x)'
    BY <1>4, <1>6 DEF known, mined, did, Facts, Steps
  <2> QED
    BY <1>6, <2>1, <2>2 DEF Keeps
<1>8. ExpectedTodo'
  BY <1>4, <1>7, StillExpectedTodo DEF ScriptInv, ScriptsType
<1>9. SoundMempool'
  BY <1>5 DEF SoundMempool, ScriptInv
<1>10. ScriptInv'
  BY <1>4, <1>5, <1>6, <1>8, <1>9 DEF ScriptInv, ScriptsType, ReplicasHaveBeacons
<1> QED
  BY <1>5, <1>7, <1>10

(* So does the governor's batch.                                           *)
LEMMA BatchStep ==
  ASSUME ScriptInv, NEW spoke \in batchFile, GovernorExecutesBatch(spoke)
  PROVE  Keeps /\ ScriptInv'
<1>1. spoke \in Chains
  BY DEF ScriptInv, ScriptsType
<1>2. PICK tx : tx = step("send", "batch", Hub, "GovernanceRouter", spoke)
  OBVIOUS
<1>3. tx \in Steps /\ tx.kind = "send" /\ SoundTx(tx)
  BY <1>1, <1>2, DeployAssumption DEF step, Steps, Ops, Names, SoundTx, isSend
<1>4. Execute(tx)
  BY <1>2 DEF GovernorExecutesBatch
<1>5. UNCHANGED <<script, todo, replicas, recorded, mempool, reverted>> /\ batchFile' \subseteq Chains
  BY DEF GovernorExecutesBatch, scriptVars, ScriptInv, ScriptsType
<1>6. /\ executed' \in [Chains -> SUBSET (Ops \X Names \X (Chains \cup {None}))]
      /\ beaconOf' \in [Chains -> [Chains -> Chains \cup {None}]]
      /\ \A k \in Chains : executed[k] \subseteq executed'[k]
      /\ \A k, d \in Chains : beaconOf[k][d] # None => beaconOf'[k][d] # None
      /\ ProxiesHaveBeacons'
  BY <1>3, <1>4, ExecuteKeeps
<1>7. Keeps
  <2>1. \A x \in Steps : Out(x) => Out(x)'
    BY <1>5, <1>6 DEF Out, mined, did, Steps
  <2>2. \A x \in Facts : known(x) => known(x)'
    BY <1>5, <1>6 DEF known, mined, did, Facts, Steps
  <2> QED
    BY <1>6, <2>1, <2>2 DEF Keeps
<1>8. ExpectedTodo'
  BY <1>5, <1>7, StillExpectedTodo DEF ScriptInv, ScriptsType
<1> QED
  BY <1>5, <1>6, <1>7, <1>8
     DEF ScriptInv, ScriptsType, ReplicasHaveBeacons, SoundMempool

(* No more happens than to an owner, or to a custom token's details. *)
TokensOnly ==
  /\ UNCHANGED <<script, todo, status, replicas, recorded, configs, batchFile, mempool>>
  /\ UNCHANGED <<reverted, beaconOf, governor, governorDomain, routers, domains, inFlight>>
  /\ DOMAIN owner' = Chains
  /\ \A c \in Chains : DOMAIN owner'[c] = DOMAIN owner[c]
  /\ \A c \in Chains : executed[c] \subseteq executed'[c]
  /\ \A c \in Chains : \A x \in executed'[c] \ executed[c] : x[1] = "setDetailsByOthers"

(* What others do leaves the script and its transactions alone.            *)
LEMMA OthersTouchTokens ==
  ASSUME NEW l \in Chains, Others(l), DOMAIN owner = Chains, DOMAIN executed = Chains
  PROVE  TokensOnly
<1>1. /\ UNCHANGED <<script, todo, status, replicas, recorded, configs, batchFile, mempool>>
      /\ UNCHANGED <<reverted, beaconOf, governor, governorDomain, routers, domains, inFlight>>
  BY DEF Others, scriptVars, governanceVars
<1>2. PICK entry : entry = <<"setDetailsByOthers", "CustomToken", None>> /\ entry[1] = "setDetailsByOthers"
  <2>1. <<"setDetailsByOthers", "CustomToken", None>>[1] = "setDetailsByOthers"
    OBVIOUS
  <2> QED
    BY <2>1, Zenon
<1>3. PICK token : token = <<"CustomToken", None>>
  OBVIOUS
<1>4. \/ owner' = [owner EXCEPT ![l][token] = "another"] /\ UNCHANGED executed
      \/ executed' = [executed EXCEPT ![l] = @ \cup {entry}] /\ UNCHANGED owner
  BY <1>2, <1>3 DEF Others
<1>5. DOMAIN owner' = Chains /\ \A k \in Chains : DOMAIN owner'[k] = DOMAIN owner[k]
  <2>1. CASE owner' = [owner EXCEPT ![l][token] = "another"]
    <3>1. owner' = [owner EXCEPT ![l] = [owner[l] EXCEPT ![token] = "another"]]
      BY <2>1
    <3>2. DOMAIN [owner[l] EXCEPT ![token] = "another"] = DOMAIN owner[l]
      OBVIOUS
    <3> QED
      BY <3>1, <3>2
  <2> QED
    BY <1>4, <2>1
<1>6. \A k \in Chains : executed[k] \subseteq executed'[k] /\ executed'[k] \ executed[k] \subseteq {entry}
  <2>1. CASE executed' = [executed EXCEPT ![l] = @ \cup {entry}]
    <3>1. \A k \in Chains : executed'[k] = executed[k] \/ executed'[k] = executed[k] \cup {entry}
      BY <2>1
    <3> QED
      BY <3>1
  <2> QED
    BY <1>4, <2>1
<1>7. \A k \in Chains : \A y \in executed'[k] \ executed[k] : y[1] = "setDetailsByOthers"
  BY <1>2, <1>6, Zenon
<1> QED
  BY <1>1, <1>5, <1>6, <1>7 DEF TokensOnly

(* So does what others do.                                                 *)
LEMMA OthersStep ==
  ASSUME ScriptInv, NEW l \in Chains, Others(l), DOMAIN owner = Chains
  PROVE  Keeps /\ ScriptInv'
<1>1. DOMAIN executed = Chains
  BY DEF ScriptInv, ScriptsType
<1>2. /\ UNCHANGED <<script, todo, replicas, recorded, batchFile, mempool, reverted, beaconOf>>
      /\ \A k \in Chains : executed[k] \subseteq executed'[k]
      /\ \A k \in Chains : \A x \in executed'[k] \ executed[k] : x[1] = "setDetailsByOthers"
  <2>1. TokensOnly
    BY <1>1, OthersTouchTokens
  <2> QED
    BY <2>1 DEF TokensOnly
<1>3. executed' \in [Chains -> SUBSET (Ops \X Names \X (Chains \cup {None}))]
  <2>1. PICK x \in Ops \X Names \X (Chains \cup {None}) : x = <<"setDetailsByOthers", "CustomToken", None>>
    BY DEF Ops, Names
  <2>2. executed' = executed \/ executed' = [executed EXCEPT ![l] = @ \cup {x}]
    BY <2>1 DEF Others
  <2> DEFINE P == Ops \X Names \X (Chains \cup {None})
  <2>3. executed \in [Chains -> SUBSET P] /\ x \in P
    BY <2>1 DEF ScriptInv, ScriptsType
  <2> HIDE DEF P
  <2>4. executed' \in [Chains -> SUBSET P]
    BY <2>2, <2>3
  <2> QED
    BY <2>4 DEF P
<1>4. ProxiesHaveBeacons'
  <2>1. \A k, d \in Chains : <<"Proxy", "Replica", d>> \in executed'[k] => <<"Proxy", "Replica", d>> \in executed[k]
    BY <1>2
  <2> QED
    BY <1>2, <2>1 DEF ScriptInv, ProxiesHaveBeacons, did
<1>5. Keeps
  <2>1. \A x \in Steps : Out(x) => Out(x)'
    BY <1>2 DEF Out, mined, did, Steps
  <2>2. \A x \in Facts : known(x) => known(x)'
    BY <1>2 DEF known, mined, did, Facts, Steps
  <2> QED
    BY <1>2, <1>4, <2>1, <2>2 DEF Keeps
<1>6. ExpectedTodo'
  BY <1>2, <1>5, StillExpectedTodo DEF ScriptInv, ScriptsType
<1> QED
  BY <1>2, <1>3, <1>4, <1>5, <1>6
     DEF ScriptInv, ScriptsType, ReplicasHaveBeacons, SoundMempool

(* Steps that leave the scripts and what they rely on alone. *)
LEMMA UnchangedKeeps ==
  ASSUME ScriptInv,
         UNCHANGED <<script, todo, replicas, recorded, batchFile, mempool, reverted, executed, beaconOf>>
  PROVE  Keeps /\ ScriptInv'
<1>1. Keeps
  BY OthersKeep
<1>2. ExpectedTodo'
  BY <1>1, StillExpectedTodo DEF ScriptInv, ScriptsType
<1> QED
  BY <1>1, <1>2 DEF ScriptInv, ScriptsType, Keeps, ReplicasHaveBeacons, SoundMempool

(***************************************************************************)
(* What is required stays done                                             *)
(***************************************************************************)

(* What new steps of a task require, the call they come from required.     *)
Inherited(requires) ==
  /\ requires \in SUBSET (Steps \X Facts)
  /\ \A x, y : <<x, y>> \in requires =>
       /\ x.kind # "wait" /\ x.op \notin {"batch", "assignReplica", "Implementation", "Beacon"}
       /\ ~IsReplicaProxy(x)
  /\ \A x, y, z \in Steps :
       /\ <<x, y>> \in requires /\ isSend(x, "transferGovernor")
       /\ isCall(z, "transferGovernorship") /\ z.on = x.on /\ x.on # Hub
       => <<z, y>> \in requires

(* A task that goes on stays ready.                                        *)
LEMMA StepReady ==
  ASSUME ScriptInv, NEW t \in DOMAIN todo, NEW steps, GoesOn(t, steps), todo[t] # << >>,
         NEW requires, Inherited(requires), ReadyInv(requires), MeetsTask(requires, steps, Known'),
         \A l \in Chains : ToSet(mempool'[l]) \subseteq ToSet(mempool[l]) \cup {Head(todo[t])}
  PROVE  ReadyInv(requires)'
<1>1. /\ MeetsPhase(requires, todo', Known')
      /\ MeetsScript(requires, script', stepsOf(todo') \cup Known')
  BY GoesOnReady DEF Inherited, ReadyInv
<1>2. Known \subseteq Known'
  BY DEF GoesOn, Keeps, Known
<1>3. Meets(requires, Head(todo[t]), Known)
  BY FirstStep DEF ReadyInv
<1>4. \A l \in Chains : \A x \in ToSet(mempool'[l]) : Meets(requires, x, Known')
  BY <1>2, <1>3 DEF ReadyInv, Meets
<1> QED
  BY <1>1, <1>4 DEF ReadyInv

(* Whatever the chains do, tasks stay ready.                               *)
LEMMA ChainReady ==
  ASSUME ScriptInv, Keeps, UNCHANGED <<script, todo>>, NEW requires, Inherited(requires),
         ReadyInv(requires),
         \A l \in Chains : ToSet(mempool'[l]) \subseteq ToSet(mempool[l])
  PROVE  ReadyInv(requires)'
<1>1. Known \subseteq Known'
  BY DEF Keeps, Known
<1>2. MeetsPhase(requires, todo, Known') /\ MeetsScript(requires, script, stepsOf(todo) \cup Known')
  BY <1>1 DEF ReadyInv, MeetsScript, MeetsPhase, MeetsTask, Meets
<1>3. \A l \in Chains : \A x \in ToSet(mempool'[l]) : Meets(requires, x, Known')
  BY <1>1 DEF ReadyInv, Meets
<1> QED
  BY <1>2, <1>3 DEF ReadyInv

(* No steps require anything.                                              *)
LEMMA NothingMeets == \A requires, done : MeetsTask(requires, << >>, done)
  BY NothingIsOrderly DEF MeetsTask

(* A pair of steps of which the second is a wait. *)
LEMMA PairMeets ==
  ASSUME NEW requires, Inherited(requires), NEW a \in Steps, NEW b \in Steps, b.kind = "wait",
         NEW done, Meets(requires, a, done)
  PROVE  MeetsTask(requires, <<a>> \o <<b>>, done)
<1>1. PICK q \in Seq(Steps) : q = <<a>> \o <<b>> /\ ToSet(q) = {a, b}
  BY PairOf
<1>2. \A i \in DOMAIN q : q[i] = a \/ q[i] = b
  BY <1>1 DEF ToSet
<1>3. MeetsTask(requires, q, done)
  BY <1>2 DEF MeetsTask, Meets, Inherited
<1> QED
  BY <1>1, <1>3

(* The steps that deploy a Replica.                                        *)
LEMMA ReplicaStepsAre ==
  ASSUME NEW l \in Chains, NEW r \in Chains, NEW b \in Chains, NEW steps, DeploysWith(steps, l, r, b)
  PROVE  /\ steps \in Seq(Steps)
         /\ \A x \in ToSet(steps) :
              /\ x.on = l
              /\ \/ /\ x.name = "Replica" /\ x.beacon = b
                    /\ x.op \in {"Implementation", "Beacon", "Proxy"}
                 \/ x = step("call", "assignReplica", l, "", r)
              /\ ~isCall(x, "recordFromBlock") /\ ~isCall(x, "deployUnenrolledReplica")
         /\ step("call", "assignReplica", l, "", r) \in ToSet(steps)
<1>1. PICK i \in Steps, c \in Steps, p \in Steps, w \in Steps, n \in Steps :
        /\ i = replicaStep("send", "Implementation", l, r, b)
        /\ c = replicaStep("send", "Beacon", l, r, b)
        /\ p = replicaStep("send", "Proxy", l, r, b) /\ w = replicaStep("wait", "Proxy", l, r, b)
        /\ n = step("call", "assignReplica", l, "", r)
        /\ steps \in {<<i>> \o <<c>> \o (<<p>> \o <<w>>) \o <<n>>, (<<p>> \o <<w>>) \o <<n>>}
  BY DEF DeploysWith
<1>2. \A x \in {i, c, p, w} : x.on = l /\ x.name = "Replica" /\ x.beacon = b /\ x.kind # "call"
                            /\ x.op \in {"Implementation", "Beacon", "Proxy"}
  <2>1. i.on = l /\ i.name = "Replica" /\ i.beacon = b /\ i.kind # "call"
        /\ i.op \in {"Implementation", "Beacon", "Proxy"}
    BY <1>1, ReplicaStepIs
  <2>2. c.on = l /\ c.name = "Replica" /\ c.beacon = b /\ c.kind # "call"
        /\ c.op \in {"Implementation", "Beacon", "Proxy"}
    BY <1>1, ReplicaStepIs
  <2>3. p.on = l /\ p.name = "Replica" /\ p.beacon = b /\ p.kind # "call"
        /\ p.op \in {"Implementation", "Beacon", "Proxy"}
    BY <1>1, ReplicaStepIs
  <2>4. w.on = l /\ w.name = "Replica" /\ w.beacon = b /\ w.kind # "call"
        /\ w.op \in {"Implementation", "Beacon", "Proxy"}
    BY <1>1, ReplicaStepIs
  <2> QED
    BY <2>1, <2>2, <2>3, <2>4
<1>3. n.on = l /\ n.op = "assignReplica"
  BY <1>1 DEF step
<1>4. PICK m \in Seq(Steps) : m = <<n>> /\ ToSet(m) = {n}
  BY SingleStep
<1>5. PICK s \in Seq(Steps) : s = <<p>> \o <<w>> /\ ToSet(s) = {p, w}
  BY PairOf
<1>6. PICK k \in Seq(Steps) : k = <<i>> \o <<c>> /\ ToSet(k) = {i, c}
  BY PairOf
<1>7. PICK z \in Seq(Steps) : z = k \o s /\ ToSet(z) = ToSet(k) \cup ToSet(s)
  BY OneAfterOther
<1>8. s \o m \in Seq(Steps) /\ ToSet(s \o m) = ToSet(s) \cup ToSet(m)
  BY OneAfterOther
<1>9. z \o m \in Seq(Steps) /\ ToSet(z \o m) = ToSet(z) \cup ToSet(m)
  BY OneAfterOther
<1>10. steps \in Seq(Steps) /\ ToSet(steps) \subseteq {i, c, p, w, n} /\ n \in ToSet(steps)
  BY <1>1, <1>4, <1>5, <1>6, <1>7, <1>8, <1>9
<1> QED
  BY <1>1, <1>2, <1>3, <1>10 DEF isCall

(* Every step of a task keeps tasks and mempools ready.                    *)
LEMMA TaskReady ==
  ASSUME ScriptInv, NEW t \in DOMAIN todo, Step(t), governor[Hub] \in Accounts \cup {NoAccount},
         NEW requires, Inherited(requires), ReadyInv(requires)
  PROVE  ReadyInv(requires)' /\ ScriptInv'
<1>1. todo[t] # << >>
  BY DEF Step, Send, Wait, DeployUnenrolledReplica, TransferGovernorship, Note, Check,
         EnrollSpoke, CheckWithWaiter, calling, at, running
<1>2. CASE Send(t)
  BY <1>1, <1>2, SendStep, StepReady, NothingMeets
<1>3. CASE Wait(t)
  <2>1. UNCHANGED mempool
    BY <1>3 DEF Wait
  <2> QED
    BY <1>1, <1>3, <2>1, WaitStep, StepReady, NothingMeets
<1>4. CASE DeployUnenrolledReplica(t)
  <2>1. UNCHANGED mempool
    BY <1>4 DEF DeployUnenrolledReplica
  <2>2. PICK l \in Chains, r \in Chains, b \in Chains, steps \in Seq(Steps) :
          DeploysWith(steps, l, r, b) /\ GoesOn(t, steps)
    BY <1>4, DeployReplicaStep
  <2>3. \A x \in ToSet(steps) : \/ x.name = "Replica" /\ x.op \in {"Implementation", "Beacon", "Proxy"}
                                \/ x = step("call", "assignReplica", l, "", r)
    <3>1. \A x \in ToSet(steps) :
            /\ x.on = l
            /\ \/ /\ x.name = "Replica" /\ x.beacon = b
                    /\ x.op \in {"Implementation", "Beacon", "Proxy"}
                 \/ x = step("call", "assignReplica", l, "", r)
            /\ ~isCall(x, "recordFromBlock") /\ ~isCall(x, "deployUnenrolledReplica")
      BY <2>2, ReplicaStepsAre
    <3> QED
      BY <3>1
  <2>4. step("call", "assignReplica", l, "", r).op = "assignReplica"
    BY DEF step
  <2>5. \A i \in DOMAIN steps : \/ IsReplicaProxy(steps[i])
                               \/ steps[i].op \in {"assignReplica", "Implementation", "Beacon"}
    BY <2>3, <2>4 DEF ToSet, IsReplicaProxy
  <2>6. MeetsTask(requires, steps, Known')
    BY <2>5 DEF MeetsTask, Meets, Inherited
  <2> QED
    BY <1>1, <1>4, <2>1, <2>2, <2>6, DeployReplicaStep, StepReady
<1>5. CASE TransferGovernorship(t)
  <2>1. UNCHANGED mempool
    BY <1>5 DEF TransferGovernorship
  <2>2. PICK a \in Steps, b \in Steps :
          /\ SentAndAwaited(a, b, "transferGovernor", Head(todo[t]).on, governor[Hub], Hub)
          /\ GoesOn(t, <<a>> \o <<b>>)
    BY <1>5, TransferGovernorshipStep
  <2>3. PICK h \in Steps : h = Head(todo[t])
    BY <1>1, FirstStep
  <2>4. isSend(a, "transferGovernor") /\ a.on = h.on /\ b.kind = "wait"
    BY <2>2, <2>3 DEF SentAndAwaited, step, isSend
  <2>5. isCall(h, "transferGovernorship")
    BY <1>5, <2>3 DEF TransferGovernorship, calling, at, isCall
  <2>6. h.on # Hub
    BY <1>1, <2>3, <2>5, FirstStep DEF Expected, SoundCall
  <2>7. Meets(requires, h, Known) /\ Known \subseteq Known'
    BY <1>1, <2>2, <2>3, FirstStep DEF ReadyInv, GoesOn, Keeps, Known
  <2>8. Meets(requires, a, Known')
    <3> SUFFICES ASSUME NEW y, <<a, y>> \in requires PROVE y \in Known'
      BY DEF Meets
    <3>1. y \in Steps
      BY DEF Inherited, Facts
    <3>2. <<h, y>> \in requires
      BY <2>4, <2>5, <2>6, <3>1 DEF Inherited
    <3> QED
      BY <2>7, <3>2 DEF Meets
  <2>9. MeetsTask(requires, <<a>> \o <<b>>, Known')
    BY <2>4, <2>8, PairMeets
  <2> QED
    BY <1>1, <1>5, <2>1, <2>2, <2>9, TransferGovernorshipStep, StepReady
<1>6. CASE Note(t)
  <2>1. UNCHANGED mempool
    BY <1>6 DEF Note
  <2> QED
    BY <1>1, <1>6, <2>1, NoteStep, StepReady, NothingMeets
<1>7. CASE Check(t)
  <2>1. UNCHANGED mempool
    BY <1>7 DEF Check
  <2> QED
    BY <1>1, <1>7, <2>1, CheckStep, StepReady, NothingMeets
<1>8. CASE EnrollSpoke(t)
  <2>1. UNCHANGED mempool
    BY <1>8 DEF EnrollSpoke
  <2>2. CASE GoesOn(t, << >>)
    BY <1>1, <1>8, <2>1, <2>2, EnrollSpokeStep, StepReady, NothingMeets
  <2>3. ASSUME NEW a \in Steps, NEW b \in Steps, NEW spoke \in Chains,
               SentAndAwaited(a, b, "batch", Hub, "GovernanceRouter", spoke),
               GoesOn(t, <<a>> \o <<b>>)
        PROVE  ReadyInv(requires)'
    <3>1. a.op = "batch" /\ b.kind = "wait"
      BY <2>3 DEF SentAndAwaited, step
    <3>2. Meets(requires, a, Known')
      BY <3>1 DEF Meets, Inherited
    <3>3. MeetsTask(requires, <<a>> \o <<b>>, Known')
      BY <3>1, <3>2, PairMeets
    <3> QED
      BY <1>1, <2>1, <2>3, <3>3, StepReady
  <2> QED
    BY <1>8, <2>2, <2>3, EnrollSpokeStep
<1>9. CASE CheckWithWaiter(t)
  <2>1. UNCHANGED mempool
    BY <1>9 DEF CheckWithWaiter
  <2> QED
    BY <1>1, <1>9, <2>1, CheckWithWaiterStep, StepReady, NothingMeets
<1> QED
  BY <1>2, <1>3, <1>4, <1>5, <1>6, <1>7, <1>8, <1>9 DEF Step

(* So does every step of the system.                                       *)
LEMMA NextReady ==
  ASSUME ScriptInv, [DeployNext]_deployVars, governor[Hub] \in Accounts \cup {NoAccount},
         DOMAIN owner = Chains, NEW requires, Inherited(requires), ReadyInv(requires)
  PROVE  ReadyInv(requires)' /\ ScriptInv'
<1>1. CASE \E t \in DOMAIN todo : Step(t)
  BY <1>1, TaskReady
<1>2. CASE NextPhase
  BY <1>2, NextPhaseStep, NextPhaseReady
<1>3. CASE \E l \in Chains : Mine(l)
  <2>1. PICK l \in Chains : Mine(l)
    BY <1>3
  <2>2. UNCHANGED <<script, todo>>
    BY <2>1 DEF Mine, scriptVars
  <2> QED
    BY <2>1, <2>2, MineStep, ChainReady
<1>4. CASE \E spoke \in batchFile : GovernorExecutesBatch(spoke)
  <2>1. PICK spoke \in batchFile : GovernorExecutesBatch(spoke)
    BY <1>4
  <2>2. UNCHANGED <<script, todo, mempool>>
    BY <2>1 DEF GovernorExecutesBatch, scriptVars
  <2> QED
    BY <2>1, <2>2, BatchStep, ChainReady
<1>5. CASE Abort \/ Handle \/ UNCHANGED deployVars
  <2>1. UNCHANGED <<script, todo, replicas, recorded, batchFile, mempool, reverted, executed, beaconOf>>
    BY <1>5 DEF Abort, Handle, scriptVars, deployVars
  <2> QED
    BY <2>1, UnchangedKeeps, ChainReady
<1>6. CASE \E l \in Chains : Others(l)
  <2>1. PICK l \in Chains : Others(l)
    BY <1>6
  <2>2. UNCHANGED <<script, todo, mempool>>
    BY <2>1 DEF Others, scriptVars
  <2> QED
    BY <2>1, <2>2, OthersStep, ChainReady
<1> QED
  BY <1>1, <1>2, <1>3, <1>4, <1>5, <1>6 DEF DeployNext

(***************************************************************************)
(* Governorship                                                            *)
(***************************************************************************)

waited(op, l, name, r) == step("wait", op, l, name, r)

(* What is done before governorship of l goes to the Hub. *)
ToHandOver(l) ==
  {waited("Proxy", Hub, "GovernanceRouter", None),
   waited("ownerEnrollReplica", l, "XAppConnectionManager", Hub)}
    \cup {waited("setWatcherPermission", l, w, Hub) : w \in Watchers}

HandsOver(x) == isCall(x, "transferGovernorship") \/ (isSend(x, "transferGovernor") /\ x.on # Hub)

HandOver == {e \in Steps \X Facts : HandsOver(e[1]) /\ e[2] \in ToHandOver(e[1].on)}

(* The Hub can speak for l. *)
HandedOver(l) ==
  /\ l # Hub /\ governorDomain[l] = Hub /\ routers[l][Hub] = routerAt[Hub] /\ Hub \in Deployed
  /\ did(l, "ownerEnrollReplica", "XAppConnectionManager", Hub)
  /\ \A w \in Watchers : did(l, "setWatcherPermission", w, Hub)

GovernanceType ==
  /\ governor \in [Chains -> Accounts \cup {NoAccount}]
  /\ governorDomain \in [Chains -> Chains]
  /\ routers \in [Chains -> [Chains -> Routers \cup {NoRouter}]]
  /\ domains \in [Chains -> Seq(Chains)]
  /\ DOMAIN owner = Chains

MandateInv ==
  /\ GovernanceType
  /\ \A l \in Chains :
       /\ routers[l][Hub] \in {NoRouter, routerAt[Hub]}
       /\ governorDomain[l] \in {l, Hub} /\ (governor[l] # NoAccount => governorDomain[l] = l)
       /\ \A i \in DOMAIN domains[l] : domains[l][i] # l
  /\ did(Hub, "Proxy", "GovernanceRouter", None) => Hub \in Deployed
  /\ \A l \in Deployed : governor[l] = NoAccount => HandedOver(l)
  /\ \A m \in inFlight :
       /\ m.destination \in Chains /\ m.origin # m.destination
       /\ m.body.type = "transferGovernor" /\ m.body.domain = Hub

(* A transaction that hands a chain over requires what the call it comes   *)
(* from does.                                                              *)
LEMMA HandOverInherited == Inherited(HandOver)
<1>1. \A x, y, z \in Steps :
       /\ <<x, y>> \in HandOver /\ isSend(x, "transferGovernor")
       /\ isCall(z, "transferGovernorship") /\ z.on = x.on /\ x.on # Hub
       => <<z, y>> \in HandOver
  BY DEF HandOver, HandsOver
<1>2. \A x, y : <<x, y>> \in HandOver =>
       /\ x.kind # "wait" /\ x.op \notin {"batch", "assignReplica", "Implementation", "Beacon"}
       /\ ~IsReplicaProxy(x)
  BY DEF HandOver, HandsOver, isCall, isSend, IsReplicaProxy
<1>3. HandOver \in SUBSET (Steps \X Facts)
  BY DEF HandOver
<1> QED
  BY <1>1, <1>2, <1>3 DEF Inherited

(* Where the facts that handing over takes are known. *)
LEMMA ReadyToHandOver ==
  ASSUME NEW x \in Steps, HandsOver(x), Meets(HandOver, x, Known)
  PROVE  /\ did(Hub, "Proxy", "GovernanceRouter", None)
         /\ did(x.on, "ownerEnrollReplica", "XAppConnectionManager", Hub)
         /\ \A w \in Watchers : did(x.on, "setWatcherPermission", w, Hub)
<1>1. x.on \in Chains /\ Hub \in Chains
  BY DeployAssumption DEF Steps
<1>2. \A y \in ToHandOver(x.on) : y \in Facts => known(y)
  BY DEF HandOver, Meets, Known
<1>3. ASSUME NEW op \in {"Proxy", "ownerEnrollReplica", "setWatcherPermission"}, NEW l \in Chains,
             NEW name \in Names, NEW r \in Chains \cup {None}
      PROVE  /\ waited(op, l, name, r) \in Facts
             /\ known(waited(op, l, name, r)) => did(l, op, name, r)
  <2>1. waited(op, l, name, r) \in Steps
    BY DEF waited, step, Steps, Ops
  <2> QED
    BY <2>1 DEF waited, step, Facts, known, mined
<1>4. /\ "GovernanceRouter" \in Names /\ "XAppConnectionManager" \in Names /\ Watchers \subseteq Names
      /\ Hub \in Chains \cup {None} /\ None \in Chains \cup {None}
  BY <1>1 DEF Names
<1>5. did(Hub, "Proxy", "GovernanceRouter", None)
  <2>1. waited("Proxy", Hub, "GovernanceRouter", None) \in ToHandOver(x.on)
    BY DEF ToHandOver
  <2> QED
    BY <1>1, <1>2, <1>3, <1>4, <2>1
<1>6. did(x.on, "ownerEnrollReplica", "XAppConnectionManager", Hub)
  <2>1. waited("ownerEnrollReplica", x.on, "XAppConnectionManager", Hub) \in ToHandOver(x.on)
    BY DEF ToHandOver
  <2> QED
    BY <1>1, <1>2, <1>3, <1>4, <2>1
<1>7. ASSUME NEW w \in Watchers PROVE did(x.on, "setWatcherPermission", w, Hub)
  <2>1. waited("setWatcherPermission", x.on, w, Hub) \in ToHandOver(x.on)
    BY DEF ToHandOver
  <2> QED
    BY <1>1, <1>2, <1>3, <1>4, <2>1
<1> QED
  BY <1>5, <1>6, <1>7

(* The routers that exist after a transaction. *)
LEMMA DeployedAfter ==
  ASSUME ScriptInv, MandateInv, NEW tx \in Steps, tx.kind = "send", SoundTx(tx), Execute(tx)
  PROVE  /\ DOMAIN owner' = Chains
         /\ \A l \in Chains :
              l \in Deployed' <=> \/ l \in Deployed
                                  \/ /\ l = tx.on /\ tx.op = "Proxy"
                                     /\ tx.name = "GovernanceRouter" /\ tx.remote = None
         /\ did(Hub, "Proxy", "GovernanceRouter", None)' => Hub \in Deployed'
<1>1. tx.on \in Chains /\ DOMAIN owner = Chains
  BY DEF Steps, MandateInv, GovernanceType
<1>2. owner' = [owner EXCEPT ![tx.on] = ownerAfter(tx)]
  BY DEF Execute
<1>3. PICK c : c = <<tx.name, tx.remote>>
  OBVIOUS
<1>4. DOMAIN ownerAfter(tx) = IF tx.op \in {"deploy", "Proxy"} THEN DOMAIN owner[tx.on] \cup {c}
                              ELSE DOMAIN owner[tx.on]
  BY <1>3 DEF ownerAfter
<1>5. c = <<"GovernanceRouter", None>> <=> tx.name = "GovernanceRouter" /\ tx.remote = None
  BY <1>3
<1>6. \A l \in Chains :
        l \in Deployed' <=> \/ l \in Deployed
                            \/ /\ l = tx.on /\ tx.op = "Proxy"
                               /\ tx.name = "GovernanceRouter" /\ tx.remote = None
  <2>1. tx.op = "deploy" => tx.name # "GovernanceRouter"
    BY DEF SoundTx, isSend
  <2> QED
    BY <1>1, <1>2, <1>4, <1>5, <2>1 DEF Deployed, exists
<1>7. did(Hub, "Proxy", "GovernanceRouter", None)' =>
        \/ did(Hub, "Proxy", "GovernanceRouter", None)
        \/ tx.on = Hub /\ tx.op = "Proxy" /\ tx.name = "GovernanceRouter" /\ tx.remote = None
  <2>1. executed' = [executed EXCEPT ![tx.on] = @ \cup
                       IF tx.op = "batch" THEN batchCalls(tx.remote)
                       ELSE {<<tx.op, tx.name, tx.remote>>}]
    BY DEF Execute
  <2>2. <<"Proxy", "GovernanceRouter", None>> \notin batchCalls(tx.remote)
    BY DEF batchCalls
  <2>3. DOMAIN executed = Chains /\ Hub \in Chains
    BY DeployAssumption DEF ScriptInv, ScriptsType
  <2> QED
    BY <1>1, <2>1, <2>2, <2>3 DEF did
<1> QED
  BY <1>1, <1>2, <1>6, <1>7, DeployAssumption DEF MandateInv

(* What transactions do in GovernanceRouter. *)
LEMMA GovernsAfter ==
  ASSUME ScriptInv, MandateInv, NEW tx \in Steps, tx.kind = "send", SoundTx(tx),
         Execute(tx), succeeds(tx)
  PROVE  \/ /\ tx.op = "Proxy" /\ tx.name = "GovernanceRouter"
            /\ governor' = [governor EXCEPT ![tx.on] = "deployer"]
            /\ governorDomain' = [governorDomain EXCEPT ![tx.on] = tx.on]
            /\ UNCHANGED <<routers, domains, inFlight>>
         \/ /\ tx.op # "Proxy" /\ tx.remote \in Chains /\ tx.remote # tx.on
            /\ routers' = [routers EXCEPT ![tx.on][tx.remote] = routerAt[tx.remote]]
            /\ \/ UNCHANGED domains
               \/ domains' = [domains EXCEPT ![tx.on] = Append(domains[tx.on], tx.remote)]
            /\ UNCHANGED <<governor, governorDomain, inFlight>>
         \/ /\ tx.op = "transferGovernor" /\ tx.remote = Hub
            /\ governor[tx.on] # NoAccount /\ (tx.on # Hub => routers[tx.on][Hub] # NoRouter)
            /\ governor' = [governor EXCEPT ![tx.on] = IF tx.on = Hub THEN tx.name ELSE NoAccount]
            /\ governorDomain' = [governorDomain EXCEPT ![tx.on] = Hub]
            /\ UNCHANGED <<routers, domains>>
            /\ \A m \in inFlight' : m \in inFlight \/
                 /\ m.origin = tx.on /\ m.body.type = "transferGovernor" /\ m.body.domain = Hub
                 /\ \E i \in DOMAIN domains[tx.on] : m.destination = domains[tx.on][i]
         \/ /\ ~(tx.op = "Proxy" /\ tx.name = "GovernanceRouter")
            /\ UNCHANGED <<governor, governorDomain, routers, domains, inFlight>>
<1>1. governs(tx)
  BY DEF Execute
<1>2. tx.on \in Chains
  BY DEF Steps
<1>3. CASE tx.op = "Proxy" /\ tx.name = "GovernanceRouter"
  BY <1>1, <1>3 DEF governs
<1>4. CASE tx.op \in {"setRouterLocal", "batch"}
  <2>1. tx.remote \in Chains
    BY <1>4 DEF SoundTx, isSend
  <2>2. /\ tx.remote # tx.on
        /\ routers' = [routers EXCEPT ![tx.on][tx.remote] = routerAt[tx.remote]]
        /\ domains' = [domains EXCEPT ![tx.on] = G!domainsAfter(tx.on, tx.remote, routerAt[tx.remote])]
        /\ UNCHANGED <<governor, governorDomain, inFlight>>
    BY <1>1, <1>4 DEF governs, G!_setRouter, remoteRouter
  <2>3. routerAt[tx.remote] # NoRouter
    BY <2>1, DeployAssumption
  <2>4. G!domainsAfter(tx.on, tx.remote, routerAt[tx.remote]) \in
          {domains[tx.on], Append(domains[tx.on], tx.remote)}
    BY <2>3 DEF G!domainsAfter
  <2>5. domains \in [Chains -> Seq(Chains)]
    BY DEF MandateInv, GovernanceType
  <2> QED
    BY <1>2, <1>4, <2>1, <2>2, <2>4, <2>5
<1>5. CASE tx.op = "transferGovernor"
  <2>1. tx.remote = Hub
    BY <1>5 DEF SoundTx, isSend
  <2>2. governor[tx.on] = "deployer" /\ (tx.remote # tx.on => G!_mustHaveRouter(tx.on, tx.remote))
    BY <1>5 DEF succeeds
  <2>3. governor[tx.on] # NoAccount /\ (tx.on # Hub => routers[tx.on][Hub] # NoRouter)
    BY <2>1, <2>2, DeployAssumption DEF G!_mustHaveRouter, Accounts
  <2>4. /\ G!_transferGovernor(tx.on, tx.remote, tx.name)
        /\ G!dispatch(tx.on, G!transferDestinations(tx.on, tx.remote), routers[tx.on],
                      [type |-> "transferGovernor", domain |-> tx.remote, governor |-> tx.name])
        /\ UNCHANGED <<routers, domains>>
    BY <1>1, <1>5 DEF governs
  <2>5. /\ governor' = [governor EXCEPT ![tx.on] = IF tx.on = Hub THEN tx.name ELSE NoAccount]
        /\ governorDomain' = [governorDomain EXCEPT ![tx.on] = Hub]
    BY <2>1, <2>4 DEF G!_transferGovernor, G!newGovernor
  <2>6. G!transferDestinations(tx.on, tx.remote) \subseteq {domains[tx.on][i] : i \in DOMAIN domains[tx.on]}
    BY DEF G!transferDestinations, G!remoteDomains, G!Entries
  <2>7. \A m \in inFlight' : m \in inFlight \/
          \E d \in G!transferDestinations(tx.on, tx.remote) :
            m = [origin |-> tx.on, destination |-> d, nonce |-> nonceTo[tx.on][d],
                 recipient |-> routers[tx.on][d],
                 body |-> [type |-> "transferGovernor", domain |-> tx.remote, governor |-> tx.name]]
    BY <2>4 DEF G!dispatch
  <2>8. \A m \in inFlight' : m \in inFlight \/
          /\ m.origin = tx.on /\ m.body.type = "transferGovernor" /\ m.body.domain = Hub
          /\ \E i \in DOMAIN domains[tx.on] : m.destination = domains[tx.on][i]
    BY <2>1, <2>6, <2>7
  <2> QED
    BY <1>5, <2>1, <2>3, <2>4, <2>5, <2>8
<1>6. CASE ~(tx.op = "Proxy" /\ tx.name = "GovernanceRouter")
           /\ tx.op \notin {"setRouterLocal", "batch", "transferGovernor"}
  BY <1>1, <1>6 DEF governs, governanceVars
<1> QED
  BY <1>3, <1>4, <1>5, <1>6

(* What a chain was told stays with it. *)
LEMMA HandedOverStays ==
  ASSUME NEW l \in Chains, HandedOver(l), governorDomain'[l] = governorDomain[l],
         routers'[l][Hub] = routers[l][Hub], Hub \in Deployed => Hub \in Deployed',
         executed[l] \subseteq executed'[l]
  PROVE  HandedOver(l)'
BY DEF HandedOver, did

(* A transaction that hands a chain over finds the Hub able to speak for   *)
(* it, and none takes that from a chain.                                   *)
LEMMA ExecuteMandate ==
  ASSUME ScriptInv, MandateInv, NEW tx \in Steps, tx.kind = "send", SoundTx(tx),
         Execute(tx), succeeds(tx), Meets(HandOver, tx, Known)
  PROVE  MandateInv'
<1>0. tx.on \in Chains /\ tx.name \in Names /\ Hub \in Chains
  BY DeployAssumption DEF Steps
<1>1. /\ DOMAIN owner' = Chains
      /\ \A l \in Chains :
           l \in Deployed' <=> \/ l \in Deployed
                               \/ /\ l = tx.on /\ tx.op = "Proxy"
                                  /\ tx.name = "GovernanceRouter" /\ tx.remote = None
      /\ did(Hub, "Proxy", "GovernanceRouter", None)' => Hub \in Deployed'
  BY DeployedAfter
<1>2. \A l \in Chains : executed[l] \subseteq executed'[l]
  BY ExecuteKeeps
<1>3. Deployed' \subseteq Chains
  BY DEF Deployed
<1>4. GovernanceType
  BY DEF MandateInv
<1>5. CASE /\ tx.op = "Proxy" /\ tx.name = "GovernanceRouter"
           /\ governor' = [governor EXCEPT ![tx.on] = "deployer"]
           /\ governorDomain' = [governorDomain EXCEPT ![tx.on] = tx.on]
           /\ UNCHANGED <<routers, domains, inFlight>>
  <2>1. "deployer" \in Accounts /\ "deployer" # NoAccount
    BY DeployAssumption DEF Accounts
  <2>2. GovernanceType'
    BY <1>0, <1>1, <1>4, <1>5, <2>1 DEF GovernanceType
  <2>3. governor'[tx.on] # NoAccount /\ governorDomain'[tx.on] = tx.on
    BY <1>0, <1>4, <1>5, <2>1 DEF GovernanceType
  <2>4. \A l \in Chains : l # tx.on => governor'[l] = governor[l] /\ governorDomain'[l] = governorDomain[l]
    BY <1>0, <1>4, <1>5 DEF GovernanceType
  <2>5. ASSUME NEW l \in Deployed', governor'[l] = NoAccount PROVE HandedOver(l)'
    <3>1. l \in Chains /\ l # tx.on /\ l \in Deployed
      BY <1>1, <1>3, <2>3, <2>5
    <3>2. HandedOver(l)
      BY <2>4, <2>5, <3>1 DEF MandateInv
    <3> QED
      BY <1>0, <1>1, <1>2, <1>5, <2>4, <3>1, <3>2, HandedOverStays
  <2> QED
    BY <1>1, <1>5, <2>2, <2>3, <2>4, <2>5 DEF MandateInv
<1>6. CASE /\ tx.op # "Proxy" /\ tx.remote \in Chains /\ tx.remote # tx.on
           /\ routers' = [routers EXCEPT ![tx.on][tx.remote] = routerAt[tx.remote]]
           /\ \/ UNCHANGED domains
              \/ domains' = [domains EXCEPT ![tx.on] = Append(domains[tx.on], tx.remote)]
           /\ UNCHANGED <<governor, governorDomain, inFlight>>
  <2>1. domains' \in [Chains -> Seq(Chains)] /\ \A l \in Chains : \A i \in DOMAIN domains'[l] : domains'[l][i] # l
    <3>1. CASE UNCHANGED domains
      BY <1>4, <3>1 DEF MandateInv, GovernanceType
    <3>2. CASE domains' = [domains EXCEPT ![tx.on] = Append(domains[tx.on], tx.remote)]
      <4>1. PICK old \in Seq(Chains) : old = domains[tx.on]
        BY <1>0, <1>4 DEF GovernanceType
      <4>2. Append(old, tx.remote) \in Seq(Chains)
        BY <1>6
      <4>3. PICK new \in Seq(Chains) : new = Append(old, tx.remote)
        BY <4>2
      <4>4. \A i \in DOMAIN old : old[i] # tx.on
        BY <1>0, <4>1 DEF MandateInv
      <4>5. \A i \in DOMAIN new : (i \in DOMAIN old /\ new[i] = old[i]) \/ new[i] = tx.remote
        BY <1>6, <4>3
      <4>6. domains' = [domains EXCEPT ![tx.on] = new]
        BY <3>2, <4>1, <4>3
      <4>7. \A l \in Chains : domains'[l] = IF l = tx.on THEN new ELSE domains[l]
        BY <1>0, <1>4, <4>6 DEF GovernanceType
      <4>8. domains' \in [Chains -> Seq(Chains)]
        BY <1>0, <1>4, <4>6 DEF GovernanceType
      <4>9. \A i \in DOMAIN new : new[i] # tx.on
        BY <1>6, <4>4, <4>5
      <4>10. \A l \in Chains : \A i \in DOMAIN domains[l] : domains[l][i] # l
        BY DEF MandateInv
      <4> QED
        BY <4>7, <4>8, <4>9, <4>10
    <3> QED
      BY <1>6, <3>1, <3>2
  <2>2. routers' \in [Chains -> [Chains -> Routers \cup {NoRouter}]]
    BY <1>0, <1>4, <1>6, DeployAssumption DEF GovernanceType
  <2>3. \A l, d \in Chains : routers'[l][d] = routers[l][d] \/ (d = tx.remote /\ routers'[l][d] = routerAt[d])
    BY <1>0, <1>4, <1>6 DEF GovernanceType
  <2>4. GovernanceType'
    BY <1>1, <1>4, <1>6, <2>1, <2>2 DEF GovernanceType
  <2>5. ASSUME NEW l \in Deployed', governor'[l] = NoAccount PROVE HandedOver(l)'
    <3>1. l \in Chains /\ l \in Deployed
      BY <1>1, <1>3, <1>6
    <3>2. HandedOver(l)
      BY <1>6, <2>5, <3>1 DEF MandateInv
    <3>3. routers'[l][Hub] = routers[l][Hub]
      BY <1>0, <2>3, <3>1, <3>2 DEF HandedOver
    <3> QED
      BY <1>0, <1>1, <1>2, <1>6, <3>1, <3>2, <3>3, HandedOverStays
  <2>6. \A l \in Chains : routers'[l][Hub] \in {NoRouter, routerAt[Hub]}
    BY <1>0, <2>3 DEF MandateInv
  <2> QED
    BY <1>1, <1>6, <2>1, <2>4, <2>5, <2>6 DEF MandateInv
<1>7. CASE /\ tx.op = "transferGovernor" /\ tx.remote = Hub
           /\ governor[tx.on] # NoAccount /\ (tx.on # Hub => routers[tx.on][Hub] # NoRouter)
           /\ governor' = [governor EXCEPT ![tx.on] = IF tx.on = Hub THEN tx.name ELSE NoAccount]
           /\ governorDomain' = [governorDomain EXCEPT ![tx.on] = Hub]
           /\ UNCHANGED <<routers, domains>>
           /\ \A m \in inFlight' : m \in inFlight \/
                /\ m.origin = tx.on /\ m.body.type = "transferGovernor" /\ m.body.domain = Hub
                /\ \E i \in DOMAIN domains[tx.on] : m.destination = domains[tx.on][i]
  <2>1. tx.on = Hub => tx.name \in Accounts /\ tx.name # NoAccount
    BY <1>7, DeployAssumption DEF SoundTx, isSend
  <2>2. GovernanceType'
    BY <1>0, <1>1, <1>4, <1>7, <2>1 DEF GovernanceType
  <2>3. \A l \in Chains : l # tx.on => governor'[l] = governor[l] /\ governorDomain'[l] = governorDomain[l]
    BY <1>0, <1>4, <1>7 DEF GovernanceType
  <2>4. /\ governor'[tx.on] = IF tx.on = Hub THEN tx.name ELSE NoAccount
        /\ governorDomain'[tx.on] = Hub
    BY <1>0, <1>4, <1>7 DEF GovernanceType
  <2>5. ASSUME NEW l \in Deployed', governor'[l] = NoAccount PROVE HandedOver(l)'
    <3>1. l \in Chains /\ l \in Deployed
      BY <1>1, <1>3, <1>7
    <3>2. CASE l # tx.on
      <4>1. HandedOver(l)
        BY <2>3, <2>5, <3>1, <3>2 DEF MandateInv
      <4> QED
        BY <1>0, <1>1, <1>2, <1>7, <2>3, <3>1, <3>2, <4>1, HandedOverStays
    <3>3. CASE l = tx.on
      <4>1. tx.on # Hub
        BY <2>1, <2>4, <2>5, <3>3
      <4>2. HandsOver(tx)
        BY <1>7, <4>1 DEF HandsOver, isSend
      <4>3. /\ did(Hub, "Proxy", "GovernanceRouter", None)
            /\ did(tx.on, "ownerEnrollReplica", "XAppConnectionManager", Hub)
            /\ \A w \in Watchers : did(tx.on, "setWatcherPermission", w, Hub)
        BY <4>2, ReadyToHandOver
      <4>4. routers[l][Hub] = routerAt[Hub]
        BY <1>7, <3>1, <3>3, <4>1 DEF MandateInv
      <4>5. Hub \in Deployed'
        BY <1>0, <1>1, <4>3 DEF MandateInv
      <4> QED
        BY <1>0, <1>2, <1>7, <2>4, <3>3, <4>1, <4>3, <4>4, <4>5 DEF HandedOver, did
    <3> QED
      BY <3>2, <3>3
  <2>6. \A m \in inFlight' :
          /\ m.destination \in Chains /\ m.origin # m.destination
          /\ m.body.type = "transferGovernor" /\ m.body.domain = Hub
    <3>1. \A i \in DOMAIN domains[tx.on] : domains[tx.on][i] # tx.on /\ domains[tx.on][i] \in Chains
      <4>1. domains[tx.on] \in Seq(Chains)
        BY <1>0, <1>4 DEF GovernanceType
      <4> QED
        BY <1>0, <4>1 DEF MandateInv
    <3> QED
      BY <1>7, <3>1 DEF MandateInv
  <2>7. \A l \in Chains : /\ governorDomain'[l] \in {l, Hub}
                          /\ (governor'[l] # NoAccount => governorDomain'[l] = l)
    BY <2>3, <2>4 DEF MandateInv
  <2> QED
    BY <1>1, <1>7, <2>2, <2>5, <2>6, <2>7 DEF MandateInv
<1>8. CASE /\ ~(tx.op = "Proxy" /\ tx.name = "GovernanceRouter")
           /\ UNCHANGED <<governor, governorDomain, routers, domains, inFlight>>
  <2>1. GovernanceType'
    BY <1>1, <1>4, <1>8 DEF GovernanceType
  <2>2. ASSUME NEW l \in Deployed', governor'[l] = NoAccount PROVE HandedOver(l)'
    <3>1. l \in Chains /\ l \in Deployed
      BY <1>1, <1>3, <1>8
    <3>2. HandedOver(l)
      BY <1>8, <2>2, <3>1 DEF MandateInv
    <3> QED
      BY <1>0, <1>1, <1>2, <1>8, <3>1, <3>2, HandedOverStays
  <2> QED
    BY <1>1, <1>8, <2>1, <2>2 DEF MandateInv
<1> QED
  BY <1>5, <1>6, <1>7, <1>8, GovernsAfter

(* A message that is handled tells a chain what it knows. *)
LEMMA HandleMandate ==
  ASSUME ScriptInv, MandateInv, Handle
  PROVE  MandateInv'
<1>1. PICK m \in inFlight : G!handle(m)
  BY DEF Handle
<1>2. PICK l \in Chains : l = m.destination
  BY DEF MandateInv
<1>3. m.origin # l /\ m.body.type = "transferGovernor" /\ m.body.domain = Hub
  BY <1>2 DEF MandateInv
<1>4. inFlight' \subseteq inFlight /\ UNCHANGED <<routers, domains>>
  BY <1>1 DEF G!handle, G!routerVars
<1>5. UNCHANGED <<governor, governorDomain>>
  <2>1. CASE G!handleReverts(l, m)
    BY <1>1, <1>2, <2>1 DEF G!handle, G!governorVars
  <2>2. CASE ~G!handleReverts(l, m)
    <3>1. m.origin = governorDomain[l]
      BY <2>2 DEF G!handleReverts, G!onlyGovernorRouter
    <3>2. l # Hub /\ governorDomain[l] = Hub /\ governor[l] = NoAccount
      BY <1>3, <3>1 DEF MandateInv
    <3>3. G!_transferGovernor(l, Hub, m.body.governor)
      BY <1>1, <1>2, <1>3, <2>2 DEF G!handle, G!_handleTransferGovernor
    <3>4. /\ governorDomain' = [governorDomain EXCEPT ![l] = Hub]
          /\ governor' = [governor EXCEPT ![l] = NoAccount]
      BY <3>2, <3>3 DEF G!_transferGovernor, G!newGovernor
    <3> QED
      BY <3>2, <3>4 DEF MandateInv, GovernanceType
  <2> QED
    BY <2>1, <2>2
<1>6. UNCHANGED <<owner, executed>>
  BY DEF Handle
<1>7. Deployed' = Deployed
  BY <1>6 DEF Deployed, exists
<1> QED
  BY <1>4, <1>5, <1>6, <1>7 DEF MandateInv, GovernanceType, HandedOver, did

(* Every step of the system keeps the mandate.                             *)
LEMMA MandateStep ==
  ASSUME ScriptInv, ReadyInv(HandOver), MandateInv, [DeployNext]_deployVars
  PROVE  MandateInv'
<1>1. CASE \E l \in Chains : Mine(l)
  <2>1. PICK l \in Chains : Mine(l)
    BY <1>1
  <2>2. PICK q \in Seq(Steps) : q = mempool[l] /\ q # << >>
    BY <2>1 DEF Mine, ScriptInv, ScriptsType
  <2>3. PICK tx \in Steps : tx = Head(q)
    BY <2>2, AfterFirst
  <2>4. tx \in ToSet(mempool[l])
    BY <2>2, <2>3, AfterFirst
  <2>5. tx.kind = "send" /\ SoundTx(tx) /\ Meets(HandOver, tx, Known)
    BY <2>4 DEF ScriptInv, SoundMempool, ReadyInv
  <2>6. CASE succeeds(tx)
    <3>1. Execute(tx)
      BY <2>1, <2>2, <2>3, <2>6 DEF Mine
    <3> QED
      BY <2>5, <2>6, <3>1, ExecuteMandate
  <2>7. CASE ~succeeds(tx)
    <3>1. UNCHANGED <<owner, executed, governor, governorDomain, routers, domains, inFlight>>
      BY <2>1, <2>2, <2>3, <2>7 DEF Mine, governanceVars
    <3> QED
      BY <3>1 DEF MandateInv, GovernanceType, HandedOver, did, Deployed, exists
  <2> QED
    BY <2>6, <2>7
<1>2. CASE \E spoke \in batchFile : GovernorExecutesBatch(spoke)
  <2>1. PICK spoke \in batchFile : GovernorExecutesBatch(spoke)
    BY <1>2
  <2>2. spoke \in Chains
    BY DEF ScriptInv, ScriptsType
  <2>3. PICK tx : tx = step("send", "batch", Hub, "GovernanceRouter", spoke)
    OBVIOUS
  <2>4. tx \in Steps /\ tx.kind = "send" /\ SoundTx(tx) /\ tx.op = "batch"
    BY <2>2, <2>3, DeployAssumption DEF step, Steps, Ops, Names, SoundTx, isSend
  <2>5. Meets(HandOver, tx, Known)
    BY <2>4, HandOverInherited DEF Meets, Inherited
  <2>6. Execute(tx) /\ succeeds(tx)
    BY <2>1, <2>3 DEF GovernorExecutesBatch
  <2> QED
    BY <2>4, <2>5, <2>6, ExecuteMandate
<1>3. CASE Handle
  BY <1>3, HandleMandate
<1>4. CASE (\E t \in DOMAIN todo : Step(t)) \/ NextPhase \/ Abort \/ UNCHANGED deployVars
  <2>1. UNCHANGED <<owner, executed, governor, governorDomain, routers, domains, inFlight>>
    BY <1>4 DEF Step, Send, Wait, DeployUnenrolledReplica, TransferGovernorship, Note, Check,
         EnrollSpoke, CheckWithWaiter, NextPhase, Abort, deployVars, governanceVars
  <2> QED
    BY <2>1 DEF MandateInv, GovernanceType, HandedOver, did, Deployed, exists
<1>5. CASE \E l \in Chains : Others(l)
  <2>1. PICK l \in Chains : Others(l)
    BY <1>5
  <2>2. DOMAIN owner = Chains /\ DOMAIN executed = Chains /\ Hub \in Chains
    BY DeployAssumption DEF MandateInv, GovernanceType, ScriptInv, ScriptsType
  <2>0. TokensOnly
    BY <2>1, <2>2, OthersTouchTokens
  <2>3. /\ UNCHANGED <<governor, governorDomain, routers, domains, inFlight>>
        /\ DOMAIN owner' = Chains
        /\ \A c \in Chains : DOMAIN owner'[c] = DOMAIN owner[c]
        /\ \A c \in Chains : executed[c] \subseteq executed'[c]
        /\ \A c \in Chains : \A x \in executed'[c] \ executed[c] : x[1] = "setDetailsByOthers"
    BY <2>0 DEF TokensOnly
  <2>4. Deployed' = Deployed /\ Deployed \subseteq Chains
    BY <2>3 DEF Deployed, exists
  <2>5. did(Hub, "Proxy", "GovernanceRouter", None)' => did(Hub, "Proxy", "GovernanceRouter", None)
    BY <2>2, <2>3 DEF did
  <2>6. \A c \in Chains : HandedOver(c) => HandedOver(c)'
    BY <2>2, <2>3, <2>4, HandedOverStays
  <2> QED
    BY <2>3, <2>4, <2>5, <2>6 DEF MandateInv, GovernanceType
<1> QED
  BY <1>1, <1>2, <1>3, <1>4, <1>5 DEF DeployNext

(***************************************************************************)
(* No chain is orphaned                                                    *)
(***************************************************************************)

(* A script of steps in order, that hands governorship over when the Hub   *)
(* can speak for the chain.                                                *)
SoundScript(s) ==
  /\ s \in Seq(Phases) /\ s # << >> /\ OrderlyScript(s)
  /\ MeetsScript(HandOver, s, {})

(* An orderly script starts ready for all it meets.                        *)
LEMMA ScriptsStart ==
  ASSUME DeployInit, NEW s \in Scripts, script = Tail(s), todo = Head(s),
         s \in Seq(Phases), s # << >>, OrderlyScript(s)
  PROVE  /\ ScriptInv
         /\ \A requires : MeetsScript(requires, s, {}) => ReadyInv(requires)
<1>1. script \in Seq(Phases) /\ todo \in Phases /\ todo = s[1] /\ 1 \in DOMAIN s
  BY AfterFirstPhase
<1>2. ExpectedTodo
  <2> SUFFICES ASSUME NEW t \in DOMAIN todo PROVE ExpectedTask(todo[t])
    BY DEF ExpectedTodo
  <2>1. OrderlyTask(todo[t], {})
    BY <1>1 DEF OrderlyScript
  <2> SUFFICES ASSUME NEW i \in DOMAIN todo[t] PROVE Expected(todo[t][i], before(todo[t], i))
    BY DEF ExpectedTask
  <2>2. Orderly(todo[t][i], before(todo[t], i) \cup {})
    BY <2>1 DEF OrderlyTask
  <2>3. before(todo[t], i) \cup {} = before(todo[t], i)
    OBVIOUS
  <2>4. Orderly(todo[t][i], before(todo[t], i))
    BY <2>2, <2>3
  <2> QED
    BY <2>4 DEF Expected, Orderly
<1>3. OrderlyScript(script)
  BY AfterFirstPhase DEF OrderlyScript
<1>4. mempool \in [Chains -> Seq(Steps)] /\ \A l \in Chains : ToSet(mempool[l]) = {}
  BY NothingIsOrderly DEF DeployInit, ToSet
<1>5. /\ executed \in [Chains -> SUBSET (Ops \X Names \X (Chains \cup {None}))]
      /\ reverted = {} /\ recorded = {} /\ batchFile = {}
      /\ replicas \in [Chains -> SUBSET Chains] /\ \A l \in Chains : replicas[l] = {}
      /\ beaconOf \in [Chains -> [Chains -> Chains \cup {None}]]
      /\ \A l \in Chains : executed[l] = {}
  BY DEF DeployInit
<1>6. ScriptInv
  BY <1>1, <1>2, <1>3, <1>4, <1>5
     DEF ScriptInv, ScriptsType, SoundMempool, ProxiesHaveBeacons, ReplicasHaveBeacons, did
<1>7. ASSUME NEW requires, MeetsScript(requires, s, {}) PROVE ReadyInv(requires)
  <2>1. MeetsPhase(requires, todo, Known)
    <3>1. MeetsPhase(requires, s[1], stepsBefore(s, 1) \cup {})
      BY <1>1, <1>7 DEF MeetsScript
    <3>2. stepsBefore(s, 1) = {}
      BY AfterFirstPhase
    <3> QED
      BY <1>1, <3>1, <3>2 DEF MeetsPhase, MeetsTask, Meets
  <2>2. MeetsScript(requires, script, stepsOf(todo) \cup Known)
    <3> SUFFICES ASSUME NEW p \in DOMAIN script
                 PROVE  MeetsPhase(requires, script[p], stepsBefore(script, p) \cup (stepsOf(todo) \cup Known))
      BY DEF MeetsScript
    <3>1. p + 1 \in DOMAIN s /\ script[p] = s[p + 1]
          /\ stepsBefore(s, p + 1) \subseteq stepsBefore(script, p) \cup stepsOf(todo)
      BY AfterFirstPhase
    <3>2. MeetsPhase(requires, s[p + 1], stepsBefore(s, p + 1) \cup {})
      BY <1>7, <3>1 DEF MeetsScript
    <3> QED
      BY <3>1, <3>2 DEF MeetsPhase, MeetsTask, Meets
  <2> QED
    BY <1>4, <2>1, <2>2 DEF ReadyInv
<1> QED
  BY <1>6, <1>7

(* Before any script there is no chain to govern.                          *)
LEMMA MandateStart == DeployInit => MandateInv
<1> SUFFICES ASSUME DeployInit PROVE MandateInv
  OBVIOUS
<1>1. << >> \in Seq(Chains) /\ DOMAIN << >> = {}
  BY NothingIsOrderly
<1>2. GovernanceType
  BY <1>1 DEF DeployInit, GovernanceType
<1>3. Deployed = {}
  BY <1>1 DEF DeployInit, Deployed, exists
<1>4. ~did(Hub, "Proxy", "GovernanceRouter", None)
  BY DeployAssumption DEF DeployInit, did
<1> QED
  BY <1>1, <1>2, <1>3, <1>4, DeployAssumption DEF DeployInit, MandateInv

(***************************************************************************)
(* What a step of a script leaves to do                                    *)
(***************************************************************************)

Leaves(t, steps) ==
  /\ UNCHANGED script /\ DOMAIN todo' = DOMAIN todo
  /\ \A u \in DOMAIN todo : u # t => todo'[u] = todo[u]
  /\ \E q, r \in Seq(Steps) :
       /\ q = todo[t] /\ q # << >> /\ r = Tail(q)
       /\ todo'[t] = steps \o r /\ ToSet(todo'[t]) = ToSet(steps) \cup ToSet(r)
       /\ ToSet(todo[t]) = ToSet(r) \cup {Head(q)}

(* What GoesOn leaves to do.                                               *)
LEMMA GoesOnTodo ==
  ASSUME ScriptInv, NEW t \in DOMAIN todo, NEW steps, GoesOn(t, steps)
  PROVE  Leaves(t, steps)
<1>1. PICK q \in Seq(Steps) : /\ q = todo[t] /\ q # << >>
                              /\ todo' = [todo EXCEPT ![t] = steps \o Tail(q)]
  BY DEF GoesOn
<1>2. PICK r \in Seq(Steps) : r = Tail(q) /\ ToSet(q) = ToSet(r) \cup {Head(q)}
  BY <1>1, AfterFirst
<1>3. steps \in Seq(Steps) /\ UNCHANGED script
  BY DEF GoesOn
<1>4. PICK s \in Seq(Steps) : s = steps \o r /\ ToSet(s) = ToSet(steps) \cup ToSet(r)
  BY <1>3, OneAfterOther
<1>5. todo' = [todo EXCEPT ![t] = s]
  BY <1>1, <1>2, <1>4
<1>6. todo'[t] = s /\ DOMAIN todo' = DOMAIN todo /\ \A u \in DOMAIN todo : u # t => todo'[u] = todo[u]
  BY <1>5
<1> QED
  BY <1>1, <1>2, <1>3, <1>4, <1>6 DEF Leaves

(* Nothing is recorded, and Replicas are deployed, by the scripts' own     *)
(* calls alone.                                                            *)
Plain(x) ==
  ~IsReplicaProxy(x) /\ ~isCall(x, "assignReplica") /\ ~isCall(x, "deployUnenrolledReplica")

(* Steps that take the place of a call are none of the scripts' own.       *)
LEMMA NewSteps ==
  ASSUME ScriptInv, NEW t \in DOMAIN todo, Step(t), governor[Hub] \in Accounts \cup {NoAccount}
  PROVE  \E steps \in Seq(Steps) :
           /\ GoesOn(t, steps) /\ \A x \in ToSet(steps) : ~isCall(x, "recordFromBlock")
           /\ DeployUnenrolledReplica(t) \/ \A x \in ToSet(steps) : Plain(x)
<1>0. << >> \in Seq(Steps) /\ ToSet(<< >>) = {}
  BY NothingIsOrderly DEF ToSet
<1>1. CASE GoesOn(t, << >>)
  BY <1>0, <1>1
<1>2. ASSUME NEW a \in Steps, NEW b \in Steps, NEW op \in {"transferGovernor", "batch"},
             NEW l, NEW name, NEW r,
             SentAndAwaited(a, b, op, l, name, r), GoesOn(t, <<a>> \o <<b>>)
      PROVE  \E steps \in Seq(Steps) :
               /\ GoesOn(t, steps) /\ \A x \in ToSet(steps) : ~isCall(x, "recordFromBlock")
               /\ \A x \in ToSet(steps) : Plain(x)
  <2>1. a.op = op /\ b.op = op /\ a.kind = "send" /\ b.kind = "wait"
    BY <1>2 DEF SentAndAwaited, step
  <2>2. <<a>> \o <<b>> \in Seq(Steps) /\ ToSet(<<a>> \o <<b>>) = {a, b}
    BY PairOf
  <2>3. PICK steps \in Seq(Steps) : steps = <<a>> \o <<b>> /\ ToSet(steps) = {a, b}
    BY <2>2
  <2> QED
    BY <1>2, <2>1, <2>3 DEF isCall, Plain, IsReplicaProxy
<1>3. CASE DeployUnenrolledReplica(t)
  <2>1. PICK l \in Chains, r \in Chains, b \in Chains, steps \in Seq(Steps) :
          DeploysWith(steps, l, r, b) /\ GoesOn(t, steps)
    BY <1>3, DeployReplicaStep
  <2>2. \A x \in ToSet(steps) :
          /\ x.on = l
          /\ \/ /\ x.name = "Replica" /\ x.beacon = b
                /\ x.op \in {"Implementation", "Beacon", "Proxy"}
             \/ x = step("call", "assignReplica", l, "", r)
          /\ ~isCall(x, "recordFromBlock") /\ ~isCall(x, "deployUnenrolledReplica")
    BY <2>1, ReplicaStepsAre
  <2> QED
    BY <1>3, <2>1, <2>2
<1>4. CASE TransferGovernorship(t)
  <2>1. PICK a \in Steps, b \in Steps :
          /\ SentAndAwaited(a, b, "transferGovernor", Head(todo[t]).on, governor[Hub], Hub)
          /\ GoesOn(t, <<a>> \o <<b>>)
    BY <1>4, TransferGovernorshipStep
  <2> QED
    BY <1>2, <2>1
<1>5. CASE EnrollSpoke(t)
  BY <1>1, <1>2, <1>5, EnrollSpokeStep
<1> QED
  BY <1>1, <1>3, <1>4, <1>5, SendStep, WaitStep, NoteStep, CheckStep, CheckWithWaiterStep DEF Step

(***************************************************************************)
(* Where agents index from                                                 *)
(***************************************************************************)

recordedBlock(l) == step("call", "recordFromBlock", l, "", None)

DeploysHome(x) ==
  x.kind = "send" /\ x.op \in {"deploy", "Proxy"} /\ x.name = "Home" /\ x.remote = None

(* The block is recorded before Home is deployed. *)
Indexing == {e \in Steps \X Facts : DeploysHome(e[1]) /\ e[2] = recordedBlock(e[1].on)}

NoRecords(ph) == \A x \in stepsOf(ph) : ~isCall(x, "recordFromBlock")

(* A script that records no blocks, or every block before its Home. *)
RecordsFirst(s) ==
  (\A p \in DOMAIN s : NoRecords(s[p])) \/ MeetsScript(Indexing, s, {})

NothingRecorded ==
  recorded = {} /\ NoRecords(todo) /\ \A p \in DOMAIN script : NoRecords(script[p])

HomesIndexed ==
  ReadyInv(Indexing) /\ \A l \in Chains : exists(l, "Home") => l \in recorded

(* Only the scripts' own steps deploy a Home.                              *)
LEMMA IndexingInherited == Inherited(Indexing)
<1>1. \A x, y : <<x, y>> \in Indexing => x.kind = "send" /\ x.op \in {"deploy", "Proxy"} /\ x.name = "Home"
  BY DEF Indexing, DeploysHome
<1>2. Indexing \in SUBSET (Steps \X Facts)
  BY DEF Indexing
<1> QED
  BY <1>1, <1>2 DEF Inherited, isSend, IsReplicaProxy

(* A transaction that deploys Home finds its block recorded. *)
LEMMA RecordedFirst ==
  ASSUME NEW x \in Steps, DeploysHome(x), Meets(Indexing, x, Known)
  PROVE  x.on \in recorded
<1>1. PICK l \in Chains : l = x.on
  BY DEF Steps
<1>2. recordedBlock(l) \in Facts /\ recordedBlock(l).kind = "call" /\ recordedBlock(l).on = l
  BY <1>1 DEF recordedBlock, step, Facts, Steps, isCall, Ops, Names
<1>3. <<x, recordedBlock(l)>> \in Indexing
  BY <1>1, <1>2 DEF Indexing
<1> QED
  BY <1>1, <1>2, <1>3 DEF Meets, Known, known

(* Scripts that record no blocks never do.                                 *)
LEMMA NothingRecordedStep ==
  ASSUME ScriptInv, governor[Hub] \in Accounts \cup {NoAccount},
         NothingRecorded, [DeployNext]_deployVars
  PROVE  NothingRecorded'
<1>1. CASE \E t \in DOMAIN todo : Step(t)
  <2>1. PICK t \in DOMAIN todo : Step(t)
    BY <1>1
  <2>2. PICK steps \in Seq(Steps) :
          GoesOn(t, steps) /\ \A x \in ToSet(steps) : ~isCall(x, "recordFromBlock")
    BY <2>1, NewSteps
  <2>7. Leaves(t, steps)
    BY <2>2, GoesOnTodo
  <2>3. /\ UNCHANGED script /\ DOMAIN todo' = DOMAIN todo /\ todo[t] # << >>
        /\ \A u \in DOMAIN todo : u # t => todo'[u] = todo[u]
    BY <2>7 DEF Leaves
  <2>4. ToSet(todo'[t]) \subseteq ToSet(steps) \cup ToSet(todo[t])
    BY <2>7 DEF Leaves
  <2>5. NoRecords(todo')
    <3> SUFFICES ASSUME NEW u \in DOMAIN todo, NEW x \in ToSet(todo'[u]) PROVE ~isCall(x, "recordFromBlock")
      BY <2>3 DEF NoRecords, stepsOf
    <3>1. x \in ToSet(steps) \/ x \in ToSet(todo[u])
      BY <2>3, <2>4
    <3> QED
      BY <2>2, <3>1 DEF NothingRecorded, NoRecords, stepsOf
  <2>6. UNCHANGED recorded
    <3>2. Head(todo[t]) \in ToSet(todo[t])
      BY <2>3, FirstStep
    <3>3. ~isCall(Head(todo[t]), "recordFromBlock")
      BY <3>2 DEF NothingRecorded, NoRecords, stepsOf
    <3> QED
      BY <2>1, <3>3 DEF Step, Send, Wait, DeployUnenrolledReplica, TransferGovernorship, Note,
         Check, EnrollSpoke, CheckWithWaiter, calling, at, isCall
  <2> QED
    BY <2>3, <2>5, <2>6 DEF NothingRecorded
<1>2. CASE NextPhase
  <2>1. UNCHANGED recorded
    BY <1>2 DEF NextPhase
  <2>2. CASE UNCHANGED <<script, todo>>
    BY <2>1, <2>2 DEF NothingRecorded
  <2>3. CASE script # << >> /\ script' = Tail(script) /\ todo' = Head(script)
    <3>1. /\ Head(script) = script[1] /\ 1 \in DOMAIN script
          /\ \A p \in DOMAIN Tail(script) : p + 1 \in DOMAIN script /\ Tail(script)[p] = script[p + 1]
      BY <2>3, AfterFirstPhase DEF ScriptInv, ScriptsType
    <3> QED
      BY <2>1, <2>3, <3>1 DEF NothingRecorded
  <2> QED
    BY <1>2, <2>2, <2>3 DEF NextPhase
<1>3. CASE UNCHANGED <<script, todo, recorded>>
  BY <1>3 DEF NothingRecorded
<1>4. CASE \/ \E l \in Chains : Mine(l)
           \/ \E spoke \in batchFile : GovernorExecutesBatch(spoke)
           \/ \E l \in Chains : Others(l)
           \/ Abort \/ Handle \/ UNCHANGED deployVars
  <2>1. UNCHANGED <<script, todo, recorded>>
    BY <1>4 DEF Mine, Others, GovernorExecutesBatch, Abort, Handle, scriptVars, deployVars
  <2> QED
    BY <1>3, <2>1
<1> QED
  BY <1>1, <1>2, <1>4 DEF DeployNext

(* A Home that is there was there, or is deployed by the transaction. *)
LEMMA HomesAfter ==
  ASSUME ScriptInv, MandateInv, NEW tx \in Steps, tx.kind = "send", Execute(tx)
  PROVE  \A l \in Chains : exists(l, "Home")' => exists(l, "Home") \/ (l = tx.on /\ DeploysHome(tx))
<1>1. tx.on \in Chains /\ DOMAIN owner = Chains
  BY DEF Steps, MandateInv, GovernanceType
<1>2. owner' = [owner EXCEPT ![tx.on] = ownerAfter(tx)]
  BY DEF Execute
<1>3. PICK c : c = <<tx.name, tx.remote>>
  OBVIOUS
<1>4. DOMAIN ownerAfter(tx) = IF tx.op \in {"deploy", "Proxy"} THEN DOMAIN owner[tx.on] \cup {c}
                              ELSE DOMAIN owner[tx.on]
  BY <1>3 DEF ownerAfter
<1>5. c = <<"Home", None>> <=> tx.name = "Home" /\ tx.remote = None
  BY <1>3
<1> QED
  BY <1>1, <1>2, <1>4, <1>5 DEF exists, DeploysHome

(* Scripts that record blocks first have each recorded when its Home is    *)
(* mined.                                                                  *)
LEMMA HomesIndexedStep ==
  ASSUME ScriptInv, MandateInv, HomesIndexed, [DeployNext]_deployVars
  PROVE  HomesIndexed'
<1>1. governor[Hub] \in Accounts \cup {NoAccount}
  BY DeployAssumption DEF MandateInv, GovernanceType
<1>2. ReadyInv(Indexing)'
  BY <1>1, NextReady, IndexingInherited DEF HomesIndexed, MandateInv, GovernanceType
<1>3. recorded \subseteq recorded'
  BY DEF DeployNext, Step, Send, Wait, DeployUnenrolledReplica, TransferGovernorship, Note, Check,
     EnrollSpoke, CheckWithWaiter, NextPhase, Abort, Mine, Others, GovernorExecutesBatch, Handle,
     deployVars, scriptVars
<1>4. ASSUME NEW tx \in Steps, tx.kind = "send", Meets(Indexing, tx, Known), Execute(tx)
      PROVE  \A l \in Chains : exists(l, "Home")' => l \in recorded
  <2>1. \A l \in Chains : exists(l, "Home")' => exists(l, "Home") \/ (l = tx.on /\ DeploysHome(tx))
    BY <1>4, HomesAfter
  <2> QED
    BY <1>4, <2>1, RecordedFirst DEF HomesIndexed
<1>5. \A l \in Chains : exists(l, "Home")' => l \in recorded
  <2>1. CASE UNCHANGED owner
    BY <2>1 DEF HomesIndexed, exists
  <2>2. CASE \E l \in Chains : Mine(l)
    <3>1. PICK l \in Chains : Mine(l)
      BY <2>2
    <3>2. PICK q \in Seq(Steps) : q = mempool[l] /\ q # << >>
      BY <3>1 DEF Mine, ScriptInv, ScriptsType
    <3>3. PICK tx \in Steps : tx = Head(q)
      BY <3>2, AfterFirst
    <3>4. tx \in ToSet(mempool[l])
      BY <3>2, <3>3, AfterFirst
    <3>5. tx.kind = "send" /\ Meets(Indexing, tx, Known)
      BY <3>4 DEF ScriptInv, SoundMempool, HomesIndexed, ReadyInv
    <3>6. Execute(tx) \/ UNCHANGED owner
      BY <3>1, <3>2, <3>3 DEF Mine
    <3> QED
      BY <1>4, <2>1, <3>5, <3>6
  <2>3. CASE \E spoke \in batchFile : GovernorExecutesBatch(spoke)
    <3>1. PICK spoke \in batchFile : GovernorExecutesBatch(spoke)
      BY <2>3
    <3>2. PICK tx : tx = step("send", "batch", Hub, "GovernanceRouter", spoke)
      OBVIOUS
    <3>3. tx \in Steps /\ tx.kind = "send" /\ tx.op = "batch"
      BY <3>2, DeployAssumption DEF step, Steps, Ops, Names, ScriptInv, ScriptsType
    <3>4. Meets(Indexing, tx, Known) /\ Execute(tx)
      BY <3>1, <3>2, <3>3, IndexingInherited DEF Meets, Inherited, GovernorExecutesBatch
    <3> QED
      BY <1>4, <3>3, <3>4
  <2>4. CASE \E l \in Chains : Others(l)
    <3>1. DOMAIN owner = Chains /\ DOMAIN executed = Chains
      BY DEF MandateInv, GovernanceType, ScriptInv, ScriptsType
    <3>2. TokensOnly
      BY <2>4, <3>1, OthersTouchTokens
    <3> QED
      BY <3>2 DEF HomesIndexed, exists, TokensOnly
  <2> QED
    BY <2>1, <2>2, <2>3, <2>4 DEF DeployNext, Step, Send, Wait, DeployUnenrolledReplica,
       TransferGovernorship, Note, Check, EnrollSpoke, CheckWithWaiter, NextPhase, Abort, Handle,
       deployVars
<1> QED
  BY <1>2, <1>3, <1>5 DEF HomesIndexed

(***************************************************************************)
(* Beacons                                                                 *)
(***************************************************************************)

Deploys(x, l) == isCall(x, "deployUnenrolledReplica") /\ x.on = l

Assigns(x, l) == isCall(x, "assignReplica") /\ x.on = l

(* The beacons of the Replicas of l, of those in the making included. *)
Uses(l, b) ==
  \/ \E d \in Chains : beaconOf[l][d] = b /\ b # None
  \/ \E x \in ToSet(mempool[l]) : IsReplicaProxy(x) /\ x.beacon = b
  \/ \E x \in stepsOf(todo) : IsReplicaProxy(x) /\ x.on = l /\ x.beacon = b

Concerned(q, l) == \E x \in ToSet(q) : Deploys(x, l) \/ Assigns(x, l)

(* The task notes a Replica before it deploys another. *)
AssignsFirst(q, l) ==
  \E i \in DOMAIN q : Assigns(q[i], l) /\ \A x \in before(q, i) : ~Deploys(x, l)

(* In a phase one task alone deploys Replicas on a chain, by the calls     *)
(* that see to their beacon.                                               *)
OneDeployer(ph) ==
  /\ \A x \in stepsOf(ph) : ~IsReplicaProxy(x) /\ ~isCall(x, "assignReplica")
  /\ \A l \in Chains : \A t, u \in DOMAIN ph :
       (\E x \in ToSet(ph[t]) : Deploys(x, l)) /\ (\E x \in ToSet(ph[u]) : Deploys(x, l)) => t = u

GrowsInTurn(s) == \A p \in DOMAIN s : OneDeployer(s[p])

(* While the script knows of no Replica and one is in the making, the task *)
(* that makes it will note it.                                             *)
BeaconInv ==
  /\ GrowsInTurn(script)
  /\ \A l \in Chains :
       /\ \A b, c : Uses(l, b) /\ Uses(l, c) => b = c
       /\ \A t, u \in DOMAIN todo : Concerned(todo[t], l) /\ Concerned(todo[u], l) => t = u
       /\ \A b : replicas[l] = {} /\ Uses(l, b) => \E t \in DOMAIN todo : AssignsFirst(todo[t], l)

Follows(s, q, r) ==
  \A j \in DOMAIN r : \E i \in DOMAIN s : s[i] = r[j] /\ before(s, i) = ToSet(q) \cup before(r, j)

(* The steps of the second of two sequences follow those of the first.     *)
LEMMA AfterOthers ==
  ASSUME NEW q \in Seq(Steps), NEW r \in Seq(Steps)
  PROVE  Follows(q \o r, q, r)
<1> SUFFICES ASSUME NEW j \in DOMAIN r
             PROVE  \E i \in DOMAIN (q \o r) : /\ (q \o r)[i] = r[j]
                                               /\ before(q \o r, i) = ToSet(q) \cup before(r, j)
  BY DEF Follows
<1>1. PICK i \in Nat : i = Len(q) + j
  OBVIOUS
<1>2. i \in DOMAIN (q \o r) /\ i \notin DOMAIN q
  BY <1>1
<1>3. \/ /\ i \in DOMAIN q /\ (q \o r)[i] = q[i]
         /\ before(q \o r, i) = before(q, i)
      \/ \E k \in DOMAIN r : /\ i = Len(q) + k /\ (q \o r)[i] = r[k]
                             /\ before(q \o r, i) = ToSet(q) \cup before(r, k)
  BY <1>2, OneAfterOther
<1>4. PICK k \in DOMAIN r : /\ i = Len(q) + k /\ (q \o r)[i] = r[k]
                            /\ before(q \o r, i) = ToSet(q) \cup before(r, k)
  BY <1>2, <1>3
<1>5. k = j
  BY <1>1, <1>4
<1> QED
  BY <1>2, <1>4, <1>5

(* The steps of the first of two sequences have the same steps before      *)
(* them.                                                                   *)
LEMMA WithinFirst ==
  ASSUME NEW q \in Seq(Steps), NEW r \in Seq(Steps), NEW j \in DOMAIN q
  PROVE  /\ j \in DOMAIN (q \o r) /\ (q \o r)[j] = q[j]
         /\ before(q \o r, j) = before(q, j)
<1>1. j \in DOMAIN (q \o r) /\ j \in 1 .. Len(q)
  OBVIOUS
<1>2. \/ /\ j \in DOMAIN q /\ (q \o r)[j] = q[j]
         /\ before(q \o r, j) = before(q, j)
      \/ \E k \in DOMAIN r : /\ j = Len(q) + k /\ (q \o r)[j] = r[k]
                             /\ before(q \o r, j) = ToSet(q) \cup before(r, k)
  BY <1>1, OneAfterOther
<1>3. \A k \in DOMAIN r : j # Len(q) + k
  BY <1>1
<1> QED
  BY <1>1, <1>2, <1>3

(* A step that is not the first is one of the tail.                        *)
LEMMA LaterStep ==
  ASSUME NEW q \in Seq(Steps), q # << >>, NEW i \in DOMAIN q, i # 1
  PROVE  \E j \in DOMAIN Tail(q) : i = j + 1
<1>1. PICK n \in Nat : n = Len(q)
  OBVIOUS
<1>2. DOMAIN q = 1 .. n /\ DOMAIN Tail(q) = 1 .. n - 1
  BY <1>1
<1>3. i - 1 \in 1 .. n - 1 /\ i = (i - 1) + 1
  BY <1>1, <1>2
<1> QED
  BY <1>2, <1>3

(* A task still notes its Replica when it has done another step. *)
LEMMA StillAssigns ==
  ASSUME NEW q \in Seq(Steps), q # << >>, NEW l, AssignsFirst(q, l), ~Assigns(Head(q), l),
         NEW steps \in Seq(Steps), \A x \in ToSet(steps) : ~Deploys(x, l),
         NEW r \in Seq(Steps), r = Tail(q)
  PROVE  AssignsFirst(steps \o r, l)
<1>1. PICK i \in DOMAIN q : Assigns(q[i], l) /\ \A x \in before(q, i) : ~Deploys(x, l)
  BY DEF AssignsFirst
<1>2. i # 1
  BY <1>1, AfterFirst
<1>3. PICK j \in DOMAIN r : i = j + 1
  BY <1>2, LaterStep
<1>4. r[j] = q[i] /\ before(q, i) = before(r, j) \cup {Head(q)}
  BY <1>3, AfterFirst
<1>5. Follows(steps \o r, steps, r)
  BY AfterOthers
<1>6. PICK s : s = steps \o r
  OBVIOUS
<1>9. Follows(s, steps, r)
  BY <1>5, <1>6, Zenon
<1>7. PICK k \in DOMAIN s : s[k] = r[j] /\ before(s, k) = ToSet(steps) \cup before(r, j)
  BY <1>9 DEF Follows
<1>8. AssignsFirst(s, l)
  BY <1>1, <1>4, <1>7 DEF AssignsFirst
<1> QED
  BY <1>6, <1>8

(* A task goes on and deploys no Replica. *)
LEMMA BeaconGoesOn ==
  ASSUME ScriptInv, ScriptInv', BeaconInv, NEW t \in DOMAIN todo, NEW steps \in Seq(Steps),
         Leaves(t, steps), \A x \in ToSet(steps) : Plain(x), UNCHANGED beaconOf,
         ~isCall(Head(todo[t]), "deployUnenrolledReplica"),
         \A l \in Chains : replicas[l] \subseteq replicas'[l],
         \A l \in Chains : Assigns(Head(todo[t]), l) => replicas'[l] # {},
         \A l \in Chains : ToSet(mempool'[l]) \subseteq ToSet(mempool[l]) \cup {Head(todo[t])}
  PROVE  BeaconInv'
<1>1. PICK q \in Seq(Steps), r \in Seq(Steps) :
        /\ q = todo[t] /\ q # << >> /\ r = Tail(q)
        /\ todo'[t] = steps \o r /\ ToSet(todo'[t]) = ToSet(steps) \cup ToSet(r)
        /\ ToSet(todo[t]) = ToSet(r) \cup {Head(q)}
  BY DEF Leaves
<1>2. UNCHANGED script /\ DOMAIN todo' = DOMAIN todo
      /\ \A u \in DOMAIN todo : u # t => todo'[u] = todo[u]
  BY DEF Leaves
<1>3. \A u \in DOMAIN todo : \A x \in ToSet(todo'[u]) : x \in ToSet(todo[u]) \/ Plain(x)
  BY <1>1, <1>2
<1>4. ASSUME NEW l \in Chains, NEW b, Uses(l, b)' PROVE Uses(l, b)
  <2>1. CASE \E d \in Chains : beaconOf'[l][d] = b /\ b # None
    BY <2>1 DEF Uses
  <2>2. CASE \E x \in ToSet(mempool'[l]) : IsReplicaProxy(x) /\ x.beacon = b
    <3>1. PICK x \in ToSet(mempool'[l]) : IsReplicaProxy(x) /\ x.beacon = b
      BY <2>2
    <3>2. x.on = l
      BY DEF ScriptInv, SoundMempool
    <3>3. x \in ToSet(mempool[l]) \/ x \in ToSet(todo[t])
      BY <1>1
    <3> QED
      BY <3>1, <3>2, <3>3 DEF Uses, stepsOf
  <2>3. CASE \E x \in stepsOf(todo') : IsReplicaProxy(x) /\ x.on = l /\ x.beacon = b
    <3>1. PICK u \in DOMAIN todo : \E x \in ToSet(todo'[u]) : IsReplicaProxy(x) /\ x.on = l /\ x.beacon = b
      BY <1>2, <2>3 DEF stepsOf
    <3>2. PICK x \in ToSet(todo'[u]) : IsReplicaProxy(x) /\ x.on = l /\ x.beacon = b
      BY <3>1
    <3>3. x \in ToSet(todo[u])
      BY <1>3, <3>2 DEF Plain
    <3> QED
      BY <3>2, <3>3 DEF Uses, stepsOf
  <2> QED
    BY <1>4, <2>1, <2>2, <2>3 DEF Uses
<1>5. ASSUME NEW l \in Chains, NEW u \in DOMAIN todo, Concerned(todo'[u], l) PROVE Concerned(todo[u], l)
  BY <1>3, <1>5 DEF Concerned, Deploys, Assigns, Plain
<1>6. ASSUME NEW l \in Chains, NEW b, replicas'[l] = {}, Uses(l, b)'
      PROVE  \E u \in DOMAIN todo : AssignsFirst(todo'[u], l)
  <2>1. Uses(l, b) /\ replicas[l] = {}
    BY <1>4, <1>6
  <2>2. PICK u \in DOMAIN todo : AssignsFirst(todo[u], l)
    BY <2>1 DEF BeaconInv
  <2>3. CASE u # t
    BY <1>2, <2>2, <2>3
  <2>4. CASE u = t
    <3>1. AssignsFirst(q, l) /\ ~Assigns(Head(q), l)
      BY <1>1, <1>6, <2>2, <2>4
    <3>2. \A x \in ToSet(steps) : ~Deploys(x, l)
      BY DEF Plain, Deploys
    <3>3. AssignsFirst(steps \o r, l)
      BY <1>1, <3>1, <3>2, StillAssigns
    <3>4. AssignsFirst(todo'[t], l)
      BY <1>1, <3>3
    <3> QED
      BY <3>4
  <2> QED
    BY <2>3, <2>4
<1> QED
  BY <1>2, <1>4, <1>5, <1>6 DEF BeaconInv

(* A Replica in the making is on the beacon of the Replicas there are.     *)
LEMMA BeaconDeploys ==
  ASSUME ScriptInv, ScriptInv', BeaconInv, NEW t \in DOMAIN todo, DeployUnenrolledReplica(t)
  PROVE  BeaconInv'
<1>1. PICK l \in Chains, d \in Chains, a \in Chains, steps \in Seq(Steps) :
        /\ l = Head(todo[t]).on /\ d = Head(todo[t]).remote
        /\ a = IF replicas[l] = {} THEN d ELSE beaconOf[l][Min(replicas[l])]
        /\ DeploysWith(steps, l, d, a) /\ GoesOn(t, steps)
  BY DeployReplicaStep
<1>2. Leaves(t, steps)
  BY <1>1, GoesOnTodo
<1>3. PICK q \in Seq(Steps), r \in Seq(Steps) :
        /\ q = todo[t] /\ q # << >> /\ r = Tail(q)
        /\ todo'[t] = steps \o r /\ ToSet(todo'[t]) = ToSet(steps) \cup ToSet(r)
        /\ ToSet(todo[t]) = ToSet(r) \cup {Head(q)}
  BY <1>2 DEF Leaves
<1>4. UNCHANGED script /\ DOMAIN todo' = DOMAIN todo
      /\ \A u \in DOMAIN todo : u # t => todo'[u] = todo[u]
  BY <1>2 DEF Leaves
<1>5. UNCHANGED <<replicas, mempool, beaconOf>> /\ Deploys(Head(q), l) /\ Head(q) \in ToSet(q)
  BY <1>1, <1>3 DEF DeployUnenrolledReplica, calling, at, Deploys, isCall
<1>6. /\ \A x \in ToSet(steps) :
           /\ x.on = l
           /\ \/ /\ x.name = "Replica" /\ x.beacon = a
                 /\ x.op \in {"Implementation", "Beacon", "Proxy"}
              \/ x = step("call", "assignReplica", l, "", d)
           /\ ~isCall(x, "recordFromBlock") /\ ~isCall(x, "deployUnenrolledReplica")
      /\ step("call", "assignReplica", l, "", d) \in ToSet(steps)
  <2>1. DeploysWith(steps, l, d, a)
    BY <1>1
  <2> QED
    BY <2>1, ReplicaStepsAre
<1>7. \A x \in ToSet(steps) : x.on = l /\ (IsReplicaProxy(x) => x.beacon = a) /\ \A k : ~Deploys(x, k)
  <2>1. step("call", "assignReplica", l, "", d).op = "assignReplica"
    BY DEF step
  <2> QED
    BY <1>6, <2>1 DEF IsReplicaProxy, Deploys
<1>8. Concerned(todo[t], l)
  BY <1>3, <1>5 DEF Concerned
<1>9. ~AssignsFirst(todo[t], l)
  <2> SUFFICES ASSUME NEW i \in DOMAIN q, Assigns(q[i], l), \A x \in before(q, i) : ~Deploys(x, l)
               PROVE  FALSE
    BY <1>3 DEF AssignsFirst
  <2>1. CASE i = 1
    <3>1. q[i] = Head(q)
      BY <1>3, <2>1
    <3> QED
      BY <1>5, <3>1 DEF Assigns, Deploys, isCall
  <2>2. CASE i # 1
    <3>1. PICK j \in DOMAIN r : i = j + 1
      BY <1>3, <2>2, LaterStep
    <3>2. Head(q) \in before(q, i)
      BY <1>3, <3>1, AfterFirst
    <3> QED
      BY <1>5, <3>2
  <2> QED
    BY <2>1, <2>2
<1>10. ASSUME NEW b, Uses(l, b) PROVE b = a
  <2>1. CASE replicas[l] = {}
    <3>1. PICK u \in DOMAIN todo : AssignsFirst(todo[u], l)
      BY <1>10, <2>1 DEF BeaconInv
    <3>2. Concerned(todo[u], l)
      BY <3>1 DEF AssignsFirst, Concerned, ToSet
    <3>3. u = t
      BY <1>8, <3>2 DEF BeaconInv
    <3> QED
      BY <1>9, <3>1, <3>3
  <2>2. CASE replicas[l] # {}
    <3>1. replicas[l] \in SUBSET Chains
      BY DEF ScriptInv, ScriptsType
    <3>2. Min(replicas[l]) \in replicas[l]
      BY <2>2, <3>1, LeastChain
    <3>3. PICK c \in Chains : c = Min(replicas[l])
      BY <3>1, <3>2
    <3>4. beaconOf[l][c] # None /\ a = beaconOf[l][c]
      BY <1>1, <2>2, <3>2, <3>3 DEF ScriptInv, ReplicasHaveBeacons
    <3>5. Uses(l, a)
      BY <3>4 DEF Uses
    <3> QED
      BY <1>10, <3>5 DEF BeaconInv
  <2> QED
    BY <2>1, <2>2
<1>11. ASSUME NEW k \in Chains, NEW b, Uses(k, b)' PROVE Uses(k, b) \/ (k = l /\ b = a)
  <2>1. CASE \/ \E c \in Chains : beaconOf'[k][c] = b /\ b # None
             \/ \E x \in ToSet(mempool'[k]) : IsReplicaProxy(x) /\ x.beacon = b
    BY <1>5, <2>1 DEF Uses
  <2>2. CASE \E x \in stepsOf(todo') : IsReplicaProxy(x) /\ x.on = k /\ x.beacon = b
    <3>1. PICK u \in DOMAIN todo : \E x \in ToSet(todo'[u]) : IsReplicaProxy(x) /\ x.on = k /\ x.beacon = b
      BY <1>4, <2>2 DEF stepsOf
    <3>2. PICK x \in ToSet(todo'[u]) : IsReplicaProxy(x) /\ x.on = k /\ x.beacon = b
      BY <3>1
    <3>3. x \in ToSet(todo[u]) \/ x \in ToSet(steps)
      BY <1>3, <1>4
    <3>4. x \in ToSet(todo[u]) => Uses(k, b)
      BY <3>2 DEF Uses, stepsOf
    <3> QED
      BY <1>7, <3>2, <3>3, <3>4
  <2> QED
    BY <1>11, <2>1, <2>2 DEF Uses
<1>12. ASSUME NEW k \in Chains, NEW u \in DOMAIN todo, Concerned(todo'[u], k) PROVE Concerned(todo[u], k)
  <2>1. PICK x \in ToSet(todo'[u]) : Deploys(x, k) \/ Assigns(x, k)
    BY <1>12 DEF Concerned
  <2>2. x \in ToSet(todo[u]) \/ (u = t /\ x \in ToSet(steps))
    BY <1>3, <1>4
  <2>3. CASE u = t /\ x \in ToSet(steps)
    <3>1. k = l
      BY <1>7, <2>1, <2>3 DEF Deploys, Assigns
    <3> QED
      BY <1>8, <2>3, <3>1
  <2> QED
    BY <2>1, <2>2, <2>3 DEF Concerned
<1>13. AssignsFirst(todo'[t], l)
  <2>1. PICK j \in DOMAIN steps : steps[j] = step("call", "assignReplica", l, "", d)
    BY <1>6 DEF ToSet
  <2>2. Assigns(steps[j], l)
    <3>1. Assigns(step("call", "assignReplica", l, "", d), l)
      BY DEF step, Assigns, isCall
    <3> QED
      BY <2>1, <3>1
  <2>3. before(steps, j) \subseteq ToSet(steps)
    <3>1. j \in 1 .. Len(steps) /\ DOMAIN steps = 1 .. Len(steps) /\ Len(steps) \in Nat
      OBVIOUS
    <3>2. 1 .. j - 1 \subseteq DOMAIN steps
      BY <3>1
    <3> QED
      BY <3>2 DEF before, ToSet
  <2>4. /\ j \in DOMAIN (steps \o r) /\ (steps \o r)[j] = steps[j]
        /\ before(steps \o r, j) = before(steps, j)
    BY WithinFirst
  <2>5. PICK s : s = steps \o r
    OBVIOUS
  <2>6. j \in DOMAIN s /\ s[j] = steps[j] /\ before(s, j) = before(steps, j)
    BY <2>4, <2>5, Zenon
  <2>7. AssignsFirst(s, l)
    BY <1>7, <2>2, <2>3, <2>6 DEF AssignsFirst
  <2> QED
    BY <1>3, <2>5, <2>7
<1>14. ASSUME NEW k \in Chains, NEW b, replicas'[k] = {}, Uses(k, b)'
       PROVE  \E u \in DOMAIN todo : AssignsFirst(todo'[u], k)
  <2>1. CASE k = l
    BY <1>13, <2>1
  <2>2. CASE k # l
    <3>1. Uses(k, b) /\ replicas[k] = {}
      BY <1>5, <1>11, <1>14, <2>2
    <3>2. PICK u \in DOMAIN todo : AssignsFirst(todo[u], k)
      BY <3>1 DEF BeaconInv
    <3>3. CASE u # t
      BY <1>4, <3>2, <3>3
    <3>4. CASE u = t
      <4>1. AssignsFirst(q, k) /\ ~Assigns(Head(q), k)
        BY <1>3, <1>5, <3>2, <3>4 DEF Assigns, Deploys, isCall
      <4>2. \A x \in ToSet(steps) : ~Deploys(x, k)
        BY <1>7
      <4>3. AssignsFirst(steps \o r, k)
        BY <1>3, <4>1, <4>2, StillAssigns
      <4>4. AssignsFirst(todo'[t], k)
        BY <1>3, <4>3
      <4> QED
        BY <4>4
    <3> QED
      BY <3>3, <3>4
  <2> QED
    BY <2>1, <2>2
<1>15. \A k \in Chains : \A b, c : Uses(k, b)' /\ Uses(k, c)' => b = c
  BY <1>10, <1>11 DEF BeaconInv
<1> QED
  BY <1>4, <1>12, <1>14, <1>15 DEF BeaconInv

(* A step of a task. *)
LEMMA BeaconTask ==
  ASSUME ScriptInv, ScriptInv', BeaconInv, governor[Hub] \in Accounts \cup {NoAccount},
         NEW t \in DOMAIN todo, Step(t)
  PROVE  BeaconInv'
<1>1. PICK steps \in Seq(Steps) :
        /\ GoesOn(t, steps)
        /\ DeployUnenrolledReplica(t) \/ \A x \in ToSet(steps) : Plain(x)
  BY NewSteps
<1>2. Leaves(t, steps)
  BY <1>1, GoesOnTodo
<1>3. PICK h \in Steps : h = Head(todo[t])
  BY <1>2, FirstStep DEF Leaves
<1>4. CASE ~DeployUnenrolledReplica(t)
  <2>1. UNCHANGED beaconOf
    BY <1>4 DEF Step, Send, Wait, TransferGovernorship, Note, Check, EnrollSpoke, CheckWithWaiter
  <2>2. \A l \in Chains : ToSet(mempool'[l]) \subseteq ToSet(mempool[l]) \cup {Head(todo[t])}
    <3>1. CASE Send(t)
      BY <3>1, SendStep
    <3>2. CASE UNCHANGED mempool
      BY <3>2
    <3> QED
      BY <1>4, <3>1, <3>2
         DEF Step, Wait, TransferGovernorship, Note, Check, EnrollSpoke, CheckWithWaiter
  <2>3. \A l \in Chains : /\ replicas[l] \subseteq replicas'[l]
                          /\ Assigns(Head(todo[t]), l) => replicas'[l] # {}
    <3>1. CASE calling(t, "assignReplica") /\ replicas' = [replicas EXCEPT ![h.on] = @ \cup {h.remote}]
      <4>1. replicas \in [Chains -> SUBSET Chains] /\ h.on \in Chains
        BY DEF ScriptInv, ScriptsType, Steps
      <4>2. \A l \in Chains : replicas[l] \subseteq replicas'[l] /\ (l = h.on => h.remote \in replicas'[l])
        BY <3>1, <4>1
      <4> QED
        BY <1>3, <4>2 DEF Assigns
    <3>2. CASE UNCHANGED replicas /\ ~isCall(h, "assignReplica")
      BY <1>3, <3>2 DEF Assigns
    <3>3. h.op \in Checks => h.op # "assignReplica"
      BY DEF Checks
    <3> QED
      BY <1>3, <1>4, <3>1, <3>2, <3>3
         DEF Step, Send, Wait, TransferGovernorship, Note, Check, EnrollSpoke, CheckWithWaiter,
             calling, at, isCall
  <2>4. ~isCall(Head(todo[t]), "deployUnenrolledReplica")
    <3>1. h.op \in Checks => h.op # "deployUnenrolledReplica"
      BY DEF Checks
    <3> QED
      BY <1>3, <1>4, <3>1
         DEF Step, Send, Wait, TransferGovernorship, Note, Check, EnrollSpoke, CheckWithWaiter,
             calling, at, isCall
  <2> QED
    BY <1>1, <1>2, <1>4, <2>1, <2>2, <2>3, <2>4, BeaconGoesOn
<1> QED
  BY <1>4, BeaconDeploys

(* What the chains do. *)
LEMMA BeaconChain ==
  ASSUME ScriptInv, BeaconInv, UNCHANGED <<script, todo, replicas>>,
         \A l \in Chains : ToSet(mempool'[l]) \subseteq ToSet(mempool[l]),
         \A l, d \in Chains : \/ beaconOf'[l][d] \in {beaconOf[l][d], None}
                              \/ Uses(l, beaconOf'[l][d])
  PROVE  BeaconInv'
<1>1. ASSUME NEW l \in Chains, NEW b, Uses(l, b)' PROVE Uses(l, b)
  <2>1. CASE \E d \in Chains : beaconOf'[l][d] = b /\ b # None
    BY <2>1 DEF Uses
  <2>2. CASE \/ \E x \in ToSet(mempool'[l]) : IsReplicaProxy(x) /\ x.beacon = b
             \/ \E x \in stepsOf(todo) : IsReplicaProxy(x) /\ x.on = l /\ x.beacon = b
    BY <2>2 DEF Uses
  <2> QED
    BY <1>1, <2>1, <2>2 DEF Uses
<1> QED
  BY <1>1 DEF BeaconInv

(* Mining a Replica's proxy keeps the beacons one.                         *)
LEMMA BeaconMine ==
  ASSUME ScriptInv, BeaconInv, NEW l \in Chains, Mine(l)
  PROVE  BeaconInv'
<1>1. PICK q \in Seq(Steps) : q = mempool[l] /\ q # << >>
  BY DEF Mine, ScriptInv, ScriptsType
<1>2. PICK tx \in Steps : tx = Head(q)
  BY <1>1, AfterFirst
<1>3. tx \in ToSet(mempool[l])
  BY <1>1, <1>2, AfterFirst
<1>4. tx.on = l
  BY <1>3 DEF ScriptInv, SoundMempool
<1>5. UNCHANGED <<script, todo, replicas>>
  BY DEF Mine, scriptVars
<1>6. \A k \in Chains : ToSet(mempool'[k]) \subseteq ToSet(mempool[k])
  BY MineStep
<1>7. UNCHANGED beaconOf \/ (IsReplicaProxy(tx) /\ beaconOf' = [beaconOf EXCEPT ![tx.on][tx.remote] = tx.beacon])
  BY <1>1, <1>2 DEF Mine, Execute, IsReplicaProxy
<1>8. IsReplicaProxy(tx) => Uses(l, tx.beacon)
  BY <1>3 DEF Uses
<1>9. \A k, d \in Chains : \/ beaconOf'[k][d] \in {beaconOf[k][d], None}
                           \/ Uses(k, beaconOf'[k][d])
  <2>1. beaconOf \in [Chains -> [Chains -> Chains \cup {None}]]
    BY DEF ScriptInv, ScriptsType
  <2>2. CASE UNCHANGED beaconOf
    BY <2>2
  <2>3. CASE IsReplicaProxy(tx) /\ beaconOf' = [beaconOf EXCEPT ![tx.on][tx.remote] = tx.beacon]
    <3>1. \A k, d \in Chains : beaconOf'[k][d] = beaconOf[k][d] \/ (k = l /\ beaconOf'[k][d] = tx.beacon)
      BY <1>4, <2>1, <2>3
    <3> QED
      BY <1>8, <2>3, <3>1
  <2> QED
    BY <1>7, <2>2, <2>3
<1> QED
  BY <1>5, <1>6, <1>9, BeaconChain

(* The governor's batch deploys no Replica.                                *)
LEMMA BeaconBatch ==
  ASSUME ScriptInv, BeaconInv, NEW spoke \in batchFile, GovernorExecutesBatch(spoke)
  PROVE  BeaconInv'
<1>1. PICK tx : tx = step("send", "batch", Hub, "GovernanceRouter", spoke)
  OBVIOUS
<1>2. tx.op = "batch"
  BY <1>1 DEF step
<1>3. UNCHANGED <<script, todo, replicas, mempool, beaconOf>>
  BY <1>1, <1>2 DEF GovernorExecutesBatch, Execute, scriptVars
<1> QED
  BY <1>3, BeaconChain

(* When a phase begins, every Replica of a chain is known to the script.   *)
LEMMA BeaconNextPhase ==
  ASSUME ScriptInv, BeaconInv, NextPhase
  PROVE  BeaconInv'
<1>1. UNCHANGED <<replicas, mempool, beaconOf>> /\ \A t \in DOMAIN todo : todo[t] = << >>
  BY DEF NextPhase
<1>2. CASE UNCHANGED <<script, todo>>
  BY <1>1, <1>2, BeaconChain
<1>3. CASE script # << >> /\ script' = Tail(script) /\ todo' = Head(script)
  <2>1. /\ Head(script) = script[1] /\ 1 \in DOMAIN script
        /\ \A p \in DOMAIN Tail(script) : p + 1 \in DOMAIN script /\ Tail(script)[p] = script[p + 1]
    BY <1>3, AfterFirstPhase DEF ScriptInv, ScriptsType
  <2>2. GrowsInTurn(script') /\ OneDeployer(todo')
    BY <1>3, <2>1 DEF BeaconInv, GrowsInTurn
  <2>3. ASSUME NEW l \in Chains, NEW b, Uses(l, b)' PROVE Uses(l, b)
    BY <1>1, <2>2, <2>3 DEF Uses, OneDeployer
  <2>4. \A l \in Chains : \A b : Uses(l, b) => replicas[l] # {}
    <3>1. \A l : ~AssignsFirst(<< >>, l)
      BY NothingIsOrderly DEF AssignsFirst
    <3> QED
      BY <1>1, <3>1 DEF BeaconInv
  <2>5. \A l \in Chains : \A t \in DOMAIN todo' : Concerned(todo'[t], l) => \E x \in ToSet(todo'[t]) : Deploys(x, l)
    BY <2>2 DEF OneDeployer, Concerned, Assigns, stepsOf
  <2>6. \A l \in Chains : \A t, u \in DOMAIN todo' : Concerned(todo'[t], l) /\ Concerned(todo'[u], l) => t = u
    BY <2>2, <2>5 DEF OneDeployer
  <2> QED
    BY <1>1, <2>2, <2>3, <2>4, <2>6 DEF BeaconInv
<1> QED
  BY <1>2, <1>3 DEF NextPhase

(* Every step of the system keeps the beacons one.                         *)
LEMMA BeaconStep ==
  ASSUME ScriptInv, ScriptInv', MandateInv, BeaconInv, [DeployNext]_deployVars
  PROVE  BeaconInv'
<1>1. governor[Hub] \in Accounts \cup {NoAccount}
  BY DeployAssumption DEF MandateInv, GovernanceType
<1>2. CASE Abort \/ Handle \/ UNCHANGED deployVars
  <2>1. UNCHANGED <<script, todo, replicas, mempool, beaconOf>>
    BY <1>2 DEF Abort, Handle, scriptVars, deployVars
  <2> QED
    BY <2>1, BeaconChain
<1>3. CASE \E l \in Chains : Others(l)
  <2>1. UNCHANGED <<script, todo, replicas, mempool, beaconOf>>
    BY <1>3 DEF Others, scriptVars
  <2> QED
    BY <2>1, BeaconChain
<1> QED
  BY <1>1, <1>2, <1>3, BeaconTask, BeaconNextPhase, BeaconMine, BeaconBatch DEF DeployNext

(***************************************************************************)
(* Sequences in turn                                                       *)
(***************************************************************************)

(* Induction over the naturals: D has all of them. *)
LEMMA Induction ==
  ASSUME NEW D, 0 \in D, \A n \in Nat : n \in D => n + 1 \in D
  PROVE  Nat \subseteq D
<1> DEFINE Bad == Nat \ D
<1> SUFFICES ASSUME Bad # {} PROVE FALSE
  OBVIOUS
<1>1. PICK m \in Bad : \A k \in Bad : ~(<<k, m>> \in OpToRel(<, Nat))
  BY NatLessThanWellFounded, WFMin
<1>2. m \in Nat /\ m # 0 /\ m - 1 \in Nat
  OBVIOUS
<1>3. m - 1 \notin Bad
  <2>1. \A x, y \in Nat : x < y => <<x, y>> \in OpToRel(<, Nat)
    BY Zenon DEF OpToRel
  <2>2. m - 1 < m
    BY <1>2
  <2> QED
    BY <1>1, <1>2, <2>1, <2>2
<1> QED
  BY <1>2, <1>3

(* The sequences that FlattenSeq puts together. *)
IsFlat(h, m, seqs) == h = [i \in 1 .. m |-> IF i = 1 THEN seqs[i] ELSE h[i - 1] \o seqs[i]]

(* FlattenSeq is defined by recursion over the number of its parts.        *)
LEMMA FlatExists ==
  ASSUME NEW T, NEW seqs \in Seq(T), NEW n \in Nat, n = Len(seqs), n # 0
  PROVE  \E h : IsFlat(h, n, seqs) /\ FlattenSeq(seqs) = h[n]
<1> DEFINE D == {m \in Nat : \E h : IsFlat(h, m, seqs)}
<1>1. 0 \in D
  <2> DEFINE f == [i \in 1 .. 0 |-> 0]
  <2>1. IsFlat(f, 0, seqs)
    BY DEF IsFlat
  <2> QED
    BY <2>1
<1>2. ASSUME NEW m \in Nat, m \in D PROVE m + 1 \in D
  <2>1. PICK f : IsFlat(f, m, seqs)
    BY <1>2
  <2> DEFINE g == [i \in 1 .. m + 1 |-> IF i = m + 1
                                         THEN IF i = 1 THEN seqs[i] ELSE f[m] \o seqs[i] ELSE f[i]]
  <2>2. \A i \in 1 .. m : g[i] = f[i] /\ f[i] = IF i = 1 THEN seqs[i] ELSE f[i - 1] \o seqs[i]
    <3>1. \A i \in 1 .. m : f[i] = IF i = 1 THEN seqs[i] ELSE f[i - 1] \o seqs[i]
      BY <2>1 DEF IsFlat
    <3>2. \A i \in 1 .. m : i \in 1 .. m + 1 /\ i # m + 1
      OBVIOUS
    <3>3. \A i \in 1 .. m : g[i] = f[i]
      BY <3>2, Zenon
    <3> QED
      BY <3>1, <3>3, Zenon
  <2>3. ASSUME NEW i \in 1 .. m + 1 PROVE g[i] = IF i = 1 THEN seqs[i] ELSE g[i - 1] \o seqs[i]
    <3>1. CASE i = m + 1
      <4>1. i # 1 => m \in 1 .. m /\ i - 1 = m
        BY <3>1
      <4>2. i # 1 => g[i - 1] = f[m]
        BY <2>2, <4>1
      <4> QED
        BY <3>1, <4>2
    <3>2. CASE i # m + 1
      <4>1. i \in 1 .. m /\ (i # 1 => i - 1 \in 1 .. m)
        BY <3>2
      <4>2. i # 1 => g[i - 1] = f[i - 1]
        BY <2>2, <4>1, Zenon
      <4>3. g[i] = IF i = 1 THEN seqs[i] ELSE f[i - 1] \o seqs[i]
        BY <2>2, <4>1, Zenon
      <4> QED
        BY <4>2, <4>3, Zenon
    <3> QED
      BY <3>1, <3>2
  <2> HIDE DEF g
  <2>4. IsFlat(g, m + 1, seqs)
    <3>1. g = [i \in 1 .. m + 1 |-> g[i]]
      BY DEF g
    <3> QED
      BY <3>1, <2>3 DEF IsFlat
  <2> QED
    BY <2>4
<1> HIDE DEF D
<1>3. \E h : IsFlat(h, n, seqs)
  BY <1>1, <1>2, Induction DEF D
<1> DEFINE f == CHOOSE h : IsFlat(h, n, seqs)
<1>4. IsFlat(f, n, seqs)
  BY <1>3
<1>5. FlattenSeq(seqs) = f[n]
  BY Zenon DEF FlattenSeq, IsFlat
<1> HIDE DEF f
<1> QED
  BY <1>4, <1>5

(* What holds of nothing and of two sequences together holds of all. *)
LEMMA FlatIn ==
  ASSUME NEW C, << >> \in C, \A q, r \in C : q \o r \in C, NEW seqs \in Seq(C)
  PROVE  FlattenSeq(seqs) \in C
<1>1. PICK n \in Nat : n = Len(seqs)
  OBVIOUS
<1>2. CASE n = 0
  <2>1. FlattenSeq(seqs) = seqs
    BY <1>1, <1>2 DEF FlattenSeq
  <2>2. seqs = << >>
    <3>1. \A s \in Seq(C) : Len(s) = 0 => s = << >>
      OBVIOUS
    <3> QED
      BY <1>1, <1>2, <3>1
  <2> QED
    BY <2>1, <2>2
<1>3. CASE n # 0
  <2>1. PICK h : IsFlat(h, n, seqs) /\ FlattenSeq(seqs) = h[n]
    BY <1>1, <1>3, FlatExists
  <2>2. \A i \in 1 .. n : seqs[i] \in C
    BY <1>1
  <2>3. \A i \in 1 .. n : h[i] = IF i = 1 THEN seqs[i] ELSE h[i - 1] \o seqs[i]
    BY <2>1 DEF IsFlat
  <2> DEFINE D == {i \in Nat : i \in 1 .. n => h[i] \in C}
  <2>4. 0 \in D
    OBVIOUS
  <2>5. ASSUME NEW i \in Nat, i \in D PROVE i + 1 \in D
    <3> SUFFICES ASSUME i + 1 \in 1 .. n PROVE h[i + 1] \in C
      OBVIOUS
    <3>1. CASE i = 0
      BY <2>2, <2>3, <3>1
    <3>2. CASE i # 0
      <4>1. i \in 1 .. n /\ (i + 1) - 1 = i
        BY <3>2
      <4>2. h[i] \in C /\ seqs[i + 1] \in C
        BY <2>2, <2>5, <4>1
      <4>3. h[i + 1] = h[i] \o seqs[i + 1]
        <5>1. i + 1 # 1
          BY <3>2
        <5> QED
          BY <2>3, <4>1, <5>1, Zenon
      <4> QED
        BY <4>2, <4>3
    <3> QED
      BY <3>1, <3>2
  <2> HIDE DEF D
  <2>6. n \in D
    BY <2>4, <2>5, Induction
  <2> QED
    BY <1>3, <2>1, <2>6 DEF D
<1> QED
  BY <1>2, <1>3

(* Two sequences of anything, one after the other. *)
LEMMA Joined ==
  ASSUME NEW S, NEW q \in Seq(S), NEW r \in Seq(S)
  PROVE  q \o r \in Seq(S) /\ ToSet(q \o r) = ToSet(q) \cup ToSet(r)
<1>1. PICK m \in Nat : m = Len(q)
  OBVIOUS
<1>2. PICK n \in Nat : n = Len(r)
  OBVIOUS
<1>3. q \o r \in Seq(S) /\ Len(q \o r) = Len(q) + Len(r)
  OBVIOUS
<1>4. PICK s \in Seq(S) : s = q \o r /\ Len(s) = m + n
  BY <1>1, <1>2, <1>3
<1>5. \A i \in 1 .. m : s[i] = q[i]
  BY <1>1, <1>4
<1>6. \A j \in 1 .. n : s[m + j] = r[j]
  BY <1>1, <1>2, <1>4
<1>7. DOMAIN s = 1 .. m + n /\ DOMAIN q = 1 .. m /\ DOMAIN r = 1 .. n
  BY <1>1, <1>2, <1>4
<1>8. \A i \in 1 .. m + n : i \in 1 .. m \/ (i - m \in 1 .. n /\ i = m + (i - m))
  OBVIOUS
<1>9. (\A i \in 1 .. m : i \in 1 .. m + n) /\ \A j \in 1 .. n : m + j \in 1 .. m + n
  OBVIOUS
<1>10. ToSet(s) \subseteq ToSet(q) \cup ToSet(r)
  <2> SUFFICES ASSUME NEW i \in 1 .. m + n PROVE s[i] \in ToSet(q) \cup ToSet(r)
    BY <1>7 DEF ToSet
  <2>1. CASE i \in 1 .. m
    BY <1>5, <1>7, <2>1 DEF ToSet
  <2>2. CASE i - m \in 1 .. n /\ i = m + (i - m)
    BY <1>6, <1>7, <2>2 DEF ToSet
  <2> QED
    BY <1>8, <2>1, <2>2
<1>11. ToSet(q) \subseteq ToSet(s) /\ ToSet(r) \subseteq ToSet(s)
  BY <1>5, <1>6, <1>7, <1>9 DEF ToSet
<1> QED
  BY <1>3, <1>4, <1>10, <1>11

(* What the whole is made of. *)
LEMMA FlatHas ==
  ASSUME NEW S, NEW seqs \in Seq(Seq(S)), NEW k \in DOMAIN seqs
  PROVE  ToSet(seqs[k]) \subseteq ToSet(FlattenSeq(seqs))
<1>1. PICK n \in Nat : n = Len(seqs)
  OBVIOUS
<1>2. n # 0 /\ k \in 1 .. n
  BY <1>1
<1>3. PICK h : IsFlat(h, n, seqs) /\ FlattenSeq(seqs) = h[n]
  BY <1>1, <1>2, FlatExists
<1>4. \A i \in 1 .. n : seqs[i] \in Seq(S)
  BY <1>1
<1>5. \A i \in 1 .. n : h[i] = IF i = 1 THEN seqs[i] ELSE h[i - 1] \o seqs[i]
  BY <1>3 DEF IsFlat
<1> DEFINE D == {i \in Nat : i \in 1 .. n => /\ h[i] \in Seq(S)
                                             /\ k <= i => ToSet(seqs[k]) \subseteq ToSet(h[i])}
<1>6. 0 \in D
  OBVIOUS
<1>7. ASSUME NEW i \in Nat, i \in D PROVE i + 1 \in D
  <2> SUFFICES ASSUME i + 1 \in 1 .. n
               PROVE  /\ h[i + 1] \in Seq(S)
                      /\ k <= i + 1 => ToSet(seqs[k]) \subseteq ToSet(h[i + 1])
    OBVIOUS
  <2>1. CASE i = 0
    <3>1. h[1] = seqs[1] /\ (k <= 1 => k = 1)
      BY <1>2, <1>5, <2>1
    <3> QED
      BY <1>4, <2>1, <3>1
  <2>2. CASE i # 0
    <3>1. i \in 1 .. n /\ (i + 1) - 1 = i /\ i + 1 # 1
      BY <2>2
    <3>2. PICK q \in Seq(S) : q = h[i] /\ (k <= i => ToSet(seqs[k]) \subseteq ToSet(q))
      BY <1>7, <3>1
    <3>3. PICK r \in Seq(S) : r = seqs[i + 1]
      BY <1>4
    <3>4. h[i + 1] = q \o r
      BY <1>5, <3>1, <3>2, <3>3
    <3>5. q \o r \in Seq(S) /\ ToSet(q \o r) = ToSet(q) \cup ToSet(r)
      BY Joined
    <3>6. h[i + 1] \in Seq(S) /\ ToSet(h[i + 1]) = ToSet(q) \cup ToSet(r)
      BY <3>4, <3>5
    <3>7. k <= i + 1 => k <= i \/ k = i + 1
      BY <1>2
    <3> QED
      BY <3>2, <3>3, <3>6, <3>7
  <2> QED
    BY <2>1, <2>2
<1> HIDE DEF D
<1>8. n \in D
  BY <1>6, <1>7, Induction
<1> QED
  BY <1>2, <1>3, <1>8 DEF D

(* A sequence mapped element by element.                                   *)
LEMMA Mapped ==
  ASSUME NEW S, NEW C, NEW xs \in Seq(S), NEW qs, qs = [i \in DOMAIN xs |-> qs[i]],
         \A i \in DOMAIN xs : qs[i] \in C
  PROVE  qs \in Seq(C) /\ DOMAIN qs = DOMAIN xs
<1>1. PICK n \in Nat : n = Len(xs) /\ DOMAIN xs = 1 .. n
  OBVIOUS
<1> QED
  BY <1>1

(* The elements of a sequence.                                             *)
LEMMA SetOfSeq ==
  ASSUME NEW S, NEW xs \in Seq(S)
  PROVE  ToSet(xs) \subseteq S /\ xs \in Seq(ToSet(xs)) /\ \A i \in DOMAIN xs : xs[i] \in ToSet(xs)
<1>1. PICK n \in Nat : n = Len(xs) /\ DOMAIN xs = 1 .. n
  OBVIOUS
<1>2. \A i \in 1 .. n : xs[i] \in S /\ xs[i] \in ToSet(xs)
  BY <1>1 DEF ToSet
<1>3. ToSet(xs) \subseteq S
  BY <1>1, <1>2 DEF ToSet
<1>4. xs = [i \in 1 .. n |-> xs[i]]
  BY <1>1
<1>5. xs \in Seq(ToSet(xs))
  BY <1>1, <1>2, <1>4
<1> QED
  BY <1>1, <1>2, <1>3, <1>5

(* The empty sequence has no elements.                                     *)
LEMMA NoneOf == \A S : << >> \in Seq(S) /\ ToSet(<< >>) = {} /\ DOMAIN << >> = {}
<1>1. \A S : << >> \in Seq(S)
  OBVIOUS
<1>2. DOMAIN << >> = {}
  BY NothingIsOrderly
<1> QED
  BY <1>1, <1>2 DEF ToSet

(* A sequence of one element.                                              *)
LEMMA OneOf == \A x : \A S : x \in S => <<x>> \in Seq(S) /\ ToSet(<<x>>) = {x}
<1> TAKE x, S
<1> HAVE x \in S
<1>1. <<x>> \in Seq(S) /\ Len(<<x>>) = 1 /\ <<x>>[1] = x
  OBVIOUS
<1>2. DOMAIN <<x>> = {1}
  BY <1>1
<1> QED
  BY <1>1, <1>2 DEF ToSet

(* All chains but one. *)
LEMMA AllButOne ==
  ASSUME NEW S, NEW ds \in Seq(S), NEW l
  PROVE  others(ds, l) \in Seq(S) /\ ToSet(others(ds, l)) = ToSet(ds) \ {l}
<1> DEFINE T == ToSet(ds) \ {l}
           qs == [i \in DOMAIN ds |-> IF ds[i] = l THEN << >> ELSE <<ds[i]>>]
<1>1. \A i \in DOMAIN ds : ds[i] \in ToSet(ds)
  BY SetOfSeq
<1>2. \A i \in DOMAIN ds : qs[i] \in Seq(T) /\ (ds[i] # l => ToSet(qs[i]) = {ds[i]})
  <2> SUFFICES ASSUME NEW i \in DOMAIN ds
               PROVE  qs[i] \in Seq(T) /\ (ds[i] # l => ToSet(qs[i]) = {ds[i]})
    OBVIOUS
  <2>1. qs[i] = IF ds[i] = l THEN << >> ELSE <<ds[i]>>
    OBVIOUS
  <2>2. CASE ds[i] = l
    BY <2>1, <2>2, NoneOf
  <2>3. CASE ds[i] # l
    <3>1. ds[i] \in T
      BY <1>1, <2>3
    <3>2. <<ds[i]>> \in Seq(T) /\ ToSet(<<ds[i]>>) = {ds[i]}
      BY <3>1, OneOf
    <3> QED
      BY <2>1, <2>3, <3>2
  <2> QED
    BY <2>2, <2>3
<1>3. qs = [i \in DOMAIN ds |-> qs[i]]
  OBVIOUS
<1>4. others(ds, l) = FlattenSeq(qs)
  BY DEF others, inTurn
<1> HIDE DEF qs
<1>5. qs \in Seq(Seq(T)) /\ DOMAIN qs = DOMAIN ds
  BY <1>2, <1>3, Mapped
<1>6. FlattenSeq(qs) \in Seq(T)
  <2>1. \A q, r \in Seq(T) : q \o r \in Seq(T)
    OBVIOUS
  <2>2. << >> \in Seq(T)
    BY NoneOf
  <2> QED
    BY <1>5, <2>1, <2>2, FlatIn
<1>7. ToSet(FlattenSeq(qs)) \subseteq T
  BY <1>6, SetOfSeq
<1>8. ASSUME NEW x \in T PROVE x \in ToSet(FlattenSeq(qs))
  <2>1. PICK i \in DOMAIN ds : ds[i] = x
    BY DEF ToSet
  <2>2. ToSet(qs[i]) = {x}
    BY <1>2, <2>1
  <2>3. ToSet(qs[i]) \subseteq ToSet(FlattenSeq(qs))
    BY <1>5, FlatHas
  <2> QED
    BY <2>2, <2>3
<1>9. T \subseteq S
  BY SetOfSeq
<1>10. FlattenSeq(qs) \in Seq(S)
  BY <1>6, <1>9
<1> QED
  BY <1>4, <1>7, <1>8, <1>10

(* All watchers, in some order. *)
LEMMA AllWatchers ==
  SetToSeq(Watchers) \in Seq(Watchers) /\ ToSet(SetToSeq(Watchers)) = Watchers
<1> DEFINE n == Cardinality(Watchers)
           ws == SetToSeq(Watchers)
<1>1. n \in Nat /\ ExistsBijection(1 .. n, Watchers)
  BY DeployAssumption, FS_CardinalityType
<1>2. \E f \in [1 .. n -> Watchers] : IsInjective(f)
  BY <1>1, Zenon DEF ExistsBijection, Bijection, Injection
<1>3. ws \in [1 .. n -> Watchers] /\ IsInjective(ws)
  BY <1>2, Zenon DEF SetToSeq
<1>4. ws \in Surjection(1 .. n, Watchers)
  <2>1. ws \in Injection(1 .. n, Watchers)
    BY <1>3, Zenon DEF Injection
  <2>2. IsFiniteSet(1 .. n) /\ Cardinality(1 .. n) = n
    <3>1. IsFiniteSet(1 .. n) /\ Cardinality(1 .. n) = IF 1 > n THEN 0 ELSE n - 1 + 1
      BY <1>1, FS_Interval
    <3> QED
      BY <1>1, <3>1
  <2> QED
    BY <2>1, <2>2, DeployAssumption, FS_Injection
<1> HIDE DEF ws
<1>5. ws \in Seq(Watchers) /\ DOMAIN ws = 1 .. n
  BY <1>1, <1>3
<1>6. \A w \in Watchers : \E i \in 1 .. n : ws[i] = w
  BY <1>4, Zenon DEF Surjection
<1> QED
  BY <1>3, <1>5, <1>6 DEF ToSet, ws

(***************************************************************************)
(* Tasks                                                                   *)
(***************************************************************************)

(* A step that no property of the scripts looks at. *)
Tame(x) ==
  /\ ~HandsOver(x) /\ ~IsReplicaProxy(x) /\ ~isCall(x, "assignReplica")
  /\ ~DeploysHome(x) /\ ~isCall(x, "recordFromBlock")

(* Tasks in order on the chains L, tame but for the steps in odd. *)
Tasks(L, odd) ==
  {q \in Seq(Steps) : OrderlyTask(q, {}) /\ \A x \in ToSet(q) : x.on \in L /\ (Tame(x) \/ x \in odd)}

(* Orderly steps are orderly after more.                                   *)
LEMMA OrderlyAfter ==
  ASSUME NEW q, NEW own, NEW more, own \subseteq more, OrderlyTask(q, own)
  PROVE  OrderlyTask(q, more)
<1> SUFFICES ASSUME NEW i \in DOMAIN q PROVE Orderly(q[i], before(q, i) \cup more)
  BY DEF OrderlyTask
<1>1. Orderly(q[i], before(q, i) \cup own)
  BY DEF OrderlyTask
<1> QED
  BY <1>1 DEF Orderly, WaitedFor

(* Tasks in turn are a task.                                               *)
LEMMA TasksBoth ==
  \A L, odd : \A q, r \in Tasks(L, odd) : q \o r \in Tasks(L, odd)
<1> TAKE L, odd
<1> TAKE q, r \in Tasks(L, odd)
<1>1. q \in Seq(Steps) /\ r \in Seq(Steps) /\ OrderlyTask(q, {}) /\ OrderlyTask(r, {})
  BY DEF Tasks
<1>2. OrderlyTask(r, {} \cup ToSet(q))
  BY <1>1, OrderlyAfter
<1>3. OrderlyTask(q \o r, {})
  BY <1>1, <1>2, OrderlyBoth
<1>4. q \o r \in Seq(Steps) /\ ToSet(q \o r) = ToSet(q) \cup ToSet(r)
  BY <1>1, Joined
<1> QED
  BY <1>3, <1>4 DEF Tasks

(* Doing nothing is a task.                                                *)
LEMMA NoTask == \A L, odd : << >> \in Tasks(L, odd)
  BY NothingIsOrderly, NoneOf DEF Tasks

(* A task of one chain is a task of more.                                  *)
LEMMA TasksOfMore ==
  ASSUME NEW L, NEW odd, NEW more, NEW wider, L \subseteq more, odd \subseteq wider
  PROVE  Tasks(L, odd) \subseteq Tasks(more, wider)
BY DEF Tasks

(* Tasks for each element of a sequence, in turn, are a task that has      *)
(* all their steps.                                                        *)
LEMMA TasksInTurn ==
  ASSUME NEW S, NEW xs \in Seq(S), NEW qs, qs = [i \in DOMAIN xs |-> qs[i]], NEW L, NEW odd,
         \A i \in DOMAIN xs : qs[i] \in Tasks(L, odd)
  PROVE  /\ FlattenSeq(qs) \in Tasks(L, odd)
         /\ \A i \in DOMAIN xs : ToSet(qs[i]) \subseteq ToSet(FlattenSeq(qs))
<1>1. qs \in Seq(Tasks(L, odd)) /\ DOMAIN qs = DOMAIN xs
  BY Mapped
<1>2. FlattenSeq(qs) \in Tasks(L, odd)
  BY <1>1, NoTask, TasksBoth, FlatIn
<1>3. qs \in Seq(Seq(Steps))
  <2>1. \A i \in DOMAIN xs : qs[i] \in Seq(Steps)
    BY DEF Tasks
  <2> QED
    BY <2>1, Mapped
<1> QED
  BY <1>1, <1>2, <1>3, FlatHas

(* An orderly step is a task.                                              *)
LEMMA OneStep ==
  ASSUME NEW x \in Steps, Orderly(x, {}), NEW L, NEW odd, x.on \in L, Tame(x) \/ x \in odd
  PROVE  <<x>> \in Tasks(L, odd)
<1>1. <<x>> \in Seq(Steps) /\ ToSet(<<x>>) = {x}
  BY SingleStep
<1>2. OrderlyTask(<<x>>, {})
  BY OrderlySingle
<1> QED
  BY <1>1, <1>2 DEF Tasks

(***************************************************************************)
(* The functions of the scripts                                            *)
(***************************************************************************)

TxOps ==
  {"Implementation", "Beacon", "Proxy", "deploy", "setHome", "transferOwnership",
   "ownerEnrollReplica", "setWatcherPermission", "setRouterLocal", "enrollRemoteRouter",
   "enrollCustom", "initialize", "setDetails"}

CallOps ==
  {"deployUnenrolledReplica", "writeOutput", "writeReplica", "enrollSpoke", "enrollSpokeInDev",
   "checkHubToSpokeConnectionWithWaiter"} \cup Checks

(* Transactions and calls that are in order wherever they come.            *)
PlainTx(op, name, r) ==
  /\ op \in TxOps /\ name \in Names /\ r \in Chains \cup {None}
  /\ op = "Proxy" => name # "Replica"
  /\ op = "deploy" => name # "GovernanceRouter"
  /\ op = "setRouterLocal" => r \in Chains

(* Transactions that deploy a Home.                                        *)
Homes == {x \in Steps : DeploysHome(x)}

Fine(op, name, odd) == (op \in {"Proxy", "deploy"} => name # "Home") \/ Homes \subseteq odd

PlainCall(op, r) ==
  \/ op \in CallOps /\ r \in Chains
  \/ op \in {"checkCoreDeploy", "writeOutput", "checkBridgeDeployValues"} /\ r = None

(* A step of a script, field by field.                                     *)
LEMMA StepFields ==
  \A kind, op, l, name, r :
    LET x == step(kind, op, l, name, r) IN
    /\ x.kind = kind /\ x.op = op /\ x.on = l /\ x.name = name /\ x.remote = r
    /\ x.beacon = None
BY DEF step

(* It is a step.                                                           *)
LEMMA StepIn ==
  \A kind \in {"send", "wait", "call"}, op \in Ops, l \in Chains, name \in Names,
     r \in Chains \cup {None} : step(kind, op, l, name, r) \in Steps
BY DEF step, Steps

(* The operations of transactions and of calls.                            *)
LEMMA OpsAre == TxOps \subseteq Ops /\ CallOps \subseteq Ops
BY DEF TxOps, CallOps, Ops

(* The transaction that is waited for.                                     *)
LEMMA SentIs ==
  \A op, l, name, r :
    sent(waited(op, l, name, r)) = step("send", op, l, name, r)
BY DEF sent, step, waited

(* A plain transaction needs nothing before it in its task.                *)
LEMMA PlainSend ==
  ASSUME NEW l \in Chains, NEW op, NEW name, NEW r, PlainTx(op, name, r),
         NEW odd, Fine(op, name, odd)
  PROVE  \E x \in Steps : /\ x = step("send", op, l, name, r) /\ x.on = l
                          /\ Orderly(x, {}) /\ (Tame(x) \/ x \in odd)
<1>1. PICK x \in Steps : /\ x = step("send", op, l, name, r)
                         /\ x.kind = "send" /\ x.op = op /\ x.on = l /\ x.name = name /\ x.remote = r
  BY StepIn, StepFields, OpsAre DEF PlainTx
<1>2. op \notin Checks /\ op # "transferGovernor" /\ op # "batch"
  BY DEF PlainTx, TxOps, Checks
<1>3. Orderly(x, {})
  BY <1>1, <1>2 DEF Orderly, SoundTx, SoundCall, isSend, isCall, PlainTx
<1>4. Tame(x) \/ x \in odd
  BY <1>1, <1>2 DEF Tame, HandsOver, IsReplicaProxy, DeploysHome, isSend, isCall, PlainTx, Fine, Homes
<1> QED
  BY <1>1, <1>3, <1>4

(* A wait needs its transaction before it.                                 *)
LEMMA PlainWait ==
  ASSUME NEW l \in Chains, NEW op, NEW name, NEW r, PlainTx(op, name, r), NEW own,
         step("send", op, l, name, r) \in own
  PROVE  /\ waited(op, l, name, r) \in Steps /\ waited(op, l, name, r).on = l
         /\ Orderly(waited(op, l, name, r), own) /\ Tame(waited(op, l, name, r))
<1>1. PICK x \in Steps : /\ x = waited(op, l, name, r)
                         /\ x.kind = "wait" /\ x.op = op /\ x.on = l /\ x.name = name /\ x.remote = r
  BY StepIn, StepFields, OpsAre DEF PlainTx, waited
<1>2. op \notin Checks /\ op # "transferGovernor" /\ op # "batch"
  BY DEF PlainTx, TxOps, Checks
<1>3. sent(x) \in own
  BY <1>1, SentIs
<1>4. Orderly(x, own)
  BY <1>1, <1>2, <1>3 DEF Orderly, SoundTx, SoundCall, isSend, isCall
<1>5. Tame(x)
  BY <1>1, <1>2 DEF Tame, HandsOver, IsReplicaProxy, DeploysHome, isSend, isCall, PlainTx
<1> QED
  BY <1>1, <1>4, <1>5

(* Sending a plain transaction is a task.                                  *)
LEMMA SendTask ==
  \A l, op, name, r, odd : l \in Chains /\ PlainTx(op, name, r) /\ Fine(op, name, odd) =>
    /\ send(op, l, name, r) \in Tasks({l}, odd)
    /\ ToSet(send(op, l, name, r)) = {step("send", op, l, name, r)}
<1> TAKE l, op, name, r, odd
<1> HAVE l \in Chains /\ PlainTx(op, name, r) /\ Fine(op, name, odd)
<1>1. PICK x \in Steps : /\ x = step("send", op, l, name, r) /\ x.on = l
                         /\ Orderly(x, {}) /\ (Tame(x) \/ x \in odd)
  BY PlainSend
<1>2. <<x>> \in Tasks({l}, odd)
  BY <1>1, OneStep
<1>3. ToSet(<<x>>) = {x}
  BY SingleStep
<1> QED
  BY <1>1, <1>2, <1>3, Zenon DEF send

(* A transaction that is waited for, too. *)
LEMMA AwaitedTask ==
  \A l, op, name, r, odd : l \in Chains /\ PlainTx(op, name, r) /\ Fine(op, name, odd) =>
    /\ sendAndWait(op, l, name, r) \in Tasks({l}, odd)
    /\ waited(op, l, name, r) \in ToSet(sendAndWait(op, l, name, r))
<1> TAKE l, op, name, r, odd
<1> HAVE l \in Chains /\ PlainTx(op, name, r) /\ Fine(op, name, odd)
<1>1. PICK x \in Steps : /\ x = step("send", op, l, name, r) /\ x.on = l
                         /\ Orderly(x, {}) /\ (Tame(x) \/ x \in odd)
  BY PlainSend
<1>2. PICK y \in Steps : /\ y = waited(op, l, name, r) /\ y.on = l /\ Orderly(y, {} \cup ToSet(<<x>>))
                         /\ Tame(y)
  <2>1. step("send", op, l, name, r) \in {} \cup ToSet(<<x>>)
    BY <1>1, SingleStep
  <2> QED
    BY <2>1, PlainWait
<1>3. OrderlyTask(<<x>>, {}) /\ OrderlyTask(<<y>>, {} \cup ToSet(<<x>>))
  BY <1>1, <1>2, OrderlySingle
<1>4. <<x>> \in Seq(Steps) /\ <<y>> \in Seq(Steps) /\ ToSet(<<x>>) = {x} /\ ToSet(<<y>>) = {y}
  BY SingleStep
<1>5. OrderlyTask(<<x>> \o <<y>>, {})
  BY <1>3, <1>4, OrderlyBoth
<1>6. <<x>> \o <<y>> \in Seq(Steps) /\ ToSet(<<x>> \o <<y>>) = {x, y}
  BY PairOf
<1>7. <<x>> \o <<y>> \in Tasks({l}, odd)
  BY <1>1, <1>2, <1>5, <1>6 DEF Tasks
<1>8. sendAndWait(op, l, name, r) = <<x>> \o <<y>>
  BY <1>1, <1>2, Zenon DEF sendAndWait, send, wait, waited
<1> QED
  BY <1>2, <1>6, <1>7, <1>8

(* A plain call is a task.                                                 *)
LEMMA CallTask ==
  \A l, op, r, odd : l \in Chains /\ PlainCall(op, r) =>
    call(op, l, r) \in Tasks({l}, odd)
<1> TAKE l, op, r, odd
<1> HAVE l \in Chains /\ PlainCall(op, r)
<1>1. op \in CallOps /\ r \in Chains \cup {None}
  BY DEF CallOps, Checks, PlainCall
<1>0. PICK name \in Names : name = ""
  BY Zenon DEF Names
<1>2. PICK x \in Steps : /\ x = step("call", op, l, name, r)
                         /\ x.kind = "call" /\ x.op = op /\ x.on = l /\ x.remote = r
  BY <1>1, StepIn, StepFields, OpsAre
<1>3. op \notin {"transferGovernorship", "assignReplica", "recordFromBlock", "Proxy"}
  BY <1>1 DEF CallOps, Checks
<1>4. op \in {"deployUnenrolledReplica", "enrollSpoke", "enrollSpokeInDev"} => r \in Chains
  BY DEF PlainCall
<1>5. Orderly(x, {})
  BY <1>2, <1>3, <1>4 DEF Orderly, SoundTx, SoundCall, isSend, isCall
<1>6. Tame(x)
  BY <1>2, <1>3 DEF Tame, HandsOver, IsReplicaProxy, DeploysHome, isSend, isCall
<1>7. <<x>> \in Tasks({l}, odd)
  BY <1>2, <1>5, <1>6, OneStep
<1> QED
  BY <1>0, <1>2, <1>7, Zenon DEF call

(* deployProxy is a task, which waits for the proxy.                       *)
LEMMA ProxyTask ==
  \A l, name, odd : l \in Chains /\ PlainTx("Proxy", name, None) /\ Fine("Proxy", name, odd) =>
    /\ deployProxy(l, name, None) \in Tasks({l}, odd)
    /\ waited("Proxy", l, name, None) \in ToSet(deployProxy(l, name, None))
<1> TAKE l, name, odd
<1> HAVE l \in Chains /\ PlainTx("Proxy", name, None) /\ Fine("Proxy", name, odd)
<1>1. PlainTx("Implementation", name, None) /\ PlainTx("Beacon", name, None)
  BY DEF PlainTx, TxOps
<1>2. Fine("Implementation", name, odd) /\ Fine("Beacon", name, odd)
  BY DEF Fine
<1>3. PICK a \in Tasks({l}, odd) : a = send("Implementation", l, name, None)
  BY <1>1, <1>2, SendTask
<1>4. PICK b \in Tasks({l}, odd) : b = send("Beacon", l, name, None)
  BY <1>1, <1>2, SendTask
<1>5. PICK c \in Tasks({l}, odd) : /\ c = sendAndWait("Proxy", l, name, None)
                                   /\ waited("Proxy", l, name, None) \in ToSet(c)
  BY AwaitedTask
<1>6. a \o b \in Tasks({l}, odd)
  BY TasksBoth
<1>7. (a \o b) \o c \in Tasks({l}, odd)
  BY <1>6, TasksBoth
<1>8. ToSet((a \o b) \o c) = ToSet(a \o b) \cup ToSet(c)
  <2>1. a \o b \in Seq(Steps) /\ c \in Seq(Steps)
    BY <1>6 DEF Tasks
  <2>2. \A x, y \in Seq(Steps) : ToSet(x \o y) = ToSet(x) \cup ToSet(y)
    BY Joined
  <2> QED
    BY <2>1, <2>2
<1>9. deployProxy(l, name, None) = (a \o b) \o c
  BY <1>3, <1>4, <1>5, Zenon DEF deployProxy
<1> QED
  BY <1>5, <1>7, <1>8, <1>9

(* What a task does first, it has done when it is over. *)
LEMMA TasksAfter ==
  ASSUME NEW L, NEW odd, NEW q \in Tasks(L, odd), NEW r \in Tasks(L, odd)
  PROVE  q \o r \in Tasks(L, odd) /\ ToSet(q \o r) = ToSet(q) \cup ToSet(r)
<1>1. q \in Seq(Steps) /\ r \in Seq(Steps)
  BY DEF Tasks
<1> QED
  BY <1>1, TasksBoth, Joined

(* deployNomad is a task, which waits for the router; Home is the one      *)
(* contract it deploys that others rest on.                                *)
LEMMA DeployNomadTask ==
  ASSUME NEW l \in Chains, NEW odd, Homes \subseteq odd
  PROVE  /\ deployNomad(l) \in Tasks({l}, odd)
         /\ waited("Proxy", l, "GovernanceRouter", None) \in ToSet(deployNomad(l))
<1> DEFINE T == Tasks({l}, odd)
<1>0. \A q, r \in T : q \o r \in T
  BY TasksBoth
<1>1. PICK a \in T : a = deployUpgradeBeaconController(l)
  BY AwaitedTask DEF deployUpgradeBeaconController, PlainTx, TxOps, Names, Fine
<1>2. PICK b \in T : b = deployUpdaterManager(l)
  BY AwaitedTask DEF deployUpdaterManager, PlainTx, TxOps, Names, Fine
<1>3. PICK c \in T : c = deployXAppConnectionManager(l)
  BY AwaitedTask DEF deployXAppConnectionManager, PlainTx, TxOps, Names, Fine
<1>4. PICK d \in T : d = deployHome(l)
  BY ProxyTask DEF deployHome, PlainTx, TxOps, Names, Fine
<1>5. PICK e \in T : e = send("setHome", l, "XAppConnectionManager", None)
  BY SendTask DEF PlainTx, TxOps, Names, Fine
<1>6. PICK f \in T : f = send("setHome", l, "UpdaterManager", None)
  BY SendTask DEF PlainTx, TxOps, Names, Fine
<1>7. PICK g \in T : /\ g = deployGovernanceRouter(l)
                     /\ waited("Proxy", l, "GovernanceRouter", None) \in ToSet(g)
  BY ProxyTask DEF deployGovernanceRouter, PlainTx, TxOps, Names, Fine
<1>8. PICK h \in T : h = a \o b \o c \o d \o e \o f
  <2> HIDE DEF T
  <2> QED
    BY <1>0
<1>9. deployNomad(l) = h \o g
  BY <1>1, <1>2, <1>3, <1>4, <1>5, <1>6, <1>7, <1>8, Zenon DEF deployNomad
<1> QED
  BY <1>7, <1>9, TasksAfter

(* relinquish is a task.                                                   *)
LEMMA RelinquishTask ==
  ASSUME NEW l \in Chains, NEW remotes \in Seq(Chains), NEW odd
  PROVE  relinquish(l, remotes) \in Tasks({l}, odd)
<1> DEFINE T == Tasks({l}, odd)
           qs == [i \in DOMAIN remotes |-> send("transferOwnership", l, "Replica", remotes[i])]
<1>0. \A q, r \in T : q \o r \in T
  BY TasksBoth
<1>1. PICK a \in T : a = send("transferOwnership", l, "UpdaterManager", None)
  BY SendTask DEF PlainTx, TxOps, Names, Fine
<1>2. PICK b \in T : b = send("transferOwnership", l, "XAppConnectionManager", None)
  BY SendTask DEF PlainTx, TxOps, Names, Fine
<1>3. PICK c \in T : c = send("transferOwnership", l, "UpgradeBeaconController", None)
  BY SendTask DEF PlainTx, TxOps, Names, Fine
<1>4. PICK d \in T : d = inTurn(remotes, LAMBDA r : send("transferOwnership", l, "Replica", r))
  <2>1. \A r \in Chains : send("transferOwnership", l, "Replica", r) \in T
    BY SendTask DEF PlainTx, TxOps, Names, Fine
  <2>2. \A i \in DOMAIN remotes : qs[i] \in T
    <3> HIDE DEF T
    <3> TAKE i \in DOMAIN remotes
    <3>1. PICK r \in Chains : r = remotes[i]
      OBVIOUS
    <3>2. qs[i] = send("transferOwnership", l, "Replica", r)
      BY <3>1
    <3> QED
      BY <2>1, <3>2
  <2>3. qs = [i \in DOMAIN remotes |-> qs[i]]
    OBVIOUS
  <2>4. inTurn(remotes, LAMBDA r : send("transferOwnership", l, "Replica", r)) = FlattenSeq(qs)
    BY DEF inTurn
  <2> HIDE DEF qs
  <2> QED
    BY <2>2, <2>3, <2>4, TasksInTurn
<1>5. PICK e \in T : e = sendAndWait("transferOwnership", l, "Home", None)
  BY AwaitedTask DEF PlainTx, TxOps, Names, Fine
<1>6. a \o b \o c \o d \o e \in T
  <2> HIDE DEF T
  <2> QED
    BY <1>0
<1> QED
  BY <1>1, <1>2, <1>3, <1>4, <1>5, <1>6, Zenon DEF relinquish

(* enrollReplica is a task, which waits for the enrolment.                 *)
LEMMA EnrollReplicaTask ==
  ASSUME NEW l \in Chains, NEW r \in Chains, NEW odd
  PROVE  /\ enrollReplica(l, r) \in Tasks({l}, odd)
         /\ waited("ownerEnrollReplica", l, "XAppConnectionManager", r) \in ToSet(enrollReplica(l, r))
<1>1. PlainTx("ownerEnrollReplica", "XAppConnectionManager", r) /\ Fine("ownerEnrollReplica", "XAppConnectionManager", odd)
  BY DEF PlainTx, TxOps, Names, Fine
<1> QED
  BY <1>1, AwaitedTask, Zenon DEF enrollReplica

(* enrollGovernanceRouter is a task.                                       *)
LEMMA EnrollGovernanceRouterTask ==
  ASSUME NEW l \in Chains, NEW r \in Chains, NEW odd
  PROVE  enrollGovernanceRouter(l, r) \in Tasks({l}, odd)
<1>1. PlainTx("setRouterLocal", "GovernanceRouter", r) /\ Fine("setRouterLocal", "GovernanceRouter", odd)
  BY DEF PlainTx, TxOps, Names, Fine
<1> QED
  BY <1>1, AwaitedTask, Zenon DEF enrollGovernanceRouter

(* deployUnenrolledReplica is a task.                                      *)
LEMMA UnenrolledTask ==
  ASSUME NEW l \in Chains, NEW r \in Chains, NEW odd
  PROVE  deployUnenrolledReplica(l, r) \in Tasks({l}, odd)
<1>1. PlainCall("deployUnenrolledReplica", r)
  BY DEF PlainCall, CallOps
<1> QED
  BY <1>1, CallTask, Zenon DEF deployUnenrolledReplica

(* Steps that follow the steps own.                                        *)
Later(own, L, odd) ==
  {q \in Seq(Steps) : OrderlyTask(q, own) /\ \A x \in ToSet(q) : x.on \in L /\ (Tame(x) \/ x \in odd)}

(* Later steps in turn are later steps.                                    *)
LEMMA LaterBoth ==
  ASSUME NEW own, NEW L, NEW odd
  PROVE  << >> \in Later(own, L, odd) /\ \A q, r \in Later(own, L, odd) : q \o r \in Later(own, L, odd)
<1>1. << >> \in Later(own, L, odd)
  <2>1. OrderlyTask(<< >>, own)
    BY NothingIsOrderly, OrderlyAfter
  <2> QED
    BY <2>1, NoneOf DEF Later
<1>2. ASSUME NEW q \in Later(own, L, odd), NEW r \in Later(own, L, odd)
      PROVE  q \o r \in Later(own, L, odd)
  <2>1. q \in Seq(Steps) /\ r \in Seq(Steps) /\ OrderlyTask(q, own) /\ OrderlyTask(r, own)
    BY DEF Later
  <2>2. OrderlyTask(r, own \cup ToSet(q))
    BY <2>1, OrderlyAfter
  <2>3. OrderlyTask(q \o r, own)
    BY <2>1, <2>2, OrderlyBoth
  <2>4. q \o r \in Seq(Steps) /\ ToSet(q \o r) = ToSet(q) \cup ToSet(r)
    BY <2>1, Joined
  <2> QED
    BY <2>3, <2>4 DEF Later
<1> QED
  BY <1>1, <1>2

(* The permission of each watcher is a plain transaction.                  *)
LEMMA PermissionTask ==
  ASSUME NEW l \in Chains, NEW r \in Chains, NEW odd
  PROVE  \A w \in Watchers :
           /\ PlainTx("setWatcherPermission", w, r) /\ Fine("setWatcherPermission", w, odd)
           /\ send("setWatcherPermission", l, w, r) \in Tasks({l}, odd)
           /\ ToSet(send("setWatcherPermission", l, w, r)) = {step("send", "setWatcherPermission", l, w, r)}
<1>1. Watchers \subseteq Names
  BY Zenon DEF Names
<1>2. \A w \in Names : PlainTx("setWatcherPermission", w, r)
  BY DEF PlainTx, TxOps
<1>3. \A w : Fine("setWatcherPermission", w, odd)
  BY DEF Fine
<1> SUFFICES ASSUME NEW w \in Watchers
             PROVE  /\ send("setWatcherPermission", l, w, r) \in Tasks({l}, odd)
                    /\ ToSet(send("setWatcherPermission", l, w, r)) = {step("send", "setWatcherPermission", l, w, r)}
  BY <1>1, <1>2, <1>3
<1>4. l \in Chains /\ PlainTx("setWatcherPermission", w, r) /\ Fine("setWatcherPermission", w, odd)
  BY <1>1, <1>2, <1>3
<1>5. PICK op : op = "setWatcherPermission"
  OBVIOUS
<1>6. l \in Chains /\ PlainTx(op, w, r) /\ Fine(op, w, odd)
  BY <1>4, <1>5
<1>7. /\ send(op, l, w, r) \in Tasks({l}, odd)
      /\ ToSet(send(op, l, w, r)) = {step("send", op, l, w, r)}
  BY <1>6, SendTask
<1> QED
  BY <1>5, <1>7

(* enrollWatchers is a task, which waits for each permission.              *)
LEMMA EnrollWatchersTask ==
  ASSUME NEW l \in Chains, NEW r \in Chains, NEW odd
  PROVE  /\ enrollWatchers(l, r) \in Tasks({l}, odd)
         /\ \A w \in Watchers : waited("setWatcherPermission", l, w, r) \in ToSet(enrollWatchers(l, r))
<1>1. PICK ws \in Seq(Watchers) : ws = SetToSeq(Watchers) /\ ToSet(ws) = Watchers
  BY AllWatchers
<1> DEFINE T == Tasks({l}, odd)
           sends == [i \in DOMAIN ws |-> send("setWatcherPermission", l, ws[i], r)]
           waits == [i \in DOMAIN ws |-> wait("setWatcherPermission", l, ws[i], r)]
<1>2. \A i \in DOMAIN ws : ws[i] \in Watchers
  OBVIOUS
<1>3. \A w \in Watchers : PlainTx("setWatcherPermission", w, r) /\ Fine("setWatcherPermission", w, odd)
  BY PermissionTask
<1>4. \A w \in Watchers :
        /\ send("setWatcherPermission", l, w, r) \in T
        /\ ToSet(send("setWatcherPermission", l, w, r)) = {step("send", "setWatcherPermission", l, w, r)}
  BY PermissionTask
<1>5. sends = [i \in DOMAIN ws |-> sends[i]] /\ waits = [i \in DOMAIN ws |-> waits[i]]
  OBVIOUS
<1>6. \A i \in DOMAIN ws : /\ sends[i] = send("setWatcherPermission", l, ws[i], r)
                           /\ waits[i] = wait("setWatcherPermission", l, ws[i], r)
  OBVIOUS
<1>7. /\ inTurn(ws, LAMBDA w : send("setWatcherPermission", l, w, r)) = FlattenSeq(sends)
      /\ inTurn(ws, LAMBDA w : wait("setWatcherPermission", l, w, r)) = FlattenSeq(waits)
  BY DEF inTurn
<1> HIDE DEF T, sends, waits
<1>8. \A i \in DOMAIN ws : sends[i] \in T
  BY <1>2, <1>4, <1>6
<1>9. PICK a \in T : /\ a = FlattenSeq(sends)
                     /\ \A i \in DOMAIN ws : ToSet(sends[i]) \subseteq ToSet(a)
  BY <1>5, <1>8, TasksInTurn DEF T
<1>10. \A i \in DOMAIN ws : step("send", "setWatcherPermission", l, ws[i], r) \in ToSet(a)
  BY <1>2, <1>4, <1>6, <1>9
<1>11. ASSUME NEW i \in DOMAIN ws
       PROVE  /\ waits[i] \in Later(ToSet(a), {l}, odd)
              /\ waited("setWatcherPermission", l, ws[i], r) \in ToSet(waits[i])
  <2>1. PICK w \in Watchers : w = ws[i]
    BY <1>2
  <2>2. step("send", "setWatcherPermission", l, w, r) \in ToSet(a)
    BY <1>10, <2>1
  <2>3. PICK y \in Steps : /\ y = waited("setWatcherPermission", l, w, r) /\ y.on = l
                           /\ Orderly(y, ToSet(a)) /\ Tame(y)
    BY <1>3, <2>2, PlainWait
  <2>4. OrderlyTask(<<y>>, ToSet(a)) /\ <<y>> \in Seq(Steps) /\ ToSet(<<y>>) = {y}
    BY <2>3, OrderlySingle, SingleStep
  <2>5. <<y>> \in Later(ToSet(a), {l}, odd)
    BY <2>3, <2>4 DEF Later
  <2>6. waits[i] = <<y>>
    BY <1>6, <2>1, <2>3, Zenon DEF wait, waited
  <2> QED
    BY <2>1, <2>3, <2>4, <2>5, <2>6
<1>12. waits \in Seq(Later(ToSet(a), {l}, odd)) /\ DOMAIN waits = DOMAIN ws
  BY <1>5, <1>11, Mapped
<1>13. PICK b \in Later(ToSet(a), {l}, odd) : b = FlattenSeq(waits)
  BY <1>12, LaterBoth, FlatIn
<1>14. \A i \in DOMAIN ws : ToSet(waits[i]) \subseteq ToSet(b)
  <2>1. waits \in Seq(Seq(Steps))
    <3>1. \A i \in DOMAIN ws : waits[i] \in Seq(Steps)
      BY <1>11 DEF Later
    <3> QED
      BY <1>5, <3>1, Mapped
  <2> QED
    BY <1>12, <1>13, <2>1, FlatHas
<1>15. /\ a \in Seq(Steps) /\ OrderlyTask(a, {}) /\ \A x \in ToSet(a) : x.on \in {l} /\ (Tame(x) \/ x \in odd)
       /\ b \in Seq(Steps) /\ OrderlyTask(b, {} \cup ToSet(a))
       /\ \A x \in ToSet(b) : x.on \in {l} /\ (Tame(x) \/ x \in odd)
  <2>1. {} \cup ToSet(a) = ToSet(a)
    OBVIOUS
  <2> QED
    BY <2>1 DEF T, Tasks, Later
<1>16. /\ a \o b \in Seq(Steps) /\ ToSet(a \o b) = ToSet(a) \cup ToSet(b)
       /\ OrderlyTask(a \o b, {})
  BY <1>15, Joined, OrderlyBoth
<1>17. a \o b \in T
  BY <1>15, <1>16 DEF T, Tasks
<1>18. \A w \in Watchers : waited("setWatcherPermission", l, w, r) \in ToSet(a \o b)
  <2> TAKE w \in Watchers
  <2>1. PICK i \in DOMAIN ws : ws[i] = w
    BY <1>1 DEF ToSet
  <2> QED
    BY <1>11, <1>14, <1>16, <2>1
<1>19. enrollWatchers(l, r) = a \o b
  BY <1>1, <1>7, <1>9, <1>13, Zenon DEF enrollWatchers
<1> QED
  BY <1>17, <1>18, <1>19 DEF T

(* What enrollRemote has done when it is over. *)
Enrolled(l, r) ==
  {waited("ownerEnrollReplica", l, "XAppConnectionManager", r)}
    \cup {waited("setWatcherPermission", l, w, r) : w \in Watchers}

(* enrollRemote is a task, after which the Replica is enrolled and         *)
(* watched.                                                                *)
LEMMA EnrollRemoteTask ==
  ASSUME NEW l \in Chains, NEW r \in Chains, NEW odd
  PROVE  /\ enrollRemote(l, r) \in Tasks({l}, odd)
         /\ Enrolled(l, r) \subseteq ToSet(enrollRemote(l, r))
<1> DEFINE T == Tasks({l}, odd)
<1>1. PICK a \in T : a = deployUnenrolledReplica(l, r)
  BY UnenrolledTask
<1>2. PICK b \in T : /\ b = enrollReplica(l, r)
                     /\ waited("ownerEnrollReplica", l, "XAppConnectionManager", r) \in ToSet(b)
  BY EnrollReplicaTask
<1>3. PICK c \in T : /\ c = enrollWatchers(l, r)
                     /\ \A w \in Watchers : waited("setWatcherPermission", l, w, r) \in ToSet(c)
  BY EnrollWatchersTask
<1>4. PICK d \in T : d = enrollGovernanceRouter(l, r)
  BY EnrollGovernanceRouterTask
<1>5. PICK ab \in T : ab = a \o b /\ ToSet(ab) = ToSet(a) \cup ToSet(b)
  <2>1. a \o b \in T /\ ToSet(a \o b) = ToSet(a) \cup ToSet(b)
    BY TasksAfter
  <2> QED
    BY <2>1
<1>6. PICK abc \in T : abc = ab \o c /\ ToSet(abc) = ToSet(ab) \cup ToSet(c)
  <2>1. ab \o c \in T /\ ToSet(ab \o c) = ToSet(ab) \cup ToSet(c)
    BY TasksAfter
  <2> QED
    BY <2>1
<1>7. abc \o d \in T /\ ToSet(abc \o d) = ToSet(abc) \cup ToSet(d)
  BY TasksAfter
<1>8. enrollRemote(l, r) = abc \o d
  BY <1>1, <1>2, <1>3, <1>4, <1>5, <1>6, Zenon DEF enrollRemote
<1>9. Enrolled(l, r) \subseteq ToSet(b) \cup ToSet(c)
  BY <1>2, <1>3 DEF Enrolled
<1> QED
  BY <1>5, <1>6, <1>7, <1>8, <1>9

Comprises(S, xs, L, odd, f) ==
  \A x \in ToSet(xs) : ToSet(f[x]) \subseteq ToSet(FlattenSeq([i \in DOMAIN xs |-> f[xs[i]]]))

(* The tasks f[x], one after the other. *)
LEMMA TurnTask ==
  ASSUME NEW S, NEW xs \in Seq(S), NEW L, NEW odd, NEW f, \A x \in S : f[x] \in Tasks(L, odd)
  PROVE  /\ FlattenSeq([i \in DOMAIN xs |-> f[xs[i]]]) \in Tasks(L, odd)
         /\ Comprises(S, xs, L, odd, f)
<1> DEFINE qs == [i \in DOMAIN xs |-> f[xs[i]]]
<1>1. qs = [i \in DOMAIN xs |-> qs[i]] /\ \A i \in DOMAIN xs : qs[i] = f[xs[i]]
  OBVIOUS
<1>2. \A i \in DOMAIN xs : xs[i] \in S
  OBVIOUS
<1> HIDE DEF qs
<1>3. \A i \in DOMAIN xs : qs[i] \in Tasks(L, odd)
  BY <1>1, <1>2
<1>4. /\ FlattenSeq(qs) \in Tasks(L, odd)
      /\ \A i \in DOMAIN xs : ToSet(qs[i]) \subseteq ToSet(FlattenSeq(qs))
  BY <1>1, <1>3, TasksInTurn
<1>5. \A x \in ToSet(xs) : ToSet(f[x]) \subseteq ToSet(FlattenSeq(qs))
  <2> TAKE x \in ToSet(xs)
  <2>1. PICK i \in DOMAIN xs : xs[i] = x
    BY DEF ToSet
  <2> QED
    BY <1>1, <1>4, <2>1
<1> QED
  BY <1>4, <1>5 DEF qs, Comprises

(* A chain connects to others. *)
LEMMA ConnectTask ==
  ASSUME NEW l \in Chains, NEW rs \in Seq(Chains), NEW odd
  PROVE  /\ inTurn(rs, LAMBDA r : enrollRemote(l, r)) \in Tasks({l}, odd)
         /\ \A r \in ToSet(rs) : Enrolled(l, r) \subseteq ToSet(inTurn(rs, LAMBDA x : enrollRemote(l, x)))
<1> DEFINE f == [r \in Chains |-> enrollRemote(l, r)]
<1>1. \A r \in Chains : enrollRemote(l, r) \in Tasks({l}, odd) /\ Enrolled(l, r) \subseteq ToSet(enrollRemote(l, r))
  BY EnrollRemoteTask
<1>2. \A r \in Chains : f[r] = enrollRemote(l, r)
  OBVIOUS
<1>3. \A i \in DOMAIN rs : rs[i] \in Chains
  OBVIOUS
<1>4. [i \in DOMAIN rs |-> f[rs[i]]] = [i \in DOMAIN rs |-> enrollRemote(l, rs[i])]
  BY <1>3
<1>5. inTurn(rs, LAMBDA r : enrollRemote(l, r)) = FlattenSeq([i \in DOMAIN rs |-> f[rs[i]]])
  BY <1>4, Zenon DEF inTurn
<1> HIDE DEF f
<1>6. \A r \in Chains : f[r] \in Tasks({l}, odd)
  BY <1>1, <1>2
<1>7. /\ FlattenSeq([i \in DOMAIN rs |-> f[rs[i]]]) \in Tasks({l}, odd)
      /\ Comprises(Chains, rs, {l}, odd, f)
  BY <1>6, TurnTask
<1>8. ToSet(rs) \subseteq Chains
  BY SetOfSeq
<1>9. \A r \in ToSet(rs) : Enrolled(l, r) \subseteq ToSet(FlattenSeq([i \in DOMAIN rs |-> f[rs[i]]]))
  BY <1>1, <1>2, <1>7, <1>8 DEF Comprises
<1> QED
  BY <1>5, <1>7, <1>9

(* checkCoreDeploy is a task.                                              *)
LEMMA CheckTask ==
  ASSUME NEW l \in Chains, NEW rs \in Seq(Chains), NEW odd
  PROVE  checkCoreDeploy(l, rs) \in Tasks({l}, odd)
<1> DEFINE f == [r \in Chains |-> call("checkReplica", l, r)]
<1>1. \A r \in Chains : PlainCall("checkReplica", r)
  BY DEF PlainCall, CallOps, Checks
<1>2. \A r \in Chains : call("checkReplica", l, r) \in Tasks({l}, odd)
  BY <1>1, CallTask, Zenon
<1>3. PlainCall("checkCoreDeploy", None)
  BY DEF PlainCall
<1>4. call("checkCoreDeploy", l, None) \in Tasks({l}, odd)
  BY <1>3, CallTask, Zenon
<1>5. \A i \in DOMAIN rs : rs[i] \in Chains
  OBVIOUS
<1>6. [i \in DOMAIN rs |-> f[rs[i]]] = [i \in DOMAIN rs |-> call("checkReplica", l, rs[i])]
  BY <1>5
<1>7. inTurn(rs, LAMBDA r : call("checkReplica", l, r)) = FlattenSeq([i \in DOMAIN rs |-> f[rs[i]]])
  BY <1>6, Zenon DEF inTurn
<1>8. \A r \in Chains : f[r] \in Tasks({l}, odd)
  BY <1>2
<1> HIDE DEF f
<1>9. FlattenSeq([i \in DOMAIN rs |-> f[rs[i]]]) \in Tasks({l}, odd)
  BY <1>8, TurnTask
<1>10. FlattenSeq([i \in DOMAIN rs |-> f[rs[i]]]) \o call("checkCoreDeploy", l, None) \in Tasks({l}, odd)
  BY <1>4, <1>9, TasksBoth
<1> QED
  BY <1>7, <1>10, Zenon DEF checkCoreDeploy

(* writeOutput is a task.                                                  *)
LEMMA OutputTask ==
  ASSUME NEW l \in Chains, NEW rs \in Seq(Chains), NEW odd
  PROVE  writeOutput(l, rs) \in Tasks({l}, odd)
<1> DEFINE f == [r \in Chains |-> call("writeReplica", l, r)]
<1>1. \A r \in Chains : PlainCall("writeReplica", r)
  BY DEF PlainCall, CallOps
<1>2. \A r \in Chains : call("writeReplica", l, r) \in Tasks({l}, odd)
  BY <1>1, CallTask, Zenon
<1>3. PlainCall("writeOutput", None)
  BY DEF PlainCall
<1>4. call("writeOutput", l, None) \in Tasks({l}, odd)
  BY <1>3, CallTask, Zenon
<1>5. \A i \in DOMAIN rs : rs[i] \in Chains
  OBVIOUS
<1>6. [i \in DOMAIN rs |-> f[rs[i]]] = [i \in DOMAIN rs |-> call("writeReplica", l, rs[i])]
  BY <1>5
<1>7. inTurn(rs, LAMBDA r : call("writeReplica", l, r)) = FlattenSeq([i \in DOMAIN rs |-> f[rs[i]]])
  BY <1>6, Zenon DEF inTurn
<1>8. \A r \in Chains : f[r] \in Tasks({l}, odd)
  BY <1>2
<1> HIDE DEF f
<1>9. FlattenSeq([i \in DOMAIN rs |-> f[rs[i]]]) \in Tasks({l}, odd)
  BY <1>8, TurnTask
<1>10. call("writeOutput", l, None) \o FlattenSeq([i \in DOMAIN rs |-> f[rs[i]]]) \in Tasks({l}, odd)
  BY <1>4, <1>9, TasksBoth
<1> QED
  BY <1>7, <1>10, Zenon DEF writeOutput

(* Tasks of single chains are tasks of all. *)
LEMMA AnyChain == \A l \in Chains : \A odd : Tasks({l}, odd) \subseteq Tasks(Chains, odd)
BY TasksOfMore

(* appointGovernor is a task.                                              *)
LEMMA AppointTask == \A odd : appointGovernor \in Tasks({Hub}, odd)
<1> TAKE odd
<1>0. Hub \in Chains
  BY DeployAssumption
<1>10. "transferGovernor" \in Ops /\ "governor" \in Names
  BY Zenon DEF Ops, Names, Accounts
<1>1. PICK x \in Steps : /\ x = step("send", "transferGovernor", Hub, "governor", Hub)
                         /\ x.kind = "send" /\ x.op = "transferGovernor" /\ x.on = Hub
                         /\ x.name = "governor" /\ x.remote = Hub
  BY <1>0, <1>10, StepIn, StepFields
<1>2. PICK y \in Steps : /\ y = waited("transferGovernor", Hub, "governor", Hub)
                         /\ y.kind = "wait" /\ y.op = "transferGovernor" /\ y.on = Hub
  BY <1>0, <1>10, StepIn, StepFields DEF waited
<1>3. sent(y) = x
  BY <1>1, <1>2, SentIs
<1>4. Orderly(x, {}) /\ Tame(x)
  BY <1>1 DEF Orderly, SoundTx, SoundCall, isSend, isCall, Checks, Accounts,
              Tame, HandsOver, IsReplicaProxy, DeploysHome
<1>5. SoundTx(y) /\ SoundCall(y) /\ Tame(y)
  BY <1>2 DEF SoundTx, SoundCall, isSend, isCall, Checks,
              Tame, HandsOver, IsReplicaProxy, DeploysHome
<1>6. OrderlyTask(<<x>> \o <<y>>, {})
  BY <1>2, <1>3, <1>4, <1>5, OrderlyPair
<1>7. <<x>> \o <<y>> \in Seq(Steps) /\ ToSet(<<x>> \o <<y>>) = {x, y}
  BY PairOf
<1>8. <<x>> \o <<y>> \in Tasks({Hub}, odd)
  BY <1>1, <1>2, <1>4, <1>5, <1>6, <1>7 DEF Tasks
<1>9. appointGovernor = <<x>> \o <<y>>
  BY <1>1, <1>2, Zenon DEF appointGovernor, sendAndWait, send, wait, waited
<1> QED
  BY <1>8, <1>9

(* deployBridge is a task.                                                 *)
LEMMA BridgeTask ==
  ASSUME NEW l \in Chains, NEW odd
  PROVE  deployBridge(l) \in Tasks({l}, odd)
<1> DEFINE T == Tasks({l}, odd)
<1>0. \A q, r \in T : q \o r \in T
  BY TasksBoth
<1>1. PICK a \in T : a = deployTokenUpgradeBeacon(l)
  BY ProxyTask DEF deployTokenUpgradeBeacon, PlainTx, TxOps, Names, Fine
<1>2. PICK b \in T : b = deployTokenRegistry(l)
  BY ProxyTask DEF deployTokenRegistry, PlainTx, TxOps, Names, Fine
<1>3. PICK c \in T : c = deployBridgeRouter(l)
  BY ProxyTask DEF deployBridgeRouter, PlainTx, TxOps, Names, Fine
<1>4. sendAndWait("deploy", l, "EthHelper", None) \in T
  BY AwaitedTask DEF PlainTx, TxOps, Names, Fine
<1>5. PICK d \in T : d = deployEthHelper(l)
  BY <1>4, NoTask DEF deployEthHelper
<1>6. a \o b \o c \o d \in T
  <2> HIDE DEF T
  <2> QED
    BY <1>0
<1> QED
  BY <1>1, <1>2, <1>3, <1>5, <1>6, Zenon DEF deployBridge

(* deployCustoms is a task.                                                *)
LEMMA CustomsTask ==
  ASSUME NEW l \in Chains, NEW odd
  PROVE  deployCustoms(l) \in Tasks({l}, odd)
<1> DEFINE T == Tasks({l}, odd)
<1>0. \A q, r \in T : q \o r \in T
  BY TasksBoth
<1>1. PICK a \in T : a = sendAndWait("deploy", l, "CustomController", None)
  BY AwaitedTask DEF PlainTx, TxOps, Names, Fine
<1>2. PICK b \in T : b = sendAndWait("transferOwnership", l, "CustomController", None)
  BY AwaitedTask DEF PlainTx, TxOps, Names, Fine
<1>3. PICK c \in T : c = sendAndWait("Beacon", l, "CustomToken", None)
  BY AwaitedTask DEF PlainTx, TxOps, Names, Fine
<1>4. PICK d \in T : d = sendAndWait("Proxy", l, "CustomToken", None)
  BY AwaitedTask DEF PlainTx, TxOps, Names, Fine
<1>5. PICK e \in T : e = send("initialize", l, "CustomToken", None)
  BY SendTask DEF PlainTx, TxOps, Names, Fine
<1>6. PICK f \in T : f = sendAndWait("setDetails", l, "CustomToken", None)
  BY AwaitedTask DEF PlainTx, TxOps, Names, Fine
<1>7. PICK g \in T : g = sendAndWait("transferOwnership", l, "CustomToken", None)
  BY AwaitedTask DEF PlainTx, TxOps, Names, Fine
<1>8. PICK h \in T : h = sendAndWait("enrollCustom", l, "TokenRegistry", None)
  BY AwaitedTask DEF PlainTx, TxOps, Names, Fine
<1>9. a \o b \o c \o d \o e \o f \o g \o h \in T
  <2> HIDE DEF T
  <2> QED
    BY <1>0
<1>10. deployCustoms(l) = IF l \in Customs THEN a \o b \o c \o d \o e \o f \o g \o h ELSE << >>
  BY <1>1, <1>2, <1>3, <1>4, <1>5, <1>6, <1>7, <1>8, Zenon DEF deployCustoms
<1> QED
  BY <1>9, <1>10, NoTask

(* enrollBridgeRouter is a task.                                           *)
LEMMA EnrollBridgeRouterTask ==
  ASSUME NEW l \in Chains, NEW r \in Chains, NEW odd
  PROVE  enrollBridgeRouter(l, r) \in Tasks({l}, odd)
<1>1. PlainTx("enrollRemoteRouter", "BridgeRouter", r) /\ Fine("enrollRemoteRouter", "BridgeRouter", odd)
  BY DEF PlainTx, TxOps, Names, Fine
<1> QED
  BY <1>1, AwaitedTask, Zenon DEF enrollBridgeRouter

(* enrollAllBridgeRouters is a task.                                       *)
LEMMA EnrollAllTask ==
  ASSUME NEW l \in Chains, NEW ds \in Seq(Chains), NEW odd
  PROVE  enrollAllBridgeRouters(l, ds) \in Tasks({l}, odd)
<1> DEFINE f == [r \in Chains |-> enrollBridgeRouter(l, r)]
<1>1. PICK rs \in Seq(Chains) : rs = others(ds, l)
  BY AllButOne
<1>2. \A r \in Chains : enrollBridgeRouter(l, r) \in Tasks({l}, odd)
  BY EnrollBridgeRouterTask
<1>3. \A i \in DOMAIN rs : rs[i] \in Chains
  OBVIOUS
<1>4. [i \in DOMAIN rs |-> f[rs[i]]] = [i \in DOMAIN rs |-> enrollBridgeRouter(l, rs[i])]
  BY <1>3
<1>5. inTurn(rs, LAMBDA r : enrollBridgeRouter(l, r)) = FlattenSeq([i \in DOMAIN rs |-> f[rs[i]]])
  BY <1>4, Zenon DEF inTurn
<1>6. \A r \in Chains : f[r] \in Tasks({l}, odd)
  BY <1>2
<1> HIDE DEF f
<1>7. FlattenSeq([i \in DOMAIN rs |-> f[rs[i]]]) \in Tasks({l}, odd)
  BY <1>6, TurnTask
<1> QED
  BY <1>1, <1>5, <1>7, Zenon DEF enrollAllBridgeRouters

(* transferOwnershipOfBridge is a task.                                    *)
LEMMA GiveBridgeTask ==
  ASSUME NEW l \in Chains, NEW odd
  PROVE  transferOwnershipOfBridge(l) \in Tasks({l}, odd)
<1> DEFINE T == Tasks({l}, odd)
<1>1. PICK a \in T : a = sendAndWait("transferOwnership", l, "TokenRegistry", None)
  BY AwaitedTask DEF PlainTx, TxOps, Names, Fine
<1>2. PICK b \in T : b = sendAndWait("transferOwnership", l, "BridgeRouter", None)
  BY AwaitedTask DEF PlainTx, TxOps, Names, Fine
<1>3. a \o b \in T
  BY TasksBoth
<1> QED
  BY <1>1, <1>2, <1>3, Zenon DEF transferOwnershipOfBridge

(* checkBridgeDeployValues is a task.                                      *)
LEMMA CheckBridgeTask ==
  ASSUME NEW l \in Chains, NEW odd
  PROVE  checkBridgeDeployValues(l) \in Tasks({l}, odd)
<1>1. PlainCall("checkBridgeDeployValues", None)
  BY DEF PlainCall
<1> QED
  BY <1>1, CallTask, Zenon DEF checkBridgeDeployValues

(* Checks of a connection, and the enrolment of a spoke, one task each.    *)
LEMMA HubCallTask ==
  ASSUME NEW r \in Chains, NEW odd,
         NEW op \in {"enrollSpoke", "enrollSpokeInDev", "checkHubToSpokeConnectionWithWaiter",
                     "checkHubAndSpokeBridgeConnections", "checkHubAndSpokeConnections"}
  PROVE  call(op, Hub, r) \in Tasks({Hub}, odd)
<1>1. PlainCall(op, r)
  BY DEF PlainCall, CallOps, Checks
<1> QED
  BY <1>1, DeployAssumption, CallTask

(* The checks of the Hub's bridge connections are a task.                  *)
LEMMA BridgeChecksTask ==
  ASSUME NEW rs \in Seq(Chains), NEW odd
  PROVE  inTurn(rs, LAMBDA r : call("checkHubAndSpokeBridgeConnections", Hub, r)) \in Tasks({Hub}, odd)
<1> DEFINE f == [r \in Chains |-> call("checkHubAndSpokeBridgeConnections", Hub, r)]
<1>1. \A r \in Chains : call("checkHubAndSpokeBridgeConnections", Hub, r) \in Tasks({Hub}, odd)
  BY HubCallTask
<1>2. \A i \in DOMAIN rs : rs[i] \in Chains
  OBVIOUS
<1>3. [i \in DOMAIN rs |-> f[rs[i]]]
        = [i \in DOMAIN rs |-> call("checkHubAndSpokeBridgeConnections", Hub, rs[i])]
  BY <1>2
<1>4. inTurn(rs, LAMBDA r : call("checkHubAndSpokeBridgeConnections", Hub, r))
        = FlattenSeq([i \in DOMAIN rs |-> f[rs[i]]])
  BY <1>3, Zenon DEF inTurn
<1>5. \A r \in Chains : f[r] \in Tasks({Hub}, odd)
  BY <1>1
<1> HIDE DEF f
<1>6. FlattenSeq([i \in DOMAIN rs |-> f[rs[i]]]) \in Tasks({Hub}, odd)
  BY <1>5, TurnTask
<1> QED
  BY <1>4, <1>6

(***************************************************************************)
(* Scripts one after the other                                             *)
(***************************************************************************)

stepsIn(s) == UNION {stepsOf(s[p]) : p \in DOMAIN s}

(* What the scripts require of the order of their steps. *)
Discipline == HandOver \cup Indexing

(* A script that may run when done is done. *)
Fits(requires, s, done) ==
  /\ s \in Seq(Phases) /\ OrderlyScript(s) /\ GrowsInTurn(s)
  /\ MeetsScript(requires, s, done)

(* A phase that may run may run when more is done.                         *)
LEMMA MeetsMore ==
  ASSUME NEW requires, NEW ph, NEW done, NEW more, done \subseteq more, MeetsPhase(requires, ph, done)
  PROVE  MeetsPhase(requires, ph, more)
BY DEF MeetsPhase, MeetsTask, Meets

(* A script that may run may run when more is done.                        *)
LEMMA FitsMore ==
  ASSUME NEW requires, NEW s, NEW done, NEW more, done \subseteq more, Fits(requires, s, done)
  PROVE  Fits(requires, s, more)
<1>1. ASSUME NEW p \in DOMAIN s PROVE MeetsPhase(requires, s[p], stepsBefore(s, p) \cup more)
  <2>1. MeetsPhase(requires, s[p], stepsBefore(s, p) \cup done)
    BY DEF Fits, MeetsScript
  <2>2. stepsBefore(s, p) \cup done \subseteq stepsBefore(s, p) \cup more
    OBVIOUS
  <2> QED
    BY <2>1, <2>2, MeetsMore
<1> QED
  BY <1>1 DEF Fits, MeetsScript

(* A script that may run may run when less is required.                    *)
LEMMA FitsLess ==
  ASSUME NEW requires, NEW s, NEW done, NEW fewer, fewer \subseteq requires, Fits(requires, s, done)
  PROVE  Fits(fewer, s, done)
<1>1. ASSUME NEW p \in DOMAIN s PROVE MeetsPhase(fewer, s[p], stepsBefore(s, p) \cup done)
  <2>1. MeetsPhase(requires, s[p], stepsBefore(s, p) \cup done)
    BY DEF Fits, MeetsScript
  <2> QED
    BY <2>1 DEF MeetsPhase, MeetsTask, Meets
<1> QED
  BY <1>1 DEF Fits, MeetsScript

(* A phase of two scripts in turn is one of the first, or one of the       *)
(* second that comes after all of the first.                               *)
LEMMA ScriptsBoth ==
  ASSUME NEW s \in Seq(Phases), NEW r \in Seq(Phases)
  PROVE  /\ s \o r \in Seq(Phases) /\ stepsIn(s \o r) = stepsIn(s) \cup stepsIn(r)
         /\ \A p \in DOMAIN (s \o r) :
              \/ /\ p \in DOMAIN s /\ (s \o r)[p] = s[p]
                 /\ stepsBefore(s, p) \subseteq stepsBefore(s \o r, p)
              \/ \E j \in DOMAIN r : /\ (s \o r)[p] = r[j]
                                     /\ stepsIn(s) \cup stepsBefore(r, j) \subseteq stepsBefore(s \o r, p)
<1>1. PICK m \in Nat : m = Len(s)
  OBVIOUS
<1>2. PICK n \in Nat : n = Len(r)
  OBVIOUS
<1>3. s \o r \in Seq(Phases) /\ Len(s \o r) = Len(s) + Len(r)
  OBVIOUS
<1>4. PICK b \in Seq(Phases) : b = s \o r /\ Len(b) = m + n
  BY <1>1, <1>2, <1>3
<1>5. \A i \in 1 .. m : b[i] = s[i]
  BY <1>1, <1>4
<1>6. \A j \in 1 .. n : b[m + j] = r[j]
  BY <1>1, <1>2, <1>4
<1>7. DOMAIN b = 1 .. m + n /\ DOMAIN s = 1 .. m /\ DOMAIN r = 1 .. n
  BY <1>1, <1>2, <1>4
<1>8. \A p \in 1 .. m + n : p \in 1 .. m \/ \E j \in 1 .. n : p = m + j
  <2> TAKE p \in 1 .. m + n
  <2>1. p \in 1 .. m \/ (p - m \in 1 .. n /\ p = m + (p - m))
    OBVIOUS
  <2> QED
    BY <2>1
<1>9. \A i \in 1 .. m : i \in 1 .. m + n
  OBVIOUS
<1>10. \A j \in 1 .. n : m + j \in 1 .. m + n
  OBVIOUS
<1>11. stepsIn(b) = stepsIn(s) \cup stepsIn(r)
  <2>1. stepsIn(b) \subseteq stepsIn(s) \cup stepsIn(r)
    <3>1. \A i \in 1 .. m : stepsOf(b[i]) \subseteq stepsIn(s)
      BY <1>5, <1>7 DEF stepsIn
    <3>2. \A j \in 1 .. n : stepsOf(b[m + j]) \subseteq stepsIn(r)
      BY <1>6, <1>7 DEF stepsIn
    <3>3. \A p \in 1 .. m + n : stepsOf(b[p]) \subseteq stepsIn(s) \cup stepsIn(r)
      BY <1>8, <3>1, <3>2
    <3> QED
      BY <1>7, <3>3 DEF stepsIn
  <2>2. stepsIn(s) \subseteq stepsIn(b)
    BY <1>5, <1>7, <1>9 DEF stepsIn
  <2>3. stepsIn(r) \subseteq stepsIn(b)
    BY <1>6, <1>7, <1>10 DEF stepsIn
  <2> QED
    BY <2>1, <2>2, <2>3
<1>12. ASSUME NEW p \in 1 .. m PROVE stepsBefore(s, p) \subseteq stepsBefore(b, p)
  <2>1. \A i \in 1 .. p - 1 : i \in 1 .. m
    OBVIOUS
  <2> QED
    BY <1>5, <2>1 DEF stepsBefore
<1>13. ASSUME NEW j \in 1 .. n
       PROVE  stepsIn(s) \cup stepsBefore(r, j) \subseteq stepsBefore(b, m + j)
  <2>1. \A i \in 1 .. m : i \in 1 .. (m + j) - 1
    OBVIOUS
  <2>2. \A i \in 1 .. j - 1 : i \in 1 .. n /\ m + i \in 1 .. (m + j) - 1
    OBVIOUS
  <2>3. stepsIn(s) \subseteq stepsBefore(b, m + j)
    BY <1>5, <1>7, <2>1 DEF stepsIn, stepsBefore
  <2>4. stepsBefore(r, j) \subseteq stepsBefore(b, m + j)
    BY <1>6, <2>2 DEF stepsBefore
  <2> QED
    BY <2>3, <2>4
<1>14. ASSUME NEW p \in DOMAIN b
       PROVE  \/ /\ p \in DOMAIN s /\ b[p] = s[p]
                 /\ stepsBefore(s, p) \subseteq stepsBefore(b, p)
              \/ \E j \in DOMAIN r : /\ b[p] = r[j]
                                     /\ stepsIn(s) \cup stepsBefore(r, j) \subseteq stepsBefore(b, p)
  <2>1. CASE p \in 1 .. m
    BY <1>5, <1>7, <1>12, <2>1
  <2>2. CASE p \notin 1 .. m
    <3>1. PICK j \in 1 .. n : p = m + j
      BY <1>7, <1>8, <2>2
    <3> QED
      BY <1>6, <1>7, <1>13, <3>1
  <2> QED
    BY <2>1, <2>2
<1> QED
  BY <1>4, <1>11, <1>14

Both(requires, s, r, done) ==
  Fits(requires, s \o r, done) /\ stepsIn(s \o r) = stepsIn(s) \cup stepsIn(r)

(* One script after the other. *)
LEMMA FitsThen ==
  ASSUME NEW requires, NEW done, NEW s, NEW r,
         Fits(requires, s, done), Fits(requires, r, done \cup stepsIn(s))
  PROVE  Both(requires, s, r, done)
<1>1. s \in Seq(Phases) /\ r \in Seq(Phases)
  BY DEF Fits
<1>0. s \o r \in Seq(Phases)
  BY <1>1
<1>2. PICK b \in Seq(Phases) : b = s \o r
  BY <1>0
<1>3. /\ stepsIn(b) = stepsIn(s) \cup stepsIn(r)
      /\ \A p \in DOMAIN b :
              \/ /\ p \in DOMAIN s /\ b[p] = s[p]
                 /\ stepsBefore(s, p) \subseteq stepsBefore(b, p)
              \/ \E j \in DOMAIN r : /\ b[p] = r[j]
                                     /\ stepsIn(s) \cup stepsBefore(r, j) \subseteq stepsBefore(b, p)
  BY <1>1, <1>2, ScriptsBoth
<1>4. OrderlyScript(b)
  BY <1>3 DEF OrderlyScript, Fits
<1>5. GrowsInTurn(b)
  BY <1>3 DEF GrowsInTurn, Fits
<1>6. ASSUME NEW p \in DOMAIN b PROVE MeetsPhase(requires, b[p], stepsBefore(b, p) \cup done)
  <2>1. ASSUME p \in DOMAIN s, b[p] = s[p], stepsBefore(s, p) \subseteq stepsBefore(b, p)
        PROVE  MeetsPhase(requires, b[p], stepsBefore(b, p) \cup done)
    <3>1. MeetsPhase(requires, s[p], stepsBefore(s, p) \cup done)
      BY <2>1 DEF Fits, MeetsScript
    <3>2. stepsBefore(s, p) \cup done \subseteq stepsBefore(b, p) \cup done
      BY <2>1
    <3> QED
      BY <2>1, <3>1, <3>2, MeetsMore
  <2>2. ASSUME NEW j \in DOMAIN r, b[p] = r[j],
               stepsIn(s) \cup stepsBefore(r, j) \subseteq stepsBefore(b, p)
        PROVE  MeetsPhase(requires, b[p], stepsBefore(b, p) \cup done)
    <3>1. MeetsPhase(requires, r[j], stepsBefore(r, j) \cup (done \cup stepsIn(s)))
      BY <2>2 DEF Fits, MeetsScript
    <3>2. stepsBefore(r, j) \cup (done \cup stepsIn(s)) \subseteq stepsBefore(b, p) \cup done
      BY <2>2
    <3> QED
      BY <2>2, <3>1, <3>2, MeetsMore
  <2> QED
    BY <1>3, <2>1, <2>2
<1> QED
  BY <1>2, <1>3, <1>4, <1>5, <1>6 DEF Both, Fits, MeetsScript

(* The script without phases.                                              *)
LEMMA NoScript ==
  \A requires, done : Fits(requires, << >>, done) /\ stepsIn(<< >>) = {}
<1>1. << >> \in Seq(Phases) /\ DOMAIN << >> = {}
  BY NoneOf
<1> QED
  BY <1>1 DEF Fits, OrderlyScript, GrowsInTurn, MeetsScript, stepsIn

(***************************************************************************)
(* Scripts of one phase                                                    *)
(***************************************************************************)

(* Steps that are not a Replica's, which the scripts leave to their calls. *)
Odd == {x \in Steps : ~IsReplicaProxy(x) /\ ~isCall(x, "assignReplica")}

(* Only odd steps require anything.                                        *)
LEMMA TaskMeets ==
  ASSUME NEW requires, requires \subseteq Discipline, NEW L, NEW odd, NEW q \in Tasks(L, odd), NEW done,
         \A x \in odd : x.on \in L => Meets(requires, x, done)
  PROVE  MeetsTask(requires, q, done)
<1> SUFFICES ASSUME NEW i \in DOMAIN q PROVE Meets(requires, q[i], before(q, i) \cup done)
  BY DEF MeetsTask
<1>1. PICK x \in ToSet(q) : x = q[i]
  BY DEF ToSet
<1>2. x.on \in L /\ (Tame(x) \/ x \in odd)
  BY DEF Tasks
<1>3. CASE Tame(x)
  BY <1>1, <1>3 DEF Tame, Meets, Discipline, HandOver, Indexing
<1>4. CASE x \in odd
  BY <1>1, <1>2, <1>4 DEF Meets
<1> QED
  BY <1>2, <1>3, <1>4

(* A phase of tasks on chains of their own, or of one task, is a script.   *)
LEMMA PhaseFits ==
  ASSUME NEW requires, NEW done, NEW ph \in Phases, NEW odd \in SUBSET Odd,
         \A t \in DOMAIN ph : \E L : ph[t] \in Tasks(L, odd) /\ MeetsTask(requires, ph[t], done),
         (\A t \in DOMAIN ph : ph[t] \in Tasks({t}, odd)) \/ (\A t, u \in DOMAIN ph : t = u)
  PROVE  Fits(requires, <<ph>>, done) /\ stepsIn(<<ph>>) = stepsOf(ph)
<1>0. <<ph>> \in Seq(Phases) /\ Len(<<ph>>) = 1 /\ <<ph>>[1] = ph
  OBVIOUS
<1>1. PICK s \in Seq(Phases) : s = <<ph>> /\ Len(s) = 1 /\ s[1] = ph
  BY <1>0
<1>2. DOMAIN s = {1}
  BY <1>1
<1>3. stepsIn(s) = stepsOf(ph)
  BY <1>1, <1>2 DEF stepsIn
<1>4. OrderlyScript(s)
  BY <1>1, <1>2 DEF OrderlyScript, Tasks
<1>5. \A x \in stepsOf(ph) : ~IsReplicaProxy(x) /\ ~isCall(x, "assignReplica")
  BY DEF stepsOf, Tasks, Tame, Odd
<1>6. ASSUME NEW l \in Chains, NEW t \in DOMAIN ph, NEW u \in DOMAIN ph,
             \E x \in ToSet(ph[t]) : Deploys(x, l), \E x \in ToSet(ph[u]) : Deploys(x, l)
      PROVE  t = u
  <2>1. CASE \A v \in DOMAIN ph : ph[v] \in Tasks({v}, odd)
    <3>1. \A v \in DOMAIN ph : \A x \in ToSet(ph[v]) : x.on = v
      BY <2>1 DEF Tasks
    <3> QED
      BY <1>6, <3>1 DEF Deploys
  <2> QED
    BY <2>1
<1>7. GrowsInTurn(s)
  BY <1>1, <1>2, <1>5, <1>6 DEF GrowsInTurn, OneDeployer
<1>8. MeetsPhase(requires, ph, done)
  BY DEF MeetsPhase
<1>9. MeetsScript(requires, s, done)
  BY <1>1, <1>2, <1>8, MeetsMore DEF MeetsScript
<1> QED
  BY <1>1, <1>3, <1>4, <1>7, <1>9 DEF Fits

(* A task on each chain of L. *)
LEMMA AllFits ==
  ASSUME NEW requires, requires \subseteq Discipline, NEW done, NEW L \in SUBSET Chains,
         NEW odd \in SUBSET Odd, NEW ph, ph = [l \in L |-> ph[l]],
         \A l \in L : ph[l] \in Tasks({l}, odd),
         \A x \in odd : x.on \in L => Meets(requires, x, done)
  PROVE  /\ Fits(requires, <<ph>>, done) /\ stepsIn(<<ph>>) = stepsOf(ph)
         /\ \A l \in L : ToSet(ph[l]) \subseteq stepsOf(ph)
<1>1. \A l \in L : ph[l] \in Seq(Steps)
  BY DEF Tasks
<1>2. ph \in [L -> Seq(Steps)] /\ DOMAIN ph = L
  BY <1>1
<1>3. ph \in Phases
  BY <1>2 DEF Phases
<1>4. ASSUME NEW l \in L PROVE MeetsTask(requires, ph[l], done)
  <2>1. PICK q \in Tasks({l}, odd) : q = ph[l]
    OBVIOUS
  <2>2. \A x \in odd : x.on \in {l} => Meets(requires, x, done)
    OBVIOUS
  <2>3. MeetsTask(requires, q, done)
    BY <2>2, TaskMeets
  <2> QED
    BY <2>1, <2>3
<1>7. \A t \in DOMAIN ph : \E K : ph[t] \in Tasks(K, odd) /\ MeetsTask(requires, ph[t], done)
  BY <1>2, <1>4
<1>8. \A t \in DOMAIN ph : ph[t] \in Tasks({t}, odd)
  BY <1>2
<1>5. Fits(requires, <<ph>>, done) /\ stepsIn(<<ph>>) = stepsOf(ph)
  BY <1>3, <1>7, <1>8, PhaseFits
<1>6. \A l \in L : ToSet(ph[l]) \subseteq stepsOf(ph)
  BY <1>2 DEF stepsOf
<1> QED
  BY <1>5, <1>6

(* A phase of one task is a script.                                        *)
LEMMA AloneFits ==
  ASSUME NEW requires, NEW done, NEW odd \in SUBSET Odd, NEW q \in Tasks(Chains, odd),
         MeetsTask(requires, q, done)
  PROVE  Fits(requires, alone(q), done) /\ stepsIn(alone(q)) = ToSet(q)
<1>1. PICK ph : ph = [l \in {Hub} |-> q]
  OBVIOUS
<1>2. q \in Seq(Steps)
  BY DEF Tasks
<1>3. ph \in [{Hub} -> Seq(Steps)] /\ DOMAIN ph = {Hub} /\ ph[Hub] = q
  BY <1>1, <1>2
<1>4. ph \in Phases
  BY <1>3, DeployAssumption DEF Phases
<1>5. Fits(requires, <<ph>>, done) /\ stepsIn(<<ph>>) = stepsOf(ph)
  BY <1>3, <1>4, PhaseFits
<1>6. stepsOf(ph) = ToSet(q)
  BY <1>3 DEF stepsOf
<1> QED
  BY <1>1, <1>5, <1>6, Zenon DEF alone

(* Steps that hand governorship over, and that record blocks. *)
Handing == {x \in Steps : isCall(x, "transferGovernorship")}

Records == {x \in Steps : isCall(x, "recordFromBlock")}

Quiet(s) == \A x \in stepsIn(s) : ~isCall(x, "recordFromBlock")

(* Scripts that touch no core contract that others rest on. *)
Calm == {s \in Seq(Phases) : Fits(Discipline, s, {}) /\ Quiet(s)}

(* Homes, records and the calls that hand over are not of a Replica.       *)
LEMMA OddOnes == Homes \subseteq Odd /\ Handing \subseteq Odd /\ Records \subseteq Odd
BY DEF Homes, Handing, Records, Odd, DeploysHome, IsReplicaProxy, isCall

(* Recording a block requires nothing.                                     *)
LEMMA RecordsMeet == \A done : \A x \in Records : Meets(Discipline, x, done)
BY DEF Records, Meets, Discipline, HandOver, Indexing, HandsOver, DeploysHome, isCall, isSend

(* Deploying a Home requires that its block is recorded.                   *)
LEMMA HomesMeet ==
  \A done : \A x \in Homes :
    /\ Meets(HandOver, x, done)
    /\ recordedBlock(x.on) \in done => Meets(Discipline, x, done)
BY DEF Homes, Meets, Discipline, HandOver, Indexing, HandsOver, DeploysHome, isCall, isSend

(* Handing a chain over requires that the Hub can speak for it.            *)
LEMMA HandingMeets ==
  \A done : \A x \in Handing : ToHandOver(x.on) \subseteq done => Meets(Discipline, x, done)
BY DEF Handing, Meets, Discipline, HandOver, Indexing, HandsOver, DeploysHome, isCall, isSend

(* Calm scripts in turn are calm.                                          *)
LEMMA CalmBoth == << >> \in Calm /\ \A s, r \in Calm : s \o r \in Calm
<1>1. << >> \in Calm
  BY NoScript, NoneOf DEF Calm, Quiet
<1>2. ASSUME NEW s \in Calm, NEW r \in Calm PROVE s \o r \in Calm
  <2>0. PICK done : done = {}
    OBVIOUS
  <2>5. Fits(Discipline, s, done) /\ Fits(Discipline, r, done)
    BY <2>0 DEF Calm
  <2>6. done \subseteq done \cup stepsIn(s)
    OBVIOUS
  <2>1. Fits(Discipline, s, done) /\ Fits(Discipline, r, done \cup stepsIn(s))
    BY <2>5, <2>6, FitsMore
  <2>4. Both(Discipline, s, r, done)
    BY <2>1, FitsThen
  <2>2. Fits(Discipline, s \o r, {}) /\ stepsIn(s \o r) = stepsIn(s) \cup stepsIn(r)
    BY <2>0, <2>4 DEF Both
  <2>3. s \o r \in Seq(Phases)
    BY <2>2 DEF Fits
  <2> QED
    BY <2>2, <2>3 DEF Calm, Quiet
<1> QED
  BY <1>1, <1>2

(* A phase of calm tasks on chains of their own is calm.                   *)
LEMMA CalmAll ==
  ASSUME NEW L \in SUBSET Chains, NEW ph, ph = [l \in L |-> ph[l]],
         \A l \in L : ph[l] \in Tasks({l}, {})
  PROVE  <<ph>> \in Calm /\ \A l \in L : ToSet(ph[l]) \subseteq stepsIn(<<ph>>)
<1>1. {} \in SUBSET Odd /\ Discipline \subseteq Discipline
      /\ \A x \in {} : x.on \in L => Meets(Discipline, x, {})
  OBVIOUS
<1>2. /\ Fits(Discipline, <<ph>>, {}) /\ stepsIn(<<ph>>) = stepsOf(ph)
      /\ \A l \in L : ToSet(ph[l]) \subseteq stepsOf(ph)
  BY <1>1, AllFits
<1>3. \A x \in stepsOf(ph) : ~isCall(x, "recordFromBlock")
  <2>1. DOMAIN ph = L
    OBVIOUS
  <2> QED
    BY <2>1 DEF stepsOf, Tasks, Tame
<1>4. <<ph>> \in Seq(Phases)
  BY <1>2 DEF Fits
<1> QED
  BY <1>2, <1>3, <1>4 DEF Calm, Quiet

(* A phase of one calm task is calm.                                       *)
LEMMA CalmAlone ==
  ASSUME NEW q \in Tasks(Chains, {})
  PROVE  alone(q) \in Calm /\ stepsIn(alone(q)) = ToSet(q)
<1>1. MeetsTask(Discipline, q, {})
  BY TaskMeets
<1>2. Fits(Discipline, alone(q), {}) /\ stepsIn(alone(q)) = ToSet(q)
  BY <1>1, AloneFits
<1>3. alone(q) \in Seq(Phases)
  BY <1>2 DEF Fits
<1> QED
  BY <1>2, <1>3 DEF Calm, Quiet, Tasks, Tame

(* The call that records a block is a task.                                *)
LEMMA RecordTask ==
  ASSUME NEW l \in Chains
  PROVE  /\ call("recordFromBlock", l, None) \in Tasks({l}, Records)
         /\ recordedBlock(l) \in ToSet(call("recordFromBlock", l, None))
<1>0. PICK name \in Names : name = ""
  BY Zenon DEF Names
<1>1. PICK x \in Steps : /\ x = step("call", "recordFromBlock", l, name, None)
                         /\ x.kind = "call" /\ x.op = "recordFromBlock" /\ x.on = l
  BY StepIn, StepFields DEF Ops
<1>2. Orderly(x, {}) /\ x \in Records
  BY <1>1 DEF Orderly, SoundTx, SoundCall, isSend, isCall, Records, Checks
<1>3. <<x>> \in Tasks({l}, Records) /\ ToSet(<<x>>) = {x}
  BY <1>1, <1>2, OneStep, SingleStep
<1>4. x = recordedBlock(l) /\ call("recordFromBlock", l, None) = <<x>>
  BY <1>0, <1>1, Zenon DEF recordedBlock, call
<1> QED
  BY <1>3, <1>4

(* transferGovernorship is a task.                                         *)
LEMMA HandTask ==
  ASSUME NEW l \in Chains, l # Hub
  PROVE  transferGovernorship(l) \in Tasks({l}, Handing)
<1>0. PICK name \in Names : name = ""
  BY Zenon DEF Names
<1>1. PICK x \in Steps : /\ x = step("call", "transferGovernorship", l, name, Hub)
                         /\ x.kind = "call" /\ x.op = "transferGovernorship" /\ x.on = l
  BY DeployAssumption, StepIn, StepFields DEF Ops
<1>2. Orderly(x, {}) /\ x \in Handing
  BY <1>1 DEF Orderly, SoundTx, SoundCall, isSend, isCall, Handing, Checks
<1>3. <<x>> \in Tasks({l}, Handing)
  BY <1>1, <1>2, OneStep
<1>4. transferGovernorship(l) = <<x>>
  BY <1>0, <1>1, Zenon DEF transferGovernorship, call
<1> QED
  BY <1>3, <1>4

(***************************************************************************)
(* Phases of the scripts                                                   *)
(***************************************************************************)

(* Blocks are recorded on the chains ds. *)
LEMMA RecordPhase ==
  ASSUME NEW ds \in Seq(Chains)
  PROVE  /\ Fits(Discipline, recordFromBlocks(ds), {})
         /\ \A l \in ToSet(ds) : recordedBlock(l) \in stepsIn(recordFromBlocks(ds))
<1>1. ToSet(ds) \in SUBSET Chains
  BY SetOfSeq
<1> DEFINE ph == [l \in ToSet(ds) |-> call("recordFromBlock", l, None)]
<1>2. ph = [l \in ToSet(ds) |-> ph[l]]
  OBVIOUS
<1>3. \A l \in ToSet(ds) : ph[l] \in Tasks({l}, Records) /\ recordedBlock(l) \in ToSet(ph[l])
  BY <1>1, RecordTask
<1>4. recordFromBlocks(ds) = <<ph>>
  BY DEF recordFromBlocks, all
<1> HIDE DEF ph
<1>5. /\ Fits(Discipline, <<ph>>, {}) /\ stepsIn(<<ph>>) = stepsOf(ph)
      /\ \A l \in ToSet(ds) : ToSet(ph[l]) \subseteq stepsOf(ph)
  <2>1. \A x \in Records : x.on \in ToSet(ds) => Meets(Discipline, x, {})
    BY RecordsMeet
  <2> QED
    BY <1>1, <1>2, <1>3, <2>1, OddOnes, AllFits
<1> QED
  BY <1>3, <1>4, <1>5

RouterOf(l) == waited("Proxy", l, "GovernanceRouter", None)

(* Core contracts are deployed on the chains ds. *)
LEMMA NomadPhase ==
  ASSUME NEW ds \in Seq(Chains), NEW requires \in {HandOver, Discipline}, NEW done,
         requires = HandOver \/ \A l \in ToSet(ds) : recordedBlock(l) \in done
  PROVE  /\ Fits(requires, all(ds, deployNomad), done)
         /\ \A l \in ToSet(ds) : RouterOf(l) \in stepsIn(all(ds, deployNomad))
         /\ Quiet(all(ds, deployNomad))
<1>1. ToSet(ds) \in SUBSET Chains
  BY SetOfSeq
<1> DEFINE ph == [l \in ToSet(ds) |-> deployNomad(l)]
<1>2. ph = [l \in ToSet(ds) |-> ph[l]]
  OBVIOUS
<1>3. \A l \in ToSet(ds) : ph[l] \in Tasks({l}, Homes) /\ RouterOf(l) \in ToSet(ph[l])
  BY <1>1, DeployNomadTask DEF RouterOf
<1>4. all(ds, deployNomad) = <<ph>>
  BY DEF all
<1>5. DOMAIN ph = ToSet(ds)
  OBVIOUS
<1> HIDE DEF ph
<1>6. requires \subseteq Discipline
  BY DEF Discipline
<1>7. \A x \in Homes : x.on \in ToSet(ds) => Meets(requires, x, done)
  <2> SUFFICES ASSUME NEW x \in Homes, x.on \in ToSet(ds) PROVE Meets(requires, x, done)
    OBVIOUS
  <2>1. Meets(HandOver, x, done)
    BY HomesMeet
  <2>2. CASE requires = HandOver
    BY <2>1, <2>2
  <2>3. CASE requires # HandOver
    <3>1. requires = Discipline /\ recordedBlock(x.on) \in done
      BY <2>3
    <3>2. Meets(Discipline, x, done)
      BY <3>1, HomesMeet
    <3> QED
      BY <3>1, <3>2
  <2> QED
    BY <2>2, <2>3
<1>8. /\ Fits(requires, <<ph>>, done) /\ stepsIn(<<ph>>) = stepsOf(ph)
      /\ \A l \in ToSet(ds) : ToSet(ph[l]) \subseteq stepsOf(ph)
  <2>1. \A l \in ToSet(ds) : ph[l] \in Tasks({l}, Homes)
    BY <1>3
  <2>2. Homes \in SUBSET Odd
    BY OddOnes
  <2> QED
    BY <1>1, <1>2, <1>6, <1>7, <2>1, <2>2, AllFits
<1>9. \A x \in stepsOf(ph) : ~isCall(x, "recordFromBlock")
  BY <1>3, <1>5 DEF stepsOf, Tasks, Tame, Homes, DeploysHome, isCall
<1> QED
  BY <1>3, <1>4, <1>8, <1>9 DEF Quiet

(* Governorship of the chains ds goes to the Hub. *)
LEMMA HandPhase ==
  ASSUME NEW ds \in Seq(Chains), Hub \notin ToSet(ds), NEW done,
         \A l \in ToSet(ds) : ToHandOver(l) \subseteq done
  PROVE  Fits(Discipline, all(ds, transferGovernorship), done)
<1>1. ToSet(ds) \in SUBSET Chains
  BY SetOfSeq
<1> DEFINE ph == [l \in ToSet(ds) |-> transferGovernorship(l)]
<1>2. ph = [l \in ToSet(ds) |-> ph[l]]
  OBVIOUS
<1>3. \A l \in ToSet(ds) : ph[l] \in Tasks({l}, Handing)
  BY <1>1, HandTask
<1>4. all(ds, transferGovernorship) = <<ph>>
  BY DEF all
<1> HIDE DEF ph
<1>5. \A x \in Handing : x.on \in ToSet(ds) => Meets(Discipline, x, done)
  BY HandingMeets
<1>6. Fits(Discipline, <<ph>>, done)
  BY <1>1, <1>2, <1>3, <1>5, OddOnes, AllFits
<1> QED
  BY <1>4, <1>6

(***************************************************************************)
(* The scripts of the bridge, and of the spokes that come later            *)
(***************************************************************************)

(* deployBridgesComplete touches nothing others rest on.                   *)
LEMMA BridgesComplete ==
  ASSUME NEW ds \in Seq(Chains)
  PROVE  deployBridgesComplete(ds) \in Calm
<1>1. ToSet(ds) \in SUBSET Chains
  BY SetOfSeq
<1>0. \A l \in Chains : deployBridge(l) \o deployCustoms(l) \in Tasks({l}, {})
  BY BridgeTask, CustomsTask, TasksBoth
<1>2. all(ds, LAMBDA l : deployBridge(l) \o deployCustoms(l)) \in Calm
  <2> DEFINE ph == [l \in ToSet(ds) |-> deployBridge(l) \o deployCustoms(l)]
  <2>1. ph = [l \in ToSet(ds) |-> ph[l]]
    OBVIOUS
  <2>2. \A l \in ToSet(ds) : ph[l] \in Tasks({l}, {})
    BY <1>1, <1>0
  <2>3. all(ds, LAMBDA l : deployBridge(l) \o deployCustoms(l)) = <<ph>>
    BY DEF all
  <2> HIDE DEF ph
  <2> QED
    BY <1>1, <2>1, <2>2, <2>3, CalmAll
<1>3. all(ds, LAMBDA l : enrollAllBridgeRouters(l, ds)) \in Calm
  <2> DEFINE ph == [l \in ToSet(ds) |-> enrollAllBridgeRouters(l, ds)]
  <2>1. ph = [l \in ToSet(ds) |-> ph[l]]
    OBVIOUS
  <2>2. \A l \in ToSet(ds) : ph[l] \in Tasks({l}, {})
    BY <1>1, EnrollAllTask
  <2>3. all(ds, LAMBDA l : enrollAllBridgeRouters(l, ds)) = <<ph>>
    BY DEF all
  <2> HIDE DEF ph
  <2> QED
    BY <1>1, <2>1, <2>2, <2>3, CalmAll
<1>4. all(ds, transferOwnershipOfBridge) \in Calm
  <2> DEFINE ph == [l \in ToSet(ds) |-> transferOwnershipOfBridge(l)]
  <2>1. ph = [l \in ToSet(ds) |-> ph[l]]
    OBVIOUS
  <2>2. \A l \in ToSet(ds) : ph[l] \in Tasks({l}, {})
    BY <1>1, GiveBridgeTask
  <2>3. all(ds, transferOwnershipOfBridge) = <<ph>>
    BY DEF all
  <2> HIDE DEF ph
  <2> QED
    BY <1>1, <2>1, <2>2, <2>3, CalmAll
<1>5. all(ds, checkBridgeDeployValues) \in Calm
  <2> DEFINE ph == [l \in ToSet(ds) |-> checkBridgeDeployValues(l)]
  <2>1. ph = [l \in ToSet(ds) |-> ph[l]]
    OBVIOUS
  <2>2. \A l \in ToSet(ds) : ph[l] \in Tasks({l}, {})
    BY <1>1, CheckBridgeTask
  <2>3. all(ds, checkBridgeDeployValues) = <<ph>>
    BY DEF all
  <2> HIDE DEF ph
  <2> QED
    BY <1>1, <2>1, <2>2, <2>3, CalmAll
<1>6. PICK a \in Calm : a = all(ds, LAMBDA l : deployBridge(l) \o deployCustoms(l))
  BY <1>2
<1>7. PICK b \in Calm : b = all(ds, LAMBDA l : enrollAllBridgeRouters(l, ds))
  BY <1>3
<1>8. PICK c \in Calm : c = all(ds, transferOwnershipOfBridge)
  BY <1>4
<1>9. PICK d \in Calm : d = all(ds, checkBridgeDeployValues)
  BY <1>5
<1>10. a \o b \o c \o d \in Calm
  BY CalmBoth
<1> QED
  BY <1>6, <1>7, <1>8, <1>9, <1>10, Zenon DEF deployBridgesComplete

(* Nor does deployBridgesHubAndSpoke.                                      *)
LEMMA BridgesHubAndSpoke ==
  ASSUME NEW spokes \in Seq(Chains)
  PROVE  deployBridgesHubAndSpoke(spokes) \in Calm
<1>0. PICK ds \in Seq(Chains) : ds = <<Hub>> \o spokes
  <2>1. <<Hub>> \in Seq(Chains)
    BY DeployAssumption
  <2>2. <<Hub>> \o spokes \in Seq(Chains)
    BY <2>1
  <2> QED
    BY <2>2
<1>1. ToSet(ds) \in SUBSET Chains /\ ToSet(spokes) \in SUBSET Chains /\ Hub \in Chains
  BY SetOfSeq, DeployAssumption
<1>2. all(ds, deployBridge) \in Calm
  <2> DEFINE ph == [l \in ToSet(ds) |-> deployBridge(l)]
  <2>1. ph = [l \in ToSet(ds) |-> ph[l]]
    OBVIOUS
  <2>2. \A l \in ToSet(ds) : ph[l] \in Tasks({l}, {})
    BY <1>1, BridgeTask
  <2>3. all(ds, deployBridge) = <<ph>>
    BY DEF all
  <2> HIDE DEF ph
  <2> QED
    BY <1>1, <2>1, <2>2, <2>3, CalmAll
<1>3. all(spokes, LAMBDA s : enrollBridgeRouter(s, Hub)) \in Calm
  <2> DEFINE ph == [l \in ToSet(spokes) |-> enrollBridgeRouter(l, Hub)]
  <2>1. ph = [l \in ToSet(spokes) |-> ph[l]]
    OBVIOUS
  <2>2. \A l \in ToSet(spokes) : ph[l] \in Tasks({l}, {})
    BY <1>1, EnrollBridgeRouterTask
  <2>3. all(spokes, LAMBDA s : enrollBridgeRouter(s, Hub)) = <<ph>>
    BY DEF all
  <2> HIDE DEF ph
  <2> QED
    BY <1>1, <2>1, <2>2, <2>3, CalmAll
<1>4. all(ds, transferOwnershipOfBridge) \in Calm
  <2> DEFINE ph == [l \in ToSet(ds) |-> transferOwnershipOfBridge(l)]
  <2>1. ph = [l \in ToSet(ds) |-> ph[l]]
    OBVIOUS
  <2>2. \A l \in ToSet(ds) : ph[l] \in Tasks({l}, {})
    BY <1>1, GiveBridgeTask
  <2>3. all(ds, transferOwnershipOfBridge) = <<ph>>
    BY DEF all
  <2> HIDE DEF ph
  <2> QED
    BY <1>1, <2>1, <2>2, <2>3, CalmAll
<1>5. all(ds, checkBridgeDeployValues) \in Calm
  <2> DEFINE ph == [l \in ToSet(ds) |-> checkBridgeDeployValues(l)]
  <2>1. ph = [l \in ToSet(ds) |-> ph[l]]
    OBVIOUS
  <2>2. \A l \in ToSet(ds) : ph[l] \in Tasks({l}, {})
    BY <1>1, CheckBridgeTask
  <2>3. all(ds, checkBridgeDeployValues) = <<ph>>
    BY DEF all
  <2> HIDE DEF ph
  <2> QED
    BY <1>1, <2>1, <2>2, <2>3, CalmAll
<1>6. alone(enrollAllBridgeRouters(Hub, spokes)) \in Calm
  <2>1. enrollAllBridgeRouters(Hub, spokes) \in Tasks(Chains, {})
    BY <1>1, EnrollAllTask, AnyChain
  <2> QED
    BY <2>1, CalmAlone
<1>7. alone(inTurn(spokes, LAMBDA s : call("checkHubAndSpokeBridgeConnections", Hub, s))) \in Calm
  <2>1. inTurn(spokes, LAMBDA s : call("checkHubAndSpokeBridgeConnections", Hub, s)) \in Tasks(Chains, {})
    BY <1>1, BridgeChecksTask, AnyChain
  <2> QED
    BY <2>1, CalmAlone
<1>8. PICK a \in Calm : a = all(ds, deployBridge)
  BY <1>2
<1>9. PICK b \in Calm : b = alone(enrollAllBridgeRouters(Hub, spokes))
  BY <1>6
<1>10. PICK c \in Calm : c = all(spokes, LAMBDA s : enrollBridgeRouter(s, Hub))
  BY <1>3
<1>11. PICK d \in Calm : d = all(ds, transferOwnershipOfBridge)
  BY <1>4
<1>12. PICK e \in Calm : e = all(ds, checkBridgeDeployValues)
  BY <1>5
<1>13. PICK f \in Calm : f = alone(inTurn(spokes, LAMBDA s : call("checkHubAndSpokeBridgeConnections", Hub, s)))
  BY <1>7
<1>14. a \o b \o c \o d \o e \o f \in Calm
  BY CalmBoth
<1> QED
  BY <1>0, <1>8, <1>9, <1>10, <1>11, <1>12, <1>13, <1>14, Zenon DEF deployBridgesHubAndSpoke

(* Nor does deployNewChainBridge.                                          *)
LEMMA NewChainBridge ==
  ASSUME NEW new \in Chains
  PROVE  deployNewChainBridge(new) \in Calm
<1> DEFINE T == Tasks({new}, {})
<1>0. \A q, r \in T : q \o r \in T
  BY TasksBoth
<1>1. PICK a \in T : a = deployBridge(new)
  BY BridgeTask
<1>2. PICK b \in T : b = enrollBridgeRouter(new, Hub)
  BY EnrollBridgeRouterTask, DeployAssumption
<1>3. PICK c \in T : c = transferOwnershipOfBridge(new)
  BY GiveBridgeTask
<1>4. PICK d \in T : d = checkBridgeDeployValues(new)
  BY CheckBridgeTask
<1>5. a \o b \o c \o d \in T
  <2> HIDE DEF T
  <2> QED
    BY <1>0
<1>6. alone(a \o b \o c \o d) \in Calm
  BY <1>5, AnyChain, CalmAlone
<1> QED
  BY <1>1, <1>2, <1>3, <1>4, <1>6, Zenon DEF deployNewChainBridge

(* What follows the deployment of a new spoke. *)
LEMMA NewSpoke ==
  ASSUME NEW new \in Chains
  PROVE  /\ enrollSpoke(new) \in Calm /\ enrollSpokeInDev(new) \in Calm
         /\ checkHubToSpokeConnectionWithWaiter(new) \in Calm
         /\ alone(checkCoreDeploy(new, <<Hub>>) \o call("checkHubAndSpokeBridgeConnections", Hub, new)
                    \o call("checkHubAndSpokeConnections", Hub, new)) \in Calm
<1>1. Hub \in Chains /\ <<Hub>> \in Seq(Chains)
  BY DeployAssumption
<1>2. \A q \in Tasks({Hub}, {}) : alone(q) \in Calm
  BY <1>1, AnyChain, CalmAlone
<1>3. /\ call("enrollSpoke", Hub, new) \in Tasks({Hub}, {})
      /\ call("enrollSpokeInDev", Hub, new) \in Tasks({Hub}, {})
      /\ call("checkHubToSpokeConnectionWithWaiter", Hub, new) \in Tasks({Hub}, {})
  BY HubCallTask
<1>4. /\ alone(call("enrollSpoke", Hub, new)) \in Calm /\ alone(call("enrollSpokeInDev", Hub, new)) \in Calm
      /\ alone(call("checkHubToSpokeConnectionWithWaiter", Hub, new)) \in Calm
  BY <1>2, <1>3
<1>5. PICK a \in Tasks(Chains, {}) : a = checkCoreDeploy(new, <<Hub>>)
  BY <1>1, CheckTask, AnyChain
<1>6. PICK b \in Tasks(Chains, {}) : b = call("checkHubAndSpokeBridgeConnections", Hub, new)
  BY <1>1, HubCallTask, AnyChain
<1>7. PICK c \in Tasks(Chains, {}) : c = call("checkHubAndSpokeConnections", Hub, new)
  BY <1>1, HubCallTask, AnyChain
<1>8. a \o b \o c \in Tasks(Chains, {})
  BY TasksBoth
<1>9. alone(a \o b \o c) \in Calm
  BY <1>8, CalmAlone
<1>10. alone(checkCoreDeploy(new, <<Hub>>) \o call("checkHubAndSpokeBridgeConnections", Hub, new)
               \o call("checkHubAndSpokeConnections", Hub, new)) \in Calm
  BY <1>5, <1>6, <1>7, <1>9, Zenon
<1> QED
  BY <1>4, <1>10, Zenon DEF enrollSpoke, enrollSpokeInDev, checkHubToSpokeConnectionWithWaiter

(* A script after one that may run from the start.                         *)
LEMMA FromStart ==
  ASSUME NEW requires, NEW s, NEW r, Fits(requires, s, {}), Fits(requires, r, stepsIn(s))
  PROVE  Both(requires, s, r, {})
<1>1. PICK done : done = {}
  OBVIOUS
<1>2. done \cup stepsIn(s) = stepsIn(s)
  BY <1>1
<1>3. Fits(requires, s, done) /\ Fits(requires, r, done \cup stepsIn(s))
  BY <1>1, <1>2
<1>4. Both(requires, s, r, done)
  BY <1>3, FitsThen
<1> QED
  BY <1>1, <1>4

(* A calm script may come after any.                                       *)
LEMMA CalmNext ==
  ASSUME NEW requires, requires \subseteq Discipline, NEW s, NEW r \in Calm, Fits(requires, s, {})
  PROVE  Both(requires, s, r, {})
<1>1. Fits(Discipline, r, {})
  BY DEF Calm
<1>2. Fits(requires, r, {})
  BY <1>1, FitsLess
<1>3. {} \subseteq stepsIn(s)
  OBVIOUS
<1>4. Fits(requires, r, stepsIn(s))
  BY <1>2, <1>3, FitsMore
<1> QED
  BY <1>4, FromStart

(* What the Hub needs to speak for a chain. *)
LEMMA HandOverIs ==
  \A l : ToHandOver(l) = {RouterOf(Hub)} \cup Enrolled(l, Hub)
BY DEF ToHandOver, RouterOf, Enrolled

(***************************************************************************)
(* The scripts of the core                                                 *)
(***************************************************************************)

(* A script that founds a network. *)
Founds(s) == Fits(Discipline, s, {}) /\ RouterOf(Hub) \in stepsIn(s)

(* Connecting all chains to all others is a task, after which each         *)
(* Replica is enrolled and watched.                                        *)
LEMMA CompleteConnects ==
  ASSUME NEW ds \in Seq(Chains)
  PROVE  /\ inTurn(ds, LAMBDA l : inTurn(others(ds, l), LAMBDA r : enrollRemote(l, r))) \in Tasks(Chains, {})
         /\ \A l \in ToSet(ds) : \A r \in ToSet(ds) \ {l} :
              Enrolled(l, r) \subseteq
                ToSet(inTurn(ds, LAMBDA x : inTurn(others(ds, x), LAMBDA y : enrollRemote(x, y))))
<1> DEFINE f == [l \in Chains |-> inTurn(others(ds, l), LAMBDA r : enrollRemote(l, r))]
<1>1. \A l \in Chains : others(ds, l) \in Seq(Chains) /\ ToSet(others(ds, l)) = ToSet(ds) \ {l}
  BY AllButOne
<1>2. \A l \in Chains : f[l] = inTurn(others(ds, l), LAMBDA r : enrollRemote(l, r))
  OBVIOUS
<1>3. ASSUME NEW l \in Chains
      PROVE  /\ f[l] \in Tasks({l}, {})
             /\ \A r \in ToSet(ds) \ {l} : Enrolled(l, r) \subseteq ToSet(f[l])
  <2>1. PICK rs \in Seq(Chains) : rs = others(ds, l) /\ ToSet(rs) = ToSet(ds) \ {l}
    BY <1>1
  <2>2. f[l] = inTurn(rs, LAMBDA r : enrollRemote(l, r))
    BY <1>2, <2>1
  <2> HIDE DEF f
  <2>3. f[l] \in Tasks({l}, {}) /\ \A r \in ToSet(rs) : Enrolled(l, r) \subseteq ToSet(f[l])
    BY <2>2, ConnectTask
  <2> QED
    BY <2>1, <2>3
<1>4. \A i \in DOMAIN ds : ds[i] \in Chains
  OBVIOUS
<1>5. [i \in DOMAIN ds |-> f[ds[i]]]
        = [i \in DOMAIN ds |-> inTurn(others(ds, ds[i]), LAMBDA r : enrollRemote(ds[i], r))]
  BY <1>4
<1>6. inTurn(ds, LAMBDA l : inTurn(others(ds, l), LAMBDA r : enrollRemote(l, r)))
        = FlattenSeq([i \in DOMAIN ds |-> f[ds[i]]])
  BY <1>5 DEF inTurn
<1> HIDE DEF f
<1>7. \A l \in Chains : f[l] \in Tasks(Chains, {})
  BY <1>3, AnyChain
<1>8. FlattenSeq([i \in DOMAIN ds |-> f[ds[i]]]) \in Tasks(Chains, {})
      /\ Comprises(Chains, ds, Chains, {}, f)
  BY <1>7, TurnTask
<1>9. ToSet(ds) \subseteq Chains
  BY SetOfSeq
<1>10. \A l \in ToSet(ds) : \A r \in ToSet(ds) \ {l} :
         Enrolled(l, r) \subseteq ToSet(FlattenSeq([i \in DOMAIN ds |-> f[ds[i]]]))
  BY <1>3, <1>8, <1>9 DEF Comprises
<1> QED
  BY <1>6, <1>8, <1>10

(* deployComplete keeps to the discipline.                                 *)
LEMMA CompleteFounds ==
  ASSUME NEW ds \in Seq(Chains), Hub \in ToSet(ds)
  PROVE  Founds(deployComplete(ds))
<1>1. /\ ToSet(ds) \in SUBSET Chains /\ Hub \in Chains
      /\ \A l \in Chains : others(ds, l) \in Seq(Chains) /\ ToSet(others(ds, l)) = ToSet(ds) \ {l}
      /\ \A i \in DOMAIN ds : ds[i] \in Chains
  BY SetOfSeq, DeployAssumption, AllButOne
<1>2. PICK a : /\ a = recordFromBlocks(ds) /\ Fits(Discipline, a, {})
               /\ \A l \in ToSet(ds) : recordedBlock(l) \in stepsIn(a)
  BY RecordPhase
<1>3. PICK b : /\ b = all(ds, deployNomad) /\ Fits(Discipline, b, stepsIn(a))
               /\ \A l \in ToSet(ds) : RouterOf(l) \in stepsIn(b)
  BY <1>2, NomadPhase
<1>4. PICK c \in Calm :
        /\ c = alone(inTurn(ds, LAMBDA l : inTurn(others(ds, l), LAMBDA r : enrollRemote(l, r))))
        /\ \A l \in ToSet(ds) : \A r \in ToSet(ds) \ {l} : Enrolled(l, r) \subseteq stepsIn(c)
  <2>1. PICK q \in Tasks(Chains, {}) :
          /\ q = inTurn(ds, LAMBDA l : inTurn(others(ds, l), LAMBDA r : enrollRemote(l, r)))
          /\ \A l \in ToSet(ds) : \A r \in ToSet(ds) \ {l} : Enrolled(l, r) \subseteq ToSet(q)
    BY CompleteConnects
  <2>2. alone(q) \in Calm /\ stepsIn(alone(q)) = ToSet(q)
    BY CalmAlone
  <2>3. PICK c \in Calm : c = alone(q) /\ stepsIn(c) = ToSet(q)
    BY <2>2
  <2>4. c = alone(inTurn(ds, LAMBDA l : inTurn(others(ds, l), LAMBDA r : enrollRemote(l, r))))
    BY <2>1, <2>3, Zenon
  <2>5. \A l \in ToSet(ds) : \A r \in ToSet(ds) \ {l} : Enrolled(l, r) \subseteq stepsIn(c)
    BY <2>1, <2>3
  <2> QED
    BY <2>4, <2>5, Zenon
<1>5. PICK d \in Calm : d = alone(appointGovernor)
  BY <1>1, AppointTask, AnyChain, CalmAlone
<1>6. PICK ab : ab = a \o b /\ Fits(Discipline, ab, {}) /\ stepsIn(ab) = stepsIn(a) \cup stepsIn(b)
  <2>1. Both(Discipline, a, b, {})
    BY <1>2, <1>3, FromStart
  <2> QED
    BY <2>1 DEF Both
<1>7. PICK abc : abc = ab \o c /\ Fits(Discipline, abc, {}) /\ stepsIn(abc) = stepsIn(ab) \cup stepsIn(c)
  <2>1. Both(Discipline, ab, c, {})
    BY <1>6, CalmNext
  <2> QED
    BY <2>1 DEF Both
<1>8. PICK abcd : /\ abcd = abc \o d /\ Fits(Discipline, abcd, {})
                  /\ stepsIn(abcd) = stepsIn(abc) \cup stepsIn(d)
  <2>1. Both(Discipline, abc, d, {})
    BY <1>7, CalmNext
  <2> QED
    BY <2>1 DEF Both
<1>9. PICK e : e = all(others(ds, Hub), transferGovernorship) /\ Fits(Discipline, e, stepsIn(abcd))
  <2>1. PICK rs \in Seq(Chains) : rs = others(ds, Hub) /\ ToSet(rs) = ToSet(ds) \ {Hub}
    BY <1>1
  <2>2. \A l \in ToSet(rs) : Enrolled(l, Hub) \subseteq stepsIn(c)
    BY <1>4, <2>1
  <2>3. RouterOf(Hub) \in stepsIn(b)
    BY <1>3
  <2>4. \A l \in ToSet(rs) : ToHandOver(l) \subseteq stepsIn(abcd)
    BY <1>6, <1>7, <1>8, <2>2, <2>3, HandOverIs
  <2>5. Hub \notin ToSet(rs)
    BY <2>1
  <2>6. Fits(Discipline, all(rs, transferGovernorship), stepsIn(abcd))
    BY <2>4, <2>5, HandPhase
  <2> QED
    BY <2>1, <2>6
<1>10. PICK abcde : /\ abcde = abcd \o e /\ Fits(Discipline, abcde, {})
                    /\ stepsIn(abcde) = stepsIn(abcd) \cup stepsIn(e)
  <2>1. Both(Discipline, abcd, e, {})
    BY <1>8, <1>9, FromStart
  <2> QED
    BY <2>1 DEF Both
<1>11. all(ds, LAMBDA l : relinquish(l, others(ds, l))) \in Calm
  <2> DEFINE ph == [l \in ToSet(ds) |-> relinquish(l, others(ds, l))]
  <2>1. ph = [l \in ToSet(ds) |-> ph[l]]
    OBVIOUS
  <2>2. \A l \in ToSet(ds) : ph[l] \in Tasks({l}, {})
    BY <1>1, RelinquishTask
  <2>3. all(ds, LAMBDA l : relinquish(l, others(ds, l))) = <<ph>>
    BY DEF all
  <2> HIDE DEF ph
  <2> QED
    BY <1>1, <2>1, <2>2, <2>3, CalmAll
<1>12. inTurn(ds, LAMBDA l : checkCoreDeploy(l, others(ds, l))) \in Tasks(Chains, {})
  <2> DEFINE f == [l \in Chains |-> checkCoreDeploy(l, others(ds, l))]
  <2>1. \A l \in Chains : checkCoreDeploy(l, others(ds, l)) \in Tasks(Chains, {})
    BY <1>1, CheckTask, AnyChain
  <2>2. \A i \in DOMAIN ds : ds[i] \in Chains
    BY <1>1
  <2>3. \A l \in Chains : f[l] = checkCoreDeploy(l, others(ds, l))
    OBVIOUS
  <2>4. [i \in DOMAIN ds |-> f[ds[i]]] = [i \in DOMAIN ds |-> checkCoreDeploy(ds[i], others(ds, ds[i]))]
    BY <2>2, <2>3
  <2>5. inTurn(ds, LAMBDA l : checkCoreDeploy(l, others(ds, l))) = FlattenSeq([i \in DOMAIN ds |-> f[ds[i]]])
    BY <2>4, Zenon DEF inTurn
  <2> HIDE DEF f
  <2>6. \A l \in Chains : f[l] \in Tasks(Chains, {})
    BY <2>1, <2>3
  <2>7. FlattenSeq([i \in DOMAIN ds |-> f[ds[i]]]) \in Tasks(Chains, {})
    BY <2>6, TurnTask
  <2> QED
    BY <2>5, <2>7
<1>13. inTurn(ds, LAMBDA l : writeOutput(l, others(ds, l))) \in Tasks(Chains, {})
  <2> DEFINE f == [l \in Chains |-> writeOutput(l, others(ds, l))]
  <2>1. \A l \in Chains : writeOutput(l, others(ds, l)) \in Tasks(Chains, {})
    BY <1>1, OutputTask, AnyChain
  <2>2. \A i \in DOMAIN ds : ds[i] \in Chains
    BY <1>1
  <2>3. \A l \in Chains : f[l] = writeOutput(l, others(ds, l))
    OBVIOUS
  <2>4. [i \in DOMAIN ds |-> f[ds[i]]] = [i \in DOMAIN ds |-> writeOutput(ds[i], others(ds, ds[i]))]
    BY <2>2, <2>3
  <2>5. inTurn(ds, LAMBDA l : writeOutput(l, others(ds, l))) = FlattenSeq([i \in DOMAIN ds |-> f[ds[i]]])
    BY <2>4, Zenon DEF inTurn
  <2> HIDE DEF f
  <2>6. \A l \in Chains : f[l] \in Tasks(Chains, {})
    BY <2>1, <2>3
  <2>7. FlattenSeq([i \in DOMAIN ds |-> f[ds[i]]]) \in Tasks(Chains, {})
    BY <2>6, TurnTask
  <2> QED
    BY <2>5, <2>7
<1>14. PICK f \in Calm : f = all(ds, LAMBDA l : relinquish(l, others(ds, l)))
  BY <1>11
<1>15. PICK g \in Calm : g = alone(inTurn(ds, LAMBDA l : checkCoreDeploy(l, others(ds, l))))
  BY <1>12, CalmAlone
<1>16. PICK h \in Calm : h = alone(inTurn(ds, LAMBDA l : writeOutput(l, others(ds, l))))
  BY <1>13, CalmAlone
<1>17. PICK s : /\ s = abcde \o f /\ Fits(Discipline, s, {})
                /\ stepsIn(s) = stepsIn(abcde) \cup stepsIn(f)
  <2>1. Both(Discipline, abcde, f, {})
    BY <1>10, CalmNext
  <2> QED
    BY <2>1 DEF Both
<1>18. PICK t : t = s \o g /\ Fits(Discipline, t, {}) /\ stepsIn(t) = stepsIn(s) \cup stepsIn(g)
  <2>1. Both(Discipline, s, g, {})
    BY <1>17, CalmNext
  <2> QED
    BY <2>1 DEF Both
<1>19. Fits(Discipline, t \o h, {}) /\ stepsIn(t \o h) = stepsIn(t) \cup stepsIn(h)
  <2>1. Both(Discipline, t, h, {})
    BY <1>18, CalmNext
  <2> QED
    BY <2>1 DEF Both
<1>20. RouterOf(Hub) \in stepsIn(t \o h)
  BY <1>3, <1>6, <1>7, <1>8, <1>10, <1>17, <1>18, <1>19
<1>21. deployComplete(ds) = t \o h
  BY <1>2, <1>3, <1>4, <1>5, <1>6, <1>7, <1>8, <1>9, <1>10, <1>14, <1>15, <1>16, <1>17, <1>18, Zenon
     DEF deployComplete, recordThenDeploy
<1> QED
  BY <1>19, <1>20, <1>21 DEF Founds

(* deployHubAndSpoke keeps to the discipline.                              *)
LEMMA HubAndSpokeFounds ==
  ASSUME NEW spokes \in Seq(Chains \ {Hub})
  PROVE  Founds(deployHubAndSpoke(spokes))
<1>0. /\ Hub \in Chains /\ <<Hub>> \in Seq(Chains) /\ ToSet(<<Hub>>) = {Hub}
      /\ spokes \in Seq(Chains) /\ ToSet(spokes) \subseteq Chains \ {Hub}
  <2>1. Hub \in Chains
    BY DeployAssumption
  <2>2. <<Hub>> \in Seq(Chains) /\ ToSet(<<Hub>>) = {Hub}
    BY <2>1, OneOf
  <2>3. spokes \in Seq(Chains)
    OBVIOUS
  <2>4. ToSet(spokes) \subseteq Chains \ {Hub}
    <3>1. PICK S : S = Chains \ {Hub} /\ spokes \in Seq(S)
      OBVIOUS
    <3>2. ToSet(spokes) \subseteq S
      BY <3>1, SetOfSeq
    <3> QED
      BY <3>1, <3>2
  <2> QED
    BY <2>1, <2>2, <2>3, <2>4, Zenon
<1>01. PICK hub \in Seq(Chains) : hub = <<Hub>> /\ ToSet(hub) = {Hub}
  BY <1>0, Zenon
<1>2. PICK ds \in Seq(Chains) : ds = <<Hub>> \o spokes /\ ToSet(ds) = {Hub} \cup ToSet(spokes)
  <2>1. hub \o spokes \in Seq(Chains) /\ ToSet(hub \o spokes) = ToSet(hub) \cup ToSet(spokes)
    BY <1>0, Joined
  <2>2. hub \o spokes = <<Hub>> \o spokes
    BY <1>01, Zenon
  <2> QED
    BY <1>01, <2>1, <2>2
<1>3. PICK rs \in Seq(Chains) : rs = spokes \o <<Hub>>
  <2>1. spokes \o hub \in Seq(Chains)
    BY <1>0, Joined
  <2>2. spokes \o hub = spokes \o <<Hub>>
    BY <1>01, Zenon
  <2> QED
    BY <2>1, <2>2
<1>1. /\ ToSet(ds) \in SUBSET Chains /\ ToSet(spokes) \in SUBSET Chains /\ Hub \in Chains
      /\ \A i \in DOMAIN ds : ds[i] \in Chains
      /\ \A i \in DOMAIN rs : rs[i] \in Chains
      /\ \A l : (IF l = Hub THEN spokes ELSE <<Hub>>) \in Seq(Chains)
  BY <1>0, SetOfSeq
<1>4. PICK a : /\ a = recordFromBlocks(ds) /\ Fits(Discipline, a, {})
               /\ \A l \in ToSet(ds) : recordedBlock(l) \in stepsIn(a)
  BY RecordPhase
<1>5. PICK b : /\ b = all(ds, deployNomad) /\ Fits(Discipline, b, stepsIn(a))
               /\ RouterOf(Hub) \in stepsIn(b)
  BY <1>2, <1>4, NomadPhase
<1>6. PICK c \in Calm :
        /\ c = all(spokes, LAMBDA s : enrollRemote(s, Hub))
        /\ \A l \in ToSet(spokes) : Enrolled(l, Hub) \subseteq stepsIn(c)
  <2> DEFINE ph == [l \in ToSet(spokes) |-> enrollRemote(l, Hub)]
  <2>1. ph = [l \in ToSet(spokes) |-> ph[l]]
    OBVIOUS
  <2>2. \A l \in ToSet(spokes) : ph[l] \in Tasks({l}, {}) /\ Enrolled(l, Hub) \subseteq ToSet(ph[l])
    BY <1>1, EnrollRemoteTask
  <2>3. all(spokes, LAMBDA s : enrollRemote(s, Hub)) = <<ph>>
    BY DEF all
  <2> HIDE DEF ph
  <2>4. <<ph>> \in Calm /\ \A l \in ToSet(spokes) : ToSet(ph[l]) \subseteq stepsIn(<<ph>>)
    BY <1>1, <2>1, <2>2, CalmAll
  <2>5. \A l \in ToSet(spokes) : Enrolled(l, Hub) \subseteq stepsIn(<<ph>>)
    BY <2>2, <2>4
  <2> QED
    BY <2>3, <2>4, <2>5
<1>7. PICK d \in Calm : d = connectSpokes(spokes)
  <2>1. inTurn(spokes, LAMBDA s : enrollRemote(Hub, s)) \in Tasks(Chains, {})
    BY <1>0, ConnectTask, AnyChain
  <2>2. appointGovernor \in Tasks(Chains, {})
    BY <1>0, AppointTask, AnyChain
  <2>3. PICK x \in Calm : x = alone(inTurn(spokes, LAMBDA s : enrollRemote(Hub, s)))
    BY <2>1, CalmAlone
  <2>4. PICK y \in Calm : y = alone(appointGovernor)
    BY <2>2, CalmAlone
  <2>5. x \o y \in Calm
    BY CalmBoth
  <2>6. connectSpokes(spokes) = x \o y
    BY <2>3, <2>4, Zenon DEF connectSpokes
  <2> QED
    BY <2>5, <2>6
<1>8. PICK ab : ab = a \o b /\ Fits(Discipline, ab, {}) /\ stepsIn(ab) = stepsIn(a) \cup stepsIn(b)
  <2>1. Both(Discipline, a, b, {})
    BY <1>4, <1>5, FromStart
  <2> QED
    BY <2>1 DEF Both
<1>9. PICK abc : abc = ab \o c /\ Fits(Discipline, abc, {}) /\ stepsIn(abc) = stepsIn(ab) \cup stepsIn(c)
  <2>1. Both(Discipline, ab, c, {})
    BY <1>8, CalmNext
  <2> QED
    BY <2>1 DEF Both
<1>10. PICK abcd : /\ abcd = abc \o d /\ Fits(Discipline, abcd, {})
                   /\ stepsIn(abcd) = stepsIn(abc) \cup stepsIn(d)
  <2>1. Both(Discipline, abc, d, {})
    BY <1>9, CalmNext
  <2> QED
    BY <2>1 DEF Both
<1>11. PICK e : e = all(spokes, transferGovernorship) /\ Fits(Discipline, e, stepsIn(abcd))
  <2>1. \A l \in ToSet(spokes) : ToHandOver(l) \subseteq stepsIn(abcd)
    <3>1. stepsIn(b) \cup stepsIn(c) \subseteq stepsIn(abcd)
      BY <1>8, <1>9, <1>10
    <3>2. RouterOf(Hub) \in stepsIn(abcd)
      BY <1>5, <3>1
    <3>3. \A l \in ToSet(spokes) : Enrolled(l, Hub) \subseteq stepsIn(abcd)
      BY <1>6, <3>1
    <3> QED
      BY <3>2, <3>3, HandOverIs
  <2>2. Hub \notin ToSet(spokes)
    BY <1>0
  <2>3. Fits(Discipline, all(spokes, transferGovernorship), stepsIn(abcd))
    BY <1>0, <2>1, <2>2, HandPhase
  <2> QED
    BY <2>3
<1>12. PICK abcde : /\ abcde = abcd \o e /\ Fits(Discipline, abcde, {})
                    /\ stepsIn(abcde) = stepsIn(abcd) \cup stepsIn(e)
  <2>1. Both(Discipline, abcd, e, {})
    BY <1>10, <1>11, FromStart
  <2> QED
    BY <2>1 DEF Both
<1>13. all(ds, LAMBDA l : relinquish(l, IF l = Hub THEN spokes ELSE <<Hub>>)) \in Calm
  <2> DEFINE ph == [l \in ToSet(ds) |-> relinquish(l, IF l = Hub THEN spokes ELSE <<Hub>>)]
  <2>1. ph = [l \in ToSet(ds) |-> ph[l]]
    OBVIOUS
  <2>2. \A l \in ToSet(ds) : ph[l] \in Tasks({l}, {})
    BY <1>1, RelinquishTask
  <2>3. all(ds, LAMBDA l : relinquish(l, IF l = Hub THEN spokes ELSE <<Hub>>)) = <<ph>>
    BY DEF all
  <2> HIDE DEF ph
  <2> QED
    BY <1>1, <2>1, <2>2, <2>3, CalmAll
<1>14. inTurn(rs, LAMBDA l : checkCoreDeploy(l, IF l = Hub THEN spokes ELSE <<Hub>>)) \in Tasks(Chains, {})
  <2> DEFINE f == [l \in Chains |-> checkCoreDeploy(l, IF l = Hub THEN spokes ELSE <<Hub>>)]
  <2>1. \A l \in Chains : checkCoreDeploy(l, IF l = Hub THEN spokes ELSE <<Hub>>) \in Tasks(Chains, {})
    BY <1>1, CheckTask, AnyChain
  <2>2. \A i \in DOMAIN rs : rs[i] \in Chains
    BY <1>1
  <2>3. \A l \in Chains : f[l] = checkCoreDeploy(l, IF l = Hub THEN spokes ELSE <<Hub>>)
    OBVIOUS
  <2>4. [i \in DOMAIN rs |-> f[rs[i]]] = [i \in DOMAIN rs |-> checkCoreDeploy(rs[i], IF rs[i] = Hub THEN spokes ELSE <<Hub>>)]
    BY <2>2, <2>3
  <2>5. inTurn(rs, LAMBDA l : checkCoreDeploy(l, IF l = Hub THEN spokes ELSE <<Hub>>)) = FlattenSeq([i \in DOMAIN rs |-> f[rs[i]]])
    BY <2>4, Zenon DEF inTurn
  <2> HIDE DEF f
  <2>6. \A l \in Chains : f[l] \in Tasks(Chains, {})
    BY <2>1, <2>3
  <2>7. FlattenSeq([i \in DOMAIN rs |-> f[rs[i]]]) \in Tasks(Chains, {})
    BY <2>6, TurnTask
  <2> QED
    BY <2>5, <2>7
<1>15. inTurn(ds, LAMBDA l : writeOutput(l, IF l = Hub THEN spokes ELSE <<Hub>>)) \in Tasks(Chains, {})
  <2> DEFINE f == [l \in Chains |-> writeOutput(l, IF l = Hub THEN spokes ELSE <<Hub>>)]
  <2>1. \A l \in Chains : writeOutput(l, IF l = Hub THEN spokes ELSE <<Hub>>) \in Tasks(Chains, {})
    BY <1>1, OutputTask, AnyChain
  <2>2. \A i \in DOMAIN ds : ds[i] \in Chains
    BY <1>1
  <2>3. \A l \in Chains : f[l] = writeOutput(l, IF l = Hub THEN spokes ELSE <<Hub>>)
    OBVIOUS
  <2>4. [i \in DOMAIN ds |-> f[ds[i]]] = [i \in DOMAIN ds |-> writeOutput(ds[i], IF ds[i] = Hub THEN spokes ELSE <<Hub>>)]
    BY <2>2, <2>3
  <2>5. inTurn(ds, LAMBDA l : writeOutput(l, IF l = Hub THEN spokes ELSE <<Hub>>)) = FlattenSeq([i \in DOMAIN ds |-> f[ds[i]]])
    BY <2>4, Zenon DEF inTurn
  <2> HIDE DEF f
  <2>6. \A l \in Chains : f[l] \in Tasks(Chains, {})
    BY <2>1, <2>3
  <2>7. FlattenSeq([i \in DOMAIN ds |-> f[ds[i]]]) \in Tasks(Chains, {})
    BY <2>6, TurnTask
  <2> QED
    BY <2>5, <2>7
<1>16. PICK f \in Calm : f = all(ds, LAMBDA l : relinquish(l, IF l = Hub THEN spokes ELSE <<Hub>>))
  BY <1>13
<1>17. PICK g \in Calm :
         g = alone(inTurn(rs, LAMBDA l : checkCoreDeploy(l, IF l = Hub THEN spokes ELSE <<Hub>>)))
  BY <1>14, CalmAlone
<1>18. PICK h \in Calm :
         h = alone(inTurn(ds, LAMBDA l : writeOutput(l, IF l = Hub THEN spokes ELSE <<Hub>>)))
  BY <1>15, CalmAlone
<1>19. PICK s : /\ s = abcde \o f /\ Fits(Discipline, s, {})
                /\ stepsIn(s) = stepsIn(abcde) \cup stepsIn(f)
  <2>1. Both(Discipline, abcde, f, {})
    BY <1>12, CalmNext
  <2> QED
    BY <2>1 DEF Both
<1>20. PICK t : t = s \o g /\ Fits(Discipline, t, {}) /\ stepsIn(t) = stepsIn(s) \cup stepsIn(g)
  <2>1. Both(Discipline, s, g, {})
    BY <1>19, CalmNext
  <2> QED
    BY <2>1 DEF Both
<1>21. Fits(Discipline, t \o h, {}) /\ stepsIn(t \o h) = stepsIn(t) \cup stepsIn(h)
  <2>1. Both(Discipline, t, h, {})
    BY <1>20, CalmNext
  <2> QED
    BY <2>1 DEF Both
<1>22. RouterOf(Hub) \in stepsIn(t \o h)
  BY <1>5, <1>8, <1>9, <1>10, <1>12, <1>19, <1>20, <1>21
<1>23. deployHubAndSpoke(spokes) = t \o h
  BY <1>2, <1>3, <1>4, <1>5, <1>6, <1>7, <1>8, <1>9, <1>10, <1>11, <1>12, <1>16, <1>17, <1>18, <1>19,
     <1>20, Zenon DEF deployHubAndSpoke, recordThenDeploy
<1> QED
  BY <1>21, <1>22, <1>23 DEF Founds

(* Steps in turn find what they require, when the later do after the       *)
(* earlier.                                                                *)
LEMMA TaskMeetsBoth ==
  ASSUME NEW requires, NEW done, NEW q \in Seq(Steps), NEW r \in Seq(Steps),
         MeetsTask(requires, q, done), MeetsTask(requires, r, done \cup ToSet(q))
  PROVE  MeetsTask(requires, q \o r, done)
<1>0. q \o r \in Seq(Steps)
  OBVIOUS
<1>1. PICK s \in Seq(Steps) : s = q \o r
  BY <1>0
<1>2. \A i \in DOMAIN s :
        \/ i \in DOMAIN q /\ s[i] = q[i] /\ before(s, i) = before(q, i)
        \/ \E j \in DOMAIN r : s[i] = r[j] /\ before(s, i) = ToSet(q) \cup before(r, j)
  <2>1. \A i \in DOMAIN (q \o r) :
           \/ i \in DOMAIN q /\ (q \o r)[i] = q[i] /\ before(q \o r, i) = before(q, i)
           \/ \E j \in DOMAIN r : /\ (q \o r)[i] = r[j]
                                  /\ before(q \o r, i) = ToSet(q) \cup before(r, j)
    BY StepsOfBoth
  <2> QED
    BY <1>1, <2>1, Zenon
<1>3. ASSUME NEW i \in DOMAIN s PROVE Meets(requires, s[i], before(s, i) \cup done)
  <2>1. CASE i \in DOMAIN q /\ s[i] = q[i] /\ before(s, i) = before(q, i)
    BY <2>1 DEF MeetsTask
  <2>2. CASE \E j \in DOMAIN r : s[i] = r[j] /\ before(s, i) = ToSet(q) \cup before(r, j)
    <3>1. PICK j \in DOMAIN r : s[i] = r[j] /\ before(s, i) = ToSet(q) \cup before(r, j)
      BY <2>2
    <3>2. Meets(requires, r[j], before(r, j) \cup (done \cup ToSet(q)))
      BY DEF MeetsTask
    <3> QED
      BY <3>1, <3>2 DEF Meets
  <2> QED
    BY <1>2, <2>1, <2>2
<1> QED
  BY <1>1, <1>3 DEF MeetsTask

(* A calm task requires nothing.                                           *)
LEMMA CalmTaskMeets ==
  ASSUME NEW requires, requires \subseteq Discipline, NEW L, NEW q \in Tasks(L, {}), NEW done
  PROVE  MeetsTask(requires, q, done)
<1>1. PICK odd : odd = {}
  OBVIOUS
<1>2. q \in Tasks(L, odd) /\ \A x \in odd : x.on \in L => Meets(requires, x, done)
  BY <1>1
<1> QED
  BY <1>2, TaskMeets

(* The call that hands a chain over, when the Hub can speak for it. *)
LEMMA HandTaskMeets ==
  ASSUME NEW l \in Chains, l # Hub, NEW done, ToHandOver(l) \subseteq done
  PROVE  MeetsTask(Discipline, transferGovernorship(l), done)
<1>1. PICK q \in Tasks({l}, Handing) : q = transferGovernorship(l)
  BY HandTask
<1>2. \A x \in Handing : x.on \in {l} => Meets(Discipline, x, done)
  BY HandingMeets
<1>3. MeetsTask(Discipline, q, done)
  BY <1>2, TaskMeets
<1> QED
  BY <1>1, <1>3

(* A spoke that comes later, when the Hub is there. *)
LEMMA NewChainFits ==
  ASSUME NEW new \in Chains, new # Hub, NEW oldSpokes \in Seq(Chains)
  PROVE  Fits(Discipline, deployNewChain(new, oldSpokes), {RouterOf(Hub)})
<1> DEFINE odd == Homes \cup Handing
<1>0. Hub \in Chains /\ odd \in SUBSET Odd
  BY DeployAssumption, OddOnes
<1>1. PICK hub \in Seq(Chains) : hub = <<Hub>>
  <2>1. <<Hub>> \in Seq(Chains)
    BY <1>0, OneOf
  <2> QED
    BY <2>1
<1>2. PICK news \in Seq(Chains) : news = <<new>> /\ ToSet(news) = {new}
  <2>1. <<new>> \in Seq(Chains) /\ ToSet(<<new>>) = {new}
    BY OneOf
  <2> QED
    BY <2>1
<1>3. PICK a : a = recordFromBlocks(news) /\ Fits(Discipline, a, {}) /\ recordedBlock(new) \in stepsIn(a)
  <2>1. /\ Fits(Discipline, recordFromBlocks(news), {})
        /\ \A l \in ToSet(news) : recordedBlock(l) \in stepsIn(recordFromBlocks(news))
    BY RecordPhase
  <2> QED
    BY <1>2, <2>1
<1>4. PICK done : done = {RouterOf(Hub)} \cup stepsIn(a)
  OBVIOUS
<1>5. PICK b \in Tasks({new}, Homes) : b = deployNomad(new)
  BY DeployNomadTask
<1>6. MeetsTask(Discipline, b, done)
  <2>1. \A x \in Homes : x.on \in {new} => Meets(Discipline, x, done)
    BY <1>3, <1>4, HomesMeet
  <2> QED
    BY <2>1, TaskMeets
<1>7. PICK c \in Tasks({new}, {}) : c = enrollRemote(new, Hub) /\ Enrolled(new, Hub) \subseteq ToSet(c)
  BY <1>0, EnrollRemoteTask
<1>8. PICK d \in Tasks({new}, Handing) : d = transferGovernorship(new)
  BY HandTask
<1>9. b \in Seq(Steps) /\ c \in Seq(Steps) /\ d \in Seq(Steps)
  BY DEF Tasks
<1>10. PICK cd \in Seq(Steps) : cd = c \o d /\ cd \in Tasks(Chains, odd) /\ MeetsTask(Discipline, cd, done \cup ToSet(b))
  <2>1. PICK more : more = done \cup ToSet(b)
    OBVIOUS
  <2>2. MeetsTask(Discipline, c, more)
    BY CalmTaskMeets
  <2>3. ToHandOver(new) \subseteq more \cup ToSet(c)
    BY <1>4, <1>7, <2>1, HandOverIs
  <2>4. MeetsTask(Discipline, d, more \cup ToSet(c))
    BY <1>8, <2>3, HandTaskMeets
  <2>5. MeetsTask(Discipline, c \o d, more)
    BY <1>9, <2>2, <2>4, TaskMeetsBoth
  <2>6. c \in Tasks(Chains, odd) /\ d \in Tasks(Chains, odd)
    BY DEF Tasks
  <2>7. c \o d \in Tasks(Chains, odd)
    BY <2>6, TasksBoth
  <2>8. c \o d \in Seq(Steps)
    BY <1>9
  <2> QED
    BY <2>1, <2>5, <2>7, <2>8
<1>11. PICK bcd \in Tasks(Chains, odd) : bcd = b \o cd /\ MeetsTask(Discipline, bcd, done)
  <2>1. MeetsTask(Discipline, b \o cd, done)
    BY <1>6, <1>9, <1>10, TaskMeetsBoth
  <2>2. b \in Tasks(Chains, odd)
    BY DEF Tasks
  <2>3. b \o cd \in Tasks(Chains, odd)
    BY <1>10, <2>2, TasksBoth
  <2> QED
    BY <2>1, <2>3
<1> DEFINE T == Tasks(Chains, {})
<1>12. PICK e \in T : e = relinquish(new, hub)
  BY RelinquishTask, AnyChain
<1>13. PICK f \in T : f = checkCoreDeploy(new, hub)
  BY CheckTask, AnyChain
<1>14. PICK g \in T : g = newReplicaOnHub(new)
  <2>1. deployUnenrolledReplica(Hub, new) \in T
    BY <1>0, UnenrolledTask, AnyChain
  <2>2. send("transferOwnership", Hub, "Replica", new) \in T
    <3>1. PlainTx("transferOwnership", "Replica", new) /\ Fine("transferOwnership", "Replica", {})
      BY DEF PlainTx, TxOps, Names, Fine
    <3>2. send("transferOwnership", Hub, "Replica", new) \in Tasks({Hub}, {})
      BY <1>0, <3>1, SendTask, Zenon
    <3> QED
      BY <1>0, <3>2, AnyChain
  <2>3. PICK x \in T : x = deployUnenrolledReplica(Hub, new)
    BY <2>1
  <2>4. PICK y \in T : y = send("transferOwnership", Hub, "Replica", new)
    BY <2>2
  <2>5. x \o y \in T
    BY TasksBoth
  <2>6. newReplicaOnHub(new) = x \o y
    BY <2>3, <2>4, Zenon DEF newReplicaOnHub
  <2> QED
    BY <2>5, <2>6
<1>15. PICK h \in T : h = writeHubAndSpokeOutput(new, oldSpokes)
  <2>1. PICK spokes \in Seq(Chains) : spokes = <<new>> \o oldSpokes
    <3>1. news \o oldSpokes \in Seq(Chains)
      BY Joined
    <3>2. news \o oldSpokes = <<new>> \o oldSpokes
      BY <1>2, Zenon
    <3> QED
      BY <3>1, <3>2
  <2>2. PICK x \in T : x = writeOutput(new, hub)
    BY OutputTask, AnyChain
  <2>3. PICK y \in T : y = writeOutput(Hub, spokes)
    BY <1>0, OutputTask, AnyChain
  <2>4. x \o y \in T
    BY TasksBoth
  <2>5. writeHubAndSpokeOutput(new, oldSpokes) = x \o y
    BY <1>1, <2>1, <2>2, <2>3, Zenon DEF writeHubAndSpokeOutput
  <2> QED
    BY <2>4, <2>5
<1>16. ASSUME NEW q \in Tasks(Chains, odd), MeetsTask(Discipline, q, done), NEW r \in T
       PROVE  \E s \in Tasks(Chains, odd) : s = q \o r /\ MeetsTask(Discipline, s, done)
  <2>1. r \in Tasks(Chains, odd) /\ r \in Seq(Steps) /\ q \in Seq(Steps)
    BY DEF Tasks
  <2>2. MeetsTask(Discipline, r, done \cup ToSet(q))
    BY CalmTaskMeets
  <2>3. MeetsTask(Discipline, q \o r, done)
    BY <1>16, <2>1, <2>2, TaskMeetsBoth
  <2>4. q \o r \in Tasks(Chains, odd)
    BY <2>1, TasksBoth
  <2> QED
    BY <2>3, <2>4
<1> HIDE DEF odd, T
<1>17. PICK q1 \in Tasks(Chains, odd) : q1 = bcd \o e /\ MeetsTask(Discipline, q1, done)
  BY <1>11, <1>16
<1>18. PICK q2 \in Tasks(Chains, odd) : q2 = q1 \o f /\ MeetsTask(Discipline, q2, done)
  BY <1>16, <1>17
<1>19. PICK q3 \in Tasks(Chains, odd) : q3 = q2 \o g /\ MeetsTask(Discipline, q3, done)
  BY <1>16, <1>18
<1>20. PICK q \in Tasks(Chains, odd) : q = q3 \o h /\ MeetsTask(Discipline, q, done)
  BY <1>16, <1>19
<1>21. Fits(Discipline, alone(q), done)
  BY <1>0, <1>20, AloneFits
<1>22. PICK start : start = {RouterOf(Hub)}
  OBVIOUS
<1>23. Fits(Discipline, a, start) /\ Fits(Discipline, alone(q), start \cup stepsIn(a))
  <2>1. {} \subseteq start /\ done = start \cup stepsIn(a)
    BY <1>4, <1>22
  <2>2. Fits(Discipline, a, start)
    BY <1>3, <2>1, FitsMore
  <2> QED
    BY <1>21, <2>1, <2>2
<1>24. Both(Discipline, a, alone(q), start)
  BY <1>23, FitsThen
<1>25. deployNewChain(new, oldSpokes) = a \o alone(q)
  <2>1. connectNewChain(new) = cd
    BY <1>7, <1>8, <1>10, Zenon DEF connectNewChain
  <2>2. alone(q) = alone(deployNomad(new) \o connectNewChain(new) \o relinquish(new, <<Hub>>)
                           \o checkCoreDeploy(new, <<Hub>>) \o newReplicaOnHub(new)
                           \o writeHubAndSpokeOutput(new, oldSpokes))
    BY <1>1, <1>5, <1>11, <1>12, <1>13, <1>14, <1>15, <1>17, <1>18, <1>19, <1>20, <2>1, Zenon
  <2> QED
    BY <1>2, <1>3, <2>2, Zenon DEF deployNewChain
<1> QED
  BY <1>22, <1>24, <1>25 DEF Both

(***************************************************************************)
(* A script of two chains                                                  *)
(***************************************************************************)

(* A sequence of two elements.                                             *)
LEMMA TwoOf ==
  ASSUME NEW S, NEW x \in S, NEW y \in S
  PROVE  <<x, y>> \in Seq(S) /\ ToSet(<<x, y>>) = {x, y}
<1>1. <<x, y>> \in Seq(S) /\ Len(<<x, y>>) = 2 /\ <<x, y>>[1] = x /\ <<x, y>>[2] = y
  OBVIOUS
<1>2. DOMAIN <<x, y>> = {1, 2}
  BY <1>1
<1> QED
  BY <1>1, <1>2 DEF ToSet

(* A script that records no blocks. *)
Unrecorded(s) == Fits(HandOver, s, {}) /\ Quiet(s)

(* A calm script after one that records no blocks.                         *)
LEMMA UnrecordedThenCalm ==
  ASSUME NEW s, Unrecorded(s), NEW r \in Calm
  PROVE  Both(HandOver, s, r, {}) /\ Unrecorded(s \o r)
<1>1. Both(HandOver, s, r, {})
  BY CalmNext DEF Unrecorded, Discipline
<1> QED
  BY <1>1 DEF Both, Unrecorded, Quiet, Calm

(* deployTwoChains hands its second chain over when the Hub can speak      *)
(* for it, and records no blocks.                                          *)
LEMMA TwoChains ==
  ASSUME NEW non \in Chains \ {Hub}
  PROVE  Unrecorded(deployTwoChains(Hub, non)) /\ RouterOf(Hub) \in stepsIn(deployTwoChains(Hub, non))
<1>0. Hub \in Chains /\ non \in Chains /\ non # Hub
  BY DeployAssumption
<1>2. PICK ds \in Seq(Chains) : ds = <<Hub, non>> /\ ToSet(ds) = {Hub, non}
  <2>1. <<Hub, non>> \in Seq(Chains) /\ ToSet(<<Hub, non>>) = {Hub, non}
    BY <1>0, TwoOf
  <2> QED
    BY <2>1
<1>1. /\ ToSet(ds) \in SUBSET Chains /\ ToSet(ds) = {Hub, non} /\ Hub \in Chains /\ non # Hub
      /\ \A i \in DOMAIN ds : ds[i] \in Chains
      /\ \A l : (IF l = Hub THEN non ELSE Hub) \in Chains
      /\ \A l : <<(IF l = Hub THEN non ELSE Hub)>> \in Seq(Chains)
  <2>1. \A l : (IF l = Hub THEN non ELSE Hub) \in Chains
    BY <1>0
  <2> QED
    BY <1>0, <1>2, <2>1, SetOfSeq, OneOf
<1>3. PICK a : /\ a = all(ds, deployNomad) /\ Fits(HandOver, a, {}) /\ Quiet(a)
               /\ RouterOf(Hub) \in stepsIn(a)
  BY <1>2, NomadPhase
<1>4. all(ds, LAMBDA l : deployUnenrolledReplica(l, (IF l = Hub THEN non ELSE Hub))) \in Calm
  <2> DEFINE ph == [l \in ToSet(ds) |-> deployUnenrolledReplica(l, (IF l = Hub THEN non ELSE Hub))]
  <2>1. ph = [l \in ToSet(ds) |-> ph[l]]
    OBVIOUS
  <2>2. \A l \in ToSet(ds) : ph[l] \in Tasks({l}, {})
    BY <1>1, UnenrolledTask
  <2>3. all(ds, LAMBDA l : deployUnenrolledReplica(l, (IF l = Hub THEN non ELSE Hub))) = <<ph>>
    BY DEF all
  <2> HIDE DEF ph
  <2> QED
    BY <1>1, <2>1, <2>2, <2>3, CalmAll
<1>5. /\ all(ds, LAMBDA l : enrollReplica(l, (IF l = Hub THEN non ELSE Hub))) \in Calm
      /\ {waited("ownerEnrollReplica", non, "XAppConnectionManager", Hub)} \subseteq stepsIn(all(ds, LAMBDA l : enrollReplica(l, (IF l = Hub THEN non ELSE Hub))))
  <2> DEFINE ph == [l \in ToSet(ds) |-> enrollReplica(l, (IF l = Hub THEN non ELSE Hub))]
  <2>1. ph = [l \in ToSet(ds) |-> ph[l]]
    OBVIOUS
  <2>2. \A l \in ToSet(ds) : ph[l] \in Tasks({l}, {})
    BY <1>1, EnrollReplicaTask
  <2>3. all(ds, LAMBDA l : enrollReplica(l, (IF l = Hub THEN non ELSE Hub))) = <<ph>>
    BY DEF all
  <2>4. {waited("ownerEnrollReplica", non, "XAppConnectionManager", Hub)} \subseteq ToSet(ph[non])
    <3>1. ph[non] = enrollReplica(non, Hub)
      BY <1>1
    <3> QED
      BY <1>1, <3>1, EnrollReplicaTask
  <2> HIDE DEF ph
  <2> QED
    BY <1>1, <2>1, <2>2, <2>3, <2>4, CalmAll
<1>6. /\ all(ds, LAMBDA l : enrollWatchers(l, (IF l = Hub THEN non ELSE Hub))) \in Calm
      /\ {waited("setWatcherPermission", non, w, Hub) : w \in Watchers} \subseteq stepsIn(all(ds, LAMBDA l : enrollWatchers(l, (IF l = Hub THEN non ELSE Hub))))
  <2> DEFINE ph == [l \in ToSet(ds) |-> enrollWatchers(l, (IF l = Hub THEN non ELSE Hub))]
  <2>1. ph = [l \in ToSet(ds) |-> ph[l]]
    OBVIOUS
  <2>2. \A l \in ToSet(ds) : ph[l] \in Tasks({l}, {})
    BY <1>1, EnrollWatchersTask
  <2>3. all(ds, LAMBDA l : enrollWatchers(l, (IF l = Hub THEN non ELSE Hub))) = <<ph>>
    BY DEF all
  <2>4. {waited("setWatcherPermission", non, w, Hub) : w \in Watchers} \subseteq ToSet(ph[non])
    <3>1. ph[non] = enrollWatchers(non, Hub)
      BY <1>1
    <3> QED
      BY <1>1, <3>1, EnrollWatchersTask
  <2> HIDE DEF ph
  <2> QED
    BY <1>1, <2>1, <2>2, <2>3, <2>4, CalmAll
<1>7. all(ds, LAMBDA l : enrollGovernanceRouter(l, (IF l = Hub THEN non ELSE Hub))) \in Calm
  <2> DEFINE ph == [l \in ToSet(ds) |-> enrollGovernanceRouter(l, (IF l = Hub THEN non ELSE Hub))]
  <2>1. ph = [l \in ToSet(ds) |-> ph[l]]
    OBVIOUS
  <2>2. \A l \in ToSet(ds) : ph[l] \in Tasks({l}, {})
    BY <1>1, EnrollGovernanceRouterTask
  <2>3. all(ds, LAMBDA l : enrollGovernanceRouter(l, (IF l = Hub THEN non ELSE Hub))) = <<ph>>
    BY DEF all
  <2> HIDE DEF ph
  <2> QED
    BY <1>1, <2>1, <2>2, <2>3, CalmAll
<1>8. all(ds, LAMBDA l : relinquish(l, <<(IF l = Hub THEN non ELSE Hub)>>)) \in Calm
  <2> DEFINE ph == [l \in ToSet(ds) |-> relinquish(l, <<(IF l = Hub THEN non ELSE Hub)>>)]
  <2>1. ph = [l \in ToSet(ds) |-> ph[l]]
    OBVIOUS
  <2>2. \A l \in ToSet(ds) : ph[l] \in Tasks({l}, {})
    BY <1>1, RelinquishTask
  <2>3. all(ds, LAMBDA l : relinquish(l, <<(IF l = Hub THEN non ELSE Hub)>>)) = <<ph>>
    BY DEF all
  <2> HIDE DEF ph
  <2> QED
    BY <1>1, <2>1, <2>2, <2>3, CalmAll
<1>9. inTurn(ds, LAMBDA l : checkCoreDeploy(l, <<(IF l = Hub THEN non ELSE Hub)>>)) \in Tasks(Chains, {})
  <2> DEFINE f == [l \in Chains |-> checkCoreDeploy(l, <<(IF l = Hub THEN non ELSE Hub)>>)]
  <2>1. \A l \in Chains : checkCoreDeploy(l, <<(IF l = Hub THEN non ELSE Hub)>>) \in Tasks(Chains, {})
    BY <1>1, CheckTask, AnyChain
  <2>2. \A i \in DOMAIN ds : ds[i] \in Chains
    BY <1>1
  <2>3. \A l \in Chains : f[l] = checkCoreDeploy(l, <<(IF l = Hub THEN non ELSE Hub)>>)
    OBVIOUS
  <2>4. [i \in DOMAIN ds |-> f[ds[i]]] = [i \in DOMAIN ds |-> checkCoreDeploy(ds[i], <<(IF ds[i] = Hub THEN non ELSE Hub)>>)]
    BY <2>2, <2>3
  <2>5. inTurn(ds, LAMBDA l : checkCoreDeploy(l, <<(IF l = Hub THEN non ELSE Hub)>>)) = FlattenSeq([i \in DOMAIN ds |-> f[ds[i]]])
    BY <2>4, Zenon DEF inTurn
  <2> HIDE DEF f
  <2>6. \A l \in Chains : f[l] \in Tasks(Chains, {})
    BY <2>1, <2>3
  <2>7. FlattenSeq([i \in DOMAIN ds |-> f[ds[i]]]) \in Tasks(Chains, {})
    BY <2>6, TurnTask
  <2> QED
    BY <2>5, <2>7
<1>10. inTurn(ds, LAMBDA l : writeOutput(l, <<(IF l = Hub THEN non ELSE Hub)>>)) \in Tasks(Chains, {})
  <2> DEFINE f == [l \in Chains |-> writeOutput(l, <<(IF l = Hub THEN non ELSE Hub)>>)]
  <2>1. \A l \in Chains : writeOutput(l, <<(IF l = Hub THEN non ELSE Hub)>>) \in Tasks(Chains, {})
    BY <1>1, OutputTask, AnyChain
  <2>2. \A i \in DOMAIN ds : ds[i] \in Chains
    BY <1>1
  <2>3. \A l \in Chains : f[l] = writeOutput(l, <<(IF l = Hub THEN non ELSE Hub)>>)
    OBVIOUS
  <2>4. [i \in DOMAIN ds |-> f[ds[i]]] = [i \in DOMAIN ds |-> writeOutput(ds[i], <<(IF ds[i] = Hub THEN non ELSE Hub)>>)]
    BY <2>2, <2>3
  <2>5. inTurn(ds, LAMBDA l : writeOutput(l, <<(IF l = Hub THEN non ELSE Hub)>>)) = FlattenSeq([i \in DOMAIN ds |-> f[ds[i]]])
    BY <2>4, Zenon DEF inTurn
  <2> HIDE DEF f
  <2>6. \A l \in Chains : f[l] \in Tasks(Chains, {})
    BY <2>1, <2>3
  <2>7. FlattenSeq([i \in DOMAIN ds |-> f[ds[i]]]) \in Tasks(Chains, {})
    BY <2>6, TurnTask
  <2> QED
    BY <2>5, <2>7
<1>11. PICK b \in Calm : b = all(ds, LAMBDA l : deployUnenrolledReplica(l, (IF l = Hub THEN non ELSE Hub)))
  BY <1>4
<1>12. PICK c \in Calm :
         /\ c = all(ds, LAMBDA l : enrollReplica(l, (IF l = Hub THEN non ELSE Hub)))
         /\ {waited("ownerEnrollReplica", non, "XAppConnectionManager", Hub)} \subseteq stepsIn(c)
  BY <1>5
<1>13. PICK d \in Calm :
         /\ d = all(ds, LAMBDA l : enrollWatchers(l, (IF l = Hub THEN non ELSE Hub)))
         /\ {waited("setWatcherPermission", non, w, Hub) : w \in Watchers} \subseteq stepsIn(d)
  BY <1>6
<1>14. PICK e \in Calm : e = all(ds, LAMBDA l : enrollGovernanceRouter(l, (IF l = Hub THEN non ELSE Hub)))
  BY <1>7
<1>15. PICK g \in Calm : g = all(ds, LAMBDA l : relinquish(l, <<(IF l = Hub THEN non ELSE Hub)>>))
  BY <1>8
<1>16. PICK h \in Calm : h = alone(inTurn(ds, LAMBDA l : checkCoreDeploy(l, <<(IF l = Hub THEN non ELSE Hub)>>)))
  BY <1>9, CalmAlone
<1>17. PICK k \in Calm : k = alone(inTurn(ds, LAMBDA l : writeOutput(l, <<(IF l = Hub THEN non ELSE Hub)>>)))
  BY <1>10, CalmAlone
<1>21. PICK ab : ab = a \o b /\ Unrecorded(ab) /\ stepsIn(ab) = stepsIn(a) \cup stepsIn(b)
  <2>1. Both(HandOver, a, b, {}) /\ Unrecorded(a \o b)
    BY <1>3, UnrecordedThenCalm DEF Unrecorded
  <2> QED
    BY <2>1 DEF Both
<1>22. PICK abc : abc = ab \o c /\ Unrecorded(abc) /\ stepsIn(abc) = stepsIn(ab) \cup stepsIn(c)
  <2>1. Both(HandOver, ab, c, {}) /\ Unrecorded(ab \o c)
    BY <1>21, UnrecordedThenCalm
  <2> QED
    BY <2>1 DEF Both
<1>23. PICK abcd : /\ abcd = abc \o d /\ Unrecorded(abcd)
                   /\ stepsIn(abcd) = stepsIn(abc) \cup stepsIn(d)
  <2>1. Both(HandOver, abc, d, {}) /\ Unrecorded(abc \o d)
    BY <1>22, UnrecordedThenCalm
  <2> QED
    BY <2>1 DEF Both
<1>24. PICK abcde : /\ abcde = abcd \o e /\ Unrecorded(abcde)
                    /\ stepsIn(abcde) = stepsIn(abcd) \cup stepsIn(e)
  <2>1. Both(HandOver, abcd, e, {}) /\ Unrecorded(abcd \o e)
    BY <1>23, UnrecordedThenCalm
  <2> QED
    BY <2>1 DEF Both
<1>25. PICK f : /\ f = alone(appointGovernor \o transferGovernorship(non))
                /\ Fits(HandOver, f, stepsIn(abcde)) /\ Quiet(f)
  <2>1. PICK p \in Tasks(Chains, {}) : p = appointGovernor
    BY <1>0, AppointTask, AnyChain
  <2>2. PICK q \in Tasks(Chains, Handing) : q = transferGovernorship(non)
    BY <1>0, HandTask, AnyChain
  <2>3. PICK done : done = stepsIn(abcde)
    OBVIOUS
  <2>4. ToHandOver(non) \subseteq done \cup ToSet(p)
    <3>1. stepsIn(a) \cup stepsIn(c) \cup stepsIn(d) \subseteq done
      BY <1>21, <1>22, <1>23, <1>24, <2>3
    <3>2. RouterOf(Hub) \in done
      BY <1>3, <3>1
    <3>3. {waited("ownerEnrollReplica", non, "XAppConnectionManager", Hub)} \subseteq done
      BY <1>12, <3>1
    <3>4. {waited("setWatcherPermission", non, w, Hub) : w \in Watchers} \subseteq done
      BY <1>13, <3>1
    <3> QED
      BY <3>2, <3>3, <3>4 DEF ToHandOver, RouterOf
  <2>5. MeetsTask(Discipline, p, done)
    BY CalmTaskMeets
  <2>6. MeetsTask(Discipline, q, done \cup ToSet(p))
    BY <1>0, <2>2, <2>4, HandTaskMeets
  <2>7. p \in Seq(Steps) /\ q \in Seq(Steps)
    BY DEF Tasks
  <2>8. MeetsTask(Discipline, p \o q, done)
    BY <2>5, <2>6, <2>7, TaskMeetsBoth
  <2>9. p \in Tasks(Chains, Handing)
    BY DEF Tasks
  <2>10. p \o q \in Tasks(Chains, Handing)
    BY <2>9, TasksBoth
  <2>11. PICK pq \in Tasks(Chains, Handing) : pq = p \o q /\ MeetsTask(Discipline, pq, done)
    BY <2>8, <2>10
  <2>12. Handing \in SUBSET Odd
    BY OddOnes
  <2>13. Fits(Discipline, alone(pq), done) /\ stepsIn(alone(pq)) = ToSet(pq)
    BY <2>11, <2>12, AloneFits
  <2>14. HandOver \subseteq Discipline
    BY DEF Discipline
  <2>15. Fits(HandOver, alone(pq), done)
    BY <2>13, <2>14, FitsLess
  <2>16. Quiet(alone(pq))
    <3>1. \A x \in ToSet(pq) : Tame(x) \/ x \in Handing
      BY DEF Tasks
    <3> QED
      BY <2>13, <3>1 DEF Quiet, Tame, Handing, isCall
  <2>17. alone(pq) = alone(appointGovernor \o transferGovernorship(non))
    BY <2>1, <2>2, <2>11, Zenon
  <2> QED
    BY <2>3, <2>15, <2>16, <2>17
<1>26. PICK s : s = abcde \o f /\ Unrecorded(s) /\ stepsIn(s) = stepsIn(abcde) \cup stepsIn(f)
  <2>1. Fits(HandOver, abcde, {})
    BY <1>24 DEF Unrecorded
  <2>2. Both(HandOver, abcde, f, {})
    BY <1>25, <2>1, FromStart
  <2> QED
    BY <1>24, <1>25, <2>2 DEF Both, Unrecorded, Quiet
<1>27. PICK t : t = s \o g /\ Unrecorded(t) /\ stepsIn(t) = stepsIn(s) \cup stepsIn(g)
  <2>1. Both(HandOver, s, g, {}) /\ Unrecorded(s \o g)
    BY <1>26, UnrecordedThenCalm
  <2> QED
    BY <2>1 DEF Both
<1>28. PICK u : u = t \o h /\ Unrecorded(u) /\ stepsIn(u) = stepsIn(t) \cup stepsIn(h)
  <2>1. Both(HandOver, t, h, {}) /\ Unrecorded(t \o h)
    BY <1>27, UnrecordedThenCalm
  <2> QED
    BY <2>1 DEF Both
<1>29. PICK v : v = u \o k /\ Unrecorded(v) /\ stepsIn(v) = stepsIn(u) \cup stepsIn(k)
  <2>1. Both(HandOver, u, k, {}) /\ Unrecorded(u \o k)
    BY <1>28, UnrecordedThenCalm
  <2> QED
    BY <2>1 DEF Both
<1>30. RouterOf(Hub) \in stepsIn(v)
  BY <1>3, <1>21, <1>22, <1>23, <1>24, <1>26, <1>27, <1>28, <1>29
<1>31. deployTwoChains(Hub, non) = v
  BY <1>2, <1>3, <1>11, <1>12, <1>13, <1>14, <1>15, <1>16, <1>17, <1>21, <1>22, <1>23, <1>24, <1>25,
     <1>26, <1>27, <1>28, <1>29, Zenon DEF deployTwoChains
<1> QED
  BY <1>29, <1>30, <1>31

(***************************************************************************)
(* Deployments                                                             *)
(***************************************************************************)

Spokes == Chains \ {Hub}

Foundings ==
  {deployComplete(ds) : ds \in {xs \in Seq(Chains) : Hub \in ToSet(xs)}}
    \cup {deployHubAndSpoke(spokes) : spokes \in Seq(Spokes)}

Bridgings ==
  {deployBridgesComplete(ds) : ds \in Seq(Chains)}
    \cup {deployBridgesHubAndSpoke(spokes) : spokes \in Seq(Chains)}

Additions ==
  {deployNewChain(new, oldSpokes) : new \in Spokes, oldSpokes \in Seq(Chains)}
    \cup {deployNewChainBridge(new) : new \in Spokes}
    \cup {enrollSpoke(new) : new \in Spokes}
    \cup {checkHubToSpokeConnectionWithWaiter(new) : new \in Spokes}
    \cup {deployAdditionalNetwork(new, oldSpokes) : new \in Spokes, oldSpokes \in Seq(Chains)}

(* A network is founded, then bridges are deployed and spokes added, in    *)
(* any number and order; or two chains are deployed, and their bridges.    *)
Deployments ==
  {s \o FlattenSeq(more) : s \in Foundings, more \in Seq(Bridgings \cup Additions)}
    \cup {deployTwoChains(Hub, non) \o FlattenSeq(more) : non \in Spokes, more \in Seq(Bridgings)}

(* Scripts for a network that has its Hub. *)
Expanding == {s \in Seq(Phases) : Fits(Discipline, s, {RouterOf(Hub)})}

(* A calm script may run when there is a Hub.                              *)
LEMMA CalmExpands == Calm \subseteq Expanding
<1> SUFFICES ASSUME NEW s \in Calm PROVE s \in Expanding
  OBVIOUS
<1>1. PICK none, done : none = {} /\ done = {RouterOf(Hub)}
  OBVIOUS
<1>2. Fits(Discipline, s, none) /\ none \subseteq done /\ s \in Seq(Phases)
  BY <1>1 DEF Calm
<1>3. Fits(Discipline, s, done)
  BY <1>2, FitsMore
<1> QED
  BY <1>1, <1>2, <1>3 DEF Expanding

(* Scripts for a network that has its Hub may run in turn.                 *)
LEMMA ExpandingBoth == << >> \in Expanding /\ \A s, r \in Expanding : s \o r \in Expanding
<1>1. << >> \in Expanding
  BY CalmBoth, CalmExpands
<1>2. ASSUME NEW s \in Expanding, NEW r \in Expanding PROVE s \o r \in Expanding
  <2>1. PICK done : done = {RouterOf(Hub)}
    OBVIOUS
  <2>2. Fits(Discipline, s, done) /\ Fits(Discipline, r, done) /\ done \subseteq done \cup stepsIn(s)
    BY <2>1 DEF Expanding
  <2>3. Fits(Discipline, r, done \cup stepsIn(s))
    BY <2>2, FitsMore
  <2>4. Both(Discipline, s, r, done)
    BY <2>2, <2>3, FitsThen
  <2>5. Fits(Discipline, s \o r, done)
    BY <2>4 DEF Both
  <2>6. s \o r \in Seq(Phases)
    BY DEF Expanding
  <2> QED
    BY <2>1, <2>5, <2>6 DEF Expanding
<1> QED
  BY <1>1, <1>2

(* The bridges' scripts are calm.                                          *)
LEMMA BridgingsAreCalm == Bridgings \subseteq Calm
BY BridgesComplete, BridgesHubAndSpoke DEF Bridgings

(* The scripts that add a spoke need the Hub's router alone.               *)
LEMMA AdditionsExpand == Additions \subseteq Expanding
<1> SUFFICES ASSUME NEW new \in Spokes, NEW oldSpokes \in Seq(Chains)
             PROVE  /\ deployNewChain(new, oldSpokes) \in Expanding
                    /\ deployNewChainBridge(new) \in Expanding
                    /\ enrollSpoke(new) \in Expanding
                    /\ checkHubToSpokeConnectionWithWaiter(new) \in Expanding
                    /\ deployAdditionalNetwork(new, oldSpokes) \in Expanding
  <2>1. PICK none \in Seq(Chains) : none = << >>
    BY NoneOf
  <2>2. /\ \A new \in Spokes : \A olds \in Seq(Chains) :
             deployNewChain(new, olds) \in Expanding /\ deployAdditionalNetwork(new, olds) \in Expanding
        /\ \A new \in Spokes :
             /\ deployNewChainBridge(new) \in Expanding
             /\ enrollSpoke(new) \in Expanding
             /\ checkHubToSpokeConnectionWithWaiter(new) \in Expanding
    BY <2>1
  <2> QED
    BY <2>2 DEF Additions
<1>1. new \in Chains /\ new # Hub
  BY DEF Spokes
<1>2. deployNewChain(new, oldSpokes) \in Expanding
  <2>1. Fits(Discipline, deployNewChain(new, oldSpokes), {RouterOf(Hub)})
    BY <1>1, NewChainFits
  <2>2. deployNewChain(new, oldSpokes) \in Seq(Phases)
    BY <2>1 DEF Fits
  <2> QED
    BY <2>1, <2>2 DEF Expanding
<1>3. /\ deployNewChainBridge(new) \in Expanding
      /\ enrollSpoke(new) \in Expanding
      /\ enrollSpokeInDev(new) \in Expanding
      /\ checkHubToSpokeConnectionWithWaiter(new) \in Expanding
      /\ alone(checkCoreDeploy(new, <<Hub>>)
               \o call("checkHubAndSpokeBridgeConnections", Hub, new)
               \o call("checkHubAndSpokeConnections", Hub, new)) \in Expanding
  BY <1>1, NewChainBridge, NewSpoke, CalmExpands
<1>4. PICK a \in Expanding : a = deployNewChain(new, oldSpokes)
  BY <1>2
<1>5. PICK b \in Expanding : b = deployNewChainBridge(new)
  BY <1>3
<1>6. PICK c \in Expanding : c = enrollSpokeInDev(new)
  BY <1>3
<1>7. PICK d \in Expanding : d = alone(checkCoreDeploy(new, <<Hub>>)
               \o call("checkHubAndSpokeBridgeConnections", Hub, new)
               \o call("checkHubAndSpokeConnections", Hub, new))
  BY <1>3
<1>8. a \o b \o c \o d \in Expanding
  BY ExpandingBoth
<1>9. deployAdditionalNetwork(new, oldSpokes) = a \o b \o c \o d
  BY <1>4, <1>5, <1>6, <1>7, Zenon DEF deployAdditionalNetwork
<1> QED
  BY <1>2, <1>3, <1>8, <1>9

(* What the proofs ask of a script. *)
Disciplined(s) == SoundScript(s) /\ GrowsInTurn(s) /\ RecordsFirst(s)

(* A script that has a step has a phase.                                   *)
LEMMA Begun ==
  ASSUME NEW s, RouterOf(Hub) \in stepsIn(s)
  PROVE  s # << >>
BY NoScript

(* A network is founded, then expanded: the whole keeps to the             *)
(* discipline.                                                             *)
LEMMA FoundsThenExpands ==
  ASSUME NEW s, Founds(s), NEW r \in Expanding
  PROVE  Disciplined(s \o r)
<1>1. Fits(Discipline, r, stepsIn(s))
  <2>1. PICK done : done = {RouterOf(Hub)}
    OBVIOUS
  <2>2. Fits(Discipline, r, done) /\ done \subseteq stepsIn(s)
    BY <2>1 DEF Founds, Expanding
  <2> QED
    BY <2>2, FitsMore
<1>2. Both(Discipline, s, r, {})
  BY <1>1, FromStart DEF Founds
<1>3. PICK sr, none : sr = s \o r /\ none = {}
  OBVIOUS
<1>4. Fits(Discipline, sr, none) /\ RouterOf(Hub) \in stepsIn(sr)
  BY <1>2, <1>3 DEF Both, Founds
<1>5. HandOver \subseteq Discipline /\ Indexing \subseteq Discipline
  BY DEF Discipline
<1>6. Fits(HandOver, sr, none) /\ Fits(Indexing, sr, none)
  BY <1>4, <1>5, FitsLess
<1>7. sr # << >>
  BY <1>4, Begun
<1> QED
  BY <1>3, <1>6, <1>7 DEF Disciplined, SoundScript, RecordsFirst, Fits

(* A script that records no blocks keeps to the discipline.                *)
LEMMA UnrecordedIsDisciplined ==
  ASSUME NEW s, Unrecorded(s), RouterOf(Hub) \in stepsIn(s)
  PROVE  Disciplined(s)
<1>1. s # << >>
  BY Begun
<1>2. \A p \in DOMAIN s : NoRecords(s[p])
  BY DEF Unrecorded, Quiet, NoRecords, stepsIn
<1> QED
  BY <1>1, <1>2 DEF Disciplined, SoundScript, RecordsFirst, Unrecorded, Fits

(* Every deployment keeps to the discipline.                               *)
LEMMA DeploymentsAreDisciplined == \A s \in Deployments : Disciplined(s)
<1>1. ASSUME NEW s \in Foundings, NEW more \in Seq(Bridgings \cup Additions)
      PROVE  Disciplined(s \o FlattenSeq(more))
  <2>1. more \in Seq(Expanding)
    <3>1. Bridgings \cup Additions \subseteq Expanding
      BY BridgingsAreCalm, CalmExpands, AdditionsExpand
    <3> QED
      BY <3>1
  <2>2. FlattenSeq(more) \in Expanding
    BY <2>1, ExpandingBoth, FlatIn
  <2>3. Founds(s)
    <3>1. \A spokes \in Seq(Chains \ {Hub}) : Founds(deployHubAndSpoke(spokes))
      BY HubAndSpokeFounds
    <3> QED
      BY <3>1, CompleteFounds DEF Foundings, Spokes
  <2> QED
    BY <2>2, <2>3, FoundsThenExpands
<1>2. ASSUME NEW non \in Spokes, NEW more \in Seq(Bridgings)
      PROVE  Disciplined(deployTwoChains(Hub, non) \o FlattenSeq(more))
  <2>1. more \in Seq(Calm)
    BY BridgingsAreCalm
  <2>2. PICK r \in Calm : r = FlattenSeq(more)
    BY <2>1, CalmBoth, FlatIn
  <2>3. PICK s : s = deployTwoChains(Hub, non) /\ Unrecorded(s) /\ RouterOf(Hub) \in stepsIn(s)
    BY TwoChains DEF Spokes
  <2>4. Both(HandOver, s, r, {}) /\ Unrecorded(s \o r)
    BY <2>3, UnrecordedThenCalm
  <2>5. RouterOf(Hub) \in stepsIn(s \o r)
    BY <2>3, <2>4 DEF Both
  <2>6. Disciplined(s \o r)
    BY <2>4, <2>5, UnrecordedIsDisciplined
  <2> QED
    BY <2>2, <2>3, <2>6
<1>3. ASSUME NEW d \in Deployments PROVE Disciplined(d)
  <2>1. \/ \E s \in Foundings : \E more \in Seq(Bridgings \cup Additions) : d = s \o FlattenSeq(more)
        \/ \E non \in Spokes : \E more \in Seq(Bridgings) :
             d = deployTwoChains(Hub, non) \o FlattenSeq(more)
    BY DEF Deployments
  <2>2. CASE \E s \in Foundings : \E more \in Seq(Bridgings \cup Additions) : d = s \o FlattenSeq(more)
    <3>1. PICK s \in Foundings, more \in Seq(Bridgings \cup Additions) : d = s \o FlattenSeq(more)
      BY <2>2
    <3>2. Disciplined(s \o FlattenSeq(more))
      BY <1>1
    <3> QED
      BY <3>1, <3>2, Zenon
  <2>3. CASE \E non \in Spokes : \E more \in Seq(Bridgings) :
               d = deployTwoChains(Hub, non) \o FlattenSeq(more)
    <3>1. PICK non \in Spokes, more \in Seq(Bridgings) :
            d = deployTwoChains(Hub, non) \o FlattenSeq(more)
      BY <2>3
    <3>2. Disciplined(deployTwoChains(Hub, non) \o FlattenSeq(more))
      BY <1>2
    <3> QED
      BY <3>1, <3>2, Zenon
  <2> QED
    BY <2>1, <2>2, <2>3
<1> QED
  BY <1>3

(***************************************************************************)
(* The theorems                                                            *)
(***************************************************************************)

(* A deployment begins with what the invariants say.                       *)
LEMMA Begins ==
  ASSUME Scripts \subseteq Deployments, DeployInit
  PROVE  \E s \in Deployments : /\ script = Tail(s) /\ todo = Head(s) /\ Disciplined(s)
                                /\ ScriptInv /\ MandateInv
                                /\ \A requires : MeetsScript(requires, s, {}) => ReadyInv(requires)
<1>1. PICK s \in Scripts : script = Tail(s) /\ todo = Head(s)
  BY DEF DeployInit
<1>2. s \in Deployments /\ Disciplined(s)
  BY DeploymentsAreDisciplined
<1> QED
  BY <1>1, <1>2, ScriptsStart, MandateStart DEF Disciplined, SoundScript

(* While scripts run and when they die, transactions on a chain have what  *)
(* they need, and the Hub can speak for each chain handed over.            *)
DeployInv == ScriptInv /\ ReadyInv(HandOver) /\ MandateInv

(* The invariant holds of every deployment.                                *)
LEMMA DeployInvHolds ==
  ASSUME Scripts \subseteq Deployments
  PROVE  DeploySpec => []DeployInv
<1>1. DeployInit => DeployInv
  BY Begins DEF DeployInv, Disciplined, SoundScript
<1>2. DeployInv /\ [DeployNext]_deployVars => DeployInv'
  <2> SUFFICES ASSUME DeployInv, [DeployNext]_deployVars PROVE DeployInv'
    OBVIOUS
  <2>1. governor[Hub] \in Accounts \cup {NoAccount}
    BY DeployAssumption DEF DeployInv, MandateInv, GovernanceType
  <2>2. ReadyInv(HandOver)' /\ ScriptInv'
    BY <2>1, NextReady, HandOverInherited DEF DeployInv, MandateInv, GovernanceType
  <2>3. MandateInv'
    BY MandateStep DEF DeployInv
  <2> QED
    BY <2>2, <2>3 DEF DeployInv
<1> QED
  BY <1>1, <1>2, PTL DEF DeploySpec

(* Wherever a script dies, every chain with a router has a governor of its *)
(* own or one the Hub can speak for.                                       *)
THEOREM DeployNeverOrphaned ==
  Scripts \subseteq Deployments => (DeploySpec => []NeverOrphaned)
<1> SUFFICES ASSUME Scripts \subseteq Deployments PROVE DeploySpec => []NeverOrphaned
  OBVIOUS
<1>1. DeployInv => NeverOrphaned
  <2> SUFFICES ASSUME MandateInv, NEW l \in Deployed, governor[l] = NoAccount
               PROVE  GovernedFromHub(l)
    BY DEF NeverOrphaned, DeployInv
  <2>1. HandedOver(l)
    BY DEF MandateInv
  <2>2. governor[Hub] # NoAccount
    BY <2>1 DEF MandateInv, HandedOver
  <2> QED
    BY <2>1, <2>2 DEF GovernedFromHub, HandedOver
<1> QED
  BY <1>1, DeployInvHolds, PTL

(* The Replicas of a chain share one beacon, whichever tasks and scripts   *)
(* deploy them.                                                            *)
THEOREM DeployOneBeacon ==
  Scripts \subseteq Deployments => (DeploySpec => []OneBeacon)
<1> SUFFICES ASSUME Scripts \subseteq Deployments PROVE DeploySpec => []OneBeacon
  OBVIOUS
<1>1. DeployInit => BeaconInv
  <2> SUFFICES ASSUME DeployInit PROVE BeaconInv
    OBVIOUS
  <2>1. PICK s \in Deployments : script = Tail(s) /\ todo = Head(s) /\ Disciplined(s)
    BY Begins
  <2>2. /\ todo = s[1] /\ 1 \in DOMAIN s
        /\ \A p \in DOMAIN Tail(s) : p + 1 \in DOMAIN s /\ Tail(s)[p] = s[p + 1]
    BY <2>1, AfterFirstPhase DEF Disciplined, SoundScript
  <2>3. GrowsInTurn(script) /\ OneDeployer(todo)
    BY <2>1, <2>2 DEF Disciplined, GrowsInTurn
  <2>4. \A l \in Chains : ToSet(mempool[l]) = {} /\ \A d \in Chains : beaconOf[l][d] = None
    BY NothingIsOrderly DEF DeployInit, ToSet
  <2>5. \A l \in Chains : \A b : ~Uses(l, b)
    BY <2>3, <2>4 DEF Uses, OneDeployer
  <2>6. \A l \in Chains : \A t \in DOMAIN todo : Concerned(todo[t], l) => \E x \in ToSet(todo[t]) : Deploys(x, l)
    BY <2>3 DEF OneDeployer, Concerned, Assigns, stepsOf
  <2>7. \A l \in Chains : \A t, u \in DOMAIN todo : Concerned(todo[t], l) /\ Concerned(todo[u], l) => t = u
    BY <2>3, <2>6 DEF OneDeployer
  <2> QED
    BY <2>3, <2>5, <2>7 DEF BeaconInv
<1>2. DeployInv /\ DeployInv' /\ BeaconInv /\ [DeployNext]_deployVars => BeaconInv'
  BY BeaconStep DEF DeployInv
<1>3. BeaconInv => OneBeacon
  BY DEF BeaconInv, OneBeacon, Uses
<1> QED
  BY <1>1, <1>2, <1>3, DeployInvHolds, PTL DEF DeploySpec

(* Where any block is recorded, the block of a chain is recorded before    *)
(* there is a Home.                                                        *)
THEOREM DeployIndexedFromTheStart ==
  Scripts \subseteq Deployments => (DeploySpec => []IndexedFromTheStart)
<1> SUFFICES ASSUME Scripts \subseteq Deployments PROVE DeploySpec => []IndexedFromTheStart
  OBVIOUS
<1> DEFINE Inv == NothingRecorded \/ HomesIndexed
<1>1. DeployInit => Inv
  <2> SUFFICES ASSUME DeployInit PROVE Inv
    OBVIOUS
  <2>1. PICK s \in Deployments :
          /\ script = Tail(s) /\ todo = Head(s) /\ Disciplined(s)
          /\ \A requires : MeetsScript(requires, s, {}) => ReadyInv(requires)
    BY Begins
  <2>2. /\ todo = s[1] /\ 1 \in DOMAIN s
        /\ \A p \in DOMAIN Tail(s) : p + 1 \in DOMAIN s /\ Tail(s)[p] = s[p + 1]
    BY <2>1, AfterFirstPhase DEF Disciplined, SoundScript
  <2>3. CASE \A p \in DOMAIN s : NoRecords(s[p])
    BY <2>1, <2>2, <2>3 DEF NothingRecorded, DeployInit
  <2>4. CASE MeetsScript(Indexing, s, {})
    <3>1. \A l \in Chains : ~exists(l, "Home")
      BY NothingIsOrderly DEF DeployInit, exists
    <3> QED
      BY <2>1, <2>4, <3>1 DEF HomesIndexed
  <2> QED
    BY <2>1, <2>3, <2>4 DEF Disciplined, RecordsFirst
<1>2. DeployInv /\ Inv /\ [DeployNext]_deployVars => Inv'
  <2> SUFFICES ASSUME DeployInv, Inv, [DeployNext]_deployVars PROVE Inv'
    OBVIOUS
  <2>1. governor[Hub] \in Accounts \cup {NoAccount}
    BY DeployAssumption DEF DeployInv, MandateInv, GovernanceType
  <2>2. CASE NothingRecorded
    BY <2>1, <2>2, NothingRecordedStep DEF DeployInv
  <2>3. CASE HomesIndexed
    BY <2>3, HomesIndexedStep DEF DeployInv
  <2> QED
    BY <2>2, <2>3
<1>3. Inv => IndexedFromTheStart
  BY DEF NothingRecorded, HomesIndexed, IndexedFromTheStart
<1> QED
  BY <1>1, <1>2, <1>3, DeployInvHolds, PTL DEF DeploySpec
================================================================================
