------------------------------ MODULE NomadSDK ------------------------------
(***************************************************************************)
(* What a user of nomad-sdk learns of one message, by asking nodes for the *)
(* events of two chains that go on meanwhile: the Home it was dispatched   *)
(* on and the Replica it is to be processed on.  A block holds one event   *)
(* or none.  Every await is a step; any node may answer, also one that has *)
(* not seen the latest blocks, or none (Reject).                           *)
(*                                                                         *)
(* NomadMessage.events() and CallBatch.waitDomain() are modelled; the      *)
(* message waitDomain waits for is a batch of governance calls, whose      *)
(* BatchReceived event is in the block of its Process event.               *)
(***************************************************************************)
EXTENDS Naturals, Sequences, FiniteSets, FiniteSetsExt

CONSTANTS
  MaxMessages,     \* bound on dispatched messages
  MaxBlocks,       \* bound on the height of either chain
  paginate         \* of the domains: [from |-> deployment block, blocks |-> n]

ASSUME PaginateAssumption ==
  paginate \in [from : Nat \ {0}, blocks : Nat \ {0}]

VARIABLES
  homeLog,     \* the blocks of Home
  replicaLog,  \* the blocks of the Replica
  message,     \* the message the user holds, 0 before it is dispatched
  cache,       \* EventCache of the NomadMessage: blocks, 0 for undefined
  awaiting,    \* the query events() awaits the answer of
  status,      \* what events() has last returned
  error,       \* what it has last thrown since
  wait,        \* how far waitDomain is
  heardFrom    \* the block from which its listener hears events

chainVars == <<homeLog, replicaLog>>
eventsVars == <<cache, awaiting, status, error>>
waitVars == <<wait, heardFrom>>
sdkVars == <<chainVars, message, eventsVars, waitVars>>

----------------------------------------------------------------------------
(* The chains.  A root is the number of messages under it.                *)

None == "None"
Dispatch(m, root) == [event |-> "Dispatch", message |-> m, committedRoot |-> root]
Update(old, new) == [event |-> "Update", oldRoot |-> old, newRoot |-> new]
Process(m) == [event |-> "Process", message |-> m]
Empty == [event |-> "Empty"]

Of(log, kind) == {b \in DOMAIN log : log[b].event = kind}
dispatched == Cardinality(Of(homeLog, "Dispatch"))
committedRoot(log) == Max({0} \cup {log[b].newRoot : b \in Of(log, "Update")})
processed(m) == \E b \in Of(replicaLog, "Process") : replicaLog[b].message = m

MineHome(e) ==
  /\ Len(homeLog) < MaxBlocks
  /\ homeLog' = Append(homeLog, e)
  /\ UNCHANGED <<replicaLog, message, eventsVars, waitVars>>

MineReplica(e) ==
  /\ Len(replicaLog) < MaxBlocks
  /\ replicaLog' = Append(replicaLog, e)
  /\ UNCHANGED <<homeLog, message, eventsVars, waitVars>>

dispatch ==
  /\ dispatched < MaxMessages
  /\ MineHome(Dispatch(dispatched + 1, committedRoot(homeLog)))

(* The updater may have signed new before the latest dispatches.           *)
update ==
  \E new \in committedRoot(homeLog) + 1 .. dispatched :
    MineHome(Update(committedRoot(homeLog), new))

relay ==
  \E b \in Of(homeLog, "Update") :
    /\ homeLog[b].oldRoot = committedRoot(replicaLog)
    /\ MineReplica(homeLog[b])

process ==
  \E m \in 1 .. committedRoot(replicaLog) : ~processed(m) /\ MineReplica(Process(m))

EmptyBlock == MineHome(Empty) \/ MineReplica(Empty)

----------------------------------------------------------------------------
(* events/fetch.ts, as answered by a node at this height: a filter is the  *)
(* set of the blocks with such an event, found on every page with the block. *)

queryFilter(filter, from, to) == filter \cap from .. to

(* Mutated: after a page, the search goes on one block too late.           *)
pagesWithGaps(lastBlock) ==
  {<<from, Min({from + paginate.blocks - 1, lastBlock})>> :
     from \in {f \in paginate.from .. lastBlock :
                 (f - paginate.from) % (paginate.blocks + 1) = 0}}

pages(lastBlock) ==
  {<<from, Min({from + paginate.blocks, lastBlock})>> :
     from \in {f \in paginate.from .. lastBlock : (f - paginate.from) % paginate.blocks = 0}}

getPaginatedEvents(filter, height) ==
  UNION {{[page |-> p, block |-> b] : b \in queryFilter(filter, p[1], p[2])} :
           p \in pages(height)}

----------------------------------------------------------------------------
(* NomadMessage                                                            *)

Statuses == <<None, "Dispatched", "Included", "Relayed", "Processed">>
NoCache == [homeUpdate |-> 0, replicaUpdate |-> 0, process |-> 0]

(* NomadMessage.singleFromReceipt, or the BatchMessage that waitDomain     *)
(* takes from the receipt of CallBatch.execute().                          *)
singleFromReceipt ==
  /\ message = 0
  /\ message' \in 1 .. dispatched
  /\ UNCHANGED <<chainVars, eventsVars, waitVars>>

(* committedRoot of the message: the root of Home when it was dispatched.  *)
rootAtDispatch ==
  LET b == CHOOSE b \in Of(homeLog, "Dispatch") : homeLog[b].message = message
  IN homeLog[b].committedRoot

(* The blocks whose events match the filters.                              *)
isUpdate(log) == {b \in Of(log, "Update") : log[b].oldRoot = rootAtDispatch}
isProcess == {b \in Of(replicaLog, "Process") : replicaLog[b].message = message}

checkDistinctUpdates(updates) == \A u, v \in updates : u.block = v.block

(* events() returns, and is called again; or throws, and is called again.  *)
return(s) ==
  /\ status' = s /\ error' = None /\ awaiting' = "homeUpdate"

throw(e) ==
  /\ error' = e /\ awaiting' = "homeUpdate"
  /\ UNCHANGED <<status, cache>>

(* Mutated: the update is not kept.                                        *)
getUpdateUncached(field, log, height, next, without) ==
  LET updates == getPaginatedEvents(isUpdate(log), height)
  IN IF updates = {} THEN return(without) /\ UNCHANGED cache
     ELSE awaiting' = next /\ UNCHANGED <<cache, status, error>>

(* getHomeUpdate and getReplicaUpdate share all but the contract they ask. *)
getUpdate(field, log, height, next, without) ==
  LET updates == getPaginatedEvents(isUpdate(log), height)
  IN CASE cache[field] # 0 ->
            /\ awaiting' = next
            /\ UNCHANGED <<cache, status, error>>
       [] cache[field] = 0 /\ updates = {} ->
            return(without) /\ UNCHANGED cache
       [] cache[field] = 0 /\ updates # {} /\ checkDistinctUpdates(updates) ->
            /\ cache' = [cache EXCEPT ![field] = (CHOOSE u \in updates : TRUE).block]
            /\ awaiting' = next
            /\ UNCHANGED <<status, error>>
       [] OTHER -> throw("multiple updates for same root")

getHomeUpdate(height) ==
  /\ awaiting = "homeUpdate" /\ message # 0
  /\ getUpdate("homeUpdate", homeLog, height, "replicaUpdate", "Dispatched")
  /\ UNCHANGED <<chainVars, message, waitVars>>

getReplicaUpdate(height) ==
  /\ awaiting = "replicaUpdate"
  /\ getUpdate("replicaUpdate", replicaLog, height, "process", "Included")
  /\ UNCHANGED <<chainVars, message, waitVars>>

getProcess(height) ==
  /\ awaiting = "process"
  /\ LET found == getPaginatedEvents(isProcess, height)
     IN \/ cache.process # 0 /\ return("Processed") /\ UNCHANGED cache
        \/ cache.process = 0 /\ Cardinality(found) = 0 /\ return("Relayed") /\ UNCHANGED cache
        \/ /\ cache.process = 0 /\ Cardinality(found) = 1
           /\ cache' = [cache EXCEPT !.process = (CHOOSE p \in found : TRUE).block]
           /\ return("Processed")
        \/ /\ cache.process = 0 /\ Cardinality(found) > 1
           /\ throw("multiple replica process for same message")
  /\ UNCHANGED <<chainVars, message, waitVars>>

(* No node answers: the query rejects, and so does events().               *)
Reject ==
  /\ message # 0
  /\ throw("rejected")
  /\ UNCHANGED <<chainVars, message, waitVars>>

----------------------------------------------------------------------------
(* CallBatch.waitDomain: the listener is there before the query is sent.   *)

registerListener ==
  /\ wait = "called" /\ message # 0
  /\ wait' = "listening" /\ heardFrom' = Len(replicaLog) + 1
  /\ UNCHANGED <<chainVars, message, eventsVars>>

(* Mutated: the listener is registered after the answer.                   *)
queryThenListen(height) ==
  /\ wait = "listening" /\ height + 1 >= heardFrom
  /\ \/ /\ queryFilter(isProcess, 1, height) # {}
        /\ wait' = "returned" /\ UNCHANGED heardFrom
     \/ /\ queryFilter(isProcess, 1, height) = {}
        /\ wait' = "awaiting listener" /\ heardFrom' = Len(replicaLog) + 1
  /\ UNCHANGED <<chainVars, message, eventsVars>>

(* The node that answers is the one the listener was registered at.        *)
queryReceived(height) ==
  /\ wait = "listening" /\ height + 1 >= heardFrom
  /\ wait' = IF queryFilter(isProcess, 1, height) # {}
             THEN "returned" ELSE "awaiting listener"
  /\ UNCHANGED <<chainVars, message, eventsVars, heardFrom>>

listenerFires ==
  /\ wait = "awaiting listener"
  /\ queryFilter(isProcess, heardFrom, Len(replicaLog)) # {}
  /\ wait' = "returned"
  /\ UNCHANGED <<chainVars, message, eventsVars, heardFrom>>

----------------------------------------------------------------------------
SDKInit ==
  /\ homeLog = <<>> /\ replicaLog = <<>> /\ message = 0
  /\ cache = NoCache /\ status = None /\ error = None
  /\ heardFrom = 1
  (* the user makes one call or the other *)
  /\ \/ awaiting = "homeUpdate" /\ wait = "not called"
     \/ awaiting = "not called" /\ wait = "called"

Chains == dispatch \/ update \/ relay \/ process \/ EmptyBlock

SDKNext ==
  \/ Chains
  \/ singleFromReceipt
  \/ \E h \in 0 .. Len(homeLog) : getHomeUpdate(h)
  \/ \E h \in 0 .. Len(replicaLog) : getReplicaUpdate(h) \/ getProcess(h)
  \/ awaiting # "not called" /\ Reject
  \/ registerListener
  \/ \E h \in 0 .. Len(replicaLog) : queryReceived(h)
  \/ listenerFires

(* Time and again a node that is up to date answers, as often as it takes; *)
(* nothing is assumed of the chains.                                       *)
SDKFairness ==
  /\ SF_sdkVars(getHomeUpdate(Len(homeLog)))
  /\ SF_sdkVars(getReplicaUpdate(Len(replicaLog)))
  /\ SF_sdkVars(getProcess(Len(replicaLog)))
  /\ WF_sdkVars(registerListener)
  /\ WF_sdkVars(queryReceived(Len(replicaLog)))
  /\ WF_sdkVars(listenerFires)

SDKSpec == SDKInit /\ [][SDKNext]_sdkVars /\ SDKFairness

----------------------------------------------------------------------------
(* A status never goes back, whichever nodes answer the next call: what a  *)
(* lagging node does not know was kept from the answer of another.         *)
StatusOnlyAdvances ==
  [][\A i, j \in DOMAIN Statuses : status = Statuses[i] /\ status' = Statuses[j] => i <= j]_sdkVars

(* The block at which one page ends and the next one begins.               *)
pageBoundary(b) ==
  b > paginate.from /\ (b - paginate.from) % paginate.blocks = 0

processedInside ==
  /\ message # 0 /\ awaiting # "not called"
  /\ \E b \in Of(replicaLog, "Process") :
       replicaLog[b].message = message /\ ~pageBoundary(b)

(* A message that was processed is reported as Processed, if not in the    *)
(* block in which two pages overlap: the three events are found by the     *)
(* root at dispatch although updates that do not contain the message begin *)
(* there too, and although the events of an update may come twice.         *)
ProcessedIsReported == processedInside ~> status = "Processed"

(* waitDomain returns once the domain has received the batch, also if it   *)
(* does so between the query and its answer, or before the call.           *)
BatchIsNoticed ==
  (wait # "not called" /\ message # 0 /\ processed(message)) ~> wait = "returned"

(* getProcess throws 'multiple replica process for same message' only if   *)
(* the Replica has processed the message more than once.                   *)
ThrowsOnlyIfProcessedTwice ==
  error = "multiple replica process for same message" =>
    Cardinality({b \in Of(replicaLog, "Process") : replicaLog[b].message = message}) > 1
=============================================================================
