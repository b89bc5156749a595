--------------------------- MODULE MessageChannel ---------------------------
(***************************************************************************)
(* What the system promises an application: a message is received only     *)
(* after it has been sent, and at most once.                               *)
(***************************************************************************)
CONSTANT Messages

VARIABLES
  sent,       \* the messages sent
  received    \* how often each message has been received

channelVars == <<sent, received>>

Init == sent = {} /\ received = [m \in Messages |-> 0]

Send(m) ==
  /\ m \notin sent
  /\ sent' = sent \cup {m}
  /\ UNCHANGED received

Receive(m) ==
  /\ m \in sent
  /\ received[m] = 0
  /\ received' = [received EXCEPT ![m] = 1]
  /\ UNCHANGED sent

Next == \E m \in Messages : Send(m) \/ Receive(m)

Spec == Init /\ [][Next]_channelVars
=============================================================================
