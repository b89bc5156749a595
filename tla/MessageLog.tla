----------------------------- MODULE MessageLog -----------------------------
(***************************************************************************)
(* What a Home promises to the rest of the system: an append-only log of   *)
(* distinct messages of which a growing prefix is committed, and which     *)
(* stops for good once fraud has been proven.                              *)
(***************************************************************************)
EXTENDS Integers, Sequences

CONSTANT Messages

VARIABLES
  log,         \* every message dispatched, in order
  committed,   \* how many of them the committed root covers
  halted       \* a fraud proof was accepted

logVars == <<log, committed, halted>>

Init == log = << >> /\ committed = 0 /\ halted = FALSE

Append1(m) ==
  /\ ~halted
  /\ \A i \in DOMAIN log : log[i] # m
  /\ log' = Append(log, m)
  /\ UNCHANGED <<committed, halted>>

Commit(n) ==
  /\ ~halted
  /\ n \in committed + 1 .. Len(log)
  /\ committed' = n
  /\ UNCHANGED <<log, halted>>

Halt ==
  /\ ~halted
  /\ halted' = TRUE
  /\ UNCHANGED <<log, committed>>

Next ==
  \/ \E m \in Messages : Append1(m)
  \/ \E n \in committed + 1 .. Len(log) : Commit(n)
  \/ Halt

Spec == Init /\ [][Next]_logVars
=============================================================================
