------------------------------- MODULE RootGate -------------------------------
(***************************************************************************)
(* What the callers of the mutation lock rely on (ADR-0006, Durable        *)
(* journal and lock, and invariant 7): one owner; a live owner keeps the   *)
(* lock until it lets it go; the lock of a dead owner goes to recovery and *)
(* to nobody else.                                                         *)
(***************************************************************************)
CONSTANTS Processes, None

VARIABLES
  owner,       \* who owns the lock, dead or alive, or None
  live,        \* the processes that run
  recovering   \* those that run recover with the right to take over

gate == <<owner, live, recovering>>

Init ==
  /\ owner = None
  /\ live = Processes
  /\ recovering = {}

Acquire(p) ==
  /\ p \in live
  /\ owner = None
  /\ owner' = p
  /\ UNCHANGED <<live, recovering>>

Release(p) ==
  /\ p \in live
  /\ owner = p
  /\ owner' = None
  /\ UNCHANGED <<live, recovering>>

TakeOver(p) ==
  /\ p \in recovering
  /\ owner # None /\ owner \notin live
  /\ owner' = p
  /\ UNCHANGED <<live, recovering>>

Die(p) ==
  /\ p \in live
  /\ live' = live \ {p}
  /\ recovering' = recovering \ {p}
  /\ UNCHANGED owner

\* A process begins or ends a recovery.
Recovering(p) ==
  /\ p \in live
  /\ recovering' \in {recovering \cup {p}, recovering \ {p}}
  /\ UNCHANGED <<owner, live>>

Next ==
  \E p \in Processes :
    Acquire(p) \/ Release(p) \/ TakeOver(p) \/ Die(p) \/ Recovering(p)

Spec == Init /\ [][Next]_gate
=============================================================================
