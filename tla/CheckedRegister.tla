---------------------------- MODULE CheckedRegister ----------------------------
(***************************************************************************)
(* What the users of a checked file rely on: the pair of generations is    *)
(* one register.  It takes a new value only from the write or deletion     *)
(* that is under way, at one moment; a process that dies changes nothing;  *)
(* only damage to the medium may change it otherwise.                      *)
(***************************************************************************)
EXTENDS Naturals

CONSTANTS
  Values,   \* what the register may hold
  Idle      \* no write is under way

VARIABLES
  value,
  pending,  \* the value that is being written, or Idle
  damages   \* how often the medium was damaged

Init ==
  /\ value \in Values
  /\ pending = Idle
  /\ damages = 0

Begin ==
  /\ pending = Idle
  /\ pending' \in Values
  /\ UNCHANGED <<value, damages>>

\* The write takes effect, and may end with that.
TakeEffect ==
  /\ pending # Idle
  /\ value' = pending
  /\ pending' \in {pending, Idle}
  /\ UNCHANGED damages

\* The write ends, or its process dies, or it is given up for another one.
End ==
  /\ pending # Idle
  /\ pending' \in Values \cup {Idle}
  /\ UNCHANGED <<value, damages>>

Damage ==
  /\ damages' = damages + 1
  /\ value' \in Values
  /\ pending' \in {pending, Idle}

Next == Begin \/ TakeEffect \/ End \/ Damage

Spec == Init /\ [][Next]_<<value, pending, damages>>
=============================================================================
