------------------------------- MODULE MCDesktop -------------------------------
(* Desktop for TLC.                                                        *)
EXTENDS Desktop, TLC

Symmetry == Permutations(Fonts) \cup Permutations(Names)

\* Bound: at first every font has the one value its installer gave it.  Others
\* appear later, and removals leave fonts without any.
BoundedInit == Init /\ \E n \in Names : registered = installed \X {n}

BoundedSpec == BoundedInit /\ [][Next]_vars
=============================================================================
