------------------------- MODULE MCPersistTransaction -------------------------
(* PersistTransaction and Commands for TLC: three steps, one of each sort. *)
EXTENDS Commands, TLC

\* Safety only: regions are interchangeable.
Symmetry == Permutations(Regions)

\* Region codes of one language: en-US, en-GB, en-SG.
BaseLanguages == [v \in Values |-> IF v \in Regions THEN "en" ELSE "other"]

\* No two of one language, so that no list is folded.
DistinctLanguages == [v \in Values |-> v]

\* What is asked of `persist on' without options, over everything the state may hold.
ASSUME PlainRequests ==
  \A st \in States({None}) :
    PersistOnTarget([region |-> None, level |-> None, deep |-> FALSE], st)
      = IF st.target = None THEN [mode |-> "standard", region |-> st.preferred] ELSE st.target
=============================================================================
