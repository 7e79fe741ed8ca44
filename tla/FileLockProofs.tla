---------------------------- MODULE FileLockProofs ----------------------------
(***************************************************************************)
(* Mutual exclusion of the mutation lock, that it implements RootGate, and *)
(* that a heartbeat never costs its process the lock, for any number of    *)
(* processes, crashes and failed operations, and however many takeovers    *)
(* contend: for as long as no unlink has hit the claim of a takeover that  *)
(* still needed it (`stolen').  From then on they are false                *)
(* (LiveLockIsKept); the types hold regardless.                            *)
(***************************************************************************)
EXTENDS FileLock, TLAPS

-----------------------------------------------------------------------------
(* The inductive invariant.                                                *)

Places == Claiming \cup Claimed \cup {"none"}

Shapes ==
  /\ alive \subseteq Processes
  /\ pc \in [Processes -> Calls]
  /\ mode \in [Processes -> {"mutate", "recover", "takeover"}]
  /\ at \in [Processes -> [Threads -> Places]]
  /\ outcome \in [Processes -> [Threads -> {"yes", "no", "threw"}]]
  /\ mine \in [Processes -> Ids \cup {None}]
  /\ seen \in [Processes -> Ids \cup {None}]
  /\ lock \in Locks \cup {None}

\* A dead process does nothing any more.
DeadAreIdle ==
  \A p \in Processes : p \notin alive =>
    pc[p] = "idle" /\ mode[p] = "mutate" /\ \A t \in Threads : at[p][t] = "none"

\* Which thread is in a claim section when, and never two of a process; a
\* positive outcome is one of a finished commit.
SectionsFit ==
  \A p \in Processes :
    /\ at[p]["main"] # "none" => pc[p] \in {"takeover", "releasing"}
    /\ at[p]["beat"] # "none" => pc[p] \in {"holding", "releasing"}
    /\ at[p]["main"] = "none" \/ at[p]["beat"] = "none"
    /\ outcome[p]["main"] = "yes" => at[p]["main"] \in {"unclaim", "unclaim_unlink"}

\* The claim file is the one that p's caller made.
HasClaim(p) == claim # None /\ claim.by = p /\ claim.thread = "main"

\* From making its claim to replacing the lock file a takeover has its claim in
\* place: there is never more than one that far.
ClaimsInHand == \A p \in Processes : TakingOver(p) => HasClaim(p)

\* From creating the lock file, or replacing the record in it, to unlinking
\* it, the process knows it to be its own.
Owns(p) ==
  \/ pc[p] \in {"write", "holding"}
  \/ pc[p] = "releasing" /\ at[p]["main"] \notin {"unclaim", "unclaim_unlink"}
  \/ pc[p] = "takeover" /\ outcome[p]["main"] = "yes"

OwnersAreNamed ==
  \A p \in Processes :
    Owns(p) => lock # None /\ lock.owner = p /\ IdOf(lock) = mine[p]

\* A takeover is one from a dead owner, and between the comparison and the
\* rename the lock file does not change hands.
TakeoversAreDue ==
  \A p \in Processes : pc[p] = "takeover" =>
    /\ mode[p] = "takeover"
    /\ mine[p] \in Ids /\ mine[p].owner = p
    /\ seen[p].owner \notin alive
    /\ at[p]["main"] = "commit" => lock # None /\ IdOf(lock) = seen[p]

LockInv ==
  /\ Shapes /\ DeadAreIdle /\ SectionsFit /\ ClaimsInHand
  /\ OwnersAreNamed /\ TakeoversAreDue

-----------------------------------------------------------------------------
(* It holds initially and every step keeps it.                             *)

\* Nothing is held, claimed or taken over at first.
LEMMA LockInit == Init => LockInv
BY DEF Init, LockInv, Shapes, DeadAreIdle, SectionsFit, ClaimsInHand, TakingOver, Owns,
       OwnersAreNamed, TakeoversAreDue, Calls, Threads, Places

\* An attempt ends or starts over: nothing is owned before or after.
LEMMA AttemptKeeps ==
  ASSUME LockInv, NEW p \in Processes, NEW place \in {"idle", "create"},
         NEW kind \in {"mutate", "recover", "takeover"},
         place = "create" => p \in alive, p \notin alive => kind = "mutate",
         pc' = [pc EXCEPT ![p] = place],
         mode' = [mode EXCEPT ![p] = kind],
         mine' = [mine EXCEPT ![p] = None],
         seen' = [seen EXCEPT ![p] = None],
         at[p]["main"] = "none", at[p]["beat"] = "none",
         UNCHANGED <<lock, claim, alive, sections>>
  PROVE  LockInv'
BY DEF sections, LockInv, Shapes, DeadAreIdle, SectionsFit, ClaimsInHand, TakingOver, HasClaim, Owns,
       OwnersAreNamed, TakeoversAreDue, Calls, Threads, IdOf

\* A process that is within acquire lives, and is in no claim section.
LEMMA Attempting ==
  ASSUME LockInv, NEW p \in Processes,
         pc[p] \notin {"takeover", "holding", "releasing"}
  PROVE  /\ at[p]["main"] = "none" /\ at[p]["beat"] = "none"
         /\ pc[p] # "idle" => p \in alive
         /\ mode[p] \in {"mutate", "recover", "takeover"}
         /\ mode = [mode EXCEPT ![p] = mode[p]]
BY DEF LockInv, Shapes, DeadAreIdle, SectionsFit

\* A fresh id is an id of the process that draws it.
LEMMA FreshIsAnId ==
  ASSUME NEW p \in Processes, FreshIds(p) # {}
  PROVE  FreshId(p) \in Ids /\ FreshId(p).owner = p /\ FreshId(p).id \in LockIds
<1>1. (CHOOSE id \in FreshIds(p) : TRUE) \in FreshIds(p)
  OBVIOUS
<1>2. (CHOOSE id \in FreshIds(p) : TRUE) \in LockIds
  BY <1>1 DEF FreshIds
<1> QED BY <1>2 DEF FreshId, Ids

\* A lock file made for an id names it.
LEMMA FileNamed ==
  ASSUME NEW id \in Ids, NEW written \in BOOLEAN,
         NEW file, file = [owner |-> id.owner, id |-> id.id, written |-> written]
  PROVE  file \in Locks /\ file # None /\ file.owner = id.owner /\ IdOf(file) = id
<1>1. PICK p \in Processes, i \in LockIds : id = [owner |-> p, id |-> i]
  BY DEF Ids
<1>2. id.owner = p /\ id.id = i
  BY <1>1
<1>3. file = [owner |-> p, id |-> i, written |-> written]
  BY <1>2
<1>4. file \in Locks
  BY <1>3 DEF Locks
<1>5. file.owner = p /\ file.id = i
  BY <1>3
<1> QED BY <1>1, <1>2, <1>4, <1>5, LockAssumption DEF IdOf

\* The record that a process writes names its lock.
LEMMA RecordNamed ==
  ASSUME NEW p \in Processes, mine[p] \in Ids, mine[p].owner = p
  PROVE  /\ Record(p) \in Locks /\ Record(p) # None
         /\ Record(p).owner = p /\ IdOf(Record(p)) = mine[p]
BY FileNamed DEF Record

\* What the lock file names is an id.
LEMMA LockNamed ==
  ASSUME NEW file \in Locks
  PROVE  /\ file # None /\ IdOf(file) \in Ids /\ file.owner \in Processes
         /\ IdOf(file).owner = file.owner
BY LockAssumption DEF Locks, Ids, IdOf

\* Looking at the lock file changes nothing but what the process has seen.
LEMMA LookKeeps ==
  ASSUME LockInv, NEW p \in Processes, NEW place \in {"read", "inspect"},
         pc[p] \in {"create", "read"},
         pc' = [pc EXCEPT ![p] = place],
         NEW found \in Ids \cup {None},
         seen' = [seen EXCEPT ![p] = found],
         UNCHANGED <<lock, claim, alive, mode, mine, sections>>
  PROVE  LockInv'
<1>1. p \in alive /\ at[p]["main"] = "none" /\ at[p]["beat"] = "none"
  BY Attempting
<1>2. UNCHANGED <<at, outcome>>
  BY DEF sections
<1>3. Shapes'
  BY <1>2 DEF LockInv, Shapes, Calls
<1>4. DeadAreIdle' /\ SectionsFit'
  BY <1>1, <1>2 DEF LockInv, Shapes, DeadAreIdle, SectionsFit
<1>5. ClaimsInHand'
  BY <1>1, <1>2 DEF LockInv, Shapes, ClaimsInHand, TakingOver, HasClaim
<1>6. OwnersAreNamed' /\ TakeoversAreDue'
  BY <1>2 DEF LockInv, Shapes, OwnersAreNamed, Owns, TakeoversAreDue, IdOf
<1> QED BY <1>3, <1>4, <1>5, <1>6 DEF LockInv

\* Asking for the lock touches no file.
LEMMA StartAcquireKeeps ==
  ASSUME LockInv, NEW p \in Processes, NEW kind \in {"mutate", "recover"}, StartAcquire(p, kind)
  PROVE  LockInv'
BY Attempting, AttemptKeeps DEF StartAcquire, BeginCall, filesAndProcesses, sections

\* A lock file is created where there is none.
LEMMA CreateLockKeeps ==
  ASSUME LockInv, NEW p \in Processes, CreateLock(p)
  PROVE  LockInv'
<1> USE DEF sections, LockInv, Threads
<1>1. CASE lock = None
  <2> DEFINE file == [owner |-> p, id |-> FreshId(p).id, written |-> FALSE]
  <2>1. /\ pc' = [pc EXCEPT ![p] = "write"]
        /\ mine' = [mine EXCEPT ![p] = FreshId(p)]
        /\ lock' = file
        /\ UNCHANGED <<claim, alive, mode, seen, at, outcome>>
        /\ pc[p] = "create" /\ FreshIds(p) # {}
    BY <1>1 DEF CreateLock
  <2>2. FreshId(p) \in Ids /\ FreshId(p).owner = p /\ FreshId(p).id \in LockIds
    BY <2>1, FreshIsAnId
  <2>3. /\ file \in Locks /\ file # None
        /\ file.owner = p /\ IdOf(file) = FreshId(p)
    BY <2>2, FileNamed
  <2> HIDE DEF file
  <2>4. p \in alive /\ at[p]["main"] = "none" /\ at[p]["beat"] = "none"
    BY <2>1, Attempting
  <2>5. Shapes'
    BY <2>1, <2>2, <2>3 DEF Shapes, Calls
  <2>6. DeadAreIdle' /\ SectionsFit'
    BY <2>1, <2>4 DEF Shapes, DeadAreIdle, SectionsFit
  <2>7. ClaimsInHand'
    BY <2>1, <2>4 DEF Shapes, ClaimsInHand, TakingOver, HasClaim
  <2>8. OwnersAreNamed'
    BY <1>1, <2>1, <2>3 DEF OwnersAreNamed, Owns, Shapes
  <2>9. TakeoversAreDue'
    BY <1>1, <2>1 DEF TakeoversAreDue, Shapes
  <2> QED BY <2>5, <2>6, <2>7, <2>8, <2>9
<1>2. CASE lock # None
  <2>1. seen' = [seen EXCEPT ![p] = seen[p]] /\ seen[p] \in Ids \cup {None}
    BY <1>2 DEF CreateLock, Shapes
  <2> QED BY <1>2, <2>1, LookKeeps DEF CreateLock
<1> QED BY <1>1, <1>2

\* The record is written into the file that was created.
LEMMA WriteLockKeeps ==
  ASSUME LockInv, NEW p \in Processes, WriteLock(p)
  PROVE  LockInv'
<1>1. pc[p] = "write" /\ p \in alive
  BY DEF WriteLock, LockInv, DeadAreIdle
<1>2. CASE EndCall(p)
  <2>1. lock # None /\ lock.owner = p /\ IdOf(lock) = mine[p]
    BY <1>1 DEF LockInv, OwnersAreNamed, Owns
  <2>2. mine[p] \in Ids /\ mine[p].owner = p
    BY <2>1, LockNamed DEF LockInv, Shapes
  <2>3. lock' = lock \/ lock' = Record(p)
    BY <2>1 DEF WriteLock
  <2>4. lock' \in Locks /\ lock' # None /\ lock'.owner = p /\ IdOf(lock') = mine[p]
    BY <2>1, <2>2, <2>3, RecordNamed DEF LockInv, Shapes
  <2>5. /\ pc' = [pc EXCEPT ![p] = "idle"]
        /\ mode' = [mode EXCEPT ![p] = "mutate"]
        /\ mine' = [mine EXCEPT ![p] = None]
        /\ seen' = [seen EXCEPT ![p] = None]
        /\ UNCHANGED <<claim, alive, at, outcome>>
    BY <1>2 DEF EndCall, BeginCall, WriteLock, sections
  <2>6. at[p]["main"] = "none" /\ at[p]["beat"] = "none"
    BY <1>1, Attempting
  <2>7. Shapes'
    BY <2>4, <2>5 DEF LockInv, Shapes, Calls
  <2>8. DeadAreIdle' /\ SectionsFit'
    BY <1>1, <2>5, <2>6 DEF LockInv, Shapes, DeadAreIdle, SectionsFit
  <2>9. ClaimsInHand'
    BY <2>5, <2>6 DEF LockInv, Shapes, ClaimsInHand, TakingOver, HasClaim
  <2>10. OwnersAreNamed'
    BY <2>1, <2>4, <2>5, <2>6 DEF LockInv, Shapes, SectionsFit, OwnersAreNamed, Owns
  <2>11. TakeoversAreDue'
    BY <2>1, <2>4, <2>5 DEF LockInv, Shapes, TakeoversAreDue
  <2> QED BY <2>7, <2>8, <2>9, <2>10, <2>11 DEF LockInv
<1>3. CASE ~EndCall(p)
  <2>1. lock # None /\ lock.owner = p /\ IdOf(lock) = mine[p]
    BY <1>1 DEF LockInv, OwnersAreNamed, Owns
  <2>2. /\ mine[p] \in Ids /\ mine[p].owner = p
        /\ lock' = Record(p)
    BY <1>3, <2>1, LockNamed DEF WriteLock, LockInv, Shapes
  <2>3. /\ pc' = [pc EXCEPT ![p] = "holding"]
        /\ mode' = [mode EXCEPT ![p] = "mutate"]
        /\ seen' = [seen EXCEPT ![p] = None]
        /\ UNCHANGED <<mine, claim, alive, at, outcome>>
    BY <1>3 DEF WriteLock, Hold, sections
  <2>4. Shapes' /\ DeadAreIdle' /\ SectionsFit' /\ ClaimsInHand'
    <3>1. at[p]["main"] = "none" /\ at[p]["beat"] = "none"
      BY <1>1, Attempting
    <3>2. Shapes'
      BY <2>2, <2>3, RecordNamed DEF LockInv, Shapes, Calls
    <3>3. DeadAreIdle' /\ SectionsFit'
      BY <1>1, <2>3, <3>1 DEF LockInv, Shapes, DeadAreIdle, SectionsFit
    <3>4. ClaimsInHand'
      BY <2>3, <3>1 DEF LockInv, Shapes, ClaimsInHand, TakingOver, HasClaim
    <3> QED BY <3>2, <3>3, <3>4
  <2>5. lock' # None /\ lock'.owner = p /\ IdOf(lock') = mine[p]
    BY <2>2, RecordNamed
  <2>6. OwnersAreNamed'
    BY <1>1, <2>1, <2>3, <2>5 DEF LockInv, Shapes, OwnersAreNamed, Owns
  <2>7. TakeoversAreDue'
    BY <1>1, <2>1, <2>3, <2>5 DEF LockInv, Shapes, TakeoversAreDue
  <2> QED BY <2>4, <2>6, <2>7 DEF LockInv
<1> QED BY <1>2, <1>3

\* Reading the lock file, and trying again, touch no file.
LEMMA ReadLockKeeps ==
  ASSUME LockInv, NEW p \in Processes, ReadLock(p)
  PROVE  LockInv'
<1>1. pc[p] = "read" /\ p \in alive
  BY DEF ReadLock, LockInv, DeadAreIdle
<1>2. CASE Parsed(lock) = None
  BY <1>1, <1>2, Attempting, AttemptKeeps
     DEF ReadLock, Retry, EndCall, BeginCall, sections, filesAndProcesses
<1>3. CASE Parsed(lock) # None
  <2>1. IdOf(lock) \in Ids
    BY <1>3, LockNamed DEF Parsed, LockInv, Shapes
  <2> QED BY <1>1, <1>3, <2>1, LookKeeps DEF ReadLock, filesAndProcesses
<1> QED BY <1>2, <1>3

\* An owner that is found dead is dead, however old the answer: only a
\* positive answer outlives the process.
LEMMA InspectKeeps ==
  ASSUME LockInv, NEW p \in Processes, Inspect(p)
  PROVE  LockInv'
<1>1. CASE EndCall(p)
  BY <1>1, Attempting, AttemptKeeps DEF Inspect, EndCall, BeginCall, sections
<1>2. CASE BeginCall(p, "create", "takeover")
  BY <1>2, Attempting, AttemptKeeps DEF Inspect, BeginCall, sections
<1>3. CASE ~EndCall(p) /\ ~BeginCall(p, "create", "takeover")
  <2>1. /\ pc' = [pc EXCEPT ![p] = "takeover"]
        /\ mine' = [mine EXCEPT ![p] = FreshId(p)]
        /\ UNCHANGED <<mode, attempts, seen>>
        /\ seen[p].owner \notin alive
        /\ mode[p] = "takeover" /\ FreshIds(p) # {}
    BY <1>3 DEF Inspect, Refused, SameProcess, LockInv, Shapes
  <2>2. /\ pc[p] = "inspect" /\ at[p]["main"] = "none" /\ at[p]["beat"] = "none"
        /\ p \in alive
        /\ UNCHANGED <<lock, claim, alive, at, outcome>>
    BY Attempting DEF Inspect, sections
  <2>3. FreshId(p) \in Ids /\ FreshId(p).owner = p
    BY <2>1, FreshIsAnId
  <2>4. Shapes' /\ DeadAreIdle' /\ SectionsFit' /\ ClaimsInHand'
    BY <2>1, <2>2, <2>3
       DEF LockInv, Shapes, DeadAreIdle, SectionsFit, ClaimsInHand, TakingOver, HasClaim, Calls, Threads
  <2>5. OwnersAreNamed'
    BY <2>1, <2>2 DEF LockInv, Shapes, SectionsFit, OwnersAreNamed, Owns, IdOf
  <2>6. TakeoversAreDue'
    BY <2>1, <2>2, <2>3 DEF LockInv, Shapes, TakeoversAreDue, IdOf
  <2> QED BY <2>4, <2>5, <2>6 DEF LockInv
<1> QED BY <1>1, <1>2, <1>3

\* A release begins with the heartbeat still in its section, if at all.
LEMMA StartReleaseKeeps ==
  ASSUME LockInv, NEW p \in Processes, StartRelease(p)
  PROVE  LockInv'
BY DEF StartRelease, sections, filesAndProcesses,
       LockInv, Shapes, DeadAreIdle, SectionsFit, ClaimsInHand, TakingOver, HasClaim, Owns,
       OwnersAreNamed, TakeoversAreDue, Calls, Threads, IdOf

\* A crash leaves the files; who takes over from the dead still may.
LEMMA CrashKeeps ==
  ASSUME LockInv, NEW p \in Processes, Crash(p)
  PROVE  LockInv'
BY DEF Crash, EndCall, BeginCall,
       LockInv, Shapes, DeadAreIdle, SectionsFit, ClaimsInHand, TakingOver, HasClaim, Owns,
       OwnersAreNamed, TakeoversAreDue, Calls, Threads, IdOf, Places

\* Answers about the dead are dropped.
LEMMA ExpireKeeps ==
  ASSUME LockInv, NEW p \in Processes, Expire(p)
  PROVE  LockInv'
BY DEF Expire, callers, sections,
       LockInv, Shapes, DeadAreIdle, SectionsFit, ClaimsInHand, TakingOver, HasClaim, Owns,
       OwnersAreNamed, TakeoversAreDue, Calls, Threads, IdOf, Places

\* One section at a time in a process.
LEMMA EnterSectionKeeps ==
  ASSUME LockInv, NEW p \in Processes, NEW t \in Threads, EnterSection(p, t)
  PROVE  LockInv'
BY DEF EnterSection, Wants, Turn, Go, callers, filesAndProcesses,
       LockInv, Shapes, DeadAreIdle, SectionsFit, ClaimsInHand, TakingOver, HasClaim, Owns,
       OwnersAreNamed, TakeoversAreDue, Calls, Threads, IdOf, Places, Claiming

\* The claim file and those who need it stay.
LEMMA ClaimsKept ==
  ASSUME ClaimsInHand, \A p \in Processes : TakingOver(p)' => TakingOver(p) /\ HasClaim(p)'
  PROVE  ClaimsInHand'
BY DEF ClaimsInHand

\* What an unlink of the claim file leaves, unless it steals a claim.
LEMMA UnlinkSpares ==
  ASSUME LockInv, Unlink, ~stolen'
  PROVE  \A p \in Processes : ~TakingOver(p)
BY DEF Unlink, LockInv, ClaimsInHand, HasClaim

\* A step within the section that leaves the lock file and the caller alone.
LEMMA GoKeeps ==
  ASSUME LockInv, ClaimsInHand', NEW p \in Processes, NEW t \in Threads, NEW place \in Claiming \cup Claimed,
         Go(p, t, place), at[p][t] # "none",
         at[p][t] \notin {"unclaim", "unclaim_unlink", "commit"} \/
           (at[p][t] = "unclaim" /\ place = "unclaim_unlink"),
         place = "commit" => IsExpected(p),
         UNCHANGED <<lock, alive, callers, outcome>>
  PROVE  LockInv'
BY DEF Go, IsExpected, Expected, Parsed, callers,
       LockInv, Shapes, DeadAreIdle, SectionsFit, Owns,
       OwnersAreNamed, TakeoversAreDue, Calls, Threads, IdOf, Places, Claiming, Claimed

\* A section ends: its result decides over the call, and a takeover holds the
\* lock only if it has committed.
LEMMA FinishKeeps ==
  ASSUME LockInv, ClaimsInHand', NEW p \in Processes, NEW t \in Threads, NEW result \in {"yes", "no", "threw"},
         at[p][t] # "none", Finish(p, t, result),
         result = "yes" => outcome[p][t] = "yes",
         UNCHANGED <<lock, alive>>
  PROVE  LockInv'
<1>1. /\ at' = [at EXCEPT ![p][t] = "none"]
      /\ outcome' = [outcome EXCEPT ![p][t] = "no"]
  BY DEF Finish, Go
<1>2. p \in alive /\ mode[p] \in {"mutate", "recover", "takeover"}
  BY DEF LockInv, DeadAreIdle, Shapes, Threads
<1>3. at' \in [Processes -> [Threads -> Places]]
      /\ outcome' \in [Processes -> [Threads -> {"yes", "no", "threw"}]]
  BY <1>1 DEF LockInv, Shapes, Places
<1>4. \A q \in Processes \ {p} : at'[q] = at[q] /\ outcome'[q] = outcome[q]
  BY <1>1 DEF LockInv, Shapes
<1>5. at'[p][t] = "none" /\ outcome'[p][t] = "no"
      /\ \A u \in Threads \ {t} : at'[p][u] = at[p][u] /\ outcome'[p][u] = outcome[p][u]
  BY <1>1 DEF LockInv, Shapes
<1>6. CASE t = "beat"
  <2>1. UNCHANGED <<pc, mode, mine, seen>>
    BY <1>6 DEF Finish, callers
  <2>2. \A q \in Processes :
          at'[q]["main"] = at[q]["main"] /\ outcome'[q]["main"] = outcome[q]["main"]
    BY <1>4, <1>5, <1>6 DEF Threads
  <2>3. \A q \in Processes : at'[q]["beat"] = at[q]["beat"] \/ at'[q]["beat"] = "none"
    BY <1>4, <1>5, <1>6 DEF Threads
  <2>4. Shapes'
    BY <1>3, <2>1 DEF LockInv, Shapes
  <2>5. DeadAreIdle'
    BY <2>1, <2>2, <2>3 DEF LockInv, DeadAreIdle, Threads
  <2>6. SectionsFit'
    BY <2>1, <2>2, <2>3 DEF LockInv, SectionsFit
  <2>7. OwnersAreNamed'
    BY <2>1, <2>2 DEF LockInv, OwnersAreNamed, Owns, IdOf
  <2>8. TakeoversAreDue'
    BY <2>1, <2>2 DEF LockInv, TakeoversAreDue, IdOf
  <2> QED BY <2>4, <2>5, <2>6, <2>7, <2>8 DEF LockInv
<1>7. CASE t = "main"
  <2>1. at'[p]["main"] = "none" /\ at'[p]["beat"] = "none" /\ outcome'[p]["main"] = "no"
    BY <1>5, <1>7 DEF LockInv, SectionsFit, Threads
  <2>2. CASE Hold(p) /\ pc[p] = "takeover" /\ result = "yes"
    <3>1. /\ pc' = [pc EXCEPT ![p] = "holding"]
          /\ mode' = [mode EXCEPT ![p] = "mutate"]
          /\ seen' = [seen EXCEPT ![p] = None]
          /\ UNCHANGED mine
      BY <2>2 DEF Hold
    <3>2. Shapes' /\ DeadAreIdle' /\ SectionsFit'
      BY <1>2, <1>3, <1>4, <2>1, <3>1
         DEF LockInv, Shapes, DeadAreIdle, SectionsFit, Calls, Threads
    <3>3. Owns(p)
      BY <1>7, <2>2 DEF Owns
    <3>4. OwnersAreNamed' /\ TakeoversAreDue'
      BY <1>4, <2>1, <3>1, <3>3
         DEF LockInv, Shapes, OwnersAreNamed, Owns, TakeoversAreDue
    <3> QED BY <3>2, <3>4 DEF LockInv
  <2>3. CASE EndCall(p) \/ Retry(p)
    <3>1. PICK place \in {"idle", "create"}, kind \in {"mutate", "recover", "takeover"} :
            /\ pc' = [pc EXCEPT ![p] = place]
            /\ mode' = [mode EXCEPT ![p] = kind]
            /\ mine' = [mine EXCEPT ![p] = None]
            /\ seen' = [seen EXCEPT ![p] = None]
      <4>1. CASE EndCall(p)
        BY <4>1 DEF EndCall, BeginCall
      <4>2. CASE ~EndCall(p)
        <5>1. mode' = [mode EXCEPT ![p] = mode[p]]
          BY <2>3, <4>2 DEF Retry, LockInv, Shapes
        <5> QED BY <1>2, <2>3, <4>2, <5>1 DEF Retry
      <4> QED BY <4>1, <4>2
    <3>2. Shapes' /\ DeadAreIdle' /\ SectionsFit'
      BY <1>2, <1>3, <1>4, <2>1, <3>1
         DEF LockInv, Shapes, DeadAreIdle, SectionsFit, Calls, Threads
    <3>3. OwnersAreNamed' /\ TakeoversAreDue'
      BY <1>4, <2>1, <3>1
         DEF LockInv, Shapes, OwnersAreNamed, Owns, TakeoversAreDue
    <3> QED BY <3>2, <3>3 DEF LockInv
  <2> QED BY <1>7, <2>2, <2>3 DEF Finish, LockInv, SectionsFit
<1> QED BY <1>6, <1>7 DEF Threads

\* In the claim section: a claim is made where there is none, and no unlink hits
\* one that a takeover needs.
LEMMA SectionClaims ==
  ASSUME LockInv, ~stolen', NEW p \in Processes, NEW t \in Threads, InSection(p, t)
  PROVE  ClaimsInHand'
<1>1. /\ at[p][t] # "none"
      /\ t = "main" => pc[p] \in {"takeover", "releasing"}
      /\ t = "beat" => pc[p] \in {"holding", "releasing"}
      /\ pc \in [Processes -> Calls] /\ at \in [Processes -> [Threads -> Places]]
  BY DEF InSection, CreateClaim, WriteClaim, ReadClaim, UnlinkClaim, CheckLock, CommitLock,
         ReadOwnClaim, ReleaseClaim, LockInv, Shapes, SectionsFit, Threads
\* The end of a section is none of a takeover under way.
<1>2. ASSUME NEW result \in {"yes", "no", "threw"}, Finish(p, t, result),
             NEW q \in Processes, TakingOver(q)'
      PROVE  TakingOver(q) /\ ~(q = p /\ t = "main")
  <2>1. at' = [at EXCEPT ![p][t] = "none"]
    BY <1>2 DEF Finish, Go
  <2>2. t = "beat" => UNCHANGED pc
    BY <1>2 DEF Finish, callers
  <2>3. t = "main" => EndCall(p) \/ Hold(p) \/ Retry(p)
    <3>1. CASE t = "main" /\ pc[p] = "releasing"
      BY <1>2, <3>1 DEF Finish
    <3>2. CASE t = "main" /\ pc[p] = "takeover"
      BY <1>2, <3>2 DEF Finish
    <3> QED BY <1>1, <3>1, <3>2
  <2>4. q # p => pc'[q] = pc[q] /\ at'[q] = at[q]
    BY <1>1, <2>1, <2>2, <2>3 DEF EndCall, BeginCall, Hold, Retry, Threads
  <2>5. CASE q = p /\ t = "main"
    <3>1. at'[q]["main"] = "none"
      BY <1>1, <2>1, <2>5
    <3> QED BY <1>2, <3>1 DEF TakingOver
  <2>6. CASE q = p /\ t = "beat"
    <3>1. pc'[q] = pc[q] /\ at'[q]["main"] = at[q]["main"]
      BY <1>1, <2>1, <2>2, <2>6
    <3> QED BY <1>2, <2>6, <3>1 DEF TakingOver
  <2> QED BY <1>2, <2>4, <2>5, <2>6 DEF TakingOver, Threads
\* Nor is a step to another place, but for those within the claim.
<1>3. ASSUME NEW place, Go(p, t, place), UNCHANGED callers, NEW q \in Processes, TakingOver(q)'
      PROVE  \/ TakingOver(q)
             \/ q = p /\ t = "main" /\ place \in {"claim_write", "check", "commit"}
  BY <1>1, <1>3 DEF Go, callers, TakingOver, Threads
<1>4. CASE CreateClaim(p, t)
  <2>1. CASE claim = None
    <3>1. /\ claim' = [by |-> p, thread |-> t, written |-> FALSE]
          /\ Go(p, t, "claim_write") /\ UNCHANGED callers
      BY <1>4, <2>1 DEF CreateClaim
    <3>2. \A q \in Processes : ~TakingOver(q)
      BY <2>1 DEF LockInv, ClaimsInHand, HasClaim
    <3>3. claim' # None
      <4>1. claim' \in Claims
        BY <3>1 DEF Claims
      <4> QED BY <4>1, LockAssumption
    <3>4. ASSUME NEW q \in Processes, TakingOver(q)' PROVE HasClaim(q)'
      BY <1>3, <3>1, <3>2, <3>3, <3>4 DEF HasClaim
    <3> QED BY <3>4 DEF ClaimsInHand
  <2>2. CASE claim # None
    <3>1. claim' = claim /\ (Finish(p, t, "no") \/ (Go(p, t, "claim_read") /\ UNCHANGED callers))
      BY <1>4, <2>2 DEF CreateClaim
    <3>2. \A q \in Processes : TakingOver(q)' => TakingOver(q)
      BY <1>2, <1>3, <3>1
    <3> QED BY <3>1, <3>2, ClaimsKept DEF LockInv, ClaimsInHand, HasClaim
  <2> QED BY <2>1, <2>2
<1>5. CASE WriteClaim(p, t)
  <2>1. /\ at[p][t] = "claim_write"
        /\ \/ claim' = claim
           \/ IsOwnClaim(p, t) /\ claim' = [by |-> p, thread |-> t, written |-> TRUE]
        /\ Finish(p, t, "threw") \/ (Go(p, t, "check") /\ UNCHANGED callers)
    BY <1>5 DEF WriteClaim
  <2>2. \A q \in Processes : TakingOver(q)' => TakingOver(q)
    <3>1. ASSUME t = "main", Go(p, t, "check"), UNCHANGED callers, TakingOver(p)'
          PROVE  TakingOver(p)
      BY <2>1, <3>1 DEF TakingOver, callers
    <3> QED BY <1>2, <1>3, <2>1, <3>1
  <2>3. \A q \in Processes : HasClaim(q) => HasClaim(q)'
    <3>1. CASE claim' = claim
      BY <3>1 DEF HasClaim
    <3>2. CASE IsOwnClaim(p, t) /\ claim' = [by |-> p, thread |-> t, written |-> TRUE]
      <4>1. claim' \in Claims
        BY <3>2 DEF Claims
      <4>2. claim' # None
        BY <4>1, LockAssumption
      <4> QED BY <3>2, <4>2 DEF HasClaim, IsOwnClaim
    <3> QED BY <2>1, <3>1, <3>2
  <2> QED BY <2>2, <2>3, ClaimsKept DEF LockInv, ClaimsInHand
<1>6. CASE ReadClaim(p, t) \/ CheckLock(p, t) \/ CommitLock(p, t) \/ ReadOwnClaim(p, t)
  <2>1. claim' = claim
    BY <1>6 DEF ReadClaim, CheckLock, CommitLock, ReadOwnClaim, filesAndProcesses
  <2>2. \A q \in Processes : TakingOver(q)' => TakingOver(q)
    <3>1. \/ \E result \in {"yes", "no", "threw"} : Finish(p, t, result)
          \/ /\ UNCHANGED callers
             /\ \E place \in {"claim_unlink", "unclaim", "unclaim_unlink", "commit"} :
                  /\ Go(p, t, place)
                  /\ place = "commit" => at[p][t] = "check"
      BY <1>6 DEF ReadClaim, CheckLock, CommitLock, ReadOwnClaim, LockInv, Shapes
    <3>2. ASSUME t = "main", at[p][t] = "check", UNCHANGED callers, TakingOver(p)'
          PROVE  TakingOver(p)
      BY <3>2 DEF TakingOver, callers
    <3> QED BY <1>2, <1>3, <3>1, <3>2
  <2> QED BY <2>1, <2>2, ClaimsKept DEF LockInv, ClaimsInHand, HasClaim
<1>7. CASE UnlinkClaim(p, t) \/ ReleaseClaim(p, t)
  <2>1. \A q \in Processes : TakingOver(q)' => TakingOver(q)
    <3>1. \/ \E result \in {"yes", "no", "threw"} : Finish(p, t, result)
          \/ UNCHANGED callers /\ Go(p, t, "claim_again")
      BY <1>7 DEF UnlinkClaim, ReleaseClaim, LockInv, Shapes
    <3> QED BY <1>2, <1>3, <3>1
  <2>2. CASE Unlink
    BY <2>1, <2>2, UnlinkSpares DEF ClaimsInHand
  <2>3. CASE ~Unlink
    <3>1. claim' = claim
      BY <1>7, <2>3 DEF UnlinkClaim, ReleaseClaim
    <3> QED BY <2>1, <3>1, ClaimsKept DEF LockInv, ClaimsInHand, HasClaim
  <2> QED BY <2>2, <2>3
<1> QED BY <1>4, <1>5, <1>6, <1>7 DEF InSection

\* Taking the claim: no step of it touches the lock file.
LEMMA ClaimKeeps ==
  ASSUME LockInv, ClaimsInHand', NEW p \in Processes, NEW t \in Threads,
         CreateClaim(p, t) \/ WriteClaim(p, t) \/ ReadClaim(p, t) \/ UnlinkClaim(p, t)
  PROVE  LockInv'
<1>1. UNCHANGED <<lock, alive>> /\ at[p][t] \notin {"none", "unclaim", "unclaim_unlink", "commit"}
  BY DEF CreateClaim, WriteClaim, ReadClaim, UnlinkClaim
<1>2. CASE Finish(p, t, "no") \/ Finish(p, t, "threw")
  BY <1>1, <1>2, FinishKeeps
<1>3. CASE ~(Finish(p, t, "no") \/ Finish(p, t, "threw"))
  <2>1. UNCHANGED <<callers, outcome>>
        /\ \E place \in {"claim_write", "claim_read", "claim_unlink", "claim_again", "check"} :
             Go(p, t, place)
    BY <1>3 DEF CreateClaim, WriteClaim, ReadClaim, UnlinkClaim
  <2> QED BY <1>1, <2>1, GoKeeps DEF Claiming, Claimed
<1> QED BY <1>2, <1>3

\* The comparison under the claim.
LEMMA CheckLockKeeps ==
  ASSUME LockInv, ClaimsInHand', NEW p \in Processes, NEW t \in Threads, CheckLock(p, t)
  PROVE  LockInv'
BY GoKeeps DEF CheckLock, filesAndProcesses, Claimed

\* Letting the claim go does not touch the lock file either.
LEMMA UnclaimKeeps ==
  ASSUME LockInv, ClaimsInHand', NEW p \in Processes, NEW t \in Threads, ReadOwnClaim(p, t) \/ ReleaseClaim(p, t)
  PROVE  LockInv'
<1>1. UNCHANGED <<lock, alive>> /\ at[p][t] \in {"unclaim", "unclaim_unlink"}
  BY DEF ReadOwnClaim, ReleaseClaim, filesAndProcesses
<1>2. CASE Finish(p, t, outcome[p][t])
  BY <1>1, <1>2, FinishKeeps DEF LockInv, Shapes
<1>3. CASE ~Finish(p, t, outcome[p][t])
  BY <1>1, <1>3, GoKeeps DEF ReadOwnClaim, ReleaseClaim, Claimed
<1> QED BY <1>2, <1>3

\* With the claim in hand: a heartbeat and a takeover write the record of the
\* one who owns the lock from then on, a release removes its own.
LEMMA CommitLockKeeps ==
  ASSUME LockInv, ClaimsInHand', NEW p \in Processes, NEW t \in Threads, CommitLock(p, t)
  PROVE  LockInv'
<1>1. /\ at' = [at EXCEPT ![p][t] = "unclaim"]
      /\ UNCHANGED <<alive, pc, mode, mine, seen>>
      /\ at[p][t] = "commit" /\ p \in alive
  BY DEF CommitLock, Go, callers, LockInv, DeadAreIdle, Threads
<1>2. /\ at' \in [Processes -> [Threads -> Places]]
      /\ \A q \in Processes \ {p} : at'[q] = at[q]
      /\ at'[p][t] = "unclaim"
      /\ \A u \in Threads \ {t} : at'[p][u] = at[p][u]
  BY <1>1 DEF LockInv, Shapes, Places, Claimed
<1>3. PICK result \in {"yes", "threw"} : outcome' = [outcome EXCEPT ![p][t] = result]
  BY DEF CommitLock
<1>4. /\ outcome' \in [Processes -> [Threads -> {"yes", "no", "threw"}]]
      /\ \A q \in Processes \ {p} : outcome'[q] = outcome[q]
      /\ outcome'[p][t] = result
      /\ \A u \in Threads \ {t} : outcome'[p][u] = outcome[p][u]
  BY <1>3 DEF LockInv, Shapes
<1>5. DeadAreIdle' /\ SectionsFit'
  BY <1>1, <1>2, <1>4 DEF LockInv, DeadAreIdle, SectionsFit, Threads
\* Only one takeover at a time gets as far as this.
<1>6. \A q, r \in Processes : TakingOver(q) /\ TakingOver(r) => q = r
  BY DEF LockInv, ClaimsInHand, HasClaim
\* Whoever owns the lock lives; a takeover is from the dead.
<1>7. \A q, r \in Processes :
        Owns(q) => ~(pc[r] = "takeover" /\ at[r]["main"] = "commit")
  BY LockNamed DEF LockInv, Shapes, DeadAreIdle, OwnersAreNamed, TakeoversAreDue, Owns
<1>8. CASE /\ lock' = lock
           /\ t = "main" => pc[p] = "releasing" \/ result # "yes"
  <2>1. Shapes'
    BY <1>1, <1>2, <1>4, <1>8 DEF LockInv, Shapes
  <2>2. OwnersAreNamed'
    BY <1>1, <1>2, <1>4, <1>8 DEF LockInv, OwnersAreNamed, Owns, SectionsFit, IdOf, Threads
  <2>3. TakeoversAreDue'
    BY <1>1, <1>2, <1>8 DEF LockInv, TakeoversAreDue, IdOf, Threads
  <2> QED BY <1>5, <2>1, <2>2, <2>3 DEF LockInv
<1>9. CASE t = "main" /\ pc[p] = "releasing" /\ lock' = None
  <2>1. Owns(p)
    BY <1>1, <1>9 DEF Owns
  <2>2. Shapes'
    BY <1>1, <1>2, <1>4, <1>9 DEF LockInv, Shapes
  <2>3. OwnersAreNamed'
    <3> SUFFICES ASSUME NEW q \in Processes, Owns(q)' PROVE FALSE
      BY DEF OwnersAreNamed
    <3>1. q # p
      BY <1>1, <1>2, <1>9 DEF Owns
    <3>2. Owns(q)
      BY <1>1, <1>2, <1>4, <3>1 DEF Owns
    <3> QED BY <2>1, <3>1, <3>2 DEF LockInv, OwnersAreNamed
  <2>4. TakeoversAreDue'
    BY <1>1, <1>2, <1>7, <1>9, <2>1 DEF LockInv, TakeoversAreDue, Threads
  <2> QED BY <1>5, <2>2, <2>3, <2>4 DEF LockInv
<1>10. CASE t = "main" /\ pc[p] = "takeover" /\ lock' = Record(p)
  <2>1. /\ lock' \in Locks /\ lock' # None
        /\ lock'.owner = p /\ IdOf(lock') = mine[p]
    BY <1>10, RecordNamed DEF LockInv, TakeoversAreDue
  <2>2. Shapes'
    BY <1>1, <1>2, <1>4, <2>1 DEF LockInv, Shapes
  <2>3. OwnersAreNamed'
    <3> SUFFICES ASSUME NEW q \in Processes, q # p PROVE ~Owns(q)'
      BY <1>1, <2>1 DEF OwnersAreNamed
    <3>1. ~Owns(q)
      BY <1>1, <1>7, <1>10
    <3> QED BY <1>1, <1>2, <1>4, <3>1 DEF Owns
  <2>4. TakeoversAreDue'
    <3>1. \A q \in Processes : pc[q] = "takeover" => at'[q]["main"] # "commit"
      BY <1>1, <1>2, <1>6, <1>10 DEF TakingOver
    <3> QED BY <1>1, <3>1 DEF LockInv, TakeoversAreDue
  <2> QED BY <1>5, <2>2, <2>3, <2>4 DEF LockInv
<1>11. CASE t = "beat" /\ lock' = Record(p)
  <2>1. Owns(p)
    BY <1>1, <1>11 DEF LockInv, SectionsFit, Owns
  <2>2. /\ lock # None /\ lock.owner = p /\ IdOf(lock) = mine[p]
        /\ mine[p] \in Ids /\ mine[p].owner = p
    BY <2>1, LockNamed DEF LockInv, Shapes, OwnersAreNamed
  <2>3. /\ lock' \in Locks /\ lock' # None
        /\ lock'.owner = lock.owner /\ IdOf(lock') = IdOf(lock)
    BY <1>11, <2>2, RecordNamed
  <2>4. Shapes'
    BY <1>1, <1>2, <1>4, <2>3 DEF LockInv, Shapes
  <2>5. \A q \in Processes :
          at'[q]["main"] = at[q]["main"] /\ outcome'[q]["main"] = outcome[q]["main"]
    BY <1>2, <1>4, <1>11 DEF Threads
  <2>6. OwnersAreNamed'
    BY <1>1, <2>3, <2>5 DEF LockInv, OwnersAreNamed, Owns
  <2>7. TakeoversAreDue'
    BY <1>1, <1>7, <2>1, <2>5 DEF LockInv, TakeoversAreDue
  <2> QED BY <1>5, <2>4, <2>6, <2>7 DEF LockInv
<1>12. t = "main" => pc[p] \in {"takeover", "releasing"}
  BY <1>1 DEF LockInv, SectionsFit
<1>13. \/ ~Removes(p, t) /\ lock' = Record(p)
       \/ Removes(p, t) /\ lock' = None
       \/ UNCHANGED lock /\ outcome' = [outcome EXCEPT ![p][t] = "threw"]
  BY DEF CommitLock
<1>14. CASE UNCHANGED lock /\ outcome' = [outcome EXCEPT ![p][t] = "threw"]
  <2>1. result = "threw"
    BY <1>4, <1>14 DEF LockInv, Shapes
  <2> QED BY <1>8, <1>14, <2>1
<1> QED BY <1>9, <1>10, <1>11, <1>12, <1>13, <1>14 DEF Removes, Threads

-----------------------------------------------------------------------------
(* The theorems.                                                           *)

\* Every step keeps the invariant.
LEMMA LockStep ==
  ASSUME LockInv, ~stolen', [Next]_vars
  PROVE  LockInv'
<1>1. CASE UNCHANGED vars
  BY <1>1 DEF vars, LockInv, Shapes, DeadAreIdle, SectionsFit, ClaimsInHand, TakingOver, HasClaim, Owns,
       OwnersAreNamed, TakeoversAreDue, IdOf
<1>2. ASSUME NEW p \in Processes, NEW kind \in {"mutate", "recover"}, StartAcquire(p, kind)
      PROVE  LockInv'
  BY <1>2, StartAcquireKeeps
<1>3. ASSUME NEW p \in Processes, Call(p)
      PROVE  LockInv'
  BY <1>3, CreateLockKeeps, WriteLockKeeps, ReadLockKeeps, InspectKeeps DEF Call
<1>4. ASSUME NEW p \in Processes, StartRelease(p)
      PROVE  LockInv'
  BY <1>4, StartReleaseKeeps
<1>5. ASSUME NEW p \in Processes, NEW t \in Threads, EnterSection(p, t)
      PROVE  LockInv'
  BY <1>5, EnterSectionKeeps
<1>6. ASSUME NEW p \in Processes, NEW t \in Threads, InSection(p, t)
      PROVE  LockInv'
  BY <1>6, SectionClaims, ClaimKeeps, CheckLockKeeps, CommitLockKeeps, UnclaimKeeps DEF InSection
<1>7. ASSUME NEW p \in Processes, Crash(p) \/ Expire(p)
      PROVE  LockInv'
  BY <1>7, CrashKeeps, ExpireKeeps
<1> QED BY <1>1, <1>2, <1>3, <1>4, <1>5, <1>6, <1>7 DEF Next, Proceed, Threads

\* Only an unlink of the claim file touches the history.
LEMMA StolenStep ==
  ASSUME [Next]_vars
  PROVE  (stolen' = stolen) \/ Unlink
<1> DEFINE Kept == (stolen' = stolen)
<1>1. \A p \in Processes, kind \in {"mutate", "recover"} : StartAcquire(p, kind) => Kept
  BY DEF StartAcquire, filesAndProcesses
<1>2. \A p \in Processes : Call(p) \/ StartRelease(p) \/ Crash(p) \/ Expire(p) => Kept
  BY DEF Call, CreateLock, WriteLock, ReadLock, Inspect, StartRelease, Crash, Expire, filesAndProcesses
<1>3. ASSUME NEW p \in Processes, NEW t \in Threads, EnterSection(p, t) \/ InSection(p, t)
      PROVE  Kept \/ Unlink
  <2>1. EnterSection(p, t) \/ CheckLock(p, t) \/ ReadOwnClaim(p, t) => Kept
    BY DEF EnterSection, CheckLock, ReadOwnClaim, filesAndProcesses
  <2>2. CreateClaim(p, t) \/ ReadClaim(p, t) \/ CommitLock(p, t) => Kept
    BY DEF CreateClaim, ReadClaim, CommitLock
  <2>3. WriteClaim(p, t) => Kept
    BY DEF WriteClaim
  <2>4. UnlinkClaim(p, t) \/ ReleaseClaim(p, t) => Kept \/ Unlink
    BY DEF UnlinkClaim, ReleaseClaim
  <2> QED BY <1>3, <2>1, <2>2, <2>3, <2>4 DEF InSection
<1>4. UNCHANGED vars => Kept
  BY DEF vars
<1> QED BY <1>1, <1>2, <1>3, <1>4 DEF Next, Proceed, Threads

\* What has been stolen stays stolen.
LEMMA Stolen ==
  ASSUME stolen, [Next]_vars
  PROVE  stolen'
<1>1. Unlink => stolen'
  BY DEF Unlink
<1> QED BY <1>1, StolenStep

\* The invariant, for as long as no claim is stolen.
LEMMA LockInvariant == Spec => [](stolen \/ LockInv)
<1>1. (stolen \/ LockInv) /\ [Next]_vars => (stolen \/ LockInv)'
  BY LockStep, Stolen
<1> QED BY <1>1, LockInit, PTL DEF Spec

\* At most one process is between acquire and release, however many there
\* are, contend for the lock of a dead one, crash, or fail to write
\* (StateMutationLock, state/lock.ts), until an unlink takes away the claim of
\* a takeover (file-lock-store.ts:58).
THEOREM Exclusion == Spec => []MutualExclusion
<1>1. stolen \/ LockInv => MutualExclusion
  BY DEF LockInv, OwnersAreNamed, Owns, MutualExclusion
<1> QED BY <1>1, LockInvariant, PTL

-----------------------------------------------------------------------------
(* The lock implements the gate.                                           *)

Owner == IF lock = None THEN None ELSE lock.owner
Recoverers == {q \in alive : mode[q] = "takeover"}

\* The files change no owner and p at most its own kind of call: for the gate
\* p begins or ends a recovery, or nothing happens.
LEMMA NoChangeOfOwner ==
  ASSUME NEW p \in alive, alive' = alive, Owner' = Owner,
         \A q \in alive \ {p} : mode'[q] = mode[q]
  PROVE  Gate!Recovering(p)
<1>1. Recoverers' = Recoverers \cup {p} \/ Recoverers' = Recoverers \ {p}
  BY DEF Recoverers
<1> QED BY <1>1 DEF Gate!Recovering, Owner, Recoverers

\* The gate is free at first.
LEMMA GateInit == Init => Gate!Init
BY DEF Init, Gate!Init

\* Writing with the claim in hand is a heartbeat, a release or a takeover.
LEMMA CommitIsAGateStep ==
  ASSUME LockInv, NEW p \in Processes, NEW t \in Threads, CommitLock(p, t)
  PROVE  Gate!Recovering(p) \/ Gate!Release(p) \/ Gate!TakeOver(p)
<1>1. at[p][t] = "commit" /\ p \in alive /\ UNCHANGED <<alive, mode, pc, mine>>
  BY DEF CommitLock, callers, LockInv, DeadAreIdle, Threads
<1>2. CASE lock' = lock
  BY <1>1, <1>2, NoChangeOfOwner DEF Owner
<1>3. CASE ~Removes(p, t) /\ lock' = Record(p) /\ t = "beat"
  <2>1. lock # None /\ lock.owner = p /\ IdOf(lock) = mine[p]
    BY <1>1, <1>3 DEF LockInv, SectionsFit, OwnersAreNamed, Owns
  <2>2. lock' # None /\ lock'.owner = p
    BY <1>3, <2>1, LockNamed, RecordNamed DEF LockInv, Shapes
  <2> QED BY <1>1, <2>1, <2>2, NoChangeOfOwner DEF Owner
<1>4. CASE ~Removes(p, t) /\ lock' = Record(p) /\ t = "main"
  <2>1. pc[p] = "takeover"
    BY <1>1, <1>4 DEF LockInv, SectionsFit, Removes
  <2>2. /\ mode[p] = "takeover" /\ mine[p] \in Ids /\ mine[p].owner = p
        /\ lock # None /\ IdOf(lock) = seen[p] /\ seen[p].owner \notin alive
    BY <1>1, <1>4, <2>1 DEF LockInv, TakeoversAreDue
  <2>3. Owner # None /\ Owner \notin alive
    BY <2>2, LockNamed, LockAssumption DEF Owner, LockInv, Shapes
  <2>4. Owner' = p
    BY <1>4, <2>2, RecordNamed DEF Owner
  <2> QED BY <1>1, <2>2, <2>3, <2>4 DEF Gate!TakeOver, Owner
<1>5. CASE Removes(p, t) /\ lock' = None
  <2>1. lock # None /\ lock.owner = p
    BY <1>1, <1>5 DEF LockInv, OwnersAreNamed, Owns, Removes
  <2> QED BY <1>1, <1>5, <2>1 DEF Gate!Release
<1> QED BY <1>2, <1>3, <1>4, <1>5 DEF CommitLock, Threads

\* Every step is one of the gate, or none.
LEMMA GateStep ==
  ASSUME LockInv, [Next]_vars
  PROVE  [Gate!Next]_(Gate!gate)
<1>1. CASE UNCHANGED vars
  BY <1>1 DEF vars, Gate!gate
<1>2. ASSUME NEW p \in Processes, p \in alive, alive' = alive, Owner' = Owner,
             \A q \in alive \ {p} : mode'[q] = mode[q]
      PROVE  Gate!Next
  BY <1>2, NoChangeOfOwner DEF Gate!Next
<1>3. ASSUME NEW p \in Processes, NEW kind \in {"mutate", "recover"}, StartAcquire(p, kind)
      PROVE  Gate!Next
  BY <1>2, <1>3 DEF StartAcquire, BeginCall, filesAndProcesses, Owner, LockInv, Shapes
<1>4. ASSUME NEW p \in Processes, CreateLock(p), lock = None
      PROVE  Gate!Next
  <2>1. p \in alive /\ UNCHANGED <<alive, mode>> /\ Owner' = p /\ Owner = None
    <3>1. lock' = [owner |-> p, id |-> FreshId(p).id, written |-> FALSE] /\ FreshIds(p) # {}
      BY <1>4 DEF CreateLock
    <3>2. FreshId(p) \in Ids /\ FreshId(p).owner = p
      BY <3>1, FreshIsAnId
    <3>3. lock' # None /\ lock'.owner = p
      BY <3>1, <3>2, FileNamed
    <3> QED BY <1>4, <3>3 DEF CreateLock, Owner, LockInv, DeadAreIdle
  <2>2. Gate!Acquire(p)
    BY <1>4, <2>1 DEF Gate!Acquire, Owner
  <2> QED BY <2>2 DEF Gate!Next
<1>5. ASSUME NEW p \in Processes, CreateLock(p), lock # None
      PROVE  Gate!Next
  BY <1>2, <1>5 DEF CreateLock, Owner, LockInv, DeadAreIdle
<1>6. ASSUME NEW p \in Processes, WriteLock(p)
      PROVE  Gate!Next
  <2>1. p \in alive /\ lock # None /\ lock.owner = p /\ IdOf(lock) = mine[p]
    BY <1>6 DEF WriteLock, LockInv, DeadAreIdle, OwnersAreNamed, Owns
  <2>2. lock' = lock \/ lock' = Record(p)
    BY <1>6 DEF WriteLock
  <2>3. Owner' = Owner
    BY <2>1, <2>2, LockNamed, RecordNamed DEF Owner, LockInv, Shapes
  <2>4. alive' = alive /\ \A q \in alive \ {p} : mode'[q] = mode[q]
    BY <1>6 DEF WriteLock, Hold, EndCall, BeginCall, LockInv, Shapes
  <2> QED BY <1>2, <2>1, <2>3, <2>4
<1>7. ASSUME NEW p \in Processes, ReadLock(p) \/ Inspect(p)
      PROVE  Gate!Next
  <2>1. p \in alive /\ alive' = alive /\ lock' = lock
    BY <1>7 DEF ReadLock, Inspect, filesAndProcesses, LockInv, DeadAreIdle
  <2>2. \A q \in alive \ {p} : mode'[q] = mode[q]
    BY <1>7 DEF ReadLock, Inspect, Retry, EndCall, BeginCall, LockInv, Shapes
  <2> QED BY <1>2, <2>1, <2>2 DEF Owner
<1>8. ASSUME NEW p \in Processes, NEW t \in Threads,
             StartRelease(p) \/ EnterSection(p, t) \/ Expire(p)
      PROVE  UNCHANGED Gate!gate
  BY <1>8 DEF StartRelease, EnterSection, Expire, filesAndProcesses, callers, Gate!gate
<1>9. ASSUME NEW p \in Processes, NEW t \in Threads, InSection(p, t), ~CommitLock(p, t)
      PROVE  Gate!Next
  <2>1. p \in alive /\ alive' = alive /\ lock' = lock
    BY <1>9 DEF InSection, CreateClaim, WriteClaim, ReadClaim, UnlinkClaim, CheckLock,
                ReadOwnClaim, ReleaseClaim, filesAndProcesses, LockInv, DeadAreIdle, Threads
  <2>2. UNCHANGED callers \/ Finish(p, t, "no") \/ Finish(p, t, "threw")
          \/ Finish(p, t, outcome[p][t])
    BY <1>9 DEF InSection, CreateClaim, WriteClaim, ReadClaim, UnlinkClaim, CheckLock,
                ReadOwnClaim, ReleaseClaim
  <2>3. ASSUME NEW result, Finish(p, t, result), at[p][t] # "none", result \in {"yes", "no", "threw"}
        PROVE  \A q \in alive \ {p} : mode'[q] = mode[q]
    <3>1. UNCHANGED callers \/ EndCall(p) \/ Hold(p) \/ Retry(p)
      BY <2>3 DEF Finish, LockInv, SectionsFit, Threads
    <3> QED BY <3>1 DEF callers, EndCall, BeginCall, Hold, Retry, LockInv, Shapes
  <2>4. at[p][t] # "none" /\ outcome[p][t] \in {"yes", "no", "threw"}
    BY <1>9 DEF InSection, CreateClaim, WriteClaim, ReadClaim, UnlinkClaim, CheckLock,
                ReadOwnClaim, ReleaseClaim, LockInv, Shapes
  <2>5. \A q \in alive \ {p} : mode'[q] = mode[q]
    BY <2>2, <2>3, <2>4 DEF callers
  <2> QED BY <1>2, <2>1, <2>5 DEF Owner
<1>10. ASSUME NEW p \in Processes, NEW t \in Threads, CommitLock(p, t)
       PROVE  Gate!Next
  BY <1>10, CommitIsAGateStep DEF Gate!Next
<1>11. ASSUME NEW p \in Processes, Crash(p)
       PROVE  Gate!Next
  <2>1. /\ p \in alive /\ alive' = alive \ {p} /\ lock' = lock
        /\ mode' = [mode EXCEPT ![p] = "mutate"]
    BY <1>11 DEF Crash, EndCall, BeginCall
  <2>2. Gate!Die(p)
    BY <2>1 DEF Gate!Die, LockInv, Shapes
  <2> QED BY <2>2 DEF Gate!Next
<1> QED BY <1>1, <1>3, <1>4, <1>5, <1>6, <1>7, <1>8, <1>9, <1>10, <1>11
        DEF Next, Proceed, Call, Threads

\* The lock file is the gate that ADR-0006 promises: a live owner keeps it,
\* a dead one is replaced by recovery alone, in every step up to the first
\* that steals the claim of a takeover.
THEOREM GateImplemented == Spec => GateIsKept
<1>1. (stolen \/ LockInv) /\ [Next]_vars => [stolen' \/ Gate!Next]_(Gate!gate)
  BY GateStep, Stolen
<1> QED BY <1>1, GateInit, LockInvariant, PTL DEF Spec, GateIsKept

-----------------------------------------------------------------------------
(* Types: of the calls, of the files and of the claim sections, whatever   *)
(* is stolen.                                                              *)

Modes == {"mutate", "recover", "takeover"}

\* Whoever writes a record has drawn the id that it names.
IdsAreDrawn ==
  \A p \in Processes :
    pc[p] \in {"write", "takeover", "holding", "releasing"} => mine[p] \in Ids /\ mine[p].owner = p

CallTypes ==
  /\ pc \in [Processes -> Calls]
  /\ mode \in [Processes -> Modes]
  /\ attempts \in [Processes -> 0 .. MaxAttempts - 1]
  /\ mine \in [Processes -> Ids \cup {None}]
  /\ seen \in [Processes -> Ids \cup {None}]
  /\ IdsAreDrawn

FileTypes ==
  /\ lock \in Locks \cup {None}
  /\ claim \in Claims \cup {None}
  /\ alive \subseteq Processes
  /\ lingering \subseteq Processes \ alive
  /\ faults \in Nat

SectionTypes ==
  /\ at \in [Processes -> [Threads -> Places]]
  /\ outcome \in [Processes -> [Threads -> {"yes", "no", "threw"}]]

\* A thread in its claim section has a call, and is alone in its process.
SectionsHaveCalls ==
  \A p \in Processes :
    /\ at[p]["main"] # "none" => pc[p] \in {"takeover", "releasing"}
    /\ at[p]["beat"] # "none" => pc[p] \in {"holding", "releasing"}
    /\ at[p]["main"] = "none" \/ at[p]["beat"] = "none"

TypeInv == CallTypes /\ FileTypes /\ SectionTypes /\ SectionsHaveCalls

LEMMA TypeInit == Init => TypeInv
BY LockAssumption DEF Init, TypeInv, CallTypes, IdsAreDrawn, FileTypes, SectionTypes, SectionsHaveCalls,
   Modes, Calls, Threads, Places

\* A call begins, ends, starts over or gets the lock.
LEMMA CallTypesKept ==
  ASSUME CallTypes, NEW p \in Processes,
         \/ UNCHANGED callers
         \/ \E place \in {"idle", "create"}, kind \in Modes : BeginCall(p, place, kind)
         \/ Retry(p)
         \/ Hold(p) /\ pc[p] \in {"write", "takeover"}
  PROVE  CallTypes'
<1> USE LockAssumption DEF CallTypes, IdsAreDrawn, Modes
<1>1. CASE UNCHANGED callers
  BY <1>1 DEF callers
<1>2. ASSUME NEW place \in {"idle", "create"}, NEW kind \in Modes, BeginCall(p, place, kind)
      PROVE  CallTypes'
  BY <1>2 DEF BeginCall, Calls
<1>3. CASE Retry(p)
  <2>1. CASE attempts[p] + 1 >= MaxAttempts
    BY <1>2, <1>3, <2>1 DEF Retry, EndCall
  <2>2. CASE ~(attempts[p] + 1 >= MaxAttempts)
    BY <1>3, <2>2 DEF Retry, Calls
  <2> QED
    BY <2>1, <2>2
<1>4. CASE Hold(p) /\ pc[p] \in {"write", "takeover"}
  BY <1>4 DEF Hold, Calls
<1> QED
  BY <1>1, <1>2, <1>3, <1>4

\* The files of a fault or of none.
LEMMA FaultsCounted ==
  ASSUME FileTypes, UNCHANGED faults \/ Fault
  PROVE  faults' \in Nat
BY DEF FileTypes, Fault

\* One process moves while none of its threads is in a claim section.
LEMMA OutsideSections ==
  ASSUME TypeInv, NEW p \in Processes, at[p]["main"] = "none", at[p]["beat"] = "none",
         UNCHANGED sections, \A q \in Processes \ {p} : pc'[q] = pc[q]
  PROVE  SectionTypes' /\ SectionsHaveCalls'
BY DEF TypeInv, SectionTypes, SectionsHaveCalls, sections

\* Within acquire no thread is in a claim section.
LEMMA NotInSection ==
  ASSUME TypeInv, NEW p \in Processes, pc[p] \notin {"takeover", "holding", "releasing"}
  PROVE  at[p]["main"] = "none" /\ at[p]["beat"] = "none"
BY DEF TypeInv, SectionsHaveCalls

LEMMA StartAcquireTypes ==
  ASSUME TypeInv, NEW p \in Processes, NEW kind \in {"mutate", "recover"}, StartAcquire(p, kind)
  PROVE  TypeInv'
<1>1. BeginCall(p, "create", kind) /\ kind \in Modes /\ pc[p] = "idle"
  BY DEF StartAcquire, Modes
<1>2. CallTypes'
  BY <1>1, CallTypesKept DEF TypeInv
<1>3. FileTypes'
  BY DEF StartAcquire, filesAndProcesses, TypeInv, FileTypes
<1>4. SectionTypes' /\ SectionsHaveCalls'
  <2>1. \A q \in Processes \ {p} : pc'[q] = pc[q]
    BY <1>1 DEF BeginCall, TypeInv, CallTypes
  <2> QED
    BY <1>1, <2>1, NotInSection, OutsideSections DEF StartAcquire
<1> QED
  BY <1>2, <1>3, <1>4 DEF TypeInv

LEMMA CreateLockTypes ==
  ASSUME TypeInv, NEW p \in Processes, CreateLock(p)
  PROVE  TypeInv'
<1>1. pc[p] = "create" /\ UNCHANGED <<claim, alive, lingering, faults, mode, attempts, seen, sections>>
  BY DEF CreateLock
<1>2. SectionTypes' /\ SectionsHaveCalls'
  <2>1. \A q \in Processes \ {p} : pc'[q] = pc[q]
    BY DEF CreateLock, TypeInv, CallTypes
  <2> QED
    BY <1>1, <2>1, NotInSection, OutsideSections
<1>3. CASE lock = None
  <2>1. FreshId(p) \in Ids /\ FreshId(p).owner = p /\ FreshId(p).id \in LockIds
    BY <1>3, FreshIsAnId DEF CreateLock
  <2>2. /\ pc' = [pc EXCEPT ![p] = "write"]
        /\ mine' = [mine EXCEPT ![p] = FreshId(p)]
        /\ lock' = [owner |-> p, id |-> FreshId(p).id, written |-> FALSE]
    BY <1>3 DEF CreateLock
  <2>3. CallTypes'
    BY <1>1, <2>1, <2>2 DEF TypeInv, CallTypes, IdsAreDrawn, Calls
  <2>4. lock' \in Locks
    BY <2>1, <2>2 DEF Locks
  <2> QED
    BY <1>1, <1>2, <2>3, <2>4 DEF TypeInv, FileTypes
<1>4. CASE lock # None
  <2>1. pc' = [pc EXCEPT ![p] = "read"] /\ UNCHANGED <<lock, mine>>
    BY <1>4 DEF CreateLock
  <2>2. CallTypes'
    BY <1>1, <2>1 DEF TypeInv, CallTypes, IdsAreDrawn, Calls
  <2> QED
    BY <1>1, <1>2, <2>1, <2>2 DEF TypeInv, FileTypes
<1> QED
  BY <1>3, <1>4

LEMMA WriteLockTypes ==
  ASSUME TypeInv, NEW p \in Processes, WriteLock(p)
  PROVE  TypeInv'
<1>1. pc[p] = "write" /\ UNCHANGED <<claim, alive, lingering, sections>>
  BY DEF WriteLock
<1>2. \/ Hold(p) /\ UNCHANGED faults
      \/ EndCall(p) /\ Fault
  BY DEF WriteLock
<1>3. CallTypes'
  BY <1>1, <1>2, CallTypesKept DEF TypeInv, EndCall, Modes
<1>4. SectionTypes' /\ SectionsHaveCalls'
  <2>1. \A q \in Processes \ {p} : pc'[q] = pc[q]
    BY <1>2 DEF Hold, EndCall, BeginCall, TypeInv, CallTypes
  <2> QED
    BY <1>1, <2>1, NotInSection, OutsideSections
<1>5. lock' \in Locks \cup {None}
  <2>1. Record(p) \in Locks
    BY <1>1, RecordNamed DEF TypeInv, CallTypes, IdsAreDrawn
  <2> QED
    BY <2>1 DEF WriteLock, TypeInv, FileTypes
<1>6. FileTypes'
  BY <1>1, <1>2, <1>5, FaultsCounted DEF TypeInv, FileTypes
<1> QED
  BY <1>3, <1>4, <1>6 DEF TypeInv

LEMMA ReadLockTypes ==
  ASSUME TypeInv, NEW p \in Processes, ReadLock(p)
  PROVE  TypeInv'
<1>1. pc[p] = "read" /\ UNCHANGED <<filesAndProcesses, sections>>
  BY DEF ReadLock
<1>2. CallTypes' /\ \A q \in Processes \ {p} : pc'[q] = pc[q]
  <2>1. CASE Parsed(lock) = None
    <3>1. Retry(p)
      BY <2>1 DEF ReadLock
    <3>2. CallTypes'
      BY <3>1, CallTypesKept DEF TypeInv
    <3> QED
      BY <3>1, <3>2 DEF Retry, EndCall, BeginCall, TypeInv, CallTypes
  <2>2. CASE Parsed(lock) # None
    <3>1. IdOf(lock) \in Ids
      BY <2>2, LockNamed DEF Parsed, TypeInv, FileTypes
    <3>2. /\ seen' = [seen EXCEPT ![p] = IdOf(lock)]
          /\ pc' = [pc EXCEPT ![p] = "inspect"]
          /\ UNCHANGED <<mode, attempts, mine>>
      BY <2>2 DEF ReadLock
    <3> QED
      BY <3>1, <3>2 DEF TypeInv, CallTypes, IdsAreDrawn, Calls
  <2> QED
    BY <2>1, <2>2
<1>3. SectionTypes' /\ SectionsHaveCalls'
  BY <1>1, <1>2, NotInSection, OutsideSections
<1>4. FileTypes'
  BY <1>1 DEF filesAndProcesses, TypeInv, FileTypes
<1> QED
  BY <1>2, <1>3, <1>4 DEF TypeInv

LEMMA InspectTypes ==
  ASSUME TypeInv, NEW p \in Processes, Inspect(p)
  PROVE  TypeInv'
<1>1. pc[p] = "inspect" /\ UNCHANGED <<lock, claim, alive, lingering, sections>>
      /\ (UNCHANGED faults \/ Fault)
  BY DEF Inspect
<1>2. CallTypes' /\ \A q \in Processes \ {p} : pc'[q] = pc[q]
  <2>1. CASE \E place \in {"idle", "create"}, kind \in Modes : BeginCall(p, place, kind)
    <3>1. CallTypes'
      BY <2>1, CallTypesKept DEF TypeInv
    <3> QED
      BY <2>1, <3>1 DEF BeginCall, TypeInv, CallTypes
  <2>2. CASE ~ \E place \in {"idle", "create"}, kind \in Modes : BeginCall(p, place, kind)
    <3>1. ~EndCall(p) /\ ~BeginCall(p, "create", "takeover")
      BY <2>2 DEF EndCall, Modes
    <3>2. /\ FreshIds(p) # {}
          /\ pc' = [pc EXCEPT ![p] = "takeover"]
          /\ mine' = [mine EXCEPT ![p] = FreshId(p)]
          /\ UNCHANGED <<mode, attempts, seen>>
      BY <3>1 DEF Inspect
    <3>3. FreshId(p) \in Ids /\ FreshId(p).owner = p
      BY <3>2, FreshIsAnId
    <3> QED
      BY <3>2, <3>3 DEF TypeInv, CallTypes, IdsAreDrawn, Calls
  <2> QED
    BY <2>1, <2>2
<1>3. SectionTypes' /\ SectionsHaveCalls'
  BY <1>1, <1>2, NotInSection, OutsideSections
<1>4. FileTypes'
  BY <1>1, FaultsCounted DEF TypeInv, FileTypes
<1> QED
  BY <1>2, <1>3, <1>4 DEF TypeInv

LEMMA StartReleaseTypes ==
  ASSUME TypeInv, NEW p \in Processes, StartRelease(p)
  PROVE  TypeInv'
<1>1. pc[p] = "holding" /\ pc' = [pc EXCEPT ![p] = "releasing"]
      /\ UNCHANGED <<filesAndProcesses, mode, attempts, mine, seen, sections>>
  BY DEF StartRelease
<1>2. CallTypes'
  BY <1>1 DEF TypeInv, CallTypes, IdsAreDrawn, Calls
<1>3. SectionTypes' /\ SectionsHaveCalls'
  BY <1>1 DEF TypeInv, CallTypes, SectionTypes, SectionsHaveCalls, sections
<1> QED
  BY <1>1, <1>2, <1>3 DEF TypeInv, FileTypes, filesAndProcesses

LEMMA EnterSectionTypes ==
  ASSUME TypeInv, NEW p \in Processes, NEW t \in Threads, EnterSection(p, t)
  PROVE  TypeInv'
<1>1. Wants(p, t) /\ Turn(p) /\ at' = [at EXCEPT ![p][t] = "claim"]
      /\ UNCHANGED <<filesAndProcesses, callers, outcome>>
  BY DEF EnterSection, Go
<1>2. CallTypes' /\ FileTypes'
  BY <1>1, CallTypesKept DEF TypeInv, FileTypes, filesAndProcesses
<1>3. SectionTypes'
  BY <1>1 DEF TypeInv, SectionTypes, Places, Claiming
<1>4. SectionsHaveCalls'
  BY <1>1 DEF TypeInv, SectionTypes, SectionsHaveCalls, Wants, Turn, callers, Threads
<1> QED
  BY <1>2, <1>3, <1>4 DEF TypeInv

\* A step within the section, with the caller left alone.
LEMMA GoTypes ==
  ASSUME TypeInv, NEW p \in Processes, NEW t \in Threads, NEW place \in Claiming \cup Claimed,
         Go(p, t, place), at[p][t] # "none",
         UNCHANGED callers, FileTypes',
         outcome' \in [Processes -> [Threads -> {"yes", "no", "threw"}]]
  PROVE  TypeInv'
<1>1. at' = [at EXCEPT ![p][t] = place]
  BY DEF Go
<1>2. CallTypes'
  BY CallTypesKept DEF TypeInv
<1>3. SectionTypes'
  BY <1>1 DEF TypeInv, SectionTypes, Places
<1>4. SectionsHaveCalls'
  BY <1>1 DEF TypeInv, SectionTypes, SectionsHaveCalls, callers, Threads
<1> QED
  BY <1>2, <1>3, <1>4 DEF TypeInv

\* The end of a section.
LEMMA FinishTypes ==
  ASSUME TypeInv, NEW p \in Processes, NEW t \in Threads, NEW result \in {"yes", "no", "threw"},
         at[p][t] # "none", Finish(p, t, result), FileTypes'
  PROVE  TypeInv'
<1>1. /\ at' = [at EXCEPT ![p][t] = "none"]
      /\ outcome' = [outcome EXCEPT ![p][t] = "no"]
  BY DEF Finish, Go
<1>2. SectionTypes'
  BY <1>1 DEF TypeInv, SectionTypes, Places
<1>3. CASE t = "beat"
  <2>1. UNCHANGED callers
    BY <1>3 DEF Finish
  <2>2. SectionsHaveCalls'
    BY <1>1, <1>3, <2>1 DEF TypeInv, SectionTypes, SectionsHaveCalls, callers, Threads
  <2> QED
    BY <1>2, <2>1, <2>2, CallTypesKept DEF TypeInv
<1>4. CASE t = "main"
  <2>1. pc[p] \in {"takeover", "releasing"} /\ at[p]["beat"] = "none"
    BY <1>4 DEF TypeInv, SectionsHaveCalls
  <2>2. EndCall(p) \/ Retry(p) \/ (Hold(p) /\ pc[p] = "takeover")
    BY <1>4, <2>1 DEF Finish
  <2>3. CallTypes'
    BY <2>2, CallTypesKept DEF TypeInv, EndCall, Modes
  <2>4. \A q \in Processes \ {p} : pc'[q] = pc[q] /\ at'[q] = at[q]
    BY <1>1, <2>2 DEF EndCall, Retry, Hold, BeginCall, TypeInv, CallTypes, SectionTypes
  <2>5. at'[p]["main"] = "none" /\ at'[p]["beat"] = "none"
    BY <1>1, <1>4, <2>1 DEF TypeInv, SectionTypes, Threads
  <2>6. SectionsHaveCalls'
    BY <2>4, <2>5 DEF TypeInv, SectionsHaveCalls
  <2> QED
    BY <1>2, <2>3, <2>6 DEF TypeInv
<1> QED
  BY <1>3, <1>4 DEF Threads

LEMMA ClaimTypes ==
  ASSUME TypeInv, NEW p \in Processes, NEW t \in Threads,
         CreateClaim(p, t) \/ WriteClaim(p, t) \/ ReadClaim(p, t) \/ UnlinkClaim(p, t)
  PROVE  TypeInv'
<1>1. at[p][t] # "none" /\ UNCHANGED <<lock, alive, lingering>>
  BY DEF CreateClaim, WriteClaim, ReadClaim, UnlinkClaim
<1>2. claim' \in Claims \cup {None}
  <2>1. [by |-> p, thread |-> t, written |-> FALSE] \in Claims
    BY DEF Claims
  <2>2. [by |-> p, thread |-> t, written |-> TRUE] \in Claims
    BY DEF Claims
  <2> QED
    BY <2>1, <2>2 DEF CreateClaim, WriteClaim, ReadClaim, UnlinkClaim, Unlink, TypeInv, FileTypes
<1>3. UNCHANGED faults \/ Fault
  BY DEF CreateClaim, WriteClaim, ReadClaim, UnlinkClaim
<1>4. FileTypes'
  BY <1>1, <1>2, <1>3, FaultsCounted DEF TypeInv, FileTypes
<1>5. CASE Finish(p, t, "no") \/ Finish(p, t, "threw")
  BY <1>1, <1>4, <1>5, FinishTypes
<1>6. CASE ~(Finish(p, t, "no") \/ Finish(p, t, "threw"))
  <2>1. UNCHANGED <<callers, outcome>>
        /\ \E place \in {"claim_write", "claim_read", "claim_unlink", "claim_again", "check"} :
             Go(p, t, place)
    BY <1>6 DEF CreateClaim, WriteClaim, ReadClaim, UnlinkClaim
  <2> QED
    BY <1>1, <1>4, <2>1, GoTypes DEF Claiming, Claimed, TypeInv, SectionTypes
<1> QED
  BY <1>5, <1>6

LEMMA CheckLockTypes ==
  ASSUME TypeInv, NEW p \in Processes, NEW t \in Threads, CheckLock(p, t)
  PROVE  TypeInv'
<1>1. /\ at[p][t] # "none" /\ UNCHANGED <<filesAndProcesses, callers, outcome>>
      /\ Go(p, t, "commit") \/ Go(p, t, "unclaim")
  BY DEF CheckLock
<1>2. FileTypes' /\ outcome' \in [Processes -> [Threads -> {"yes", "no", "threw"}]]
  BY <1>1 DEF filesAndProcesses, TypeInv, FileTypes, SectionTypes
<1> QED
  BY <1>1, <1>2, GoTypes DEF Claimed

LEMMA CommitLockTypes ==
  ASSUME TypeInv, NEW p \in Processes, NEW t \in Threads, CommitLock(p, t)
  PROVE  TypeInv'
<1>1. /\ at[p][t] = "commit" /\ Go(p, t, "unclaim")
      /\ UNCHANGED <<claim, alive, lingering, callers>>
  BY DEF CommitLock
<1>2. Record(p) \in Locks
  BY <1>1, RecordNamed DEF TypeInv, CallTypes, IdsAreDrawn, SectionsHaveCalls, Threads
<1>3. lock' \in Locks \cup {None} /\ (UNCHANGED faults \/ Fault)
  BY <1>2 DEF CommitLock, TypeInv, FileTypes
<1>4. FileTypes'
  BY <1>1, <1>3, FaultsCounted DEF TypeInv, FileTypes
<1>5. PICK result \in {"yes", "threw"} : outcome' = [outcome EXCEPT ![p][t] = result]
  BY DEF CommitLock
<1>6. outcome' \in [Processes -> [Threads -> {"yes", "no", "threw"}]]
  BY <1>5 DEF TypeInv, SectionTypes
<1> QED
  BY <1>1, <1>4, <1>6, GoTypes DEF Claimed

LEMMA UnclaimTypes ==
  ASSUME TypeInv, NEW p \in Processes, NEW t \in Threads, ReadOwnClaim(p, t) \/ ReleaseClaim(p, t)
  PROVE  TypeInv'
<1>1. /\ at[p][t] # "none" /\ UNCHANGED <<lock, alive, lingering>>
      /\ claim' \in {claim, None} /\ (UNCHANGED faults \/ Fault)
  BY DEF ReadOwnClaim, ReleaseClaim, Unlink, filesAndProcesses
<1>2. FileTypes'
  BY <1>1, FaultsCounted DEF TypeInv, FileTypes
<1>3. outcome[p][t] \in {"yes", "no", "threw"}
  BY DEF TypeInv, SectionTypes
<1>4. CASE Finish(p, t, outcome[p][t])
  BY <1>1, <1>2, <1>3, <1>4, FinishTypes
<1>5. CASE ~Finish(p, t, outcome[p][t])
  <2>1. Go(p, t, "unclaim_unlink") /\ UNCHANGED <<callers, outcome>>
    BY <1>5 DEF ReadOwnClaim, ReleaseClaim
  <2> QED
    BY <1>1, <1>2, <2>1, GoTypes DEF Claimed, TypeInv, SectionTypes
<1> QED
  BY <1>4, <1>5

LEMMA CrashTypes ==
  ASSUME TypeInv, NEW p \in Processes, Crash(p)
  PROVE  TypeInv'
<1>1. /\ p \in alive /\ Fault /\ EndCall(p) /\ UNCHANGED <<lock, claim>>
      /\ alive' = alive \ {p} /\ lingering' = lingering \cup {p}
      /\ at' = [at EXCEPT ![p] = [t \in Threads |-> "none"]]
      /\ outcome' = [outcome EXCEPT ![p] = [t \in Threads |-> "no"]]
  BY DEF Crash
<1>2. CallTypes'
  BY <1>1, CallTypesKept DEF TypeInv, EndCall, Modes
<1>3. FileTypes'
  BY <1>1, FaultsCounted DEF TypeInv, FileTypes
<1>4. SectionTypes'
  BY <1>1 DEF TypeInv, SectionTypes, Places
<1>5. SectionsHaveCalls'
  BY <1>1 DEF EndCall, BeginCall, TypeInv, CallTypes, SectionTypes, SectionsHaveCalls, Threads
<1> QED
  BY <1>2, <1>3, <1>4, <1>5 DEF TypeInv

LEMMA TypeStep ==
  ASSUME TypeInv, [Next]_vars
  PROVE  TypeInv'
<1>1. CASE UNCHANGED vars
  <2>1. UNCHANGED callers
    BY <1>1 DEF vars, callers
  <2>2. CallTypes'
    BY <1>1, <2>1 DEF callers, TypeInv, CallTypes, IdsAreDrawn
  <2> QED
    BY <1>1, <2>2 DEF vars, TypeInv, FileTypes, SectionTypes, SectionsHaveCalls
<1>2. ASSUME NEW p \in Processes, NEW kind \in {"mutate", "recover"}, StartAcquire(p, kind)
      PROVE  TypeInv'
  BY <1>2, StartAcquireTypes
<1>3. ASSUME NEW p \in Processes, Call(p)
      PROVE  TypeInv'
  BY <1>3, CreateLockTypes, WriteLockTypes, ReadLockTypes, InspectTypes DEF Call
<1>4. ASSUME NEW p \in Processes, StartRelease(p)
      PROVE  TypeInv'
  BY <1>4, StartReleaseTypes
<1>5. ASSUME NEW p \in Processes, NEW t \in Threads, EnterSection(p, t)
      PROVE  TypeInv'
  BY <1>5, EnterSectionTypes
<1>6. ASSUME NEW p \in Processes, NEW t \in Threads, InSection(p, t)
      PROVE  TypeInv'
  BY <1>6, ClaimTypes, CheckLockTypes, CommitLockTypes, UnclaimTypes DEF InSection
<1>7. ASSUME NEW p \in Processes, Crash(p)
      PROVE  TypeInv'
  BY <1>7, CrashTypes
<1>8. ASSUME NEW p \in Processes, Expire(p)
      PROVE  TypeInv'
  <2>1. CallTypes'
    BY <1>8, CallTypesKept DEF Expire, TypeInv
  <2> QED
    BY <1>8, <2>1 DEF Expire, callers, sections, TypeInv, FileTypes, SectionTypes, SectionsHaveCalls
<1> QED
  BY <1>1, <1>2, <1>3, <1>4, <1>5, <1>6, <1>7, <1>8 DEF Next, Proceed, Threads

\* The types of lock.ts and file-lock-store.ts, however many processes there are,
\* and whatever is stolen: a call never passes MAX_ACQUIRE_ATTEMPTS,
\* and what is written into the lock file always has a drawn id.
THEOREM TypeCorrect == Spec => []TypeOK
<1>1. TypeInv /\ [Next]_vars => TypeInv'
  BY TypeStep
<1>2. TypeInv /\ stolen \in BOOLEAN => TypeOK
  BY DEF TypeInv, CallTypes, FileTypes, SectionTypes, TypeOK, Modes, Places
<1>3. Init => stolen \in BOOLEAN
  BY DEF Init
<1>4. stolen \in BOOLEAN /\ [Next]_vars => (stolen \in BOOLEAN)'
  <2>1. Unlink => stolen' \in BOOLEAN
    BY DEF Unlink
  <2> QED BY <2>1, StolenStep
<1> QED
  BY <1>1, <1>2, <1>3, <1>4, TypeInit, PTL DEF Spec

-----------------------------------------------------------------------------
(* What a heartbeat does not cost.                                         *)

\* Whoever holds the lock has its record in the file in full, so that its release
\* finds it there: the comparison before the removal never fails.
HeldIsWritten ==
  \A p \in Processes :
    /\ Owns(p) /\ pc[p] # "write" => lock.written
    /\ pc[p] = "releasing" /\ at[p]["main"] \in {"unclaim", "unclaim_unlink"}
         => outcome[p]["main"] # "no"

LEMMA HeldInit == Init => HeldIsWritten
BY DEF Init, HeldIsWritten, Owns

\* The record that is written, or an owner's that is not touched.
LEMMA WrittenKept ==
  ASSUME LockInv, LockInv', HeldIsWritten, NEW p \in Processes,
         \A q \in Processes \ {p} :
           pc'[q] = pc[q] /\ at'[q] = at[q] /\ outcome'[q] = outcome[q],
         lock' = lock \/ lock' = Record(p) \/ (lock' # None /\ lock'.owner = p) \/ lock' = None,
         Owns(p)' /\ pc'[p] # "write" => lock'.written,
         pc'[p] = "releasing" /\ at'[p]["main"] \in {"unclaim", "unclaim_unlink"}
           => outcome'[p]["main"] # "no"
  PROVE  HeldIsWritten'
<1> SUFFICES ASSUME NEW q \in Processes, q # p
             PROVE  /\ Owns(q)' /\ pc'[q] # "write" => lock'.written
                    /\ pc'[q] = "releasing" /\ at'[q]["main"] \in {"unclaim", "unclaim_unlink"}
                         => outcome'[q]["main"] # "no"
  BY DEF HeldIsWritten
<1>1. Owns(q)' <=> Owns(q)
  BY DEF Owns
<1>2. Owns(q)' => lock' # None /\ lock'.owner = q
  BY DEF LockInv, OwnersAreNamed
<1>3. ASSUME Owns(q)', pc'[q] # "write"
      PROVE  lock'.written
  <2>1. CASE lock' = lock
    BY <1>1, <1>3, <2>1 DEF HeldIsWritten
  <2>2. CASE lock' = Record(p)
    BY <1>2, <1>3, <2>2 DEF Record
  <2> QED
    BY <1>2, <1>3, <2>1, <2>2
<1>4. ASSUME pc'[q] = "releasing", at'[q]["main"] \in {"unclaim", "unclaim_unlink"}
      PROVE  outcome'[q]["main"] # "no"
  BY <1>4 DEF HeldIsWritten
<1> QED
  BY <1>3, <1>4

\* A step that leaves the lock file alone, and does not make its process an owner.
LEMMA UntouchedKeepsHeld ==
  ASSUME LockInv, LockInv', HeldIsWritten, NEW p \in Processes, lock' = lock,
         \A q \in Processes \ {p} :
           pc'[q] = pc[q] /\ at'[q] = at[q] /\ outcome'[q] = outcome[q],
         Owns(p)' /\ pc'[p] # "write" => Owns(p) /\ pc[p] # "write",
         pc'[p] = "releasing" /\ at'[p]["main"] \in {"unclaim", "unclaim_unlink"}
           => outcome'[p]["main"] # "no"
  PROVE  HeldIsWritten'
BY WrittenKept DEF HeldIsWritten

LEMMA CallKeepsHeld ==
  ASSUME LockInv, LockInv', HeldIsWritten, NEW p \in Processes, Call(p)
  PROVE  HeldIsWritten'
<1>1. /\ pc[p] \in {"create", "write", "read", "inspect"}
      /\ at[p]["main"] = "none" /\ UNCHANGED <<at, outcome>>
  BY Attempting DEF Call, CreateLock, WriteLock, ReadLock, Inspect, sections
<1>2. \A q \in Processes \ {p} : pc'[q] = pc[q]
  BY DEF Call, CreateLock, WriteLock, ReadLock, Inspect, Hold, Retry, EndCall, BeginCall, LockInv, Shapes
<1>3. CASE CreateLock(p)
  <2>1. pc'[p] \in {"write", "read"} /\ (lock' = lock \/ pc'[p] = "write")
    BY <1>3 DEF CreateLock, LockInv, Shapes
  <2>2. lock' = lock \/ (lock' # None /\ lock'.owner = p)
    BY <2>1 DEF LockInv, OwnersAreNamed, Owns
  <2> QED
    BY <1>1, <1>2, <2>1, <2>2, WrittenKept DEF Owns
<1>4. CASE WriteLock(p) /\ ~EndCall(p)
  <2>1. lock' = Record(p)
    BY <1>1, <1>4 DEF WriteLock, LockInv, OwnersAreNamed, Owns
  <2>2. pc'[p] = "holding"
    BY <1>4 DEF WriteLock, Hold, LockInv, Shapes
  <2>3. lock'.written
    BY <2>1 DEF Record
  <2> QED
    BY <1>1, <1>2, <2>1, <2>2, <2>3, WrittenKept
<1>5. CASE WriteLock(p) /\ EndCall(p)
  <2>1. pc'[p] = "idle"
    BY <1>5 DEF EndCall, BeginCall, LockInv, Shapes
  <2>2. lock' = lock \/ lock' = Record(p)
    BY <1>5 DEF WriteLock
  <2> QED
    BY <1>1, <1>2, <2>1, <2>2, WrittenKept DEF Owns
<1>6. CASE ReadLock(p) \/ Inspect(p)
  <2>1. pc'[p] \in {"idle", "create", "inspect", "takeover"} /\ lock' = lock
    BY <1>6 DEF ReadLock, Inspect, Retry, EndCall, BeginCall, filesAndProcesses, LockInv, Shapes
  <2>2. outcome[p]["main"] # "yes"
    BY <1>1 DEF LockInv, SectionsFit
  <2> QED
    BY <1>1, <1>2, <2>1, <2>2, UntouchedKeepsHeld DEF Owns
<1> QED
  BY <1>3, <1>4, <1>5, <1>6 DEF Call

\* The comparison before a removal finds what it expects.
LEMMA ReleaseFindsItsRecord ==
  ASSUME LockInv, HeldIsWritten, NEW p \in Processes, pc[p] = "releasing", at[p]["main"] = "check"
  PROVE  IsExpected(p)
<1>1. Owns(p)
  BY DEF Owns
<1>2. lock # None /\ IdOf(lock) = mine[p] /\ lock.written
  BY <1>1 DEF LockInv, OwnersAreNamed, HeldIsWritten
<1> QED
  BY <1>2 DEF IsExpected, Expected, Parsed

\* The end of a section.
LEMMA FinishKeepsHeld ==
  ASSUME LockInv, LockInv', HeldIsWritten, NEW p \in Processes, NEW t \in Threads,
         NEW result \in {"yes", "no", "threw"},
         at[p][t] # "none", Finish(p, t, result), result = "yes" => outcome[p][t] = "yes",
         lock' = lock
  PROVE  HeldIsWritten'
<1>1. at' = [at EXCEPT ![p][t] = "none"] /\ outcome' = [outcome EXCEPT ![p][t] = "no"]
  BY DEF Finish, Go
<1>2. /\ \A q \in Processes \ {p} : at'[q] = at[q] /\ outcome'[q] = outcome[q]
      /\ at'[p][t] = "none" /\ outcome'[p][t] = "no"
      /\ \A u \in Threads \ {t} : at'[p][u] = at[p][u] /\ outcome'[p][u] = outcome[p][u]
  BY <1>1 DEF LockInv, Shapes
<1>3. CASE t = "beat"
  <2>1. UNCHANGED pc /\ at[p]["main"] = "none"
    BY <1>3 DEF Finish, callers, LockInv, SectionsFit
  <2>2. at'[p]["main"] = "none" /\ outcome'[p]["main"] = outcome[p]["main"]
    BY <1>2, <1>3, <2>1 DEF Threads
  <2> QED
    BY <1>2, <2>1, <2>2, UntouchedKeepsHeld DEF Owns
<1>4. CASE t = "main"
  <2>1. pc[p] \in {"takeover", "releasing"}
    BY <1>4 DEF LockInv, SectionsFit
  <2>2. \/ EndCall(p) \/ Retry(p)
        \/ Hold(p) /\ pc[p] = "takeover" /\ outcome[p]["main"] = "yes"
    BY <1>4, <2>1 DEF Finish
  <2>3. /\ \A q \in Processes \ {p} : pc'[q] = pc[q]
        /\ \/ pc'[p] \in {"idle", "create"}
           \/ pc'[p] = "holding" /\ Owns(p)
    BY <2>2 DEF EndCall, Retry, Hold, BeginCall, Owns, LockInv, Shapes
  <2>4. pc[p] # "write"
    BY <2>1
  <2> QED
    BY <1>2, <2>3, <2>4, UntouchedKeepsHeld DEF Owns
<1> QED
  BY <1>3, <1>4 DEF Threads

\* A step within a section that leaves the lock file and the caller alone.
LEMMA GoKeepsHeld ==
  ASSUME LockInv, LockInv', HeldIsWritten, NEW p \in Processes, NEW t \in Threads, NEW place,
         Go(p, t, place), UNCHANGED <<lock, callers, outcome>>,
         t = "main" /\ place \in {"unclaim", "unclaim_unlink"} =>
           pc[p] # "releasing" \/ at[p]["main"] = "unclaim",
         at[p][t] \in {"unclaim", "unclaim_unlink"} => place = "unclaim_unlink"
  PROVE  HeldIsWritten'
<1>1. /\ \A q \in Processes \ {p} : at'[q] = at[q]
      /\ at'[p][t] = place
      /\ \A u \in Threads \ {t} : at'[p][u] = at[p][u]
  BY DEF Go, LockInv, Shapes
<1>2. UNCHANGED pc
  BY DEF callers
<1>3. pc[p] = "releasing" /\ at'[p]["main"] \in {"unclaim", "unclaim_unlink"}
        => outcome[p]["main"] # "no"
  BY <1>1 DEF HeldIsWritten, Threads
<1>4. Owns(p)' => Owns(p)
  BY <1>1, <1>2 DEF Owns, Threads
<1> QED
  BY <1>1, <1>2, <1>3, <1>4, UntouchedKeepsHeld DEF HeldIsWritten

LEMMA SectionKeepsHeld ==
  ASSUME LockInv, LockInv', HeldIsWritten, NEW p \in Processes, NEW t \in Threads,
         InSection(p, t), ~CommitLock(p, t)
  PROVE  HeldIsWritten'
<1>1. at[p][t] # "none" /\ lock' = lock /\ outcome[p][t] \in {"yes", "no", "threw"}
  BY DEF InSection, CreateClaim, WriteClaim, ReadClaim, UnlinkClaim, CheckLock, ReadOwnClaim,
         ReleaseClaim, filesAndProcesses, LockInv, Shapes
<1>2. CASE Finish(p, t, "no") \/ Finish(p, t, "threw") \/ Finish(p, t, outcome[p][t])
  BY <1>1, <1>2, FinishKeepsHeld
<1>3. CASE ~(Finish(p, t, "no") \/ Finish(p, t, "threw") \/ Finish(p, t, outcome[p][t]))
  <2>1. CASE CreateClaim(p, t) \/ WriteClaim(p, t) \/ ReadClaim(p, t) \/ UnlinkClaim(p, t)
    <3>1. PICK place \in {"claim_write", "claim_read", "claim_unlink", "claim_again", "check"} :
            Go(p, t, place) /\ UNCHANGED <<callers, outcome>>
      BY <1>3, <2>1 DEF CreateClaim, WriteClaim, ReadClaim, UnlinkClaim
    <3>2. at[p][t] \notin {"unclaim", "unclaim_unlink"}
      BY <2>1 DEF CreateClaim, WriteClaim, ReadClaim, UnlinkClaim
    <3> QED
      BY <1>1, <3>1, <3>2, GoKeepsHeld
  <2>2. CASE CheckLock(p, t)
    <3>1. at[p][t] = "check" /\ UNCHANGED <<callers, outcome>>
      BY <2>2 DEF CheckLock
    <3>2. CASE IsExpected(p)
      BY <1>1, <2>2, <3>1, <3>2, GoKeepsHeld DEF CheckLock
    <3>3. CASE ~IsExpected(p)
      BY <1>1, <2>2, <3>1, <3>3, ReleaseFindsItsRecord, GoKeepsHeld DEF CheckLock
    <3> QED
      BY <3>2, <3>3
  <2>3. CASE ReadOwnClaim(p, t) \/ ReleaseClaim(p, t)
    <3>1. at[p][t] = "unclaim" /\ Go(p, t, "unclaim_unlink") /\ UNCHANGED <<callers, outcome>>
      BY <1>3, <2>3 DEF ReadOwnClaim, ReleaseClaim
    <3> QED
      BY <1>1, <3>1, GoKeepsHeld
  <2> QED
    BY <2>1, <2>2, <2>3 DEF InSection
<1> QED
  BY <1>2, <1>3

LEMMA CommitKeepsHeld ==
  ASSUME LockInv, LockInv', HeldIsWritten, NEW p \in Processes, NEW t \in Threads, CommitLock(p, t)
  PROVE  HeldIsWritten'
<1>1. PICK result \in {"yes", "threw"} : outcome' = [outcome EXCEPT ![p][t] = result]
  BY DEF CommitLock
<1>2. /\ UNCHANGED pc /\ at[p][t] = "commit"
      /\ \A q \in Processes \ {p} : at'[q] = at[q] /\ outcome'[q] = outcome[q]
      /\ at'[p][t] = "unclaim" /\ outcome'[p][t] = result
      /\ \A u \in Threads \ {t} : at'[p][u] = at[p][u] /\ outcome'[p][u] = outcome[p][u]
  BY <1>1 DEF CommitLock, Go, callers, LockInv, Shapes
<1>3. pc'[p] = "releasing" /\ at'[p]["main"] \in {"unclaim", "unclaim_unlink"}
        => outcome'[p]["main"] # "no"
  BY <1>2 DEF HeldIsWritten, Threads
<1>4. CASE lock' = Record(p)
  <2>1. lock'.written
    BY <1>4 DEF Record
  <2> QED
    BY <1>2, <1>3, <1>4, <2>1, WrittenKept
<1>5. CASE lock' = None
  <2>1. Owns(p)' => lock' # None
    BY DEF LockInv, OwnersAreNamed
  <2> QED
    BY <1>2, <1>3, <1>5, <2>1, WrittenKept
<1>6. CASE UNCHANGED lock /\ outcome' = [outcome EXCEPT ![p][t] = "threw"]
  <2>1. outcome'[p][t] = "threw"
    BY <1>6 DEF LockInv, Shapes
  <2>2. Owns(p)' => Owns(p)
    BY <1>2, <2>1 DEF Owns, Threads
  <2> QED
    BY <1>2, <1>3, <1>6, <2>2, UntouchedKeepsHeld
<1> QED
  BY <1>4, <1>5, <1>6 DEF CommitLock

LEMMA HeldStep ==
  ASSUME LockInv, LockInv', HeldIsWritten, [Next]_vars
  PROVE  HeldIsWritten'
<1>1. CASE UNCHANGED vars
  BY <1>1 DEF vars, HeldIsWritten, Owns
<1>2. ASSUME NEW p \in Processes, NEW kind \in {"mutate", "recover"}, StartAcquire(p, kind)
      PROVE  HeldIsWritten'
  <2>1. /\ pc'[p] = "create" /\ \A q \in Processes \ {p} : pc'[q] = pc[q]
        /\ UNCHANGED <<lock, at, outcome>>
    BY <1>2 DEF StartAcquire, BeginCall, filesAndProcesses, sections, LockInv, Shapes
  <2> QED
    BY <2>1, UntouchedKeepsHeld DEF Owns
<1>3. ASSUME NEW p \in Processes, Call(p)
      PROVE  HeldIsWritten'
  BY <1>3, CallKeepsHeld
<1>4. ASSUME NEW p \in Processes, StartRelease(p)
      PROVE  HeldIsWritten'
  <2>1. /\ pc[p] = "holding" /\ \A q \in Processes \ {p} : pc'[q] = pc[q]
        /\ UNCHANGED <<lock, at, outcome>>
    BY <1>4 DEF StartRelease, filesAndProcesses, sections, LockInv, Shapes
  <2>2. at[p]["main"] = "none"
    BY <2>1 DEF LockInv, SectionsFit
  <2> QED
    BY <2>1, <2>2, UntouchedKeepsHeld DEF Owns
<1>5. ASSUME NEW p \in Processes, NEW t \in Threads, EnterSection(p, t)
      PROVE  HeldIsWritten'
  <2>1. /\ at[p][t] = "none" /\ Go(p, t, "claim") /\ UNCHANGED <<lock, callers, outcome>>
    BY <1>5 DEF EnterSection, filesAndProcesses
  <2> QED
    BY <2>1, GoKeepsHeld
<1>6. ASSUME NEW p \in Processes, NEW t \in Threads, InSection(p, t)
      PROVE  HeldIsWritten'
  BY <1>6, SectionKeepsHeld, CommitKeepsHeld
<1>7. ASSUME NEW p \in Processes, Crash(p)
      PROVE  HeldIsWritten'
  <2>1. /\ pc'[p] = "idle" /\ lock' = lock
        /\ \A q \in Processes \ {p} : pc'[q] = pc[q] /\ at'[q] = at[q] /\ outcome'[q] = outcome[q]
    BY <1>7 DEF Crash, EndCall, BeginCall, LockInv, Shapes
  <2> QED
    BY <2>1, UntouchedKeepsHeld DEF Owns
<1>8. ASSUME NEW p \in Processes, Expire(p)
      PROVE  HeldIsWritten'
  BY <1>8 DEF Expire, callers, sections, HeldIsWritten, Owns
<1> QED
  BY <1>1, <1>2, <1>3, <1>4, <1>5, <1>6, <1>7, <1>8 DEF Next, Proceed, Threads

\* A release that ends without its lock gone has met a claim.
LEMMA OnlyAClaimCostsTheLock ==
  ASSUME LockInv, TypeInv, HeldIsWritten, [Next]_vars, NEW p \in alive,
         pc[p] = "releasing", pc'[p] = "idle", p \in alive', faults' = faults,
         outcome[p]["main"] = "no"
  PROVE  Orphaned \/ (claim # None /\ claim.by # p)
<1>1. p \in Processes /\ faults \in Nat /\ ~Fault
  BY DEF TypeInv, FileTypes, Fault
\* Only its main thread, in the claim section, can end the call.
<1>2. \E t \in Threads : InSection(p, t)
  <2>1. ~UNCHANGED pc
    OBVIOUS
  <2>2. ~(\E kind \in {"mutate", "recover"} : StartAcquire(p, kind)) /\ ~Call(p) /\ ~StartRelease(p)
    BY <1>1 DEF StartAcquire, Call, CreateLock, WriteLock, ReadLock, Inspect, StartRelease
  <2>3. ~Crash(p)
    BY DEF Crash
  <2>4. ASSUME NEW q \in Processes, q # p
        PROVE  /\ ~(\E kind \in {"mutate", "recover"} : StartAcquire(q, kind))
               /\ ~Call(q) /\ ~StartRelease(q) /\ ~Crash(q)
    BY <1>1, <2>4 DEF StartAcquire, Call, CreateLock, WriteLock, ReadLock, Inspect, StartRelease, Crash,
       Hold, Retry, EndCall, BeginCall, LockInv, Shapes
  <2>5. ASSUME NEW q \in Processes, q # p, NEW t \in Threads, InSection(q, t)
        PROVE  FALSE
    <3>1. /\ at[q][t] # "none"
          /\ UNCHANGED pc \/ \E result \in {"yes", "no", "threw"} : Finish(q, t, result)
      BY <2>5 DEF InSection, CreateClaim, WriteClaim, ReadClaim, UnlinkClaim, CheckLock, CommitLock,
         ReadOwnClaim, ReleaseClaim, callers, LockInv, Shapes
    <3>2. UNCHANGED callers \/ EndCall(q) \/ Retry(q) \/ Hold(q)
      BY <2>1, <3>1 DEF Finish, LockInv, SectionsFit, Threads
    <3> QED
      BY <1>1, <2>1, <2>5, <3>2 DEF EndCall, Retry, Hold, BeginCall, callers, LockInv, Shapes
  <2>6. \A q \in Processes : ~Expire(q) /\ \A t \in Threads : ~EnterSection(q, t)
    BY <2>1 DEF Expire, EnterSection, callers
  <2> QED
    BY <2>1, <2>2, <2>3, <2>4, <2>5, <2>6 DEF Next, Proceed, vars, Threads
<1>3. PICK t \in Threads : InSection(p, t)
  BY <1>2
<1>4. ~UNCHANGED callers
  BY DEF callers
<1>5. \E result \in {"yes", "no", "threw"} : Finish(p, t, result)
  BY <1>3, <1>4 DEF InSection, CreateClaim, WriteClaim, ReadClaim, UnlinkClaim, CheckLock, CommitLock,
     ReadOwnClaim, ReleaseClaim, LockInv, Shapes
<1>6. t = "main" /\ at[p]["beat"] = "none"
  <2>1. t = "main"
    BY <1>4, <1>5 DEF Finish, Threads
  <2>2. at[p]["main"] # "none"
    BY <1>3, <2>1 DEF InSection, CreateClaim, WriteClaim, ReadClaim, UnlinkClaim, CheckLock, CommitLock,
       ReadOwnClaim, ReleaseClaim
  <2> QED
    BY <1>1, <2>1, <2>2 DEF LockInv, SectionsFit
\* It is not the comparison with the record that has failed.
<1>7. ~ReadOwnClaim(p, t) /\ ~ReleaseClaim(p, t)
  BY <1>1, <1>6 DEF ReadOwnClaim, ReleaseClaim, HeldIsWritten
<1>8. claim # None /\ at[p]["main"] \in {"claim_again", "claim_read"}
  BY <1>1, <1>3, <1>4, <1>6, <1>7
  DEF InSection, CreateClaim, WriteClaim, ReadClaim, UnlinkClaim, CheckLock, CommitLock, Parsed
<1>9. CASE claim.by = p
  <2>1. claim \in Claims
    BY <1>8 DEF TypeInv, FileTypes
  <2>2. claim.thread \in Threads
    BY <2>1 DEF Claims
  <2>3. at[p][claim.thread] \notin Claimed \cup {"claim_write"}
    BY <1>6, <1>8, <2>2 DEF Threads, Claimed
  <2> QED
    BY <1>8, <1>9, <2>3 DEF Orphaned
<1> QED
  BY <1>8, <1>9

\* The timer and the release of StateMutationLock (state/lock.ts), queued by
\* withClaimTurn (file-lock-store.ts): for as long as no unlink steals the claim of
\* a takeover, no heartbeat of its own and no comparison makes a release return
\* "lost", however many processes, failures and crashes there are (issue #51, H2).
THEOREM HeartbeatIsHarmless == Spec => HeartbeatNeverCostsTheLock
<1> DEFINE Harmless ==
      stolen' \/ \A p \in alive :
        (pc[p] = "releasing" /\ pc'[p] = "idle" /\ p \in alive' /\ faults' = faults
           /\ lock # None /\ lock.owner = p /\ outcome[p]["main"] = "no")
          => Orphaned \/ (claim # None /\ claim.by # p)
<1>1. (stolen \/ (LockInv /\ HeldIsWritten)) /\ TypeInv /\ [Next]_vars => Harmless
  BY OnlyAClaimCostsTheLock, Stolen
<1>2. /\ stolen \/ LockInv
      /\ (stolen \/ LockInv)'
      /\ stolen \/ (LockInv /\ HeldIsWritten)
      /\ [Next]_vars
      => (stolen \/ (LockInv /\ HeldIsWritten))'
  BY HeldStep, Stolen
<1>3. TypeInv /\ [Next]_vars => TypeInv'
  BY TypeStep
<1> QED
  BY <1>1, <1>2, <1>3, LockInit, TypeInit, HeldInit, LockInvariant, PTL DEF Spec, HeartbeatNeverCostsTheLock
=============================================================================
