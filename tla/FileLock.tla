------------------------------- MODULE FileLock -------------------------------
(***************************************************************************)
(* The mutation lock: acquireStateMutationLock and StateMutationLock       *)
(* (state/lock.ts) over FileLockStore (state/file-lock-store.ts), driven   *)
(* by the coordinator's heartbeat timer (state/mutation-coordinator.ts).   *)
(* One action per file operation of a process.                             *)
(*                                                                         *)
(* A file is created empty (open 'wx') and written next; until then it     *)
(* parses as no record.  Replacing and removing the lock file are guarded  *)
(* by a second file, the claim.  A process of the model is one incarnation *)
(* (pid and start time): a restarted program is another one.  An open or a *)
(* read that fails for another reason than that the file is there, or is   *)
(* not, ends a call as a failed write does, leaves less behind, and is     *)
(* left out; so is the temporary file of replace.                          *)
(***************************************************************************)
EXTENDS Integers, FiniteSets

CONSTANTS
  Processes,
  LockIds,      \* what tells the lock ids of one process apart
  MaxAttempts,  \* MAX_ACQUIRE_ATTEMPTS
  MaxFaults,    \* bound: crashes and failed file operations
  None

\* The caller of acquire and release, and the heartbeat timer.
Threads == {"main", "beat"}

\* A lock id: the process that drew it tells it apart from all others.
Ids == [owner : Processes, id : LockIds]

Locks == [owner : Processes, id : LockIds, written : BOOLEAN]
Claims == [by : Processes, thread : Threads, written : BOOLEAN]

ASSUME LockAssumption ==
  /\ None \notin Processes \cup Ids \cup Locks \cup Claims
  /\ MaxAttempts \in Nat \ {0}

VARIABLES
  lock,      \* the lock file: owner, lock id, whether written yet; or None
  claim,     \* the claim file: whose it is, whether written yet; or None
  alive,     \* the processes that have not died
  lingering, \* those that died so lately that an answer may still be kept
  pc,        \* per process: what the caller of acquire and release is at
  mode,      \* per process: "mutate", "recover", or "takeover" (recoveryComplete)
  attempts,  \* per process: recursion depth of acquire
  mine,      \* per process: the lock id it proposed or holds, or None
  seen,      \* per process: owner and id acquire found in the file, or None
  at,        \* per process and thread: the place in the claim section
  outcome,   \* per process and thread: what replace or remove will return
  stolen,    \* history: an unlink has hit the claim of a takeover that needed it
  faults     \* counter behind the bound

vars == <<lock, claim, alive, lingering, pc, mode, attempts, mine, seen, at, outcome, stolen, faults>>
filesAndProcesses == <<lock, claim, alive, lingering, stolen, faults>>
callers == <<pc, mode, attempts, mine, seen>>
sections == <<at, outcome>>

Calls == {"idle", "create", "write", "read", "inspect", "takeover", "holding", "releasing"}

\* Within claim(), and then with the claim in hand.
Claiming == {"claim", "claim_write", "claim_read", "claim_unlink", "claim_again"}
Claimed == {"check", "commit", "unclaim", "unclaim_unlink"}

IdOf(file) == [owner |-> file.owner, id |-> file.id]

UsedIds ==
  {mine[p] : p \in Processes} \cup {seen[p] : p \in Processes}
    \cup (IF lock = None THEN {} ELSE {IdOf(lock)})

\* randomUUID(): an id that nothing names.  Bound: LockIds, which must not
\* run out.
FreshIds(p) == {id \in LockIds : [owner |-> p, id |-> id] \notin UsedIds}
FreshId(p) == [owner |-> p, id |-> CHOOSE id \in FreshIds(p) : TRUE]

Fault == faults < MaxFaults /\ faults' = faults + 1

\* The answers of isSameProcess.  A process keeps one for five seconds, so it
\* may take another for alive a while after that died; whether it had asked
\* before is left open.  That a process id is used again within five seconds
\* is left out.
SameProcess(q) ==
  {same \in BOOLEAN : IF same THEN q \in alive \cup lingering ELSE q \notin alive}

\* What read() returns: None also for a file that is not written yet.
Parsed(file) == IF file # None /\ file.written THEN file ELSE None

-----------------------------------------------------------------------------
(* acquireStateMutationLock.                                               *)

\* A call starts, or a recovery its second acquire.
BeginCall(p, place, kind) ==
  /\ pc' = [pc EXCEPT ![p] = place]
  /\ mode' = [mode EXCEPT ![p] = kind]
  /\ attempts' = [attempts EXCEPT ![p] = 0]
  /\ mine' = [mine EXCEPT ![p] = None]
  /\ seen' = [seen EXCEPT ![p] = None]

\* The caller ends: with an error, with a refusal, or with the lock let go.
EndCall(p) == BeginCall(p, "idle", "mutate")

\* Mutant of Retry: the limit is compared one call too late.
RetryOnceMore(p) ==
  IF attempts[p] >= MaxAttempts
  THEN EndCall(p)
  ELSE /\ pc' = [pc EXCEPT ![p] = "create"]
       /\ attempts' = [attempts EXCEPT ![p] = @ + 1]
       /\ mine' = [mine EXCEPT ![p] = None]
       /\ seen' = [seen EXCEPT ![p] = None]
       /\ UNCHANGED mode

\* The recursive call, which throws at the limit.
Retry(p) ==
  IF attempts[p] + 1 >= MaxAttempts
  THEN EndCall(p)
  ELSE /\ pc' = [pc EXCEPT ![p] = "create"]
       /\ attempts' = [attempts EXCEPT ![p] = @ + 1]
       /\ mine' = [mine EXCEPT ![p] = None]
       /\ seen' = [seen EXCEPT ![p] = None]
       /\ UNCHANGED mode

Hold(p) ==
  /\ pc' = [pc EXCEPT ![p] = "holding"]
  /\ mode' = [mode EXCEPT ![p] = "mutate"]
  /\ attempts' = [attempts EXCEPT ![p] = 0]
  /\ seen' = [seen EXCEPT ![p] = None]
  /\ UNCHANGED mine

\* An operation that changes something asks for the lock, recover at first
\* like any other.
StartAcquire(p, kind) ==
  /\ p \in alive /\ pc[p] = "idle"
  /\ BeginCall(p, "create", kind)
  /\ UNCHANGED <<filesAndProcesses, sections>>

\* store.create: an empty file, if there is none.  The id is drawn before;
\* here it is named when it first matters.
CreateLock(p) ==
  /\ pc[p] = "create"
  /\ IF lock = None
     THEN /\ FreshIds(p) # {}
          /\ mine' = [mine EXCEPT ![p] = FreshId(p)]
          /\ lock' = [owner |-> p, id |-> FreshId(p).id, written |-> FALSE]
          /\ pc' = [pc EXCEPT ![p] = "write"]
     ELSE /\ pc' = [pc EXCEPT ![p] = "read"]
          /\ UNCHANGED <<lock, mine>>
  /\ UNCHANGED <<claim, alive, lingering, stolen, faults, mode, attempts, seen, sections>>

\* The record of the lock that p proposes or holds.
Record(p) == [owner |-> p, id |-> mine[p].id, written |-> TRUE]

\* Writing the record.  When the write fails the empty file stays, when the
\* sync after it does the complete record; either way the call has failed.
WriteLock(p) ==
  LET written == IF lock # None /\ IdOf(lock) = mine[p] THEN Record(p) ELSE lock IN
  /\ pc[p] = "write"
  /\ \/ lock' = written /\ Hold(p) /\ UNCHANGED faults
     \/ lock' \in {lock, written} /\ EndCall(p) /\ Fault
  /\ UNCHANGED <<claim, alive, lingering, stolen, sections>>

ReadLock(p) ==
  /\ pc[p] = "read"
  /\ IF Parsed(lock) = None
     THEN Retry(p)
     ELSE /\ seen' = [seen EXCEPT ![p] = IdOf(lock)]
          /\ pc' = [pc EXCEPT ![p] = "inspect"]
          /\ UNCHANGED <<mode, attempts, mine>>
  /\ UNCHANGED <<filesAndProcesses, sections>>

\* Mutant of Refused: whoever finds a dead owner helps itself.
RefusedOnlyIfAlive(p, same) == same

\* The owner is alive (busy), or dead and this is no recovery.
Refused(p, same) == same \/ mode[p] = "mutate"

\* A recovery that meets a dead owner asks again, with the right to take
\* over (acquireRootGate); then it may replace the record.
Inspect(p) ==
  /\ pc[p] = "inspect"
  /\ \/ /\ \E same \in SameProcess(seen[p].owner) :
             \/ Refused(p, same) /\ EndCall(p)
             \/ ~Refused(p, same) /\ mode[p] = "recover" /\ BeginCall(p, "create", "takeover")
             \/ /\ ~Refused(p, same) /\ mode[p] # "recover"
                /\ FreshIds(p) # {}
                /\ pc' = [pc EXCEPT ![p] = "takeover"]
                /\ mine' = [mine EXCEPT ![p] = FreshId(p)]
                /\ UNCHANGED <<mode, attempts, seen>>
        /\ UNCHANGED faults
     \/ /\ Fault  \* the query fails: nothing is known of the owner
        /\ EndCall(p)
  /\ UNCHANGED <<lock, claim, alive, lingering, stolen, sections>>

\* The timer is stopped before the lock file is removed.
StartRelease(p) ==
  /\ pc[p] = "holding"
  /\ pc' = [pc EXCEPT ![p] = "releasing"]
  /\ UNCHANGED <<filesAndProcesses, mode, attempts, mine, seen, sections>>

-----------------------------------------------------------------------------
(* FileLockStore.replace and remove: with the claim file in hand, compare  *)
(* the lock id, then rename over the lock file or unlink it.               *)

\* Mutant of Turn: no queue in the process.
NoTurn(p) == TRUE

\* withClaimTurn: one section at a time in a process.  A heartbeat that still
\* waits for its turn when the caller releases is one that comes first.
Turn(p) == \A t \in Threads : at[p][t] = "none"

\* The main thread takes over or releases; the timer, while the lock is
\* held, writes a heartbeat.
Wants(p, t) ==
  \/ t = "main" /\ pc[p] \in {"takeover", "releasing"}
  \/ t = "beat" /\ pc[p] = "holding"

Expected(p) == IF pc[p] = "takeover" THEN seen[p] ELSE mine[p]

Go(p, t, place) == at' = [at EXCEPT ![p][t] = place]

EnterSection(p, t) ==
  /\ p \in alive /\ at[p][t] = "none"
  /\ Wants(p, t)
  /\ Turn(p)
  /\ Go(p, t, "claim")
  /\ UNCHANGED <<filesAndProcesses, callers, outcome>>

\* What replace or remove returned, or that it threw.
Finish(p, t, result) ==
  /\ Go(p, t, "none")
  /\ outcome' = [outcome EXCEPT ![p][t] = "no"]
  /\ CASE t = "beat"                                      -> UNCHANGED callers
       [] t = "main" /\ pc[p] = "releasing"               -> EndCall(p)
       [] t = "main" /\ pc[p] = "takeover" /\ result = "yes"   -> Hold(p)
       [] t = "main" /\ pc[p] = "takeover" /\ result = "no"    -> Retry(p)
       [] t = "main" /\ pc[p] = "takeover" /\ result = "threw" -> EndCall(p)

\* Mutant of CreateClaim: the file is opened whether it is there or not.
ClaimRegardless(p, t) ==
  /\ at[p][t] \in {"claim", "claim_again"}
  /\ claim' = [by |-> p, thread |-> t, written |-> FALSE]
  /\ Go(p, t, "claim_write")
  /\ UNCHANGED <<lock, alive, lingering, stolen, faults, callers, outcome>>

\* createAt, the first and the second try: an empty claim, if there is none.
CreateClaim(p, t) ==
  /\ at[p][t] \in {"claim", "claim_again"}
  /\ \/ /\ claim = None
        /\ claim' = [by |-> p, thread |-> t, written |-> FALSE]
        /\ Go(p, t, "claim_write")
        /\ UNCHANGED <<callers, outcome>>
     \/ /\ claim # None /\ at[p][t] = "claim"
        /\ Go(p, t, "claim_read")
        /\ UNCHANGED <<claim, callers, outcome>>
     \/ /\ claim # None /\ at[p][t] = "claim_again"
        /\ Finish(p, t, "no")
        /\ UNCHANGED claim
  /\ UNCHANGED <<lock, alive, lingering, stolen, faults>>

IsOwnClaim(p, t) == claim # None /\ claim.by = p /\ claim.thread = t

\* Into the file that was opened, whatever its name is by now; a write or a
\* sync that fails leaves it there.
WriteClaim(p, t) ==
  LET written == IF IsOwnClaim(p, t) THEN [by |-> p, thread |-> t, written |-> TRUE] ELSE claim IN
  /\ at[p][t] = "claim_write"
  /\ \/ claim' = written /\ Go(p, t, "check") /\ UNCHANGED <<callers, outcome, faults>>
     \/ claim' \in {claim, written} /\ Finish(p, t, "threw") /\ Fault
  /\ UNCHANGED <<lock, alive, lingering, stolen>>

\* A claim of a live process is respected; any other, one not yet written
\* too, is in the way.
ReadClaim(p, t) ==
  LET holder == Parsed(claim) IN
  /\ at[p][t] = "claim_read"
  /\ \/ /\ holder # None /\ TRUE \in SameProcess(holder.by)
        /\ Finish(p, t, "no")
        /\ UNCHANGED faults
     \/ /\ holder # None => FALSE \in SameProcess(holder.by)
        /\ Go(p, t, "claim_unlink")
        /\ UNCHANGED <<callers, outcome, faults>>
     \/ /\ holder # None
        /\ Fault
        /\ Finish(p, t, "threw")
  /\ UNCHANGED <<lock, claim, alive, lingering, stolen>>

\* p has made a claim to replace the record of a dead owner, and not yet done it.
TakingOver(p) == pc[p] = "takeover" /\ at[p]["main"] \in {"claim_write", "check", "commit"}

\* unlink: the claim file goes by its path, whoever's it is by now.
Unlink ==
  /\ claim' = None
  /\ stolen' = (stolen \/ (claim # None /\ claim.thread = "main" /\ TakingOver(claim.by)))

UnlinkClaim(p, t) ==
  /\ at[p][t] = "claim_unlink"
  /\ \/ /\ Unlink
        /\ Go(p, t, "claim_again")
        /\ UNCHANGED <<callers, outcome, faults>>
     \/ /\ Fault
        /\ Finish(p, t, "no")
        /\ UNCHANGED <<claim, stolen>>
  /\ UNCHANGED <<lock, alive, lingering>>

IsExpected(p) == Parsed(lock) # None /\ IdOf(lock) = Expected(p)

CheckLock(p, t) ==
  /\ at[p][t] = "check"
  /\ Go(p, t, IF IsExpected(p) THEN "commit" ELSE "unclaim")
  /\ UNCHANGED <<filesAndProcesses, callers, outcome>>

\* The section ends in remove, not in replace.
Removes(p, t) == t = "main" /\ pc[p] = "releasing"

\* replace renames a complete record over the lock file, remove unlinks it;
\* an unlink that finds no file throws.
CommitLock(p, t) ==
  /\ at[p][t] = "commit"
  /\ Go(p, t, "unclaim")
  /\ \/ /\ ~Removes(p, t)
        /\ lock' = Record(p)
        /\ outcome' = [outcome EXCEPT ![p][t] = "yes"]
        /\ UNCHANGED faults
     \/ /\ Removes(p, t)
        /\ lock' = None
        /\ outcome' = [outcome EXCEPT ![p][t] = IF lock = None THEN "threw" ELSE "yes"]
        /\ UNCHANGED faults
     \/ /\ Fault
        /\ outcome' = [outcome EXCEPT ![p][t] = "threw"]
        /\ UNCHANGED lock
  /\ UNCHANGED <<claim, alive, lingering, stolen, callers>>

\* releaseClaim: if the file still is the claim this section wrote ...
ReadOwnClaim(p, t) ==
  /\ at[p][t] = "unclaim"
  /\ IF IsOwnClaim(p, t) /\ claim.written
     THEN Go(p, t, "unclaim_unlink") /\ UNCHANGED <<callers, outcome>>
     ELSE Finish(p, t, outcome[p][t])
  /\ UNCHANGED filesAndProcesses

\* ... it is removed; that this fails goes unnoticed.
ReleaseClaim(p, t) ==
  /\ at[p][t] = "unclaim_unlink"
  /\ \/ Unlink /\ UNCHANGED faults
     \/ Fault /\ UNCHANGED <<claim, stolen>>
  /\ Finish(p, t, outcome[p][t])
  /\ UNCHANGED <<lock, alive, lingering>>

-----------------------------------------------------------------------------
(* The environment.                                                        *)

\* The process dies; its files stay.
Crash(p) ==
  /\ p \in alive
  /\ Fault
  /\ alive' = alive \ {p}
  /\ lingering' = lingering \cup {p}
  /\ EndCall(p)
  /\ at' = [at EXCEPT ![p] = [t \in Threads |-> "none"]]
  /\ outcome' = [outcome EXCEPT ![p] = [t \in Threads |-> "no"]]
  /\ UNCHANGED <<lock, claim, stolen>>

\* Mutant of Expire: answers are kept for good.
NeverExpire(p) == FALSE

\* Five seconds after its death the last answer about a process is dropped.
Expire(p) ==
  /\ p \in lingering
  /\ lingering' = lingering \ {p}
  /\ UNCHANGED <<lock, claim, alive, stolen, faults, callers, sections>>

-----------------------------------------------------------------------------
Init ==
  /\ lock = None /\ claim = None
  /\ alive = Processes
  /\ lingering = {}
  /\ pc = [p \in Processes |-> "idle"]
  /\ mode = [p \in Processes |-> "mutate"]
  /\ attempts = [p \in Processes |-> 0]
  /\ mine = [p \in Processes |-> None]
  /\ seen = [p \in Processes |-> None]
  /\ at = [p \in Processes |-> [t \in Threads |-> "none"]]
  /\ outcome = [p \in Processes |-> [t \in Threads |-> "no"]]
  /\ stolen = FALSE
  /\ faults = 0

Call(p) == CreateLock(p) \/ WriteLock(p) \/ ReadLock(p) \/ Inspect(p)

InSection(p, t) ==
  \/ CreateClaim(p, t) \/ WriteClaim(p, t) \/ ReadClaim(p, t) \/ UnlinkClaim(p, t)
  \/ CheckLock(p, t) \/ CommitLock(p, t) \/ ReadOwnClaim(p, t) \/ ReleaseClaim(p, t)

\* What a live process does on its own.
Proceed(p) ==
  \/ Call(p)
  \/ StartRelease(p)
  \/ EnterSection(p, "main")
  \/ \E t \in Threads : InSection(p, t)

Next ==
  \E p \in Processes :
    \/ \E kind \in {"mutate", "recover"} : StartAcquire(p, kind)
    \/ Proceed(p)
    \/ EnterSection(p, "beat")
    \/ Crash(p)
    \/ Expire(p)

Spec == Init /\ [][Next]_vars

\* A live process goes on, an operation that holds the lock ends, answers
\* expire; and whoever is told to run recover does so sooner or later.
Fairness ==
  \A p \in Processes :
    /\ WF_vars(Proceed(p))
    /\ WF_vars(Expire(p))
    /\ SF_vars(StartAcquire(p, "recover"))

FairSpec == Spec /\ Fairness

-----------------------------------------------------------------------------
(* Properties.                                                             *)

\* Every variable has its type.
TypeOK ==
  /\ lock \in Locks \cup {None}
  /\ claim \in Claims \cup {None}
  /\ alive \subseteq Processes
  /\ lingering \subseteq Processes \ alive
  /\ pc \in [Processes -> Calls]
  /\ mode \in [Processes -> {"mutate", "recover", "takeover"}]
  /\ attempts \in [Processes -> 0 .. MaxAttempts - 1]
  /\ mine \in [Processes -> Ids \cup {None}]
  /\ seen \in [Processes -> Ids \cup {None}]
  /\ at \in [Processes -> [Threads -> Claiming \cup Claimed \cup {"none"}]]
  /\ outcome \in [Processes -> [Threads -> {"yes", "no", "threw"}]]
  /\ stolen \in BOOLEAN
  /\ faults \in Nat

\* At most one process is between acquire and release, however many recoveries
\* contend for the lock of a dead owner: the persist operations of two
\* processes never write the state directory at once.  The exception is what
\* unlink does by path (file-lock-store.ts:58): it may remove the claim of
\* another takeover, half written or made since the claim file was read
\* (LiveLockIsKept).
MutualExclusion ==
  stolen \/ \A p, q \in Processes : pc[p] = "holding" /\ pc[q] = "holding" => p = q

\* The lock file behaves as the gate its callers rely on: a live owner keeps
\* it, a dead one is replaced by recovery alone (ADR-0006, invariant 7), for as
\* long as no takeover has lost its claim to an unlink.
Gate == INSTANCE RootGate WITH
  owner <- IF lock = None THEN None ELSE lock.owner,
  live <- alive,
  recovering <- {p \in alive : mode[p] = "takeover"}

GateIsKept == Gate!Init /\ [][stolen' \/ Gate!Next]_(Gate!gate)

\* The record of a live process leaves the lock file by its own release only
\* (ADR-0006, invariant 7): what the claim file is there for.
LiveLockIsKept ==
  [][(lock # None /\ lock.owner \in alive /\ (lock' = None \/ lock'.owner # lock.owner))
       => pc[lock.owner] = "releasing"]_vars

\* A claim whose maker lives but has lost sight of it: its removal failed.
Orphaned ==
  /\ claim # None
  /\ claim.by \in alive
  /\ at[claim.by][claim.thread] \notin Claimed \cup {"claim_write"}

\* Nobody's own heartbeat ever costs it the lock: a release that returns "lost"
\* has met the claim of another process or an orphaned one (issue #51, H2); the
\* exception of MutualExclusion applies.
HeartbeatNeverCostsTheLock ==
  [][stolen' \/ \A p \in alive :
       (pc[p] = "releasing" /\ pc'[p] = "idle" /\ p \in alive' /\ faults' = faults
          /\ lock # None /\ lock.owner = p /\ outcome[p]["main"] = "no")
         => Orphaned \/ (claim # None /\ claim.by # p)]_vars

\* The record of a dead owner is in the file, and somebody lives to see it.
DeadLock == Parsed(lock) # None /\ lock.owner \notin alive /\ alive # {}

\* The lock of a dead owner does not last: recovery takes it over, unless an
\* orphaned claim is in the way.
DeadLockIsTakenOver == DeadLock ~> (~DeadLock \/ Orphaned)
=============================================================================
