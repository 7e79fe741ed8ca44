----------------------- MODULE PersistTransactionProofs -----------------------
(***************************************************************************)
(* What TLAPS proves about PersistTransaction for any number of steps,     *)
(* regions and user values, and with no bound on transactions, faults,     *)
(* torn journals or drifts.                                                *)
(***************************************************************************)
EXTENDS PersistTransaction, TLAPS

-----------------------------------------------------------------------------
(* Lemmas about the vocabulary.                                            *)

\* The journal steps are the settings and the cleanup step.
LEMMA StepFacts == /\ Steps \subseteq JournalSteps
                   /\ Cleanup \in JournalSteps
                   /\ PolicyStep \in Steps
                   /\ Standard \subseteq Steps
BY PlanAssumption DEF Steps, JournalSteps, Cleanup, Standard

\* A target dictates a setting for every step.
LEMMA DesiredType == \A target \in Targets : DesiredValues(target) \in Settings
BY DEF Targets, DesiredValues, Settings, Values

\* The planner classifies every step.
LEMMA PlanType ==
  ASSUME NEW from, NEW target, NEW current
  PROVE  PlanTransition(from, target, current)
           \in [Steps -> {"absent", "noop", "apply", "restore"}]
BY DEF PlanTransition

\* The effective target is a value per step.
LEMMA EffectiveType ==
  ASSUME NEW target \in Targets, NEW plan, NEW original \in Settings
  PROVE  EffectiveDesired(target, plan, original) \in Settings
BY DesiredType DEF EffectiveDesired, Settings

\* A legal transition leads to a phase.
LEMMA LegalType == \A phase : LegalTransitions(phase) \subseteq Phases
BY DEF LegalTransitions, Phases

\* Giving a step a phase yields a journal again.
LEMMA PhaseChangeType ==
  ASSUME NEW j \in Journals(Nat), NEW s \in JournalSteps, NEW phase \in Phases
  PROVE  [j EXCEPT !.phase[s] = phase] \in Journals(Nat)
BY DEF Journals

\* A fresh journal is one.
LEMMA NewJournalType ==
  ASSUME NEW txid \in Nat, NEW kind \in {"protect", "restore"}, NEW steps,
         NEW previous \in Previous
  PROVE  NewJournal(txid, kind, steps, previous) \in Journals(Nat)
BY DEF NewJournal, Journals, Phases

\* Bringing a setting to a value, or leaving it between two, keeps settings.
LEMMA WriteAuthorityType ==
  ASSUME authority \in Settings, faults \in Nat,
         NEW s \in Steps, NEW v \in Values, NEW outcome, WriteAuthority(s, v, outcome)
  PROVE  authority' \in Settings /\ faults' \in Nat
<1>1. Partial \in Values
  BY DEF Values
<1>2. \A left \in Values : [authority EXCEPT ![s] = left] \in Settings
  BY DEF Settings
<1>3. authority[s] \in Values
  BY DEF Settings
<1>4. CASE outcome = "done"
  BY <1>2, <1>4 DEF WriteAuthority
<1>5. CASE outcome = "denied"
  BY <1>1, <1>2, <1>3, <1>5 DEF WriteAuthority, DeniedInPart, Charge
<1>6. CASE outcome = "threw"
  BY <1>1, <1>2, <1>3, <1>6 DEF WriteAuthority, Interrupted, Charge
<1>7. CASE outcome = "folded"
  BY <1>2, <1>7 DEF WriteAuthority, Accepted, Charge
<1> QED
  BY <1>4, <1>5, <1>6, <1>7 DEF WriteAuthority

\* Journal files hold journals, and a generation that can be read stays.
JournalFilesOK ==
  /\ journal \in Journals(Nat) \cup {None}
  /\ previousJournal \in Journals(Nat) \cup {None}
  /\ torn \in BOOLEAN
  /\ faults \in Nat

\* A journal write puts one generation on disk or keeps what is there.
LEMMA WriteJournalType ==
  ASSUME JournalFilesOK, NEW outcome, NEW j \in Journals(Nat), WriteJournal(outcome, j)
  PROVE  /\ journal' \in Journals(Nat) \cup {None}
         /\ previousJournal' \in Journals(Nat) \cup {None}
         /\ torn' \in BOOLEAN
         /\ (outcome # "lost" \/ JournalRead # None) => JournalRead' # None
BY NoneAssumption DEF JournalFilesOK, WriteJournal, JournalRead

\* A journal transition keeps the files and the copy in memory journals.
LEMMA TransitionType ==
  ASSUME JournalFilesOK, NEW j \in Journals(Nat), NEW s \in JournalSteps,
         NEW phase \in Phases, NEW outcome, Transition(j, s, phase, outcome)
  PROVE  /\ JournalFilesOK'
         /\ memory' \in Journals(Nat)
         /\ JournalRead # None => JournalRead' # None
<1> DEFINE next == [j EXCEPT !.phase[s] = phase]
<1>1. next \in Journals(Nat)
  BY PhaseChangeType
<1>2. faults' \in Nat
  BY DEF Transition, Charge, JournalFilesOK
<1>3. memory' \in Journals(Nat)
  BY <1>1 DEF Transition
<1>4. CASE outcome = "refused"
  <2>1. UNCHANGED journalFiles
    BY <1>4 DEF Transition
  <2> QED
    BY <2>1, <1>2, <1>3 DEF JournalFilesOK, journalFiles, JournalRead
<1>5. CASE outcome # "refused"
  <2>1. WriteJournal(outcome, next)
    BY <1>5 DEF Transition
  <2> HIDE DEF next
  <2> QED
    BY <2>1, <1>1, <1>2, <1>3, WriteJournalType DEF JournalFilesOK
<1> QED
  BY <1>4, <1>5

-----------------------------------------------------------------------------
(* The type invariant, one lemma per action.  The parts say what an action *)
(* can disturb: system, durable records, journal, process, counters.       *)

SystemOK == authority \in Settings /\ daily \in Settings /\ ignored \subseteq Steps

RecordsOK ==
  /\ state \in States(Nat)
  /\ backup \in Settings \cup {None}
  /\ values \in [txid : Nat, original : Settings] \cup {None}

ProcessOK ==
  /\ lock \in {"free", "held", "stale"}
  /\ op \in Operations \cup {None}
  /\ memory \in Journals(Nat) \cup {None}
  /\ pending \subseteq Steps /\ modified \subseteq Steps
  /\ failed \in BOOLEAN /\ degraded \in BOOLEAN

CountersOK == transactions \in Nat /\ tears \in Nat /\ drifts \in Nat

PlaceOK == pc \in Locations /\ Located

\* The type invariant falls into groups of variables that change together ...
LEMMA TypeParts ==
  TypeOK => SystemOK /\ RecordsOK /\ JournalFilesOK /\ ProcessOK /\ CountersOK /\ PlaceOK
BY DEF TypeOK, SystemOK, RecordsOK, JournalFilesOK, ProcessOK, CountersOK, PlaceOK

\* ... and is put together from them again.
LEMMA TypeFromParts ==
  SystemOK' /\ RecordsOK' /\ JournalFilesOK' /\ ProcessOK' /\ CountersOK' /\ PlaceOK' => TypeOK'
BY DEF TypeOK, SystemOK, RecordsOK, JournalFilesOK, ProcessOK, CountersOK, PlaceOK

\* An operation that ends leaves a well-typed idle process.
LEMMA DiscardType ==
  ASSUME NEW after \in {"free", "held", "stale"}, Discard(after)
  PROVE  ProcessOK' /\ PlaceOK'
BY DEF Discard, ProcessOK, PlaceOK, Located, Locations

\* A durable record is written, or not, and the fault paid for.
LEMMA ChargeType ==
  ASSUME JournalFilesOK, NEW outcome, Charge(outcome)
  PROVE  faults' \in Nat
BY DEF JournalFilesOK, Charge

\* A state commit leaves the old or the new state, both well-typed.
LEMMA CommitStateType ==
  ASSUME state \in States(Nat), NEW outcome, NEW next \in States(Nat),
         CommitState(outcome, next)
  PROVE  state' \in States(Nat)
BY DEF CommitState

\* The states the code commits.
LEMMA StateTypes ==
  ASSUME NEW previous \in Previous, NEW health \in Healths, NEW active \in Nat \cup {None}
  PROVE  /\ ProtectionState(previous, health, active) \in States(Nat)
         /\ DailyState(previous.preferred, health, active) \in States(Nat)
BY DEF Previous, States, ProtectionState, DailyState

\* protect() starts with a plan, a goal and a base state of their kinds.
LEMMA StartProtectType ==
  ASSUME TypeOK, NEW target \in Targets, StartProtect(target)
  PROVE  TypeOK'
<1> DEFINE plan == PlanTransition(state.target, target, authority)
           goal == EffectiveDesired(target, plan, IF backup = None THEN authority ELSE backup)
<1>1. plan \in [Steps -> {"absent", "noop", "apply", "restore"}]
  BY PlanType
<1>2. goal \in Settings
  BY EffectiveType DEF TypeOK
<1>3. PlannedSteps(plan) \subseteq Steps
  BY DEF PlannedSteps
<1>4. PreviousOf(state) \in Previous
  BY DEF TypeOK, States, PreviousOf, Previous
<1>5. op' = [kind |-> "protect", txid |-> transactions + 1, target |-> target,
             plan |-> plan, goal |-> goal, original |-> authority,
             base |-> PreviousOf(state), doubtful |-> FALSE]
  BY DEF StartProtect
<1> HIDE DEF plan, goal
<1>6. op' \in Operations
  BY <1>1, <1>2, <1>4, <1>5 DEF Operations, TypeOK
<1>7. target # None /\ op' # None
  BY <1>6, NoneAssumption
<1>8. ProcessOK'
  BY <1>3, <1>6 DEF StartProtect, TypeOK, ProcessOK, plan
<1>9. PlaceOK'
  BY <1>5, <1>7 DEF StartProtect, PlaceOK, Located, Locations
<1>10. SystemOK' /\ RecordsOK' /\ JournalFilesOK' /\ CountersOK'
  BY DEF StartProtect, TypeOK, SystemOK, RecordsOK, JournalFilesOK, CountersOK,
         machine, files, journalFiles
<1> QED
  BY <1>8, <1>9, <1>10, TypeFromParts

\* restore() starts with the backup as its goal.
LEMMA StartRestoreType ==
  ASSUME TypeOK, StartRestore
  PROVE  TypeOK'
<1>1. op' = [kind |-> "restore", txid |-> transactions + 1, target |-> None,
             plan |-> [s \in Steps |-> "restore"], goal |-> backup, original |-> authority,
             base |-> PreviousOf(state), doubtful |-> FALSE]
  BY DEF StartRestore
<1>2. PreviousOf(state) \in Previous
  BY DEF TypeOK, States, PreviousOf, Previous
<1>3. op' \in Operations
  BY <1>1, <1>2 DEF Operations, TypeOK, StartRestore
<1>4. op' # None
  BY <1>3, NoneAssumption
<1>5. ProcessOK'
  BY <1>3 DEF StartRestore, TypeOK, ProcessOK
<1>6. PlaceOK'
  BY <1>1, <1>4 DEF StartRestore, PlaceOK, Located, Locations
<1>7. SystemOK' /\ RecordsOK' /\ JournalFilesOK' /\ CountersOK'
  BY DEF StartRestore, TypeOK, SystemOK, RecordsOK, JournalFilesOK, CountersOK,
         machine, files, journalFiles
<1> QED
  BY <1>5, <1>6, <1>7, TypeFromParts

\* recover() takes its journal, originals and goal over from the files.
LEMMA StartRecoverType ==
  ASSUME TypeOK, StartRecover
  PROVE  TypeOK'
<1> DEFINE j == JournalRead
           open == {s \in Steps : j.phase[s] \notin {"absent", "compensated"}}
<1>1. j # None /\ j \in Journals(Nat) /\ values # None
  BY DEF StartRecover, CanRecover, Readable, JournalRead, TypeOK
<1>2. op' \in Operations
  BY <1>1 DEF StartRecover, Operations, Journals, TypeOK
<1>3. op' # None /\ op'.kind = "recover"
  BY <1>2, NoneAssumption DEF StartRecover
<1>4. memory' = j /\ UNCHANGED <<journal, previousJournal, torn>>
  BY DEF StartRecover, files, journalFiles
<1>5. JournalRead' # None
  BY <1>1, <1>4 DEF JournalRead
<1>6. pending' \subseteq Steps /\ modified' \subseteq Steps
  BY DEF StartRecover, TypeOK
<1>7. ProcessOK'
  BY <1>1, <1>2, <1>4, <1>6 DEF StartRecover, TypeOK, ProcessOK
<1>8. pc' \in {"publish_previous", "compensating", "daily_begin", "cleanup_begin", "publish_daily"}
  BY DEF StartRecover, Unwind
<1>9. PlaceOK'
  BY <1>1, <1>3, <1>4, <1>5, <1>8 DEF PlaceOK, Located, Locations
<1>10. SystemOK' /\ RecordsOK' /\ JournalFilesOK' /\ CountersOK'
  BY DEF StartRecover, TypeOK, SystemOK, RecordsOK, JournalFilesOK, CountersOK,
         machine, files, journalFiles
<1> QED
  BY <1>7, <1>9, <1>10, TypeFromParts

\* The daily snapshot holds settings.
LEMMA CreateDailySnapshotType ==
  ASSUME TypeOK, CreateDailySnapshot
  PROVE  TypeOK'
<1> USE TypeParts
<1>1. PICK outcome \in Outcomes :
        /\ Charge(outcome)
        /\ backup' = IF outcome = "lost" THEN backup ELSE op.original
        /\ ContinueIf(outcome, "values")
  BY DEF CreateDailySnapshot
<1>2. op \in Operations
  BY DEF CreateDailySnapshot, ProcessOK, PlaceOK, Located
<1>3. RecordsOK'
  BY <1>1, <1>2 DEF CreateDailySnapshot, RecordsOK, Operations
<1>4. JournalFilesOK'
  BY <1>1, ChargeType DEF CreateDailySnapshot, JournalFilesOK, journalFiles
<1>5. ProcessOK' /\ PlaceOK'
  <2>1. CASE outcome = "ok"
    BY <1>1, <2>1 DEF ContinueIf, ProcessOK, PlaceOK, Located, Locations, CreateDailySnapshot
  <2>2. CASE outcome # "ok"
    BY <1>1, <2>2, DiscardType DEF ContinueIf, Return
  <2> QED
    BY <2>1, <2>2
<1>6. SystemOK' /\ CountersOK'
  BY DEF CreateDailySnapshot, SystemOK, CountersOK, machine
<1> QED
  BY <1>3, <1>4, <1>5, <1>6, TypeFromParts

\* The values snapshot holds settings and its transaction.
LEMMA PlanValuesType ==
  ASSUME TypeOK, PlanValues
  PROVE  TypeOK'
<1> USE TypeParts
<1>1. PICK outcome \in Outcomes :
        /\ Charge(outcome)
        /\ values' = IF outcome = "lost" THEN values
                     ELSE [txid |-> op.txid, original |-> op.original]
        /\ ContinueIf(outcome, "plan")
  BY DEF PlanValues
<1>2. op \in Operations
  BY DEF PlanValues, ProcessOK, PlaceOK, Located
<1>3. RecordsOK'
  BY <1>1, <1>2 DEF PlanValues, RecordsOK, Operations
<1>4. JournalFilesOK'
  BY <1>1, ChargeType DEF PlanValues, JournalFilesOK, journalFiles
<1>5. ProcessOK' /\ PlaceOK'
  <2>1. CASE outcome = "ok"
    BY <1>1, <2>1 DEF ContinueIf, ProcessOK, PlaceOK, Located, Locations, PlanValues
  <2>2. CASE outcome # "ok"
    BY <1>1, <2>2, DiscardType DEF ContinueIf, Return
  <2> QED
    BY <2>1, <2>2
<1>6. SystemOK' /\ CountersOK'
  BY DEF PlanValues, SystemOK, CountersOK, machine
<1> QED
  BY <1>3, <1>4, <1>5, <1>6, TypeFromParts

\* Planning leaves a journal on disk and its copy in memory.
LEMMA PlanPhasesType ==
  ASSUME TypeOK, PlanPhases
  PROVE  TypeOK'
<1> USE TypeParts
<1> DEFINE steps == PlannedSteps(op.plan) \cup (IF op.kind = "restore" THEN {Cleanup} ELSE {})
           j == NewJournal(op.txid, op.kind, steps, op.base)
<1>1. PICK outcome \in Outcomes :
        /\ Charge(outcome)
        /\ WriteJournal(outcome, j)
        /\ IF outcome = "ok"
           THEN /\ pc' = "begin"
                /\ memory' = j
                /\ UNCHANGED <<lock, op, pending, modified, failed, degraded>>
           ELSE Return
  BY DEF PlanPhases
<1>2. op \in Operations /\ op.kind \in {"protect", "restore"}
  BY DEF PlanPhases, ProcessOK, PlaceOK, Located, Operations
<1>3. j \in Journals(Nat)
  BY <1>2, NewJournalType DEF Operations
<1> HIDE DEF j
<1>4. /\ journal' \in Journals(Nat) \cup {None}
      /\ previousJournal' \in Journals(Nat) \cup {None}
      /\ torn' \in BOOLEAN
      /\ outcome # "lost" => JournalRead' # None
  BY <1>1, <1>3, WriteJournalType
<1>5. JournalFilesOK'
  BY <1>1, <1>4, ChargeType DEF JournalFilesOK
<1>6. ProcessOK' /\ PlaceOK'
  <2>1. CASE outcome = "ok"
    BY <1>1, <1>2, <1>3, <1>4, <2>1, NoneAssumption
       DEF ProcessOK, PlaceOK, Located, Locations, PlanPhases
  <2>2. CASE outcome # "ok"
    BY <1>1, <2>2, DiscardType DEF Return
  <2> QED
    BY <2>1, <2>2
<1>7. SystemOK' /\ CountersOK' /\ RecordsOK'
  BY DEF PlanPhases, SystemOK, CountersOK, RecordsOK, machine
<1> QED
  BY <1>5, <1>6, <1>7, TypeFromParts

\* A state commit that leaves a well-typed process keeps all types.
LEMMA CommitType ==
  ASSUME TypeOK, NEW outcome, NEW next \in States(Nat),
         Charge(outcome), CommitState(outcome, next), ProcessOK' /\ PlaceOK',
         UNCHANGED <<machine, backup, values, journalFiles, transactions, tears, drifts, ignored>>
  PROVE  TypeOK'
<1> USE TypeParts
<1>1. RecordsOK'
  BY CommitStateType DEF RecordsOK
<1>2. JournalFilesOK'
  BY ChargeType DEF JournalFilesOK, journalFiles
<1>3. SystemOK' /\ CountersOK'
  BY DEF SystemOK, CountersOK, machine
<1> QED
  BY <1>1, <1>2, <1>3, TypeFromParts

\* Naming the transaction in the state keeps all types.
LEMMA BeginTransactionType ==
  ASSUME TypeOK, BeginTransaction
  PROVE  TypeOK'
<1> USE TypeParts
<1> DEFINE to == IF op.kind = "restore" THEN "daily_begin"
                 ELSE IF pending = {} THEN "complete" ELSE "applying"
           next == ProtectionState(op.base, op.base.health, op.txid)
<1>1. PICK outcome \in Outcomes :
        Charge(outcome) /\ CommitState(outcome, next) /\ ContinueIf(outcome, to)
  BY DEF BeginTransaction
<1>2. op \in Operations /\ op.kind \in {"protect", "restore"}
  BY DEF BeginTransaction, ProcessOK, PlaceOK, Located, Operations
<1>3. next \in States(Nat)
  BY <1>2, StateTypes DEF Operations, Previous
<1>4. ProcessOK' /\ PlaceOK'
  <2>1. CASE outcome = "ok"
    BY <1>1, <1>2, <2>1
       DEF ContinueIf, ProcessOK, PlaceOK, Located, Locations, BeginTransaction,
           JournalRead, journalFiles
  <2>2. CASE outcome # "ok"
    BY <1>1, <2>2, DiscardType DEF ContinueIf, Return
  <2> QED
    BY <2>1, <2>2
<1> HIDE DEF next
<1> QED
  BY <1>1, <1>3, <1>4, CommitType DEF BeginTransaction

\* So does the commit of a target ...
LEMMA CompleteProtectType ==
  ASSUME TypeOK, CompleteProtect
  PROVE  TypeOK'
<1> USE TypeParts
<1> DEFINE next == [target |-> op.target, preferred |-> op.target.region,
                    health |-> IF degraded THEN "degraded" ELSE "healthy", active |-> None]
<1>1. PICK outcome \in Outcomes : Charge(outcome) /\ CommitState(outcome, next)
  BY DEF CompleteProtect
<1>2. op \in Operations /\ op.target \in Targets
  BY DEF CompleteProtect, ProcessOK, PlaceOK, Located, Operations
<1>3. next \in States(Nat)
  BY <1>2 DEF States, Targets, Healths
<1>4. ProcessOK' /\ PlaceOK'
  BY DiscardType DEF CompleteProtect, Return
<1> HIDE DEF next
<1> QED
  BY <1>1, <1>3, <1>4, CommitType DEF CompleteProtect

\* ... the return to the previous state ...
LEMMA PublishPreviousType ==
  ASSUME TypeOK, PublishPrevious
  PROVE  TypeOK'
<1> USE TypeParts
<1> DEFINE next == ProtectionState(op.base,
                     IF failed THEN "recovery_required" ELSE op.base.health, None)
<1>1. PICK outcome \in Outcomes : Charge(outcome) /\ CommitState(outcome, next)
  BY DEF PublishPrevious
<1>2. op \in Operations
  BY DEF PublishPrevious, ProcessOK, PlaceOK, Located
<1>3. next \in States(Nat)
  BY <1>2, StateTypes DEF Operations, Previous, Healths
<1>4. ProcessOK' /\ PlaceOK'
  BY DiscardType DEF PublishPrevious, Return
<1> HIDE DEF next
<1> QED
  BY <1>1, <1>3, <1>4, CommitType DEF PublishPrevious

\* ... and every commit of a daily state.
LEMMA DailyCommitsType ==
  ASSUME TypeOK, PublishDaily \/ FailCleanup \/ CompleteDaily
  PROVE  TypeOK'
<1> USE TypeParts
<1>1. op \in Operations
  BY DEF PublishDaily, FailCleanup, CompleteDaily, ProcessOK, PlaceOK, Located
<1>2. \A health \in Healths, active \in Nat \cup {None} :
        DailyState(op.base.preferred, health, active) \in States(Nat)
  BY <1>1, StateTypes DEF Operations
<1>3. /\ DailyState(op.base.preferred, "healthy", op.txid) \in States(Nat)
      /\ DailyState(op.base.preferred, "recovery_required", op.txid) \in States(Nat)
      /\ DailyState(op.base.preferred, "healthy", None) \in States(Nat)
  BY <1>1, <1>2 DEF Operations, Healths
<1>4. CASE PublishDaily
  <2>1. PICK outcome \in Outcomes :
          /\ Charge(outcome)
          /\ CommitState(outcome, DailyState(op.base.preferred, "healthy", op.txid))
          /\ ContinueIf(outcome, "cleanup_begin")
    BY <1>4 DEF PublishDaily
  <2>2. ProcessOK' /\ PlaceOK'
    <3>1. CASE outcome = "ok"
      BY <1>4, <2>1, <3>1
         DEF ContinueIf, ProcessOK, PlaceOK, Located, Locations, PublishDaily,
             JournalRead, journalFiles
    <3>2. CASE outcome # "ok"
      BY <2>1, <3>2, DiscardType DEF ContinueIf, Return
    <3> QED
      BY <3>1, <3>2
  <2> QED
    BY <1>3, <1>4, <2>1, <2>2, CommitType DEF PublishDaily
<1>5. CASE FailCleanup
  BY <1>3, <1>5, CommitType, DiscardType DEF FailCleanup, Return
<1>6. CASE CompleteDaily
  BY <1>3, <1>6, CommitType, DiscardType DEF CompleteDaily, Return
<1> QED
  BY <1>4, <1>5, <1>6

-----------------------------------------------------------------------------
(* The steps on the journal.                                               *)

Unplanned == {"idle", "snapshot", "values", "plan"}
Applying == {"applying", "apply", "verify", "complete"}

\* A step past the planning stays well-typed when the journal stays readable,
\* a copy of it is in memory and the protect branch is not entered from outside.
LEMMA ReportType ==
  ASSUME TypeOK, pc \notin Unplanned,
         JournalFilesOK', JournalRead' # None, memory' \in Journals(Nat),
         pc' \in Locations \ (Unplanned \cup {"begin"}),
         pc' \in Applying => pc \in Applying,
         pending' \subseteq Steps, modified' \subseteq Steps, failed' \in BOOLEAN,
         UNCHANGED <<machine, state, backup, values, lock, op, degraded,
                     transactions, tears, drifts, ignored>>
  PROVE  TypeOK'
<1> USE TypeParts
<1>1. SystemOK' /\ RecordsOK' /\ CountersOK'
  BY DEF SystemOK, RecordsOK, CountersOK, machine
<1>2. ProcessOK'
  BY DEF ProcessOK
<1>3. PlaceOK'
  BY NoneAssumption DEF PlaceOK, Located, Unplanned, Applying
<1> QED
  BY <1>1, <1>2, <1>3, TypeFromParts

\* What a step past the planning may rely on.
LEMMA AtHand ==
  ASSUME TypeOK, pc \notin Unplanned
  PROVE  /\ op \in Operations
         /\ memory \in Journals(Nat) /\ JournalRead \in Journals(Nat)
         /\ JournalRead # None
         /\ JournalFilesOK
         /\ pending \subseteq Steps /\ modified \subseteq Steps /\ failed \in BOOLEAN
BY DEF TypeOK, Located, Unplanned, JournalRead, JournalFilesOK

\* A transition of the copy in memory, or none at all.
LEMMA MemoryReport ==
  ASSUME TypeOK, pc \notin Unplanned, NEW s \in JournalSteps, NEW phase \in Phases,
         \/ \E outcome : Transition(memory, s, phase, outcome)
         \/ \E outcome : Transition(JournalRead, s, phase, outcome)
         \/ UNCHANGED <<journalFiles, memory, faults>>
         \/ memory' = JournalRead /\ UNCHANGED <<journalFiles, faults>>
  PROVE  JournalFilesOK' /\ JournalRead' # None /\ memory' \in Journals(Nat)
<1> USE AtHand
<1>1. CASE \E outcome : Transition(memory, s, phase, outcome)
  BY <1>1, TransitionType
<1>2. CASE \E outcome : Transition(JournalRead, s, phase, outcome)
  BY <1>2, TransitionType
<1>3. CASE UNCHANGED <<journalFiles, memory, faults>>
  BY <1>3 DEF JournalFilesOK, JournalRead, journalFiles
<1>4. CASE memory' = JournalRead /\ UNCHANGED <<journalFiles, faults>>
  BY <1>4 DEF JournalFilesOK, JournalRead, journalFiles
<1> QED
  BY <1>1, <1>2, <1>3, <1>4

\* The phases the code writes.
LEMMA PhaseNames ==
  {"applying", "verified", "compensating", "compensated", "recovery_required"} \subseteq Phases
BY DEF Phases

\* Reporting a step as applying keeps the journal a journal.
LEMMA ReportApplyingType ==
  ASSUME TypeOK, NEW s \in Steps, ReportApplying(s)
  PROVE  TypeOK'
<1>1. pc = "applying" /\ pc \notin Unplanned
  BY DEF ReportApplying, Unplanned
<1>2. \E outcome : Transition(memory, s, "applying", outcome)
  BY DEF ReportApplying
<1>3. JournalFilesOK' /\ JournalRead' # None /\ memory' \in Journals(Nat)
  BY <1>1, <1>2, MemoryReport, PhaseNames, StepFacts
<1>4. pc' \in {"apply", "publish_previous", "compensating"}
  BY DEF ReportApplying, Unwind
<1> QED
  BY <1>1, <1>3, <1>4, AtHand, ReportType
     DEF ReportApplying, Unplanned, Applying, Locations

\* So does reporting it as verified ...
LEMMA ReportVerifiedType ==
  ASSUME TypeOK, NEW s \in Steps, ReportVerified(s)
  PROVE  TypeOK'
<1>1. pc = "verify" /\ pc \notin Unplanned
  BY DEF ReportVerified, Unplanned
<1>2. \E outcome : Transition(memory, s, "verified", outcome)
  BY DEF ReportVerified
<1>3. JournalFilesOK' /\ JournalRead' # None /\ memory' \in Journals(Nat)
  BY <1>1, <1>2, MemoryReport, PhaseNames, StepFacts
<1>4. pc' \in {"compensating", "complete", "applying"}
  BY DEF ReportVerified
<1>5. pending' \subseteq Steps
  BY <1>1, AtHand DEF ReportVerified
<1> QED
  BY <1>1, <1>3, <1>4, <1>5, AtHand, ReportType
     DEF ReportVerified, Unplanned, Applying, Locations

\* ... as compensating ...
LEMMA ReportCompensatingType ==
  ASSUME TypeOK, NEW s \in Steps, ReportCompensating(s)
  PROVE  TypeOK'
<1>1. pc \notin Unplanned
  BY DEF ReportCompensating, Unplanned
<1>2. \/ \E outcome : Transition(memory, s, "compensating", outcome)
      \/ UNCHANGED <<journalFiles, memory, faults>>
  BY DEF ReportCompensating
<1>3. JournalFilesOK' /\ JournalRead' # None /\ memory' \in Journals(Nat)
  BY <1>1, <1>2, MemoryReport, PhaseNames, StepFacts
<1>4. pc' \in {"rewrite", "mark"}
  BY DEF ReportCompensating
<1> QED
  BY <1>1, <1>3, <1>4, AtHand, ReportType
     DEF ReportCompensating, Unplanned, Applying, Locations

\* The locations after a compensated step.
LEMMA AfterStepPlaces == \A s : AfterStep(s) \in {"publish_previous", "compensating"}
BY DEF AfterStep

\* ... as compensated without a write ...
LEMMA RecoverUntouchedType ==
  ASSUME TypeOK, NEW s \in Steps, RecoverUntouched(s)
  PROVE  TypeOK'
<1>1. pc \notin Unplanned
  BY DEF RecoverUntouched, Unplanned
<1>2. \E outcome : Transition(memory, s, "compensated", outcome)
  BY DEF RecoverUntouched
<1>3. JournalFilesOK' /\ JournalRead' # None /\ memory' \in Journals(Nat)
  BY <1>1, <1>2, MemoryReport, PhaseNames, StepFacts
<1>4. pc' \in {"publish_previous", "compensating", "mark"} /\ modified' \subseteq Steps
  BY <1>1, AfterStepPlaces, AtHand DEF RecoverUntouched
<1> QED
  BY <1>1, <1>3, <1>4, AtHand, ReportType
     DEF RecoverUntouched, Unplanned, Applying, Locations

\* ... as doubtful ...
LEMMA RecoverDoubtfulType ==
  ASSUME TypeOK, NEW s \in Steps, RecoverDoubtful(s)
  PROVE  TypeOK'
<1>1. pc \notin Unplanned
  BY DEF RecoverDoubtful, Unplanned
<1>2. \E outcome : Transition(memory, s, "recovery_required", outcome)
  BY DEF RecoverDoubtful
<1>3. JournalFilesOK' /\ JournalRead' # None /\ memory' \in Journals(Nat)
  BY <1>1, <1>2, MemoryReport, PhaseNames, StepFacts
<1> QED
  BY <1>1, <1>3, AtHand, ReportType
     DEF RecoverDoubtful, Unplanned, Applying, Locations

\* ... as compensated ...
LEMMA ReportCompensatedType ==
  ASSUME TypeOK, NEW s \in Steps, ReportCompensated(s)
  PROVE  TypeOK'
<1>1. pc \notin Unplanned
  BY DEF ReportCompensated, Unplanned
<1>2. \E outcome : Transition(memory, s, "compensated", outcome)
  BY DEF ReportCompensated
<1>3. JournalFilesOK' /\ JournalRead' # None /\ memory' \in Journals(Nat)
  BY <1>1, <1>2, MemoryReport, PhaseNames, StepFacts
<1>4. pc' \in {"publish_previous", "compensating", "mark"} /\ modified' \subseteq Steps
  BY <1>1, AfterStepPlaces, AtHand DEF ReportCompensated
<1> QED
  BY <1>1, <1>3, <1>4, AtHand, ReportType
     DEF ReportCompensated, Unplanned, Applying, Locations

\* ... or as not to be compensated.
LEMMA MarkUncompensatedType ==
  ASSUME TypeOK, NEW s \in Steps, MarkUncompensated(s)
  PROVE  TypeOK'
<1>1. pc \notin Unplanned
  BY DEF MarkUncompensated, Unplanned
<1>2. \/ \E outcome : Transition(memory, s, "recovery_required", outcome)
      \/ UNCHANGED <<journalFiles, memory, faults>>
  BY DEF MarkUncompensated
<1>3. JournalFilesOK' /\ JournalRead' # None /\ memory' \in Journals(Nat)
  BY <1>1, <1>2, MemoryReport, PhaseNames, StepFacts
<1>4. pc' \in {"publish_previous", "compensating"} /\ modified' \subseteq Steps
  BY <1>1, AfterStepPlaces, AtHand DEF MarkUncompensated
<1> QED
  BY <1>1, <1>3, <1>4, AtHand, ReportType
     DEF MarkUncompensated, Unplanned, Applying, Locations

\* The locations after a daily step.
LEMMA AfterDailyPlaces ==
  ASSUME NEW s, NEW hasFailed \in BOOLEAN
  PROVE  AfterDailyStep(s, hasFailed)
           \in {"daily_begin", "publish_previous", "publish_daily", "cleanup_begin"}
BY DEF AfterDailyStep, AfterDaily

\* Opening a step of a restore keeps the journal a journal.
LEMMA BeginDailyStepType ==
  ASSUME TypeOK, NEW s \in Steps, BeginDailyStep(s)
  PROVE  TypeOK'
<1>1. pc \notin Unplanned
  BY DEF BeginDailyStep, Unplanned
<1>2. \/ \E outcome : Transition(memory, s, "applying", outcome)
      \/ UNCHANGED <<journalFiles, memory, faults>>
  BY DEF BeginDailyStep
<1>3. JournalFilesOK' /\ JournalRead' # None /\ memory' \in Journals(Nat)
  BY <1>1, <1>2, MemoryReport, PhaseNames, StepFacts
<1>4. pc' \in {"daily_begin", "publish_previous", "publish_daily", "cleanup_begin",
               "daily_write", "daily_mark"}
  BY AfterDailyPlaces DEF BeginDailyStep
<1>5. pending' \subseteq Steps /\ failed' \in BOOLEAN
  BY <1>1, AtHand DEF BeginDailyStep
<1> QED
  BY <1>1, <1>3, <1>4, <1>5, AtHand, ReportType
     DEF BeginDailyStep, Unplanned, Applying, Locations

\* So does verifying it ...
LEMMA ReportDailyVerifiedType ==
  ASSUME TypeOK, NEW s \in Steps, ReportDailyVerified(s)
  PROVE  TypeOK'
<1>1. pc \notin Unplanned
  BY DEF ReportDailyVerified, Unplanned
<1>2. \/ \E outcome : Transition(memory, s, "verified", outcome)
      \/ UNCHANGED <<journalFiles, memory, faults>>
  BY DEF ReportDailyVerified
<1>3. JournalFilesOK' /\ JournalRead' # None /\ memory' \in Journals(Nat)
  BY <1>1, <1>2, MemoryReport, PhaseNames, StepFacts
<1>4. /\ pc' \in {"daily_begin", "publish_previous", "publish_daily", "cleanup_begin",
                  "daily_mark"}
      /\ pending' \subseteq Steps
  BY <1>1, AfterDailyPlaces, AtHand DEF ReportDailyVerified
<1> QED
  BY <1>1, <1>3, <1>4, AtHand, ReportType
     DEF ReportDailyVerified, Unplanned, Applying, Locations

\* ... or marking it failed.
LEMMA MarkDailyFailedType ==
  ASSUME TypeOK, NEW s \in Steps, MarkDailyFailed(s)
  PROVE  TypeOK'
<1>1. pc \notin Unplanned
  BY DEF MarkDailyFailed, Unplanned
<1>2. \/ \E outcome : Transition(memory, s, "recovery_required", outcome)
      \/ UNCHANGED <<journalFiles, memory, faults>>
  BY DEF MarkDailyFailed
<1>3. JournalFilesOK' /\ JournalRead' # None /\ memory' \in Journals(Nat)
  BY <1>1, <1>2, MemoryReport, PhaseNames, StepFacts
<1>4. /\ pc' \in {"daily_begin", "publish_previous", "publish_daily", "cleanup_begin"}
      /\ pending' \subseteq Steps /\ failed' \in BOOLEAN
  BY <1>1, AfterDailyPlaces, AtHand DEF MarkDailyFailed
<1> QED
  BY <1>1, <1>3, <1>4, AtHand, ReportType
     DEF MarkDailyFailed, Unplanned, Applying, Locations

\* The reports on the deletion of the backup keep the journal a journal.
LEMMA CleanupReportsType ==
  ASSUME TypeOK, BeginCleanup \/ VerifyCleanup \/ MarkCleanupFailed
  PROVE  TypeOK'
<1>1. pc \notin Unplanned
  BY DEF BeginCleanup, VerifyCleanup, MarkCleanupFailed, Unplanned
<1>2. \E phase \in Phases :
        \/ \E outcome : Transition(JournalRead, Cleanup, phase, outcome)
        \/ UNCHANGED <<journalFiles, memory, faults>>
        \/ memory' = JournalRead /\ UNCHANGED <<journalFiles, faults>>
  BY PhaseNames DEF BeginCleanup, VerifyCleanup, MarkCleanupFailed
<1>3. JournalFilesOK' /\ JournalRead' # None /\ memory' \in Journals(Nat)
  BY <1>1, <1>2, MemoryReport, StepFacts
<1>4. pc' \in {"complete_daily", "cleanup_mark", "cleanup_delete", "fail_cleanup"}
  BY DEF BeginCleanup, VerifyCleanup, MarkCleanupFailed
<1> QED
  BY <1>1, <1>3, <1>4, AtHand, ReportType
     DEF BeginCleanup, VerifyCleanup, MarkCleanupFailed, Unplanned, Applying, Locations

-----------------------------------------------------------------------------
(* The system writes, the deletion and the environment.                    *)

\* Applying a step leaves settings, whatever the outcome.
LEMMA ApplyStepType ==
  ASSUME TypeOK, NEW s \in Steps, ApplyStep(s)
  PROVE  TypeOK'
<1> USE TypeParts
<1>1. pc = "apply" /\ op \in Operations /\ op.goal[s] \in Values
  BY AtHand DEF ApplyStep, Unplanned, Operations, Settings
<1>2. authority' \in Settings /\ faults' \in Nat
  BY <1>1, WriteAuthorityType DEF ApplyStep, SystemOK, JournalFilesOK
<1>3. ProcessOK'
  BY DEF ApplyStep, ProcessOK
<1>4. PlaceOK'
  BY DEF ApplyStep, PlaceOK, Located, Locations, JournalRead, files
<1>5. SystemOK' /\ RecordsOK' /\ JournalFilesOK' /\ CountersOK'
  BY <1>2 DEF ApplyStep, SystemOK, RecordsOK, JournalFilesOK, CountersOK, files
<1> QED
  BY <1>3, <1>4, <1>5, TypeFromParts

\* So does writing the original value back ...
LEMMA RewriteOriginalType ==
  ASSUME TypeOK, NEW s \in Steps, RewriteOriginal(s)
  PROVE  TypeOK'
<1> USE TypeParts
<1>1. pc = "rewrite" /\ op \in Operations /\ op.original[s] \in Values
  BY AtHand DEF RewriteOriginal, Unplanned, Operations, Settings
<1>2. authority' \in Settings /\ faults' \in Nat
  BY <1>1, WriteAuthorityType DEF RewriteOriginal, SystemOK, JournalFilesOK
<1>3. ProcessOK'
  BY DEF RewriteOriginal, ProcessOK
<1>4. PlaceOK'
  BY DEF RewriteOriginal, PlaceOK, Located, Locations, JournalRead, files
<1>5. ignored' \subseteq Steps
  BY DEF RewriteOriginal, SystemOK
<1>6. SystemOK' /\ RecordsOK' /\ JournalFilesOK' /\ CountersOK'
  BY <1>2, <1>5 DEF RewriteOriginal, SystemOK, RecordsOK, JournalFilesOK, CountersOK, files
<1> QED
  BY <1>3, <1>4, <1>6, TypeFromParts

\* ... and writing the daily value.
LEMMA WriteDailyType ==
  ASSUME TypeOK, NEW s \in Steps, WriteDaily(s)
  PROVE  TypeOK'
<1> USE TypeParts
<1>1. pc = "daily_write" /\ op \in Operations /\ op.goal[s] \in Values
  BY AtHand DEF WriteDaily, Unplanned, Operations, Settings
<1>2. authority' \in Settings /\ faults' \in Nat
  <2>1. CASE \E outcome : WriteAuthority(s, op.goal[s], outcome)
    BY <1>1, <2>1, WriteAuthorityType DEF SystemOK, JournalFilesOK
  <2>2. CASE UNCHANGED <<authority, faults>>
    BY <2>2 DEF SystemOK, JournalFilesOK
  <2> QED
    BY <2>1, <2>2 DEF WriteDaily
<1>3. ProcessOK'
  BY DEF WriteDaily, ProcessOK
<1>4. PlaceOK'
  BY DEF WriteDaily, PlaceOK, Located, Locations, JournalRead, files
<1>5. ignored' \subseteq Steps
  BY DEF WriteDaily, SystemOK
<1>6. SystemOK' /\ RecordsOK' /\ JournalFilesOK' /\ CountersOK'
  BY <1>2, <1>5 DEF WriteDaily, SystemOK, RecordsOK, JournalFilesOK, CountersOK, files
<1> QED
  BY <1>3, <1>4, <1>6, TypeFromParts

\* The deletion leaves the backup or none.
LEMMA DeleteDailySnapshotType ==
  ASSUME TypeOK, DeleteDailySnapshot
  PROVE  TypeOK'
<1> USE TypeParts
<1>1. ProcessOK'
  BY DEF DeleteDailySnapshot, ProcessOK, locals
<1>2. PlaceOK'
  BY DEF DeleteDailySnapshot, PlaceOK, Located, Locations, JournalRead, journalFiles, locals
<1>3. RecordsOK'
  BY DEF DeleteDailySnapshot, RecordsOK
<1>4. JournalFilesOK'
  BY ChargeType DEF DeleteDailySnapshot, JournalFilesOK, journalFiles
<1>5. SystemOK' /\ CountersOK'
  BY DEF DeleteDailySnapshot, SystemOK, CountersOK, machine
<1> QED
  BY <1>1, <1>2, <1>3, <1>4, <1>5, TypeFromParts

\* setPreferredRegion commits a daily state.
LEMMA SetPreferredRegionType ==
  ASSUME TypeOK, NEW region \in Regions, SetPreferredRegion(region)
  PROVE  TypeOK'
<1> USE TypeParts
<1>1. DailyState(region, state.health, None) \in States(Nat)
  BY DEF RecordsOK, States, DailyState
<1>2. ProcessOK' /\ PlaceOK'
  BY DEF SetPreferredRegion, ProcessOK, PlaceOK, Located, Locations, locals
<1> QED
  BY <1>1, <1>2, CommitType DEF SetPreferredRegion

\* Crashes, torn journals, dead locks and user changes keep all types.
LEMMA EnvironmentType ==
  ASSUME TypeOK,
         \/ RecoverReturnsEarly \/ Crash \/ TearJournal
         \/ \E s \in Steps, v \in Values : UserChangesSetting(s, v)
  PROVE  TypeOK'
<1> USE TypeParts
<1>1. CASE RecoverReturnsEarly
  <2>1. ProcessOK' /\ PlaceOK'
    BY <1>1 DEF RecoverReturnsEarly, ProcessOK, PlaceOK, Located, Locations, locals
  <2>2. SystemOK' /\ RecordsOK' /\ JournalFilesOK' /\ CountersOK'
    BY <1>1 DEF RecoverReturnsEarly, SystemOK, RecordsOK, JournalFilesOK, CountersOK,
                machine, files, journalFiles
  <2> QED
    BY <2>1, <2>2, TypeFromParts
<1>2. CASE Crash
  <2>1. ProcessOK' /\ PlaceOK'
    BY <1>2, DiscardType DEF Crash
  <2>2. authority' \in Settings
    BY <1>2 DEF Crash, SystemOK, Settings, Values
  <2>3. SystemOK' /\ RecordsOK' /\ JournalFilesOK' /\ CountersOK'
    BY <1>2, <2>2 DEF Crash, SystemOK, RecordsOK, JournalFilesOK, CountersOK, files,
                      journalFiles
  <2> QED
    BY <2>1, <2>3, TypeFromParts
<1>3. CASE TearJournal
  <2>1. ProcessOK' /\ PlaceOK'
    BY <1>3 DEF TearJournal, ProcessOK, PlaceOK, Located, Locations, locals
  <2>2. SystemOK' /\ RecordsOK' /\ JournalFilesOK' /\ CountersOK'
    BY <1>3 DEF TearJournal, SystemOK, RecordsOK, JournalFilesOK, CountersOK, machine
  <2> QED
    BY <2>1, <2>2, TypeFromParts
<1>4. CASE \E s \in Steps, v \in Values : UserChangesSetting(s, v)
  <2>1. PICK s \in Steps, v \in Values : UserChangesSetting(s, v)
    BY <1>4
  <2>2. ProcessOK' /\ PlaceOK'
    BY <2>1 DEF UserChangesSetting, ProcessOK, PlaceOK, Located, Locations, locals
  <2>3. authority' \in Settings /\ daily' \in Settings
    BY <2>1 DEF UserChangesSetting, SystemOK, Settings
  <2>4. SystemOK' /\ CountersOK'
    BY <2>1, <2>3 DEF UserChangesSetting, SystemOK, CountersOK
  <2>5. RecordsOK' /\ JournalFilesOK'
    BY <2>1 DEF UserChangesSetting, RecordsOK, JournalFilesOK, files, journalFiles
  <2> QED
    BY <2>2, <2>4, <2>5, TypeFromParts
<1> QED
  BY <1>1, <1>2, <1>3, <1>4

\* A step that changes nothing.
LEMMA StutterType ==
  ASSUME TypeOK, UNCHANGED vars
  PROVE  TypeOK'
BY DEF TypeOK, Located, JournalRead, vars

\* The initial states.
LEMMA InitType ==
  ASSUME Init
  PROVE  TypeOK
<1>1. state \in States(Nat)
  BY DEF Init, DailyState, States, Healths
<1>2. authority \in Settings
  BY DEF Init, Settings
<1> QED
  BY <1>1, <1>2 DEF Init, TypeOK, Located, Locations

-----------------------------------------------------------------------------
\* Whatever crashes, fails or is torn, every file and variable of the
\* transaction keeps a value of its kind, and a running operation has at hand
\* what its next step reads: no handler of index.ts or internal/ meets a
\* missing journal, a missing target or a location of another operation.
THEOREM TypeCorrect == Spec => []TypeOK
<1>1. Init => TypeOK
  BY InitType
<1>2. TypeOK /\ [Next]_vars => TypeOK'
  <2> SUFFICES ASSUME TypeOK, [Next]_vars PROVE TypeOK'
    OBVIOUS
  <2>1. CASE \E target \in Targets : StartProtect(target)
    BY <2>1, StartProtectType
  <2>2. CASE StartRestore
    BY <2>2, StartRestoreType
  <2>3. CASE Recover
    BY <2>3, StartRecoverType, EnvironmentType DEF Recover
  <2>4. CASE CreateDailySnapshot \/ PlanValues \/ PlanPhases \/ BeginTransaction
    BY <2>4, CreateDailySnapshotType, PlanValuesType, PlanPhasesType, BeginTransactionType
  <2>5. CASE CompleteProtect \/ PublishPrevious \/ PublishDaily \/ FailCleanup \/ CompleteDaily
    BY <2>5, CompleteProtectType, PublishPreviousType, DailyCommitsType
  <2>6. CASE BeginCleanup \/ DeleteDailySnapshot \/ VerifyCleanup \/ MarkCleanupFailed
    BY <2>6, CleanupReportsType, DeleteDailySnapshotType
  <2>7. CASE \E s \in Steps : ProtectStep(s)
    BY <2>7, ReportApplyingType, ApplyStepType, ReportVerifiedType DEF ProtectStep
  <2>8. CASE \E s \in Steps : CompensationStep(s)
    BY <2>8, ReportCompensatingType, RecoverUntouchedType, RecoverDoubtfulType,
       RewriteOriginalType, ReportCompensatedType, MarkUncompensatedType DEF CompensationStep
  <2>9. CASE \E s \in Steps : DailyStep(s)
    BY <2>9, BeginDailyStepType, WriteDailyType, ReportDailyVerifiedType,
       MarkDailyFailedType DEF DailyStep
  <2>10. CASE \E region \in Regions : SetPreferredRegion(region)
    BY <2>10, SetPreferredRegionType
  <2>11. CASE Crash \/ TearJournal
           \/ \E s \in Steps, v \in Values : UserChangesSetting(s, v)
    BY <2>11, EnvironmentType
  <2>12. CASE UNCHANGED vars
    BY <2>12, StutterType
  <2> QED
    BY <2>1, <2>2, <2>3, <2>4, <2>5, <2>6, <2>7, <2>8, <2>9, <2>10, <2>11, <2>12
       DEF Next, Proceed
<1> QED
  BY <1>1, <1>2, PTL DEF Spec

-----------------------------------------------------------------------------
(* Every change is announced.  Inductive: before state.json names the      *)
(* transaction nothing has been written, and afterwards it keeps naming it *)
(* until the operation returns.                                            *)

Announced ==
  /\ pc \in {"snapshot", "values", "plan", "begin"} => authority = op.original
  /\ (pc \notin Unplanned \cup {"begin"} /\ op.kind # "recover") => state.active # None

\* Nothing is under way initially.
LEMMA AnnouncedInit == Init => Announced
BY DEF Init, Announced, Unplanned

\* Every step keeps a changed machine announced: the settings change only after the
\* state names the transaction, and it is the last commit that drops the name.
LEMMA AnnouncedStep ==
  ASSUME TypeOK, Announced, [Next]_vars
  PROVE  Announced'
<1>1. CASE \E target \in Targets : StartProtect(target)
  BY <1>1 DEF StartProtect, Announced, Unplanned, machine
<1>2. CASE StartRestore
  BY <1>2 DEF StartRestore, Announced, Unplanned, machine
<1>3. CASE Recover
  BY <1>3 DEF Recover, StartRecover, RecoverReturnsEarly, Unwind, Announced, Unplanned
<1>4. CASE CreateDailySnapshot \/ PlanValues \/ PlanPhases
  BY <1>4 DEF CreateDailySnapshot, PlanValues, PlanPhases, ContinueIf, Return, Discard,
              Announced, Unplanned, machine
<1>5. CASE BeginTransaction
  <2>1. op \in Operations /\ op.txid # None
    BY <1>5, NoneAssumption DEF BeginTransaction, TypeOK, Located, Operations
  <2>2. PICK outcome \in Outcomes :
          /\ CommitState(outcome, ProtectionState(op.base, op.base.health, op.txid))
          /\ ContinueIf(outcome, IF op.kind = "restore" THEN "daily_begin"
                                 ELSE IF pending = {} THEN "complete" ELSE "applying")
    BY <1>5 DEF BeginTransaction
  <2>3. CASE outcome = "ok"
    BY <2>1, <2>2, <2>3 DEF CommitState, ProtectionState, ContinueIf, Announced, Unplanned
  <2>4. CASE outcome # "ok"
    BY <2>2, <2>4 DEF ContinueIf, Return, Discard, Announced, Unplanned
  <2> QED
    BY <2>3, <2>4
<1>6. CASE PublishDaily
  <2>1. op \in Operations /\ op.txid # None
    BY <1>6, NoneAssumption DEF PublishDaily, TypeOK, Located, Operations
  <2>2. PICK outcome \in Outcomes :
          /\ CommitState(outcome, DailyState(op.base.preferred, "healthy", op.txid))
          /\ ContinueIf(outcome, "cleanup_begin")
    BY <1>6 DEF PublishDaily
  <2>3. CASE outcome = "ok"
    BY <2>1, <2>2, <2>3 DEF CommitState, DailyState, ContinueIf, Announced, Unplanned
  <2>4. CASE outcome # "ok"
    BY <2>2, <2>4 DEF ContinueIf, Return, Discard, Announced, Unplanned
  <2> QED
    BY <2>3, <2>4
<1>7. CASE CompleteProtect \/ PublishPrevious \/ FailCleanup \/ CompleteDaily
  BY <1>7 DEF CompleteProtect, PublishPrevious, FailCleanup, CompleteDaily, Return, Discard,
              Announced, Unplanned
<1>8. CASE BeginCleanup \/ DeleteDailySnapshot \/ VerifyCleanup \/ MarkCleanupFailed
  BY <1>8 DEF BeginCleanup, DeleteDailySnapshot, VerifyCleanup, MarkCleanupFailed, locals,
              Announced, Unplanned
<1>9. CASE \E s \in Steps : ProtectStep(s)
  BY <1>9 DEF ProtectStep, ReportApplying, ApplyStep, ReportVerified, Unwind, files,
              Announced, Unplanned
<1>10. CASE \E s \in Steps : CompensationStep(s)
  BY <1>10, AfterStepPlaces
     DEF CompensationStep, ReportCompensating, RecoverUntouched, RecoverDoubtful,
         RewriteOriginal, ReportCompensated, MarkUncompensated, files, Announced, Unplanned
<1>11. CASE \E s \in Steps : DailyStep(s)
  <2>1. PICK s \in Steps : DailyStep(s)
    BY <1>11
  <2>2. /\ pc \notin Unplanned \cup {"begin"}
        /\ UNCHANGED <<state, op>>
    BY <2>1 DEF DailyStep, BeginDailyStep, WriteDaily, ReportDailyVerified, MarkDailyFailed,
                files, Unplanned
  <2>3. pc' \in {"daily_begin", "publish_previous", "publish_daily", "cleanup_begin",
                 "daily_write", "daily_verify", "daily_mark"}
    BY <2>1, AfterDailyPlaces
       DEF DailyStep, BeginDailyStep, WriteDaily, ReportDailyVerified, MarkDailyFailed, TypeOK
  <2> QED
    BY <2>2, <2>3 DEF Announced, Unplanned
<1>12. CASE \E region \in Regions : SetPreferredRegion(region)
  BY <1>12 DEF SetPreferredRegion, Announced, Unplanned
<1>13. CASE Crash \/ TearJournal
  BY <1>13 DEF Crash, TearJournal, Discard, Announced, Unplanned
<1>14. CASE \E s \in Steps, v \in Values : UserChangesSetting(s, v)
  BY <1>14 DEF UserChangesSetting, Announced, Unplanned
<1>15. CASE UNCHANGED vars
  BY <1>15 DEF vars, Announced
<1> QED
  BY <1>1, <1>2, <1>3, <1>4, <1>5, <1>6, <1>7, <1>8, <1>9, <1>10, <1>11, <1>12, <1>13,
     <1>14, <1>15 DEF Next, Proceed

\* From the first setting that protect or restore changes to the last commit,
\* derivePersistStatus reports recovery_required: no reader of the status ever
\* takes a half-applied machine for a finished one, whatever crashes or fails.
THEOREM ChangesAnnounced == Spec => []ChangesAreAnnounced
<1>1. TypeOK /\ Announced => ChangesAreAnnounced
  BY DEF Announced, ChangesAreAnnounced, Health, Unplanned
<1>2. Announced /\ TypeOK /\ [Next]_vars => Announced'
  BY AnnouncedStep
<1> QED
  BY <1>1, <1>2, AnnouncedInit, TypeCorrect, PTL DEF Spec

-----------------------------------------------------------------------------
(* What protect commits.  Inductive: the plan and the goal are those of    *)
(* the target, every step no longer pending is done, and the others are    *)
(* untouched.                                                              *)

ProtectPlaces == {"snapshot", "values", "plan", "begin"} \cup Applying

Done(s) == authority[s] \in Accepted(s, op.goal[s]) \/ (s = PolicyStep /\ degraded)

PlanFits ==
  /\ op.target \in Targets
  /\ op.plan = PlanTransition(op.base.target, op.target, op.original)
  /\ \A s \in Steps : op.plan[s] # "restore" => op.goal[s] = DesiredValues(op.target)[s]
  /\ IsDownshift(op.base.target, op.target) =>
       \A s \in Steps : op.plan[s] = "restore" => op.goal[s] = backup[s]
  /\ pc = "snapshot" => op.base.target = None

PendingFits ==
  /\ pending \subseteq PlannedSteps(op.plan)
  /\ \A s \in PlannedSteps(op.plan) \ pending : Done(s)
  /\ \A s \in Steps \ PlannedSteps(op.plan) : authority[s] = op.original[s]
  /\ pc = "verify" => \A s \in Steps : First(s, pending) => Done(s)
  /\ pc = "complete" => pending = {}

ProtectProgress ==
  (pc \in ProtectPlaces /\ op.kind = "protect") => PlanFits /\ PendingFits

\* Two first steps are the same step.
LEMMA FirstUnique ==
  ASSUME NEW S, S \subseteq Steps, NEW s, NEW q, First(s, S), First(q, S)
  PROVE  s = q
BY PlanAssumption DEF First, Steps

\* A write of an authority that did not throw does the step or degrades, and
\* touches no other.
LEMMA WriteDoes ==
  ASSUME authority \in Settings, NEW s \in Steps, NEW v, NEW outcome,
         WriteAuthority(s, v, outcome)
  PROVE  /\ \A q \in Steps : q # s => authority'[q] = authority[q]
         /\ outcome = "done" => authority'[s] = v
         /\ outcome = "folded" => authority'[s] \in Accepted(s, v)
         /\ outcome = "denied" => s = PolicyStep
BY DEF WriteAuthority, Settings

\* What a setting is to be is accepted.
LEMMA AcceptedItself ==
  ASSUME NEW s \in Steps, NEW v \in Values
  PROVE  v \in Accepted(s, v)
BY DEF Accepted

\* The plan protect() starts with fits the settings it has read.
LEMMA StartProtectProgress ==
  ASSUME TypeOK, NEW target \in Targets, StartProtect(target)
  PROVE  ProtectProgress'
<1> DEFINE plan == PlanTransition(state.target, target, authority)
           daily0 == IF backup = None THEN authority ELSE backup
           goal == EffectiveDesired(target, plan, daily0)
<1>1. /\ op' = [kind |-> "protect", txid |-> transactions + 1, target |-> target,
                plan |-> plan, goal |-> goal, original |-> authority,
                base |-> PreviousOf(state), doubtful |-> FALSE]
      /\ pending' = PlannedSteps(plan)
      /\ UNCHANGED <<authority, backup, degraded>>
      /\ pc' = IF state.target = None /\ backup = None THEN "snapshot" ELSE "values"
      /\ IsDownshift(state.target, target) => backup # None
  BY DEF StartProtect, machine, files
<1>2. \A s \in Steps : goal[s] = IF plan[s] = "restore" THEN daily0[s]
                                 ELSE DesiredValues(target)[s]
  BY DEF EffectiveDesired
<1> HIDE DEF plan, goal
<1>3. op'.base.target = state.target
  BY <1>1 DEF PreviousOf
<1>4. PlanFits'
  <2>1. op'.plan = PlanTransition(op'.base.target, op'.target, op'.original)
    BY <1>1, <1>3 DEF plan
  <2>2. \A s \in Steps : op'.plan[s] # "restore" => op'.goal[s] = DesiredValues(op'.target)[s]
    BY <1>1, <1>2
  <2>3. IsDownshift(op'.base.target, op'.target) =>
          \A s \in Steps : op'.plan[s] = "restore" => op'.goal[s] = backup'[s]
    BY <1>1, <1>2, <1>3
  <2> QED
    BY <1>1, <1>3, <2>1, <2>2, <2>3 DEF PlanFits
<1>5. PendingFits'
  BY <1>1 DEF PendingFits
<1> QED
  BY <1>4, <1>5 DEF ProtectProgress

\* Applying a step moves it from pending to done and disturbs no other.
LEMMA ProtectStepProgress ==
  ASSUME TypeOK, ProtectProgress, NEW s \in Steps, ProtectStep(s)
  PROVE  ProtectProgress'
<1>1. pc \in Applying /\ op.kind = "protect" /\ First(s, pending)
  BY DEF ProtectStep, ReportApplying, ApplyStep, ReportVerified, TypeOK, Located, Applying
<1>2. PlanFits /\ PendingFits
  BY <1>1 DEF ProtectProgress, ProtectPlaces
<1>3. UNCHANGED <<op, backup>> /\ pc' # "snapshot"
  BY DEF ProtectStep, ReportApplying, ApplyStep, ReportVerified, Unwind, files
<1>4. PlanFits'
  BY <1>2, <1>3 DEF PlanFits
<1>5. CASE ReportApplying(s)
  <2>1. UNCHANGED <<authority, pending, degraded>> /\ pc' \notin {"verify", "complete"}
    BY <1>5 DEF ReportApplying, Unwind, machine
  <2>2. PendingFits'
    BY <1>2, <1>3, <2>1 DEF PendingFits, Done
  <2> QED
    BY <1>4, <2>2 DEF ProtectProgress
<1>6. CASE ApplyStep(s)
  <2>1. PICK outcome \in WriteOutcomes :
          /\ WriteAuthority(s, op.goal[s], outcome)
          /\ degraded' = (degraded \/ outcome = "denied")
          /\ pc' = IF outcome = "threw" THEN "compensating" ELSE "verify"
    BY <1>6 DEF ApplyStep
  <2>2. CASE outcome = "threw"
    BY <2>1, <2>2 DEF ProtectProgress, ProtectPlaces, Applying
  <2>3. CASE outcome # "threw"
    <3>1. pending' = pending /\ pc' = "verify"
      BY <1>6, <2>1, <2>3 DEF ApplyStep
    <3>2. \A q \in Steps : q # s => authority'[q] = authority[q]
      BY <2>1, WriteDoes DEF TypeOK
    <3>3. Done(s)'
      <4>1. op.goal[s] \in Values
        BY <1>1 DEF TypeOK, Located, Applying, Operations, Settings
      <4>2. \/ outcome = "done" /\ authority'[s] = op.goal[s]
            \/ outcome = "folded" /\ authority'[s] \in Accepted(s, op.goal[s])
            \/ outcome = "denied" /\ s = PolicyStep
        BY <2>1, <2>3, WriteDoes DEF WriteOutcomes, TypeOK
      <4> QED
        BY <1>3, <2>1, <4>1, <4>2, AcceptedItself DEF Done
    <3>4. s \in pending /\ s \in PlannedSteps(op.plan)
      BY <1>1, <1>2 DEF First, PendingFits
    <3>5. \A q \in PlannedSteps(op.plan) \ pending : Done(q)'
      <4> SUFFICES ASSUME NEW q \in PlannedSteps(op.plan) \ pending PROVE Done(q)'
        OBVIOUS
      <4>1. q # s /\ q \in Steps /\ Done(q)
        BY <1>2, <3>4 DEF PendingFits, PlannedSteps
      <4> QED
        BY <1>3, <2>1, <3>2, <4>1 DEF Done
    <3>6. \A q \in Steps \ PlannedSteps(op.plan) : authority'[q] = op.original[q]
      BY <1>2, <3>2, <3>4 DEF PendingFits
    <3>7. \A q \in Steps : First(q, pending) => Done(q)'
      BY <1>1, <3>3, FirstUnique DEF TypeOK
    <3>8. PendingFits'
      BY <1>2, <1>3, <3>1, <3>5, <3>6, <3>7 DEF PendingFits
    <3> QED
      BY <1>4, <3>8 DEF ProtectProgress
  <2> QED
    BY <2>2, <2>3
<1>7. CASE ReportVerified(s)
  <2>1. PICK outcome :
          /\ pending' = IF outcome = "ok" THEN pending \ {s} ELSE pending
          /\ pc' = CASE outcome # "ok"     -> "compensating"
                     [] outcome = "ok" /\ pending' = {}  -> "complete"
                     [] outcome = "ok" /\ pending' # {}  -> "applying"
    BY <1>7 DEF ReportVerified
  <2>2. UNCHANGED <<authority, degraded>> /\ pc = "verify"
    BY <1>7 DEF ReportVerified, machine
  <2>3. CASE outcome # "ok"
    <3>1. pc' = "compensating"
      BY <2>1, <2>3
    <3> QED
      BY <3>1 DEF ProtectProgress, ProtectPlaces, Applying
  <2>4. CASE outcome = "ok"
    <3>1. pending' = pending \ {s}
      BY <2>1, <2>4
    <3>2. pc' # "verify" /\ (pc' = "complete" => pending' = {})
      BY <2>1, <2>4
    <3>3. Done(s)
      BY <1>1, <1>2, <2>2 DEF PendingFits
    <3>4. \A q \in PlannedSteps(op.plan) \ pending' : Done(q)'
      BY <1>2, <1>3, <2>2, <3>1, <3>3 DEF PendingFits, Done
    <3>5. PendingFits'
      BY <1>2, <1>3, <2>2, <3>1, <3>2, <3>4 DEF PendingFits
    <3> QED
      BY <1>4, <3>5 DEF ProtectProgress
  <2> QED
    BY <2>3, <2>4
<1> QED
  BY <1>5, <1>6, <1>7 DEF ProtectStep

\* The planning writes touch neither the settings nor the plan.
LEMMA PlanningProgress ==
  ASSUME TypeOK, ProtectProgress,
         CreateDailySnapshot \/ PlanValues \/ PlanPhases \/ BeginTransaction
  PROVE  ProtectProgress'
<1>1. UNCHANGED authority
  BY DEF CreateDailySnapshot, PlanValues, PlanPhases, BeginTransaction, machine
<1>2. \/ pc' = "idle"
      \/ /\ UNCHANGED <<op, pending, degraded>>
         /\ pc' \in {"values", "plan", "begin", "applying", "complete", "daily_begin"}
         /\ pc' = "complete" => pending = {}
  BY DEF CreateDailySnapshot, PlanValues, PlanPhases, BeginTransaction, ContinueIf, Return,
         Discard
<1>3. CASE pc' = "idle"
  BY <1>3 DEF ProtectProgress, ProtectPlaces, Applying
<1>4. CASE pc' # "idle" /\ op.kind = "protect"
  <2>1. PlanFits /\ PendingFits
    BY <1>4 DEF ProtectProgress, ProtectPlaces, CreateDailySnapshot, PlanValues, PlanPhases,
                BeginTransaction
  <2>2. \/ UNCHANGED backup
        \/ op.base.target = None
    BY <2>1 DEF CreateDailySnapshot, PlanValues, PlanPhases, BeginTransaction, PlanFits
  <2>3. PlanFits'
    BY <1>2, <1>4, <2>1, <2>2 DEF PlanFits, IsDownshift
  <2>4. PendingFits'
    BY <1>1, <1>2, <1>4, <2>1 DEF PendingFits, Done
  <2> QED
    BY <2>3, <2>4 DEF ProtectProgress
<1>5. CASE pc' # "idle" /\ op.kind # "protect"
  BY <1>2, <1>5 DEF ProtectProgress
<1> QED
  BY <1>3, <1>4, <1>5

\* Everything else happens outside the protect branch.
LEMMA OtherProgress ==
  ASSUME TypeOK, ProtectProgress,
         \/ pc' \notin ProtectPlaces
         \/ op'.kind # "protect"
         \/ UNCHANGED vars
  PROVE  ProtectProgress'
<1>1. CASE UNCHANGED vars
  BY <1>1 DEF vars, ProtectProgress, PlanFits, PendingFits, Done
<1> QED
  BY <1>1 DEF ProtectProgress

\* Every step keeps the plan, the pending steps and the settings in line.
LEMMA ProgressStep ==
  ASSUME TypeOK, ProtectProgress, [Next]_vars
  PROVE  ProtectProgress'
<1> USE OtherProgress
<1>1. CASE \E target \in Targets : StartProtect(target)
  BY <1>1, StartProtectProgress
<1>2. CASE StartRestore
  BY <1>2 DEF StartRestore
<1>3. CASE Recover
  BY <1>3 DEF Recover, StartRecover, RecoverReturnsEarly, ProtectPlaces, Applying
<1>4. CASE CreateDailySnapshot \/ PlanValues \/ PlanPhases \/ BeginTransaction
  BY <1>4, PlanningProgress
<1>5. CASE CompleteProtect \/ PublishPrevious \/ PublishDaily \/ FailCleanup \/ CompleteDaily
  BY <1>5 DEF CompleteProtect, PublishPrevious, PublishDaily, FailCleanup, CompleteDaily,
              ContinueIf, Return, Discard, ProtectPlaces, Applying
<1>6. CASE BeginCleanup \/ DeleteDailySnapshot \/ VerifyCleanup \/ MarkCleanupFailed
  BY <1>6 DEF BeginCleanup, DeleteDailySnapshot, VerifyCleanup, MarkCleanupFailed,
              ProtectPlaces, Applying
<1>7. CASE \E s \in Steps : ProtectStep(s)
  BY <1>7, ProtectStepProgress
<1>8. CASE \E s \in Steps : CompensationStep(s)
  BY <1>8, AfterStepPlaces
     DEF CompensationStep, ReportCompensating, RecoverUntouched, RecoverDoubtful,
         RewriteOriginal, ReportCompensated, MarkUncompensated, ProtectPlaces, Applying
<1>9. CASE \E s \in Steps : DailyStep(s)
  <2>1. pc' \in {"daily_begin", "publish_previous", "publish_daily", "cleanup_begin",
                 "daily_write", "daily_verify", "daily_mark"}
    BY <1>9, AfterDailyPlaces
       DEF DailyStep, BeginDailyStep, WriteDaily, ReportDailyVerified, MarkDailyFailed, TypeOK
  <2> QED
    BY <2>1 DEF ProtectPlaces, Applying
<1>10. CASE \E region \in Regions : SetPreferredRegion(region)
  BY <1>10 DEF SetPreferredRegion, ProtectPlaces, Applying
<1>11. CASE Crash \/ TearJournal \/ \E s \in Steps, v \in Values : UserChangesSetting(s, v)
  BY <1>11 DEF Crash, TearJournal, UserChangesSetting, Discard, ProtectPlaces, Applying
<1>12. CASE UNCHANGED vars
  BY <1>12
<1> QED
  BY <1>1, <1>2, <1>3, <1>4, <1>5, <1>6, <1>7, <1>8, <1>9, <1>10, <1>11, <1>12
     DEF Next, Proceed

\* The commit point of protect publishes only what the machine has: each step
\* of the target aligned from the start, or written and accepted by its own
\* readback, or the policy step of a degraded result; after a downshift the
\* deep-only steps read back as the daily values of the backup.  What a readback
\* accepts is the value itself, except for the language list.
THEOREM CommitRealised == Spec => CommittedTargetIsRealised
<1>1. Init => ProtectProgress
  BY DEF Init, ProtectProgress, ProtectPlaces, Applying
<1>2. TypeOK /\ ProtectProgress /\ [Next]_vars => ProtectProgress'
  BY ProgressStep
<1>3. TypeOK /\ ProtectProgress /\ [Next]_vars =>
        [(pc = "complete" /\ state' # state)
           => /\ Realised(state'.target, state'.health)
              /\ IsDownshift(op.base.target, op.target) =>
                   \A s \in DeepOnly : authority[s] \in Accepted(s, backup[s])]_vars
  <2> SUFFICES ASSUME TypeOK, ProtectProgress, [Next]_vars, pc = "complete", state' # state
               PROVE  /\ Realised(state'.target, state'.health)
                      /\ IsDownshift(op.base.target, op.target) =>
                           \A s \in DeepOnly : authority[s] \in Accepted(s, backup[s])
    OBVIOUS
  <2>1. PlanFits /\ PendingFits /\ pending = {}
    BY DEF ProtectProgress, ProtectPlaces, Applying, TypeOK, Located, PendingFits
  <2>2. \A s \in Steps : /\ s \in PlannedSteps(op.plan) => Done(s)
                         /\ s \notin PlannedSteps(op.plan) => authority[s] = op.original[s]
    BY <2>1 DEF PendingFits
  <2>3. /\ state'.target = op.target
        /\ state'.health = IF degraded THEN "degraded" ELSE "healthy"
    <3>1. CompleteProtect
      BY DEF Next, vars, Proceed, Recover, StartProtect, StartRestore, StartRecover,
             RecoverReturnsEarly, CreateDailySnapshot, PlanValues, PlanPhases,
             BeginTransaction, PublishPrevious, PublishDaily, BeginCleanup,
             DeleteDailySnapshot, VerifyCleanup, MarkCleanupFailed, FailCleanup,
             CompleteDaily, ProtectStep, CompensationStep, DailyStep, ReportApplying,
             ApplyStep, ReportVerified, ReportCompensating, RecoverUntouched,
             RecoverDoubtful, RewriteOriginal, ReportCompensated, MarkUncompensated,
             BeginDailyStep, WriteDaily, ReportDailyVerified, MarkDailyFailed,
             SetPreferredRegion, Crash, TearJournal, UserChangesSetting, files
    <3> QED
      BY <3>1 DEF CompleteProtect, CommitState
  <2>4. \A s \in ManagedSteps(op.target) :
          s \in Steps /\ op.plan[s] = IF op.original[s] = DesiredValues(op.target)[s]
                                      THEN "noop" ELSE "apply"
    BY <2>1, StepFacts DEF PlanFits, PlanTransition, ManagedSteps
  <2>5. Realised(state'.target, state'.health)
    <3> SUFFICES ASSUME NEW s \in ManagedSteps(op.target)
                 PROVE  \/ authority[s] \in Accepted(s, DesiredValues(op.target)[s])
                        \/ s = PolicyStep /\ degraded
      BY <2>3 DEF Realised
    <3>1. CASE op.plan[s] = "noop"
      <4>1. authority[s] = DesiredValues(op.target)[s] /\ s \in Steps
        BY <2>2, <2>4, <3>1 DEF PlannedSteps
      <4> QED
        BY <4>1, AcceptedItself DEF TypeOK, Settings
    <3>2. CASE op.plan[s] = "apply"
      BY <2>1, <2>2, <2>4, <3>2 DEF PlannedSteps, PlanFits, Done
    <3> QED
      BY <2>4, <3>1, <3>2
  <2>6. ASSUME IsDownshift(op.base.target, op.target), NEW s \in DeepOnly
        PROVE  authority[s] \in Accepted(s, backup[s])
    <3>1. s \in Steps /\ s \notin ManagedSteps(op.target)
      BY <2>6 DEF IsDownshift, DeepOnly, ManagedSteps
    <3>2. op.plan[s] = "restore"
      BY <2>1, <2>6, <3>1 DEF PlanFits, PlanTransition
    <3>3. s # PolicyStep
      BY PlanAssumption DEF DeepOnly, Standard
    <3> QED
      BY <2>1, <2>2, <2>6, <3>1, <3>2, <3>3 DEF PlannedSteps, PlanFits, Done
  <2> QED
    BY <2>5, <2>6
<1> QED
  BY <1>1, <1>2, <1>3, TypeCorrect, PTL DEF Spec, CommittedTargetIsRealised
=============================================================================
