-------------------------- MODULE PersistTransaction --------------------------
(***************************************************************************)
(* The persist transaction module (persist/transaction): protect, restore, *)
(* recover and setPreferredRegion, one action per durable write or system  *)
(* write, so that a crash can fall between any two of them.                *)
(*                                                                         *)
(* One operation runs at a time: the root gate of withPersistTransaction-  *)
(* Lock is the variable lock, "stale" after its holder died.  The files    *)
(* are atomic registers, the journal alone with its previous generation    *)
(* (.prev), because recovery reads it.                                     *)
(***************************************************************************)
EXTENDS PersistPlan

CONSTANTS
  MaxTransactions, \* bound: protect and restore transactions started
  MaxFaults,       \* bound: crashes, failed writes and folded language lists
  MaxTears,        \* bound: corruptions of the journal's current generation
  MaxDrifts        \* bound: settings the user changes by hand

VARIABLES
  \* The machine.
  authority,       \* the value every managed setting has
  \* The state directory.
  state,           \* state.json
  backup,          \* persist-backup.json, or None
  values,          \* transaction-journal.json.values, or None
  journal,         \* transaction-journal.json, or None
  previousJournal, \* transaction-journal.json.prev, or None
  torn,            \* the current journal generation fails its checksum
  lock,            \* the root gate: "free", "held" or "stale"
  \* The operation in progress; lost in a crash.
  pc,              \* its next durable or system write
  op,              \* what it read and decided when it started, or None
  memory,          \* its in-memory copy of the journal
  pending,         \* steps it has yet to apply or to bring back to daily
  modified,        \* steps it has yet to compensate
  failed,          \* some compensation or daily step failed
  degraded,        \* a policy write was partly denied
  \* Counters behind the bounds, and history.
  transactions, faults, tears, drifts,
  daily,           \* the settings as the user left them in daily mode
  ignored          \* steps whose compensation was denied or folded without notice

machine == <<authority, daily>>
files == <<state, backup, values, journal, previousJournal, torn>>
journalFiles == <<journal, previousJournal, torn>>
locals == <<op, memory, pending, modified, failed, degraded>>
vars == <<authority, daily, state, backup, values, journal, previousJournal,
          torn, lock, pc, op, memory, pending, modified, failed, degraded,
          transactions, faults, tears, drifts, ignored>>

Operations ==
  [kind : {"protect", "restore", "recover"}, txid : Nat,
   target : Targets \cup {None},
   plan : [Steps -> {"absent", "noop", "apply", "restore"}],
   goal : Settings, original : Settings, base : Previous, doubtful : BOOLEAN]

\* None is a value of its own.
ASSUME NoneAssumption ==
  /\ None \notin Nat
  /\ None \notin Settings
  /\ None \notin Targets
  /\ None \notin Journals(Nat)
  /\ None \notin [txid : Nat, original : Settings]
  /\ None \notin Operations

Locations ==
  {"idle", "snapshot", "values", "plan", "begin",
   "applying", "apply", "verify", "complete",
   "compensating", "reopen", "rewrite", "compensated", "mark", "publish_previous",
   "daily_begin", "daily_write", "daily_verify", "daily_mark", "publish_daily",
   "cleanup_begin", "cleanup_delete", "cleanup_verify", "cleanup_mark",
   "complete_daily", "fail_cleanup"}

-----------------------------------------------------------------------------
(* Reading the state directory.                                            *)

\* What journalRepository.read() returns: .prev when the current is corrupt.
JournalRead == IF torn THEN previousJournal ELSE journal

\* mergeValues: the phase table only counts with the values snapshot of the
\* same transaction; otherwise, and with no generation left, read() throws.
Readable ==
  IF torn
  THEN previousJournal # None /\ values # None /\ previousJournal.txid = values.txid
  ELSE journal # None => values # None /\ journal.txid = values.txid

Unfinished == JournalRead # None /\ ~IsSettled(JournalRead)

\* Mutant of Health: forgets the reconciliation of a state still active.
HealthOfJournal == IF Unfinished THEN "recovery_required" ELSE state.health

\* The health derivePersistStatus reports.
Health == IF Unfinished \/ state.active # None THEN "recovery_required" ELSE state.health

\* The condition under which protect, restore and setPreferredRegion go on.
Unblocked == Readable /\ Health # "recovery_required" /\ state.active = None

-----------------------------------------------------------------------------
(* Durable and system writes.  A durable write succeeds ("ok"), fails      *)
(* leaving the old content ("lost"), or throws after the new content is in *)
(* place ("committed": DurableFileError.possiblyCommitted).                *)

Outcomes == {"ok", "lost", "committed"}

Charge(outcome) ==
  IF outcome \in {"ok", "refused"} THEN UNCHANGED faults
  ELSE faults < MaxFaults /\ faults' = faults + 1

CommitState(outcome, next) == state' = IF outcome = "lost" THEN state ELSE next

\* writeCheckedFile keeps a valid current generation as .prev; a lost write
\* may have got as far as that.
WriteJournal(outcome, j) ==
  /\ journal' = IF outcome = "lost" THEN journal ELSE j
  /\ torn' = (torn /\ outcome = "lost")
  /\ IF torn THEN previousJournal' = previousJournal
     ELSE IF outcome = "lost" THEN previousJournal' \in {previousJournal, journal}
     ELSE previousJournal' = journal

\* journalRepository.transition(j, s, phase): an illegal transition throws
\* before anything is written ("refused").
TransitionOutcomes(j, s, phase) ==
  IF phase \in LegalTransitions(j.phase[s]) THEN Outcomes ELSE {"refused"}

\* Mutant of Transition: "applying" is kept in memory until the next report.
LazyTransition(j, s, phase, outcome) ==
  LET next == [j EXCEPT !.phase[s] = phase] IN
  /\ Charge(outcome)
  /\ IF outcome = "refused" \/ phase = "applying" THEN UNCHANGED journalFiles
     ELSE WriteJournal(outcome, next)
  /\ memory' = IF outcome = "ok" THEN next ELSE j

Transition(j, s, phase, outcome) ==
  LET next == [j EXCEPT !.phase[s] = phase] IN
  /\ Charge(outcome)
  /\ IF outcome = "refused" THEN UNCHANGED journalFiles ELSE WriteJournal(outcome, next)
  /\ memory' = IF outcome = "ok" THEN next ELSE j

\* What a write that throws may leave: of several values some are written.
Interrupted(s, v) == {authority[s], v, Partial}

\* What a profile is left with when policy slots are denied: the others are kept.
DeniedInPart(s) == {authority[s], Partial}

\* Mutant of WriteAuthority: the language readback compares nothing.
WriteUncompared(s, v, outcome) ==
  \/ /\ outcome = "done"
     /\ authority' = [authority EXCEPT ![s] = v]
     /\ UNCHANGED faults
  \/ /\ outcome = "folded" /\ s = LanguageStep
     /\ \E left \in Interrupted(s, v) : authority' = [authority EXCEPT ![s] = left]
     /\ Charge(outcome)

\* authority.write(v): done and read back, read back as a list of the same
\* base languages, denied in part, or thrown.
WriteAuthority(s, v, outcome) ==
  \/ /\ outcome = "done"
     /\ authority' = [authority EXCEPT ![s] = v]
     /\ UNCHANGED faults
  \/ /\ outcome = "folded"
     /\ \E left \in Accepted(s, v) \ {v} : authority' = [authority EXCEPT ![s] = left]
     /\ Charge(outcome)
  \/ /\ outcome = "denied"
     /\ s = PolicyStep
     /\ \E left \in DeniedInPart(s) : authority' = [authority EXCEPT ![s] = left]
     /\ Charge(outcome)
  \/ /\ outcome = "threw"
     /\ \E left \in Interrupted(s, v) : authority' = [authority EXCEPT ![s] = left]
     /\ Charge(outcome)

WriteOutcomes == {"done", "folded", "denied", "threw"}

First(s, S) == s \in S /\ \A q \in S : s <= q
Last(s, S) == s \in S /\ \A q \in S : q <= s

\* The operation returns or throws; its in-memory state is gone.
Discard(lockAfter) ==
  /\ pc' = "idle"
  /\ lock' = lockAfter
  /\ op' = None
  /\ memory' = None
  /\ pending' = {}
  /\ modified' = {}
  /\ failed' = FALSE
  /\ degraded' = FALSE

Return == Discard("free")

\* Goes on to location to, or throws out of the operation.
ContinueIf(outcome, to) ==
  IF outcome = "ok"
  THEN pc' = to /\ UNCHANGED <<lock, op, memory, pending, modified, failed, degraded>>
  ELSE Return

-----------------------------------------------------------------------------
(* protect(target), persist/transaction/index.ts and internal/service.ts.  *)

\* Mutant of BackupConflict: any snapshot that exists will do.
NoConflict == FALSE

\* ensureDailySnapshot: a snapshot left by an earlier attempt is only used
\* when it still equals the settings.
BackupConflict == state.target = None /\ backup \notin {None, authority}

\* Reads everything once under the lock and plans.  A refusal (recovery
\* required, backup missing or conflicting) and a no-op change nothing.
StartProtect(target) ==
  LET plan == PlanTransition(state.target, target, authority)
      goal == EffectiveDesired(target, plan, IF backup = None THEN authority ELSE backup)
  IN /\ pc = "idle" /\ lock = "free"
     /\ Unblocked
     /\ IsDownshift(state.target, target) => backup # None
     /\ ~IsNoopPlan(state.target, target, plan)
     /\ ~BackupConflict
     /\ transactions < MaxTransactions
     /\ transactions' = transactions + 1
     /\ lock' = "held"
     /\ op' = [kind |-> "protect", txid |-> transactions', target |-> target,
               plan |-> plan, goal |-> goal, original |-> authority,
               base |-> PreviousOf(state), doubtful |-> FALSE]
     /\ pending' = PlannedSteps(plan)
     /\ pc' = IF state.target = None /\ backup = None THEN "snapshot" ELSE "values"
     /\ UNCHANGED <<machine, files, memory, modified, failed, degraded,
                    faults, tears, drifts, ignored>>

\* The immutable daily snapshot of the first protection.
CreateDailySnapshot ==
  /\ pc = "snapshot"
  /\ \E outcome \in Outcomes :
       /\ Charge(outcome)
       /\ backup' = IF outcome = "lost" THEN backup ELSE op.original
       /\ ContinueIf(outcome, "values")
  /\ UNCHANGED <<machine, state, values, journalFiles, transactions, tears, drifts, ignored>>

\* journalRepository.plan writes the values snapshot first ...
PlanValues ==
  /\ pc = "values"
  /\ \E outcome \in Outcomes :
       /\ Charge(outcome)
       /\ values' = IF outcome = "lost" THEN values
                    ELSE [txid |-> op.txid, original |-> op.original]
       /\ ContinueIf(outcome, "plan")
  /\ UNCHANGED <<machine, state, backup, journalFiles, transactions, tears, drifts, ignored>>

\* Mutant of PlanPhases: a failed journal write does not stop the operation.
PlanPhasesUnchecked ==
  /\ pc = "plan"
  /\ \E outcome \in Outcomes :
       /\ Charge(outcome)
       /\ WriteJournal(outcome, NewJournal(op.txid, op.kind, PlannedSteps(op.plan), op.base))
       /\ memory' = IF outcome = "ok" THEN journal' ELSE memory
  /\ pc' = "begin"
  /\ UNCHANGED <<machine, state, backup, values, lock, op, pending, modified, failed,
                 degraded, transactions, tears, drifts, ignored>>

\* ... and then the phase table, every step planned.
PlanPhases ==
  LET steps == PlannedSteps(op.plan) \cup (IF op.kind = "restore" THEN {Cleanup} ELSE {})
      j == NewJournal(op.txid, op.kind, steps, op.base)
  IN /\ pc = "plan"
     /\ \E outcome \in Outcomes :
          /\ Charge(outcome)
          /\ WriteJournal(outcome, j)
          /\ IF outcome = "ok"
             THEN /\ pc' = "begin"
                  /\ memory' = j
                  /\ UNCHANGED <<lock, op, pending, modified, failed, degraded>>
             ELSE Return
     /\ UNCHANGED <<machine, state, backup, values, transactions, tears, drifts, ignored>>

\* The state names the transaction before the first system write.
BeginTransaction ==
  /\ pc = "begin"
  /\ \E outcome \in Outcomes :
       /\ Charge(outcome)
       /\ CommitState(outcome, ProtectionState(op.base, op.base.health, op.txid))
       /\ ContinueIf(outcome, IF op.kind = "restore" THEN "daily_begin"
                              ELSE IF pending = {} THEN "complete" ELSE "applying")
  /\ UNCHANGED <<machine, backup, values, journalFiles, transactions, tears, drifts, ignored>>

-----------------------------------------------------------------------------
(* executePlan, internal/executor.ts: apply in order, compensate in        *)
(* reverse.                                                                *)

\* Mutant of Unwind: a failed apply publishes the old state at once.
UnwindNothing(touched) == "publish_previous"

\* Where a failed apply goes: compensation, or straight to the fail commit
\* when nothing was written.
Unwind(touched) == IF touched = {} THEN "publish_previous" ELSE "compensating"

ReportApplying(s) ==
  /\ pc = "applying"
  /\ First(s, pending)
  /\ \E outcome \in TransitionOutcomes(memory, s, "applying") :
       /\ Transition(memory, s, "applying", outcome)
       /\ pc' = IF outcome = "ok" THEN "apply" ELSE Unwind(modified)
  /\ UNCHANGED <<machine, state, backup, values, lock, op, pending, modified, failed,
                 degraded, transactions, tears, drifts, ignored>>

\* The step counts as modified before the write; only a policy step may be
\* denied in part, which degrades the commit.  The executor does not compare
\* again what the authority has accepted.
ApplyStep(s) ==
  /\ pc = "apply"
  /\ First(s, pending)
  /\ modified' = modified \cup {s}
  /\ \E outcome \in WriteOutcomes :
       /\ WriteAuthority(s, op.goal[s], outcome)
       /\ degraded' = (degraded \/ outcome = "denied")
       /\ pc' = IF outcome = "threw" THEN "compensating" ELSE "verify"
  /\ UNCHANGED <<daily, files, lock, op, memory, pending, failed,
                 transactions, tears, drifts, ignored>>

ReportVerified(s) ==
  /\ pc = "verify"
  /\ First(s, pending)
  /\ \E outcome \in TransitionOutcomes(memory, s, "verified") :
       /\ Transition(memory, s, "verified", outcome)
       /\ pending' = IF outcome = "ok" THEN pending \ {s} ELSE pending
       /\ pc' = CASE outcome # "ok"     -> "compensating"
                  [] outcome = "ok" /\ pending' = {}  -> "complete"
                  [] outcome = "ok" /\ pending' # {}  -> "applying"
  /\ UNCHANGED <<machine, state, backup, values, lock, op, modified, failed,
                 degraded, transactions, tears, drifts, ignored>>

\* The commit point: target, region and health move together.
CompleteProtect ==
  /\ pc = "complete"
  /\ \E outcome \in Outcomes :
       /\ Charge(outcome)
       /\ CommitState(outcome,
            [target |-> op.target, preferred |-> op.target.region,
             health |-> IF degraded THEN "degraded" ELSE "healthy", active |-> None])
  /\ Return
  /\ UNCHANGED <<machine, backup, values, journalFiles, transactions, tears, drifts, ignored>>

-----------------------------------------------------------------------------
(* Reverse compensation: the catch branch of executePlan, and              *)
(* recoverProtectTransaction after a crash.                                *)

Recovering == op.kind = "recover"

AfterStep(s) == IF modified \ {s} = {} THEN "publish_previous" ELSE "compensating"

\* The executor opens every modified step; recovery skips the report for a
\* step that is compensating already.  "reopen" is the same report for a step
\* RecoverDoubtful has just marked.
ReportCompensating(s) ==
  /\ \/ pc = "compensating" /\ ~(Recovering /\ memory.phase[s] = "planned")
     \/ pc = "reopen"
  /\ Last(s, modified)
  /\ \/ /\ Recovering /\ memory.phase[s] = "compensating"
        /\ pc' = "rewrite"
        /\ UNCHANGED <<journalFiles, memory, faults>>
     \/ /\ ~(Recovering /\ memory.phase[s] = "compensating")
        /\ \E outcome \in TransitionOutcomes(memory, s, "compensating") :
             /\ Transition(memory, s, "compensating", outcome)
             /\ pc' = IF outcome = "ok" THEN "rewrite" ELSE "mark"
  /\ UNCHANGED <<machine, state, backup, values, lock, op, pending, modified, failed,
                 degraded, transactions, tears, drifts, ignored>>

\* A planned step was never written: recovery closes it without a write.
RecoverUntouched(s) ==
  /\ pc = "compensating" /\ Recovering
  /\ memory.phase[s] = "planned" /\ ~op.doubtful
  /\ Last(s, modified)
  /\ \E outcome \in TransitionOutcomes(memory, s, "compensated") :
       /\ Transition(memory, s, "compensated", outcome)
       /\ IF outcome = "ok"
          THEN pc' = AfterStep(s) /\ modified' = modified \ {s}
          ELSE pc' = "mark" /\ UNCHANGED modified
  /\ UNCHANGED <<machine, state, backup, values, lock, op, pending, failed,
                 degraded, transactions, tears, drifts, ignored>>

\* Unless the journal came from .prev, which lags: then it may have been.
RecoverDoubtful(s) ==
  /\ pc = "compensating" /\ Recovering
  /\ memory.phase[s] = "planned" /\ op.doubtful
  /\ Last(s, modified)
  /\ \E outcome \in TransitionOutcomes(memory, s, "recovery_required") :
       Transition(memory, s, "recovery_required", outcome)
  /\ pc' = "reopen"
  /\ UNCHANGED <<machine, state, backup, values, lock, op, pending, modified, failed,
                 degraded, transactions, tears, drifts, ignored>>

\* Mutant of PassesForCompensated: recovery does not look either.
AnythingPasses(outcome) == outcome # "threw"

\* Where the executor and recovery differ: the executor does not look at what
\* the compensating write returns, so a denied slot passes for compensated,
\* and a folded list passes as it does when it is applied; recovery checks
\* the one and compares the other literally.
Lenient == {"denied", "folded"}

PassesForCompensated(outcome) ==
  outcome = "done" \/ (outcome \in Lenient /\ ~Recovering)

RewriteOriginal(s) ==
  /\ pc = "rewrite"
  /\ Last(s, modified)
  /\ \E outcome \in WriteOutcomes :
       /\ WriteAuthority(s, op.original[s], outcome)
       /\ pc' = IF PassesForCompensated(outcome) THEN "compensated" ELSE "mark"
       /\ ignored' = IF outcome \in Lenient /\ ~Recovering THEN ignored \cup {s}
                     ELSE IF outcome = "done" THEN ignored \ {s} ELSE ignored
  /\ UNCHANGED <<daily, files, lock, op, memory, pending, modified, failed,
                 degraded, transactions, tears, drifts>>

ReportCompensated(s) ==
  /\ pc = "compensated"
  /\ Last(s, modified)
  /\ \E outcome \in TransitionOutcomes(memory, s, "compensated") :
       /\ Transition(memory, s, "compensated", outcome)
       /\ IF outcome = "ok"
          THEN pc' = AfterStep(s) /\ modified' = modified \ {s}
          ELSE pc' = "mark" /\ UNCHANGED modified
  /\ UNCHANGED <<machine, state, backup, values, lock, op, pending, failed,
                 degraded, transactions, tears, drifts, ignored>>

\* A step that could not be compensated; the report itself may fail.
MarkUncompensated(s) ==
  /\ pc = "mark"
  /\ Last(s, modified)
  /\ \/ memory.phase[s] = "recovery_required" /\ UNCHANGED <<journalFiles, memory, faults>>
     \/ /\ memory.phase[s] # "recovery_required"
        /\ \E outcome \in TransitionOutcomes(memory, s, "recovery_required") :
             Transition(memory, s, "recovery_required", outcome)
  /\ failed' = TRUE
  /\ modified' = modified \ {s}
  /\ pc' = AfterStep(s)
  /\ UNCHANGED <<machine, state, backup, values, lock, op, pending,
                 degraded, transactions, tears, drifts, ignored>>

\* The previous state again, marked when something could not be undone: the
\* protect view's fail, failBeforeRestore and the recover view's
\* publishPrevious all commit this.
PublishPrevious ==
  /\ pc = "publish_previous"
  /\ \E outcome \in Outcomes :
       /\ Charge(outcome)
       /\ CommitState(outcome, ProtectionState(op.base,
            IF failed THEN "recovery_required" ELSE op.base.health, None))
  /\ Return
  /\ UNCHANGED <<machine, backup, values, journalFiles, transactions, tears, drifts, ignored>>

-----------------------------------------------------------------------------
(* restore(), internal/restore-service.ts, and the restore branch of       *)
(* recover(): bring every setting back to the daily snapshot, publish      *)
(* daily, delete the snapshot, close.                                      *)

StartRestore ==
  /\ pc = "idle" /\ lock = "free"
  /\ state.target # None
  /\ Unblocked
  /\ backup # None
  /\ transactions < MaxTransactions
  /\ transactions' = transactions + 1
  /\ lock' = "held"
  /\ op' = [kind |-> "restore", txid |-> transactions', target |-> None,
            plan |-> [s \in Steps |-> "restore"], goal |-> backup,
            original |-> authority, base |-> PreviousOf(state), doubtful |-> FALSE]
  /\ pending' = Steps
  /\ pc' = "values"
  /\ UNCHANGED <<machine, files, memory, modified, failed, degraded,
                 faults, tears, drifts, ignored>>

\* Where the last step leads.  Recovery publishes daily only if that had not
\* been done before the crash.
AfterDaily(hasFailed) ==
  CASE hasFailed -> "publish_previous"
    [] ~hasFailed /\ (state.target # None \/ state.active # op.txid) -> "publish_daily"
    [] ~hasFailed /\ state.target = None /\ state.active = op.txid -> "cleanup_begin"

\* Mutant of AfterDailyStep: a failure of the last step comes too late.
AfterDailyStepStale(s, hasFailed) ==
  IF pending \ {s} = {} THEN AfterDaily(failed) ELSE "daily_begin"

AfterDailyStep(s, hasFailed) ==
  IF pending \ {s} = {} THEN AfterDaily(hasFailed) ELSE "daily_begin"

\* Opens a step unless a previous run did; recovery gives up on a step whose
\* phase a restore never has.
BeginDailyStep(s) ==
  /\ pc = "daily_begin"
  /\ First(s, pending)
  /\ \/ /\ memory.phase[s] \in {"absent", "compensated", "compensating"}
        /\ failed' = TRUE
        /\ pending' = pending \ {s}
        /\ pc' = AfterDailyStep(s, TRUE)
        /\ UNCHANGED <<journalFiles, memory, faults>>
     \/ /\ memory.phase[s] \in {"applying", "verified"}
        /\ pc' = "daily_write"
        /\ UNCHANGED <<journalFiles, memory, faults, failed, pending>>
     \/ /\ memory.phase[s] \in {"planned", "recovery_required"}
        /\ \E outcome \in TransitionOutcomes(memory, s, "applying") :
             /\ Transition(memory, s, "applying", outcome)
             /\ pc' = IF outcome = "ok" THEN "daily_write" ELSE "daily_mark"
        /\ UNCHANGED <<failed, pending>>
  /\ UNCHANGED <<machine, state, backup, values, lock, op, modified,
                 degraded, transactions, tears, drifts, ignored>>

\* Write and readback.  A fresh restore always writes, recovery only where
\* the setting differs; a denial fails the step, and so does a list that
\* reads back otherwise than literally, accepted or not.
WriteDaily(s) ==
  /\ pc = "daily_write"
  /\ First(s, pending)
  /\ \/ /\ Recovering /\ authority[s] = op.goal[s]
        /\ pc' = "daily_verify"
        /\ UNCHANGED <<authority, faults, ignored>>
     \/ /\ ~(Recovering /\ authority[s] = op.goal[s])
        /\ \E outcome \in WriteOutcomes :
             /\ WriteAuthority(s, op.goal[s], outcome)
             /\ pc' = IF outcome = "done" THEN "daily_verify" ELSE "daily_mark"
             /\ ignored' = IF outcome = "done" THEN ignored \ {s} ELSE ignored
  /\ UNCHANGED <<daily, files, lock, op, memory, pending, modified, failed,
                 degraded, transactions, tears, drifts>>

ReportDailyVerified(s) ==
  /\ pc = "daily_verify"
  /\ First(s, pending)
  /\ \/ /\ memory.phase[s] = "verified"
        /\ pending' = pending \ {s}
        /\ pc' = AfterDailyStep(s, failed)
        /\ UNCHANGED <<journalFiles, memory, faults>>
     \/ /\ memory.phase[s] # "verified"
        /\ \E outcome \in TransitionOutcomes(memory, s, "verified") :
             /\ Transition(memory, s, "verified", outcome)
             /\ IF outcome = "ok"
                THEN pending' = pending \ {s} /\ pc' = AfterDailyStep(s, failed)
                ELSE pc' = "daily_mark" /\ UNCHANGED pending
  /\ UNCHANGED <<machine, state, backup, values, lock, op, modified, failed,
                 degraded, transactions, tears, drifts, ignored>>

\* A failed step is recorded, as far as that works, and the rest goes on.
MarkDailyFailed(s) ==
  /\ pc = "daily_mark"
  /\ First(s, pending)
  /\ \/ memory.phase[s] = "recovery_required" /\ UNCHANGED <<journalFiles, memory, faults>>
     \/ /\ memory.phase[s] # "recovery_required"
        /\ \E outcome \in TransitionOutcomes(memory, s, "recovery_required") :
             Transition(memory, s, "recovery_required", outcome)
  /\ failed' = TRUE
  /\ pending' = pending \ {s}
  /\ pc' = AfterDailyStep(s, TRUE)
  /\ UNCHANGED <<machine, state, backup, values, lock, op, modified,
                 degraded, transactions, tears, drifts, ignored>>

\* Daily is published while the transaction stays active.
PublishDaily ==
  /\ pc = "publish_daily"
  /\ \E outcome \in Outcomes :
       /\ Charge(outcome)
       /\ CommitState(outcome, DailyState(op.base.preferred, "healthy", op.txid))
       /\ ContinueIf(outcome, "cleanup_begin")
  /\ UNCHANGED <<machine, backup, values, journalFiles, transactions, tears, drifts, ignored>>

-----------------------------------------------------------------------------
(* convergeBackupCleanup, on the journal as read back from disk.           *)

CleanupPhase == JournalRead.phase[Cleanup]

\* A cleanup that is verified while the backup exists contradicts itself.
BeginCleanup ==
  /\ pc = "cleanup_begin"
  /\ \/ /\ CleanupPhase = "verified"
        /\ memory' = JournalRead
        /\ pc' = IF backup = None THEN "complete_daily" ELSE "cleanup_mark"
        /\ UNCHANGED <<journalFiles, faults>>
     \/ /\ CleanupPhase = "applying"
        /\ memory' = JournalRead
        /\ pc' = "cleanup_delete"
        /\ UNCHANGED <<journalFiles, faults>>
     \/ /\ CleanupPhase \notin {"verified", "applying"}
        /\ \E outcome \in TransitionOutcomes(JournalRead, Cleanup, "applying") :
             /\ Transition(JournalRead, Cleanup, "applying", outcome)
             /\ pc' = IF outcome = "ok" THEN "cleanup_delete" ELSE "cleanup_mark"
  /\ UNCHANGED <<machine, state, backup, values, lock, op, pending, modified, failed,
                 degraded, transactions, tears, drifts, ignored>>

\* The verified delete throws with the backup kept or, past the point where
\* the outcome is uncertain, gone.
DeleteDailySnapshot ==
  /\ pc = "cleanup_delete"
  /\ \E outcome \in Outcomes :
       /\ backup = None => outcome = "ok"
       /\ Charge(outcome)
       /\ backup' = IF outcome = "lost" THEN backup ELSE None
       /\ pc' = IF outcome = "ok" THEN "cleanup_verify" ELSE "cleanup_mark"
  /\ UNCHANGED <<machine, state, values, journalFiles, lock, locals,
                 transactions, tears, drifts, ignored>>

\* Nobody else verifies the step in between, the code asks nevertheless.
VerifyCleanup ==
  /\ pc = "cleanup_verify"
  /\ \/ /\ CleanupPhase = "verified"
        /\ memory' = JournalRead
        /\ pc' = "complete_daily"
        /\ UNCHANGED <<journalFiles, faults>>
     \/ /\ CleanupPhase # "verified"
        /\ \E outcome \in TransitionOutcomes(JournalRead, Cleanup, "verified") :
             /\ Transition(JournalRead, Cleanup, "verified", outcome)
             /\ pc' = IF outcome = "ok" THEN "complete_daily" ELSE "cleanup_mark"
  /\ UNCHANGED <<machine, state, backup, values, lock, op, pending, modified, failed,
                 degraded, transactions, tears, drifts, ignored>>

MarkCleanupFailed ==
  /\ pc = "cleanup_mark"
  /\ \/ CleanupPhase = "recovery_required" /\ UNCHANGED <<journalFiles, memory, faults>>
     \/ /\ CleanupPhase # "recovery_required"
        /\ \E outcome \in TransitionOutcomes(JournalRead, Cleanup, "recovery_required") :
             Transition(JournalRead, Cleanup, "recovery_required", outcome)
  /\ pc' = "fail_cleanup"
  /\ UNCHANGED <<machine, state, backup, values, lock, op, pending, modified, failed,
                 degraded, transactions, tears, drifts, ignored>>

\* failCleanup and failCleanupDaily: daily, but the transaction stays open.
FailCleanup ==
  /\ pc = "fail_cleanup"
  /\ \E outcome \in Outcomes :
       /\ Charge(outcome)
       /\ CommitState(outcome, DailyState(op.base.preferred, "recovery_required", op.txid))
  /\ Return
  /\ UNCHANGED <<machine, backup, values, journalFiles, transactions, tears, drifts, ignored>>

\* complete and completeDaily.
CompleteDaily ==
  /\ pc = "complete_daily"
  /\ \E outcome \in Outcomes :
       /\ Charge(outcome)
       /\ CommitState(outcome, DailyState(op.base.preferred, "healthy", None))
  /\ Return
  /\ UNCHANGED <<machine, backup, values, journalFiles, transactions, tears, drifts, ignored>>

-----------------------------------------------------------------------------
(* recover().  Only it takes a stale lock over; what it refuses it throws, *)
(* which releases the lock.                                                *)

NeedsRecovery == Health = "recovery_required"

\* With its backup gone a restore only goes on past the point of deletion.
BackupMayBeMissing ==
  CleanupPhase \in {"applying", "verified", "recovery_required"} /\ state.target = None

CanRecover ==
  /\ Readable
  /\ JournalRead # None
  /\ NeedsRecovery
  /\ state.active \in {None, JournalRead.txid}
  /\ JournalRead.kind = "restore" /\ backup = None => BackupMayBeMissing

StartRecover ==
  LET j == JournalRead
      open == {s \in Steps : j.phase[s] \notin {"absent", "compensated"}}
  IN /\ pc = "idle" /\ lock \in {"free", "stale"}
     /\ CanRecover
     /\ lock' = "held"
     /\ memory' = j
     /\ op' = [kind |-> "recover", txid |-> j.txid, target |-> None,
               plan |-> [s \in Steps |-> "absent"],
               goal |-> IF backup = None THEN values.original ELSE backup,
               original |-> values.original, base |-> j.previous, doubtful |-> torn]
     /\ \/ /\ j.kind = "protect"
           /\ modified' = open
           /\ pc' = Unwind(open)
           /\ UNCHANGED pending
        \/ /\ j.kind = "restore" /\ backup # None
           /\ pending' = Steps
           /\ pc' = "daily_begin"
           /\ UNCHANGED modified
        \/ /\ j.kind = "restore" /\ backup = None
           /\ pc' = IF state.active = j.txid THEN "cleanup_begin" ELSE "publish_daily"
           /\ UNCHANGED <<pending, modified>>
     /\ UNCHANGED <<machine, files, failed, degraded, transactions, faults, tears,
                    drifts, ignored>>

\* Nothing to recover, or a refusal: all that changes is the dead lock.
RecoverReturnsEarly ==
  /\ pc = "idle" /\ lock = "stale"
  /\ ~CanRecover
  /\ lock' = "free"
  /\ UNCHANGED <<machine, files, pc, locals, transactions, faults, tears, drifts, ignored>>

-----------------------------------------------------------------------------
(* setPreferredRegion: one state commit, in daily mode only.               *)

SetPreferredRegion(region) ==
  /\ pc = "idle" /\ lock = "free"
  /\ Unblocked
  /\ state.target = None
  /\ state.preferred # region
  /\ \E outcome \in Outcomes :
       /\ Charge(outcome)
       /\ CommitState(outcome, DailyState(region, state.health, None))
  /\ UNCHANGED <<machine, backup, values, journalFiles, lock, pc, locals,
                 transactions, tears, drifts, ignored>>

-----------------------------------------------------------------------------
(* The environment.                                                        *)

\* Where the next write is one of the journal.
JournalWrites ==
  {"plan", "applying", "verify", "compensating", "reopen", "compensated", "mark",
   "daily_begin", "daily_verify", "daily_mark",
   "cleanup_begin", "cleanup_verify", "cleanup_mark"}

\* The process dies between two writes, or inside a system write.  A durable
\* write it dies in has happened or not: the crash before or after it; one of
\* the journal may have got as far as .prev.
Crash ==
  /\ pc # "idle"
  /\ faults < MaxFaults
  /\ faults' = faults + 1
  /\ \/ UNCHANGED authority
     \/ \E s \in Steps :
          /\ \/ pc \in {"apply", "daily_write"} /\ First(s, pending)
             \/ pc = "rewrite" /\ Last(s, modified)
          /\ authority' = [authority EXCEPT ![s] = Partial]
  /\ \/ UNCHANGED previousJournal
     \/ pc \in JournalWrites /\ ~torn /\ previousJournal' = journal
  /\ Discard("stale")
  /\ UNCHANGED <<daily, state, backup, values, journal, torn,
                 transactions, tears, drifts, ignored>>

\* The storage loses the current generation of the journal.
TearJournal ==
  /\ pc = "idle"
  /\ journal # None /\ ~torn
  /\ tears < MaxTears
  /\ tears' = tears + 1
  /\ torn' = TRUE
  /\ UNCHANGED <<machine, state, backup, values, journal, previousJournal, lock, pc,
                 locals, transactions, faults, drifts, ignored>>

\* The user changes a setting while nothing is under way or unfinished; in
\* daily mode the new value is part of the daily configuration.
UserChangesSetting(s, v) ==
  /\ pc = "idle" /\ lock = "free" /\ Unblocked
  /\ v # authority[s] /\ v # Partial
  /\ drifts < MaxDrifts
  /\ drifts' = drifts + 1
  /\ authority' = [authority EXCEPT ![s] = v]
  /\ daily' = IF state.target = None THEN [daily EXCEPT ![s] = v] ELSE daily
  /\ UNCHANGED <<files, lock, pc, locals, transactions, faults, tears, ignored>>

-----------------------------------------------------------------------------
Init ==
  /\ authority \in [Steps -> Values \ {Partial}]
  /\ daily = authority
  /\ \E region \in Regions : state = DailyState(region, "healthy", None)
  /\ backup = None /\ values = None
  /\ journal = None /\ previousJournal = None /\ torn = FALSE
  /\ lock = "free" /\ pc = "idle"
  /\ op = None /\ memory = None
  /\ pending = {} /\ modified = {} /\ failed = FALSE /\ degraded = FALSE
  /\ transactions = 0 /\ faults = 0 /\ tears = 0 /\ drifts = 0
  /\ ignored = {}

ProtectStep(s) == ReportApplying(s) \/ ApplyStep(s) \/ ReportVerified(s)

CompensationStep(s) ==
  \/ ReportCompensating(s) \/ RecoverUntouched(s) \/ RecoverDoubtful(s)
  \/ RewriteOriginal(s) \/ ReportCompensated(s) \/ MarkUncompensated(s)

DailyStep(s) ==
  \/ BeginDailyStep(s) \/ WriteDaily(s) \/ ReportDailyVerified(s) \/ MarkDailyFailed(s)

\* The running operation takes its next step.
Proceed ==
  \/ CreateDailySnapshot \/ PlanValues \/ PlanPhases \/ BeginTransaction
  \/ CompleteProtect \/ PublishPrevious \/ PublishDaily
  \/ BeginCleanup \/ DeleteDailySnapshot \/ VerifyCleanup \/ MarkCleanupFailed
  \/ FailCleanup \/ CompleteDaily
  \/ \E s \in Steps : ProtectStep(s) \/ CompensationStep(s) \/ DailyStep(s)

Recover == StartRecover \/ RecoverReturnsEarly

Next ==
  \/ \E target \in Targets : StartProtect(target)
  \/ StartRestore
  \/ Recover
  \/ Proceed
  \/ \E region \in Regions : SetPreferredRegion(region)
  \/ Crash
  \/ TearJournal
  \/ \E s \in Steps, v \in Values : UserChangesSetting(s, v)

Spec == Init /\ [][Next]_vars

\* A live process goes on, and whoever is told to run recover does so.
FairSpec == Spec /\ WF_vars(Proceed) /\ WF_vars(Recover)

-----------------------------------------------------------------------------
(* Properties.                                                             *)

\* What a running operation has at hand at each location: what it decided, the
\* right kind for the branch it is on and, once the journal is planned, a copy of
\* a journal that can be read back from disk.
Located ==
  /\ pc # "idle" => op # None
  /\ pc \in {"snapshot", "applying", "apply", "verify", "complete"} => op.kind = "protect"
  /\ pc \in {"values", "plan", "begin"} => op.kind # "recover"
  /\ (op # None /\ op.kind = "protect") => op.target # None
  /\ pc \notin {"idle", "snapshot", "values", "plan"} => memory # None /\ JournalRead # None

\* Every file and local variable holds a value of its kind, and a running
\* operation has at hand what its next step needs.
TypeOK ==
  /\ authority \in Settings /\ daily \in Settings
  /\ state \in States(Nat)
  /\ backup \in Settings \cup {None}
  /\ values \in [txid : Nat, original : Settings] \cup {None}
  /\ journal \in Journals(Nat) \cup {None}
  /\ previousJournal \in Journals(Nat) \cup {None}
  /\ torn \in BOOLEAN
  /\ lock \in {"free", "held", "stale"}
  /\ pc \in Locations
  /\ op \in Operations \cup {None}
  /\ memory \in Journals(Nat) \cup {None}
  /\ pending \subseteq Steps /\ modified \subseteq Steps
  /\ failed \in BOOLEAN /\ degraded \in BOOLEAN
  /\ transactions \in Nat /\ faults \in Nat /\ tears \in Nat /\ drifts \in Nat
  /\ ignored \subseteq Steps
  /\ Located

\* The journal has lost no generation so far.  What is said under it fails
\* without it: recovery from .prev may replay a closed transaction, or close a
\* step that was written (CompletedIsNotReplayed, ClosedStepsAreUntouched).
Intact == tears = 0

\* While a target is committed, the backup exists and holds the settings the
\* user had in daily mode: no crash, failure or leftover snapshot ever turns
\* a protected value into a "daily" one (ADR-0006, invariant 6).
BackupIsDaily == Intact /\ state.target # None => backup = daily

\* A setting is back at a value, save where a compensating write went unnoticed
\* that was denied in part, or that a folded language list answered: then the
\* base languages are back.
BackAt(s, v) ==
  \/ authority[s] = v
  \/ s \in ignored /\ (s = LanguageStep => authority[s] \in Accepted(s, v))

\* Nothing unfinished and no target committed: every setting is back at what
\* the user left.  This is what "daily, healthy" on the status line promises.
DailyIsClean ==
  (Intact /\ pc = "idle" /\ Readable /\ Health # "recovery_required" /\ state.target = None)
    => \A s \in Steps : BackAt(s, daily[s])

\* As long as a protect journal is open, a step it shows as planned has not
\* been written: the write-ahead rule that lets recovery close such a step
\* without restoring it.
UntouchedUntilReported ==
  (Intact /\ journal # None /\ values # None /\ journal.txid = values.txid
     /\ journal.kind = "protect" /\ Health = "recovery_required")
    => \A s \in Steps : journal.phase[s] = "planned" => authority[s] = values.original[s]

\* Once an operation has changed a setting, whoever asks for the status is
\* told that a transaction is open, until the final commit (invariant 1).
ChangesAreAnnounced ==
  (pc # "idle" /\ op.kind \in {"protect", "restore"} /\ authority # op.original)
    => Health = "recovery_required"

\* Whether the settings realise a target: every managed step holds what its
\* readback accepts for the target's value (Accepted: the value itself, for
\* the language list its base languages), save the policy step of a degraded
\* commit.
Realised(target, health) ==
  \A s \in ManagedSteps(target) :
    \/ authority[s] \in Accepted(s, DesiredValues(target)[s])
    \/ s = PolicyStep /\ health = "degraded"

\* protect commits a target as healthy or degraded only over settings that
\* realise it, and after a downshift only over deep-only settings that read
\* back as the values of the backup; the language list is only ever compared by
\* its base languages (invariant 2; executor.ts says so where it commits).
CommittedTargetIsRealised ==
  [][(pc = "complete" /\ state' # state)
       => /\ Realised(state'.target, state'.health)
          /\ IsDownshift(op.base.target, op.target) =>
               \A s \in DeepOnly : authority[s] \in Accepted(s, backup[s])]_vars

\* Daily mode is published only when every single setting is back at the
\* value of the backup (invariant 4), whether by restore or by recover.
DailyOnlyWhenRestored ==
  [][(Intact /\ state.target # None /\ state'.target = None) => authority = backup]_vars

\* Publishing the previous state without a mark means that every setting is
\* back at its original value (invariant 3).
CompensationRestores ==
  [][(Intact /\ pc = "publish_previous" /\ ~failed /\ state' # state)
       => \A s \in Steps : BackAt(s, op.original[s])]_vars

\* The same without the exception, as ADR-0006 has it: only when every
\* compensation has been verified by readback is the old target announced.
CompensationIsVerified ==
  [][(pc = "publish_previous" /\ ~failed /\ state' # state)
       => authority = op.original]_vars

\* journal.ts on plan(): whatever write a crash interrupts, the journal can
\* be read again.
JournalStaysReadable == Readable

\* Exit code 22: when the compensation is verified the old target stands, so
\* nothing is left for recover to do.
CompensatedLeavesNothingOpen ==
  [][(pc = "publish_previous" /\ op.kind = "protect" /\ ~failed
        /\ state'.active = None /\ state' # state)
       => (Health # "recovery_required")']_vars

\* application.test.ts, "does not replay a completed historical journal": once
\* a transaction is closed in both files, recover starts nothing from it.
CompletedIsNotReplayed ==
  [][(pc = "idle" /\ pc' # "idle" /\ op'.kind = "recover")
       => ~(journal # None /\ IsSettled(journal)
              /\ state.active = None /\ state.health # "recovery_required")]_vars

\* journal.ts on degraded: a planned step of a journal that fell back to .prev
\* may have been written and must never be closed without its value written
\* back.  Holds for the recovery that read .prev; what of the next one?
ClosedStepsAreUntouched ==
  [][\A s \in Steps :
       (pc = "compensating" /\ memory.phase[s] = "planned"
          /\ memory' # None /\ memory'.phase[s] = "compensated")
         => authority[s] = op.original[s]]_vars

\* With a bounded number of faults every interrupted or failed transaction is
\* eventually closed by recover, unless the journal cannot be read.
RecoveryConverges == NeedsRecovery ~> (~NeedsRecovery \/ ~Readable)
=============================================================================
