---------------------------- MODULE RecoveryProofs ----------------------------
(***************************************************************************)
(* What protections, restores and recoveries leave behind, proved for any  *)
(* number of steps, regions, transactions and faults: the inductive        *)
(* invariant says how the journal, on disk and in memory, relates to the   *)
(* settings at every place an operation can die.                           *)
(***************************************************************************)
EXTENDS PersistTransactionProofs, Commands

-----------------------------------------------------------------------------
(* What the files say.                                                     *)

\* The phase table counts: the values beside it are its own.
Matched == values # None /\ journal # None /\ journal.txid = values.txid

Restored(s) == BackAt(s, values.original[s])

\* What a protect journal says of the steps it shows as untouched or undone.
Truthful(j) ==
  \A s \in Steps :
    /\ j.phase[s] \in {"absent", "planned"} => authority[s] = values.original[s]
    /\ j.phase[s] = "compensated" => Restored(s)

\* Nothing is left that a status would not ask to recover: no step is verified.
Unverified(j) ==
  (state.active = None /\ state.health # "recovery_required") =>
    \A s \in Steps : j.phase[s] # "verified"

AllVerified(j) == \A s \in Steps : j.phase[s] = "verified"

\* Every journal returns to a state that was in order, and only a restore has
\* a backup to clean up.
Planned(j) ==
  /\ j.previous.health # "recovery_required"
  /\ j.kind = "restore" => j.previous.target # None
  /\ j.kind = "protect" => j.phase[Cleanup] = "absent"

\* In daily mode a setting differs from the user's own only where a denial or a
\* folded list went unnoticed, and the snapshot of that attempt still knows better.
Clean ==
  (Health # "recovery_required" /\ state.target = None) =>
    \A s \in Steps :
      \/ authority[s] = daily[s]
      \/ BackAt(s, daily[s]) /\ backup # None /\ backup[s] = daily[s]

\* A protect can be undone from what is on disk ...
Undoable ==
  /\ state.target = journal.previous.target
  /\ state.target = None => values.original = daily /\ backup = daily
  /\ Truthful(journal) /\ Unverified(journal)

\* ... and a restore has its backup, or does not need it any more.
Bringable ==
  /\ backup \in {None, daily}
  /\ state.target = None => state.active # None
  /\ backup = None => state.target = None /\ authority = daily /\ AllVerified(journal)

Open(kind) == Matched /\ Health = "recovery_required" /\ journal.kind = kind

Durable ==
  /\ ~torn
  /\ state.target # None => backup = daily
  /\ journal # None => Planned(journal)
  /\ Clean
  /\ Open("protect") => Undoable
  /\ Open("restore") => Bringable

-----------------------------------------------------------------------------
(* What the operation under way knows.                                     *)

Planning == {"snapshot", "values", "plan"}
ProtectOnly == Applying \cup {"compensating", "rewrite", "compensated", "mark"}
DailySteps == {"daily_begin", "daily_write", "daily_verify", "daily_mark"}
Cleaning == {"cleanup_begin", "cleanup_delete", "cleanup_verify", "cleanup_mark",
             "complete_daily", "fail_cleanup"}
RestoreOnly == DailySteps \cup Cleaning \cup {"publish_daily"}

\* An operation begins with nothing applied.
Fresh ==
  /\ pc \in Unplanned \cup {"begin"} => modified = {} /\ ~failed
  /\ pc = "idle" => pending = {}
  /\ pc \in Planning \cup {"begin"} =>
       pending = IF op.kind = "restore" THEN Steps ELSE PlannedSteps(op.plan)

\* The phase a step has while protect applies its plan.
AppliedPhase(s) ==
  IF s \in pending
  THEN IF pc \in {"apply", "verify"} /\ First(s, pending) THEN "applying" ELSE "planned"
  ELSE IF s \in PlannedSteps(op.plan) THEN "verified" ELSE "absent"

\* While steps are applied, memory and disk agree on each.
Applied ==
  (pc \in {"begin"} \cup Applying /\ op.kind = "protect") =>
    /\ journal = memory /\ ~torn /\ ~failed
    /\ memory.phase[Cleanup] = "absent"
    /\ \A s \in Steps : memory.phase[s] = AppliedPhase(s)
    /\ pending \subseteq PlannedSteps(op.plan)
    /\ PlannedSteps(op.plan) \ pending \subseteq modified
    /\ pc = "verify" => \A s \in Steps : First(s, pending) => s \in modified
    /\ pc = "complete" => pending = {}
    /\ pc \in Applying => state.active = op.txid

\* Before its journal is planned nothing has changed.
Starting ==
  pc \in Planning =>
    /\ Health # "recovery_required"
    /\ op.base = PreviousOf(state) /\ ~op.doubtful
    /\ op.base.target = None =>
         op.kind = "protect" /\ op.original = daily /\ (pc = "snapshot" \/ backup = daily)
    /\ pc = "snapshot" => op.base.target = None
    /\ op.kind = "restore" => op.goal = backup
    /\ pc = "plan" => values = [txid |-> op.txid, original |-> op.original]

Underway == pc \notin Unplanned
UnderwayFor(kind) == Underway /\ journal.kind = kind

\* j is a journal of the transaction under way.
Own(j) == j.txid = op.txid /\ j.previous = op.base /\ Planned(j)

\* The journals in memory and on disk are of the same transaction.
SameTransaction ==
  Underway =>
    /\ Matched /\ values.original = op.original
    /\ Own(journal) /\ Own(memory) /\ memory.kind = journal.kind
    /\ op.kind # "recover" => op.kind = journal.kind
    /\ ~op.doubtful /\ pc # "reopen"
    /\ pc \in ProtectOnly => journal.kind = "protect"
    /\ pc \in RestoreOnly => journal.kind = "restore"

\* What the protect under way has changed can be undone.
Reversible == UnderwayFor("protect") => Undoable /\ Truthful(memory) /\ Unverified(memory)

\* A step that is not to be undone any more is undone, or was never written.
Closed(j, s) ==
  /\ j.phase[s] # "verified"
  /\ op.kind = "recover" => j.phase[s] \in {"absent", "compensated"}

Undone(s) == Restored(s) /\ Closed(memory, s) /\ Closed(journal, s)

Agree(s) == memory.phase[s] = journal.phase[s]

Undoing ==
  UnderwayFor("protect") =>
    /\ \A s \in Steps \ modified : failed \/ Undone(s)
    /\ op.kind = "recover" => \A s \in modified : (pc = "mark" /\ Last(s, modified)) \/ Agree(s)
    /\ \A s \in Steps : Last(s, modified) =>
         /\ pc = "rewrite" => memory.phase[s] = "compensating" /\ journal.phase[s] = "compensating"
         /\ pc = "compensated" => Restored(s)
    /\ pc = "publish_previous" => modified = {}

\* The backup is there as long as the restore under way has settings to bring back.
Backed ==
  UnderwayFor("restore") =>
    /\ backup \in {None, daily}
    /\ state.target = None => state.active = op.txid
    /\ pc \notin Cleaning => backup = daily
    /\ pc \in {"begin"} \cup DailySteps => op.goal = daily
    /\ pc \in Cleaning => state.target = None

Home(s) == authority[s] = daily[s] /\ memory.phase[s] = "verified" /\ journal.phase[s] = "verified"

Restoring ==
  UnderwayFor("restore") =>
    /\ pc = "begin" => memory = journal
    /\ pc \in DailySteps =>
         /\ \A s \in pending : (pc = "daily_mark" /\ First(s, pending)) \/ Agree(s)
         /\ \A s \in Steps \ pending : failed \/ Home(s)
    /\ pc = "daily_verify" => \A s \in Steps : First(s, pending) => authority[s] = daily[s]
    /\ pc = "publish_previous" => failed
    /\ pc \in Cleaning \cup {"publish_daily"} => authority = daily /\ AllVerified(journal)
    /\ pc = "complete_daily" => journal.phase[Cleanup] = "verified"

\* What an operation knows, but for how far the undoing has got.
Knows == Durable /\ Starting /\ SameTransaction /\ Reversible /\ Backed /\ Restoring

Sound == Knows /\ Undoing

IInv == TypeOK /\ Announced /\ Fresh /\ Applied /\ (Intact => Sound)

-----------------------------------------------------------------------------
(* Lemmas about phases, reports and the health.                            *)

\* The cleanup is not a setting.
LEMMA CleanupApart == Cleanup \in JournalSteps /\ \A s \in Steps : s # Cleanup /\ s \in JournalSteps
BY PlanAssumption DEF Cleanup, Steps, JournalSteps

\* Two last steps are the same step.
LEMMA LastUnique ==
  ASSUME NEW S, S \subseteq Steps, NEW s, NEW q, Last(s, S), Last(q, S)
  PROVE  s = q
BY PlanAssumption DEF Last, Steps

\* What changes when a step is given a phase.
LEMMA NextReads ==
  ASSUME NEW m \in Journals(Nat), NEW s \in JournalSteps, NEW p,
         NEW next, next = [m EXCEPT !.phase[s] = p]
  PROVE  /\ next.txid = m.txid /\ next.kind = m.kind /\ next.previous = m.previous
         /\ next.phase[s] = p
         /\ \A q \in JournalSteps : q # s => next.phase[q] = m.phase[q]
BY DEF Journals

\* A transition writes the next generation or leaves the old one, and what the
\* operation has in memory lags behind where it is told that the write failed.
LEMMA TransitionReports ==
  ASSUME ~torn, NEW m, NEW s, NEW p, NEW outcome, Transition(m, s, p, outcome),
         NEW next, next = [m EXCEPT !.phase[s] = p]
  PROVE  /\ ~torn'
         /\ journal' \in {journal, next}
         /\ memory' \in {m, next}
         /\ outcome = "ok" => journal' = next /\ memory' = next
         /\ outcome # "ok" => memory' = m
<1>1. memory' = IF outcome = "ok" THEN next ELSE m
  BY DEF Transition
<1>2. CASE outcome = "refused"
  BY <1>1, <1>2 DEF Transition, journalFiles
<1>3. CASE outcome # "refused"
  <2>1. WriteJournal(outcome, next)
    BY <1>3 DEF Transition
  <2> QED
    BY <1>1, <2>1 DEF WriteJournal
<1> QED
  BY <1>2, <1>3

\* Whatever becomes of the report on s, the phases of the others agree with one
\* of the two journals there were.
LEMMA ReportPhases ==
  ASSUME ~torn, NEW m \in Journals(Nat), journal \in Journals(Nat),
         NEW s \in JournalSteps, NEW p, NEW outcome, Transition(m, s, p, outcome)
  PROVE  /\ ~torn'
         /\ \A q \in JournalSteps : q # s =>
              /\ memory'.phase[q] = m.phase[q]
              /\ journal'.phase[q] \in {journal.phase[q], m.phase[q]}
         /\ memory'.phase[s] \in {m.phase[s], p}
         /\ journal'.phase[s] \in {journal.phase[s], p}
         /\ outcome = "ok" => memory'.phase[s] = p /\ journal' = memory'
         /\ outcome # "ok" => memory' = m
<1> PICK next : next = [m EXCEPT !.phase[s] = p]
  OBVIOUS
<1>1. /\ ~torn'
      /\ journal' \in {journal, next}
      /\ memory' \in {m, next}
      /\ outcome = "ok" => journal' = next /\ memory' = next
      /\ outcome # "ok" => memory' = m
  BY TransitionReports
<1>2. /\ next.phase[s] = p
      /\ \A q \in JournalSteps : q # s => next.phase[q] = m.phase[q]
  BY DEF Journals
<1> QED
  BY <1>1, <1>2

InNeed(j, st) ==
  \/ j # None /\ ~IsSettled(j)
  \/ st.active # None
  \/ st.health = "recovery_required"

\* When the status asks for recovery.
LEMMA HealthIs == ~torn => (Health = "recovery_required" <=> InNeed(journal, state))
BY DEF Health, Unfinished, JournalRead, InNeed

\* The same after a step.
LEMMA HealthWillBe == ~torn' => (Health' = "recovery_required" <=> InNeed(journal', state'))
BY DEF Health, Unfinished, JournalRead, InNeed

\* A step under work keeps a transaction open.
LEMMA OpenStep ==
  ASSUME NEW j, NEW s \in JournalSteps, NEW st, j # None,
         j.phase[s] \in {"planned", "applying", "compensating", "recovery_required"}
  PROVE  InNeed(j, st)
BY DEF InNeed, IsSettled

\* Nothing to recover means that every step is absent, verified or compensated.
LEMMA SettledPhases ==
  ASSUME NEW j, j # None, NEW st, ~InNeed(j, st)
  PROVE  /\ \A s \in JournalSteps : j.phase[s] \in {"absent", "verified", "compensated"}
         /\ st.active = None /\ st.health # "recovery_required"
BY DEF InNeed, IsSettled

\* As long as neither the settings nor the files change, what the files promise stays.
LEMMA DurableStays ==
  ASSUME Durable, UNCHANGED <<authority, daily, ignored, state, backup, values, journal, torn>>
  PROVE  Durable'
<1>1. Health' = Health
  BY DEF Durable, Health, Unfinished, JournalRead
<1>2. Clean'
  BY <1>1 DEF Durable, Clean, BackAt
<1>3. \A kind : Open(kind)' <=> Open(kind)
  BY <1>1 DEF Open, Matched
<1>4. Undoable' <=> Undoable
  BY DEF Undoable, Truthful, Unverified, Restored, BackAt
<1>5. Bringable' <=> Bringable
  BY DEF Bringable, AllVerified
<1>6. (journal # None => Planned(journal))'
  BY DEF Durable, Planned
<1> QED
  BY <1>2, <1>3, <1>4, <1>5, <1>6 DEF Durable

\* A protect that can be undone is all that the files have to promise ...
LEMMA UndoableIsDurable ==
  ASSUME TypeOK', ~torn', Matched', journal'.kind = "protect", Planned(journal)', Undoable',
         state'.target # None => backup' = daily'
  PROVE  Durable'
<1>1. Clean'
  <2> SUFFICES ASSUME Health' # "recovery_required", state'.target = None, NEW s \in Steps
               PROVE  \/ authority'[s] = daily'[s]
                      \/ BackAt(s, daily[s])' /\ backup' # None /\ backup'[s] = daily'[s]
    BY DEF Clean
  <2>1. ~InNeed(journal', state') /\ journal' # None
    BY HealthWillBe DEF Matched
  <2>2. /\ journal'.phase[s] \in {"absent", "verified", "compensated"}
        /\ state'.active = None /\ state'.health # "recovery_required"
    BY <2>1, SettledPhases, CleanupApart
  <2>3. journal'.phase[s] # "verified"
    BY <2>2 DEF Undoable, Unverified
  <2>4. values'.original = daily' /\ backup' = daily' /\ backup' # None
    BY NoneAssumption DEF Undoable, TypeOK
  <2>5. authority'[s] = values'.original[s] \/ BackAt(s, values.original[s])'
    BY <2>2, <2>3 DEF Undoable, Truthful, Restored
  <2> QED
    BY <2>4, <2>5 DEF BackAt
<1>2. ~Open("restore")'
  BY DEF Open
<1> QED
  BY <1>1, <1>2 DEF Durable

\* ... and so is a restore that can be brought to its end.
LEMMA BringableIsDurable ==
  ASSUME TypeOK', ~torn', Matched', journal'.kind = "restore", Planned(journal)', Bringable'
  PROVE  Durable'
<1>1. Clean'
  BY HealthWillBe DEF Clean, Bringable, InNeed
<1>2. ~Open("protect")'
  BY DEF Open
<1>3. state'.target # None => backup' = daily'
  BY DEF Bringable
<1> QED
  BY <1>1, <1>2, <1>3 DEF Durable

-----------------------------------------------------------------------------
(* What an operation knows as it goes on, by branch.                       *)

\* A report on a step of a protect, by the protect or by its recovery, keeps
\* what is on disk undoable: it is never wrong about what it says is undone.
LEMMA ProtectReport ==
  ASSUME TypeOK, TypeOK', Knows, UnderwayFor("protect"),
         NEW s \in Steps, NEW p \in Phases \ {"planned"},
         \/ \E outcome : Transition(memory, s, p, outcome)
         \/ UNCHANGED <<journalFiles, memory>>,
         p = "verified" => state.active # None,
         p = "compensated" => Restored(s),
         pc' \in ProtectOnly \cup {"publish_previous"},
         UNCHANGED <<authority, daily, ignored, state, backup, values, op>>
  PROVE  Knows' /\ UnderwayFor("protect")'
<1> DEFINE Good(j) == Own(j) /\ j.kind = "protect" /\ Truthful(j) /\ Unverified(j)
<1>1. /\ ~torn /\ Matched /\ values.original = op.original
      /\ journal \in Journals(Nat) /\ memory \in Journals(Nat)
      /\ Good(journal) /\ Good(memory)
      /\ op.kind # "recover" => op.kind = "protect"
      /\ ~op.doubtful
  BY AtHand DEF Knows, Durable, SameTransaction, Reversible, Undoable, UnderwayFor,
                Underway, JournalRead
<1>2. PICK next : next = [memory EXCEPT !.phase[s] = p]
  OBVIOUS
<1>3. Good(next)
  <2>1. /\ next.txid = memory.txid /\ next.kind = memory.kind
        /\ next.previous = memory.previous /\ next.phase[s] = p
        /\ \A q \in JournalSteps : q # s => next.phase[q] = memory.phase[q]
    BY <1>1, <1>2, CleanupApart DEF Journals
  <2>2. Own(next) /\ next.kind = "protect"
    BY <1>1, <2>1, CleanupApart DEF Own, Planned
  <2>3. Truthful(next)
    BY <1>1, <2>1, CleanupApart DEF Truthful, Phases
  <2>4. Unverified(next)
    BY <1>1, <2>1, CleanupApart DEF Unverified
  <2> QED
    BY <2>2, <2>3, <2>4
<1>4. ~torn' /\ journal' \in {journal, next} /\ memory' \in {memory, next}
  <2>1. CASE \E outcome : Transition(memory, s, p, outcome)
    BY <1>1, <1>2, <2>1, TransitionReports
  <2>2. CASE UNCHANGED <<journalFiles, memory>>
    BY <1>1, <2>2 DEF journalFiles
  <2> QED
    BY <2>1, <2>2
<1>5. Good(journal') /\ Good(memory')
  BY <1>1, <1>3, <1>4
<1>6. journal' # None /\ journal'.kind = "protect" /\ memory'.kind = "protect"
  <2>1. next # None
    BY <1>1, <1>2, PhaseChangeType, CleanupApart, NoneAssumption
  <2> QED
    BY <1>1, <1>4, <1>5, <2>1 DEF Matched
<1>7. /\ Own(journal)' /\ Truthful(journal)' /\ Unverified(journal)'
      /\ Own(memory)' /\ Truthful(memory)' /\ Unverified(memory)'
  BY <1>5 DEF Own, Planned, Truthful, Unverified, Restored, BackAt
<1>8. Matched'
  BY <1>1, <1>6, <1>7 DEF Matched, Own
<1>9. Undoable'
  BY <1>1, <1>7 DEF Knows, Reversible, Undoable, Own
<1>10. Durable'
  BY <1>4, <1>6, <1>7, <1>8, <1>9, UndoableIsDurable DEF Knows, Durable, Own
<1>11. pc' \notin Unplanned /\ pc' # "reopen" /\ pc' \notin RestoreOnly
  BY DEF ProtectOnly, Applying, Unplanned, RestoreOnly, DailySteps, Cleaning
<1>12. SameTransaction'
  BY <1>1, <1>6, <1>7, <1>8, <1>11 DEF SameTransaction
<1>13. Reversible'
  BY <1>7, <1>9 DEF Reversible
<1>14. Starting' /\ Backed' /\ Restoring' /\ UnderwayFor("protect")'
  BY <1>6, <1>11 DEF Starting, Planning, Unplanned, Backed, Restoring, UnderwayFor, Underway
<1> QED
  BY <1>10, <1>12, <1>13, <1>14 DEF Knows

\* A report on s says nothing of the others.
LEMMA ReportElsewhere ==
  ASSUME TypeOK, Knows, UnderwayFor("protect"), NEW s \in Steps, NEW p,
         \/ \E outcome : Transition(memory, s, p, outcome)
         \/ UNCHANGED <<journalFiles, memory>>,
         UNCHANGED <<authority, ignored, values, op>>
  PROVE  \A q \in Steps : q # s =>
           /\ Undone(q) => Undone(q)'
           /\ Agree(q) => Agree(q)'
<1> SUFFICES ASSUME NEW q \in Steps, q # s
             PROVE  (Undone(q) => Undone(q)') /\ (Agree(q) => Agree(q)')
  OBVIOUS
<1>1. ~torn /\ journal \in Journals(Nat) /\ memory \in Journals(Nat)
  BY AtHand DEF Knows, Durable, UnderwayFor, Underway, JournalRead
<1>2. /\ memory'.phase[q] = memory.phase[q]
      /\ journal'.phase[q] \in {journal.phase[q], memory.phase[q]}
  <2>1. CASE \E outcome : Transition(memory, s, p, outcome)
    BY <1>1, <2>1, ReportPhases, CleanupApart
  <2>2. CASE UNCHANGED <<journalFiles, memory>>
    BY <2>2 DEF journalFiles
  <2> QED
    BY <2>1, <2>2
<1>3. Restored(q)' <=> Restored(q)
  BY DEF Restored, BackAt
<1> QED
  BY <1>2, <1>3 DEF Undone, Closed, Agree

-----------------------------------------------------------------------------
(* The reports of a protect and of its recovery.                           *)

\* A protect is on the way at the locations only protect and its recovery have.
LEMMA ProtectBranch ==
  ASSUME SameTransaction, pc \in ProtectOnly
  PROVE  UnderwayFor("protect") /\ pc \notin Unplanned
BY DEF SameTransaction, UnderwayFor, Underway, ProtectOnly, Applying, Unplanned

\* Before the write: the steps not yet touched are not to be undone, whether the
\* report succeeds or not.
LEMMA ReportApplyingSound ==
  ASSUME TypeOK, TypeOK', Applied, Sound, NEW s \in Steps, ReportApplying(s)
  PROVE  Sound'
<1>1. PICK outcome :
        /\ Transition(memory, s, "applying", outcome)
        /\ pc' = IF outcome = "ok" THEN "apply" ELSE Unwind(modified)
  BY DEF ReportApplying
<1>2. /\ pc = "applying" /\ op.kind = "protect"
      /\ UNCHANGED <<authority, daily, ignored, state, backup, values, op, modified, failed>>
  BY DEF ReportApplying, machine, TypeOK, Located
<1>3. UnderwayFor("protect")
  BY <1>2, ProtectBranch DEF Sound, Knows, ProtectOnly, Applying
<1>4. /\ pc' \in {"apply", "publish_previous", "compensating"}
      /\ pc' = "publish_previous" => modified = {}
  BY <1>1 DEF Unwind
<1>5. Knows' /\ UnderwayFor("protect")'
  BY <1>1, <1>2, <1>3, <1>4, ProtectReport DEF Sound, ProtectOnly, Applying, Phases
<1>6. \A q \in Steps : Undone(q) => Undone(q)'
  <2>1. \A q \in Steps : q # s => (Undone(q) => Undone(q)')
    BY <1>1, <1>2, <1>3, ReportElsewhere DEF Sound
  <2>2. Undone(s) => Undone(s)'
    <3>1. /\ memory'.phase[s] \in {memory.phase[s], "applying"}
          /\ journal'.phase[s] \in {journal.phase[s], "applying"}
      BY <1>1, <1>3, AtHand, ReportPhases, CleanupApart
         DEF Sound, Knows, Durable, UnderwayFor, Underway, JournalRead
    <3> QED
      BY <1>2, <3>1 DEF Undone, Closed, Restored, BackAt
  <2> QED
    BY <2>1, <2>2
<1>7. Undoing'
  BY <1>2, <1>3, <1>4, <1>6 DEF Sound, Undoing
<1> QED
  BY <1>5, <1>7 DEF Sound

\* After it: the step is one of those a failure would undo.
LEMMA ReportVerifiedSound ==
  ASSUME TypeOK, TypeOK', Applied, Sound, NEW s \in Steps, ReportVerified(s)
  PROVE  Sound'
<1>1. PICK outcome : Transition(memory, s, "verified", outcome)
  BY DEF ReportVerified
<1>2. /\ pc = "verify" /\ op.kind = "protect" /\ First(s, pending)
      /\ UNCHANGED <<authority, daily, ignored, state, backup, values, op, modified, failed>>
      /\ pc' \in {"compensating", "complete", "applying"}
  BY DEF ReportVerified, machine, TypeOK, Located
<1>3. UnderwayFor("protect")
  BY <1>2, ProtectBranch DEF Sound, Knows, ProtectOnly, Applying
<1>4. s \in modified /\ state.active # None
  <2>1. state.active = op.txid /\ s \in modified
    BY <1>2 DEF Applied, Applying
  <2> QED
    BY <1>3, <2>1, AtHand, NoneAssumption DEF UnderwayFor, Underway, Operations
<1>5. Knows' /\ UnderwayFor("protect")'
  BY <1>1, <1>2, <1>3, <1>4, ProtectReport DEF Sound, ProtectOnly, Applying, Phases
<1>6. \A q \in Steps : q # s => (Undone(q) => Undone(q)')
  BY <1>1, <1>2, <1>3, ReportElsewhere DEF Sound
<1>7. Undoing'
  BY <1>2, <1>3, <1>4, <1>6 DEF Sound, Undoing
<1> QED
  BY <1>5, <1>7 DEF Sound

\* Undoing starts with its own report; one that fails marks the step.
LEMMA ReportCompensatingSound ==
  ASSUME TypeOK, TypeOK', Sound, NEW s \in Steps, ReportCompensating(s)
  PROVE  Sound'
<1>1. /\ pc = "compensating" /\ Last(s, modified)
      /\ UNCHANGED <<authority, daily, ignored, state, backup, values, op, modified, failed>>
      /\ pc' \in {"rewrite", "mark"}
  BY DEF ReportCompensating, machine, Sound, Knows, SameTransaction, Underway, Unplanned
<1>2. UnderwayFor("protect")
  BY <1>1, ProtectBranch DEF Sound, Knows, ProtectOnly
<1>3. \/ \E outcome : Transition(memory, s, "compensating", outcome)
      \/ UNCHANGED <<journalFiles, memory>>
  BY DEF ReportCompensating
<1>4. Knows' /\ UnderwayFor("protect")'
  BY <1>1, <1>2, <1>3, ProtectReport DEF Sound, ProtectOnly, Phases
<1>5. \A q \in Steps : q # s => (Undone(q) => Undone(q)') /\ (Agree(q) => Agree(q)')
  BY <1>1, <1>2, <1>3, ReportElsewhere DEF Sound
<1>6. modified \subseteq Steps /\ s \in modified
  BY <1>1 DEF TypeOK, Last
<1>7. pc' = "rewrite" =>
        memory'.phase[s] = "compensating" /\ journal'.phase[s] = "compensating"
  <2>1. CASE Recovering /\ memory.phase[s] = "compensating"
    BY <1>1, <1>2, <1>6, <2>1
       DEF ReportCompensating, Recovering, Sound, Undoing, Agree, journalFiles
  <2>2. CASE ~(Recovering /\ memory.phase[s] = "compensating")
    <3>1. PICK outcome :
            /\ Transition(memory, s, "compensating", outcome)
            /\ pc' = IF outcome = "ok" THEN "rewrite" ELSE "mark"
      BY <2>2 DEF ReportCompensating
    <3> QED
      BY <1>2, <3>1, AtHand, ReportPhases, CleanupApart
         DEF Sound, Knows, Durable, UnderwayFor, Underway, JournalRead
  <2> QED
    BY <2>1, <2>2
<1>8. \A q \in modified : op.kind = "recover" =>
        (pc' = "mark" /\ Last(q, modified)) \/ Agree(q)'
  <2> SUFFICES ASSUME NEW q \in modified, op.kind = "recover"
               PROVE  (pc' = "mark" /\ Last(q, modified)) \/ Agree(q)'
    OBVIOUS
  <2>1. Agree(q)
    BY <1>1, <1>2 DEF Sound, Undoing
  <2> QED
    BY <1>1, <1>5, <1>6, <1>7, <2>1 DEF Agree
<1>9. \A q \in Steps : Last(q, modified) => q = s
  BY <1>1, <1>6, LastUnique
<1>10. Undoing'
  BY <1>1, <1>2, <1>5, <1>6, <1>7, <1>8, <1>9 DEF Sound, Undoing
<1> QED
  BY <1>4, <1>10 DEF Sound

\* Closing a step that is undone, with or without a write, takes it off the list.
LEMMA ClosingSound ==
  ASSUME TypeOK, TypeOK', Sound, UnderwayFor("protect"), NEW s \in Steps,
         pc \in {"compensating", "compensated"}, Last(s, modified), Restored(s),
         NEW outcome, Transition(memory, s, "compensated", outcome),
         IF outcome = "ok"
         THEN pc' = AfterStep(s) /\ modified' = modified \ {s}
         ELSE pc' = "mark" /\ UNCHANGED modified,
         UNCHANGED <<authority, daily, ignored, state, backup, values, op, failed>>
  PROVE  Sound'
<1>1. /\ pc' \in {"mark", "compensating", "publish_previous"}
      /\ pc' = "publish_previous" => modified' = {}
  BY DEF AfterStep
<1>2. Knows' /\ UnderwayFor("protect")'
  BY <1>1, ProtectReport DEF Sound, ProtectOnly, Phases
<1>3. \A q \in Steps : q # s => (Undone(q) => Undone(q)') /\ (Agree(q) => Agree(q)')
  BY ReportElsewhere DEF Sound
<1>4. /\ outcome = "ok" => memory'.phase[s] = "compensated" /\ journal' = memory'
      /\ modified \subseteq Steps /\ s \in modified
  BY AtHand, ReportPhases, CleanupApart
     DEF Sound, Knows, Durable, UnderwayFor, Underway, JournalRead, Last
<1>5. outcome = "ok" => Undone(s)'
  BY <1>4 DEF Undone, Closed, Restored, BackAt
<1>6. \A q \in Steps \ modified' : failed' \/ Undone(q)'
  BY <1>3, <1>4, <1>5 DEF Sound, Undoing
<1>7. \A q \in modified' : op'.kind = "recover" =>
        (pc' = "mark" /\ Last(q, modified')) \/ Agree(q)'
  <2> SUFFICES ASSUME NEW q \in modified', op.kind = "recover"
               PROVE  (pc' = "mark" /\ Last(q, modified')) \/ Agree(q)'
    OBVIOUS
  <2>1. Agree(q) /\ q \in Steps
    BY <1>4 DEF Sound, Undoing
  <2> QED
    BY <1>3, <1>4, <2>1
<1>8. Undoing'
  BY <1>1, <1>6, <1>7 DEF Undoing
<1> QED
  BY <1>2, <1>8 DEF Sound

\* A planned step has its original value: closing it is sound.
LEMMA RecoverUntouchedSound ==
  ASSUME TypeOK, TypeOK', Sound, NEW s \in Steps, RecoverUntouched(s)
  PROVE  Sound'
<1>1. UnderwayFor("protect")
  BY ProtectBranch DEF RecoverUntouched, Sound, Knows, ProtectOnly
<1>2. Restored(s)
  BY <1>1 DEF RecoverUntouched, Sound, Knows, Reversible, Truthful, Restored, BackAt
<1> QED
  BY <1>1, <1>2, ClosingSound DEF RecoverUntouched, machine

\* A step written back is closed ...
LEMMA ReportCompensatedSound ==
  ASSUME TypeOK, TypeOK', Sound, NEW s \in Steps, ReportCompensated(s)
  PROVE  Sound'
<1>1. UnderwayFor("protect")
  BY ProtectBranch DEF ReportCompensated, Sound, Knows, ProtectOnly
<1>2. Restored(s)
  BY <1>1 DEF ReportCompensated, Sound, Undoing
<1> QED
  BY <1>1, <1>2, ClosingSound DEF ReportCompensated, machine

\* ... and one that could not be is marked, and the operation remembers.
LEMMA MarkUncompensatedSound ==
  ASSUME TypeOK, TypeOK', Sound, NEW s \in Steps, MarkUncompensated(s)
  PROVE  Sound'
<1>1. /\ pc = "mark" /\ Last(s, modified)
      /\ failed' = TRUE /\ modified' = modified \ {s} /\ pc' = AfterStep(s)
      /\ UNCHANGED <<authority, daily, ignored, state, backup, values, op>>
  BY DEF MarkUncompensated, machine
<1>2. UnderwayFor("protect")
  BY <1>1, ProtectBranch DEF Sound, Knows, ProtectOnly
<1>3. \/ \E outcome : Transition(memory, s, "recovery_required", outcome)
      \/ UNCHANGED <<journalFiles, memory>>
  BY DEF MarkUncompensated
<1>4. /\ pc' \in {"compensating", "publish_previous"}
      /\ pc' = "publish_previous" => modified' = {}
  BY <1>1 DEF AfterStep
<1>5. Knows' /\ UnderwayFor("protect")'
  BY <1>1, <1>2, <1>3, <1>4, ProtectReport DEF Sound, ProtectOnly, Phases
<1>6. \A q \in Steps : q # s => (Agree(q) => Agree(q)')
  BY <1>1, <1>2, <1>3, ReportElsewhere DEF Sound
<1>7. \A q \in modified' : op'.kind = "recover" => Agree(q)'
  <2> SUFFICES ASSUME NEW q \in modified', op.kind = "recover"
               PROVE  Agree(q)'
    BY <1>1
  <2>1. q \in Steps /\ s \in Steps /\ q # s /\ q \in modified /\ modified \subseteq Steps
    BY <1>1 DEF TypeOK
  <2>2. ~Last(q, modified)
    BY <1>1, <2>1, LastUnique
  <2>3. Agree(q)
    BY <1>2, <2>1, <2>2 DEF Sound, Undoing
  <2> QED
    BY <1>6, <2>1, <2>3
<1>8. Undoing'
  BY <1>1, <1>4, <1>7 DEF Undoing
<1> QED
  BY <1>5, <1>8 DEF Sound

-----------------------------------------------------------------------------
(* The system writes of a protect and of its recovery, and its commits.    *)

\* A write touches the setting of a step that the journal shows as being worked
\* on, so whatever it leaves can be undone, even if it is cut short.
LEMMA WriteUndoable ==
  ASSUME TypeOK, TypeOK', Knows, UnderwayFor("protect"), NEW s \in Steps,
         journal.phase[s] \in {"applying", "compensating"},
         \A q \in Steps : q # s => /\ authority'[q] = authority[q]
                                   /\ q \in ignored' <=> q \in ignored,
         UNCHANGED <<daily, state, backup, values, journal, torn>>
  PROVE  Durable' /\ Undoable'
<1>1. /\ ~torn /\ Matched /\ journal.kind = "protect" /\ Undoable /\ Planned(journal)
      /\ state.target # None => backup = daily
  BY DEF Knows, Durable, SameTransaction, Reversible, UnderwayFor, Underway, Own
<1>2. Truthful(journal)'
  BY <1>1 DEF Undoable, Truthful, Restored, BackAt
<1>3. Undoable' /\ Matched' /\ Planned(journal)'
  BY <1>1, <1>2 DEF Undoable, Unverified, Matched, Planned
<1> QED
  BY <1>1, <1>3, UndoableIsDurable

\* The operation goes on with what it knew.
LEMMA WriteCompensable ==
  ASSUME TypeOK, TypeOK', Knows, UnderwayFor("protect"), NEW s \in Steps,
         journal.phase[s] \in {"applying", "compensating"},
         memory.phase[s] \in {"applying", "compensating"},
         \A q \in Steps : q # s => /\ authority'[q] = authority[q]
                                   /\ q \in ignored' <=> q \in ignored,
         UNCHANGED <<daily, state, backup, values, journal, torn, op, memory>>,
         pc' \in ProtectOnly
  PROVE  Knows' /\ UnderwayFor("protect")'
<1>1. Durable' /\ Undoable'
  BY WriteUndoable
<1>2. /\ pc' \notin Unplanned /\ pc' # "reopen" /\ pc' \notin RestoreOnly
      /\ pc \notin Unplanned /\ journal.kind = "protect"
  BY DEF ProtectOnly, Applying, Unplanned, RestoreOnly, DailySteps, Cleaning, UnderwayFor, Underway
<1>3. SameTransaction'
  BY <1>2 DEF Knows, SameTransaction, Underway, Matched, Own, Planned
<1>4. Truthful(memory)' /\ Unverified(memory)'
  BY <1>2 DEF Knows, Reversible, UnderwayFor, Underway, Truthful, Unverified, Restored, BackAt
<1>5. Reversible' /\ UnderwayFor("protect")'
  BY <1>1, <1>2, <1>4 DEF Reversible, UnderwayFor, Underway
<1>6. Starting' /\ Backed' /\ Restoring'
  BY <1>2 DEF Starting, Planning, Unplanned, Backed, Restoring, UnderwayFor, Underway
<1> QED
  BY <1>1, <1>3, <1>5, <1>6 DEF Knows

\* A step counts as modified before it is written.
LEMMA ApplyStepSound ==
  ASSUME TypeOK, TypeOK', Applied, Sound, NEW s \in Steps, ApplyStep(s)
  PROVE  Sound'
<1>1. /\ pc = "apply" /\ op.kind = "protect" /\ First(s, pending) /\ s \in pending
      /\ modified' = modified \cup {s} /\ pc' \in {"verify", "compensating"}
      /\ UNCHANGED <<daily, ignored, state, backup, values, journal, torn, op, memory, failed>>
  BY DEF ApplyStep, files, journalFiles, TypeOK, Located, First
<1>2. PICK outcome : WriteAuthority(s, op.goal[s], outcome)
  BY DEF ApplyStep
<1>3. \A q \in Steps : q # s => authority'[q] = authority[q]
  BY <1>2, WriteDoes DEF TypeOK
<1>4. UnderwayFor("protect")
  BY <1>1, ProtectBranch DEF Sound, Knows, ProtectOnly, Applying
<1>5. journal.phase[s] = "applying" /\ memory.phase[s] = "applying"
  BY <1>1 DEF Applied, Applying, AppliedPhase
<1>6. Knows' /\ UnderwayFor("protect")'
  BY <1>1, <1>3, <1>4, <1>5, WriteCompensable DEF Sound, ProtectOnly, Applying
<1>7. \A q \in Steps : q # s => (Undone(q) => Undone(q)')
  BY <1>1, <1>3 DEF Undone, Closed, Restored, BackAt
<1>8. Undoing'
  BY <1>1, <1>4, <1>7 DEF Sound, Undoing
<1> QED
  BY <1>6, <1>8 DEF Sound

\* What is written back passes for compensated only when it is, or when the denial
\* or the folded list goes unnoticed.
LEMMA RewriteOriginalSound ==
  ASSUME TypeOK, TypeOK', Sound, NEW s \in Steps, RewriteOriginal(s)
  PROVE  Sound'
<1>1. /\ pc = "rewrite" /\ Last(s, modified) /\ s \in modified
      /\ UNCHANGED <<daily, state, backup, values, journal, torn, op, memory, modified, failed>>
  BY DEF RewriteOriginal, files, journalFiles, Last
<1>2. PICK outcome \in WriteOutcomes :
        /\ WriteAuthority(s, op.original[s], outcome)
        /\ pc' = IF PassesForCompensated(outcome) THEN "compensated" ELSE "mark"
        /\ ignored' = IF outcome \in Lenient /\ ~Recovering THEN ignored \cup {s}
                      ELSE IF outcome = "done" THEN ignored \ {s} ELSE ignored
  BY DEF RewriteOriginal
<1>3. /\ \A q \in Steps : q # s => authority'[q] = authority[q]
      /\ outcome = "done" => authority'[s] = op.original[s]
      /\ outcome = "folded" => authority'[s] \in Accepted(s, op.original[s])
      /\ outcome = "denied" => s = PolicyStep
  BY <1>2, WriteDoes DEF TypeOK
<1>4. \A q \in Steps : q # s => (q \in ignored' <=> q \in ignored)
  BY <1>2
<1>5. UnderwayFor("protect")
  BY <1>1, ProtectBranch DEF Sound, Knows, ProtectOnly
<1>6. journal.phase[s] = "compensating" /\ memory.phase[s] = "compensating"
  BY <1>1, <1>5 DEF Sound, Undoing
<1>7. pc' \in {"compensated", "mark"}
  BY <1>2
<1>8. Knows' /\ UnderwayFor("protect")'
  BY <1>1, <1>3, <1>4, <1>5, <1>6, <1>7, WriteCompensable DEF Sound, ProtectOnly
<1>9. pc' = "compensated" => Restored(s)'
  <2>1. values.original = op.original
    BY <1>5 DEF Sound, Knows, SameTransaction, UnderwayFor
  <2>2. CASE outcome = "done"
    BY <1>1, <1>3, <2>1, <2>2 DEF Restored, BackAt
  <2>3. CASE outcome \in Lenient /\ ~Recovering
    <3>1. s \in ignored' /\ values'.original = op.original
      BY <1>1, <1>2, <2>1, <2>3
    <3>2. s = LanguageStep => authority'[s] \in Accepted(s, op.original[s])
      BY <1>3, <2>3, PlanAssumption DEF Lenient
    <3> QED
      BY <3>1, <3>2 DEF Restored, BackAt
  <2> QED
    BY <1>2, <2>2, <2>3 DEF PassesForCompensated
<1>10. \A q \in Steps : q # s => (Undone(q) => Undone(q)')
  BY <1>1, <1>3, <1>4 DEF Undone, Closed, Restored, BackAt
<1>11. \A q \in modified' : Agree(q) => Agree(q)'
  BY <1>1 DEF Agree
<1>12. \A q \in Steps : Last(q, modified) => q = s
  BY <1>1, LastUnique DEF TypeOK
<1>13. Undoing'
  BY <1>1, <1>5, <1>7, <1>9, <1>10, <1>11, <1>12 DEF Sound, Undoing
<1> QED
  BY <1>8, <1>13 DEF Sound

\* Once an operation is over, all there is to say is in the files.
LEMMA IdleSound ==
  ASSUME Durable', pc' = "idle"
  PROVE  Sound'
BY DEF Sound, Knows, Undoing, Starting, Planning, SameTransaction, Reversible, Backed,
       Restoring, UnderwayFor, Underway, Unplanned

\* A commit that is lost ends the operation over unchanged files.
LEMMA LostCommitSound ==
  ASSUME Sound, Return,
         UNCHANGED <<authority, daily, ignored, state, backup, values, journal, torn>>
  PROVE  Sound'
BY DurableStays, IdleSound DEF Sound, Knows, Return, Discard

\* The commit of a target: every journalled step is verified, nothing is open.
LEMMA CompleteProtectSound ==
  ASSUME TypeOK, TypeOK', Applied, Sound, CompleteProtect
  PROVE  Sound'
<1> DEFINE next == [target |-> op.target, preferred |-> op.target.region,
                    health |-> IF degraded THEN "degraded" ELSE "healthy", active |-> None]
<1>1. PICK outcome : CommitState(outcome, next)
  BY DEF CompleteProtect
<1>2. /\ pc = "complete" /\ op.kind = "protect" /\ op.target # None /\ Return /\ pc' = "idle"
      /\ UNCHANGED <<authority, daily, ignored, backup, values, journal, torn>>
  BY DEF CompleteProtect, machine, journalFiles, TypeOK, Located, Return, Discard
<1>3. CASE state' = state
  BY <1>2, <1>3, LostCommitSound
<1>4. CASE state' = next
  <2>1. UnderwayFor("protect") /\ pc \notin Unplanned
    BY <1>2, ProtectBranch DEF Sound, Knows, ProtectOnly, Applying
  <2>2. /\ ~torn /\ journal # None /\ Planned(journal)
        /\ backup = daily
    BY <2>1 DEF Sound, Knows, Durable, SameTransaction, Matched, Own, UnderwayFor,
                Reversible, Undoable
  <2>3. /\ journal = memory /\ memory.phase[Cleanup] = "absent"
        /\ \A s \in Steps : memory.phase[s] \in {"verified", "absent"}
    BY <1>2 DEF Applied, Applying, AppliedPhase
  <2>4. JournalSteps = Steps \cup {Cleanup}
    BY PlanAssumption DEF JournalSteps, Cleanup, Steps
  <2>5. IsSettled(journal)
    BY <2>3, <2>4 DEF IsSettled
  <2>6. /\ state'.active = None /\ state'.health \in {"healthy", "degraded"}
        /\ state'.target # None
    BY <1>2, <1>4
  <2>7. Health' # "recovery_required"
    BY <1>2, <2>2, <2>5, <2>6, HealthWillBe DEF InNeed
  <2>8. Clean' /\ ~Open("protect")' /\ ~Open("restore")'
    BY <2>6, <2>7 DEF Clean, Open
  <2>9. Planned(journal)'
    BY <1>2, <2>2 DEF Planned
  <2>10. Durable'
    BY <1>2, <2>2, <2>8, <2>9 DEF Durable
  <2> QED
    BY <1>2, <2>10, IdleSound
<1> QED
  BY <1>1, <1>3, <1>4 DEF CommitState

\* A protect that is undone, or marked, returns to the previous state, and its files
\* can still be read back as what they are.
LEMMA PublishUndone ==
  ASSUME TypeOK, TypeOK', Sound, UnderwayFor("protect"), PublishPrevious
  PROVE  Sound'
<1> DEFINE next == ProtectionState(op.base,
                     IF failed THEN "recovery_required" ELSE op.base.health, None)
<1>1. PICK outcome : CommitState(outcome, next)
  BY DEF PublishPrevious
<1>2. /\ pc = "publish_previous" /\ Return /\ pc' = "idle"
      /\ UNCHANGED <<authority, daily, ignored, backup, values, journal, torn>>
  BY DEF PublishPrevious, machine, journalFiles, Return, Discard
<1>3. CASE state' = state
  BY <1>2, <1>3, LostCommitSound
<1>4. CASE state' = next
  <2>1. /\ ~torn /\ Matched /\ journal.kind = "protect" /\ Planned(journal) /\ Undoable
        /\ journal.previous = op.base /\ state.target = op.base.target
        /\ state.target # None => backup = daily
    BY DEF UnderwayFor, Sound, Knows, Durable, SameTransaction, Own, Reversible, Undoable
  <2>2. /\ state'.target = op.base.target /\ state'.active = None
        /\ state'.health = IF failed THEN "recovery_required" ELSE op.base.health
    BY <1>4 DEF ProtectionState
  <2>3. ~failed => \A s \in Steps : journal.phase[s] # "verified"
    BY <1>2 DEF UnderwayFor, Sound, Undoing, Undone, Closed
  <2>4. Unverified(journal)'
    BY <1>2, <2>2, <2>3 DEF Unverified
  <2>5. Truthful(journal)'
    BY <1>2, <2>1 DEF Undoable, Truthful, Restored, BackAt
  <2>6. Undoable'
    BY <1>2, <2>1, <2>2, <2>4, <2>5 DEF Undoable
  <2>7. Matched' /\ Planned(journal)'
    BY <1>2, <2>1 DEF Matched, Planned
  <2> HIDE DEF next
  <2>8. Durable'
    BY <1>2, <2>1, <2>2, <2>6, <2>7, UndoableIsDurable
  <2> QED
    BY <1>2, <2>8, IdleSound
<1> QED
  BY <1>1, <1>3, <1>4 DEF CommitState

\* A restore comes to its previous state only when something failed, and its backup
\* is still there.
LEMMA PublishUnrestored ==
  ASSUME TypeOK, TypeOK', Sound, UnderwayFor("restore"), PublishPrevious
  PROVE  Sound'
<1> DEFINE next == ProtectionState(op.base,
                     IF failed THEN "recovery_required" ELSE op.base.health, None)
<1>1. PICK outcome : CommitState(outcome, next)
  BY DEF PublishPrevious
<1>2. /\ pc = "publish_previous" /\ Return /\ pc' = "idle"
      /\ UNCHANGED <<authority, daily, ignored, backup, values, journal, torn>>
  BY DEF PublishPrevious, machine, journalFiles, Return, Discard
<1>3. CASE state' = state
  BY <1>2, <1>3, LostCommitSound
<1>4. CASE state' = next
  <2>1. /\ ~torn /\ Matched /\ journal.kind = "restore" /\ Planned(journal)
        /\ journal.previous = op.base
    BY DEF UnderwayFor, Sound, Knows, Durable, SameTransaction, Own
  <2>2. backup = daily
    BY <1>2 DEF UnderwayFor, Sound, Knows, Backed, Cleaning
  <2>3. state'.target # None
    BY <1>4, <2>1 DEF ProtectionState, Planned
  <2>4. Bringable'
    <3>1. backup' = daily' /\ backup' # None
      BY <1>2, <2>2, NoneAssumption DEF TypeOK
    <3> QED
      BY <2>3, <3>1 DEF Bringable
  <2>5. Matched' /\ Planned(journal)'
    BY <1>2, <2>1 DEF Matched, Planned
  <2> HIDE DEF next
  <2>6. Durable'
    BY <1>2, <2>1, <2>4, <2>5, BringableIsDurable
  <2> QED
    BY <1>2, <2>6, IdleSound
<1> QED
  BY <1>1, <1>3, <1>4 DEF CommitState

\* Every journal is of one of the two kinds.
LEMMA TwoKinds ==
  ASSUME TypeOK, SameTransaction, Underway
  PROVE  UnderwayFor("protect") \/ UnderwayFor("restore")
BY DEF TypeOK, SameTransaction, Matched, UnderwayFor, Journals, Underway

\* The previous state again.
LEMMA PublishPreviousSound ==
  ASSUME TypeOK, TypeOK', Sound, PublishPrevious
  PROVE  Sound'
<1>1. Underway
  BY DEF PublishPrevious, Underway, Unplanned
<1> QED
  BY <1>1, TwoKinds, PublishUndone, PublishUnrestored DEF Sound, Knows

-----------------------------------------------------------------------------
(* A restore and its recovery.                                             *)

\* A restore is on the way at the locations only restore and its recovery have.
LEMMA RestoreBranch ==
  ASSUME SameTransaction, pc \in RestoreOnly
  PROVE  UnderwayFor("restore") /\ pc \notin Unplanned
BY DEF SameTransaction, UnderwayFor, Underway, RestoreOnly, DailySteps, Cleaning, Unplanned

\* What the restore under way knows makes its files bring it to its end.
LEMMA BackedIsBringable ==
  ASSUME TypeOK, SameTransaction, Backed, Restoring, UnderwayFor("restore")
  PROVE  Bringable
<1>1. backup = None => pc \in Cleaning
  BY NoneAssumption DEF Backed, UnderwayFor, TypeOK
<1>2. state.target = None => state.active # None
  BY AtHand, NoneAssumption DEF Backed, UnderwayFor, Underway, Operations
<1> QED
  BY <1>1, <1>2 DEF Backed, Restoring, Bringable, UnderwayFor

\* A report of a restore keeps a transaction that can be brought to its end.  Only
\* the cleanup is reported on without the backup.
LEMMA RestoreReport ==
  ASSUME TypeOK, TypeOK', Sound, UnderwayFor("restore"),
         NEW m \in {memory, journal}, NEW s \in JournalSteps, NEW p \in Phases,
         \/ \E outcome : Transition(m, s, p, outcome)
         \/ UNCHANGED journalFiles /\ memory' \in {memory, journal},
         backup = None => s = Cleanup /\ m = journal,
         pc' \in RestoreOnly \cup {"publish_previous"},
         UNCHANGED <<authority, daily, ignored, state, backup, values, op>>
  PROVE  /\ Durable' /\ Starting' /\ SameTransaction' /\ Reversible' /\ Undoing'
         /\ UnderwayFor("restore")'
<1> DEFINE Good(j) == Own(j) /\ j.kind = "restore"
<1>1. /\ ~torn /\ Matched /\ values.original = op.original
      /\ journal \in Journals(Nat) /\ memory \in Journals(Nat)
      /\ Good(journal) /\ Good(memory)
      /\ op.kind # "recover" => op.kind = "restore"
      /\ ~op.doubtful
  BY AtHand DEF Sound, Knows, Durable, SameTransaction, UnderwayFor, Underway, JournalRead
<1>2. PICK next : next = [m EXCEPT !.phase[s] = p]
  OBVIOUS
<1>3. /\ next.txid = m.txid /\ next.kind = m.kind /\ next.previous = m.previous
      /\ \A q \in JournalSteps : q # s => next.phase[q] = m.phase[q]
      /\ next # None
  BY <1>1, <1>2, NextReads, PhaseChangeType, NoneAssumption
<1>4. Good(next)
  BY <1>1, <1>3 DEF Own, Planned
<1>5. ~torn' /\ journal' \in {journal, next} /\ memory' \in {memory, journal, next}
  <2>1. CASE \E outcome : Transition(m, s, p, outcome)
    BY <1>1, <1>2, <2>1, TransitionReports
  <2>2. CASE UNCHANGED journalFiles /\ memory' \in {memory, journal}
    BY <1>1, <2>2 DEF journalFiles
  <2> QED
    BY <2>1, <2>2
<1>6. /\ Good(journal') /\ Good(memory')
      /\ journal' # None
  BY <1>1, <1>3, <1>4, <1>5 DEF Matched
<1>7. Own(journal)' /\ Own(memory)' /\ Matched'
  BY <1>1, <1>6 DEF Own, Planned, Matched
<1>8. Bringable'
  <2>1. Bringable
    BY BackedIsBringable DEF Sound, Knows
  <2>2. backup = None => AllVerified(journal')
    BY <1>3, <1>5, <2>1, CleanupApart DEF Bringable, AllVerified
  <2>3. backup = None => AllVerified(journal)'
    BY <2>2 DEF AllVerified
  <2> QED
    BY <2>1, <2>3 DEF Bringable
<1>9. Durable'
  BY <1>5, <1>6, <1>7, <1>8, BringableIsDurable DEF Own
<1>10. pc' \notin Unplanned /\ pc' # "reopen" /\ pc' \notin ProtectOnly
  BY DEF ProtectOnly, Applying, Unplanned, RestoreOnly, DailySteps, Cleaning
<1>11. SameTransaction'
  BY <1>1, <1>6, <1>7, <1>10 DEF SameTransaction
<1>12. Starting' /\ Reversible' /\ Undoing' /\ UnderwayFor("restore")'
  BY <1>6, <1>10 DEF Starting, Planning, Unplanned, Reversible, Undoing, UnderwayFor, Underway
<1> QED
  BY <1>9, <1>11, <1>12

\* A report on s says nothing of the other settings.
LEMMA DailyElsewhere ==
  ASSUME TypeOK, Sound, UnderwayFor("restore"), NEW s \in Steps, NEW p,
         \/ \E outcome : Transition(memory, s, p, outcome)
         \/ UNCHANGED <<journalFiles, memory>>,
         UNCHANGED <<authority, daily>>
  PROVE  \A q \in Steps : q # s =>
           /\ Home(q) => Home(q)'
           /\ Agree(q) => Agree(q)'
<1> SUFFICES ASSUME NEW q \in Steps, q # s
             PROVE  (Home(q) => Home(q)') /\ (Agree(q) => Agree(q)')
  OBVIOUS
<1>1. ~torn /\ journal \in Journals(Nat) /\ memory \in Journals(Nat)
  BY AtHand DEF Sound, Knows, Durable, UnderwayFor, Underway, JournalRead
<1>2. /\ memory'.phase[q] = memory.phase[q]
      /\ journal'.phase[q] \in {journal.phase[q], memory.phase[q]}
  <2>1. CASE \E outcome : Transition(memory, s, p, outcome)
    BY <1>1, <2>1, ReportPhases, CleanupApart
  <2>2. CASE UNCHANGED <<journalFiles, memory>>
    BY <2>2 DEF journalFiles
  <2> QED
    BY <2>1, <2>2
<1> QED
  BY <1>2 DEF Home, Agree

\* A restore with settings to bring back has the backup it started with.
LEMMA DailyStepKnows ==
  ASSUME TypeOK, Sound, pc \in DailySteps
  PROVE  /\ UnderwayFor("restore") /\ pc \notin Unplanned
         /\ backup = daily /\ op.goal = daily /\ backup # None
         /\ state.target = None => state.active = op.txid
         /\ ~torn /\ pending \subseteq Steps
<1>1. UnderwayFor("restore") /\ pc \notin Unplanned
  BY RestoreBranch DEF Sound, Knows, RestoreOnly
<1>2. backup = daily /\ op.goal = daily
  BY <1>1 DEF Sound, Knows, Backed, DailySteps, Cleaning
<1> QED
  BY <1>1, <1>2, NoneAssumption DEF Sound, Knows, Backed, Durable, UnderwayFor, TypeOK

\* The step under work leaves the list, brought back or failed; after the last one
\* nothing but settings that are back, or a failure, is left.
LEMMA DailyGoesOn ==
  ASSUME TypeOK, TypeOK', Sound, pc \in DailySteps, NEW s \in Steps, First(s, pending),
         NEW p \in Phases,
         \/ \E outcome : Transition(memory, s, p, outcome)
         \/ UNCHANGED <<journalFiles, memory>>,
         failed' \/ Home(s)', failed => failed',
         pending' = pending \ {s}, pc' = AfterDailyStep(s, failed'),
         UNCHANGED <<authority, daily, ignored, state, backup, values, op>>
  PROVE  Sound'
<1>1. /\ UnderwayFor("restore") /\ backup = daily /\ op.goal = daily /\ backup # None
      /\ state.target = None => state.active = op.txid
      /\ pending \subseteq Steps
  BY DailyStepKnows
<1>2. failed' \in BOOLEAN
  BY DEF TypeOK
<1>3. /\ pc' \in {"daily_begin", "publish_previous", "publish_daily", "cleanup_begin"}
      /\ pc' # "daily_begin" => pending' = {}
      /\ pc' = "publish_previous" => failed'
      /\ pc' \in {"publish_daily", "cleanup_begin"} => ~failed'
      /\ pc' = "cleanup_begin" => state.target = None
  BY <1>2 DEF AfterDailyStep, AfterDaily
<1>4. /\ Durable' /\ Starting' /\ SameTransaction' /\ Reversible' /\ Undoing'
      /\ UnderwayFor("restore")'
  BY <1>1, <1>3, CleanupApart, RestoreReport DEF RestoreOnly, DailySteps, Cleaning, journalFiles
<1>5. Backed'
  BY <1>1, <1>3 DEF Backed, Cleaning
<1>6. \A q \in Steps : q # s => (Home(q) => Home(q)') /\ (Agree(q) => Agree(q)')
  BY <1>1, DailyElsewhere
<1>7. \A q \in pending' : Agree(q)'
  <2> SUFFICES ASSUME NEW q \in pending' PROVE Agree(q)'
    OBVIOUS
  <2>1. q \in Steps /\ q # s /\ q \in pending
    BY <1>1
  <2>2. ~First(q, pending)
    BY <1>1, <2>1, FirstUnique
  <2>3. Agree(q)
    BY <1>1, <2>1, <2>2 DEF Sound, Knows, Restoring
  <2> QED
    BY <1>6, <2>1, <2>3
<1>8. \A q \in Steps \ pending' : failed' \/ Home(q)'
  BY <1>1, <1>6 DEF Sound, Knows, Restoring
<1>9. pc' \in {"publish_daily", "cleanup_begin"} => authority' = daily' /\ AllVerified(journal)'
  <2> SUFFICES ASSUME pc' \in {"publish_daily", "cleanup_begin"}
               PROVE  authority' = daily' /\ AllVerified(journal)'
    OBVIOUS
  <2>1. \A q \in Steps : authority'[q] = daily'[q] /\ journal'.phase[q] = "verified"
    BY <1>3, <1>8 DEF Home
  <2>2. authority' = daily'
    BY <2>1 DEF TypeOK, Settings
  <2> QED
    BY <2>1, <2>2 DEF AllVerified
<1>10. Restoring'
  BY <1>3, <1>7, <1>8, <1>9 DEF Restoring, DailySteps, Cleaning
<1> QED
  BY <1>4, <1>5, <1>10 DEF Sound, Knows

\* The step under work stays under work.
LEMMA DailyStays ==
  ASSUME TypeOK, TypeOK', Sound, pc \in {"daily_begin", "daily_verify"}, NEW s \in Steps,
         First(s, pending), NEW p \in Phases,
         \/ \E outcome : Transition(memory, s, p, outcome)
         \/ UNCHANGED <<journalFiles, memory>>,
         pc' = "daily_mark" \/ (pc' = "daily_write" /\ Agree(s)'),
         UNCHANGED <<authority, daily, ignored, state, backup, values, op, pending, failed>>
  PROVE  Sound'
<1>1. /\ UnderwayFor("restore") /\ backup = daily /\ op.goal = daily /\ backup # None
      /\ state.target = None => state.active = op.txid
      /\ pending \subseteq Steps
  BY DailyStepKnows DEF DailySteps
<1>2. pc' \in DailySteps /\ pc' \notin Cleaning \cup {"publish_previous", "daily_verify"}
  BY DEF DailySteps, Cleaning
<1>3. /\ Durable' /\ Starting' /\ SameTransaction' /\ Reversible' /\ Undoing'
      /\ UnderwayFor("restore")'
  BY <1>1, <1>2, CleanupApart, RestoreReport DEF RestoreOnly, journalFiles
<1>4. Backed'
  BY <1>1, <1>2 DEF Backed
<1>5. \A q \in Steps : q # s => (Home(q) => Home(q)') /\ (Agree(q) => Agree(q)')
  BY <1>1, DailyElsewhere
<1>6. \A q \in pending : Agree(q)
  BY <1>1 DEF Sound, Knows, Restoring, DailySteps
<1>7. \A q \in pending' : (pc' = "daily_mark" /\ First(q, pending')) \/ Agree(q)'
  BY <1>1, <1>5, <1>6 DEF First
<1>8. \A q \in Steps \ pending' : failed' \/ Home(q)'
  BY <1>1, <1>5 DEF Sound, Knows, Restoring, DailySteps, First
<1>9. Restoring'
  BY <1>2, <1>7, <1>8 DEF Restoring, DailySteps, Cleaning
<1> QED
  BY <1>3, <1>4, <1>9 DEF Sound, Knows

\* Opening a step of a restore, or giving it up.
LEMMA BeginDailyStepSound ==
  ASSUME TypeOK, TypeOK', Sound, NEW s \in Steps, BeginDailyStep(s)
  PROVE  Sound'
<1>1. /\ pc = "daily_begin" /\ pc \in DailySteps /\ First(s, pending) /\ s \in pending
      /\ UNCHANGED <<authority, daily, ignored, state, backup, values, op>>
  BY DEF BeginDailyStep, machine, DailySteps, First
<1>2. CASE /\ failed' = TRUE /\ pending' = pending \ {s} /\ pc' = AfterDailyStep(s, TRUE)
           /\ UNCHANGED <<journalFiles, memory>>
  BY <1>1, <1>2, DailyGoesOn, PhaseNames
<1>3. CASE pc' = "daily_write" /\ UNCHANGED <<journalFiles, memory, failed, pending>>
  <2>1. Agree(s)'
    <3>1. UnderwayFor("restore")
      BY <1>1, DailyStepKnows
    <3>2. Agree(s)
      BY <1>1, <3>1 DEF Sound, Knows, Restoring
    <3> QED
      BY <1>3, <3>2 DEF Agree, journalFiles
  <2> QED
    BY <1>1, <1>3, <2>1, DailyStays, PhaseNames
<1>4. CASE /\ \E outcome : /\ Transition(memory, s, "applying", outcome)
                           /\ pc' = IF outcome = "ok" THEN "daily_write" ELSE "daily_mark"
           /\ UNCHANGED <<failed, pending>>
  <2>1. PICK outcome : /\ Transition(memory, s, "applying", outcome)
                       /\ pc' = IF outcome = "ok" THEN "daily_write" ELSE "daily_mark"
    BY <1>4
  <2>2. outcome = "ok" => Agree(s)'
    BY <1>1, <2>1, DailyStepKnows, AtHand, ReportPhases, CleanupApart DEF Agree, JournalRead
  <2> QED
    BY <1>1, <1>4, <2>1, <2>2, DailyStays, PhaseNames
<1> QED
  BY <1>2, <1>3, <1>4 DEF BeginDailyStep

\* A step verified is back at its daily value.
LEMMA ReportDailyVerifiedSound ==
  ASSUME TypeOK, TypeOK', Sound, NEW s \in Steps, ReportDailyVerified(s)
  PROVE  Sound'
<1>1. /\ pc = "daily_verify" /\ pc \in DailySteps /\ First(s, pending) /\ s \in pending
      /\ UNCHANGED <<authority, daily, ignored, state, backup, values, op, failed>>
  BY DEF ReportDailyVerified, machine, DailySteps, First
<1>2. UnderwayFor("restore") /\ pc \notin Unplanned /\ ~torn
  BY <1>1, DailyStepKnows
<1>3. authority[s] = daily[s] /\ Agree(s)
  BY <1>1, <1>2 DEF Sound, Knows, Restoring
<1>4. failed => failed'
  BY <1>1
<1>5. CASE /\ memory.phase[s] = "verified" /\ pending' = pending \ {s}
           /\ pc' = AfterDailyStep(s, failed) /\ UNCHANGED <<journalFiles, memory>>
  <2>1. Home(s)'
    BY <1>1, <1>3, <1>5 DEF Home, Agree, journalFiles
  <2>2. pc' = AfterDailyStep(s, failed')
    BY <1>1, <1>5
  <2> QED
    BY <1>1, <1>4, <1>5, <2>1, <2>2, DailyGoesOn, PhaseNames
<1>6. ASSUME NEW outcome, Transition(memory, s, "verified", outcome),
             IF outcome = "ok"
             THEN pending' = pending \ {s} /\ pc' = AfterDailyStep(s, failed)
             ELSE pc' = "daily_mark" /\ UNCHANGED pending
      PROVE  Sound'
  <2>1. CASE outcome = "ok"
    <3>1. memory'.phase[s] = "verified" /\ journal' = memory'
      BY <1>2, <1>6, <2>1, AtHand, ReportPhases, CleanupApart DEF JournalRead
    <3>2. Home(s)'
      BY <1>1, <1>3, <3>1 DEF Home
    <3>3. pc' = AfterDailyStep(s, failed')
      BY <1>1, <1>6, <2>1
    <3> QED
      BY <1>1, <1>4, <1>6, <2>1, <3>2, <3>3, DailyGoesOn, PhaseNames
  <2>2. CASE outcome # "ok"
    BY <1>1, <1>6, <2>2, DailyStays, PhaseNames
  <2> QED
    BY <2>1, <2>2
<1> QED
  BY <1>5, <1>6 DEF ReportDailyVerified

\* A failed step is remembered.
LEMMA MarkDailyFailedSound ==
  ASSUME TypeOK, TypeOK', Sound, NEW s \in Steps, MarkDailyFailed(s)
  PROVE  Sound'
<1>1. /\ pc \in DailySteps /\ First(s, pending)
      /\ failed' = TRUE /\ pending' = pending \ {s} /\ pc' = AfterDailyStep(s, TRUE)
      /\ UNCHANGED <<authority, daily, ignored, state, backup, values, op>>
  BY DEF MarkDailyFailed, machine, DailySteps
<1>2. \/ \E outcome : Transition(memory, s, "recovery_required", outcome)
      \/ UNCHANGED <<journalFiles, memory>>
  BY DEF MarkDailyFailed
<1> QED
  BY <1>1, <1>2, DailyGoesOn, PhaseNames

\* Bringing a setting back, whatever the write leaves: the backup is still there.
LEMMA WriteDailySound ==
  ASSUME TypeOK, TypeOK', Sound, NEW s \in Steps, WriteDaily(s)
  PROVE  Sound'
<1>1. /\ pc = "daily_write" /\ pc \in DailySteps /\ First(s, pending) /\ s \in pending
      /\ UNCHANGED <<daily, state, backup, values, journal, torn, op, memory, pending, failed>>
      /\ pc' \in {"daily_verify", "daily_mark"}
  BY DEF WriteDaily, files, journalFiles, DailySteps, First
<1>2. /\ UnderwayFor("restore") /\ backup = daily /\ op.goal = daily /\ backup # None
      /\ state.target = None => state.active = op.txid
      /\ ~torn /\ pending \subseteq Steps
  BY <1>1, DailyStepKnows
<1>3. /\ \A q \in Steps : q # s => authority'[q] = authority[q]
      /\ pc' = "daily_verify" => authority'[s] = daily'[s]
  <2>1. CASE Recovering /\ authority[s] = op.goal[s]
    BY <1>1, <1>2, <2>1 DEF WriteDaily
  <2>2. CASE ~(Recovering /\ authority[s] = op.goal[s])
    <3>1. PICK outcome :
            /\ WriteAuthority(s, op.goal[s], outcome)
            /\ pc' = IF outcome = "done" THEN "daily_verify" ELSE "daily_mark"
      BY <2>2 DEF WriteDaily
    <3> QED
      BY <1>1, <1>2, <3>1, WriteDoes DEF TypeOK
  <2> QED
    BY <2>1, <2>2
<1>4. /\ Matched' /\ Planned(journal)' /\ journal'.kind = "restore"
      /\ Own(journal)' /\ Own(memory)'
  BY <1>1, <1>2 DEF Sound, Knows, SameTransaction, UnderwayFor, Matched, Own, Planned
<1>5. Bringable'
  <2>1. Bringable
    BY <1>2, BackedIsBringable DEF Sound, Knows
  <2> QED
    BY <1>1, <1>2, <2>1 DEF Bringable
<1>6. Durable'
  BY <1>1, <1>2, <1>4, <1>5, BringableIsDurable
<1>7. /\ pc' \notin Unplanned \cup ProtectOnly \cup {"reopen"}
      /\ pc' \in DailySteps /\ pc' \notin Cleaning \cup {"publish_previous"}
  BY <1>1 DEF Unplanned, ProtectOnly, Applying, DailySteps, Cleaning
<1>8. SameTransaction'
  BY <1>1, <1>2, <1>4, <1>7 DEF Sound, Knows, SameTransaction, UnderwayFor
<1>9. Starting' /\ Reversible' /\ Undoing'
  BY <1>4, <1>7 DEF Starting, Planning, Unplanned, Reversible, Undoing, UnderwayFor, Underway
<1>10. Backed'
  BY <1>1, <1>2, <1>7 DEF Backed
<1>11. \A q \in pending : Agree(q)
  BY <1>1, <1>2 DEF Sound, Knows, Restoring
<1>12. \A q \in pending' : Agree(q)'
  BY <1>1, <1>11 DEF Agree
<1>13. \A q \in Steps \ pending' : failed' \/ Home(q)'
  BY <1>1, <1>2, <1>3 DEF Sound, Knows, Restoring, Home
<1>14. \A q \in Steps : First(q, pending') => q = s
  BY <1>1, <1>2, FirstUnique
<1>15. Restoring'
  BY <1>1, <1>3, <1>7, <1>12, <1>13, <1>14 DEF Restoring, DailySteps, Cleaning
<1> QED
  BY <1>6, <1>8, <1>9, <1>10, <1>15 DEF Sound, Knows

-----------------------------------------------------------------------------
(* Publishing daily, and the cleanup of the backup.                        *)

\* Once everything is back the backup is only cleaned up.
LEMMA CleaningKnows ==
  ASSUME TypeOK, Sound, pc \in Cleaning \cup {"publish_daily"}
  PROVE  /\ UnderwayFor("restore") /\ pc \notin Unplanned
         /\ authority = daily /\ AllVerified(journal)
         /\ backup \in {None, daily} /\ ~torn /\ Matched
         /\ Own(journal) /\ op \in Operations /\ journal \in Journals(Nat)
         /\ pc # "publish_daily" => state.target = None /\ state.active = op.txid
<1>1. UnderwayFor("restore") /\ pc \notin Unplanned
  BY RestoreBranch DEF Sound, Knows, RestoreOnly
<1>2. pc \in Cleaning => state.target = None /\ state.active = op.txid
  BY <1>1 DEF Sound, Knows, Backed
<1> QED
  BY <1>1, <1>2, AtHand
     DEF Sound, Knows, Backed, Restoring, Durable, SameTransaction, UnderwayFor, JournalRead

\* A commit of a daily state that names the transaction leaves it open, and it can
\* be brought to its end.
LEMMA DailyCommit ==
  ASSUME TypeOK, TypeOK', Sound, pc \in Cleaning \cup {"publish_daily"},
         state'.target = None, state'.active = op.txid,
         UNCHANGED <<authority, daily, ignored, backup, values, journal, torn>>
  PROVE  Durable'
<1>1. /\ UnderwayFor("restore") /\ authority = daily /\ AllVerified(journal)
      /\ backup \in {None, daily} /\ ~torn /\ Matched /\ Own(journal) /\ op \in Operations
  BY CleaningKnows
<1>2. state'.active # None
  BY <1>1, NoneAssumption DEF Operations
<1>3. Bringable'
  BY <1>1, <1>2 DEF Bringable, AllVerified
<1>4. Matched' /\ Planned(journal)' /\ journal'.kind = "restore"
  BY <1>1 DEF Matched, Own, Planned, UnderwayFor
<1> QED
  BY <1>1, <1>3, <1>4, BringableIsDurable

\* Daily is published over settings that are all back.
LEMMA PublishDailySound ==
  ASSUME TypeOK, TypeOK', Sound, PublishDaily
  PROVE  Sound'
<1> DEFINE next == DailyState(op.base.preferred, "healthy", op.txid)
<1>1. PICK outcome : CommitState(outcome, next) /\ ContinueIf(outcome, "cleanup_begin")
  BY DEF PublishDaily
<1>2. /\ pc = "publish_daily"
      /\ UNCHANGED <<authority, daily, ignored, backup, values, journal, torn>>
  BY DEF PublishDaily, machine, journalFiles
<1>3. CASE state' = state /\ outcome # "ok"
  BY <1>1, <1>2, <1>3, LostCommitSound DEF ContinueIf
<1>4. CASE state' = next
  <2>1. state'.target = None /\ state'.active = op.txid
    BY <1>4 DEF DailyState
  <2> HIDE DEF next
  <2>2. Durable'
    BY <1>2, <2>1, DailyCommit
  <2>3. CASE outcome # "ok"
    BY <1>1, <2>2, <2>3, IdleSound DEF ContinueIf, Return, Discard
  <2>4. CASE outcome = "ok"
    <3>1. pc' = "cleanup_begin" /\ UNCHANGED <<op, memory, pending, modified, failed>>
      BY <1>1, <2>4 DEF ContinueIf
    <3>2. /\ UnderwayFor("restore") /\ pc \notin Unplanned
          /\ authority = daily /\ AllVerified(journal) /\ backup \in {None, daily}
      BY <1>2, CleaningKnows
    <3>3. pc' \notin Unplanned \cup ProtectOnly \cup {"reopen"} /\ pc' \in Cleaning
      BY <3>1 DEF Unplanned, ProtectOnly, Applying, Cleaning
    <3>4. SameTransaction' /\ UnderwayFor("restore")'
      BY <1>2, <3>1, <3>2, <3>3
         DEF Sound, Knows, SameTransaction, UnderwayFor, Underway, Matched, Own, Planned
    <3>5. Starting' /\ Reversible' /\ Undoing'
      BY <3>3, <3>4 DEF Starting, Planning, Unplanned, Reversible, Undoing, UnderwayFor
    <3>6. Backed' /\ Restoring'
      BY <1>2, <2>1, <3>1, <3>2 DEF Backed, Restoring, Cleaning, DailySteps, AllVerified
    <3> QED
      BY <2>2, <3>4, <3>5, <3>6 DEF Sound, Knows
  <2> QED
    BY <2>3, <2>4
<1> QED
  BY <1>1, <1>3, <1>4 DEF CommitState

\* A report on the cleanup keeps every setting verified.
LEMMA CleanupReport ==
  ASSUME TypeOK, TypeOK', Sound, pc \in Cleaning, NEW p \in Phases,
         \/ \E outcome : Transition(journal, Cleanup, p, outcome)
         \/ UNCHANGED journalFiles /\ memory' \in {memory, journal},
         pc' \in Cleaning, pc' = "complete_daily" => journal'.phase[Cleanup] = "verified",
         UNCHANGED <<authority, daily, ignored, state, backup, values, op>>
  PROVE  Sound'
<1>1. /\ UnderwayFor("restore") /\ pc \notin Unplanned
      /\ authority = daily /\ AllVerified(journal) /\ backup \in {None, daily}
      /\ state.target = None /\ state.active = op.txid /\ ~torn
      /\ journal \in Journals(Nat)
  BY CleaningKnows DEF Cleaning
<1>2. /\ Durable' /\ Starting' /\ SameTransaction' /\ Reversible' /\ Undoing'
      /\ UnderwayFor("restore")'
  BY <1>1, CleanupApart, RestoreReport DEF RestoreOnly
<1>3. AllVerified(journal)'
  <2>1. CASE \E outcome : Transition(journal, Cleanup, p, outcome)
    BY <1>1, <2>1, ReportPhases, CleanupApart DEF AllVerified
  <2>2. CASE UNCHANGED journalFiles
    BY <1>1, <2>2 DEF AllVerified, journalFiles
  <2> QED
    BY <2>1, <2>2
<1>4. Backed' /\ Restoring'
  BY <1>1, <1>3 DEF Backed, Restoring, Cleaning, DailySteps
<1> QED
  BY <1>2, <1>4 DEF Sound, Knows

\* Opening the cleanup, verifying and marking it.
LEMMA CleanupReportsSound ==
  ASSUME TypeOK, TypeOK', Sound, BeginCleanup \/ VerifyCleanup \/ MarkCleanupFailed
  PROVE  Sound'
<1>1. /\ pc \in Cleaning /\ pc' \in Cleaning
      /\ UNCHANGED <<authority, daily, ignored, state, backup, values, op>>
  BY DEF BeginCleanup, VerifyCleanup, MarkCleanupFailed, Cleaning, machine
<1>2. ~torn /\ journal \in Journals(Nat) /\ JournalRead = journal
  BY <1>1, CleaningKnows DEF JournalRead
<1>3. CASE BeginCleanup
  <2>1. CASE UNCHANGED journalFiles
    BY <1>1, <1>2, <1>3, <2>1, CleanupReport, PhaseNames
       DEF BeginCleanup, CleanupPhase, journalFiles
  <2>2. CASE \E outcome : /\ Transition(JournalRead, Cleanup, "applying", outcome)
                          /\ pc' = IF outcome = "ok" THEN "cleanup_delete" ELSE "cleanup_mark"
    <3>1. pc' # "complete_daily"
      BY <2>2
    <3> QED
      BY <1>1, <1>2, <2>2, <3>1, CleanupReport, PhaseNames
  <2> QED
    BY <1>3, <2>1, <2>2 DEF BeginCleanup
<1>4. CASE VerifyCleanup
  <2>1. CASE CleanupPhase = "verified" /\ memory' = JournalRead /\ UNCHANGED journalFiles
    BY <1>1, <1>2, <2>1, CleanupReport, PhaseNames DEF CleanupPhase, journalFiles
  <2>2. CASE \E outcome : /\ Transition(JournalRead, Cleanup, "verified", outcome)
                          /\ pc' = IF outcome = "ok" THEN "complete_daily" ELSE "cleanup_mark"
    <3>1. PICK outcome : /\ Transition(journal, Cleanup, "verified", outcome)
                         /\ pc' = IF outcome = "ok" THEN "complete_daily" ELSE "cleanup_mark"
      BY <1>2, <2>2
    <3>2. outcome = "ok" => journal'.phase[Cleanup] = "verified"
      BY <1>2, <3>1, ReportPhases, CleanupApart
    <3> QED
      BY <1>1, <3>1, <3>2, CleanupReport, PhaseNames
  <2> QED
    BY <1>4, <2>1, <2>2 DEF VerifyCleanup
<1>5. CASE MarkCleanupFailed
  <2>1. pc' # "complete_daily"
    BY <1>5 DEF MarkCleanupFailed
  <2>2. \/ \E outcome : Transition(journal, Cleanup, "recovery_required", outcome)
        \/ UNCHANGED journalFiles /\ memory' \in {memory, journal}
    BY <1>2, <1>5 DEF MarkCleanupFailed
  <2> QED
    BY <1>1, <2>1, <2>2, CleanupReport, PhaseNames
<1> QED
  BY <1>3, <1>4, <1>5

\* The backup goes when nothing needs it any more.
LEMMA DeleteDailySnapshotSound ==
  ASSUME TypeOK, TypeOK', Sound, DeleteDailySnapshot
  PROVE  Sound'
<1>1. /\ pc = "cleanup_delete" /\ pc' \in {"cleanup_verify", "cleanup_mark"}
      /\ backup' \in {backup, None}
      /\ UNCHANGED <<authority, daily, ignored, state, values, journal, torn,
                     op, memory, pending, modified, failed>>
  BY DEF DeleteDailySnapshot, machine, journalFiles, locals
<1>2. /\ UnderwayFor("restore") /\ pc \notin Unplanned
      /\ authority = daily /\ AllVerified(journal) /\ backup \in {None, daily}
      /\ state.target = None /\ state.active = op.txid /\ ~torn /\ Matched
      /\ Own(journal) /\ op \in Operations
  BY <1>1, CleaningKnows DEF Cleaning
<1>3. /\ pc' \notin Unplanned \cup ProtectOnly \cup {"reopen"}
      /\ pc' \in Cleaning /\ pc' # "complete_daily"
  BY <1>1 DEF Unplanned, ProtectOnly, Applying, Cleaning
<1>4. Bringable'
  <2>1. state.active # None
    BY <1>2, NoneAssumption DEF Operations
  <2> QED
    BY <1>1, <1>2, <2>1 DEF Bringable, AllVerified
<1>5. SameTransaction' /\ UnderwayFor("restore")'
  BY <1>1, <1>2, <1>3
     DEF Sound, Knows, SameTransaction, UnderwayFor, Underway, Matched, Own, Planned
<1>6. Matched' /\ Planned(journal)' /\ journal'.kind = "restore"
  BY <1>1, <1>2 DEF Matched, Own, Planned, UnderwayFor
<1>7. Durable'
  BY <1>1, <1>2, <1>4, <1>6, BringableIsDurable
<1>8. Starting' /\ Reversible' /\ Undoing'
  BY <1>3, <1>5 DEF Starting, Planning, Unplanned, Reversible, Undoing, UnderwayFor
<1>9. Backed' /\ Restoring'
  BY <1>1, <1>2, <1>3 DEF Backed, Restoring, Cleaning, DailySteps, AllVerified
<1> QED
  BY <1>5, <1>7, <1>8, <1>9 DEF Sound, Knows

\* A cleanup that failed stays open ...
LEMMA FailCleanupSound ==
  ASSUME TypeOK, TypeOK', Sound, FailCleanup
  PROVE  Sound'
<1>1. PICK outcome : CommitState(outcome, DailyState(op.base.preferred, "recovery_required", op.txid))
  BY DEF FailCleanup
<1>2. /\ pc = "fail_cleanup" /\ Return /\ pc' = "idle"
      /\ UNCHANGED <<authority, daily, ignored, backup, values, journal, torn>>
  BY DEF FailCleanup, machine, journalFiles, Return, Discard
<1>3. CASE state' = state
  BY <1>2, <1>3, LostCommitSound
<1>4. CASE state' = DailyState(op.base.preferred, "recovery_required", op.txid)
  <2>1. state'.target = None /\ state'.active = op.txid
    BY <1>4 DEF DailyState
  <2> QED
    BY <1>2, <2>1, DailyCommit, IdleSound DEF Cleaning
<1> QED
  BY <1>1, <1>3, <1>4 DEF CommitState

\* ... and one that is verified closes the journal: daily, and clean.
LEMMA CompleteDailySound ==
  ASSUME TypeOK, TypeOK', Sound, CompleteDaily
  PROVE  Sound'
<1> DEFINE next == DailyState(op.base.preferred, "healthy", None)
<1>1. PICK outcome : CommitState(outcome, next)
  BY DEF CompleteDaily
<1>2. /\ pc = "complete_daily" /\ Return /\ pc' = "idle"
      /\ UNCHANGED <<authority, daily, ignored, backup, values, journal, torn>>
  BY DEF CompleteDaily, machine, journalFiles, Return, Discard
<1>3. CASE state' = state
  BY <1>2, <1>3, LostCommitSound
<1>4. CASE state' = next
  <2>1. /\ UnderwayFor("restore") /\ authority = daily /\ AllVerified(journal)
        /\ ~torn /\ Matched /\ Own(journal)
    BY <1>2, CleaningKnows DEF Cleaning
  <2>2. journal.phase[Cleanup] = "verified"
    BY <1>2, <2>1 DEF Sound, Knows, Restoring
  <2>3. state'.target = None /\ state'.active = None /\ state'.health = "healthy"
    BY <1>4 DEF DailyState
  <2> HIDE DEF next
  <2>4. JournalSteps = Steps \cup {Cleanup}
    BY PlanAssumption DEF JournalSteps, Cleanup, Steps
  <2>5. IsSettled(journal)
    BY <2>1, <2>2, <2>4 DEF IsSettled, AllVerified
  <2>6. Health' # "recovery_required"
    BY <1>2, <2>1, <2>3, <2>5, HealthWillBe DEF InNeed
  <2>7. Clean' /\ ~Open("protect")' /\ ~Open("restore")'
    BY <1>2, <2>1, <2>6 DEF Clean, Open
  <2>8. Planned(journal)'
    BY <1>2, <2>1 DEF Own, Planned
  <2>9. Durable'
    BY <1>2, <2>1, <2>3, <2>7, <2>8 DEF Durable
  <2> QED
    BY <1>2, <2>9, IdleSound
<1> QED
  BY <1>1, <1>3, <1>4 DEF CommitState

-----------------------------------------------------------------------------
(* Starting an operation.                                                  *)

\* In daily mode, with nothing open and no conflicting snapshot, the settings are
\* the user's own.
LEMMA NothingHidden ==
  ASSUME TypeOK, Durable, Health # "recovery_required", state.target = None, ~BackupConflict
  PROVE  authority = daily /\ backup \in {None, daily}
<1>1. \A s \in Steps : authority[s] = daily[s]
  BY DEF Durable, Clean, BackupConflict
<1>2. authority = daily
  BY <1>1 DEF TypeOK, Settings
<1> QED
  BY <1>2 DEF BackupConflict

\* Locations before the journal is planned say nothing of a journal.
LEMMA PlanningSound ==
  ASSUME Durable', Starting', pc' \in Planning
  PROVE  Sound'
BY DEF Sound, Knows, Undoing, SameTransaction, Reversible, Backed, Restoring, UnderwayFor,
       Underway, Unplanned, Planning

\* protect() reads the user's own settings as what it has to return to.
LEMMA StartProtectSound ==
  ASSUME TypeOK, TypeOK', Sound, NEW target \in Targets, StartProtect(target)
  PROVE  Sound'
<1>1. /\ Health # "recovery_required" /\ ~BackupConflict
      /\ UNCHANGED <<authority, daily, ignored, state, backup, values, journal,
                     previousJournal, torn>>
      /\ pc' = IF state.target = None /\ backup = None THEN "snapshot" ELSE "values"
      /\ op'.kind = "protect" /\ op'.original = authority /\ op'.base = PreviousOf(state)
      /\ ~op'.doubtful
  BY DEF StartProtect, Unblocked, machine, files, journalFiles
<1>2. Durable'
  BY <1>1, DurableStays DEF Sound, Knows
<1>3. Health' # "recovery_required"
  BY <1>1 DEF Health, Unfinished, JournalRead
<1>4. state.target = None => authority = daily /\ backup \in {None, daily}
  BY <1>1, NothingHidden DEF Sound, Knows
<1>5. op'.base.target = state.target
  BY <1>1 DEF PreviousOf
<1>6. op'.base = PreviousOf(state')
  BY <1>1
<1>7. Starting'
  BY <1>1, <1>3, <1>4, <1>5, <1>6 DEF Starting, PreviousOf
<1> QED
  BY <1>1, <1>2, <1>7, PlanningSound DEF Planning

\* restore() reads the backup as what it has to bring back.
LEMMA StartRestoreSound ==
  ASSUME TypeOK, TypeOK', Sound, StartRestore
  PROVE  Sound'
<1>1. /\ Health # "recovery_required" /\ state.target # None /\ pc' = "values"
      /\ UNCHANGED <<authority, daily, ignored, state, backup, values, journal,
                     previousJournal, torn>>
      /\ op'.kind = "restore" /\ op'.goal = backup /\ op'.base = PreviousOf(state)
      /\ ~op'.doubtful
  BY DEF StartRestore, Unblocked, machine, files, journalFiles
<1>2. Durable'
  BY <1>1, DurableStays DEF Sound, Knows
<1>3. Health' # "recovery_required"
  BY <1>1 DEF Health, Unfinished, JournalRead
<1>4. Starting'
  BY <1>1, <1>3 DEF Starting, PreviousOf
<1> QED
  BY <1>1, <1>2, <1>4, PlanningSound DEF Planning

\* The snapshot is of the user's own settings.
LEMMA CreateDailySnapshotSound ==
  ASSUME TypeOK, TypeOK', Announced, Sound, CreateDailySnapshot
  PROVE  Sound'
<1>1. PICK outcome :
        /\ backup' = IF outcome = "lost" THEN backup ELSE op.original
        /\ ContinueIf(outcome, "values")
  BY DEF CreateDailySnapshot
<1>2. /\ pc = "snapshot" /\ op.kind = "protect"
      /\ UNCHANGED <<authority, daily, ignored, state, values, journal, previousJournal, torn>>
  BY DEF CreateDailySnapshot, machine, journalFiles, TypeOK, Located
<1>3. /\ Health # "recovery_required" /\ state.target = None
      /\ op.base = PreviousOf(state) /\ op.base.target = None /\ ~op.doubtful
      /\ op.original = daily /\ authority = daily
  BY <1>2 DEF Sound, Knows, Starting, Planning, PreviousOf, Announced
<1>4. Health' # "recovery_required"
  BY <1>2, <1>3 DEF Health, Unfinished, JournalRead
<1>5. Clean' /\ ~Open("protect")' /\ ~Open("restore")'
  BY <1>2, <1>3, <1>4 DEF Clean, Open
<1>6. Durable'
  BY <1>2, <1>3, <1>5 DEF Sound, Knows, Durable, Planned
<1>7. CASE outcome = "ok"
  <2>1. pc' = "values" /\ UNCHANGED op /\ backup' = daily
    BY <1>1, <1>3, <1>7 DEF ContinueIf
  <2>2. Starting'
    BY <1>2, <1>3, <1>4, <2>1 DEF Starting, PreviousOf
  <2> QED
    BY <1>6, <2>1, <2>2, PlanningSound DEF Planning
<1>8. CASE outcome # "ok"
  BY <1>1, <1>6, <1>8, IdleSound DEF ContinueIf, Return, Discard
<1> QED
  BY <1>7, <1>8

\* The values of the new transaction mean nothing to a status that is in order.
LEMMA PlanValuesSound ==
  ASSUME TypeOK, TypeOK', Sound, PlanValues
  PROVE  Sound'
<1>1. PICK outcome :
        /\ values' = IF outcome = "lost" THEN values
                     ELSE [txid |-> op.txid, original |-> op.original]
        /\ ContinueIf(outcome, "plan")
  BY DEF PlanValues
<1>2. /\ pc = "values"
      /\ UNCHANGED <<authority, daily, ignored, state, backup, journal, previousJournal, torn>>
  BY DEF PlanValues, machine, journalFiles
<1>3. Health # "recovery_required"
  BY <1>2 DEF Sound, Knows, Starting, Planning
<1>4. Health' # "recovery_required"
  BY <1>2, <1>3 DEF Health, Unfinished, JournalRead
<1>5. Clean' /\ ~Open("protect")' /\ ~Open("restore")'
  BY <1>2, <1>3, <1>4 DEF Sound, Knows, Durable, Clean, BackAt, Open
<1>6. Durable'
  BY <1>2, <1>5 DEF Sound, Knows, Durable, Planned
<1>7. CASE outcome = "ok"
  <2>1. pc' = "plan" /\ UNCHANGED op /\ values' = [txid |-> op.txid, original |-> op.original]
    BY <1>1, <1>7 DEF ContinueIf
  <2>2. Starting'
    BY <1>2, <1>3, <1>4, <2>1 DEF Sound, Knows, Starting, Planning, PreviousOf
  <2> QED
    BY <1>6, <2>1, <2>2, PlanningSound DEF Planning
<1>8. CASE outcome # "ok"
  BY <1>1, <1>6, <1>8, IdleSound DEF ContinueIf, Return, Discard
<1> QED
  BY <1>7, <1>8

\* The phase table of the new transaction: every step planned, nothing touched.
LEMMA PlanPhasesSound ==
  ASSUME TypeOK, TypeOK', Announced, Fresh, Sound, PlanPhases
  PROVE  Sound'
<1> DEFINE steps == PlannedSteps(op.plan) \cup (IF op.kind = "restore" THEN {Cleanup} ELSE {})
           j == NewJournal(op.txid, op.kind, steps, op.base)
<1>1. PICK outcome :
        /\ WriteJournal(outcome, j)
        /\ IF outcome = "ok"
           THEN /\ pc' = "begin" /\ memory' = j
                /\ UNCHANGED <<lock, op, pending, modified, failed, degraded>>
           ELSE Return
  BY DEF PlanPhases
<1>2. /\ pc = "plan" /\ op.kind \in {"protect", "restore"} /\ op \in Operations
      /\ UNCHANGED <<authority, daily, ignored, state, backup, values>>
  BY DEF PlanPhases, machine, TypeOK, Located, Operations
<1>3. /\ ~torn /\ authority = op.original /\ modified = {} /\ ~failed
      /\ state.target # None => backup = daily
      /\ Health # "recovery_required" /\ op.base = PreviousOf(state) /\ ~op.doubtful
      /\ op.base.target = None => op.kind = "protect" /\ op.original = daily /\ backup = daily
      /\ op.kind = "restore" => op.goal = backup
      /\ values = [txid |-> op.txid, original |-> op.original]
  BY <1>2 DEF Sound, Knows, Starting, Planning, Durable, Announced, Fresh, Unplanned
<1>4. /\ op.base.target = state.target /\ op.base.health = state.health
      /\ state.health # "recovery_required"
  BY <1>3 DEF PreviousOf, Health
<1>5. /\ j.txid = op.txid /\ j.kind = op.kind /\ j.previous = op.base
      /\ \A s \in JournalSteps : j.phase[s] \in {"absent", "planned"}
      /\ op.kind = "protect" => j.phase[Cleanup] = "absent"
  <2>1. Cleanup \notin PlannedSteps(op.plan)
    BY CleanupApart DEF PlannedSteps
  <2> QED
    BY <2>1, CleanupApart DEF NewJournal
<1>6. j # None
  <2>1. j \in Journals(Nat)
    BY <1>2, NewJournalType DEF Operations
  <2> QED
    BY <2>1, NoneAssumption
<1> HIDE DEF j
<1>7. /\ ~torn' /\ UNCHANGED torn
      /\ journal' \in {journal, j}
      /\ outcome = "ok" => journal' = j
  BY <1>1, <1>3 DEF WriteJournal, TypeOK
<1>8. CASE journal' = journal /\ outcome # "ok"
  BY <1>1, <1>2, <1>3, <1>7, <1>8, LostCommitSound
<1>9. CASE journal' = j
  <2>1. Own(j) /\ Truthful(j) /\ Unverified(j)
    BY <1>3, <1>4, <1>5, CleanupApart DEF Own, Planned, Truthful, Unverified
  <2>2. Matched' /\ Planned(journal)'
    <3>1. values # None
      BY <1>2, <1>3, NoneAssumption DEF Operations
    <3> QED
      BY <1>2, <1>3, <1>5, <1>6, <1>9, <2>1, <3>1 DEF Matched, Own, Planned
  <2>3. op.kind = "protect" => Undoable'
    BY <1>2, <1>3, <1>4, <1>5, <1>9, <2>1 DEF Undoable, Truthful, Unverified, Restored, BackAt
  <2>4. op.kind = "restore" => Bringable' /\ backup = daily
    <3>1. op.kind = "restore" => state.target # None /\ backup = daily /\ backup # None
      BY <1>3, <1>4, NoneAssumption DEF TypeOK
    <3> QED
      BY <1>2, <3>1 DEF Bringable
  <2>5. Durable'
    BY <1>2, <1>3, <1>5, <1>7, <1>9, <2>2, <2>3, <2>4, UndoableIsDurable, BringableIsDurable
  <2>6. CASE outcome # "ok"
    BY <1>1, <2>5, <2>6, IdleSound DEF Return, Discard
  <2>7. CASE outcome = "ok"
    <3>1. pc' = "begin" /\ memory' = j /\ UNCHANGED <<op, pending, modified, failed>>
      BY <1>1, <2>7
    <3>2. pc' \notin Unplanned \cup ProtectOnly \cup RestoreOnly \cup {"reopen"}
      BY <3>1 DEF Unplanned, ProtectOnly, Applying, RestoreOnly, DailySteps, Cleaning
    <3>3. Own(journal)' /\ Own(memory)' /\ memory'.kind = journal'.kind
      BY <1>9, <2>1, <3>1 DEF Own, Planned
    <3>4. SameTransaction'
      BY <1>2, <1>3, <1>5, <1>9, <2>2, <3>1, <3>2, <3>3 DEF SameTransaction
    <3>5. Truthful(memory)' /\ Unverified(memory)'
      BY <1>2, <2>1, <3>1 DEF Truthful, Unverified, Restored, BackAt
    <3>6. Reversible'
      BY <1>5, <1>9, <2>3, <3>5 DEF Reversible, UnderwayFor
    <3>7. \A s \in Steps : op.kind = "protect" => Undone(s)'
      BY <1>2, <1>3, <1>5, <1>9, <3>1, CleanupApart DEF Undone, Closed, Restored, BackAt
    <3>8. Undoing'
      BY <1>2, <1>3, <1>5, <1>9, <3>1, <3>7 DEF Undoing, UnderwayFor
    <3>9. Backed' /\ Restoring'
      BY <1>2, <1>3, <1>4, <1>5, <1>9, <2>4, <3>1
         DEF Backed, Restoring, UnderwayFor, DailySteps, Cleaning
    <3>10. Starting'
      BY <3>1 DEF Starting, Planning
    <3> QED
      BY <2>5, <3>4, <3>6, <3>8, <3>9, <3>10 DEF Sound, Knows
  <2> QED
    BY <2>6, <2>7
<1> QED
  BY <1>7, <1>8, <1>9

\* Naming the transaction leaves the target alone, so what can be undone or brought
\* to its end still can.
LEMMA BeginTransactionSound ==
  ASSUME TypeOK, TypeOK', Fresh, Sound, BeginTransaction
  PROVE  Sound'
<1> DEFINE next == ProtectionState(op.base, op.base.health, op.txid)
           to == IF op.kind = "restore" THEN "daily_begin"
                 ELSE IF pending = {} THEN "complete" ELSE "applying"
<1>1. PICK outcome : CommitState(outcome, next) /\ ContinueIf(outcome, to)
  BY DEF BeginTransaction
<1>2. /\ pc = "begin" /\ pc \notin Unplanned /\ Underway
      /\ op.kind \in {"protect", "restore"} /\ op \in Operations
      /\ UNCHANGED <<authority, daily, ignored, backup, values, journal, torn>>
  BY DEF BeginTransaction, machine, journalFiles, Unplanned, Underway, TypeOK, Located, Operations
<1>3. CASE state' = state /\ outcome # "ok"
  BY <1>1, <1>2, <1>3, LostCommitSound DEF ContinueIf
<1>4. CASE state' = next
  <2>1. state'.target = op.base.target /\ state'.active = op.txid /\ state'.active # None
    BY <1>2, <1>4, NoneAssumption DEF ProtectionState, Operations
  <2> HIDE DEF next
  <2>2. /\ ~torn /\ Matched /\ Own(journal) /\ Own(memory) /\ op.kind = journal.kind
        /\ values.original = op.original /\ memory.kind = journal.kind /\ ~op.doubtful
    BY <1>2 DEF Sound, Knows, Durable, SameTransaction
  <2>3. Matched' /\ Planned(journal)'
    BY <1>2, <2>2 DEF Matched, Own, Planned
  <2>4. op.kind = "protect" =>
          /\ Undoable' /\ Truthful(memory) /\ UnderwayFor("protect")
          /\ op.base.target = state.target
          /\ state.target # None => backup = daily
    BY <1>2, <2>1, <2>2
       DEF Sound, Knows, Durable, Reversible, UnderwayFor, Underway, Undoable, Truthful,
           Unverified, Restored, BackAt, Own
  <2>5. op.kind = "restore" =>
          /\ Bringable' /\ UnderwayFor("restore") /\ backup = daily /\ op.goal = daily
          /\ memory = journal /\ state'.target # None
    <3> SUFFICES ASSUME op.kind = "restore"
                 PROVE  /\ Bringable' /\ UnderwayFor("restore") /\ backup = daily
                        /\ op.goal = daily /\ memory = journal /\ state'.target # None
      OBVIOUS
    <3>1. UnderwayFor("restore") /\ state'.target # None
      BY <1>2, <2>1, <2>2 DEF UnderwayFor, Own, Planned
    <3>2. backup = daily /\ op.goal = daily /\ memory = journal
      BY <1>2, <3>1 DEF Sound, Knows, Backed, Restoring, Cleaning
    <3>3. backup # None
      BY <3>2, NoneAssumption DEF TypeOK
    <3> QED
      BY <1>2, <3>1, <3>2, <3>3 DEF Bringable
  <2>6. Durable'
    BY <1>2, <2>1, <2>2, <2>3, <2>4, <2>5, UndoableIsDurable, BringableIsDurable
  <2>7. CASE outcome # "ok"
    BY <1>1, <2>6, <2>7, IdleSound DEF ContinueIf, Return, Discard
  <2>8. CASE outcome = "ok"
    <3>1. pc' = to /\ UNCHANGED <<op, memory, pending, modified, failed>>
      BY <1>1, <2>8 DEF ContinueIf
    <3>2. pc' \notin Unplanned \cup {"reopen", "mark", "rewrite", "compensated", "publish_previous"}
      BY <3>1 DEF Unplanned
    <3>3. /\ pc' \in ProtectOnly => op.kind = "protect"
          /\ pc' \in RestoreOnly => op.kind = "restore"
      BY <1>2, <3>1 DEF ProtectOnly, Applying, RestoreOnly, DailySteps, Cleaning
    <3>4. SameTransaction'
      BY <1>2, <2>2, <2>3, <3>1, <3>2, <3>3 DEF SameTransaction, Own, Planned
    <3>5. Starting'
      BY <3>2 DEF Starting, Planning, Unplanned
    <3>6. Reversible'
      BY <1>2, <2>1, <2>2, <2>4, <3>1
         DEF Reversible, UnderwayFor, Truthful, Unverified, Restored, BackAt
    <3>7. Undoing'
      <4> SUFFICES ASSUME op.kind = "protect" PROVE Undoing'
        BY <1>2, <2>2, <3>1 DEF Undoing, UnderwayFor
      <4>1. \A s \in Steps \ modified : failed \/ Undone(s)
        BY <2>4 DEF Sound, Undoing
      <4>2. \A s \in Steps : Undone(s) => Undone(s)'
        BY <1>2, <3>1 DEF Undone, Closed, Restored, BackAt
      <4> QED
        BY <3>1, <3>2, <4>1, <4>2 DEF Undoing
    <3>8. Backed' /\ Restoring'
      <4>1. CASE op.kind = "protect"
        BY <1>2, <2>2, <4>1 DEF Backed, Restoring, UnderwayFor
      <4>2. CASE op.kind = "restore"
        <5>1. pc' = "daily_begin" /\ pending' = Steps
          BY <1>2, <3>1, <4>2 DEF Fresh
        <5>2. \A s \in Steps : Agree(s)'
          BY <1>2, <2>5, <3>1, <4>2 DEF Agree
        <5> QED
          BY <1>2, <2>1, <2>5, <3>1, <4>2, <5>1, <5>2 DEF Backed, Restoring, DailySteps, Cleaning
      <4> QED
        BY <1>2, <4>1, <4>2
    <3> QED
      BY <2>6, <3>4, <3>5, <3>6, <3>7, <3>8 DEF Sound, Knows
  <2> QED
    BY <2>7, <2>8
<1> QED
  BY <1>1, <1>3, <1>4 DEF CommitState, ContinueIf

-----------------------------------------------------------------------------
(* Recovery, and what happens between operations.                          *)

\* What recover() finds on disk is as good as what the operation that died had.
LEMMA StartRecoverSound ==
  ASSUME TypeOK, TypeOK', Fresh, Sound, StartRecover
  PROVE  Sound'
<1> DEFINE open == {s \in Steps : journal.phase[s] \notin {"absent", "compensated"}}
<1>1. /\ ~torn /\ JournalRead = journal /\ journal # None
      /\ Matched /\ Planned(journal) /\ Health = "recovery_required"
      /\ state.active \in {None, journal.txid}
      /\ journal \in Journals(Nat)
      /\ state.target # None => backup = daily
  BY DEF StartRecover, CanRecover, NeedsRecovery, Readable, JournalRead, Matched, Sound,
         Knows, Durable, TypeOK
<1>2. /\ op'.kind = "recover" /\ op'.txid = journal.txid /\ op'.base = journal.previous
      /\ op'.original = values.original /\ ~op'.doubtful
      /\ op'.goal = IF backup = None THEN values.original ELSE backup
      /\ memory' = journal
      /\ UNCHANGED <<authority, daily, ignored, state, backup, values, journal,
                     previousJournal, torn>>
  BY <1>1 DEF StartRecover, machine, files, journalFiles
<1>3. Durable'
  BY <1>2, DurableStays DEF Sound, Knows
<1>4. pc' \notin Unplanned \cup {"reopen", "begin"}
  BY DEF StartRecover, Unwind, Unplanned
<1>5. Own(journal)' /\ Own(memory)' /\ Matched'
  BY <1>1, <1>2 DEF Own, Planned, Matched
<1>6. CASE journal.kind = "protect"
  <2>1. modified' = open /\ pc' = Unwind(open)
    BY <1>1, <1>6 DEF StartRecover
  <2> HIDE DEF open
  <2>2. /\ pc' \in {"publish_previous", "compensating"}
        /\ pc' = "publish_previous" => modified' = {}
    BY <2>1 DEF Unwind
  <2>3. Undoable
    BY <1>1, <1>6 DEF Sound, Knows, Durable, Open
  <2>4. SameTransaction'
    BY <1>2, <1>4, <1>5, <1>6, <2>2
       DEF SameTransaction, ProtectOnly, Applying, RestoreOnly, DailySteps, Cleaning
  <2>5. Undoable' /\ Truthful(memory)' /\ Unverified(memory)'
    BY <1>2, <2>3 DEF Undoable, Truthful, Unverified, Restored, BackAt
  <2>6. \A s \in Steps \ modified' : Undone(s)'
    BY <1>2, <2>1, <2>3 DEF open, Undoable, Truthful, Undone, Closed, Restored, BackAt
  <2>7. \A s \in Steps : Agree(s)'
    BY <1>2 DEF Agree
  <2>8. modified' \subseteq Steps
    BY <2>1 DEF open
  <2>9. Undoing'
    BY <2>2, <2>6, <2>7, <2>8 DEF Undoing
  <2>10. Starting' /\ Backed' /\ Restoring'
    BY <1>2, <1>4, <1>6 DEF Starting, Planning, Unplanned, Backed, Restoring, UnderwayFor
  <2> QED
    BY <1>3, <2>4, <2>5, <2>9, <2>10 DEF Sound, Knows, Reversible
<1>7. CASE journal.kind = "restore"
  <2>1. Bringable
    BY <1>1, <1>7 DEF Sound, Knows, Durable, Open
  <2>2. state.target = None => state.active = journal.txid
    BY <1>1, <2>1 DEF Bringable
  <2>3. \/ pc' = "daily_begin" /\ pending' = Steps /\ backup = daily /\ backup # None
        \/ pc' = "cleanup_begin" /\ state.target = None /\ authority = daily /\ AllVerified(journal)
    BY <1>1, <1>7, <2>1, <2>2 DEF StartRecover, Bringable
  <2>4. SameTransaction'
    BY <1>2, <1>4, <1>5, <1>7, <2>3
       DEF SameTransaction, ProtectOnly, Applying, RestoreOnly, DailySteps, Cleaning
  <2>5. Starting' /\ Reversible' /\ Undoing'
    BY <1>2, <1>4, <1>7 DEF Starting, Planning, Unplanned, Reversible, Undoing, UnderwayFor
  <2>6. Backed'
    BY <1>2, <2>1, <2>2, <2>3 DEF Backed, Bringable, DailySteps, Cleaning
  <2>7. \A s \in Steps : Agree(s)'
    BY <1>2 DEF Agree
  <2>8. Restoring'
    BY <1>2, <2>3, <2>7 DEF Restoring, DailySteps, Cleaning, AllVerified
  <2> QED
    BY <1>3, <2>4, <2>5, <2>6, <2>8 DEF Sound, Knows
<1> QED
  BY <1>1, <1>6, <1>7 DEF Journals

\* With nothing to recover only a dead lock is released.
LEMMA RecoverReturnsEarlySound ==
  ASSUME Sound, RecoverReturnsEarly
  PROVE  Sound'
<1>1. /\ pc' = "idle"
      /\ UNCHANGED <<authority, daily, ignored, state, backup, values, journal, torn>>
  BY DEF RecoverReturnsEarly, machine, files, journalFiles
<1> QED
  BY <1>1, DurableStays, IdleSound DEF Sound, Knows

\* Preferring another region neither opens nor closes anything.
LEMMA SetPreferredRegionSound ==
  ASSUME Sound, NEW region \in Regions, SetPreferredRegion(region)
  PROVE  Sound'
<1>1. /\ pc' = "idle" /\ Health # "recovery_required" /\ state.active = None
      /\ state.target = None
      /\ UNCHANGED <<authority, daily, ignored, backup, values, journal, previousJournal, torn>>
      /\ state' = state \/ state' = DailyState(region, state.health, None)
  BY DEF SetPreferredRegion, CommitState, Unblocked, machine, journalFiles
<1>2. state'.health = state.health /\ state'.active = None /\ state'.target = None
  BY <1>1 DEF DailyState
<1>3. Health' # "recovery_required"
  BY <1>1, <1>2 DEF Health, Unfinished, JournalRead
<1>4. Clean' /\ ~Open("protect")' /\ ~Open("restore")'
  BY <1>1, <1>3 DEF Sound, Knows, Durable, Clean, BackAt, Open
<1>5. Durable'
  BY <1>1, <1>2, <1>4 DEF Sound, Knows, Durable, Planned
<1> QED
  BY <1>1, <1>5, IdleSound

\* What the user changes in daily mode is the user's own.
LEMMA UserChangesSettingSound ==
  ASSUME TypeOK, Sound, NEW s \in Steps, NEW v \in Values, UserChangesSetting(s, v)
  PROVE  Sound'
<1>1. /\ pc' = "idle" /\ Health # "recovery_required"
      /\ UNCHANGED <<ignored, state, backup, values, journal, previousJournal, torn>>
      /\ authority' = [authority EXCEPT ![s] = v]
      /\ daily' = IF state.target = None THEN [daily EXCEPT ![s] = v] ELSE daily
  BY DEF UserChangesSetting, Unblocked, files
<1>2. Health' # "recovery_required"
  BY <1>1 DEF Health, Unfinished, JournalRead
<1>3. Clean'
  <2> SUFFICES ASSUME state.target = None, NEW q \in Steps
               PROVE  \/ authority'[q] = daily'[q]
                      \/ BackAt(q, daily[q])' /\ backup # None /\ backup[q] = daily'[q]
    BY <1>1 DEF Clean
  <2>1. CASE q = s
    BY <1>1, <2>1 DEF TypeOK, Settings
  <2>2. CASE q # s
    BY <1>1, <2>2 DEF Sound, Knows, Durable, Clean, BackAt, TypeOK, Settings
  <2> QED
    BY <2>1, <2>2
<1>4. ~Open("protect")' /\ ~Open("restore")'
  BY <1>2 DEF Open
<1>5. Durable'
  BY <1>1, <1>3, <1>4 DEF Sound, Knows, Durable, Planned
<1> QED
  BY <1>1, <1>5, IdleSound

\* A crash loses what the operation knew, and may cut a system write short: the
\* journal shows the step it was at.
LEMMA CrashSound ==
  ASSUME TypeOK, TypeOK', Applied, Sound, Crash
  PROVE  Sound'
<1>1. /\ pc' = "idle"
      /\ UNCHANGED <<daily, ignored, state, backup, values, journal, torn>>
  BY DEF Crash, Discard
<1>2. CASE UNCHANGED authority
  BY <1>1, <1>2, DurableStays, IdleSound DEF Sound, Knows
<1>3. ASSUME NEW s \in Steps,
             \/ pc \in {"apply", "daily_write"} /\ First(s, pending)
             \/ pc = "rewrite" /\ Last(s, modified),
             authority' = [authority EXCEPT ![s] = Partial]
      PROVE  Sound'
  <2>1. \A q \in Steps : q # s => authority'[q] = authority[q]
    BY <1>3 DEF TypeOK, Settings
  <2>2. CASE pc = "apply"
    <3>1. UnderwayFor("protect")
      BY <2>2, ProtectBranch DEF Sound, Knows, ProtectOnly, Applying
    <3>2. journal.phase[s] = "applying"
      BY <1>3, <2>2 DEF Applied, Applying, AppliedPhase, TypeOK, Located, First
    <3>3. Durable'
      BY <1>1, <2>1, <3>1, <3>2, WriteUndoable DEF Sound
    <3> QED
      BY <1>1, <3>3, IdleSound
  <2>3. CASE pc = "rewrite"
    <3>1. UnderwayFor("protect")
      BY <2>3, ProtectBranch DEF Sound, Knows, ProtectOnly
    <3>2. journal.phase[s] = "compensating"
      BY <1>3, <2>3, <3>1 DEF Sound, Undoing
    <3>3. Durable'
      BY <1>1, <2>1, <3>1, <3>2, WriteUndoable DEF Sound
    <3> QED
      BY <1>1, <3>3, IdleSound
  <2>4. CASE pc = "daily_write"
    <3>1. /\ UnderwayFor("restore") /\ backup # None /\ ~torn /\ pc \notin Unplanned
      BY <2>4, DailyStepKnows DEF DailySteps
    <3>2. Bringable
      BY <3>1, BackedIsBringable DEF Sound, Knows
    <3>3. Bringable'
      BY <1>1, <3>1, <3>2 DEF Bringable
    <3>4. Matched' /\ Planned(journal)' /\ journal'.kind = "restore"
      BY <1>1, <3>1
         DEF Sound, Knows, SameTransaction, UnderwayFor, Matched, Own, Planned
    <3>5. Durable'
      BY <1>1, <3>1, <3>3, <3>4, BringableIsDurable
    <3> QED
      BY <1>1, <3>5, IdleSound
  <2> QED
    BY <1>3, <2>2, <2>3, <2>4
<1> QED
  BY <1>2, <1>3 DEF Crash

-----------------------------------------------------------------------------
(* The parts of the invariant that hold whatever happens to the journal.   *)

\* An operation starts with nothing applied, and leaves nothing behind.
LEMMA FreshStep ==
  ASSUME TypeOK, Fresh, [Next]_vars
  PROVE  Fresh'
<1>1. CASE \E target \in Targets : StartProtect(target)
  BY <1>1 DEF StartProtect, Fresh, Unplanned
<1>2. CASE StartRestore
  BY <1>2 DEF StartRestore, Fresh, Unplanned
<1>3. CASE Recover
  <2>1. CASE StartRecover
    BY <2>1 DEF StartRecover, Unwind, Fresh, Unplanned, Planning
  <2>2. CASE RecoverReturnsEarly
    BY <2>2 DEF RecoverReturnsEarly, Fresh, locals, Unplanned, Planning
  <2> QED
    BY <1>3, <2>1, <2>2 DEF Recover
<1>4. CASE CreateDailySnapshot \/ PlanValues \/ PlanPhases
  BY <1>4 DEF CreateDailySnapshot, PlanValues, PlanPhases, ContinueIf, Return, Discard,
              Fresh, Unplanned, Planning
<1>5. CASE BeginTransaction \/ CompleteProtect \/ PublishPrevious \/ PublishDaily
             \/ FailCleanup \/ CompleteDaily
  BY <1>5 DEF BeginTransaction, CompleteProtect, PublishPrevious, PublishDaily, FailCleanup,
              CompleteDaily, ContinueIf, Return, Discard, Fresh, Unplanned, Planning
<1>6. CASE BeginCleanup \/ DeleteDailySnapshot \/ VerifyCleanup \/ MarkCleanupFailed
  BY <1>6 DEF BeginCleanup, DeleteDailySnapshot, VerifyCleanup, MarkCleanupFailed,
              Fresh, Unplanned, Planning
<1>7. CASE \E s \in Steps : ProtectStep(s) \/ CompensationStep(s)
  BY <1>7, AfterStepPlaces
     DEF ProtectStep, ReportApplying, ApplyStep, ReportVerified, Unwind, CompensationStep,
         ReportCompensating, RecoverUntouched, RecoverDoubtful, RewriteOriginal,
         ReportCompensated, MarkUncompensated, Fresh, Unplanned, Planning
<1>8. CASE \E s \in Steps : DailyStep(s)
  BY <1>8, AfterDailyPlaces
     DEF DailyStep, BeginDailyStep, WriteDaily, ReportDailyVerified, MarkDailyFailed, TypeOK,
         Fresh, Unplanned, Planning
<1>9. CASE \E region \in Regions : SetPreferredRegion(region)
  BY <1>9 DEF SetPreferredRegion, locals, Fresh, Unplanned, Planning
<1>10. CASE Crash
  BY <1>10 DEF Crash, Discard, Fresh, Unplanned, Planning
<1>11. CASE TearJournal \/ \E s \in Steps, v \in Values : UserChangesSetting(s, v)
  BY <1>11 DEF TearJournal, UserChangesSetting, locals, Fresh, Unplanned, Planning
<1>12. CASE UNCHANGED vars
  BY <1>12 DEF vars, Fresh
<1> QED
  BY <1>1, <1>2, <1>3, <1>4, <1>5, <1>6, <1>7, <1>8, <1>9, <1>10, <1>11, <1>12
     DEF Next, Proceed

\* The phase table starts as the plan ...
LEMMA PlanPhasesApplied ==
  ASSUME TypeOK, Fresh, PlanPhases
  PROVE  Applied'
<1> SUFFICES ASSUME pc' \in {"begin"} \cup Applying, op'.kind = "protect" PROVE Applied'
  BY DEF Applied
<1> DEFINE steps == PlannedSteps(op.plan) \cup (IF op.kind = "restore" THEN {Cleanup} ELSE {})
           j == NewJournal(op.txid, op.kind, steps, op.base)
<1>1. PICK outcome :
        /\ WriteJournal(outcome, j)
        /\ IF outcome = "ok"
           THEN /\ pc' = "begin" /\ memory' = j
                /\ UNCHANGED <<lock, op, pending, modified, failed, degraded>>
           ELSE Return
  BY DEF PlanPhases
<1>2. /\ outcome = "ok" /\ pc' = "begin" /\ memory' = j
      /\ UNCHANGED <<op, pending, modified, failed>>
  BY <1>1 DEF Return, Discard, Applying
<1>3. /\ pending = PlannedSteps(op.plan) /\ ~failed /\ op.kind = "protect"
  BY <1>2 DEF PlanPhases, Fresh, Planning, Unplanned
<1>4. \A s \in Steps : j.phase[s] = IF s \in pending THEN "planned" ELSE "absent"
  BY <1>3, CleanupApart DEF NewJournal
<1>5. j.phase[Cleanup] = "absent"
  BY <1>3, CleanupApart DEF NewJournal, PlannedSteps
<1> HIDE DEF j
<1>6. journal' = j /\ ~torn'
  BY <1>1, <1>2 DEF WriteJournal
<1>7. \A s \in Steps : memory'.phase[s] = AppliedPhase(s)'
  BY <1>2, <1>3, <1>4 DEF AppliedPhase
<1> QED
  BY <1>2, <1>3, <1>5, <1>6, <1>7 DEF Applied, Applying

\* ... and follows every step of it.
LEMMA ProtectStepApplied ==
  ASSUME TypeOK, Applied, NEW s \in Steps, ProtectStep(s)
  PROVE  Applied'
<1> SUFFICES ASSUME pc' \in {"begin"} \cup Applying PROVE Applied'
  BY DEF Applied
<1>1. /\ pc \in {"applying", "apply", "verify"} /\ op.kind = "protect" /\ First(s, pending)
      /\ s \in pending /\ UNCHANGED <<op, state, failed>>
  BY DEF ProtectStep, ReportApplying, ApplyStep, ReportVerified, TypeOK, Located, files, First
<1>2. /\ journal = memory /\ ~torn /\ ~failed
      /\ memory.phase[Cleanup] = "absent"
      /\ \A q \in Steps : memory.phase[q] = AppliedPhase(q)
      /\ pending \subseteq PlannedSteps(op.plan)
      /\ PlannedSteps(op.plan) \ pending \subseteq modified
      /\ pc = "verify" => s \in modified
      /\ state.active = op.txid
      /\ memory \in Journals(Nat) /\ journal \in Journals(Nat) /\ pending \subseteq Steps
  BY <1>1, AtHand DEF Applied, Applying, Unplanned
<1>3. \A q \in Steps : First(q, pending) <=> q = s
  BY <1>1, <1>2, FirstUnique
<1>4. CASE ReportApplying(s)
  <2>1. PICK outcome :
          /\ Transition(memory, s, "applying", outcome)
          /\ pc' = IF outcome = "ok" THEN "apply" ELSE Unwind(modified)
    BY <1>4 DEF ReportApplying
  <2>2. pc = "applying" /\ pc' = "apply" /\ outcome = "ok" /\ UNCHANGED <<pending, modified>>
    BY <1>4, <2>1 DEF ReportApplying, Unwind, Applying
  <2>3. /\ ~torn' /\ journal' = memory' /\ memory'.phase[s] = "applying"
        /\ \A q \in JournalSteps : q # s => memory'.phase[q] = memory.phase[q]
    BY <1>2, <2>1, <2>2, ReportPhases, CleanupApart
  <2>4. \A q \in Steps : memory'.phase[q] = AppliedPhase(q)'
    BY <1>1, <1>2, <1>3, <2>2, <2>3, CleanupApart DEF AppliedPhase
  <2> QED
    BY <1>1, <1>2, <2>2, <2>3, <2>4, CleanupApart DEF Applied, Applying
<1>5. CASE ApplyStep(s)
  <2>1. /\ pc = "apply" /\ pc' = "verify" /\ modified' = modified \cup {s}
        /\ UNCHANGED <<journal, torn, memory, pending>>
    BY <1>5 DEF ApplyStep, files, journalFiles, Applying
  <2>2. \A q \in Steps : memory'.phase[q] = AppliedPhase(q)'
    BY <1>1, <1>2, <2>1 DEF AppliedPhase
  <2> QED
    BY <1>1, <1>2, <1>3, <2>1, <2>2 DEF Applied, Applying
<1>6. CASE ReportVerified(s)
  <2>1. PICK outcome :
          /\ Transition(memory, s, "verified", outcome)
          /\ pending' = IF outcome = "ok" THEN pending \ {s} ELSE pending
          /\ pc' = CASE outcome # "ok"     -> "compensating"
                     [] outcome = "ok" /\ pending' = {}  -> "complete"
                     [] outcome = "ok" /\ pending' # {}  -> "applying"
    BY <1>6 DEF ReportVerified
  <2>2. pc = "verify" /\ outcome = "ok" /\ UNCHANGED modified
    BY <1>6, <2>1 DEF ReportVerified, Applying
  <2>3. /\ pending' = pending \ {s}
        /\ pc' \in {"complete", "applying"} /\ (pc' = "complete" => pending' = {})
    BY <2>1, <2>2
  <2>4. /\ ~torn' /\ journal' = memory' /\ memory'.phase[s] = "verified"
        /\ \A q \in JournalSteps : q # s => memory'.phase[q] = memory.phase[q]
    BY <1>2, <2>1, <2>2, ReportPhases, CleanupApart
  <2>5. \A q \in Steps : memory'.phase[q] = AppliedPhase(q)'
    BY <1>1, <1>2, <1>3, <2>2, <2>3, <2>4, CleanupApart DEF AppliedPhase
  <2>6. PlannedSteps(op.plan) \ pending' \subseteq modified
    BY <1>2, <2>2, <2>3
  <2> QED
    BY <1>1, <1>2, <2>2, <2>3, <2>4, <2>5, <2>6, CleanupApart DEF Applied, Applying
<1> QED
  BY <1>4, <1>5, <1>6 DEF ProtectStep

\* Naming the transaction starts the work.
LEMMA BeginTransactionApplied ==
  ASSUME TypeOK, Fresh, Applied, BeginTransaction
  PROVE  Applied'
<1> SUFFICES ASSUME pc' \in {"begin"} \cup Applying, op'.kind = "protect" PROVE Applied'
  BY DEF Applied
<1>1. PICK outcome :
        /\ CommitState(outcome, ProtectionState(op.base, op.base.health, op.txid))
        /\ ContinueIf(outcome, IF op.kind = "restore" THEN "daily_begin"
                               ELSE IF pending = {} THEN "complete" ELSE "applying")
  BY DEF BeginTransaction
<1>2. /\ outcome = "ok" /\ UNCHANGED <<op, memory, pending, modified, failed, journal, torn>>
      /\ pc = "begin" /\ op.kind = "protect"
      /\ pc' = IF pending = {} THEN "complete" ELSE "applying"
  BY <1>1 DEF BeginTransaction, ContinueIf, Return, Discard, Applying, journalFiles
<1>3. state'.active = op.txid
  BY <1>1, <1>2 DEF CommitState, ProtectionState
<1>4. \A s \in Steps : AppliedPhase(s)' = AppliedPhase(s)
  BY <1>2 DEF AppliedPhase
<1> QED
  BY <1>2, <1>3, <1>4 DEF Applied, Applying

\* While protect applies its plan, each phase says how far it got.
LEMMA AppliedStep ==
  ASSUME TypeOK, Fresh, Applied, [Next]_vars
  PROVE  Applied'
<1>1. CASE pc' \notin {"begin"} \cup Applying
  BY <1>1 DEF Applied
<1>2. CASE (\E target \in Targets : StartProtect(target)) \/ StartRestore \/ Recover
  BY <1>1, <1>2 DEF StartProtect, StartRestore, Recover, StartRecover, RecoverReturnsEarly,
                    Unwind, Applying
<1>3. CASE CreateDailySnapshot \/ PlanValues
  BY <1>1, <1>3 DEF CreateDailySnapshot, PlanValues, ContinueIf, Return, Discard, Applying
<1>4. CASE PlanPhases \/ BeginTransaction \/ \E s \in Steps : ProtectStep(s)
  BY <1>4, PlanPhasesApplied, BeginTransactionApplied, ProtectStepApplied
<1>5. CASE CompleteProtect \/ PublishPrevious \/ PublishDaily \/ FailCleanup \/ CompleteDaily
  BY <1>1, <1>5 DEF CompleteProtect, PublishPrevious, PublishDaily, FailCleanup, CompleteDaily,
                    ContinueIf, Return, Discard, Applying
<1>6. CASE BeginCleanup \/ DeleteDailySnapshot \/ VerifyCleanup \/ MarkCleanupFailed
  BY <1>1, <1>6 DEF BeginCleanup, DeleteDailySnapshot, VerifyCleanup, MarkCleanupFailed, Applying
<1>7. CASE \E s \in Steps : CompensationStep(s)
  BY <1>1, <1>7, AfterStepPlaces
     DEF CompensationStep, ReportCompensating, RecoverUntouched, RecoverDoubtful,
         RewriteOriginal, ReportCompensated, MarkUncompensated, Applying
<1>8. CASE \E s \in Steps : DailyStep(s)
  BY <1>1, <1>8, AfterDailyPlaces
     DEF DailyStep, BeginDailyStep, WriteDaily, ReportDailyVerified, MarkDailyFailed, TypeOK,
         Applying
<1>9. CASE (\E region \in Regions : SetPreferredRegion(region)) \/ Crash \/ TearJournal
             \/ \E s \in Steps, v \in Values : UserChangesSetting(s, v)
  BY <1>1, <1>9 DEF SetPreferredRegion, Crash, TearJournal, UserChangesSetting, Discard, Applying
<1>10. CASE UNCHANGED vars
  BY <1>10 DEF vars, Applied, AppliedPhase
<1> QED
  BY <1>2, <1>3, <1>4, <1>5, <1>6, <1>7, <1>8, <1>9, <1>10 DEF Next, Proceed

-----------------------------------------------------------------------------
(* The inductive invariant.                                                *)

\* Nothing is open, and nothing changed, initially.
LEMMA InvInit == Init => Fresh /\ Applied /\ Sound
<1> SUFFICES ASSUME Init PROVE Fresh /\ Applied /\ Sound
  OBVIOUS
<1>1. Fresh /\ Applied
  BY DEF Init, Fresh, Applied, Applying, Planning
<1>2. Durable
  BY DEF Init, Durable, Clean, Open, Matched, DailyState
<1> QED
  BY <1>1, <1>2
     DEF Init, Sound, Knows, Undoing, Starting, Planning, SameTransaction, Reversible,
         Backed, Restoring, UnderwayFor, Underway, Unplanned

\* Every step but a torn journal leaves what the files and the operation promise.
LEMMA SoundStep ==
  ASSUME TypeOK, TypeOK', Announced, Fresh, Applied, Sound, [Next]_vars, tears' = tears
  PROVE  Sound'
<1>1. CASE \E target \in Targets : StartProtect(target)
  BY <1>1, StartProtectSound
<1>2. CASE StartRestore \/ Recover
  BY <1>2, StartRestoreSound, StartRecoverSound, RecoverReturnsEarlySound DEF Recover
<1>3. CASE CreateDailySnapshot \/ PlanValues \/ PlanPhases \/ BeginTransaction
  BY <1>3, CreateDailySnapshotSound, PlanValuesSound, PlanPhasesSound, BeginTransactionSound
<1>4. CASE CompleteProtect \/ PublishPrevious \/ PublishDaily \/ FailCleanup \/ CompleteDaily
  BY <1>4, CompleteProtectSound, PublishPreviousSound, PublishDailySound, FailCleanupSound,
     CompleteDailySound
<1>5. CASE BeginCleanup \/ DeleteDailySnapshot \/ VerifyCleanup \/ MarkCleanupFailed
  BY <1>5, CleanupReportsSound, DeleteDailySnapshotSound
<1>6. CASE \E s \in Steps : ProtectStep(s)
  BY <1>6, ReportApplyingSound, ApplyStepSound, ReportVerifiedSound DEF ProtectStep
<1>7. CASE \E s \in Steps : CompensationStep(s)
  <2>1. \A s \in Steps : ~RecoverDoubtful(s)
    BY DEF RecoverDoubtful, Sound, Knows, SameTransaction, Underway, Unplanned
  <2> QED
    BY <1>7, <2>1, ReportCompensatingSound, RecoverUntouchedSound, RewriteOriginalSound,
       ReportCompensatedSound, MarkUncompensatedSound DEF CompensationStep
<1>8. CASE \E s \in Steps : DailyStep(s)
  BY <1>8, BeginDailyStepSound, WriteDailySound, ReportDailyVerifiedSound, MarkDailyFailedSound
     DEF DailyStep
<1>9. CASE \E region \in Regions : SetPreferredRegion(region)
  BY <1>9, SetPreferredRegionSound
<1>10. CASE Crash
  BY <1>10, CrashSound
<1>11. CASE TearJournal
  BY <1>11 DEF TearJournal, TypeOK
<1>12. CASE \E s \in Steps, v \in Values : UserChangesSetting(s, v)
  BY <1>12, UserChangesSettingSound
<1>13. CASE UNCHANGED vars
  <2>1. Durable'
    BY <1>13, DurableStays DEF vars, Sound, Knows
  <2>2. Starting' /\ SameTransaction' /\ Reversible' /\ Undoing' /\ Backed' /\ Restoring'
    BY <1>13 DEF vars, Sound, Knows, Starting, Health, Unfinished, JournalRead,
                 SameTransaction, Underway, Matched, Own, Planned, Reversible, UnderwayFor,
                 Undoable, Truthful, Unverified, Restored, BackAt, Undoing, Undone, Closed, Agree,
                 Backed, Restoring, Home, AllVerified
  <2> QED
    BY <2>1, <2>2 DEF Sound, Knows
<1> QED
  BY <1>1, <1>2, <1>3, <1>4, <1>5, <1>6, <1>7, <1>8, <1>9, <1>10, <1>11, <1>12, <1>13
     DEF Next, Proceed

\* Only a torn journal changes their number, and it only grows.
LEMMA TearsGrow ==
  ASSUME TypeOK, [Next]_vars, Intact'
  PROVE  Intact /\ tears' = tears
<1>1. tears' = tears \/ tears' = tears + 1
  BY DEF Next, Proceed, Recover, StartProtect, StartRestore, StartRecover, RecoverReturnsEarly,
         CreateDailySnapshot, PlanValues, PlanPhases, BeginTransaction, CompleteProtect,
         PublishPrevious, PublishDaily, BeginCleanup, DeleteDailySnapshot, VerifyCleanup,
         MarkCleanupFailed, FailCleanup, CompleteDaily, ProtectStep, ReportApplying, ApplyStep,
         ReportVerified, CompensationStep, ReportCompensating, RecoverUntouched, RecoverDoubtful,
         RewriteOriginal, ReportCompensated, MarkUncompensated, DailyStep, BeginDailyStep,
         WriteDaily, ReportDailyVerified, MarkDailyFailed, SetPreferredRegion, Crash, TearJournal,
         UserChangesSetting, vars
<1> QED
  BY <1>1 DEF Intact, TypeOK

\* The invariant is inductive.
LEMMA InvStep ==
  ASSUME IInv, TypeOK', Announced', [Next]_vars
  PROVE  IInv'
<1>1. Fresh' /\ Applied'
  BY FreshStep, AppliedStep DEF IInv
<1>2. Intact' => Sound'
  BY TearsGrow, SoundStep DEF IInv
<1> QED
  BY <1>1, <1>2 DEF IInv

\* It holds in every state of every behaviour.
LEMMA Inductive == Spec => []IInv
<1>1. Init /\ TypeOK => IInv
  BY InvInit, AnnouncedInit DEF IInv
<1>2. IInv /\ TypeOK' /\ [Next]_vars => IInv'
  BY InvStep, AnnouncedStep DEF IInv
<1> QED
  BY <1>1, <1>2, TypeCorrect, PTL DEF Spec

-----------------------------------------------------------------------------
(* What the runs check, for every value of the constants.                  *)

\* persist-backup.json is the daily configuration for as long as a target is
\* committed: no crash, failed write or leftover snapshot turns a protected value
\* into a daily one (ADR-0006, invariant 6).
THEOREM BackupKept == Spec => []BackupIsDaily
<1>1. IInv => BackupIsDaily
  BY DEF IInv, Sound, Knows, Durable, BackupIsDaily
<1> QED
  BY <1>1, Inductive, PTL

\* "daily, healthy" on the status line is true of every setting, but for the policy
\* slot whose denial the executor does not look at, and for a list of languages
\* that Windows has folded to one its readback accepts (locale.ts:9-16).
THEOREM DailyClean == Spec => []DailyIsClean
<1>1. IInv => DailyIsClean
  BY DEF IInv, Sound, Knows, Durable, Clean, BackAt, DailyIsClean
<1> QED
  BY <1>1, Inductive, PTL

\* The write-ahead rule of journal.ts and executor.ts: recovery may close a planned
\* step without restoring it, because it has not been written.
THEOREM WriteAhead == Spec => []UntouchedUntilReported
<1>1. IInv => UntouchedUntilReported
  BY DEF IInv, Sound, Knows, Durable, Open, Matched, Undoable, Truthful, UntouchedUntilReported
<1> QED
  BY <1>1, Inductive, PTL

\* A commit of a state: what it publishes and where it comes from.
LEMMA Commits ==
  ASSUME TypeOK, [Next]_vars, state' # state
  PROVE  \/ BeginTransaction /\ state' = ProtectionState(op.base, op.base.health, op.txid)
         \/ CompleteProtect /\ state'.target = op.target
         \/ /\ PublishPrevious
            /\ state' = ProtectionState(op.base,
                          IF failed THEN "recovery_required" ELSE op.base.health, None)
         \/ PublishDaily \/ FailCleanup \/ CompleteDaily
         \/ \E region \in Regions : SetPreferredRegion(region)
<1>1. \/ BeginTransaction \/ CompleteProtect \/ PublishPrevious
      \/ PublishDaily \/ FailCleanup \/ CompleteDaily
      \/ \E region \in Regions : SetPreferredRegion(region)
  BY DEF Next, Proceed, Recover, StartProtect, StartRestore, StartRecover, RecoverReturnsEarly,
         CreateDailySnapshot, PlanValues, PlanPhases, BeginCleanup, DeleteDailySnapshot,
         VerifyCleanup, MarkCleanupFailed, ProtectStep, ReportApplying, ApplyStep,
         ReportVerified, CompensationStep, ReportCompensating, RecoverUntouched, RecoverDoubtful,
         RewriteOriginal, ReportCompensated, MarkUncompensated, DailyStep, BeginDailyStep,
         WriteDaily, ReportDailyVerified, MarkDailyFailed, Crash, TearJournal,
         UserChangesSetting, vars, files
<1>2. CASE BeginTransaction
  BY <1>2 DEF BeginTransaction, CommitState
<1>3. CASE CompleteProtect
  BY <1>3 DEF CompleteProtect, CommitState
<1>4. CASE PublishPrevious
  BY <1>4 DEF PublishPrevious, CommitState
<1> QED
  BY <1>1, <1>2, <1>3, <1>4

\* Daily is only ever published over settings that are all back at the values of the
\* backup, by restore as by recover (invariant 4).
THEOREM DailyPublished == Spec => DailyOnlyWhenRestored
<1>1. IInv /\ [Next]_vars =>
        [(Intact /\ state.target # None /\ state'.target = None) => authority = backup]_vars
  <2> SUFFICES ASSUME IInv, [Next]_vars, Intact, state.target # None, state'.target = None
               PROVE  authority = backup
    OBVIOUS
  <2>1. TypeOK /\ Sound /\ state' # state
    BY DEF IInv
  <2>2. pc \notin Cleaning
    BY <2>1, CleaningKnows DEF Cleaning
  <2>3. CASE BeginTransaction /\ state' = ProtectionState(op.base, op.base.health, op.txid)
    <3>1. Underway
      BY <2>3 DEF BeginTransaction, Underway, Unplanned
    <3>2. op.base.target # None
      BY <2>1, <3>1, TwoKinds
         DEF Sound, Knows, SameTransaction, Own, Planned, Reversible, Undoable, UnderwayFor
    <3> QED
      BY <2>3, <3>2 DEF ProtectionState
  <2>4. CASE CompleteProtect /\ state'.target = op.target
    BY <2>1, <2>4 DEF CompleteProtect, TypeOK, Located
  <2>5. CASE PublishPrevious /\ state' = ProtectionState(op.base,
                IF failed THEN "recovery_required" ELSE op.base.health, None)
    <3>1. Underway
      BY <2>5 DEF PublishPrevious, Underway, Unplanned
    <3>2. op.base.target # None
      BY <2>1, <3>1, TwoKinds
         DEF Sound, Knows, SameTransaction, Own, Planned, Reversible, Undoable, UnderwayFor
    <3> QED
      BY <2>5, <3>2 DEF ProtectionState
  <2>6. CASE PublishDaily
    BY <2>1, <2>6, CleaningKnows DEF PublishDaily, Sound, Knows, Durable
  <2>7. CASE FailCleanup \/ CompleteDaily
    BY <2>2, <2>7 DEF FailCleanup, CompleteDaily, Cleaning
  <2>8. CASE \E region \in Regions : SetPreferredRegion(region)
    BY <2>8 DEF SetPreferredRegion
  <2> QED
    BY <2>1, <2>3, <2>4, <2>5, <2>6, <2>7, <2>8, Commits
<1> QED
  BY <1>1, Inductive, PTL DEF Spec, DailyOnlyWhenRestored

\* The previous state comes back without a mark only when every setting has its
\* original value again, but for an unnoticed denial or folded list (invariant 3).
THEOREM PreviousRestored == Spec => CompensationRestores
<1>1. IInv /\ [Next]_vars =>
        [(Intact /\ pc = "publish_previous" /\ ~failed /\ state' # state)
           => \A s \in Steps : BackAt(s, op.original[s])]_vars
  <2> SUFFICES ASSUME IInv, Intact, pc = "publish_previous", ~failed, NEW s \in Steps
               PROVE  BackAt(s, op.original[s])
    OBVIOUS
  <2>1. TypeOK /\ Sound /\ Underway
    BY DEF IInv, Underway, Unplanned
  <2>2. UnderwayFor("protect")
    BY <2>1, TwoKinds DEF Sound, Knows, Restoring, UnderwayFor
  <2>3. Restored(s) /\ values.original = op.original
    BY <2>1, <2>2 DEF Sound, Undoing, Undone, Knows, SameTransaction
  <2> QED
    BY <2>3 DEF Restored, BackAt
<1> QED
  BY <1>1, Inductive, PTL DEF Spec, CompensationRestores

-----------------------------------------------------------------------------
(* What an exit code says.                                                 *)

\* A command is answered when the last commit of its operation has succeeded.
LEMMA Returns ==
  ASSUME TypeOK, [Next]_vars, Returned
  PROVE  \/ /\ CompleteProtect
            /\ state' = [target |-> op.target, preferred |-> op.target.region,
                         health |-> IF degraded THEN "degraded" ELSE "healthy", active |-> None]
         \/ /\ PublishPrevious
            /\ state' = ProtectionState(op.base,
                          IF failed THEN "recovery_required" ELSE op.base.health, None)
         \/ FailCleanup /\ state' = DailyState(op.base.preferred, "recovery_required", op.txid)
         \/ CompleteDaily /\ state' = DailyState(op.base.preferred, "healthy", None)
<1>1. pc # "idle" /\ pc' = "idle" /\ faults' = faults /\ faults \in Nat
  BY DEF Returned, TypeOK
<1>2. \A outcome \in Outcomes : Charge(outcome) => outcome = "ok"
  BY <1>1 DEF Charge, Outcomes
<1>3. ~CreateDailySnapshot /\ ~PlanValues /\ ~PlanPhases /\ ~BeginTransaction /\ ~PublishDaily
  BY <1>1, <1>2 DEF CreateDailySnapshot, PlanValues, PlanPhases, BeginTransaction, PublishDaily,
                    ContinueIf
<1>4. ~Crash
  BY <1>1 DEF Crash
<1>5. \A s \in Steps : ~ProtectStep(s) /\ ~CompensationStep(s)
  BY <1>1, AfterStepPlaces
     DEF ProtectStep, ReportApplying, ApplyStep, ReportVerified, Unwind, CompensationStep,
         ReportCompensating, RecoverUntouched, RecoverDoubtful, RewriteOriginal,
         ReportCompensated, MarkUncompensated
<1>6. \A s \in Steps : ~DailyStep(s)
  BY <1>1, AfterDailyPlaces
     DEF DailyStep, BeginDailyStep, WriteDaily, ReportDailyVerified, MarkDailyFailed, TypeOK
<1>7. CompleteProtect \/ PublishPrevious \/ FailCleanup \/ CompleteDaily
  BY <1>1, <1>3, <1>4, <1>5, <1>6
     DEF Next, Proceed, Recover, StartProtect, StartRestore, StartRecover, RecoverReturnsEarly,
         BeginCleanup, DeleteDailySnapshot, VerifyCleanup, MarkCleanupFailed,
         SetPreferredRegion, TearJournal, UserChangesSetting, vars
<1>8. CASE CompleteProtect
  BY <1>2, <1>8 DEF CompleteProtect, CommitState
<1>9. CASE PublishPrevious
  BY <1>2, <1>9 DEF PublishPrevious, CommitState
<1>10. CASE FailCleanup
  BY <1>2, <1>10 DEF FailCleanup, CommitState
<1>11. CASE CompleteDaily
  BY <1>2, <1>11 DEF CompleteDaily, CommitState
<1> QED
  BY <1>7, <1>8, <1>9, <1>10, <1>11

\* A status that cannot be read is an internal error; otherwise the outcome decides.
LEMMA ExitCodeIs ==
  ASSUME TypeOK, pc # "idle"
  PROVE  ExitCode \in {ExitInternal, ExitOfOutcome(Outcome)}
<1>1. op \in Operations /\ op.kind \in {"protect", "restore", "recover"}
  BY DEF TypeOK, Located, Operations
<1>2. StatusError' \in {None, Error("DurableFile", "CORRUPT")}
  BY DEF StatusError
<1>3. ClassifyError(Error("DurableFile", "CORRUPT")) = ExitInternal
  BY DEF ClassifyError, Error
<1>4. \A kind : \A e \in {None, Error("DurableFile", "CORRUPT")} :
        Exit(e, kind) \in {ExitInternal, ExitOfOutcome(kind)}
  BY <1>3 DEF Exit
<1>5. CASE op.kind = "protect"
  <2>1. op.target \in Targets
    BY <1>1, <1>5 DEF TypeOK, Located, Operations
  <2>2. RegionError(op.target.region) = None /\ LevelError(op.target.mode, FALSE) = None
    BY <2>1 DEF Targets, RegionError, LevelError
  <2>3. ExitCode = Exit(StatusError', Outcome)
    BY <1>5, <2>2 DEF ExitCode, PersistOnExit, Before
  <2> QED
    BY <1>2, <1>4, <2>3
<1>6. CASE op.kind = "restore"
  BY <1>2, <1>4, <1>6 DEF ExitCode, PersistOffExit, Before
<1>7. CASE op.kind = "recover"
  BY <1>2, <1>4, <1>7 DEF ExitCode, PersistRecoverExit, Before
<1> QED
  BY <1>1, <1>5, <1>6, <1>7

\* Nothing left open is all the installer asks for.
LEMMA PreflightPasses ==
  ASSUME ~torn', Health' # "recovery_required"
  PROVE  InstallerPreflight' = ExitOk
BY HealthWillBe DEF InNeed, InstallerPreflight, Unfinished, JournalRead

\* What a command says with its exit code is true of what it leaves behind: after 0
\* nothing is open, after 2 the target is on and degraded, after 22 the old one
\* stands, after 23 the status asks everybody to recover.
THEOREM ExitCodesTrue == Spec => ExitCodesAreTrue
<1>1. ASSUME IInv, IInv', [Next]_vars, Returned
      PROVE  /\ (ExitCode = ExitOk /\ Intact) => InstallerPreflight' = ExitOk
             /\ ExitCode = ExitDegraded => state'.target = op.target /\ Health' = "degraded"
             /\ ExitCode = ExitCompensated => state'.target = op.base.target
             /\ ExitCode = ExitIncompleteRecovery => Health' = "recovery_required"
  <2>1. TypeOK /\ TypeOK' /\ pc # "idle" /\ op \in Operations
    BY <1>1 DEF IInv, Returned, TypeOK, Located
  <2>2. ExitCode \in {ExitInternal, ExitOfOutcome(Outcome)}
    BY <2>1, ExitCodeIs
  <2>3. /\ ExitInternal \notin {ExitOk, ExitDegraded, ExitCompensated, ExitIncompleteRecovery}
        /\ ExitOk # ExitDegraded /\ ExitOk # ExitCompensated /\ ExitOk # ExitIncompleteRecovery
        /\ ExitDegraded # ExitCompensated /\ ExitDegraded # ExitIncompleteRecovery
        /\ ExitCompensated # ExitIncompleteRecovery
    BY DEF ExitInternal, ExitOk, ExitDegraded, ExitCompensated, ExitIncompleteRecovery
  <2>4. CASE /\ CompleteProtect
             /\ state' = [target |-> op.target, preferred |-> op.target.region,
                          health |-> IF degraded THEN "degraded" ELSE "healthy", active |-> None]
    <3>1. /\ pc = "complete" /\ op.kind = "protect"
          /\ UNCHANGED <<journal, torn>>
      BY <2>1, <2>4 DEF CompleteProtect, TypeOK, Located, journalFiles
    <3>2. /\ journal = memory /\ ~torn /\ pending = {}
          /\ memory.phase[Cleanup] = "absent"
          /\ \A s \in Steps : memory.phase[s] = AppliedPhase(s)
      BY <1>1, <3>1 DEF IInv, Applied, Applying
    <3>3. JournalSteps = Steps \cup {Cleanup}
      BY PlanAssumption DEF JournalSteps, Cleanup, Steps
    <3>4. IsSettled(journal)
      BY <3>2, <3>3 DEF IsSettled, AppliedPhase
    <3>5. Health' = IF degraded THEN "degraded" ELSE "healthy"
      BY <2>4, <3>1, <3>2, <3>4 DEF Health, Unfinished, JournalRead
    <3>6. Outcome = IF degraded THEN "degraded" ELSE "committable"
      BY <3>1 DEF Outcome
    <3>7. CASE degraded
      <4>1. ExitOfOutcome(Outcome) = ExitDegraded
        BY <3>6, <3>7 DEF ExitOfOutcome, Outcomes0
      <4> QED
        BY <2>2, <2>3, <2>4, <3>5, <3>7, <4>1
    <3>8. CASE ~degraded
      <4>1. ExitOfOutcome(Outcome) = ExitOk
        BY <3>6, <3>8 DEF ExitOfOutcome, Outcomes0
      <4>2. Health' = "healthy" /\ ~torn'
        BY <3>1, <3>2, <3>5, <3>8
      <4>3. InstallerPreflight' = ExitOk
        BY <4>2, PreflightPasses
      <4> QED
        BY <2>2, <2>3, <4>1, <4>3
    <3> QED
      BY <3>7, <3>8
  <2>5. CASE /\ PublishPrevious
             /\ state' = ProtectionState(op.base,
                           IF failed THEN "recovery_required" ELSE op.base.health, None)
    <3>1. /\ pc = "publish_previous" /\ state'.target = op.base.target /\ state'.active = None
          /\ state'.health = IF failed THEN "recovery_required" ELSE op.base.health
          /\ UNCHANGED <<journal, torn, tears>>
      BY <2>5 DEF PublishPrevious, ProtectionState, journalFiles
    <3>2. CASE failed
      <4>1. ExitOfOutcome(Outcome) = ExitIncompleteRecovery
        BY <3>1, <3>2 DEF Outcome, ExitOfOutcome, Outcomes0
      <4>2. Health' = "recovery_required"
        BY <3>1, <3>2 DEF Health
      <4> QED
        BY <2>2, <2>3, <4>1, <4>2
    <3>3. CASE ~failed /\ ~Recovering
      <4>1. ExitOfOutcome(Outcome) = ExitCompensated
        BY <3>1, <3>3 DEF Outcome, ExitOfOutcome, Outcomes0
      <4> QED
        BY <2>2, <2>3, <3>1, <4>1
    <3>4. CASE ~failed /\ Recovering
      <4>1. ExitOfOutcome(Outcome) = ExitOk
        BY <3>1, <3>4 DEF Outcome, ExitOfOutcome, Outcomes0
      <4>2. Intact => InstallerPreflight' = ExitOk
        <5> SUFFICES ASSUME Intact PROVE InstallerPreflight' = ExitOk
          OBVIOUS
        <5>1. Sound /\ Underway
          BY <1>1, <3>1 DEF IInv, Underway, Unplanned
        <5>2. UnderwayFor("protect")
          BY <2>1, <3>1, <3>4, <5>1, TwoKinds DEF Sound, Knows, Restoring, UnderwayFor
        <5>3. \A s \in Steps : journal.phase[s] \in {"absent", "compensated"}
          BY <3>1, <3>4, <5>1, <5>2 DEF Sound, Undoing, Undone, Closed, Recovering
        <5>4. /\ journal.phase[Cleanup] = "absent" /\ op.base.health # "recovery_required"
              /\ ~torn /\ journal # None
          BY <5>1, <5>2 DEF Sound, Knows, Durable, SameTransaction, Matched, Own, Planned, UnderwayFor
        <5>5. JournalSteps = Steps \cup {Cleanup}
          BY PlanAssumption DEF JournalSteps, Cleanup, Steps
        <5>6. IsSettled(journal)
          BY <5>3, <5>4, <5>5 DEF IsSettled
        <5>7. ~torn' /\ Health' # "recovery_required"
          BY <3>1, <3>4, <5>4, <5>6, HealthWillBe DEF InNeed
        <5> QED
          BY <5>7, PreflightPasses
      <4> QED
        BY <2>2, <2>3, <4>1, <4>2
    <3> QED
      BY <3>2, <3>3, <3>4
  <2>6. CASE FailCleanup /\ state' = DailyState(op.base.preferred, "recovery_required", op.txid)
    <3>1. pc = "fail_cleanup" /\ state'.health = "recovery_required"
      BY <2>6 DEF FailCleanup, DailyState
    <3>2. ExitOfOutcome(Outcome) = ExitIncompleteRecovery
      BY <3>1 DEF Outcome, ExitOfOutcome, Outcomes0
    <3>3. Health' = "recovery_required"
      BY <3>1 DEF Health
    <3> QED
      BY <2>2, <2>3, <3>2, <3>3
  <2>7. CASE CompleteDaily /\ state' = DailyState(op.base.preferred, "healthy", None)
    <3>1. /\ pc = "complete_daily" /\ state'.active = None /\ state'.health = "healthy"
          /\ UNCHANGED <<journal, torn>>
      BY <2>7 DEF CompleteDaily, DailyState, journalFiles
    <3>2. ExitOfOutcome(Outcome) = ExitOk
      BY <3>1 DEF Outcome, ExitOfOutcome, Outcomes0
    <3>3. Intact => InstallerPreflight' = ExitOk
      <4> SUFFICES ASSUME Intact PROVE InstallerPreflight' = ExitOk
        OBVIOUS
      <4>1. UnderwayFor("restore") /\ AllVerified(journal) /\ ~torn /\ Sound
        BY <1>1, <2>1, <3>1, CleaningKnows DEF IInv, Cleaning
      <4>2. journal.phase[Cleanup] = "verified"
        BY <3>1, <4>1 DEF Sound, Knows, Restoring
      <4>3. JournalSteps = Steps \cup {Cleanup}
        BY PlanAssumption DEF JournalSteps, Cleanup, Steps
      <4>4. IsSettled(journal)
        BY <4>1, <4>2, <4>3 DEF IsSettled, AllVerified
      <4>5. ~torn' /\ Health' # "recovery_required"
        BY <3>1, <4>1, <4>4, HealthWillBe DEF InNeed
      <4> QED
        BY <4>5, PreflightPasses
    <3> QED
      BY <2>2, <2>3, <3>2, <3>3
  <2> QED
    BY <1>1, <2>1, <2>4, <2>5, <2>6, <2>7, Returns
<1>2. IInv /\ IInv' /\ [Next]_vars =>
        [Returned =>
           /\ (ExitCode = ExitOk /\ Intact) => InstallerPreflight' = ExitOk
           /\ ExitCode = ExitDegraded => state'.target = op.target /\ Health' = "degraded"
           /\ ExitCode = ExitCompensated => state'.target = op.base.target
           /\ ExitCode = ExitIncompleteRecovery => Health' = "recovery_required"]_vars
  BY <1>1
<1> QED
  BY <1>2, Inductive, PTL DEF Spec, ExitCodesAreTrue
=============================================================================
