---------------------------- MODULE StateDirectory ----------------------------
(***************************************************************************)
(* The state directory over its life: the runtime is created               *)
(* (persist/runtime.ts), which initialises the state or migrates a version *)
(* 3 backup (state/migration.ts) unless the migration sentinel is there;   *)
(* then the repositories work on it; processes die, the power goes, files  *)
(* are damaged or written by a later version, at any point.                *)
(*                                                                         *)
(* Migration runs under the root lock, as every change does.  Evidence is  *)
(* named by the hash of the bytes, so what is preserved of other bytes     *)
(* than the legacy ones is left out.                                       *)
(***************************************************************************)
EXTENDS Repositories

CONSTANT Idle  \* of the abstract register: no write is under way

VARIABLES
  sentinel,   \* legacy-migration.json is there
  evidence,   \* the copy of the legacy bytes: None, "torn" or "whole"
  legacyFits  \* the legacy backup is complete, and the settings found on the
              \* machine are those of one target, in the region it names

migration == <<sentinel, evidence, legacyFits>>
vars == <<medium, write, faults, damages, running, op, proof, callers, migration>>

\* The writes and the changes that may be under way.
Writes == [file : Files, payload : States \cup Backups,
           at : {"rotate", "replace", "sync", "ok", "failed"}]
Changes == [kind : {"commit", "create", "delete", "migrate"},
            by : Callers \cup {None}, value : States \cup Backups,
            at : {"write", "prepare", "current", "previous", "observe", "sync", "reconcile",
                  "daily", "evidence", "convert", "converting", "import", "unconvert"}]

ASSUME DirectoryAssumption ==
  None \notin Writes \cup Changes \cup
    {"unreadable", "failed", "torn", "whole", "available", "reserved", "finalized"}

\* initializeImported writes one of these as the first revision.
Imported == [revision |-> 0, by |-> Importer]
Daily == [revision |-> 0, by |-> Starter]

\* readBytes asks for the current generation alone.
LegacyBytes == disk["backup"]["current"]

\* What may become of the bytes: every fact of the daily settings is among them
\* or some are not (BackupSnapshot), and what is found beside them fits or not.
Verdicts(bytes) == IF bytes = Legacy THEN BOOLEAN ELSE {TRUE}

Init ==
  /\ \E bytes \in {None, Legacy} :
       disk = [f \in Files |-> [g \in Generations |->
                 IF f = "backup" /\ g = "current" THEN bytes ELSE None]]
  /\ survives = [f \in Files |-> [g \in Generations |-> {disk[f][g]}]]
  /\ syncable \in BOOLEAN
  /\ write = None
  /\ faults = 0
  /\ damages = 0
  /\ running = FALSE
  /\ op = None
  /\ proof = None
  /\ known = [c \in Callers |-> None]
  /\ reading = [c \in Callers |-> None]
  /\ reported = [r \in 1..MaxRevision |-> {}]
  /\ sentinel = FALSE
  /\ evidence = None
  /\ legacyFits \in Verdicts(LegacyBytes)

-----------------------------------------------------------------------------
(* createPersistRuntime.                                                   *)

Started ==
  /\ running' = TRUE
  /\ op' = None
  /\ write' = None

\* A failure to write it is swallowed.
WriteSentinel ==
  \/ sentinel' = TRUE /\ UNCHANGED faults
  \/ sentinel' = sentinel /\ Fault

\* The migration has come to an end.
Settled == Started /\ WriteSentinel

Initialize(state) == write' = Writing("state", state)

GivenUp ==
  /\ op' = None
  /\ write' = None
  /\ UNCHANGED <<running, sentinel>>

StartMigrated ==
  /\ ~running /\ op = None
  /\ sentinel
  /\ Started
  /\ UNCHANGED <<medium, faults, damages, proof, callers, migration>>

\* The state is there already: nothing to migrate.
StartInitialised ==
  /\ ~running /\ op = None
  /\ ~sentinel
  /\ RepositoryRead("state", {}).value \in States
  /\ Settled
  /\ UNCHANGED <<medium, damages, proof, callers, evidence, legacyFits>>

Migrating == ~running /\ op = None /\ ~sentinel /\ RepositoryRead("state", {}).value = None

StartDaily ==
  /\ Migrating
  /\ LegacyBytes = None
  /\ op' = Op("migrate", None, "daily", Daily)
  /\ Initialize(Daily)
  /\ EarlierLanded
  /\ UNCHANGED <<faults, damages, running, proof, callers, migration>>

\* Mutant of StartLegacy: only evidence that does not exist yet is in order.
StartLegacyOnce ==
  /\ Migrating
  /\ LegacyBytes = Legacy
  /\ evidence = None
  /\ op' = Op("migrate", None, "evidence", Imported)
  /\ evidence' = "torn"
  /\ EarlierLanded
  /\ UNCHANGED <<write, faults, damages, running, proof, callers, sentinel, legacyFits>>

\* preserve(): created exclusively, then filled.  A file that is there already
\* must hold the same bytes.
StartLegacy ==
  /\ Migrating
  /\ LegacyBytes = Legacy
  /\ evidence # "torn"
  /\ op' = Op("migrate", None, "evidence", Imported)
  /\ evidence' = IF evidence = None THEN "torn" ELSE evidence
  /\ EarlierLanded
  /\ UNCHANGED <<write, faults, damages, running, proof, callers, sentinel, legacyFits>>

\* Mutant of PreserveEvidence: evidence is a courtesy.
PreserveIfPossible ==
  /\ At("migrate", "evidence")
  /\ \/ evidence' = "whole" /\ UNCHANGED faults
     \/ Fault /\ UNCHANGED evidence
  /\ Step("convert")
  /\ UNCHANGED <<medium, write, damages, running, callers, sentinel, legacyFits>>

PreserveEvidence ==
  /\ At("migrate", "evidence")
  /\ \/ evidence' = "whole" /\ Step("convert") /\ UNCHANGED faults
     \/ evidence' \in {evidence, "whole"} /\ op' = None /\ Fault /\ UNCHANGED proof
  /\ UNCHANGED <<medium, write, damages, running, callers, sentinel, legacyFits>>

\* parse and classify; what does not fit is for the user to recover.
Convert ==
  /\ At("migrate", "convert")
  /\ IF legacyFits
     THEN Step("converting") /\ write' = Writing("backup", Converted)
     ELSE op' = None /\ UNCHANGED <<write, proof>>
  /\ UNCHANGED <<medium, faults, damages, running, callers, migration>>

\* Mutant of ConvertedIsRead: a write that returned is taken at its word.
ConversionReturned(failed) == write.at \in {"ok", "failed"}

ConvertedIsRead(failed) == ReadCheckedFile("backup", failed).value = Converted

\* replaceLegacy, after its write: what is on the disk decides.
ConvertReturns ==
  /\ At("migrate", "converting")
  /\ write.at \in {"ok", "failed"}
  /\ \E failed \in {{}, {"current"}} :
       /\ ReadFault(failed)
       /\ IF ConvertedIsRead(failed)
          THEN Step("import") /\ Initialize(Imported)
          ELSE /\ IF write.at = "failed" /\ failed # {}
                  THEN Step("unconvert") ELSE op' = None /\ UNCHANGED proof
               /\ write' = None
  /\ UNCHANGED <<medium, damages, running, callers, migration>>

ImportReturns ==
  /\ At("migrate", "import") \/ At("migrate", "daily")
  /\ \/ /\ write.at = "ok"
        /\ Settled
        /\ UNCHANGED proof
     \/ /\ write.at = "failed"
        /\ IF op.at = "import" THEN Step("unconvert") ELSE op' = None /\ UNCHANGED proof
        /\ write' = None
        /\ UNCHANGED <<running, sentinel, faults>>
  /\ UNCHANGED <<medium, damages, callers, evidence, legacyFits>>

\* restoreLegacy; it may fail before or after its replacement.
RestoreLegacy ==
  /\ At("migrate", "unconvert")
  /\ \/ PutAndSync("backup", "current", Legacy) /\ UNCHANGED faults
     \/ Fault /\ Put("backup", "current", Legacy)
     \/ Fault /\ UNCHANGED <<disk, survives>>
  /\ GivenUp
  /\ UNCHANGED <<syncable, damages, proof, callers, evidence, legacyFits>>

MigrationStep ==
  \/ StartMigrated \/ StartInitialised \/ StartDaily \/ StartLegacy
  \/ PreserveEvidence \/ Convert \/ ConvertReturns \/ ImportReturns \/ RestoreLegacy

-----------------------------------------------------------------------------
(* Processes, power and medium.                                            *)

\* The process that makes the change, or the only one there is, dies.
Die ==
  /\ running \/ op # None
  /\ Fault
  /\ op' = None
  /\ write' = None
  /\ proof' = None
  /\ running' = FALSE
  /\ UNCHANGED <<medium, damages, callers, migration>>

\* What a power loss may leave of a file's generations.
Left(f) ==
  {[g \in Generations |-> IF g = "current" THEN c ELSE p] :
     c \in survives[f]["current"], p \in survives[f]["previous"]}

PowerLoss ==
  /\ Damage
  /\ \E s \in Left("state"), b \in Left("backup") :
       disk' = [f \in Files |-> IF f = "state" THEN s ELSE b]
  /\ survives' = [f \in Files |-> [g \in Generations |-> {disk'[f][g]}]]
  /\ sentinel' \in (IF syncable THEN {sentinel} ELSE {sentinel, FALSE})
  /\ evidence' \in (IF syncable /\ evidence # "torn" THEN {evidence} ELSE {evidence, None})
  /\ op' = None
  /\ write' = None
  /\ proof' = None
  /\ running' = FALSE
  /\ known' = [c \in Callers |-> None]
  /\ reading' = [c \in Callers |-> None]
  /\ reported' = IF syncable THEN reported ELSE [r \in 1..MaxRevision |-> {}]
  /\ UNCHANGED <<syncable, faults, legacyFits>>

SetContent(f, g, c) ==
  /\ disk' = [disk EXCEPT ![f][g] = c]
  /\ survives' = [survives EXCEPT ![f][g] = {c}]

\* A generation is damaged.  The medium is damaged at rest.
DamageGeneration(f, g) ==
  /\ op = None
  /\ Damage
  /\ Readable(f, g)
  /\ SetContent(f, g, Corrupt)
  /\ UNCHANGED <<syncable, write, faults, running, op, proof, callers, migration>>

\* A later version of the program has rewritten a file.
NewerVersionWrites(f) ==
  /\ op = None
  /\ Damage
  /\ Readable(f, "current")
  /\ SetContent(f, "current", Newer)
  /\ UNCHANGED <<syncable, write, faults, running, op, proof, callers, migration>>

Next ==
  \/ WriteStep /\ UNCHANGED <<running, op, proof, callers, migration>>
  \/ \E c \in Callers : (ReadCurrent(c) \/ ReadPrevious(c) \/ Commit(c)) /\ UNCHANGED migration
  \/ CommitReturns /\ UNCHANGED migration
  \/ \E s \in Snapshots : CreateBackup(s) /\ UNCHANGED migration
  \/ CreateReturns /\ UNCHANGED migration
  \/ BeginDelete /\ UNCHANGED migration
  \/ DeleteStep /\ UNCHANGED migration
  \/ MigrationStep
  \/ Die
  \/ PowerLoss
  \/ \E f \in Files : NewerVersionWrites(f) \/ \E g \in Generations : DamageGeneration(f, g)

\* A process goes on with what it has begun, and the user starts the program
\* again whenever it is not running.
Spec ==
  /\ Init /\ [][Next]_vars
  /\ WF_vars(WriteStep /\ UNCHANGED <<running, op, proof, callers, migration>>)
  /\ WF_vars(MigrationStep)
-----------------------------------------------------------------------------
(* Properties.                                                             *)

TypeOK ==
  /\ disk \in [Files -> [Generations -> States \cup Backups \cup Unreadable \cup {None}]]
  /\ \A f \in Files, g \in Generations :
       survives[f][g] \subseteq States \cup Backups \cup Unreadable \cup {None}
  /\ {syncable, running, sentinel, legacyFits} \subseteq BOOLEAN
  /\ write \in Writes \cup {None}
  /\ op \in Changes \cup {None}
  /\ proof \in {None, "available", "reserved", "finalized"}
  /\ known \in [Callers -> States \cup {None}]
  /\ reading \in [Callers -> {None, "unreadable", "failed"}]
  /\ reported \in [1..MaxRevision -> SUBSET States]
  /\ evidence \in {None, "torn", "whole"}
  /\ faults \in 0..MaxFaults
  /\ damages \in 0..MaxDamages

\* What readCheckedFile finds when nothing fails.
Logical(f) == ReadCheckedFile(f, {}).value

\* What the change under way makes of the file.
Pending(f) ==
  IF op = None THEN Idle
  ELSE IF op.kind = "delete" /\ f = "backup" THEN None
  ELSE IF op.at = "unconvert" /\ f = "backup"
       THEN IF Readable(f, "previous") THEN disk[f]["previous"] ELSE Corrupt
  ELSE IF write # None /\ write.file = f THEN write.payload
  ELSE Idle

RegisterValues == States \cup Backups \cup {Corrupt, None}

ASSUME RegisterAssumption == Idle \notin RegisterValues

StateRegister == INSTANCE CheckedRegister
  WITH Values <- RegisterValues, value <- Logical("state"), pending <- Pending("state")
BackupRegister == INSTANCE CheckedRegister
  WITH Values <- RegisterValues, value <- Logical("backup"), pending <- Pending("backup")

\* Two generations, rotated, replaced and deleted one at a time, by programs
\* that fail and die in between, are one register per file for whoever reads
\* them: no step of a write but one shows, and without damage a reader never
\* finds anything but what was written last.
FilesAreRegisters == StateRegister!Spec /\ BackupRegister!Spec

\* The lock-free read looks at the two generations at different times.  What
\* it returns from the second is what the file holds at that time, unless the
\* first read failed for no reason of the content.
ReadsAreCurrent ==
  [][\A c \in Callers :
       /\ reading[c] = "unreadable"
       /\ reading'[c] = None
       /\ known'[c] # None
       => known'[c] = Logical("state")]_vars

\* Optimistic concurrency: two commits never report success for the same
\* revision, however stale what their callers read, also when the current
\* generation is damaged and an older one stands in.
RevisionNamesOneState == \A r \in 1..MaxRevision : Cardinality(reported[r]) <= 1

\* Where directories can be synced, a power loss at any moment takes back no
\* commit that was reported, unless the generation itself is damaged.
ReportedCommitsSurvive ==
  (syncable /\ disk["state"]["current"] \in States) =>
    \A r \in 1..MaxRevision :
      reported[r] # {} =>
        \A left \in Left("state") :
          left["current"] \in States /\ left["current"].revision >= r

\* No change of a file begins while its current generation is one of a later
\* version of the program, though an older generation beside it can be read.
\* (A read that fails hides the later version: the exception.)
NewerIsLeftAlone ==
  [][\A f \in Files :
       (disk[f]["current"] = Newer /\ op = None /\ faults' = faults) => Pending(f)' = Idle]_vars

\* The restore proof is used up only when no generation of the backup is left,
\* and given back for another attempt only while the backup can still be read:
\* a half deleted backup is neither lost nor taken for deleted.
ProofFollowsBackup ==
  [][/\ (proof = "reserved" /\ proof' = "finalized") => Logical("backup")' = None
     /\ (proof = "reserved" /\ proof' = "available") => Logical("backup")' = op.value]_vars

\* The bytes of the version 3 backup are kept, at their place or as evidence,
\* through conversion, its undoing, crashes and deletion; a power loss can take
\* them only where directories cannot be synced.
LegacyIsKept ==
  (evidence # None /\ (syncable \/ damages = 0)) =>
    LegacyBytes = Legacy \/ evidence = "whole"

\* An imported state comes with the backup it needs, in every step of a running
\* program whose medium is not damaged: after the migration that reports it, and
\* after later starts, through failures and deaths in the conversion, the
\* import and their undoing.  The exception is a pair that migration.ts:439-445
\* leaves: an import that is reported as failed but did reach the disk
\* (durable-file.ts:740-744) has its backup put back, and the next start finds a
\* state, takes the migration for settled (runtime.ts:144-152) and runs it beside
\* a version 3 backup that nothing reads any more.
ImportedWithItsBackup ==
  [][(running' /\ damages' = 0 /\ Logical("state")' = Imported) =>
       \/ Logical("backup")' = Converted
       \/ ~At("migrate", "import") /\ LegacyBytes' = Legacy]_vars

\* What no later start can migrate: facts that need the user; a state that
\* cannot be read; a torn evidence file, which can be neither completed nor
\* replaced; and a backup converted by a migration that did not live to write
\* the state, which is not a version 3 backup any more.
Blocked ==
  \/ ~legacyFits
  \/ RepositoryRead("state", {}).value = Corrupt
  \/ /\ Logical("state") = None
     /\ \/ evidence = "torn" /\ LegacyBytes = Legacy
        \/ LegacyBytes \notin {None, Legacy}

\* Started again after every crash and failure, the program comes up, but for
\* the four cases of Blocked.  (It may come up over the pair that
\* ImportedWithItsBackup excepts.)
MigrationSettles == <>[](running \/ Blocked)
=============================================================================
