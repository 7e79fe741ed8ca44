----------------------------- MODULE Repositories -----------------------------
(***************************************************************************)
(* StateRepository and BackupRepository (state/repository.ts), with the    *)
(* deletion of the backup after a verified restore                         *)
(* (persist/verified-backup-delete.ts).                                    *)
(*                                                                         *)
(* Changes run one at a time under the root lock (RootGate, FileLock), so  *)
(* one record, `op', is the change under way.  Reads take no lock.  A call *)
(* that is refused changes nothing and is not a step.                      *)
(***************************************************************************)
EXTENDS DurableFile

CONSTANTS
  Callers,      \* those that read the state and commit a new one
  Snapshots,    \* the backups that protections create
  Converted,    \* the backup a migration makes of a legacy one
  Importer,     \* the writer of a first revision that a migration imports
  Starter,      \* the writer of a first revision where nothing is to be imported
  MaxRevision   \* bound: revisions

\* A protection state: its revision, and who wrote it.
States == [revision : 0..MaxRevision, by : Callers \cup {Importer, Starter}]
Backups == Snapshots \cup {Converted}

ASSUME RepositoryAssumption ==
  /\ {Importer, Starter} \cap Callers = {}
  /\ Importer # Starter
  /\ Converted \notin Snapshots
  /\ MaxRevision \in Nat
  /\ (States \cup Backups) \cap (Unreadable \cup {None}) = {}

VARIABLES
  running,  \* the runtime has been created: migration is behind it
  op,       \* the change under way: kind, caller or None, step, value; or None
  proof,    \* the restore proof last issued: "available" (again), "reserved",
            \* "finalized", or None
  known,    \* per caller: the state it read last, or None
  reading,  \* per caller: how its read of the current generation failed, or None
  reported  \* per revision: the states that commits have reported

callers == <<known, reading, reported>>

Op(kind, c, at, v) == [kind |-> kind, by |-> c, at |-> at, value |-> v]
At(kind, at) == op # None /\ op.kind = kind /\ op.at = at

\* Mutant of RepositoryRead: the checked file's own fallback will do.
AnyGeneration(f, failed) == ReadCheckedFile(f, failed)

\* readInternal of both repositories: what a later version wrote never lets
\* the previous generation stand in for it.
RepositoryRead(f, failed) ==
  LET result == ReadCheckedFile(f, failed)
  IN IF result.degraded /\ disk[f]["current"] = Newer /\ "current" \notin failed
     THEN [value |-> Corrupt, degraded |-> FALSE]
     ELSE result

BackupRead(failed) == RepositoryRead("backup", failed).value

-----------------------------------------------------------------------------
(* StateRepository: read, commit.                                          *)

ReadCurrent(c) ==
  /\ running
  /\ reading[c] = None
  /\ \E failed \in FailedReads \ {{"previous"}} :
       /\ ReadFault(failed)
       /\ IF failed = {} /\ Readable("state", "current")
          THEN /\ known' = [known EXCEPT ![c] = disk["state"]["current"]]
               /\ UNCHANGED reading
          ELSE /\ reading' = [reading EXCEPT ![c] = IF failed = {} THEN "unreadable" ELSE "failed"]
               /\ UNCHANGED known
  /\ UNCHANGED <<medium, write, damages, running, op, proof, reported>>

\* Anything but a readable previous generation is an error for the caller.
\* The schema of the current generation is judged by the first read, which
\* nothing changes here while Newer is in place.
ReadPrevious(c) ==
  /\ reading[c] # None
  /\ reading' = [reading EXCEPT ![c] = None]
  /\ known' = [known EXCEPT ![c] =
       IF Readable("state", "previous") /\ disk["state"]["current"] # Newer
       THEN disk["state"]["previous"] ELSE None]
  /\ UNCHANGED <<medium, write, faults, damages, running, op, proof, reported>>

\* Mutant of Committable: the last writer wins.
CommittableAnyway(expected) ==
  LET current == RepositoryRead("state", {})
  IN current.value \in States /\ ~current.degraded

\* Mutant of Committable: what was recovered is as good as current.
CommittableDegraded(expected) ==
  LET current == RepositoryRead("state", {})
  IN current.value \in States /\ current.value.revision = expected

\* The state that commit(expectedRevision, next) may replace: a current one,
\* of the expected revision.
Committable(expected) ==
  LET current == RepositoryRead("state", {})
  IN /\ current.value \in States
     /\ ~current.degraded
     /\ current.value.revision = expected

Commit(c) ==
  /\ running
  /\ op = None
  /\ known[c] # None
  /\ known[c].revision < MaxRevision
  /\ Committable(known[c].revision)
  /\ LET next == [revision |-> known[c].revision + 1, by |-> c]
     IN /\ op' = Op("commit", c, "write", next)
        /\ write' = Writing("state", next)
  /\ known' = [known EXCEPT ![c] = None]
  /\ EarlierLanded
  /\ UNCHANGED <<faults, damages, running, proof, reading, reported>>

CommitReturns ==
  /\ At("commit", "write")
  /\ write.at \in {"ok", "failed"}
  /\ reported' = IF write.at = "ok"
                 THEN [reported EXCEPT ![op.value.revision] = @ \cup {op.value}] ELSE reported
  /\ op' = None
  /\ write' = None
  /\ UNCHANGED <<medium, faults, damages, running, proof, known, reading>>

-----------------------------------------------------------------------------
(* BackupRepository: create, deleteAfterVerifiedRestore,                   *)
(* reconcileVerifiedRestoreDeletion.                                       *)

CreateBackup(s) ==
  /\ running
  /\ op = None
  /\ BackupRead({}) = None
  /\ op' = Op("create", None, "write", s)
  /\ write' = Writing("backup", s)
  /\ EarlierLanded
  /\ UNCHANGED <<faults, damages, running, proof, callers>>

CreateReturns ==
  /\ At("create", "write")
  /\ write.at \in {"ok", "failed"}
  /\ op' = None
  /\ write' = None
  /\ UNCHANGED <<medium, faults, damages, running, proof, callers>>

\* Before it cleans up, a restore or its recovery commits the daily state: what
\* is read is not a first revision any more, unless it has been damaged since.
DailyPublished ==
  LET state == RepositoryRead("state", {}).value
  IN damages > 0 \/ (state \in States /\ state.revision > 0)

\* createVerifiedBackupDelete issues a proof for the backup it has restored;
\* the repository reserves it if the backup is still that one, and
\* deleteCheckedFile begins by writing the pair anew, so that both generations
\* hold the payload.
BeginDelete ==
  /\ running
  /\ op = None
  /\ DailyPublished
  /\ \E failed \in FailedReads :
       LET backup == BackupRead(failed)
       IN /\ ReadFault(failed)
          /\ backup \in Backups
          /\ ReadCheckedFile("backup", {}).value = backup
          /\ op' = Op("delete", None, "prepare", backup)
          /\ write' = Writing("backup", backup)
  /\ proof' = "reserved"
  /\ EarlierLanded
  /\ UNCHANGED <<damages, running, callers>>

Step(at) == op' = [op EXCEPT !.at = at] /\ UNCHANGED proof
Abort == op' = None /\ proof' = "available"
Finalize == op' = None /\ proof' = "finalized"

DeletePrepared ==
  /\ At("delete", "prepare")
  /\ write.at \in {"ok", "failed"}
  /\ IF write.at = "ok" THEN Step("current") ELSE Abort
  /\ write' = None
  /\ UNCHANGED <<medium, faults, damages, running, callers>>

\* Each generation is read and compared again before the helper is asked.
DeleteCurrent ==
  /\ At("delete", "current")
  /\ \E failed \in FailedReads :
       /\ ReadFault(failed)
       /\ IF /\ ReadCheckedFile("backup", failed).value = op.value
             /\ CompareAndDelete("backup", "current", op.value) # "mismatch"
          THEN PutAndSync("backup", "current", None) /\ Step("previous")
          ELSE Abort /\ UNCHANGED <<disk, survives>>
  /\ UNCHANGED <<syncable, write, damages, running, callers>>

\* The helper fails, before or after it has deleted.
DeleteCurrentFails ==
  /\ At("delete", "current")
  /\ Fault
  /\ \/ UNCHANGED <<disk, survives>>
     \/ /\ CompareAndDelete("backup", "current", op.value) = "deleted"
        /\ Put("backup", "current", None)
  /\ Abort
  /\ UNCHANGED <<syncable, write, damages, running, callers>>

DeletePrevious ==
  /\ At("delete", "previous")
  /\ \E failed \in FailedReads :
       /\ ReadFault(failed)
       /\ IF /\ ReadCheckedFile("backup", failed).value = op.value
             /\ CompareAndDelete("backup", "previous", op.value) # "mismatch"
          THEN Put("backup", "previous", None) /\ Step("sync")
          ELSE Abort /\ UNCHANGED <<disk, survives>>
  /\ UNCHANGED <<syncable, write, damages, running, callers>>

DeletePreviousFails ==
  /\ At("delete", "previous")
  /\ Fault
  /\ \/ UNCHANGED <<disk, survives>>
     \/ /\ CompareAndDelete("backup", "previous", op.value) = "deleted"
        /\ Put("backup", "previous", None)
  /\ Step("observe")
  /\ UNCHANGED <<syncable, write, damages, running, callers>>

\* Mutant of ObserveDeletion: no answer means nothing deleted.
PresumeKept ==
  /\ At("delete", "observe")
  /\ Abort
  /\ UNCHANGED <<medium, write, faults, damages, running, callers>>

\* No answer for the last generation: look before the proof is given back.
ObserveDeletion ==
  /\ At("delete", "observe")
  /\ \E failed \in FailedReads :
       /\ ReadFault(failed)
       /\ IF ReadCheckedFile("backup", failed).value = op.value
          THEN Abort ELSE Step("reconcile")
  /\ UNCHANGED <<medium, write, damages, running, callers>>

SyncDeleted ==
  /\ At("delete", "sync")
  /\ PutAndSync("backup", "previous", None)
  /\ Finalize
  /\ UNCHANGED <<syncable, write, faults, damages, running, callers>>

SyncDeletedFails ==
  /\ At("delete", "sync")
  /\ Fault
  /\ Step("reconcile")
  /\ UNCHANGED <<medium, write, damages, running, callers>>

\* possiblyDeleted: the disk decides what becomes of the proof.
Reconcile ==
  /\ At("delete", "reconcile")
  /\ \E failed \in FailedReads :
       LET backup == BackupRead(failed)
       IN /\ ReadFault(failed)
          /\ \/ backup = None /\ Finalize
             \/ backup = op.value /\ Abort
             \/ backup \notin {None, op.value} /\ op' = None /\ UNCHANGED proof
  /\ UNCHANGED <<medium, write, damages, running, callers>>

DeleteStep ==
  \/ DeletePrepared \/ DeleteCurrent \/ DeleteCurrentFails
  \/ DeletePrevious \/ DeletePreviousFails \/ ObserveDeletion
  \/ SyncDeleted \/ SyncDeletedFails \/ Reconcile

=============================================================================
