------------------------------ MODULE DurableFile ------------------------------
(***************************************************************************)
(* Checked files: two generations per file, written and read by            *)
(* state/durable-file.ts through the file system.                          *)
(*                                                                         *)
(* A generation is read as the payload of its envelope or not at all: the  *)
(* hash, the schema and the validator of the payload decide.  A write      *)
(* under way is one record, `write'.  A temporary file is named anew for   *)
(* each write and read by nobody, so only the two replacements and the     *)
(* directory syncs are steps; a failure while a temporary file is prepared *)
(* is a failure of the step that needs it.  The boundary checks (reparse   *)
(* points, identity of the root) fail a call like any other failed         *)
(* operation does.                                                         *)
(*                                                                         *)
(* A process that dies leaves the files as they are.  A power loss leaves  *)
(* in every generation one of the contents it had since the last directory *)
(* sync.  On Windows there is none: syncable is FALSE and no write is ever *)
(* reported as durable.                                                    *)
(***************************************************************************)
EXTENDS Naturals, FiniteSets

CONSTANTS
  Legacy,      \* the bytes of a version 3 backup
  Newer,       \* an envelope or payload of a later schema
  Corrupt,     \* other bytes that do not check
  None,        \* no such file
  MaxFaults,   \* bound: failed operations, and processes that die
  MaxDamages   \* bound: power losses and damaged generations

Files == {"state", "backup"}
Generations == {"current", "previous"}

\* What a generation may hold that this program does not read.
Unreadable == {Legacy, Newer, Corrupt}

ASSUME ContentAssumption ==
  /\ None \notin Unreadable
  /\ Corrupt \notin {Legacy, Newer}
  /\ Legacy # Newer
  /\ MaxFaults \in Nat
  /\ MaxDamages \in Nat

VARIABLES
  disk,      \* per file and generation: its content
  survives,  \* per file and generation: the contents a power loss may leave
  syncable,  \* the platform can sync a directory
  write,     \* the write under way: file, payload and step; or None
  faults,
  damages

medium == <<disk, survives, syncable>>

Fault == faults < MaxFaults /\ faults' = faults + 1
Damage == damages < MaxDamages /\ damages' = damages + 1

\* Mutant of Readable: the envelope is not validated.
Present(f, g) == disk[f][g] # None

Readable(f, g) == disk[f][g] \notin Unreadable \cup {None}

\* The generations whose read may fail for once; that is a fault.
FailedReads == {{}, {"current"}, {"previous"}}
ReadFault(failed) == IF failed = {} THEN UNCHANGED faults ELSE Fault

\* readCheckedFile: a payload, None, or Corrupt for every error it throws.
\* The previous generation stands in whenever the current one cannot be read.
ReadCheckedFile(f, failed) ==
  LET usable == {g \in Generations \ failed : Readable(f, g)}
      missing == failed = {} /\ \A g \in Generations : disk[f][g] = None
  IN [value |-> IF "current" \in usable THEN disk[f]["current"]
                ELSE IF "previous" \in usable THEN disk[f]["previous"]
                ELSE IF missing THEN None ELSE Corrupt,
      degraded |-> "current" \notin usable /\ "previous" \in usable]

\* Generation g of f gets content c; the power may go before that is synced.
Put(f, g, c) ==
  /\ disk' = [disk EXCEPT ![f][g] = c]
  /\ survives' = [survives EXCEPT ![f][g] = @ \cup {c}]

\* The same, with the sync of the directory that holds all files.
PutAndSync(f, g, c) ==
  /\ disk' = [disk EXCEPT ![f][g] = c]
  /\ survives' = IF syncable THEN [x \in Files |-> [y \in Generations |-> {disk'[x][y]}]]
                             ELSE [survives EXCEPT ![f][g] = @ \cup {c}]

\* Bound: where directories cannot be synced, what earlier changes have put has
\* reached the medium by the time the next change begins.
EarlierLanded ==
  /\ survives' = IF syncable THEN survives
                 ELSE [x \in Files |-> [y \in Generations |-> {disk[x][y]}]]
  /\ UNCHANGED <<disk, syncable>>

-----------------------------------------------------------------------------
(* writeCheckedFile.                                                       *)

Writing(f, v) == [file |-> f, payload |-> v, at |-> "rotate"]

\* Mutant of Rotate: whatever the current generation is becomes the previous one.
RotateUnchecked ==
  /\ write # None /\ write.at = "rotate"
  /\ PutAndSync(write.file, "previous", disk[write.file]["current"])
  /\ write' = [write EXCEPT !.at = "replace"]
  /\ UNCHANGED <<syncable, faults, damages>>

\* The current generation is copied over the previous one, unless it cannot
\* be read as a payload: the copy is written from what was read.  A failed
\* sync here is the same as a failure of the next step.
Rotate ==
  /\ write # None /\ write.at = "rotate"
  /\ IF Readable(write.file, "current")
     THEN PutAndSync(write.file, "previous", disk[write.file]["current"])
     ELSE UNCHANGED <<disk, survives>>
  /\ write' = [write EXCEPT !.at = "replace"]
  /\ UNCHANGED <<syncable, faults, damages>>

Replace ==
  /\ write # None /\ write.at = "replace"
  /\ Put(write.file, "current", write.payload)
  /\ write' = [write EXCEPT !.at = "sync"]
  /\ UNCHANGED <<syncable, faults, damages>>

\* Mutant of SyncReplaced: reported as written without a sync.
ReplacedIsEnough ==
  /\ write # None /\ write.at = "sync"
  /\ write' = [write EXCEPT !.at = "ok"]
  /\ UNCHANGED <<medium, faults, damages>>

SyncReplaced ==
  /\ write # None /\ write.at = "sync"
  /\ PutAndSync(write.file, "current", disk[write.file]["current"])
  /\ write' = [write EXCEPT !.at = "ok"]
  /\ UNCHANGED <<syncable, faults, damages>>

\* At "sync" the replacement has happened and the write is reported as failed
\* all the same (possiblyCommitted).
WriteFails ==
  /\ write # None /\ write.at \in {"rotate", "replace", "sync"}
  /\ Fault
  /\ write' = [write EXCEPT !.at = "failed"]
  /\ UNCHANGED <<medium, damages>>

WriteStep == Rotate \/ Replace \/ SyncReplaced \/ WriteFails

-----------------------------------------------------------------------------
(* The native helper (native-helper/src/main.rs): it deletes a generation  *)
(* only while its bytes are the expected ones.  Its answer may be lost     *)
(* after the deletion.                                                     *)

CompareAndDelete(f, g, expected) ==
  IF disk[f][g] = None THEN "missing"
  ELSE IF disk[f][g] = expected THEN "deleted" ELSE "mismatch"

=============================================================================
