------------------------- MODULE StateDirectoryProofs -------------------------
(***************************************************************************)
(* StateDirectory proved for every number of callers, snapshots,           *)
(* revisions, faults and damages.  The inductive invariant IInv says, per  *)
(* change under way, what its write has put where.                         *)
(***************************************************************************)
EXTENDS StateDirectory, FiniteSetTheorems, TLAPS

Payloads(f) == IF f = "state" THEN States ELSE Backups
Contents == States \cup Backups \cup Unreadable \cup {None}

\* Each file holds its own payloads, and a power loss may leave what is there.
Stored ==
  /\ disk \in [Files -> [Generations -> Contents]]
  /\ survives \in [Files -> [Generations -> SUBSET Contents]]
  /\ \A f \in Files, g \in Generations :
       /\ survives[f][g] \subseteq Payloads(f) \cup Unreadable \cup {None}
       /\ disk[f][g] \in survives[f][g]

Carries(f, v) == write # None /\ write.file = f /\ write.payload = v

\* The first revision that a migration writes from the step at.
First(at) == IF at = "daily" THEN Daily ELSE Imported

\* A change and the write it has under way.
Fits ==
  /\ write # None => op # None
  /\ op # None =>
       \/ /\ op.kind = "commit" /\ op.at = "write"
          /\ op.value \in States /\ op.value.revision \in 1..MaxRevision
          /\ Carries("state", op.value)
       \/ /\ op.kind = "create" /\ op.at = "write"
          /\ op.value \in Backups
          /\ Carries("backup", op.value)
       \/ /\ op.kind = "delete"
          /\ op.at \in {"prepare", "current", "previous", "observe", "sync", "reconcile"}
          /\ op.value \in Backups
          /\ IF op.at = "prepare" THEN Carries("backup", op.value) ELSE write = None
       \/ /\ op.kind = "migrate"
          /\ op.at \in {"daily", "evidence", "convert", "converting", "import", "unconvert"}
          /\ op.value = First(op.at)
          /\ op.at \in {"daily", "import"} => Carries("state", op.value)
          /\ op.at = "converting" => Carries("backup", Converted)
          /\ op.at \in {"evidence", "convert", "unconvert"} => write = None

\* How far a write has come.
Written ==
  write # None =>
    /\ write.at \in {"sync", "ok"} => disk[write.file]["current"] = write.payload
    /\ (write.at = "ok" /\ syncable) => survives[write.file]["current"] = {write.payload}

Doing(kind) == op # None /\ op.kind = kind

\* Both generations are made to hold the payload before the first is deleted.
Deleting ==
  Doing("delete") =>
    LET current == disk["backup"]["current"]
        previous == disk["backup"]["previous"]
    IN /\ op.at = "prepare" =>
            /\ IF Readable("backup", "current") THEN current = op.value ELSE previous = op.value
            /\ write.at \in {"replace", "sync", "ok"} => previous = op.value
       /\ op.at = "current" => current = op.value /\ previous = op.value
       /\ op.at = "previous" => current = None /\ previous = op.value
       /\ op.at \in {"observe", "reconcile"} => current = None /\ previous \in {None, op.value}
       /\ op.at = "sync" => current = None /\ previous = None

\* A commit replaces a current state of the revision before, and is the first
\* to report its own.
Committing ==
  Doing("commit") =>
    /\ disk["state"]["current"] \in States
    /\ write.at \in {"rotate", "replace"} =>
         disk["state"]["current"].revision + 1 = op.value.revision
    /\ reported[op.value.revision] = {}

\* A migration begins with no state, and what it converts is the legacy backup.
Importing ==
  Doing("migrate") =>
    /\ ~running
    /\ \A r \in 1..MaxRevision : reported[r] = {}
    /\ \A c \in Callers : reading[c] # "unreadable"
    /\ disk["state"]["current"] \in {None, op.value}
    /\ op.at \in {"evidence", "convert"} => LegacyBytes = Legacy
    /\ op.at = "converting" => LegacyBytes \in {Legacy, Converted}
    /\ op.at = "import" => Logical("backup") = Converted
    /\ op.at \in {"convert", "converting", "import", "unconvert"} => evidence = "whole"

Bad == {Newer, Corrupt}

\* c is damaged or at least of revision r.
Holds(c, r) == c \in Bad \/ (c \in States /\ c.revision >= r)

ReportedOnce == \A r \in 1..MaxRevision : reported[r] = {} \/ \E s \in States : reported[r] = {s}

\* What was reported is in place, and survives where directories can be synced.
Landed ==
  \A r \in 1..MaxRevision :
    reported[r] # {} =>
      /\ Holds(disk["state"]["current"], r)
      /\ syncable => \A c \in survives["state"]["current"] : Holds(c, r)

\* Damage is never written over.
DamageShows ==
  (syncable /\ survives["state"]["current"] \cap Bad # {}) => disk["state"]["current"] \in Bad

NoState == disk["state"]["current"] = None /\ disk["state"]["previous"] = None

\* Nobody reads before there is a state, or a sentinel for one that was lost;
\* and what a first read could not read, no write repairs.
Readers ==
  /\ running => (sentinel \/ ~NoState)
  /\ \A c \in Callers :
       reading[c] = "unreadable" => ~Readable("state", "current") /\ (sentinel \/ ~NoState)

Untouched ==
  /\ survives["backup"]["current"] = {Legacy}
  /\ survives["backup"]["previous"] = {None}

\* Until the evidence is whole, nothing touches the legacy backup.
Kept ==
  ((syncable \/ damages = 0) /\ evidence # "whole") =>
    \/ Untouched /\ ~Doing("create") /\ ~Doing("delete")
    \/ evidence = None /\ Legacy \notin survives["backup"]["current"]

IInv ==
  /\ TypeOK /\ Stored /\ Fits /\ Written /\ Deleting /\ Committing /\ Importing
  /\ ReportedOnce /\ Landed /\ DamageShows /\ Readers /\ Kept

-----------------------------------------------------------------------------
(* What reads return, and what the steps of a write do to the medium, one  *)
(* generation at a time.                                                   *)

Legible(c) == c \notin Unreadable \cup {None}

LogicalOf(file) ==
  IF Legible(file["current"]) THEN file["current"]
  ELSE IF Legible(file["previous"]) THEN file["previous"]
  ELSE IF file["current"] = None /\ file["previous"] = None THEN None ELSE Corrupt

\* What a read returns that fails for the generations in failed.
LEMMA ReadIs ==
  ASSUME NEW f \in Files, NEW failed \in FailedReads
  PROVE  LET first == Legible(disk[f]["current"]) /\ "current" \notin failed
             second == Legible(disk[f]["previous"]) /\ "previous" \notin failed
             result == ReadCheckedFile(f, failed)
         IN /\ result.value = IF first THEN disk[f]["current"]
                              ELSE IF second THEN disk[f]["previous"]
                              ELSE IF /\ failed = {}
                                      /\ disk[f]["current"] = None
                                      /\ disk[f]["previous"] = None THEN None ELSE Corrupt
            /\ result.degraded <=> (~first /\ second)
  BY DEF ReadCheckedFile, FailedReads, Generations, Readable, Legible

LEMMA LogicalIs ==
  \A f \in Files : Logical(f) = LogicalOf(disk[f]) /\ Logical(f)' = LogicalOf(disk'[f])
  BY DEF Logical, LogicalOf, ReadCheckedFile, Generations, Readable, Legible

\* Where a read of a repository finds its value.
LEMMA RepositoryReadIs ==
  ASSUME Stored, NEW f \in Files, NEW failed \in FailedReads
  PROVE  LET result == RepositoryRead(f, failed)
         IN /\ result.value = None =>
                 failed = {} /\ disk[f]["current"] = None /\ disk[f]["previous"] = None
            /\ result.value \in Payloads(f) =>
                 /\ result.value \in {disk[f]["current"], disk[f]["previous"]}
                 /\ result = ReadCheckedFile(f, failed)
                 /\ ~result.degraded => result.value = disk[f]["current"]
                 /\ failed = {} => disk[f]["current"] # Newer
<1> DEFINE result == RepositoryRead(f, failed)
           checked == ReadCheckedFile(f, failed)
           current == disk[f]["current"]
           previous == disk[f]["previous"]
           first == Legible(current) /\ "current" \notin failed
           second == Legible(previous) /\ "previous" \notin failed
<1>1. /\ checked.value = IF first THEN current ELSE IF second THEN previous
                         ELSE IF failed = {} /\ current = None /\ previous = None
                              THEN None ELSE Corrupt
      /\ checked.degraded <=> (~first /\ second)
  BY ReadIs
<1>2. result = IF checked.degraded /\ current = Newer /\ "current" \notin failed
               THEN [value |-> Corrupt, degraded |-> FALSE] ELSE checked
  BY DEF RepositoryRead
<1>3. Payloads(f) \cap (Unreadable \cup {None}) = {}
  BY RepositoryAssumption DEF Payloads
<1> HIDE DEF result, checked
<1>4. ~Legible(Newer) /\ ~Legible(None) /\ Corrupt \in Unreadable /\ Corrupt # None
  BY ContentAssumption DEF Legible, Unreadable
<1>5. result.value = None => failed = {} /\ current = None /\ previous = None
  BY <1>1, <1>2, <1>4
<1>6. result.value \in Payloads(f) =>
        /\ result = checked
        /\ result.value \in {current, previous}
        /\ ~result.degraded => result.value = current
        /\ failed = {} => current # Newer
  BY <1>1, <1>2, <1>3, <1>4
<1> QED
  BY <1>5, <1>6 DEF result, checked

\* Generation g of f holds c now; no power loss leaves more than that and what
\* it might have left before.
Sets(f, g, c) ==
  /\ \A x \in Files, y \in Generations :
       /\ disk'[x][y] = IF x = f /\ y = g THEN c ELSE disk[x][y]
       /\ survives'[x][y] \subseteq survives[x][y] \cup {disk'[x][y]}
  /\ syncable' = syncable
  /\ Stored'

Keeps ==
  /\ disk' = disk
  /\ \A x \in Files, y \in Generations : survives'[x][y] \subseteq survives[x][y]
  /\ syncable' = syncable
  /\ Stored'

LEMMA PutSets ==
  ASSUME Stored, NEW f \in Files, NEW g \in Generations,
         NEW c \in Payloads(f) \cup Unreadable \cup {None},
         Put(f, g, c) \/ PutAndSync(f, g, c), UNCHANGED syncable
  PROVE  Sets(f, g, c)
<1>1. /\ disk' \in [Files -> [Generations -> Contents]]
      /\ \A x \in Files, y \in Generations :
           disk'[x][y] = IF x = f /\ y = g THEN c ELSE disk[x][y]
  <2>1. disk' = [disk EXCEPT ![f][g] = c]
    BY DEF Put, PutAndSync
  <2>2. c \in Contents
    BY DEF Payloads, Contents
  <2> QED
    BY <2>1, <2>2 DEF Stored
<1>2. /\ survives' \in [Files -> [Generations -> SUBSET Contents]]
      /\ \A x \in Files, y \in Generations :
           /\ survives'[x][y] \subseteq survives[x][y] \cup {disk'[x][y]}
           /\ disk'[x][y] \in survives'[x][y]
  <2>1. CASE syncable /\ PutAndSync(f, g, c)
    BY <1>1, <2>1 DEF PutAndSync, Stored
  <2>2. CASE Put(f, g, c) \/ ~syncable
    <3>1. survives' = [survives EXCEPT ![f][g] = @ \cup {c}]
      BY <2>2 DEF Put, PutAndSync
    <3>2. c \in Contents
      BY DEF Payloads, Contents
    <3> QED
      BY <1>1, <3>1, <3>2 DEF Stored
  <2> QED
    BY <2>1, <2>2
<1> QED
  BY <1>1, <1>2 DEF Sets, Stored

LEMMA SyncKeeps ==
  ASSUME Stored, NEW f \in Files, NEW g \in Generations,
         PutAndSync(f, g, disk[f][g]), UNCHANGED syncable
  PROVE  Keeps /\ (syncable => survives'[f][g] = {disk[f][g]})
<1>1. disk[f][g] \in Payloads(f) \cup Unreadable \cup {None}
  BY DEF Stored
<1>2. Sets(f, g, disk[f][g])
  BY <1>1, PutSets
<1>3. disk' = disk
  BY DEF PutAndSync, Stored
<1>4. \A x \in Files, y \in Generations : survives'[x][y] \subseteq survives[x][y]
  BY <1>2, <1>3 DEF Sets, Stored
<1> QED
  BY <1>2, <1>3, <1>4 DEF Keeps, Sets, PutAndSync

LEMMA EarlierLandedKeeps ==
  ASSUME Stored, EarlierLanded
  PROVE  Keeps
<1>1. CASE syncable
  BY <1>1 DEF EarlierLanded, Keeps, Stored
<1>2. CASE ~syncable
  BY <1>2 DEF EarlierLanded, Keeps, Stored
<1> QED
  BY <1>1, <1>2

LEMMA MediumKeeps ==
  ASSUME Stored, UNCHANGED <<disk, survives>>, UNCHANGED syncable
  PROVE  Keeps
  BY DEF Keeps, Stored

LEMMA SetContentSets ==
  ASSUME Stored, NEW f \in Files, NEW g \in Generations, NEW c \in Unreadable,
         SetContent(f, g, c), UNCHANGED syncable
  PROVE  /\ Sets(f, g, c)
         /\ survives'[f][g] = {c}
<1>1. /\ disk' \in [Files -> [Generations -> Contents]]
      /\ \A x \in Files, y \in Generations :
           disk'[x][y] = IF x = f /\ y = g THEN c ELSE disk[x][y]
  BY DEF SetContent, Stored, Contents
<1>2. /\ survives' \in [Files -> [Generations -> SUBSET Contents]]
      /\ \A x \in Files, y \in Generations :
           survives'[x][y] = IF x = f /\ y = g THEN {c} ELSE survives[x][y]
  BY DEF SetContent, Stored, Contents
<1> QED
  BY <1>1, <1>2 DEF Sets, Stored

\* A power loss leaves in each generation one of the contents it may leave.
LEMMA PowerLossLeaves ==
  ASSUME Stored, PowerLoss
  PROVE  /\ Stored'
         /\ syncable' = syncable
         /\ \A x \in Files, y \in Generations :
              disk'[x][y] \in survives[x][y] /\ survives'[x][y] = {disk'[x][y]}
<1>1. PICK s \in Left("state"), b \in Left("backup") :
        disk' = [f \in Files |-> IF f = "state" THEN s ELSE b]
  BY DEF PowerLoss
<1>2. \A y \in Generations : s[y] \in survives["state"][y] /\ b[y] \in survives["backup"][y]
  BY DEF Left, Generations
<1>3. \A x \in Files, y \in Generations : disk'[x][y] \in survives[x][y]
  BY <1>1, <1>2 DEF Files
<1>4. disk' \in [Files -> [Generations -> Contents]]
  <2>1. s \in [Generations -> Contents] /\ b \in [Generations -> Contents]
    BY <1>2 DEF Left, Stored, Files, Generations
  <2> QED
    BY <1>1, <2>1
<1>5. survives' = [f \in Files |-> [g \in Generations |-> {disk'[f][g]}]]
  BY DEF PowerLoss
<1>6. \A x \in Files, y \in Generations : survives'[x][y] = {disk'[x][y]}
  BY <1>5
<1>7. survives' \in [Files -> [Generations -> SUBSET Contents]]
  BY <1>4, <1>5
<1> QED
  BY <1>3, <1>4, <1>6, <1>7 DEF Stored, PowerLoss

-----------------------------------------------------------------------------
(* Changes and writes, and what a step leaves of the invariant that it does *)
(* not touch.                                                              *)

LEMMA Constants ==
  /\ Imported \in States /\ Imported.revision = 0
  /\ Daily \in States /\ Daily # Imported
  /\ Converted \in Backups
  /\ States \cap (Unreadable \cup {None}) = {}
  /\ Backups \cap (Unreadable \cup {None}) = {}
  /\ None \notin Unreadable
  BY RepositoryAssumption, ContentAssumption DEF Imported, Daily, States, Backups

Steps == {"write", "prepare", "current", "previous", "observe", "sync", "reconcile",
          "daily", "evidence", "convert", "converting", "import", "unconvert"}

\* The change under way is now at step at.
Moves(at) ==
  /\ op' \in Changes /\ op' # None
  /\ op'.kind = op.kind /\ op'.value = op.value /\ op'.at = at

LEMMA StepMoves ==
  ASSUME op \in Changes, NEW at \in Steps, op' = [op EXCEPT !.at = at]
  PROVE  Moves(at)
  BY DirectoryAssumption DEF Moves, Changes, Steps

LEMMA OpStarts ==
  ASSUME NEW kind \in {"commit", "create", "delete", "migrate"}, NEW c \in Callers \cup {None},
         NEW at \in Steps, NEW v \in States \cup Backups, op' = Op(kind, c, at, v)
  PROVE  /\ op' \in Changes /\ op' # None
         /\ op'.kind = kind /\ op'.value = v /\ op'.at = at
  BY DirectoryAssumption DEF Op, Changes, Steps

LEMMA WriteStarts ==
  ASSUME NEW f \in Files, NEW v \in States \cup Backups, write' = Writing(f, v)
  PROVE  /\ write' \in Writes /\ write' # None
         /\ write'.file = f /\ write'.payload = v /\ write'.at = "rotate"
  BY DirectoryAssumption DEF Writing, Writes

LEMMA WriteMoves ==
  ASSUME write \in Writes, NEW at \in {"replace", "sync", "ok", "failed"},
         write' = [write EXCEPT !.at = at]
  PROVE  /\ write' \in Writes /\ write' # None
         /\ write'.file = write.file /\ write'.payload = write.payload /\ write'.at = at
  BY DirectoryAssumption DEF Writes

LEMMA ReadableIsPayload ==
  ASSUME Stored, NEW f \in Files, NEW g \in Generations
  PROVE  Readable(f, g) <=> disk[f][g] \in Payloads(f)
  BY Constants DEF Stored, Readable, Payloads

\* Nothing changes, or the backup alone.
BackupOnly == Keeps \/ \E g \in Generations, c \in Contents : Sets("backup", g, c)

LEMMA StateFrame ==
  ASSUME IInv, BackupOnly
  PROVE  /\ UNCHANGED reported => ReportedOnce' /\ Landed' /\ DamageShows'
         /\ UNCHANGED <<running, sentinel, reading>> => Readers'
<1>1. /\ syncable' = syncable
      /\ \A y \in Generations :
           /\ disk'["state"][y] = disk["state"][y]
           /\ survives'["state"][y] \subseteq survives["state"][y]
  <2>1. \A y \in Generations : disk["state"][y] \in survives["state"][y]
    BY DEF IInv, Stored, Files
  <2> QED
    BY <2>1 DEF BackupOnly, Keeps, Sets, Files
<1>2. UNCHANGED reported => ReportedOnce' /\ Landed' /\ DamageShows'
  BY <1>1 DEF IInv, ReportedOnce, Landed, DamageShows, Generations
<1>3. UNCHANGED <<running, sentinel, reading>> => Readers'
  BY <1>1 DEF IInv, Readers, NoState, Readable, Generations
<1> QED
  BY <1>2, <1>3

\* A change comes to its end.
LEMMA EndFrame ==
  ASSUME op' = None, write' = None
  PROVE  Fits' /\ Written' /\ Deleting' /\ Committing' /\ Importing'
  BY DEF Fits, Written, Deleting, Committing, Importing, Doing

\* The legacy backup is touched by changes that begin after it is gone or kept.
LEMMA KeptFrame ==
  ASSUME IInv, UNCHANGED <<evidence, damages>>, syncable' = syncable,
         Doing("create")' => Doing("create"), Doing("delete")' => Doing("delete"),
         \/ Keeps
         \/ \E g \in Generations, c \in Contents : Sets("state", g, c)
         \/ /\ Doing("create") \/ Doing("delete") \/ evidence = "whole"
            /\ \E g \in Generations, c \in Contents \ {Legacy} : Sets("backup", g, c)
  PROVE  Kept'
<1>1. CASE ~((syncable \/ damages = 0) /\ evidence # "whole")
  BY <1>1 DEF Kept
<1>2. CASE Untouched /\ ~Doing("create") /\ ~Doing("delete") /\ evidence # "whole"
  <2>1. \A y \in Generations : survives'["backup"][y] \subseteq survives["backup"][y]
    BY <1>2 DEF Keeps, Sets, IInv, Stored, Files
  <2>2. Untouched'
    BY <1>2, <2>1 DEF Untouched, Keeps, Sets, Stored, Files, Generations
  <2> QED
    BY <1>2, <2>2 DEF Kept
<1>3. CASE evidence = None /\ Legacy \notin survives["backup"]["current"]
  <2>1. survives'["backup"]["current"] \subseteq survives["backup"]["current"] \cup (Contents \ {Legacy})
    BY <1>3 DEF Keeps, Sets, IInv, Stored, Files, Generations
  <2> QED
    BY <1>3, <2>1 DEF Kept
<1> QED
  BY <1>1, <1>2, <1>3 DEF IInv, Kept

-----------------------------------------------------------------------------
(* The steps of a write.                                                   *)

LEMMA WriteStepType ==
  ASSUME IInv, WriteStep, UNCHANGED <<running, op, proof, callers, migration>>
  PROVE  /\ op \in Changes /\ op # None /\ write \in Writes /\ write # None /\ op' = op
         /\ write' \in Writes /\ write' # None
         /\ write'.file = write.file /\ write'.payload = write.payload
         /\ \/ write.at = "rotate" /\ write'.at = "replace"
            \/ write.at = "replace" /\ write'.at = "sync"
            \/ write.at = "sync" /\ write'.at = "ok"
            \/ write'.at = "failed"
         /\ write.payload \in Payloads(write.file)
<1>1. write # None /\ write \in Writes /\ op \in Changes /\ op # None
  BY DEF WriteStep, Rotate, Replace, SyncReplaced, WriteFails, IInv, TypeOK, Fits
<1>2. write.payload \in Payloads(write.file)
  BY <1>1, Constants DEF IInv, Fits, First, Carries, Payloads
<1>3. CASE Rotate
  BY <1>1, <1>2, <1>3, WriteMoves DEF Rotate
<1>4. CASE Replace
  BY <1>1, <1>2, <1>4, WriteMoves DEF Replace
<1>5. CASE SyncReplaced
  BY <1>1, <1>2, <1>5, WriteMoves DEF SyncReplaced
<1>6. CASE WriteFails
  BY <1>1, <1>2, <1>6, WriteMoves DEF WriteFails
<1> QED
  BY <1>3, <1>4, <1>5, <1>6 DEF WriteStep

\* What a step of a write does to the medium: a payload that can be read comes
\* to the previous generation, or what is written to the current one.
LEMMA WriteStepMedium ==
  ASSUME IInv, WriteStep, UNCHANGED <<running, op, proof, callers, migration>>
  PROVE  \/ /\ Keeps
            /\ write'.at = "replace" => ~Readable(write.file, "current")
            /\ write'.at # "sync"
         \/ /\ write.at = "rotate" /\ Readable(write.file, "current")
            /\ Sets(write.file, "previous", disk[write.file]["current"])
         \/ /\ write.at = "replace" /\ write'.at = "sync"
            /\ Sets(write.file, "current", write.payload)
<1> USE DEF IInv, Generations
<1>1. write \in Writes /\ write # None /\ write.payload \in Payloads(write.file)
  BY WriteStepType
<1>2. write.file \in Files /\ disk[write.file]["current"] \in Payloads(write.file) \cup Unreadable \cup {None}
  BY <1>1 DEF Writes, Stored
<1>3. CASE Rotate
  <2>1. CASE Readable(write.file, "current")
    BY <1>2, <1>3, <2>1, PutSets DEF Rotate
  <2>2. CASE ~Readable(write.file, "current")
    BY <1>3, <2>2, MediumKeeps DEF Rotate
  <2> QED
    BY <2>1, <2>2, <1>3 DEF Rotate
<1>4. CASE Replace
  BY <1>1, <1>2, <1>4, PutSets, WriteMoves DEF Replace
<1>5. CASE SyncReplaced
  BY <1>1, <1>2, <1>5, SyncKeeps, WriteMoves DEF SyncReplaced
<1>6. CASE WriteFails
  BY <1>1, <1>6, MediumKeeps, WriteMoves DEF WriteFails, medium
<1> QED
  BY <1>3, <1>4, <1>5, <1>6 DEF WriteStep

LEMMA WriteStepWritten ==
  ASSUME IInv, WriteStep, UNCHANGED <<running, op, proof, callers, migration>>
  PROVE  Written'
<1> USE DEF IInv, Generations
<1>1. /\ write \in Writes /\ write # None /\ write.file \in Files
      /\ write'.file = write.file /\ write'.payload = write.payload
  BY WriteStepType DEF Writes
<1>2. CASE write'.at = "ok"
  <2>1. SyncReplaced
    BY <1>1, <1>2, WriteMoves DEF WriteStep, Rotate, Replace, WriteFails, SyncReplaced
  <2>2. Keeps /\ (syncable => survives'[write.file]["current"] = {disk[write.file]["current"]})
    BY <1>1, <2>1, SyncKeeps DEF SyncReplaced
  <2> QED
    BY <1>1, <1>2, <2>1, <2>2 DEF Written, Keeps, SyncReplaced
<1>3. CASE write'.at = "sync"
  BY <1>1, <1>3, WriteStepMedium, WriteStepType DEF Written, Sets, Replace, WriteStep, Keeps
<1>4. CASE write'.at \notin {"sync", "ok"}
  BY <1>4 DEF Written
<1> QED
  BY <1>2, <1>3, <1>4

LEMMA WriteStepDeleting ==
  ASSUME IInv, WriteStep, UNCHANGED <<running, op, proof, callers, migration>>
  PROVE  Deleting'
<1> SUFFICES ASSUME Doing("delete")
             PROVE  Deleting'
  BY DEF Doing, Deleting
<1>1. op.at = "prepare" /\ Carries("backup", op.value) /\ op.value \in Backups
  BY WriteStepType DEF IInv, Fits, Doing
<1>2. /\ IF Readable("backup", "current") THEN disk["backup"]["current"] = op.value
         ELSE disk["backup"]["previous"] = op.value
      /\ write.at \in {"replace", "sync", "ok"} => disk["backup"]["previous"] = op.value
  BY <1>1 DEF IInv, Deleting
<1>3. op.value \notin Unreadable \cup {None}
  BY <1>1, Constants
<1>4. /\ IF Readable("backup", "current")' THEN disk'["backup"]["current"] = op.value
         ELSE disk'["backup"]["previous"] = op.value
      /\ write'.at \in {"replace", "sync", "ok"} => disk'["backup"]["previous"] = op.value
  <2>1. CASE Keeps /\ (write'.at = "replace" => ~Readable(write.file, "current"))
    BY <1>1, <1>2, <2>1, WriteStepType DEF Keeps, Readable, Carries
  <2>2. CASE Sets("backup", "previous", disk["backup"]["current"]) /\ Readable("backup", "current")
    BY <1>2, <2>2 DEF Sets, Readable, Files, Generations
  <2>3. CASE Sets("backup", "current", op.value) /\ write.at = "replace"
    BY <1>2, <1>3, <2>3 DEF Sets, Readable, Files, Generations
  <2> QED
    BY <1>1, <2>1, <2>2, <2>3, WriteStepMedium DEF Carries
<1> QED
  BY <1>1, <1>4, WriteStepType DEF Deleting, Doing

LEMMA WriteStepState ==
  ASSUME IInv, WriteStep, UNCHANGED <<running, op, proof, callers, migration>>
  PROVE  Committing' /\ Importing'
<1> USE DEF IInv, Files, Generations
<1>1. write' # None /\ write'.file = write.file
  BY WriteStepType
<1>2. Committing'
  <2> SUFFICES ASSUME Doing("commit")
               PROVE  Committing'
    BY DEF Doing, Committing
  <2>1. /\ Carries("state", op.value) /\ op.value \in States
        /\ op.value.revision \in 1..MaxRevision
    BY DEF Fits, Doing
  <2>2. /\ disk["state"]["current"] \in States
        /\ write.at \in {"rotate", "replace"} =>
             disk["state"]["current"].revision + 1 = op.value.revision
        /\ reported[op.value.revision] = {}
    BY DEF Committing
  <2>3. CASE disk'["state"]["current"] = disk["state"]["current"]
    <3>1. write'.at \in {"rotate", "replace"} => write.at \in {"rotate", "replace"}
      BY WriteStepType
    <3> QED
      BY <2>2, <2>3, <3>1 DEF Committing, Doing, callers
  <2>4. CASE disk'["state"]["current"] = op.value /\ write'.at = "sync"
    BY <2>1, <2>2, <2>4 DEF Committing, Doing, callers
  <2> QED
    BY <2>1, <2>3, <2>4, WriteStepMedium DEF Sets, Keeps, Carries
<1>3. Importing'
  <2> SUFFICES ASSUME Doing("migrate")
               PROVE  Importing'
    BY DEF Doing, Importing
  <2>1. \/ op.at \in {"daily", "import"} /\ Carries("state", op.value)
        \/ op.at = "converting" /\ Carries("backup", Converted)
    BY WriteStepType DEF Fits, Doing
  <2>2. CASE Carries("state", op.value) /\ op.at \in {"daily", "import"}
    <3>1. disk'["backup"] = disk["backup"]
      BY <2>2, WriteStepMedium DEF Sets, Keeps, Carries, Stored
    <3>2. disk'["state"]["current"] \in {disk["state"]["current"], op.value}
      BY <2>2, WriteStepMedium DEF Sets, Keeps, Carries
    <3>3. Logical("backup")' = Logical("backup")
      BY <3>1, LogicalIs
    <3> QED
      BY <2>2, <3>2, <3>3 DEF Importing, Doing, callers, migration
  <2>3. CASE Carries("backup", Converted) /\ op.at = "converting"
    <3>1. /\ disk'["state"]["current"] = disk["state"]["current"]
          /\ disk'["backup"]["current"] \in {disk["backup"]["current"], Converted}
      BY <2>3, WriteStepMedium DEF Sets, Keeps, Carries
    <3> QED
      BY <2>3, <3>1 DEF Importing, Doing, callers, migration, LegacyBytes
  <2> QED
    BY <2>1, <2>2, <2>3
<1> QED
  BY <1>2, <1>3

LEMMA WriteStepLanded ==
  ASSUME IInv, WriteStep, UNCHANGED <<running, op, proof, callers, migration>>
  PROVE  ReportedOnce' /\ Landed' /\ DamageShows' /\ Readers'
<1> USE DEF IInv, Files, Generations
<1>1. ReportedOnce'
  BY DEF ReportedOnce, callers
<1>2. CASE /\ write.at = "replace" /\ Carries("state", op.value)
           /\ Sets("state", "current", op.value)
           /\ Doing("commit") \/ Doing("migrate")
  <2>1. op.value \in States
    BY <1>2, Constants DEF Fits, First, Doing
  <2>2. disk["state"]["current"] \notin Bad
    BY <1>2, <2>1, Constants, ContentAssumption DEF Committing, Importing, Bad, Unreadable
  <2>3. Landed'
    <3> SUFFICES ASSUME NEW r \in 1..MaxRevision, reported[r] # {}
                 PROVE  /\ Holds(disk'["state"]["current"], r)
                        /\ syncable => \A c \in survives'["state"]["current"] : Holds(c, r)
      BY <1>2 DEF Landed, Sets, callers
    <3>1. Doing("commit")
      BY <1>2 DEF Importing
    <3>2. disk["state"]["current"] \in States /\ disk["state"]["current"].revision >= r
      BY <2>2 DEF Landed, Holds
    <3>3. /\ disk["state"]["current"].revision + 1 = op.value.revision
          /\ {disk["state"]["current"].revision, op.value.revision} \subseteq Int
      BY <1>2, <2>1, <3>1, <3>2, RepositoryAssumption DEF Committing, States
    <3>4. Holds(op.value, r)
      BY <2>1, <3>2, <3>3 DEF Holds
    <3> QED
      BY <1>2, <3>4 DEF Landed, Sets
  <2>4. DamageShows'
    BY <1>2, <2>1, <2>2, Constants DEF DamageShows, Sets, Bad, Unreadable
  <2>5. Readers'
    <3>1. /\ \A c \in Callers : reading[c] # "unreadable"
          /\ disk'["state"]["current"] # None
      BY <1>2, <2>1, Constants DEF Importing, Committing, Readers, Readable, Sets
    <3> QED
      BY <3>1 DEF Readers, NoState, callers, migration
  <2> QED
    BY <1>1, <2>3, <2>4, <2>5
<1>3. CASE /\ disk'["state"]["current"] = disk["state"]["current"]
           /\ disk'["state"]["previous"] # disk["state"]["previous"] => disk'["state"]["previous"] # None
           /\ survives'["state"]["current"] \subseteq survives["state"]["current"]
           /\ syncable' = syncable
  <2>1. Landed' /\ DamageShows'
    BY <1>3 DEF Landed, DamageShows, callers
  <2>2. Readers'
    BY <1>3 DEF Readers, NoState, Readable, callers, migration
  <2> QED
    BY <1>1, <2>1, <2>2
<1>4. \A f \in Files, g \in Generations : disk[f][g] \in survives[f][g]
  BY DEF Stored
<1>5. write.file \in Files /\ (write.file = "state" => Carries("state", op.value) /\ (Doing("commit") \/ Doing("migrate")))
  BY WriteStepType DEF Fits, Carries, Doing, Writes
<1>6. CASE Keeps
  BY <1>3, <1>6 DEF Keeps
<1>7. CASE Readable(write.file, "current") /\ Sets(write.file, "previous", disk[write.file]["current"])
  BY <1>3, <1>4, <1>5, <1>7 DEF Sets, Readable
<1>8. CASE write.at = "replace" /\ Sets(write.file, "current", write.payload)
  <2>1. CASE write.file = "state"
    BY <1>2, <1>5, <1>8, <2>1 DEF Carries
  <2>2. CASE write.file # "state"
    BY <1>3, <1>4, <1>5, <1>8, <2>2 DEF Sets
  <2> QED
    BY <2>1, <2>2
<1> QED
  BY <1>6, <1>7, <1>8, WriteStepMedium

LEMMA WriteStepKept ==
  ASSUME IInv, WriteStep, UNCHANGED <<running, op, proof, callers, migration>>
  PROVE  Kept'
<1> USE DEF IInv, Generations
<1>1. damages' = damages /\ syncable' = syncable
  BY DEF WriteStep, Rotate, Replace, SyncReplaced, WriteFails, medium
<1>2. write.payload \in Contents \ {Legacy} /\ disk[write.file]["current"] \in Contents
  BY WriteStepType, Constants DEF Payloads, Contents, Unreadable, Writes, Stored
<1>3. write.file = "backup" => Doing("create") \/ Doing("delete") \/ evidence = "whole"
  BY WriteStepType DEF Fits, Carries, Doing, Importing
<1>4. Readable(write.file, "current") => disk[write.file]["current"] # Legacy
  BY DEF Readable, Unreadable
<1>5. \/ Keeps
      \/ \E g \in Generations, c \in Contents \ {Legacy} : Sets(write.file, g, c)
  BY <1>2, <1>4, WriteStepMedium
<1>6. write.file \in {"state", "backup"}
  BY WriteStepType DEF Writes, Files
<1>7. (Doing("create")' <=> Doing("create")) /\ (Doing("delete")' <=> Doing("delete"))
  BY DEF Doing
<1> QED
  BY <1>1, <1>3, <1>5, <1>6, <1>7, KeptFrame DEF migration

LEMMA WriteStepKeepsIInv ==
  ASSUME IInv, WriteStep, UNCHANGED <<running, op, proof, callers, migration>>
  PROVE  IInv'
<1>1. Stored'
  BY WriteStepMedium DEF Keeps, Sets
<1>2. TypeOK'
  <2>1. faults' \in 0..MaxFaults /\ damages' \in 0..MaxDamages /\ syncable' = syncable
    BY ContentAssumption DEF WriteStep, Rotate, Replace, SyncReplaced, WriteFails, Fault, medium, IInv, TypeOK
  <2> QED
    BY <1>1, <2>1, WriteStepType DEF IInv, TypeOK, Stored, Contents, callers, migration
<1>3. Fits'
  BY WriteStepType DEF IInv, Fits, Carries
<1> QED
  BY <1>1, <1>2, <1>3, WriteStepWritten, WriteStepDeleting, WriteStepState, WriteStepLanded,
     WriteStepKept DEF IInv

-----------------------------------------------------------------------------
(* Reads and commits of the state.                                         *)

LEMMA ReadKeepsIInv ==
  ASSUME IInv, NEW c \in Callers, ReadCurrent(c) \/ ReadPrevious(c), UNCHANGED migration
  PROVE  IInv'
<1> USE DEF IInv
<1>1. /\ Keeps /\ disk' = disk /\ survives' = survives /\ syncable' = syncable
      /\ UNCHANGED <<write, op, running, proof, reported, damages>>
  BY MediumKeeps DEF ReadCurrent, ReadPrevious, medium
<1>2. /\ known' \in [Callers -> States \cup {None}]
      /\ reading' \in [Callers -> {None, "unreadable", "failed"}]
      /\ faults' \in 0..MaxFaults
  <2>1. \A g \in Generations : Readable("state", g) => disk["state"][g] \in States
    BY ReadableIsPayload DEF Files, Payloads
  <2>2. CASE ReadCurrent(c)
    BY <2>1, <2>2, ContentAssumption DEF ReadCurrent, ReadFault, Fault, TypeOK, Generations
  <2>3. CASE ReadPrevious(c)
    BY <2>1, <2>3 DEF ReadPrevious, TypeOK, Generations
  <2> QED
    BY <2>2, <2>3
<1>3. TypeOK'
  BY <1>1, <1>2 DEF TypeOK, migration
<1>4. Fits' /\ Written' /\ Deleting' /\ Committing'
  BY <1>1 DEF Fits, Written, Carries, Deleting, Committing, Doing, Readable
<1>5. \A d \in Callers : reading'[d] = "unreadable" =>
        \/ reading[d] = "unreadable"
        \/ running /\ ~Readable("state", "current")
  <2>1. CASE ReadCurrent(c)
    BY <2>1 DEF ReadCurrent, TypeOK
  <2>2. CASE ReadPrevious(c)
    BY <2>2, DirectoryAssumption DEF ReadPrevious, TypeOK
  <2> QED
    BY <2>1, <2>2
<1>6. Importing'
  BY <1>1, <1>5 DEF Importing, Doing, LegacyBytes, Logical, ReadCheckedFile, Readable, migration
<1>7. Readers'
  BY <1>1, <1>5 DEF Readers, Readable, NoState, migration
<1>8. ReportedOnce' /\ Landed' /\ DamageShows'
  BY <1>1, StateFrame DEF BackupOnly
<1>9. Kept'
  BY <1>1, KeptFrame DEF Doing, migration
<1> QED
  BY <1>1, <1>3, <1>4, <1>6, <1>7, <1>8, <1>9 DEF Keeps

LEMMA CommitKeepsIInv ==
  ASSUME IInv, NEW c \in Callers, Commit(c), UNCHANGED migration
  PROVE  IInv'
<1> USE DEF IInv
<1>1. /\ Keeps /\ disk' = disk
      /\ UNCHANGED <<running, sentinel, evidence, faults, damages, proof, reading, reported, legacyFits>>
  BY EarlierLandedKeeps DEF Commit, EarlierLanded, migration
<1> DEFINE next == [revision |-> known[c].revision + 1, by |-> c]
<1>2. /\ known[c] \in States /\ known[c].revision \in 0..MaxRevision
      /\ next \in States /\ next.revision = known[c].revision + 1
      /\ next.revision \in 1..MaxRevision
  BY RepositoryAssumption DEF Commit, TypeOK, States
<1>3. /\ op' = Op("commit", c, "write", next) /\ write' = Writing("state", next)
      /\ op = None /\ running /\ known' = [known EXCEPT ![c] = None]
  BY DEF Commit
<1> HIDE DEF next
<1>4. /\ op' \in Changes /\ op' # None /\ op'.kind = "commit" /\ op'.value = next
      /\ op'.at = "write"
  BY <1>2, <1>3, OpStarts DEF Steps
<1>5. /\ write' \in Writes /\ write' # None
      /\ write'.file = "state" /\ write'.payload = next /\ write'.at = "rotate"
  BY <1>2, <1>3, WriteStarts DEF Files
<1>6. disk["state"]["current"] \in States /\ disk["state"]["current"].revision = known[c].revision
  BY RepositoryReadIs DEF Commit, Committable, Files, Payloads, FailedReads
<1>7. TypeOK'
  <2>1. known' \in [Callers -> States \cup {None}]
    BY <1>3 DEF TypeOK
  <2> QED
    BY <1>1, <1>4, <1>5, <2>1 DEF TypeOK, Keeps, Stored, Contents
<1>8. Fits' /\ Written' /\ Deleting' /\ Importing'
  BY <1>2, <1>4, <1>5 DEF Fits, Written, Deleting, Importing, Doing, Carries
<1>9. Committing'
  <2>1. reported[next.revision] = {}
    BY <1>2, <1>6, Constants, ContentAssumption DEF Landed, Holds, Bad, Unreadable, States
  <2> QED
    BY <1>1, <1>2, <1>4, <1>5, <1>6, <2>1 DEF Committing, Doing
<1>10. ReportedOnce' /\ Landed' /\ DamageShows' /\ Readers'
  BY <1>1, StateFrame DEF BackupOnly
<1>11. Kept'
  BY <1>1, <1>4, KeptFrame DEF Doing, Keeps
<1> QED
  BY <1>1, <1>7, <1>8, <1>9, <1>10, <1>11 DEF Keeps

LEMMA CommitReturnsKeepsIInv ==
  ASSUME IInv, CommitReturns, UNCHANGED migration
  PROVE  IInv'
<1> USE DEF IInv
<1>1. /\ Keeps /\ disk' = disk /\ survives' = survives /\ syncable' = syncable
      /\ op' = None /\ write' = None
      /\ UNCHANGED <<running, faults, damages, proof, known, reading>>
  BY MediumKeeps DEF CommitReturns, medium
<1>2. /\ op.value \in States /\ op.value.revision \in 1..MaxRevision
      /\ Carries("state", op.value) /\ Doing("commit")
      /\ reported[op.value.revision] = {}
  BY DEF CommitReturns, At, Fits, Committing, Doing
<1>3. \/ reported' = reported
      \/ /\ write.at = "ok"
         /\ reported' \in [1..MaxRevision -> SUBSET States]
         /\ \A r \in 1..MaxRevision :
              reported'[r] = IF r = op.value.revision THEN {op.value} ELSE reported[r]
  BY <1>2 DEF CommitReturns, TypeOK
<1>4. TypeOK'
  BY <1>1, <1>3 DEF TypeOK, migration
<1>5. ReportedOnce'
  BY <1>2, <1>3 DEF ReportedOnce
<1>6. Landed'
  <2> SUFFICES ASSUME NEW r \in 1..MaxRevision, reported'[r] # {}
               PROVE  /\ Holds(disk["state"]["current"], r)
                      /\ syncable => \A c \in survives["state"]["current"] : Holds(c, r)
    BY <1>1 DEF Landed
  <2>1. CASE reported[r] # {}
    BY <2>1 DEF Landed
  <2>2. CASE reported[r] = {}
    <3>1. r = op.value.revision /\ write.at = "ok"
      BY <1>3, <2>2
    <3>2. Holds(op.value, r)
      BY <1>2, <3>1 DEF Holds, States
    <3> QED
      BY <1>2, <3>1, <3>2 DEF Written, Carries
  <2> QED
    BY <2>1, <2>2
<1>7. DamageShows' /\ Readers'
  BY <1>1 DEF DamageShows, Readers, NoState, Readable, migration
<1>8. Kept'
  BY <1>1, KeptFrame DEF Doing, migration
<1> QED
  BY <1>1, <1>4, <1>5, <1>6, <1>7, <1>8, EndFrame DEF Keeps

-----------------------------------------------------------------------------
(* The backup is created and deleted.                                      *)

\* Neither begins while the legacy backup is the only copy of its bytes.
LEMMA BackupBegins ==
  ASSUME IInv, Keeps, UNCHANGED <<evidence, damages>>,
         \/ disk["backup"]["current"] = None
         \/ disk["backup"]["current"] \in Backups
         \/ disk["backup"]["previous"] \in Backups
  PROVE  Kept'
<1> USE DEF IInv, Files, Generations
<1>1. \/ ~((syncable \/ damages = 0) /\ evidence # "whole")
      \/ evidence = None /\ Legacy \notin survives["backup"]["current"]
  <2>1. ~Untouched
    BY Constants DEF Untouched, Stored, Unreadable
  <2> QED
    BY <2>1 DEF Kept
<1> QED
  BY <1>1 DEF Kept, Keeps

LEMMA BackupBeginsKeepsIInv ==
  ASSUME IInv, UNCHANGED migration, (\E s \in Snapshots : CreateBackup(s)) \/ BeginDelete
  PROVE  IInv'
<1> USE DEF IInv
<1>1. /\ Keeps /\ disk' = disk /\ op = None
      /\ UNCHANGED <<running, damages, known, reading, reported>>
      /\ faults' \in 0..MaxFaults
      /\ proof' \in {None, "available", "reserved", "finalized"}
  BY EarlierLandedKeeps, ContentAssumption
     DEF CreateBackup, BeginDelete, EarlierLanded, ReadFault, Fault, callers, TypeOK
<1>2. PICK v \in Backups :
        /\ write' = Writing("backup", v)
        /\ \/ op' = Op("create", None, "write", v) /\ disk["backup"]["current"] = None
           \/ /\ op' = Op("delete", None, "prepare", v)
              /\ IF Readable("backup", "current") THEN disk["backup"]["current"] = v
                 ELSE disk["backup"]["previous"] = v
  <2>1. CASE \E s \in Snapshots : CreateBackup(s)
    <3>1. PICK s \in Snapshots : CreateBackup(s)
      BY <2>1
    <3>2. disk["backup"]["current"] = None
      BY <3>1, RepositoryReadIs DEF CreateBackup, BackupRead, Files, FailedReads
    <3> QED
      BY <3>1, <3>2 DEF CreateBackup, Backups
  <2>2. CASE BeginDelete
    <3>1. PICK failed \in FailedReads :
            LET backup == BackupRead(failed)
            IN /\ backup \in Backups
               /\ ReadCheckedFile("backup", {}).value = backup
               /\ op' = Op("delete", None, "prepare", backup)
               /\ write' = Writing("backup", backup)
      BY <2>2 DEF BeginDelete
    <3>2. Logical("backup") \in Backups
      BY <3>1 DEF Logical
    <3>3. IF Readable("backup", "current") THEN disk["backup"]["current"] = Logical("backup")
          ELSE disk["backup"]["previous"] = Logical("backup")
      BY <3>2, LogicalIs, Constants DEF LogicalOf, Legible, Readable, Files, Unreadable
    <3> QED
      BY <3>1, <3>3 DEF Logical
  <2> QED
    BY <2>1, <2>2
<1>3. /\ op' \in Changes /\ op' # None /\ op'.value = v
      /\ \/ op'.kind = "create" /\ op'.at = "write"
         \/ op'.kind = "delete" /\ op'.at = "prepare"
  BY <1>2, OpStarts DEF Steps
<1>4. /\ write' \in Writes /\ write' # None
      /\ write'.file = "backup" /\ write'.payload = v /\ write'.at = "rotate"
  BY <1>2, WriteStarts DEF Files
<1>5. TypeOK'
  BY <1>1, <1>3, <1>4 DEF TypeOK, Keeps, Stored, Contents, migration
<1>6. Fits' /\ Written' /\ Committing' /\ Importing'
  BY <1>3, <1>4 DEF Fits, Written, Committing, Importing, Doing, Carries
<1>7. Deleting'
  <2>1. op'.kind = "delete" =>
          IF Readable("backup", "current") THEN disk["backup"]["current"] = v
          ELSE disk["backup"]["previous"] = v
    BY <1>2 DEF Op
  <2> QED
    BY <1>1, <1>3, <1>4, <2>1 DEF Deleting, Doing, Readable
<1>8. ReportedOnce' /\ Landed' /\ DamageShows' /\ Readers'
  BY <1>1, StateFrame DEF BackupOnly, migration
<1>9. Kept'
  BY <1>1, <1>2, BackupBegins DEF migration
<1> QED
  BY <1>1, <1>5, <1>6, <1>7, <1>8, <1>9 DEF Keeps

LEMMA CreateReturnsKeepsIInv ==
  ASSUME IInv, CreateReturns, UNCHANGED migration
  PROVE  IInv'
<1> USE DEF IInv
<1>1. /\ Keeps /\ op' = None /\ write' = None
      /\ UNCHANGED <<disk, syncable, running, faults, damages, proof, callers>>
  BY MediumKeeps DEF CreateReturns, medium
<1>2. TypeOK'
  BY <1>1 DEF TypeOK, Keeps, Stored, Contents, callers, migration
<1>3. ReportedOnce' /\ Landed' /\ DamageShows' /\ Readers'
  BY <1>1, StateFrame DEF BackupOnly, callers, migration
<1>4. Kept'
  BY <1>1, KeptFrame DEF Doing, Keeps, migration
<1> QED
  BY <1>1, <1>2, <1>3, <1>4, EndFrame DEF Keeps

\* What DeletePrepared and the steps after it do: to the change, and to the
\* generations of the backup.
LEMMA DeleteStepDoes ==
  ASSUME IInv, DeleteStep, UNCHANGED migration
  PROVE  /\ Doing("delete") /\ op \in Changes /\ op.value \in Backups
         /\ write' = None
         /\ proof' = proof \/ op' = None
         /\ \/ op' = None /\ Keeps
            \/ op' = None /\ op.at = "current" /\ Sets("backup", "current", None)
            \/ op.at = "prepare" /\ write.at = "ok" /\ Moves("current") /\ Keeps
            \/ op.at = "current" /\ Moves("previous") /\ Sets("backup", "current", None)
            \/ op.at = "previous" /\ Moves("sync") /\ Sets("backup", "previous", None)
            \/ /\ op.at = "previous" /\ Moves("observe")
               /\ Keeps \/ Sets("backup", "previous", None)
            \/ op.at = "observe" /\ Moves("reconcile") /\ Keeps
            \/ op.at = "sync" /\ op' = None /\ Sets("backup", "previous", None)
            \/ op.at = "sync" /\ Moves("reconcile") /\ Keeps
<1> USE DEF IInv, At, Step, Abort, Finalize
<1>1. Doing("delete") /\ op \in Changes /\ op.value \in Backups /\ (op.at # "prepare" => write = None)
  BY DEF DeleteStep, DeletePrepared, DeleteCurrent, DeleteCurrentFails, DeletePrevious,
         DeletePreviousFails, ObserveDeletion, SyncDeleted, SyncDeletedFails, Reconcile,
         Doing, TypeOK, Fits
<1>2. CASE DeletePrepared
  BY <1>1, <1>2, StepMoves, MediumKeeps DEF DeletePrepared, medium, Steps
<1>3. CASE DeleteCurrent
  BY <1>1, <1>3, StepMoves, MediumKeeps, PutSets DEF DeleteCurrent, Steps, Files, Generations
<1>4. CASE DeleteCurrentFails
  BY <1>1, <1>4, MediumKeeps, PutSets DEF DeleteCurrentFails, Files, Generations
<1>5. CASE DeletePrevious
  BY <1>1, <1>5, StepMoves, MediumKeeps, PutSets DEF DeletePrevious, Steps, Files, Generations
<1>6. CASE DeletePreviousFails
  BY <1>1, <1>6, StepMoves, MediumKeeps, PutSets DEF DeletePreviousFails, Steps, Files, Generations
<1>7. CASE ObserveDeletion
  BY <1>1, <1>7, StepMoves, MediumKeeps DEF ObserveDeletion, medium, Steps
<1>8. CASE SyncDeleted
  BY <1>1, <1>8, PutSets DEF SyncDeleted, Files, Generations
<1>9. CASE SyncDeletedFails
  BY <1>1, <1>9, StepMoves, MediumKeeps DEF SyncDeletedFails, medium, Steps
<1>10. CASE Reconcile
  BY <1>1, <1>10, MediumKeeps DEF Reconcile, medium
<1> QED
  BY <1>2, <1>3, <1>4, <1>5, <1>6, <1>7, <1>8, <1>9, <1>10 DEF DeleteStep

LEMMA DeleteStepFrame ==
  ASSUME IInv, DeleteStep
  PROVE  /\ UNCHANGED <<damages, running, callers>>
         /\ faults' \in 0..MaxFaults
         /\ proof' \in {None, "available", "reserved", "finalized"}
<1> USE ContentAssumption DEF IInv, TypeOK, ReadFault, Fault, Step, Abort, Finalize
<1>1. CASE DeletePrepared \/ DeleteCurrent \/ DeleteCurrentFails \/ DeletePrevious
  BY <1>1 DEF DeletePrepared, DeleteCurrent, DeleteCurrentFails, DeletePrevious
<1>2. CASE DeletePreviousFails \/ ObserveDeletion \/ SyncDeleted \/ SyncDeletedFails \/ Reconcile
  BY <1>2 DEF DeletePreviousFails, ObserveDeletion, SyncDeleted, SyncDeletedFails, Reconcile
<1> QED
  BY <1>1, <1>2 DEF DeleteStep

LEMMA DeleteStepKeepsIInv ==
  ASSUME IInv, DeleteStep, UNCHANGED migration
  PROVE  IInv'
<1> USE DEF IInv
<1>1. /\ BackupOnly /\ Stored' /\ syncable' = syncable
      /\ Keeps \/ \E g \in Generations, c \in Contents \ {Legacy} : Sets("backup", g, c)
  BY DeleteStepDoes, ContentAssumption DEF BackupOnly, Keeps, Sets, Contents, Generations, Unreadable
<1>2. /\ write' = None
      /\ op' = None \/ (op' \in Changes /\ op' # None /\ op'.kind = "delete" /\ op'.value = op.value)
  BY DeleteStepDoes DEF Moves, Doing
<1>3. TypeOK'
  BY <1>1, <1>2, DeleteStepFrame DEF TypeOK, Stored, Contents, callers, migration
<1>4. Fits'
  BY <1>2, DeleteStepDoes DEF Fits, Moves
<1>5. Written' /\ Committing' /\ Importing'
  BY <1>2 DEF Written, Committing, Importing, Doing
<1>6. Deleting'
  BY DeleteStepDoes DEF Deleting, Doing, Moves, Keeps, Sets, Fits, Written, Carries, Files, Generations
<1>7. ReportedOnce' /\ Landed' /\ DamageShows' /\ Readers'
  BY <1>1, StateFrame, DeleteStepFrame DEF callers, migration
<1>8. Kept'
  BY <1>1, <1>2, KeptFrame, DeleteStepDoes, DeleteStepFrame DEF Doing, migration
<1> QED
  BY <1>1, <1>3, <1>4, <1>5, <1>6, <1>7, <1>8

-----------------------------------------------------------------------------
(* Migration.                                                              *)

LEMMA WriteSentinelDoes ==
  ASSUME TypeOK, WriteSentinel
  PROVE  /\ sentinel' \in BOOLEAN
         /\ sentinel => sentinel'
         /\ faults' \in 0..MaxFaults
<1>1. sentinel \in BOOLEAN
  BY DEF TypeOK
<1>2. sentinel' \in BOOLEAN
  BY <1>1 DEF WriteSentinel
<1>3. sentinel => sentinel'
  BY DEF WriteSentinel
<1>4. faults' \in 0..MaxFaults
  BY ContentAssumption DEF WriteSentinel, Fault, TypeOK
<1> QED
  BY <1>2, <1>3, <1>4

\* The starts that change nothing on the disk.
LEMMA StartKeepsIInv ==
  ASSUME IInv, StartMigrated \/ StartInitialised
  PROVE  IInv'
<1> USE DEF IInv
<1>1. /\ Keeps /\ op' = None /\ write' = None /\ running' = TRUE
      /\ UNCHANGED <<disk, damages, proof, callers, evidence, legacyFits>>
      /\ sentinel' \in BOOLEAN /\ faults' \in 0..MaxFaults
      /\ sentinel => sentinel'
  <2>1. CASE StartMigrated
    BY <2>1, MediumKeeps DEF StartMigrated, Started, medium, migration, TypeOK
  <2>2. CASE StartInitialised
    <3>1. Keeps /\ disk' = disk
      BY <2>2, MediumKeeps DEF StartInitialised, medium
    <3>2. sentinel' \in BOOLEAN /\ faults' \in 0..MaxFaults /\ (sentinel => sentinel')
      BY <2>2, WriteSentinelDoes DEF StartInitialised, Settled
    <3> QED
      BY <2>2, <3>1, <3>2 DEF StartInitialised, Settled, Started
  <2> QED
    BY <2>1, <2>2
<1>2. TypeOK'
  BY <1>1 DEF TypeOK, Keeps, Stored, Contents, callers
<1>3. Readers'
  <2>1. sentinel \/ ~NoState
    <3>1. CASE StartMigrated
      BY <3>1 DEF StartMigrated
    <3>2. CASE StartInitialised
      <4>1. RepositoryRead("state", {}).value \in {disk["state"]["current"], disk["state"]["previous"]}
        BY <3>2, RepositoryReadIs DEF StartInitialised, Files, Payloads, FailedReads
      <4> QED
        BY <3>2, <4>1, Constants DEF StartInitialised, NoState
    <3> QED
      BY <3>1, <3>2
  <2> QED
    BY <1>1, <2>1 DEF Readers, NoState, Readable, callers
<1>4. ReportedOnce' /\ Landed' /\ DamageShows'
  BY <1>1, StateFrame DEF BackupOnly, callers
<1>5. Kept'
  BY <1>1, KeptFrame DEF Doing, Keeps
<1> QED
  BY <1>1, <1>2, <1>3, <1>4, <1>5, EndFrame DEF Keeps

\* A migration begins where there has been no state.
LEMMA MigratingIsFirst ==
  ASSUME IInv, Migrating
  PROVE  /\ op = None /\ write = None /\ ~running
         /\ disk["state"]["current"] = None
         /\ \A r \in 1..MaxRevision : reported[r] = {}
         /\ \A c \in Callers : reading[c] # "unreadable"
<1> USE DEF IInv
<1>1. op = None /\ write = None /\ ~running /\ ~sentinel
  BY DEF Migrating, Fits
<1>2. NoState
  BY RepositoryReadIs DEF Migrating, NoState, Files, FailedReads
<1>3. \A r \in 1..MaxRevision : reported[r] = {}
  BY <1>2, Constants DEF NoState, Landed, Holds, Bad, Unreadable
<1> QED
  BY <1>1, <1>2, <1>3 DEF NoState, Readers

LEMMA MigrationBeginsKeepsIInv ==
  ASSUME IInv, StartDaily \/ StartLegacy
  PROVE  IInv'
<1> USE DEF IInv
<1>1. /\ Keeps /\ disk' = disk /\ Migrating
      /\ UNCHANGED <<running, faults, damages, proof, callers, sentinel, legacyFits>>
  BY EarlierLandedKeeps DEF StartDaily, StartLegacy, EarlierLanded, migration
<1>2. /\ op = None /\ write = None /\ ~running
      /\ disk["state"]["current"] = None
      /\ \A r \in 1..MaxRevision : reported[r] = {}
      /\ \A c \in Callers : reading[c] # "unreadable"
  BY <1>1, MigratingIsFirst
<1>3. /\ op' \in Changes /\ op' # None /\ op'.kind = "migrate" /\ op'.value = First(op'.at)
      /\ \/ op'.at = "daily" /\ write' = Writing("state", Daily) /\ evidence' = evidence
         \/ /\ op'.at = "evidence" /\ write' = None /\ LegacyBytes = Legacy
            /\ evidence' \in {evidence, "torn"}
  <2>1. CASE StartDaily
    BY <2>1, OpStarts, Constants DEF StartDaily, Initialize, First, Steps, migration
  <2>2. CASE StartLegacy
    BY <1>2, <2>2, OpStarts, Constants DEF StartLegacy, First, Steps
  <2> QED
    BY <2>1, <2>2
<1>4. write' = Writing("state", Daily) =>
        /\ write' \in Writes /\ write' # None
        /\ write'.file = "state" /\ write'.payload = Daily /\ write'.at = "rotate"
  BY Constants, WriteStarts DEF Files
<1>5. TypeOK'
  BY <1>1, <1>3, <1>4 DEF TypeOK, Keeps, Stored, Contents, callers
<1>6. Fits' /\ Written' /\ Deleting' /\ Committing'
  BY <1>3, <1>4 DEF Fits, First, Written, Deleting, Committing, Doing, Carries
<1>7. Importing'
  BY <1>1, <1>2, <1>3 DEF Importing, Doing, LegacyBytes, callers
<1>8. ReportedOnce' /\ Landed' /\ DamageShows' /\ Readers'
  BY <1>1, StateFrame DEF BackupOnly, callers
<1>9. Kept'
  <2>1. CASE evidence' = evidence
    BY <1>1, <1>2, <1>3, <2>1, KeptFrame DEF Doing, Keeps
  <2>2. CASE LegacyBytes = Legacy /\ evidence' = "torn" /\ evidence # "torn"
    <3>1. Legacy \in survives["backup"]["current"]
      BY <2>2 DEF LegacyBytes, Stored, Files, Generations
    <3>2. Untouched \/ ~((syncable \/ damages = 0) /\ evidence # "whole")
      BY <3>1 DEF Kept
    <3>3. Untouched => Untouched'
      BY <1>1 DEF Untouched, Keeps, Stored, Files, Generations
    <3>4. evidence # "whole"
      BY <2>2, DirectoryAssumption DEF StartDaily, StartLegacy, migration
    <3> QED
      BY <1>1, <1>3, <3>2, <3>3, <3>4 DEF Kept, Doing, Keeps
  <2> QED
    BY <1>3, <2>1, <2>2 DEF StartLegacy, StartDaily, migration
<1> QED
  BY <1>1, <1>5, <1>6, <1>7, <1>8, <1>9 DEF Keeps

\* Evidence, conversion and import, whose own writes are steps of WriteStep.
LEMMA MigrationGoesOnDoes ==
  ASSUME IInv, PreserveEvidence \/ Convert \/ ConvertReturns \/ ImportReturns
  PROVE  /\ Doing("migrate") /\ op \in Changes /\ op.value = First(op.at)
         /\ Keeps /\ disk' = disk /\ survives' = survives
         /\ UNCHANGED <<damages, callers, legacyFits>>
         /\ faults' \in 0..MaxFaults
         /\ proof' = proof
         /\ evidence' \in {evidence, "whole"}
         /\ sentinel' \in BOOLEAN /\ (sentinel => sentinel')
         /\ \/ op' = None /\ write' = None /\ running' = running
            \/ op' = None /\ write' = None /\ Carries("state", op.value) /\ write.at = "ok"
            \/ /\ op.at = "evidence" /\ Moves("convert") /\ write' = None
               /\ evidence' = "whole" /\ running' = running
            \/ /\ op.at = "convert" /\ Moves("converting") /\ write' = Writing("backup", Converted)
               /\ running' = running
            \/ /\ op.at = "converting" /\ Moves("import") /\ write' = Writing("state", Imported)
               /\ \E failed \in {{}, {"current"}} : ConvertedIsRead(failed)
               /\ running' = running
            \/ /\ op.at \in {"converting", "import"} /\ Moves("unconvert") /\ write' = None
               /\ running' = running
<1> USE ContentAssumption DEF IInv, At, Step
<1>1. Doing("migrate") /\ op \in Changes /\ op.value = First(op.at)
  BY DEF PreserveEvidence, Convert, ConvertReturns, ImportReturns, Doing, TypeOK, Fits
<1>2. CASE PreserveEvidence
  <2>1. write' = None /\ Keeps /\ disk' = disk /\ survives' = survives
    BY <1>2, MediumKeeps DEF PreserveEvidence, medium, Fits
  <2> QED
    BY <1>1, <1>2, <2>1, StepMoves DEF PreserveEvidence, Steps, Fault, TypeOK
<1>3. CASE Convert
  <2>1. Keeps /\ disk' = disk /\ survives' = survives /\ write = None
    BY <1>3, MediumKeeps DEF Convert, medium, Fits
  <2> QED
    BY <1>1, <1>3, <2>1, StepMoves DEF Convert, Steps, TypeOK, migration
<1>4. CASE ConvertReturns
  <2>1. Keeps /\ disk' = disk /\ survives' = survives
    BY <1>4, MediumKeeps DEF ConvertReturns, medium
  <2>2. PICK failed \in {{}, {"current"}} :
          /\ ReadFault(failed)
          /\ IF ConvertedIsRead(failed)
             THEN Step("import") /\ Initialize(Imported)
             ELSE /\ IF write.at = "failed" /\ failed # {}
                     THEN Step("unconvert") ELSE op' = None /\ UNCHANGED proof
                  /\ write' = None
    BY <1>4 DEF ConvertReturns
  <2>3. faults' \in 0..MaxFaults
    BY <2>2 DEF ReadFault, Fault, TypeOK
  <2>4. CASE ConvertedIsRead(failed)
    BY <1>1, <1>4, <2>1, <2>2, <2>3, <2>4, StepMoves
       DEF ConvertReturns, Initialize, Steps, TypeOK, migration
  <2>5. CASE ~ConvertedIsRead(failed)
    <3>1. write' = None /\ proof' = proof /\ (op' = None \/ Moves("unconvert"))
      BY <1>1, <2>2, <2>5, StepMoves DEF Steps
    <3> QED
      BY <1>1, <1>4, <2>1, <2>3, <3>1 DEF ConvertReturns, TypeOK, migration
  <2> QED
    BY <2>4, <2>5
<1>5. CASE ImportReturns
  <2>1. Keeps /\ disk' = disk /\ survives' = survives
    BY <1>5, MediumKeeps DEF ImportReturns, medium
  <2>2. Carries("state", op.value)
    BY <1>5 DEF ImportReturns, Fits
  <2>3. CASE write.at = "ok" /\ Settled /\ UNCHANGED proof
    <3>1. sentinel' \in BOOLEAN /\ faults' \in 0..MaxFaults /\ (sentinel => sentinel')
      BY <2>3, WriteSentinelDoes DEF Settled
    <3> QED
      BY <1>1, <1>5, <2>1, <2>2, <2>3, <3>1 DEF ImportReturns, Settled, Started
  <2>4. CASE write.at = "failed" /\ UNCHANGED <<running, sentinel, faults>>
    BY <1>1, <1>5, <2>1, <2>4, StepMoves DEF ImportReturns, Settled, Started, Steps, TypeOK
  <2> QED
    BY <1>5, <2>3, <2>4 DEF ImportReturns
<1> QED
  BY <1>2, <1>3, <1>4, <1>5

LEMMA MigrationGoesOnKeepsIInv ==
  ASSUME IInv, PreserveEvidence \/ Convert \/ ConvertReturns \/ ImportReturns
  PROVE  IInv'
<1> USE DEF IInv
<1>1. /\ Doing("migrate") /\ ~running
      /\ Keeps /\ disk' = disk /\ survives' = survives /\ syncable' = syncable
      /\ UNCHANGED <<damages, callers, legacyFits>>
      /\ evidence' \in {evidence, "whole"}
      /\ op' = None \/ (op' \in Changes /\ op' # None /\ op'.kind = "migrate" /\ op'.value = op.value)
      /\ op' # None => op.value = Imported /\ op'.at # "daily"
  BY MigrationGoesOnDoes DEF Moves, Doing, Keeps, Importing, First
<1>2. /\ write' \in Writes \cup {None}
      /\ write' # None => write'.at = "rotate"
      /\ write' = Writing("backup", Converted) => Carries("backup", Converted)'
      /\ write' = Writing("state", Imported) => Carries("state", Imported)'
  BY MigrationGoesOnDoes, WriteStarts, Constants DEF Files, Carries
<1>3. TypeOK'
  <2>1. running' \in BOOLEAN
    BY DEF PreserveEvidence, Convert, ConvertReturns, ImportReturns, Settled, Started, TypeOK
  <2> QED
    BY <1>1, <1>2, <2>1, MigrationGoesOnDoes DEF TypeOK, callers
<1>4. Fits'
  BY <1>1, <1>2, MigrationGoesOnDoes DEF Fits, First, Moves
<1>5. Written' /\ Deleting' /\ Committing'
  BY <1>1, <1>2 DEF Written, Deleting, Committing, Doing
<1>6. Importing'
  <2>1. CASE op' = None
    BY <2>1 DEF Importing, Doing
  <2>2. CASE op.at \in {"evidence", "convert"} /\ op' # None
    BY <1>1, <2>2, MigrationGoesOnDoes DEF Importing, Doing, Moves, LegacyBytes, callers
  <2>3. CASE op.at = "converting" /\ Moves("import") /\ \E failed \in {{}, {"current"}} : ConvertedIsRead(failed)
    <3>1. PICK failed \in {{}, {"current"}} : ReadCheckedFile("backup", failed).value = Converted
      BY <2>3 DEF ConvertedIsRead
    <3>2. disk["backup"]["current"] \in {Legacy, Converted}
      BY <2>3, <1>1 DEF Importing, LegacyBytes
    <3>3. Logical("backup") = Converted
      BY <3>1, <3>2, ReadIs, LogicalIs, Constants, ContentAssumption
         DEF LogicalOf, Legible, FailedReads, Files, Unreadable
    <3>4. Logical("backup")' = Converted
      BY <1>1, <3>3, LogicalIs DEF Files
    <3> QED
      BY <1>1, <2>3, <3>4, MigrationGoesOnDoes DEF Importing, Doing, Moves, callers
  <2>4. CASE op.at \in {"converting", "import"} /\ Moves("unconvert")
    BY <1>1, <2>4, MigrationGoesOnDoes DEF Importing, Doing, Moves, callers
  <2> QED
    BY <2>1, <2>2, <2>3, <2>4, MigrationGoesOnDoes
<1>7. Readers'
  <2>1. running' => disk["state"]["current"] # None
    BY <1>1, MigrationGoesOnDoes, Constants DEF Written, Carries, First
  <2> QED
    BY <1>1, <2>1, MigrationGoesOnDoes DEF Readers, NoState, Readable, callers
<1>8. ReportedOnce' /\ Landed' /\ DamageShows'
  BY <1>1, StateFrame DEF BackupOnly, callers
<1>9. Kept'
  BY <1>1 DEF Kept, Doing, Untouched
<1> QED
  BY <1>1, <1>3, <1>4, <1>5, <1>6, <1>7, <1>8, <1>9 DEF Keeps

LEMMA RestoreLegacyKeepsIInv ==
  ASSUME IInv, RestoreLegacy
  PROVE  IInv'
<1> USE DEF IInv
<1>1. /\ BackupOnly /\ Stored' /\ syncable' = syncable
      /\ op' = None /\ write' = None
      /\ UNCHANGED <<running, sentinel, damages, proof, callers, evidence, legacyFits>>
      /\ faults' \in 0..MaxFaults
  <2>1. Keeps \/ Sets("backup", "current", Legacy)
    BY PutSets, MediumKeeps DEF RestoreLegacy, Files, Generations, Unreadable
  <2>2. faults' \in 0..MaxFaults
    BY ContentAssumption DEF RestoreLegacy, Fault, TypeOK
  <2>3. BackupOnly /\ Stored' /\ syncable' = syncable
    BY <2>1 DEF BackupOnly, Keeps, Sets, Contents, Unreadable, Generations
  <2> QED
    BY <2>2, <2>3 DEF RestoreLegacy, GivenUp
<1>2. TypeOK'
  BY <1>1 DEF TypeOK, Stored, Contents, callers
<1>3. ReportedOnce' /\ Landed' /\ DamageShows' /\ Readers'
  BY <1>1, StateFrame DEF callers
<1>4. Kept'
  BY <1>1 DEF Kept, RestoreLegacy, At, Importing, Doing
<1> QED
  BY <1>1, <1>2, <1>3, <1>4, EndFrame

LEMMA MigrationStepKeepsIInv ==
  ASSUME IInv, MigrationStep
  PROVE  IInv'
  BY StartKeepsIInv, MigrationBeginsKeepsIInv, MigrationGoesOnKeepsIInv, RestoreLegacyKeepsIInv
     DEF MigrationStep

-----------------------------------------------------------------------------
(* Processes, power and medium; the inductive invariant.                   *)

LEMMA DieKeepsIInv ==
  ASSUME IInv, Die
  PROVE  IInv'
<1> USE DEF IInv
<1>1. /\ Keeps /\ op' = None /\ write' = None /\ running' = FALSE
      /\ UNCHANGED <<disk, syncable, damages, callers, migration>>
      /\ faults' \in 0..MaxFaults
  BY MediumKeeps, ContentAssumption DEF Die, Fault, medium, TypeOK
<1>2. TypeOK'
  BY <1>1 DEF Die, TypeOK, Keeps, Stored, Contents, callers, migration
<1>3. ReportedOnce' /\ Landed' /\ DamageShows'
  BY <1>1, StateFrame DEF BackupOnly, callers
<1>4. Readers'
  BY <1>1 DEF Readers, NoState, Readable, callers, migration
<1>5. Kept'
  BY <1>1, KeptFrame DEF Doing, Keeps, migration
<1> QED
  BY <1>1, <1>2, <1>3, <1>4, <1>5, EndFrame DEF Keeps

LEMMA PowerLossKeepsIInv ==
  ASSUME IInv, PowerLoss
  PROVE  IInv'
<1> USE DEF IInv, Files, Generations
<1>1. /\ Stored' /\ syncable' = syncable
      /\ \A x \in Files, y \in Generations :
           disk'[x][y] \in survives[x][y] /\ survives'[x][y] = {disk'[x][y]}
  BY PowerLossLeaves
<1>2. /\ op' = None /\ write' = None /\ running' = FALSE
      /\ \A c \in Callers : known'[c] = None /\ reading'[c] = None
      /\ reported' = IF syncable THEN reported ELSE [r \in 1..MaxRevision |-> {}]
      /\ damages' \in 1..MaxDamages
  BY ContentAssumption DEF PowerLoss, Damage, TypeOK
<1>3. TypeOK'
  <2>1. sentinel' \in BOOLEAN
    BY DEF PowerLoss, TypeOK
  <2>2. evidence' \in {None, "torn", "whole"}
    BY DEF PowerLoss, TypeOK
  <2>3. /\ known' \in [Callers -> States \cup {None}]
        /\ reading' \in [Callers -> {None, "unreadable", "failed"}]
        /\ reported' \in [1..MaxRevision -> SUBSET States]
    BY DEF PowerLoss, TypeOK
  <2>4. /\ UNCHANGED <<syncable, faults, legacyFits>> /\ op' = None /\ write' = None
        /\ proof' = None /\ running' = FALSE /\ damages' \in 0..MaxDamages
    BY <1>2 DEF PowerLoss
  <2>5. disk' \in [Files -> [Generations -> Contents]]
    BY <1>1 DEF Stored
  <2>6. \A x \in Files, y \in Generations : survives'[x][y] \subseteq Contents
    BY <1>1 DEF Stored
  <2>7. faults' \in 0..MaxFaults /\ {syncable', running', sentinel', legacyFits'} \subseteq BOOLEAN
    BY <2>1, <2>4 DEF TypeOK
  <2> QED
    BY <2>2, <2>3, <2>4, <2>5, <2>6, <2>7 DEF TypeOK, Contents
<1>4. ReportedOnce'
  <2>1. CASE syncable
    BY <1>2, <2>1 DEF ReportedOnce
  <2>2. CASE ~syncable
    BY <1>2, <2>2 DEF ReportedOnce
  <2> QED
    BY <2>1, <2>2
<1>5. Landed'
  <2>1. CASE ~syncable
    BY <1>2, <2>1 DEF Landed
  <2>2. CASE syncable
    <3>1. \A r \in 1..MaxRevision :
            reported[r] # {} => \A c \in survives["state"]["current"] : Holds(c, r)
      BY <2>2 DEF Landed
    <3>2. /\ disk'["state"]["current"] \in survives["state"]["current"]
          /\ survives'["state"]["current"] = {disk'["state"]["current"]}
      BY <1>1
    <3>3. ASSUME NEW r \in 1..MaxRevision, reported'[r] # {}
          PROVE  /\ Holds(disk["state"]["current"], r)'
                 /\ \A c \in survives'["state"]["current"] : Holds(c, r)
      BY <1>2, <2>2, <3>1, <3>2, <3>3 DEF Holds
    <3> QED
      BY <3>3 DEF Landed, Holds
  <2> QED
    BY <2>1, <2>2
<1>6. DamageShows'
  BY <1>1 DEF DamageShows, Bad
<1>7. Readers'
  BY <1>2, DirectoryAssumption DEF Readers
<1>8. Kept'
  <2> SUFFICES ASSUME syncable, evidence' # "whole"
               PROVE  Kept'
    BY <1>1, <1>2 DEF Kept
  <2>1. evidence # "whole" /\ evidence' \in {evidence, None}
    BY DirectoryAssumption DEF PowerLoss, TypeOK
  <2>2. CASE Untouched
    BY <1>1, <1>2, <2>2 DEF Kept, Untouched, Doing
  <2>3. CASE evidence = None /\ Legacy \notin survives["backup"]["current"]
    BY <1>1, <1>2, <2>1, <2>3 DEF Kept
  <2> QED
    BY <2>1, <2>2, <2>3 DEF Kept
<1> QED
  BY <1>1, <1>2, <1>3, <1>4, <1>5, <1>6, <1>7, <1>8, EndFrame

\* Damage at rest, to a generation that can be read.
LEMMA DamageKeepsIInv ==
  ASSUME IInv, NEW f \in Files, NEW g \in Generations, NEW c \in Bad,
         op = None, Damage, Readable(f, g), SetContent(f, g, c),
         UNCHANGED <<syncable, write, faults, running, op, proof, callers, migration>>
  PROVE  IInv'
<1> USE DEF IInv
<1>1. Sets(f, g, c) /\ survives'[f][g] = {c}
  BY SetContentSets DEF Bad, Unreadable
<1>2. write = None /\ damages' \in 1..MaxDamages
  BY ContentAssumption DEF Fits, Damage, TypeOK
<1>3. TypeOK'
  BY <1>1, <1>2 DEF TypeOK, Sets, Stored, Contents, callers, migration
<1>4. Fits' /\ Written' /\ Deleting' /\ Committing' /\ Importing'
  BY <1>2, EndFrame DEF Fits
<1>5. c \in Unreadable /\ c # None /\ c # Legacy
  BY ContentAssumption DEF Bad, Unreadable
<1>6. ReportedOnce' /\ Landed' /\ DamageShows'
  BY <1>1, <1>5 DEF ReportedOnce, Landed, DamageShows, Holds, Sets, Stored, Files, Generations, callers, Bad
<1>7. Readers'
  BY <1>1, <1>5 DEF Readers, NoState, Readable, Sets, Files, Generations, callers, migration
<1>8. Kept'
  <2> SUFFICES ASSUME (syncable \/ damages = 0) /\ evidence # "whole"
               PROVE  Kept'
    BY <1>2, <1>1 DEF Kept, Sets, migration, TypeOK
  <2>1. CASE Untouched
    <3>1. f = "state"
      BY <2>1 DEF Untouched, Readable, Stored, Files, Generations, Unreadable
    <3>2. Untouched'
      BY <1>1, <2>1, <3>1 DEF Untouched, Sets, Stored, Files, Generations
    <3> QED
      BY <3>2 DEF Kept, Doing
  <2>2. CASE evidence = None /\ Legacy \notin survives["backup"]["current"]
    BY <1>1, <1>5, <2>2 DEF Kept, Sets, Stored, Files, Generations, migration
  <2> QED
    BY <2>1, <2>2 DEF Kept
<1> QED
  BY <1>1, <1>3, <1>4, <1>6, <1>7, <1>8 DEF Sets

LEMMA InitIInv ==
  ASSUME Init
  PROVE  IInv
<1> USE DEF Init
<1>1. PICK bytes \in {None, Legacy} :
        disk = [f \in Files |-> [g \in Generations |->
                  IF f = "backup" /\ g = "current" THEN bytes ELSE None]]
  OBVIOUS
<1>2. Stored
  BY <1>1 DEF Stored, Contents, Payloads, Files, Generations, Unreadable
<1>3. TypeOK
  <2>1. legacyFits \in BOOLEAN
    BY DEF Verdicts
  <2>2. faults \in 0..MaxFaults /\ damages \in 0..MaxDamages
    BY ContentAssumption
  <2>3. known \in [Callers -> States \cup {None}]
    OBVIOUS
  <2>4. reading \in [Callers -> {None, "unreadable", "failed"}]
    OBVIOUS
  <2>5. reported \in [1..MaxRevision -> SUBSET States]
    OBVIOUS
  <2>6. \A f \in Files, g \in Generations : survives[f][g] \subseteq Contents
    BY <1>2 DEF Stored
  <2>7. disk \in [Files -> [Generations -> Contents]]
    BY <1>2 DEF Stored
  <2> QED
    BY <2>1, <2>2, <2>3, <2>4, <2>5, <2>6, <2>7 DEF TypeOK, Contents
<1>4. Fits /\ Written /\ Deleting /\ Committing /\ Importing
  BY DEF Fits, Written, Deleting, Committing, Importing, Doing
<1>5. ReportedOnce /\ Landed
  BY DEF ReportedOnce, Landed
<1>6. DamageShows /\ Readers
  BY <1>1, ContentAssumption, DirectoryAssumption
     DEF DamageShows, Bad, Readers, Files, Generations, Unreadable
<1>7. Kept
  BY <1>1, ContentAssumption DEF Kept, Untouched, Doing, Files, Generations, Unreadable
<1> QED
  BY <1>2, <1>3, <1>4, <1>5, <1>6, <1>7 DEF IInv

LEMMA NextKeepsIInv ==
  ASSUME IInv, [Next]_vars
  PROVE  IInv'
<1>1. CASE WriteStep /\ UNCHANGED <<running, op, proof, callers, migration>>
  BY <1>1, WriteStepKeepsIInv
<1>2. ASSUME NEW c \in Callers, ReadCurrent(c) \/ ReadPrevious(c), UNCHANGED migration
      PROVE  IInv'
  BY <1>2, ReadKeepsIInv
<1>3. ASSUME NEW c \in Callers, Commit(c), UNCHANGED migration
      PROVE  IInv'
  BY <1>3, CommitKeepsIInv
<1>4. CASE CommitReturns /\ UNCHANGED migration
  BY <1>4, CommitReturnsKeepsIInv
<1>5. CASE ((\E s \in Snapshots : CreateBackup(s)) \/ BeginDelete) /\ UNCHANGED migration
  BY <1>5, BackupBeginsKeepsIInv
<1>6. CASE CreateReturns /\ UNCHANGED migration
  BY <1>6, CreateReturnsKeepsIInv
<1>7. CASE DeleteStep /\ UNCHANGED migration
  BY <1>7, DeleteStepKeepsIInv
<1>8. CASE MigrationStep
  BY <1>8, MigrationStepKeepsIInv
<1>9. CASE Die
  BY <1>9, DieKeepsIInv
<1>10. CASE PowerLoss
  BY <1>10, PowerLossKeepsIInv
<1>11. ASSUME NEW f \in Files, NewerVersionWrites(f)
       PROVE  IInv'
  BY <1>11, DamageKeepsIInv DEF NewerVersionWrites, Bad, Generations
<1>12. ASSUME NEW f \in Files, NEW g \in Generations, DamageGeneration(f, g)
       PROVE  IInv'
  BY <1>12, DamageKeepsIInv DEF DamageGeneration, Bad
<1>13. CASE UNCHANGED vars
  <2> USE <1>13 DEF vars, medium, callers, migration, IInv, Doing, Carries
  <2>1. TypeOK'
    BY DEF TypeOK
  <2>2. Stored'
    BY DEF Stored
  <2>3. Fits'
    BY DEF Fits
  <2>4. Written'
    BY DEF Written
  <2>5. Deleting'
    BY DEF Deleting, Readable
  <2>6. Committing'
    BY DEF Committing
  <2>7. Importing'
    <3>1. Logical("backup")' = Logical("backup")
      BY DEF Logical, ReadCheckedFile, Readable
    <3> QED
      BY <3>1 DEF Importing, LegacyBytes
  <2>8. ReportedOnce'
    BY DEF ReportedOnce
  <2>9. Landed'
    BY DEF Landed
  <2>10. DamageShows'
    BY DEF DamageShows
  <2>11. Readers'
    BY DEF Readers, NoState, Readable
  <2>12. Kept'
    BY DEF Kept, Untouched
  <2> QED
    BY <2>1, <2>2, <2>3, <2>4, <2>5, <2>6, <2>7, <2>8, <2>9, <2>10, <2>11, <2>12
<1> QED
  BY <1>1, <1>2, <1>3, <1>4, <1>5, <1>6, <1>7, <1>8, <1>9, <1>10, <1>11, <1>12, <1>13 DEF Next

LEMMA Inductive == Spec => []IInv
<1>1. Init => IInv
  BY InitIInv
<1>2. IInv /\ [Next]_vars => IInv'
  BY NextKeepsIInv
<1> QED
  BY <1>1, <1>2, PTL DEF Spec

-----------------------------------------------------------------------------
(* The invariants that the runs check.                                     *)

\* Every variable keeps its type: no write, change, read or generation is ever
\* in a state that durable-file.ts, repository.ts and migration.ts do not know.
THEOREM TypeCorrect == Spec => []TypeOK
<1>1. IInv => TypeOK
  BY DEF IInv
<1> QED
  BY <1>1, Inductive, PTL

\* No two commits report success for the same revision (StateRepository.commit).
THEOREM OneStatePerRevision == Spec => []RevisionNamesOneState
<1>1. ASSUME IInv
      PROVE  RevisionNamesOneState
  <2>1. ASSUME NEW r \in 1..MaxRevision
        PROVE  Cardinality(reported[r]) <= 1
    <3>1. CASE reported[r] = {}
      BY <3>1, FS_EmptySet
    <3>2. ASSUME NEW s \in States, reported[r] = {s}
          PROVE  Cardinality(reported[r]) <= 1
      BY <3>2, FS_Singleton
    <3> QED
      BY <1>1, <3>1, <3>2 DEF IInv, ReportedOnce
  <2> QED
    BY <2>1 DEF RevisionNamesOneState
<1> QED
  BY <1>1, Inductive, PTL

\* A power loss takes back no reported commit where directories can be synced:
\* writeCheckedFile syncs the replacement before it returns.
THEOREM CommitsSurvive == Spec => []ReportedCommitsSurvive
<1>1. ASSUME IInv
      PROVE  ReportedCommitsSurvive
  <2>1. ASSUME syncable, disk["state"]["current"] \in States,
               NEW r \in 1..MaxRevision, reported[r] # {}, NEW left \in Left("state")
        PROVE  left["current"] \in States /\ left["current"].revision >= r
    <3>1. left["current"] \in survives["state"]["current"]
      BY DEF Left, Generations
    <3>2. Holds(left["current"], r)
      BY <1>1, <2>1, <3>1 DEF IInv, Landed
    <3>3. disk["state"]["current"] \notin Bad
      BY <2>1, Constants DEF Bad, Unreadable
    <3>4. left["current"] \notin Bad
      BY <1>1, <2>1, <3>1, <3>3 DEF IInv, DamageShows
    <3> QED
      BY <3>2, <3>4 DEF Holds
  <2> QED
    BY <2>1 DEF ReportedCommitsSurvive
<1> QED
  BY <1>1, Inductive, PTL

\* The bytes of the version 3 backup are kept (preserve, replaceLegacy and
\* restoreLegacy of migration.ts, and every later change of the backup).
THEOREM LegacyKept == Spec => []LegacyIsKept
<1>1. ASSUME IInv
      PROVE  LegacyIsKept
  <2>1. Untouched => LegacyBytes = Legacy
    BY <1>1 DEF IInv, Stored, Untouched, LegacyBytes, Files, Generations
  <2> QED
    BY <1>1, <2>1 DEF IInv, Kept, LegacyIsKept
<1> QED
  BY <1>1, Inductive, PTL

-----------------------------------------------------------------------------
(* What a step may never do.                                               *)

\* The steps by which a change begins.
LEMMA Begins ==
  ASSUME IInv, [Next]_vars, op = None
  PROVE  \/ op' = None
         \/ \E c \in Callers : Commit(c)
         \/ \E s \in Snapshots : CreateBackup(s)
         \/ BeginDelete \/ StartDaily \/ StartLegacy
<1>1. write = None
  BY DEF IInv, Fits
<1>2. ~WriteStep
  BY <1>1 DEF WriteStep, Rotate, Replace, SyncReplaced, WriteFails
<1>3. \A k, at : ~At(k, at)
  BY DEF At
<1>4. ~DeleteStep /\ ~CommitReturns /\ ~CreateReturns
  BY <1>3 DEF DeleteStep, DeletePrepared, DeleteCurrent, DeleteCurrentFails, DeletePrevious,
     DeletePreviousFails, ObserveDeletion, SyncDeleted, SyncDeletedFails, Reconcile,
     CommitReturns, CreateReturns
<1>5. ~PreserveEvidence /\ ~Convert /\ ~ConvertReturns /\ ~ImportReturns /\ ~RestoreLegacy
  BY <1>3 DEF PreserveEvidence, Convert, ConvertReturns, ImportReturns, RestoreLegacy
<1>6. MigrationStep => StartDaily \/ StartLegacy \/ op' = None
  BY <1>5 DEF MigrationStep, StartMigrated, StartInitialised, Settled, Started
<1>7. \A c \in Callers : ReadCurrent(c) \/ ReadPrevious(c) => op' = None
  BY DEF ReadCurrent, ReadPrevious
<1>8. Die \/ PowerLoss \/ UNCHANGED vars => op' = None
  BY DEF Die, PowerLoss, vars
<1>9. \A f \in Files : NewerVersionWrites(f) => op' = None
  BY DEF NewerVersionWrites
<1>10. \A f \in Files, g \in Generations : DamageGeneration(f, g) => op' = None
  BY DEF DamageGeneration
<1> QED
  BY <1>2, <1>4, <1>6, <1>7, <1>8, <1>9, <1>10 DEF Next

\* What Pending says, for the file as it is before and after a step.
PendingOf(f, change, writing, file) ==
  IF change = None THEN Idle
  ELSE IF change.kind = "delete" /\ f = "backup" THEN None
  ELSE IF change.at = "unconvert" /\ f = "backup"
       THEN IF Legible(file["previous"]) THEN file["previous"] ELSE Corrupt
  ELSE IF writing # None /\ writing.file = f THEN writing.payload
  ELSE Idle

LEMMA PendingIs ==
  \A f \in Files :
    /\ Pending(f) = PendingOf(f, op, write, disk[f])
    /\ Pending(f)' = PendingOf(f, op', write', disk'[f])
  BY DEF Pending, PendingOf, Readable, Legible

\* The repositories begin no change of a file whose current generation is of a
\* later version (readInternal, commit, create, deleteAfterVerifiedRestore).
THEOREM NewerLeftAlone == Spec => NewerIsLeftAlone
<1>1. ASSUME IInv, [Next]_vars, NEW f \in Files,
             disk[f]["current"] = Newer, op = None, faults' = faults
      PROVE  Pending(f)' = Idle
  <2> USE <1>1, PendingIs DEF IInv
  <2>1. Newer \in Unreadable /\ Newer # None
    BY Constants DEF Unreadable
  <2>2. CASE op' = None
    BY <2>2 DEF PendingOf
  <2>3. ASSUME NEW c \in Callers, Commit(c)
        PROVE  Pending(f)' = Idle
    <3>1. RepositoryRead("state", {}).value \in States
      BY <2>3 DEF Commit, Committable
    <3>2. f # "state"
      BY <3>1, RepositoryReadIs DEF Payloads, Files, FailedReads
    <3>3. /\ op' # None /\ op'.kind = "commit" /\ op'.at = "write"
          /\ write'.file = "state"
      <4> DEFINE next == [revision |-> known[c].revision + 1, by |-> c]
      <4>1. next \in States
        BY <2>3, RepositoryAssumption DEF Commit, TypeOK, States
      <4>2. op' = Op("commit", c, "write", next) /\ write' = Writing("state", next)
        BY <2>3 DEF Commit
      <4> HIDE DEF next
      <4> QED
        BY <4>1, <4>2, OpStarts, WriteStarts DEF Files, Steps
    <3> QED
      BY <3>2, <3>3 DEF PendingOf
  <2>4. ASSUME NEW s \in Snapshots, CreateBackup(s)
        PROVE  Pending(f)' = Idle
    <3>1. disk["backup"]["current"] = None
      BY <2>4, RepositoryReadIs DEF CreateBackup, BackupRead, Files, FailedReads
    <3>2. f # "backup"
      BY <2>1, <3>1
    <3>3. /\ op' # None /\ op'.kind = "create" /\ op'.at = "write"
          /\ write'.file = "backup"
      BY <2>4, OpStarts, WriteStarts DEF CreateBackup, Backups, Files, Steps
    <3> QED
      BY <3>2, <3>3 DEF PendingOf
  <2>5. CASE BeginDelete
    <3>1. PICK failed \in FailedReads :
            LET backup == BackupRead(failed)
            IN /\ ReadFault(failed)
               /\ backup \in Backups
               /\ op' = Op("delete", None, "prepare", backup)
               /\ write' = Writing("backup", backup)
      BY <2>5 DEF BeginDelete
    <3>2. failed = {}
      BY <3>1 DEF ReadFault, Fault, TypeOK
    <3>3. f # "backup"
      BY <3>1, <3>2, RepositoryReadIs DEF BackupRead, Payloads, Files
    <3>4. /\ op' # None /\ op'.kind = "delete" /\ op'.at = "prepare"
          /\ write'.file = "backup"
      BY <3>1, OpStarts, WriteStarts DEF Files, Steps
    <3> QED
      BY <3>3, <3>4 DEF PendingOf
  <2>6. CASE StartDaily
    <3>1. f # "state"
      BY <2>1, <2>6, MigratingIsFirst DEF StartDaily
    <3>2. /\ op' # None /\ op'.kind = "migrate" /\ op'.at = "daily"
          /\ write'.file = "state"
      BY <2>6, Constants, OpStarts, WriteStarts DEF StartDaily, Initialize, Files, Steps
    <3> QED
      BY <3>1, <3>2 DEF PendingOf
  <2>7. CASE StartLegacy
    <3>1. write' = None
      BY <2>7 DEF StartLegacy, Fits
    <3>2. op' # None /\ op'.kind = "migrate" /\ op'.at = "evidence"
      BY <2>7, Constants, OpStarts DEF StartLegacy, Steps
    <3> QED
      BY <3>1, <3>2 DEF PendingOf
  <2> QED
    BY <2>2, <2>3, <2>4, <2>5, <2>6, <2>7, Begins
<1>2. IInv /\ [Next]_vars => [\A f \in Files :
        (disk[f]["current"] = Newer /\ op = None /\ faults' = faults) => Pending(f)' = Idle]_vars
  BY <1>1
<1> QED
  BY <1>2, Inductive, PTL DEF Spec, NewerIsLeftAlone

\* The steps that change how a caller's read stands.
LEMMA ReadingFrame ==
  ASSUME [Next]_vars
  PROVE  \/ UNCHANGED <<known, reading>>
         \/ \E c \in Callers : ReadCurrent(c) \/ ReadPrevious(c) \/ Commit(c)
         \/ PowerLoss
<1>1. WriteStep /\ UNCHANGED callers => UNCHANGED <<known, reading>>
  BY DEF callers
<1>2. CommitReturns \/ CreateReturns \/ BeginDelete => UNCHANGED <<known, reading>>
  BY DEF CommitReturns, CreateReturns, BeginDelete, callers
<1>3. \A s \in Snapshots : CreateBackup(s) => UNCHANGED <<known, reading>>
  BY DEF CreateBackup, callers
<1>4. DeleteStep => UNCHANGED <<known, reading>>
  BY DEF DeleteStep, DeletePrepared, DeleteCurrent, DeleteCurrentFails, DeletePrevious,
     DeletePreviousFails, ObserveDeletion, SyncDeleted, SyncDeletedFails, Reconcile, callers
<1>5. MigrationStep => UNCHANGED <<known, reading>>
  BY DEF MigrationStep, StartMigrated, StartInitialised, StartDaily, StartLegacy,
     PreserveEvidence, Convert, ConvertReturns, ImportReturns, RestoreLegacy, callers
<1>6. Die \/ UNCHANGED vars => UNCHANGED <<known, reading>>
  BY DEF Die, vars, callers
<1>7. \A f \in Files : NewerVersionWrites(f) => UNCHANGED <<known, reading>>
  BY DEF NewerVersionWrites, callers
<1>8. \A f \in Files, g \in Generations : DamageGeneration(f, g) => UNCHANGED <<known, reading>>
  BY DEF DamageGeneration, callers
<1> QED
  BY <1>1, <1>2, <1>3, <1>4, <1>5, <1>6, <1>7, <1>8 DEF Next

\* What the lock-free read (readCheckedFile, called by StateRepository.read)
\* returns from the second generation is what the file holds at that time.
THEOREM ReadsCurrent == Spec => ReadsAreCurrent
<1>1. ASSUME IInv, [Next]_vars, NEW c \in Callers,
             reading[c] = "unreadable", reading'[c] = None, known'[c] # None
      PROVE  known'[c] = Logical("state")
  <2> USE <1>1 DEF IInv
  <2>1. ~(UNCHANGED reading)
    BY DirectoryAssumption
  <2>2. ASSUME NEW d \in Callers, ReadCurrent(d)
        PROVE  known'[c] = Logical("state")
    BY <2>2, DirectoryAssumption DEF ReadCurrent, TypeOK
  <2>3. ASSUME NEW d \in Callers, ReadPrevious(d)
        PROVE  known'[c] = Logical("state")
    <3>1. c = d
      BY <2>3, DirectoryAssumption DEF ReadPrevious, TypeOK
    <3>2. known'[c] = disk["state"]["previous"] /\ Readable("state", "previous")
      BY <2>3, <3>1 DEF ReadPrevious, TypeOK
    <3>3. ~Readable("state", "current")
      BY DEF Readers
    <3> QED
      BY <3>2, <3>3, LogicalIs DEF LogicalOf, Legible, Readable, Files
  <2>4. ASSUME NEW d \in Callers, Commit(d)
        PROVE  known'[c] = Logical("state")
    BY <2>1, <2>4 DEF Commit
  <2>5. ~PowerLoss
    BY DEF PowerLoss
  <2> QED
    BY <2>1, <2>2, <2>3, <2>4, <2>5, ReadingFrame
<1>2. IInv /\ [Next]_vars => [\A c \in Callers :
        /\ reading[c] = "unreadable"
        /\ reading'[c] = None
        /\ known'[c] # None
        => known'[c] = Logical("state")]_vars
  BY <1>1
<1> QED
  BY <1>2, Inductive, PTL DEF Spec, ReadsAreCurrent

\* The steps that change the restore proof.
LEMMA ProofFrame ==
  ASSUME IInv, [Next]_vars
  PROVE  proof' \in {proof, None, "reserved"} \/ (DeleteStep /\ UNCHANGED migration)
<1> USE DEF IInv
<1>1. CommitReturns \/ CreateReturns \/ BeginDelete => proof' \in {proof, "reserved"}
  BY DEF CommitReturns, CreateReturns, BeginDelete
<1>2. \A s \in Snapshots : CreateBackup(s) => proof' = proof
  BY DEF CreateBackup
<1>3. \A c \in Callers : ReadCurrent(c) \/ ReadPrevious(c) \/ Commit(c) => proof' = proof
  BY DEF ReadCurrent, ReadPrevious, Commit
<1>4. MigrationStep => proof' = proof
  BY DEF MigrationStep, StartMigrated, StartInitialised, StartDaily, StartLegacy, Step,
     PreserveEvidence, Convert, ConvertReturns, ImportReturns, RestoreLegacy
<1>5. Die \/ PowerLoss \/ UNCHANGED vars => proof' \in {proof, None}
  BY DEF Die, PowerLoss, vars
<1>6. \A f \in Files : NewerVersionWrites(f) => proof' = proof
  BY DEF NewerVersionWrites
<1>7. \A f \in Files, g \in Generations : DamageGeneration(f, g) => proof' = proof
  BY DEF DamageGeneration
<1> QED
  BY <1>1, <1>2, <1>3, <1>4, <1>5, <1>6, <1>7 DEF Next

\* The restore proof is used up, or given back, by what the disk holds
\* (deleteAfterVerifiedRestore and reconcileVerifiedRestoreDeletion).
THEOREM ProofFollows == Spec => ProofFollowsBackup
<1>1. ASSUME IInv, [Next]_vars, proof = "reserved", proof' \in {"finalized", "available"}
      PROVE  Logical("backup")' = IF proof' = "finalized" THEN None ELSE op.value
  <2> USE <1>1 DEF IInv
  <2>1. DeleteStep /\ UNCHANGED migration
    BY ProofFrame, DirectoryAssumption
  <2>2. Doing("delete") /\ op \in Changes /\ op.value \in Backups
    BY <2>1, DeleteStepDoes
  <2> DEFINE current == disk["backup"]["current"]
             previous == disk["backup"]["previous"]
             kept == current \in {None, op.value} /\ previous = op.value
  <2>3. Legible(op.value) /\ ~Legible(None)
    BY <2>2, Constants DEF Legible
  <2>4. kept => LogicalOf(disk["backup"]) = op.value
    BY <2>3 DEF LogicalOf
  <2>5. current = None /\ previous = None => LogicalOf(disk["backup"]) = None
    BY <2>3 DEF LogicalOf
  <2>6. \A failed \in FailedReads :
          (current = None /\ ReadCheckedFile("backup", failed).value = op.value) => kept
    BY <2>2, <2>3, Constants, ReadIs DEF Files, Unreadable
  <2>7. CASE DeletePrepared
    <3>1. op.at = "prepare" /\ disk' = disk /\ proof' = "available"
      BY <2>7 DEF DeletePrepared, At, Step, Abort, medium
    <3>2. IF Legible(current) THEN current = op.value ELSE previous = op.value
      BY <2>2, <3>1 DEF Deleting, Readable, Legible
    <3>3. LogicalOf(disk["backup"]) = op.value
      BY <2>3, <3>2 DEF LogicalOf
    <3> QED
      BY <3>1, <3>3, LogicalIs DEF Files
  <2>8. CASE DeleteCurrent \/ DeleteCurrentFails
    <3>1. op.at = "current" /\ proof' = "available" /\ (disk' = disk \/ Put("backup", "current", None))
      BY <2>8 DEF DeleteCurrent, DeleteCurrentFails, At, Step, Abort
    <3>2. current = op.value /\ previous = op.value
      BY <2>2, <3>1 DEF Deleting
    <3>3. /\ disk'["backup"]["current"] \in {None, op.value}
          /\ disk'["backup"]["previous"] = op.value
      BY <3>1, <3>2 DEF Put, Stored, Files, Generations
    <3>4. LogicalOf(disk'["backup"]) = op.value
      BY <2>3, <3>3 DEF LogicalOf
    <3> QED
      BY <3>1, <3>4, LogicalIs DEF Files
  <2>9. CASE DeletePrevious
    <3>1. op.at = "previous" /\ proof' = "available" /\ disk' = disk
      BY <2>9 DEF DeletePrevious, At, Step, Abort
    <3> QED
      BY <2>2, <2>4, <3>1, LogicalIs DEF Deleting, Files
  <2>10. CASE ObserveDeletion
    <3>1. /\ op.at = "observe" /\ proof' = "available" /\ disk' = disk
          /\ \E failed \in FailedReads : ReadCheckedFile("backup", failed).value = op.value
      BY <2>10 DEF ObserveDeletion, At, Step, Abort, medium
    <3> QED
      BY <2>2, <2>4, <2>6, <3>1, LogicalIs DEF Deleting, Files
  <2>11. CASE SyncDeleted
    <3>1. op.at = "sync" /\ proof' = "finalized" /\ PutAndSync("backup", "previous", None)
      BY <2>11 DEF SyncDeleted, At, Finalize
    <3>2. disk'["backup"]["current"] = None /\ disk'["backup"]["previous"] = None
      BY <2>2, <3>1 DEF Deleting, PutAndSync, Stored, Files, Generations
    <3> QED
      BY <2>3, <3>1, <3>2, LogicalIs DEF LogicalOf, Files
  <2>12. CASE Reconcile
    <3>1. /\ op.at = "reconcile" /\ disk' = disk
          /\ \E failed \in FailedReads :
               \/ RepositoryRead("backup", failed).value = None /\ proof' = "finalized"
               \/ /\ RepositoryRead("backup", failed).value = op.value
                  /\ proof' = "available"
      BY <2>12 DEF Reconcile, At, Finalize, Abort, BackupRead, medium
    <3>2. CASE proof' = "finalized"
      <4>1. current = None /\ previous = None
        BY <3>1, <3>2, RepositoryReadIs DEF Files
      <4> QED
        BY <2>5, <3>1, <3>2, <4>1, LogicalIs DEF Files
    <3>3. CASE proof' = "available"
      <4>1. PICK failed \in FailedReads : RepositoryRead("backup", failed).value = op.value
        BY <3>1, <3>3
      <4>2. ReadCheckedFile("backup", failed).value = op.value
        BY <2>2, <4>1, RepositoryReadIs DEF Payloads, Files
      <4>3. current = None
        BY <2>2, <3>1 DEF Deleting
      <4> QED
        BY <2>4, <2>6, <3>1, <3>3, <4>2, <4>3, LogicalIs DEF Files
    <3> QED
      BY <3>2, <3>3
  <2>13. ~DeletePreviousFails /\ ~SyncDeletedFails
    BY DEF DeletePreviousFails, SyncDeletedFails, Step
  <2> QED
    BY <2>1, <2>7, <2>8, <2>9, <2>10, <2>11, <2>12, <2>13 DEF DeleteStep
<1>2. IInv /\ [Next]_vars =>
        [/\ (proof = "reserved" /\ proof' = "finalized") => Logical("backup")' = None
         /\ (proof = "reserved" /\ proof' = "available") => Logical("backup")' = op.value]_vars
  BY <1>1
<1> QED
  BY <1>2, Inductive, PTL DEF Spec, ProofFollowsBackup

\* The steps by which the program comes up.
LEMMA RunningFrame ==
  ASSUME [Next]_vars, running' # running, running'
  PROVE  StartMigrated \/ StartInitialised \/ ImportReturns
<1>1. CommitReturns \/ CreateReturns \/ BeginDelete \/ Die \/ PowerLoss \/ UNCHANGED vars => FALSE
  BY DEF CommitReturns, CreateReturns, BeginDelete, Die, PowerLoss, vars
<1>2. \A s \in Snapshots : ~CreateBackup(s)
  BY DEF CreateBackup
<1>3. \A c \in Callers : ~ReadCurrent(c) /\ ~ReadPrevious(c) /\ ~Commit(c)
  BY DEF ReadCurrent, ReadPrevious, Commit
<1>4. ~DeleteStep
  BY DEF DeleteStep, DeletePrepared, DeleteCurrent, DeleteCurrentFails, DeletePrevious,
     DeletePreviousFails, ObserveDeletion, SyncDeleted, SyncDeletedFails, Reconcile
<1>5. MigrationStep => StartMigrated \/ StartInitialised \/ ImportReturns
  BY DEF MigrationStep, StartDaily, StartLegacy, PreserveEvidence, Convert, ConvertReturns,
     RestoreLegacy, GivenUp
<1>6. \A f \in Files : ~NewerVersionWrites(f)
  BY DEF NewerVersionWrites
<1>7. \A f \in Files, g \in Generations : ~DamageGeneration(f, g)
  BY DEF DamageGeneration
<1> QED
  BY <1>1, <1>2, <1>3, <1>4, <1>5, <1>6, <1>7 DEF Next

-----------------------------------------------------------------------------
(* Each file is a register (CheckedRegister).                              *)

RegistersTyped ==
  \A f \in Files :
    /\ Logical(f) \in RegisterValues
    /\ Pending(f) \in RegisterValues \cup {Idle}

LEMMA RegisterTypes ==
  ASSUME IInv
  PROVE  RegistersTyped
<1> SUFFICES ASSUME NEW f \in Files
             PROVE  /\ Logical(f) \in RegisterValues
                    /\ Pending(f) \in RegisterValues \cup {Idle}
  BY DEF RegistersTyped
<1> USE DEF IInv
<1>1. \A g \in Generations : Legible(disk[f][g]) => disk[f][g] \in States \cup Backups
  BY DEF Stored, Legible, Contents
<1>2. LogicalOf(disk[f]) \in RegisterValues
  BY <1>1 DEF LogicalOf, RegisterValues, Generations
<1>3. write # None => write.payload \in States \cup Backups
  BY DEF TypeOK, Writes
<1>4. PendingOf(f, op, write, disk[f]) \in RegisterValues \cup {Idle}
  BY <1>1, <1>3 DEF PendingOf, RegisterValues, Generations
<1> QED
  BY <1>2, <1>4, LogicalIs, PendingIs

\* A step that leaves what can be read of a file, or a write that takes effect,
\* or damage.
RegisterStep(f) ==
  \/ UNCHANGED <<Logical(f), damages>>
  \/ /\ Pending(f) # Idle /\ Logical(f)' = Pending(f)
     /\ Pending(f)' \in {Pending(f), Idle} /\ damages' = damages
  \/ damages' = damages + 1 /\ Pending(f)' \in {Pending(f), Idle}

\* The steps of a write: the replacement takes effect, unless it prepares a
\* deletion, where both generations have come to hold the payload before.
LEMMA WriteStepIsRegisterStep ==
  ASSUME IInv, WriteStep, UNCHANGED <<running, op, proof, callers, migration>>, NEW f \in Files
  PROVE  RegisterStep(f)
<1> USE DEF IInv
<1>1. damages' = damages
  BY DEF WriteStep, Rotate, Replace, SyncReplaced, WriteFails
<1>2. /\ op \in Changes /\ op # None /\ write \in Writes /\ write # None /\ op' = op
      /\ write' # None /\ write'.file = write.file /\ write'.payload = write.payload
      /\ write.payload \in Payloads(write.file) /\ write.file \in Files
  BY WriteStepType DEF Writes
<1>3. CASE Keeps
  BY <1>1, <1>3, LogicalIs DEF Keeps, RegisterStep
<1>4. CASE /\ write.at = "rotate" /\ Readable(write.file, "current")
           /\ Sets(write.file, "previous", disk[write.file]["current"])
  <2>1. LogicalOf(disk'[f]) = LogicalOf(disk[f])
    BY <1>2, <1>4 DEF Sets, LogicalOf, Readable, Legible, Generations
  <2> QED
    BY <1>1, <2>1, LogicalIs DEF RegisterStep
<1>5. CASE /\ write.at = "replace" /\ write'.at = "sync"
           /\ Sets(write.file, "current", write.payload)
  <2>1. CASE f # write.file
    <3>1. LogicalOf(disk'[f]) = LogicalOf(disk[f])
      BY <1>5, <2>1 DEF Sets, LogicalOf, Generations
    <3> QED
      BY <1>1, <3>1, LogicalIs DEF RegisterStep
  <2>2. CASE f = write.file
    <3>1. Legible(write.payload)
      BY <1>2, Constants DEF Payloads, Legible
    <3>2. LogicalOf(disk'[f]) = write.payload
      BY <1>2, <1>5, <2>2, <3>1 DEF Sets, LogicalOf, Generations
    <3>3. CASE op.kind = "delete"
      <4>1. f = "backup" /\ op.at = "prepare" /\ write.payload = op.value
        BY <1>2, <2>2, <3>3 DEF Fits, Carries
      <4>2. /\ IF Legible(disk[f]["current"]) THEN disk[f]["current"] = op.value
                                             ELSE disk[f]["previous"] = op.value
        BY <1>2, <3>3, <4>1 DEF Deleting, Doing, Readable, Legible
      <4>3. LogicalOf(disk[f]) = write.payload
        BY <3>1, <4>1, <4>2 DEF LogicalOf
      <4> QED
        BY <1>1, <3>2, <4>3, LogicalIs DEF RegisterStep
    <3>4. CASE op.kind # "delete"
      <4>1. op.at # "unconvert"
        BY <1>2, <3>4 DEF Fits
      <4>2. /\ PendingOf(f, op, write, disk[f]) = write.payload
            /\ PendingOf(f, op', write', disk'[f]) = write.payload
        BY <1>2, <2>2, <3>4, <4>1 DEF PendingOf
      <4>3. write.payload # Idle
        BY <1>2, RegisterAssumption DEF RegisterValues, Payloads
      <4> QED
        BY <1>1, <3>2, <4>2, <4>3, LogicalIs, PendingIs DEF RegisterStep
    <3> QED
      BY <3>3, <3>4
  <2> QED
    BY <2>1, <2>2
<1> QED
  BY <1>3, <1>4, <1>5, WriteStepMedium

\* The deletion of the second generation takes effect; that of the first shows
\* nothing, because the second stands in.
LEMMA DeleteStepIsRegisterStep ==
  ASSUME IInv, DeleteStep, UNCHANGED migration, NEW f \in Files
  PROVE  RegisterStep(f)
<1> USE DEF IInv
<1>1. damages' = damages
  BY DeleteStepFrame
<1>2. Doing("delete") /\ op.value \in Backups /\ Legible(op.value) /\ ~Legible(None)
  BY DeleteStepDoes, Constants DEF Legible
<1>3. CASE Keeps
  BY <1>1, <1>3, LogicalIs DEF Keeps, RegisterStep
<1>4. CASE op.at = "current" /\ Sets("backup", "current", None)
  <2>1. disk["backup"]["current"] = op.value /\ disk["backup"]["previous"] = op.value
    BY <1>2, <1>4 DEF Deleting
  <2>2. LogicalOf(disk'[f]) = LogicalOf(disk[f])
    BY <1>2, <1>4, <2>1 DEF Sets, LogicalOf, Files, Generations
  <2> QED
    BY <1>1, <2>2, LogicalIs DEF RegisterStep
<1>5. CASE op.at = "sync" /\ Sets("backup", "previous", None)
  <2>1. disk["backup"]["current"] = None /\ disk["backup"]["previous"] = None
    BY <1>2, <1>5 DEF Deleting
  <2>2. LogicalOf(disk'[f]) = LogicalOf(disk[f])
    BY <1>5, <2>1 DEF Sets, LogicalOf, Files, Generations
  <2> QED
    BY <1>1, <2>2, LogicalIs DEF RegisterStep
<1>6. CASE /\ op.at = "previous"
           /\ Moves("sync") \/ Moves("observe")
           /\ Sets("backup", "previous", None)
  <2>1. CASE f = "state"
    <3>1. LogicalOf(disk'[f]) = LogicalOf(disk[f])
      BY <1>6, <2>1 DEF Sets, LogicalOf, Files, Generations
    <3> QED
      BY <1>1, <3>1, LogicalIs DEF RegisterStep
  <2>2. CASE f = "backup"
    <3>1. disk["backup"]["current"] = None
      BY <1>2, <1>6 DEF Deleting
    <3>2. LogicalOf(disk'[f]) = None
      BY <1>2, <1>6, <2>2, <3>1 DEF Sets, LogicalOf, Files, Generations
    <3>3. /\ PendingOf(f, op, write, disk[f]) = None
          /\ PendingOf(f, op', write', disk'[f]) = None
      BY <1>2, <1>6, <2>2 DEF PendingOf, Doing, Moves
    <3>4. None # Idle
      BY RegisterAssumption DEF RegisterValues
    <3> QED
      BY <1>1, <3>2, <3>3, <3>4, LogicalIs, PendingIs DEF RegisterStep
  <2> QED
    BY <2>1, <2>2 DEF Files
<1> QED
  BY <1>3, <1>4, <1>5, <1>6, DeleteStepDoes

\* The legacy bytes put back cannot be read: the second generation decides.
LEMMA RestoreLegacyIsRegisterStep ==
  ASSUME IInv, RestoreLegacy, NEW f \in Files
  PROVE  RegisterStep(f)
<1> USE DEF IInv
<1>1. /\ damages' = damages /\ op' = None /\ op # None /\ op.kind = "migrate"
      /\ op.at = "unconvert"
  BY DEF RestoreLegacy, GivenUp, At
<1>2. disk' = disk \/ Sets("backup", "current", Legacy)
  BY PutSets DEF RestoreLegacy, Files, Generations, Unreadable
<1>3. CASE disk' = disk \/ f # "backup"
  <2>1. LogicalOf(disk'[f]) = LogicalOf(disk[f])
    BY <1>2, <1>3 DEF Sets, LogicalOf, Files, Generations
  <2> QED
    BY <1>1, <2>1, LogicalIs DEF RegisterStep
<1>4. CASE Sets("backup", "current", Legacy) /\ f = "backup"
  <2>1. ~Legible(Legacy) /\ Legacy # None
    BY ContentAssumption DEF Legible, Unreadable
  <2>2. LogicalOf(disk'[f]) = PendingOf(f, op, write, disk[f])
    BY <1>1, <1>4, <2>1 DEF Sets, LogicalOf, PendingOf, Files, Generations
  <2>3. PendingOf(f, op', write', disk'[f]) = Idle
    BY <1>1 DEF PendingOf
  <2>4. LogicalOf(disk'[f]) # Idle
    <3>1. Legible(disk[f]["previous"]) => disk[f]["previous"] \in RegisterValues
      BY DEF Stored, Legible, Contents, RegisterValues, Files, Generations
    <3> QED
      BY <1>1, <1>4, <2>2, <3>1, RegisterAssumption DEF PendingOf, RegisterValues
  <2> QED
    BY <1>1, <2>2, <2>3, <2>4, LogicalIs, PendingIs DEF RegisterStep
<1> QED
  BY <1>2, <1>3, <1>4

\* Damage comes between changes or ends the one under way; no other step
\* touches the medium.
LEMMA MediumFrame ==
  ASSUME [Next]_vars
  PROVE  \/ WriteStep /\ UNCHANGED <<running, op, proof, callers, migration>>
         \/ DeleteStep /\ UNCHANGED migration
         \/ RestoreLegacy
         \/ op' = None /\ damages' = damages + 1
         \/ UNCHANGED <<disk, damages>>
<1>1. \A c \in Callers : ReadCurrent(c) \/ ReadPrevious(c) \/ Commit(c) => UNCHANGED <<disk, damages>>
  BY DEF ReadCurrent, ReadPrevious, Commit, EarlierLanded, medium
<1>2. \A s \in Snapshots : CreateBackup(s) => UNCHANGED <<disk, damages>>
  BY DEF CreateBackup, EarlierLanded
<1>3. CommitReturns \/ CreateReturns \/ BeginDelete \/ Die \/ UNCHANGED vars => UNCHANGED <<disk, damages>>
  BY DEF CommitReturns, CreateReturns, BeginDelete, Die, EarlierLanded, medium, vars
<1>4. MigrationStep => RestoreLegacy \/ UNCHANGED <<disk, damages>>
  BY DEF MigrationStep, StartMigrated, StartInitialised, StartDaily, StartLegacy, PreserveEvidence,
     Convert, ConvertReturns, ImportReturns, EarlierLanded, medium
<1>5. PowerLoss => op' = None /\ damages' = damages + 1
  BY DEF PowerLoss, Damage
<1>6. \A g \in Files : NewerVersionWrites(g) => op' = None /\ damages' = damages + 1
  BY DEF NewerVersionWrites, Damage
<1>7. \A h \in Files, g \in Generations :
        DamageGeneration(h, g) => op' = None /\ damages' = damages + 1
  BY DEF DamageGeneration, Damage
<1> QED
  BY <1>1, <1>2, <1>3, <1>4, <1>5, <1>6, <1>7 DEF Next

LEMMA NextIsRegisterStep ==
  ASSUME IInv, [Next]_vars, NEW f \in Files
  PROVE  RegisterStep(f)
<1>1. CASE WriteStep /\ UNCHANGED <<running, op, proof, callers, migration>>
  BY <1>1, WriteStepIsRegisterStep
<1>2. CASE DeleteStep /\ UNCHANGED migration
  BY <1>2, DeleteStepIsRegisterStep
<1>3. CASE RestoreLegacy
  BY <1>3, RestoreLegacyIsRegisterStep
<1>4. CASE op' = None /\ damages' = damages + 1
  <2>1. PendingOf(f, op', write', disk'[f]) = Idle
    BY <1>4 DEF PendingOf
  <2> QED
    BY <1>4, <2>1, PendingIs DEF RegisterStep
<1>5. CASE UNCHANGED <<disk, damages>>
  BY <1>5, LogicalIs DEF RegisterStep
<1> QED
  BY <1>1, <1>2, <1>3, <1>4, <1>5, MediumFrame

LEMMA InitIsRegister ==
  ASSUME Init, NEW f \in Files
  PROVE  /\ Logical(f) \in RegisterValues
         /\ Pending(f) = Idle
         /\ damages = 0
<1>1. IInv
  BY InitIInv
<1> QED
  BY <1>1, RegisterTypes DEF RegistersTyped, Init, Pending

\* The two generations of each file, written by writeCheckedFile and deleted by
\* deleteCheckedFile, are one register for whoever reads them.
THEOREM RegistersImplemented == Spec => FilesAreRegisters
<1>1. Init => StateRegister!Init /\ BackupRegister!Init
  BY InitIsRegister DEF StateRegister!Init, BackupRegister!Init, Files
<1>2. IInv => RegistersTyped
  BY RegisterTypes
<1>3. ASSUME IInv, RegistersTyped, RegistersTyped', [Next]_vars
      PROVE  /\ [StateRegister!Next]_<<Logical("state"), Pending("state"), damages>>
             /\ [BackupRegister!Next]_<<Logical("backup"), Pending("backup"), damages>>
  <2>1. \A f \in Files : RegisterStep(f)
    BY <1>3, NextIsRegisterStep
  <2>2. \A f \in Files :
          /\ Logical(f) \in RegisterValues /\ Logical(f)' \in RegisterValues
          /\ Pending(f) \in RegisterValues \cup {Idle}
          /\ Pending(f)' \in RegisterValues \cup {Idle}
    BY <1>3 DEF RegistersTyped
  <2>3. [StateRegister!Next]_<<Logical("state"), Pending("state"), damages>>
    BY <2>1, <2>2, RegisterAssumption DEF RegisterStep, StateRegister!Next, StateRegister!Begin,
       StateRegister!TakeEffect, StateRegister!End, StateRegister!Damage, Files
  <2>4. [BackupRegister!Next]_<<Logical("backup"), Pending("backup"), damages>>
    BY <2>1, <2>2, RegisterAssumption DEF RegisterStep, BackupRegister!Next, BackupRegister!Begin,
       BackupRegister!TakeEffect, BackupRegister!End, BackupRegister!Damage, Files
  <2> QED
    BY <2>3, <2>4
<1> QED
  BY <1>1, <1>2, <1>3, Inductive, PTL DEF Spec, FilesAreRegisters, StateRegister!Spec, BackupRegister!Spec

-----------------------------------------------------------------------------
(* An imported state and its backup.                                       *)

\* A change that may take the backup an imported state needs.
BackupBusy ==
  \/ Doing("create") \/ Doing("delete")
  \/ Doing("migrate") /\ op.at \in {"evidence", "convert", "converting"}

\* Beside an imported state lies its backup, or the one it was made of, and
\* nothing that is under way takes it.
Paired ==
  (damages = 0 /\ Logical("state") = Imported) =>
    /\ ~BackupBusy
    /\ Logical("backup") = Converted \/ LegacyBytes = Legacy

\* The steps by which a change goes on.
LEMMA GoesOn ==
  ASSUME [Next]_vars, op # None, op' # None, op' # op
  PROVE  DeleteStep \/ PreserveEvidence \/ Convert \/ ConvertReturns \/ ImportReturns
<1>1. \A c \in Callers : ReadCurrent(c) \/ ReadPrevious(c) \/ Commit(c) => FALSE
  BY DEF ReadCurrent, ReadPrevious, Commit
<1>2. \A s \in Snapshots : ~CreateBackup(s)
  BY DEF CreateBackup
<1>3. CommitReturns \/ CreateReturns \/ BeginDelete \/ Die \/ PowerLoss \/ UNCHANGED vars => FALSE
  BY DEF CommitReturns, CreateReturns, BeginDelete, Die, PowerLoss, vars
<1>4. MigrationStep => PreserveEvidence \/ Convert \/ ConvertReturns \/ ImportReturns
  BY DEF MigrationStep, StartMigrated, StartInitialised, StartDaily, StartLegacy, Migrating,
     RestoreLegacy, GivenUp
<1>5. \A f \in Files : ~NewerVersionWrites(f)
  BY DEF NewerVersionWrites
<1>6. \A f \in Files, g \in Generations : ~DamageGeneration(f, g)
  BY DEF DamageGeneration
<1> QED
  BY <1>1, <1>2, <1>3, <1>4, <1>5, <1>6 DEF Next

\* What takes a backup does not begin beside an imported state: there is no
\* backup to create (create), the daily state has been committed before
\* (deleteAfterVerifiedRestore), or there was no state to migrate.
LEMMA NothingTakesBackup ==
  ASSUME IInv, Paired, [Next]_vars, damages = 0, Logical("state") = Imported
  PROVE  ~BackupBusy'
<1> SUFFICES ASSUME BackupBusy'
             PROVE  FALSE
  OBVIOUS
<1>1. ~BackupBusy /\ (Logical("backup") = Converted \/ LegacyBytes = Legacy)
  BY DEF Paired
<1>2. op' # None /\ op' # op
  BY <1>1 DEF BackupBusy, Doing
<1>3. CASE op # None
  <2>1. ~DeleteStep
    BY <1>1 DEF BackupBusy, Doing, At, DeleteStep, DeletePrepared, DeleteCurrent,
       DeleteCurrentFails, DeletePrevious, DeletePreviousFails, ObserveDeletion, SyncDeleted,
       SyncDeletedFails, Reconcile
  <2>2. ~PreserveEvidence /\ ~Convert /\ ~ConvertReturns
    BY <1>1 DEF BackupBusy, Doing, At, PreserveEvidence, Convert, ConvertReturns
  <2>3. ImportReturns
    BY <1>2, <1>3, <2>1, <2>2, GoesOn
  <2>4. Doing("migrate") /\ Moves("unconvert")
    BY <1>1, <1>2, <2>3, MigrationGoesOnDoes DEF BackupBusy
  <2> QED
    BY <2>4 DEF BackupBusy, Moves, Doing
<1>4. ASSUME NEW c \in Callers, Commit(c)
      PROVE  FALSE
  BY <1>4 DEF Commit, Op, BackupBusy, Doing
<1>5. ASSUME NEW s \in Snapshots, CreateBackup(s)
      PROVE  FALSE
  <2>1. disk["backup"]["current"] = None /\ disk["backup"]["previous"] = None
    BY <1>5, RepositoryReadIs DEF CreateBackup, BackupRead, Files, FailedReads, IInv
  <2>2. Logical("backup") = None
    BY <2>1, LogicalIs DEF LogicalOf, Legible, Files
  <2> QED
    BY <1>1, <2>1, <2>2, Constants DEF LegacyBytes, Unreadable
<1>6. CASE BeginDelete
  <2>1. /\ RepositoryRead("state", {}).value \in States
        /\ RepositoryRead("state", {}).value.revision > 0
    BY <1>6 DEF BeginDelete, DailyPublished
  <2>2. RepositoryRead("state", {}).value = Logical("state")
    BY <2>1, RepositoryReadIs DEF Logical, Files, Payloads, FailedReads, IInv
  <2> QED
    BY <2>1, <2>2, Constants
<1>7. CASE StartDaily \/ StartLegacy
  <2>1. disk["state"]["current"] = None /\ disk["state"]["previous"] = None
    BY <1>7, RepositoryReadIs DEF StartDaily, StartLegacy, Migrating, Files, FailedReads, IInv
  <2> QED
    BY <2>1, LogicalIs, Constants DEF LogicalOf, Legible, Files
<1> QED
  BY <1>2, <1>3, <1>4, <1>5, <1>6, <1>7, Begins

\* An import takes effect beside the backup it has converted.
LEMMA ImportPairs ==
  ASSUME IInv, [Next]_vars, damages' = 0,
         Logical("state") # Imported, Logical("state")' = Imported
  PROVE  ~BackupBusy' /\ Logical("backup")' = Converted
<1> USE DEF IInv
<1>1. damages' # damages + 1
  BY ContentAssumption DEF TypeOK
<1>2. Pending("state") = Imported
  BY <1>1, NextIsRegisterStep DEF RegisterStep, Files
<1>3. op # None /\ write # None /\ write.file = "state" /\ write.payload = Imported
  BY <1>2, PendingIs, RegisterAssumption, Constants DEF PendingOf, RegisterValues, Files
<1>4. op.kind = "migrate" /\ op.at = "import"
  BY <1>3, Constants DEF Fits, First, Carries
<1>5. ~DeleteStep /\ ~RestoreLegacy
  BY <1>4 DEF At, RestoreLegacy, DeleteStep, DeletePrepared, DeleteCurrent,
     DeleteCurrentFails, DeletePrevious, DeletePreviousFails, ObserveDeletion, SyncDeleted,
     SyncDeletedFails, Reconcile
<1>6. disk' # disk
  BY LogicalIs DEF Files
<1>7. WriteStep /\ UNCHANGED <<running, op, proof, callers, migration>>
  BY <1>1, <1>5, <1>6, MediumFrame
<1>8. Importing'
  BY <1>7, WriteStepState
<1> QED
  BY <1>3, <1>4, <1>7, <1>8 DEF Importing, Doing, BackupBusy

LEMMA PairedKept ==
  ASSUME IInv, Paired, [Next]_vars
  PROVE  Paired'
<1> USE DEF IInv
<1> SUFFICES ASSUME damages' = 0, Logical("state")' = Imported
             PROVE  ~BackupBusy' /\ (Logical("backup")' = Converted \/ LegacyBytes' = Legacy)
  BY DEF Paired
<1>1. CASE Logical("state") # Imported
  BY <1>1, ImportPairs
<1>2. CASE Logical("state") = Imported
  <2>1. damages' # damages + 1
    BY ContentAssumption DEF TypeOK
  <2>2. damages = 0
    BY <2>1, NextIsRegisterStep DEF RegisterStep, Files
  <2>3. ~BackupBusy /\ (Logical("backup") = Converted \/ LegacyBytes = Legacy)
    BY <1>2, <2>2 DEF Paired
  <2>4. ~BackupBusy'
    BY <1>2, <2>2, NothingTakesBackup
  <2>5. CASE WriteStep /\ UNCHANGED <<running, op, proof, callers, migration>>
    <3>1. write # None /\ op # None /\ write.file = "state"
      BY <2>3, <2>5, WriteStepType DEF Fits, Carries, BackupBusy, Doing
    <3>2. disk'["backup"] = disk["backup"]
      BY <2>5, <3>1, WriteStepMedium DEF Sets, Keeps, Stored, Files
    <3> QED
      BY <2>3, <2>4, <3>2, LogicalIs DEF LegacyBytes, Files
  <2>6. CASE RestoreLegacy
    <3>1. disk' = disk \/ Sets("backup", "current", Legacy)
      BY <2>6, PutSets DEF RestoreLegacy, Files, Generations, Unreadable
    <3>2. CASE disk' = disk
      BY <2>3, <2>4, <3>2, LogicalIs DEF LegacyBytes, Files
    <3>3. CASE Sets("backup", "current", Legacy)
      BY <2>4, <3>3 DEF Sets, LegacyBytes, Files, Generations
    <3> QED
      BY <3>1, <3>2, <3>3
  <2>7. CASE DeleteStep /\ UNCHANGED migration
    BY <2>3, <2>7, DeleteStepDoes DEF BackupBusy
  <2>8. CASE disk' = disk
    BY <2>3, <2>4, <2>8, LogicalIs DEF LegacyBytes, Files
  <2> QED
    BY <2>1, <2>5, <2>6, <2>7, <2>8, MediumFrame
<1> QED
  BY <1>1, <1>2

\* An imported state runs beside its backup (replaceLegacy, initializeImported),
\* or beside the version 3 backup that restoreLegacy has put back after an
\* import that failed and yet took effect; the latter never straight from an
\* import that is reported.
THEOREM ImportedTogether == Spec => ImportedWithItsBackup
<1>1. Init => Paired
  <2> SUFFICES ASSUME Init
               PROVE  Logical("state") # Imported
    BY DEF Paired
  <2>1. disk["state"]["current"] = None /\ disk["state"]["previous"] = None
    BY DEF Init, Files, Generations
  <2> QED
    BY <2>1, LogicalIs, Constants DEF LogicalOf, Legible, Files
<1>2. ASSUME IInv, Paired, [Next]_vars, running', damages' = 0, Logical("state")' = Imported
      PROVE  \/ Logical("backup")' = Converted
             \/ ~At("migrate", "import") /\ LegacyBytes' = Legacy
  <2> USE <1>2 DEF IInv
  <2>1. Logical("backup")' = Converted \/ LegacyBytes' = Legacy
    BY PairedKept DEF Paired
  <2>2. ASSUME At("migrate", "import")
        PROVE  Logical("backup")' = Converted
    <3>1. Doing("migrate") /\ op.at = "import" /\ ~running
      BY <2>2 DEF At, Doing, Importing
    <3>2. ImportReturns
      BY <3>1, RunningFrame DEF TypeOK, Doing, StartMigrated, StartInitialised
    <3>3. disk' = disk
      BY <3>2, MigrationGoesOnDoes
    <3>4. Logical("backup") = Converted
      BY <3>1 DEF Importing
    <3> QED
      BY <3>3, <3>4, LogicalIs DEF Files
  <2> QED
    BY <2>1, <2>2
<1>3. IInv /\ Paired /\ [Next]_vars => Paired'
  BY PairedKept
<1>4. IInv /\ Paired /\ [Next]_vars =>
        [(running' /\ damages' = 0 /\ Logical("state")' = Imported) =>
           \/ Logical("backup")' = Converted
           \/ ~At("migrate", "import") /\ LegacyBytes' = Legacy]_vars
  BY <1>2
<1> QED
  BY <1>1, <1>3, <1>4, Inductive, PTL DEF Spec, ImportedWithItsBackup
=============================================================================
