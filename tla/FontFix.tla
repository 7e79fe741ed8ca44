-------------------------------- MODULE FontFix --------------------------------
(***************************************************************************)
(* Removal and restoration of Chinese fonts: fonts/service.ts, with the    *)
(* elevated script it runs (fonts/elevated-script.ts).                     *)
(*                                                                         *)
(* A call of the service is one record, `call', and the script it has      *)
(* started another, helpers["own"].  The script runs in a process that     *)
(* nothing ends with the service: when that dies, the script goes on as    *)
(* helpers["stray"], and nobody records its result.                        *)
(*                                                                         *)
(* A backup is made in two looks, at the files and then at the registry.   *)
(* It counts only when its last file has been written, and is removed when *)
(* anything fails.  Files are known by their names, as they are to the     *)
(* script; a registry value is a font with a name of the value, since      *)
(* several values may name one file.                                       *)
(***************************************************************************)
EXTENDS Naturals, Sequences, SequencesExt

CONSTANTS
  Fonts,      \* the Chinese fonts of a Windows installation
  Names,      \* the registry values there may be of one font
  None,
  MaxJobs,    \* bound: removals, and requests that start a job
  MaxFaults   \* bound: failures, fonts that appear, streams that break

VARIABLES
  installed,   \* the fonts whose files are in the font directory
  registered,  \* the values in the registry, each naming a font
  scheduled,   \* the fonts to be deleted when Windows starts next
  backups,     \* the complete backups, oldest first: font files and values
  inventory,   \* the files copied into the backup that is being made
  marker,      \* font-remove-last.json: pendingReboot, scheduledDeleteNames
  call,        \* the call under way: "remove", "restore" or None
  helpers,     \* per script: what it does, with what, and how far it is
  restored,    \* the fonts that the last restoration has reported
  forgotten,   \* the fonts of removals that came to no recorded end
  fresh,       \* the values that appeared since a backup last read the registry
  begun,
  faults

machineFonts == <<installed, registered, scheduled>>
fontRecords == <<backups, inventory, marker, restored, forgotten, fresh>>
fontVars == <<machineFonts, fontRecords, call, helpers>>

Scripts == {"own", "stray"}
Calls == {"remove", "restore"}

FontValues == Fonts \X Names

BackupSets == [files : SUBSET Fonts, entries : SUBSET FontValues]
Removals == [pending : SUBSET Fonts, owned : SUBSET Fonts]
ScriptStates ==
  [mode : Calls, names : SUBSET Fonts, entries : SUBSET FontValues, owned : SUBSET Fonts,
   pending : SUBSET Fonts, at : {"start", "values", "schedule", "cancel", "done", "failed"}]

ASSUME FontAssumption ==
  /\ Fonts # {}
  /\ None \notin Calls \cup ScriptStates
  /\ MaxJobs \in Nat
  /\ MaxFaults \in Nat

Fault == faults < MaxFaults /\ faults' = faults + 1
Begin == begun < MaxJobs /\ begun' = begun + 1
MayFail(failed) == IF failed THEN Fault ELSE UNCHANGED faults

NoRemoval == [pending |-> {}, owned |-> {}]

\* Only a backup that is complete counts, and only the newest of them.
LatestBackup == Last(backups)

Script(mode, names, entries, owned) ==
  [mode |-> mode, names |-> names, entries |-> entries, owned |-> owned,
   pending |-> {}, at |-> "start"]

ScriptAt(h, mode, at) == helpers[h] # None /\ helpers[h].mode = mode /\ helpers[h].at = at
GoTo(h, at) == helpers' = [helpers EXCEPT ![h].at = at]

-----------------------------------------------------------------------------
(* The service.                                                            *)

\* Mutant of RemovalPending: every removal stands for itself.
NeverPending == FALSE

RemovalPending == marker.pending # {}

\* remove(): a new backup, of the files first ...
StartRemoval ==
  /\ call = None
  /\ ~RemovalPending
  /\ installed # {}
  /\ Begin
  /\ call' = "remove"
  /\ inventory' = installed
  /\ UNCHANGED <<machineFonts, backups, marker, restored, forgotten, fresh, helpers, faults>>

BackingUp == inventory # {}

\* A file or the registry cannot be read: what there is of the backup goes.
BackupFails ==
  /\ BackingUp
  /\ Fault
  /\ call' = None
  /\ inventory' = {}
  /\ UNCHANGED <<machineFonts, backups, marker, restored, forgotten, fresh, helpers, begun>>

\* ... then of every value that names a Chinese font; the list of files is what
\* the script may delete.
RunRemoval ==
  /\ BackingUp
  /\ backups' = Append(backups, [files |-> inventory, entries |-> registered])
  /\ helpers' = [helpers EXCEPT !["own"] = Script("remove", inventory, {}, {})]
  /\ restored' = restored \ inventory
  /\ fresh' = {}
  /\ inventory' = {}
  /\ UNCHANGED <<machineFonts, marker, forgotten, call, begun, faults>>

\* The launcher waits for the script.  No result, a failed one and a marker
\* that cannot be written all leave the last marker in place.
RemovalReturns ==
  /\ call = "remove" /\ ~BackingUp
  /\ helpers["own"].at \in {"done", "failed"}
  /\ \E recorded \in {TRUE, FALSE} :
       /\ recorded => helpers["own"].at = "done"
       /\ MayFail(helpers["own"].at = "done" /\ ~recorded)
       /\ marker' = IF recorded
                    THEN [pending |-> helpers["own"].pending, owned |-> helpers["own"].owned]
                    ELSE marker
       /\ forgotten' = IF recorded THEN forgotten ELSE forgotten \cup helpers["own"].names
  /\ call' = None
  /\ helpers' = [helpers EXCEPT !["own"] = None]
  /\ UNCHANGED <<machineFonts, backups, inventory, restored, fresh, begun>>

\* restore().
StartRestore ==
  /\ call' = "restore"
  /\ helpers' = [helpers EXCEPT !["own"] =
       Script("restore", LatestBackup.files, LatestBackup.entries, marker.owned)]
  /\ UNCHANGED <<machineFonts, fontRecords>>

\* verifyRestoredBackup: files and values are there, whatever the script says.
Verified == LatestBackup.files \subseteq installed /\ LatestBackup.entries \subseteq registered

RestoreReturns(ok) ==
  /\ call = "restore"
  /\ helpers["own"].at \in {"done", "failed"}
  /\ ok => helpers["own"].at = "done" /\ Verified
  /\ MayFail(~ok /\ helpers["own"].at = "done" /\ Verified)
  /\ marker' = IF ok THEN NoRemoval ELSE marker
  /\ restored' = IF ok THEN LatestBackup.files ELSE restored
  /\ call' = None
  /\ helpers' = [helpers EXCEPT !["own"] = None]
  /\ UNCHANGED <<machineFonts, backups, inventory, forgotten, fresh>>

\* The process of the service ends; a script that it waits for goes on, a backup
\* that it has not finished does not count.
ServiceEnds ==
  /\ call' = None
  /\ helpers' = [own |-> None,
                 stray |-> IF helpers["own"] = None THEN helpers["stray"] ELSE helpers["own"]]
  /\ forgotten' = IF call = "remove" /\ ~BackingUp
                  THEN forgotten \cup helpers["own"].names ELSE forgotten
  /\ inventory' = {}
  /\ UNCHANGED <<machineFonts, backups, marker, restored, fresh>>

-----------------------------------------------------------------------------
(* The elevated script, mode remove.                                       *)

\* Mutant of InventoryFits: what is found is deleted.
AnyInventory(h) == TRUE

InventoryFits(h) == helpers[h].names = installed

\* A font that is in use stays for the next start of Windows.
DeleteFonts(h) ==
  /\ ScriptAt(h, "remove", "start")
  /\ IF InventoryFits(h)
     THEN \E deleted \in SUBSET installed :
            /\ installed' = installed \ deleted
            /\ helpers' = [helpers EXCEPT ![h].pending = installed \ deleted, ![h].at = "values"]
     ELSE GoTo(h, "failed") /\ UNCHANGED installed
  /\ UNCHANGED <<registered, scheduled, fontRecords, call, begun, faults>>

\* Every value that names one of the files goes, whether the backup has it or
\* not; one that cannot be removed is passed over in silence.
RemoveValues(h) ==
  /\ ScriptAt(h, "remove", "values")
  /\ \E kept \in SUBSET {v \in registered : v[1] \in helpers[h].names} :
       /\ MayFail(kept # {})
       /\ registered' = {v \in registered : v[1] \in helpers[h].names => v \in kept}
  /\ GoTo(h, "schedule")
  /\ UNCHANGED <<installed, scheduled, fontRecords, call, begun>>

\* What is scheduled already is not scheduled again, and so not owned.
ScheduleDeletes(h) ==
  /\ ScriptAt(h, "remove", "schedule")
  /\ scheduled' = scheduled \cup helpers[h].pending
  /\ helpers' = [helpers EXCEPT ![h].owned = helpers[h].pending \ scheduled, ![h].at = "done"]
  /\ UNCHANGED <<installed, registered, fontRecords, call, begun, faults>>

-----------------------------------------------------------------------------
(* The elevated script, mode restore.                                      *)

\* A file that is in use is passed over.
CopyFonts(h) ==
  /\ ScriptAt(h, "restore", "start")
  /\ \E copied \in SUBSET helpers[h].names :
       /\ MayFail(copied # helpers[h].names)
       /\ installed' = installed \cup copied
  /\ GoTo(h, "values")
  /\ UNCHANGED <<registered, scheduled, fontRecords, call, begun>>

WriteValues(h) ==
  /\ ScriptAt(h, "restore", "values")
  /\ registered' = registered \cup helpers[h].entries
  /\ GoTo(h, "cancel")
  /\ UNCHANGED <<installed, scheduled, fontRecords, call, begun, faults>>

\* Only what this program has scheduled is cancelled.
CancelDeletes(h) ==
  /\ ScriptAt(h, "restore", "cancel")
  /\ scheduled' = scheduled \ helpers[h].owned
  /\ GoTo(h, "done")
  /\ UNCHANGED <<installed, registered, fontRecords, call, begun, faults>>

\* The prompt is refused, the script throws, or it is killed.
ScriptFails(h) ==
  /\ helpers[h] # None
  /\ helpers[h].at # "failed"
  /\ Fault
  /\ GoTo(h, "failed")
  /\ UNCHANGED <<machineFonts, fontRecords, call, begun>>

\* Nobody reads the result of a stray script.
StrayEnds ==
  /\ helpers["stray"] # None
  /\ helpers["stray"].at \in {"done", "failed"}
  /\ helpers' = [helpers EXCEPT !["stray"] = None]
  /\ UNCHANGED <<machineFonts, fontRecords, call, begun, faults>>

\* Windows, or the user, installs a font: the file, some values that name it, or
\* both, whichever is there already.
FontAppears(f) ==
  /\ \E files \in SUBSET {f}, added \in SUBSET ({f} \X Names) :
       /\ ~(files \subseteq installed /\ added \subseteq registered)
       /\ installed' = installed \cup files
       /\ registered' = registered \cup added
       /\ fresh' = fresh \cup (added \ registered)
  /\ Fault
  /\ UNCHANGED <<scheduled, backups, inventory, marker, restored, forgotten, call, helpers, begun>>

ScriptStep ==
  \/ \E h \in Scripts :
       \/ DeleteFonts(h) \/ RemoveValues(h) \/ ScheduleDeletes(h)
       \/ CopyFonts(h) \/ WriteValues(h) \/ CancelDeletes(h) \/ ScriptFails(h)
  \/ StrayEnds

FontInit ==
  /\ installed \in SUBSET Fonts \ {{}}
  /\ registered \in SUBSET (installed \X Names)
  /\ scheduled = {}
  /\ backups = <<>>
  /\ inventory = {}
  /\ marker = NoRemoval
  /\ call = None
  /\ helpers = [h \in Scripts |-> None]
  /\ restored = {}
  /\ forgotten = {}
  /\ fresh = {}

=============================================================================
