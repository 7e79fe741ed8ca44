----------------------------- MODULE DesktopProofs -----------------------------
(***************************************************************************)
(* No font goes without a backup, and nobody waits in vain.                *)
(*                                                                         *)
(* Most actions of the desktop program leave the fonts alone, and those of *)
(* the fonts know nothing of the page: FontSteps separates the two.        *)
(***************************************************************************)
EXTENDS Desktop, SequenceTheorems, TLAPS

-----------------------------------------------------------------------------
(* What the page asks for.                                                 *)

Asked == fixAsked \in Kinds \cup {None}

LEMMA AskedStays == Asked /\ [Next]_vars => Asked'
<1> SUFFICES ASSUME Asked, [Next]_vars
             PROVE  Asked'
  OBVIOUS
<1> USE DEF Asked, page, requests, controls
<1>1. CASE UNCHANGED vars
  BY <1>1 DEF vars
<1>2. CASE ServerStep /\ UNCHANGED page
  BY <1>2
<1>3. CASE ScriptStep /\ UNCHANGED <<sidecar, stream, page>>
  BY <1>3
<1>4. CASE PageStep
  BY <1>4 DEF PageStep, OpenStream, ReceiveStart, ReceiveSummary, ReceiveDone, Receive,
     StatusArrives, CheckIsDue, FixAccepted, FixRefused, CheckAccepted, CheckRefused
<1>5. CASE UserStep
  <2>1. ASSUME NEW kind \in Fixes, ClickFix(kind) PROVE Asked'
    BY <2>1 DEF ClickFix, Kinds
  <2>2. CASE ClickFonts
    BY <2>2 DEF ClickFonts, Kinds
  <2>3. CASE ClickRefresh
    BY <2>3 DEF ClickRefresh
  <2>4. ASSUME NEW kind \in Elsewhere, AskedElsewhere(kind) PROVE Asked'
    BY <2>4 DEF AskedElsewhere
  <2>5. CASE OpenWindow \/ CloseWindow
    BY <2>5 DEF OpenWindow, CloseWindow
  <2>6. CASE EarlierVersion
    BY <2>6 DEF EarlierVersion
  <2> QED
    BY <1>5, <2>1, <2>2, <2>3, <2>4, <2>5, <2>6 DEF UserStep
<1>6. CASE Outside
  BY <1>6 DEF Outside, BreakStream, Reboot
<1> QED
  BY <1>1, <1>2, <1>3, <1>4, <1>5, <1>6 DEF Next

-----------------------------------------------------------------------------
(* The steps that concern the fonts.                                       *)

FontStep ==
  \/ server = "down" /\ UNCHANGED server /\ (StartRemoval \/ BackupFails \/ RunRemoval)
  \/ RemovalReturns
  \/ backups # <<>> /\ server = "up" /\ StartRestore
  \/ \E ok \in BOOLEAN : RestoreReturns(ok)
  \/ ServiceEnds
  \/ Reboot
  \/ ScriptStep /\ UNCHANGED server
  \/ (\E f \in Fonts : FontAppears(f)) /\ UNCHANGED server
  \/ UNCHANGED fontVars /\ (UNCHANGED server \/ call = None)

\* A request concerns them only as the start of a restoration.
LEMMA AcceptConcernsFonts ==
  ASSUME NEW kind \in Kinds, Accept(kind)
  PROVE  \/ UNCHANGED <<fontVars, server>>
         \/ backups # <<>> /\ server = "up" /\ StartRestore
<1>1. CASE kind \in Fixes
  BY <1>1 DEF Accept, AcceptFix, Fixes
<1>2. CASE kind = "check"
  BY <1>2 DEF Accept, AcceptCheck, Fixes
<1>3. CASE kind = "fonts"
  BY <1>3 DEF Accept, AcceptFonts, MayStart, Fixes
<1> QED
  BY <1>1, <1>2, <1>3 DEF Kinds

LEMMA FontSteps ==
  ASSUME Asked, [Next]_vars
  PROVE  FontStep
<1>1. CASE UNCHANGED vars
  BY <1>1 DEF vars, sidecar, FontStep
<1>2. CASE ServerStep
  <2>1. ASSUME NEW failed \in BOOLEAN, EndFonts(~failed) PROVE FontStep
    BY <2>1 DEF EndFonts, FontStep
  <2>2. ASSUME ~ \E failed \in BOOLEAN : EndFonts(~failed) PROVE UNCHANGED <<fontVars, server>>
    BY <1>2, <2>2 DEF ServerStep, ResolveTarget, EndFix, IntelArrives, StartDetection,
       EndDetection, FailDetection, RuntimeIsReady, RuntimeFails
  <2> QED
    BY <2>1, <2>2 DEF FontStep
<1>3. CASE ScriptStep /\ UNCHANGED <<sidecar, stream, page>>
  BY <1>3 DEF FontStep, sidecar
<1>4. CASE PageStep
  <2>1. CASE FixAccepted
    BY <2>1, AcceptConcernsFonts DEF FixAccepted, Asked, FontStep
  <2>2. CASE CheckAccepted
    BY <2>2, AcceptConcernsFonts DEF CheckAccepted, Kinds, FontStep
  <2>3. CASE ~FixAccepted /\ ~CheckAccepted
    BY <1>4, <2>3 DEF PageStep, OpenStream, ReceiveStart, ReceiveSummary, ReceiveDone, Receive,
       StatusArrives, CheckIsDue, FixRefused, CheckRefused, serverVars, sidecar, FontStep
  <2> QED
    BY <2>1, <2>2, <2>3
<1>5. CASE UserStep
  <2>1. ASSUME NEW kind \in Fixes, ClickFix(kind) PROVE FontStep
    BY <2>1 DEF ClickFix, serverVars, sidecar, FontStep
  <2>2. CASE ClickFonts \/ ClickRefresh
    BY <2>2 DEF ClickFonts, ClickRefresh, serverVars, sidecar, FontStep
  <2>3. ASSUME NEW kind \in Elsewhere, AskedElsewhere(kind) PROVE FontStep
    BY <2>3, AcceptConcernsFonts, PageAssumption DEF AskedElsewhere, FontStep
  <2>4. CASE OpenWindow
    BY <2>4 DEF OpenWindow, SpawnSidecar, FontStep
  <2>5. CASE CloseWindow
    BY <2>5 DEF CloseWindow, SidecarIsKilled, FontStep
  <2>6. CASE EarlierVersion
    BY <2>6 DEF EarlierVersion, sidecar, FontStep
  <2> QED
    BY <1>5, <2>1, <2>2, <2>3, <2>4, <2>5, <2>6 DEF UserStep
<1>6. CASE Outside
  <2>1. ASSUME NEW f \in Fonts, FontAppears(f), UNCHANGED sidecar PROVE FontStep
    BY <2>1 DEF FontStep, sidecar
  <2>2. CASE Reboot
    BY <2>2 DEF FontStep
  <2>3. CASE BreakStream \/ IntelExpires
    BY <2>3 DEF BreakStream, IntelExpires, sidecar, FontStep
  <2> QED
    BY <1>6, <2>1, <2>2, <2>3 DEF Outside
<1> QED
  BY <1>1, <1>2, <1>3, <1>4, <1>5, <1>6 DEF Next

-----------------------------------------------------------------------------
(* What the fonts, the backups and the scripts are.                        *)

FontTypes ==
  /\ installed \in SUBSET Fonts /\ registered \in SUBSET FontValues /\ scheduled \in SUBSET Fonts
  /\ inventory \in SUBSET Fonts /\ fresh \in SUBSET FontValues
  /\ backups \in Seq(BackupSets)
  /\ marker \in Removals
  /\ call \in Calls \cup {None}
  /\ helpers \in [Scripts -> ScriptStates \cup {None}]

\* Who has called waits for a script, or is a removal that makes its backup;
\* removals are what earlier versions do, while this program is not running.
CallHasScript ==
  /\ call # None => helpers["own"] # None \/ BackingUp
  /\ BackingUp => call = "remove" /\ server = "down"

LEMMA NewestBackup ==
  ASSUME backups \in Seq(BackupSets), backups # <<>>
  PROVE  LatestBackup \in BackupSets /\ LatestBackup \in ToSet(backups)
BY DEF LatestBackup, Last, ToSet

LEMMA NewScript ==
  ASSUME NEW mode \in Calls, NEW names \in SUBSET Fonts, NEW entries \in SUBSET FontValues,
         NEW owned \in SUBSET Fonts
  PROVE  Script(mode, names, entries, owned) \in ScriptStates
BY DEF Script, ScriptStates

\* A script that goes on is a script.
LEMMA ScriptGoesOn ==
  ASSUME FontTypes, NEW h \in Scripts, helpers[h] # None,
         NEW at \in {"start", "values", "schedule", "cancel", "done", "failed"}, GoTo(h, at)
  PROVE  /\ helpers' \in [Scripts -> ScriptStates \cup {None}]
         /\ helpers'[h] \in ScriptStates
         /\ helpers'[h].names = helpers[h].names
         /\ helpers'[h].pending = helpers[h].pending
         /\ helpers'[h].entries = helpers[h].entries
         /\ \A g \in Scripts \ {h} : helpers'[g] = helpers[g]
<1>1. helpers[h] \in ScriptStates
  BY DEF FontTypes
<1>2. [helpers[h] EXCEPT !.at = at] \in ScriptStates
  BY <1>1 DEF ScriptStates
<1>3. helpers' = [helpers EXCEPT ![h] = [helpers[h] EXCEPT !.at = at]]
  BY DEF GoTo
<1>4. [helpers[h] EXCEPT !.at = at].names = helpers[h].names
      /\ [helpers[h] EXCEPT !.at = at].pending = helpers[h].pending
      /\ [helpers[h] EXCEPT !.at = at].entries = helpers[h].entries
  BY <1>1 DEF ScriptStates
<1> QED
  BY <1>2, <1>3, <1>4 DEF FontTypes

-----------------------------------------------------------------------------
(* The fonts and values that some backup holds.                            *)

SavedFiles == UNION {b.files : b \in ToSet(backups)}
SavedValues == UNION {b.entries : b \in ToSet(backups)}

\* Of the values, the backups miss only those that have appeared since the
\* registry was last read for one.
BackupsCover ==
  /\ backups # <<>> => registered \ fresh \subseteq SavedValues
  /\ scheduled \subseteq SavedFiles

\* A script works from the files and values of a complete backup.
WorksFrom(script) ==
  /\ script.names \subseteq SavedFiles /\ script.pending \subseteq SavedFiles
  /\ script.entries \subseteq SavedValues

ScriptsWorkFromBackups ==
  \A h \in Scripts : helpers[h] # None => backups # <<>> /\ WorksFrom(helpers[h])

FontInv == FontTypes /\ CallHasScript /\ BackupsCover /\ ScriptsWorkFromBackups

\* What the next removal adds.
LEMMA BackupAdded ==
  ASSUME backups \in Seq(BackupSets), NEW b \in BackupSets, backups' = Append(backups, b)
  PROVE  /\ backups' \in Seq(BackupSets)
         /\ SavedFiles' = SavedFiles \cup b.files
         /\ SavedValues' = SavedValues \cup b.entries
<1>1. ToSet(backups') = ToSet(backups) \cup {b}
  BY DEF ToSet
<1>2. backups' \in Seq(BackupSets)
  OBVIOUS
<1> QED
  BY <1>1, <1>2 DEF SavedFiles, SavedValues

LEMMA BackupsKept ==
  ASSUME UNCHANGED backups
  PROVE  SavedFiles' = SavedFiles /\ SavedValues' = SavedValues
BY DEF SavedFiles, SavedValues

-----------------------------------------------------------------------------
(* The calls of the service.                                               *)

LEMMA StartRemovalKeeps ==
  ASSUME FontInv, StartRemoval, server = "down", UNCHANGED server
  PROVE  FontInv'
<1> USE DEF FontInv
<1>1. /\ call' = "remove" /\ inventory' = installed
      /\ UNCHANGED <<machineFonts, backups, marker, fresh, helpers>>
  BY DEF StartRemoval
<1>2. SavedFiles' = SavedFiles /\ SavedValues' = SavedValues
  BY <1>1, BackupsKept
<1>3. FontTypes'
  BY <1>1 DEF FontTypes, machineFonts, Calls
<1>4. CallHasScript'
  BY <1>1 DEF CallHasScript, BackingUp, StartRemoval
<1>5. BackupsCover'
  BY <1>1, <1>2 DEF BackupsCover, machineFonts
<1>6. ScriptsWorkFromBackups'
  BY <1>1, <1>2 DEF ScriptsWorkFromBackups, WorksFrom
<1> QED
  BY <1>3, <1>4, <1>5, <1>6

LEMMA BackupFailsKeeps ==
  ASSUME FontInv, BackupFails, UNCHANGED server
  PROVE  FontInv'
<1> USE DEF FontInv
<1>1. /\ call' = None /\ inventory' = {}
      /\ UNCHANGED <<machineFonts, backups, marker, fresh, helpers>>
  BY DEF BackupFails
<1>2. SavedFiles' = SavedFiles /\ SavedValues' = SavedValues
  BY <1>1, BackupsKept
<1>3. FontTypes' /\ CallHasScript'
  BY <1>1 DEF FontTypes, machineFonts, CallHasScript, BackingUp
<1>4. BackupsCover' /\ ScriptsWorkFromBackups'
  BY <1>1, <1>2 DEF BackupsCover, machineFonts, ScriptsWorkFromBackups, WorksFrom
<1> QED
  BY <1>3, <1>4

LEMMA RunRemovalKeeps ==
  ASSUME FontInv, RunRemoval, UNCHANGED server
  PROVE  FontInv'
<1> USE DEF FontInv, Scripts
<1> DEFINE b == [files |-> inventory, entries |-> registered]
           s == Script("remove", inventory, {}, {})
<1>1. b \in BackupSets /\ b.files = inventory /\ b.entries = registered
  BY DEF FontTypes, BackupSets
<1>2. /\ backups' \in Seq(BackupSets) /\ backups' # <<>>
      /\ SavedFiles' = SavedFiles \cup inventory
      /\ SavedValues' = SavedValues \cup registered
  <2> HIDE DEF b
  <2>1. backups' = Append(backups, b)
    BY DEF b, RunRemoval
  <2>2. backups' # <<>>
    BY <1>1, <2>1 DEF FontTypes
  <2> QED
    BY <1>1, <2>1, <2>2, BackupAdded DEF FontTypes
<1>3. s \in ScriptStates /\ s.names = inventory /\ s.pending = {} /\ s.entries = {}
  <2>1. s \in ScriptStates
    BY NewScript DEF FontTypes, Calls
  <2> QED
    BY <2>1 DEF Script
<1>4. /\ helpers' = [helpers EXCEPT !["own"] = s]
      /\ inventory' = {} /\ fresh' = {}
      /\ UNCHANGED <<machineFonts, marker, call>>
  BY DEF RunRemoval
<1> HIDE DEF s, b
<1>5. FontTypes'
  BY <1>2, <1>3, <1>4 DEF FontTypes, machineFonts
<1>6. CallHasScript'
  BY <1>3, <1>4, FontAssumption DEF FontTypes, CallHasScript, BackingUp
<1>7. BackupsCover'
  BY <1>2, <1>4 DEF BackupsCover, machineFonts
<1>8. ScriptsWorkFromBackups'
  <2> SUFFICES ASSUME NEW h \in Scripts, helpers'[h] # None
               PROVE  WorksFrom(helpers[h])'
    BY <1>2 DEF ScriptsWorkFromBackups
  <2>1. CASE h = "own"
    BY <2>1, <1>2, <1>3, <1>4 DEF FontTypes, WorksFrom
  <2>2. CASE h = "stray"
    BY <2>2, <1>2, <1>4 DEF FontTypes, ScriptsWorkFromBackups, WorksFrom
  <2> QED
    BY <2>1, <2>2
<1> QED
  BY <1>5, <1>6, <1>7, <1>8

LEMMA StartRestoreKeeps ==
  ASSUME FontInv, backups # <<>>, server = "up", StartRestore
  PROVE  FontInv'
<1> USE DEF FontInv, Scripts
<1> DEFINE s == Script("restore", LatestBackup.files, LatestBackup.entries, marker.owned)
<1>1. /\ LatestBackup.files \in SUBSET Fonts /\ LatestBackup.entries \in SUBSET FontValues
      /\ LatestBackup.files \subseteq SavedFiles /\ LatestBackup.entries \subseteq SavedValues
  BY NewestBackup DEF FontTypes, BackupSets, SavedFiles, SavedValues
<1>2. /\ s \in ScriptStates /\ s.names \subseteq SavedFiles /\ s.pending = {}
      /\ s.entries \subseteq SavedValues
  <2>1. s \in ScriptStates
    BY <1>1, NewScript DEF FontTypes, Removals, Calls
  <2> QED
    BY <1>1, <2>1 DEF Script
<1>3. helpers' = [helpers EXCEPT !["own"] = s] /\ call' = "restore"
  BY DEF StartRestore
<1>4. UNCHANGED <<installed, registered, scheduled, backups, inventory, marker, fresh>>
  BY DEF StartRestore, machineFonts, fontRecords
<1>5. SavedFiles' = SavedFiles /\ SavedValues' = SavedValues
  BY <1>4, BackupsKept
<1> HIDE DEF s
<1>6. FontTypes'
  BY <1>2, <1>3, <1>4 DEF FontTypes, Calls
<1>7. CallHasScript'
  BY <1>2, <1>3, <1>4, FontAssumption DEF FontTypes, CallHasScript, BackingUp
<1>8. BackupsCover'
  BY <1>4, <1>5 DEF BackupsCover
<1>9. ScriptsWorkFromBackups'
  BY <1>2, <1>3, <1>4, <1>5 DEF FontTypes, ScriptsWorkFromBackups, WorksFrom
<1> QED
  BY <1>6, <1>7, <1>8, <1>9

\* A call that returns or dies leaves fewer scripts, and the marker of one.
LEMMA CallEndsKeeps ==
  ASSUME FontInv, UNCHANGED <<machineFonts, backups, fresh>>,
         call' = None, inventory' = {}, marker' \in Removals,
         helpers' \in [Scripts -> ScriptStates \cup {None}],
         \A h \in Scripts : helpers'[h] = None \/ \E g \in Scripts : helpers'[h] = helpers[g]
  PROVE  FontInv'
<1> USE DEF FontInv
<1>1. SavedFiles' = SavedFiles /\ SavedValues' = SavedValues
  BY BackupsKept
<1>2. FontTypes'
  BY DEF FontTypes, machineFonts
<1>3. BackupsCover'
  BY <1>1 DEF BackupsCover, machineFonts
<1>4. ScriptsWorkFromBackups'
  BY <1>1 DEF ScriptsWorkFromBackups, WorksFrom
<1> QED
  BY <1>2, <1>3, <1>4 DEF CallHasScript, BackingUp

LEMMA RemovalReturnsKeeps == FontInv /\ RemovalReturns => FontInv'
<1> SUFFICES ASSUME FontInv, RemovalReturns
             PROVE  FontInv'
  OBVIOUS
<1>1. helpers["own"] \in ScriptStates
  BY FontAssumption DEF FontInv, FontTypes, CallHasScript, RemovalReturns, Scripts, Calls
<1>2. marker' \in Removals
  BY <1>1 DEF RemovalReturns, FontInv, FontTypes, Removals, ScriptStates
<1> QED
  BY <1>2, CallEndsKeeps DEF RemovalReturns, BackingUp, FontInv, FontTypes, Scripts

LEMMA RestoreReturnsKeeps ==
  ASSUME FontInv, NEW ok \in BOOLEAN, RestoreReturns(ok)
  PROVE  FontInv'
<1>1. marker' \in Removals
  BY DEF RestoreReturns, NoRemoval, FontInv, FontTypes, Removals
<1>2. inventory' = {}
  BY DEF RestoreReturns, FontInv, CallHasScript, BackingUp
<1> QED
  BY <1>1, <1>2, CallEndsKeeps DEF RestoreReturns, FontInv, FontTypes, Scripts

LEMMA ServiceEndsKeeps == FontInv /\ ServiceEnds => FontInv'
<1> SUFFICES ASSUME FontInv, ServiceEnds
             PROVE  FontInv'
  OBVIOUS
<1>1. /\ helpers'["own"] = None
      /\ helpers'["stray"] = IF helpers["own"] = None THEN helpers["stray"] ELSE helpers["own"]
  BY DEF ServiceEnds
<1>2. helpers' \in [Scripts -> ScriptStates \cup {None}]
  BY <1>1 DEF ServiceEnds, FontInv, FontTypes, Scripts
<1> QED
  BY <1>1, <1>2, CallEndsKeeps DEF ServiceEnds, FontInv, FontTypes, Scripts

-----------------------------------------------------------------------------
(* The steps of a script, and of Windows.                                  *)

\* A step of one script that leaves the backups alone keeps the invariant if
\* it keeps what is said of the fonts and of that script.
LEMMA ScriptStepKeeps ==
  ASSUME FontInv, NEW h \in Scripts, helpers[h] # None,
         UNCHANGED <<fontRecords, call, server>>,
         installed' \in SUBSET Fonts, registered' \in SUBSET FontValues,
         scheduled' \in SUBSET Fonts,
         registered' \ fresh \subseteq SavedValues, scheduled' \subseteq SavedFiles,
         helpers' \in [Scripts -> ScriptStates \cup {None}], helpers'[h] # None,
         helpers'[h].names \subseteq SavedFiles, helpers'[h].pending \subseteq SavedFiles,
         helpers'[h].entries \subseteq SavedValues,
         \A g \in Scripts \ {h} : helpers'[g] = helpers[g]
  PROVE  FontInv'
<1> USE DEF FontInv, fontRecords
<1>1. SavedFiles' = SavedFiles /\ SavedValues' = SavedValues
  BY BackupsKept
<1>2. FontTypes'
  BY DEF FontTypes
<1>3. BackupsCover'
  BY <1>1 DEF BackupsCover
<1>4. ScriptsWorkFromBackups'
  BY <1>1 DEF ScriptsWorkFromBackups, WorksFrom
<1>5. CallHasScript'
  BY DEF CallHasScript, BackingUp, Scripts
<1> QED
  BY <1>2, <1>3, <1>4, <1>5

\* One lemma for the steps that change nothing else of the script.
LEMMA MovingScriptKeeps ==
  ASSUME FontInv, NEW h \in Scripts, helpers[h] # None,
         NEW at \in {"start", "values", "schedule", "cancel", "done", "failed"}, GoTo(h, at),
         UNCHANGED <<fontRecords, call, server>>,
         installed' \in SUBSET Fonts, registered' \in SUBSET FontValues,
         scheduled' \in SUBSET Fonts,
         registered' \ fresh \subseteq SavedValues, scheduled' \subseteq SavedFiles
  PROVE  FontInv'
<1>1. /\ helpers' \in [Scripts -> ScriptStates \cup {None}]
      /\ helpers'[h] \in ScriptStates
      /\ helpers'[h].names = helpers[h].names
      /\ helpers'[h].pending = helpers[h].pending
      /\ helpers'[h].entries = helpers[h].entries
      /\ \A g \in Scripts \ {h} : helpers'[g] = helpers[g]
  BY ScriptGoesOn DEF FontInv
<1>2. helpers'[h] # None
  BY <1>1, FontAssumption
<1> QED
  BY <1>1, <1>2, ScriptStepKeeps DEF FontInv, ScriptsWorkFromBackups, WorksFrom

LEMMA DeleteFontsKeeps ==
  ASSUME FontInv, NEW h \in Scripts, DeleteFonts(h), UNCHANGED server
  PROVE  FontInv' /\ installed \ installed' \subseteq SavedFiles
<1>1. /\ helpers[h] # None /\ helpers[h] \in ScriptStates
      /\ backups # <<>> /\ WorksFrom(helpers[h])
  BY DEF DeleteFonts, ScriptAt, FontInv, FontTypes, ScriptsWorkFromBackups
<1>2. UNCHANGED <<fontRecords, call, registered, scheduled>>
  BY DEF DeleteFonts
<1>3. CASE ~InventoryFits(h)
  <2>1. GoTo(h, "failed") /\ UNCHANGED installed
    BY <1>3 DEF DeleteFonts
  <2> QED
    BY <1>1, <1>2, <2>1, MovingScriptKeeps DEF FontInv, FontTypes, BackupsCover
<1>4. CASE InventoryFits(h)
  <2>1. installed \subseteq SavedFiles
    BY <1>1, <1>4 DEF InventoryFits, WorksFrom
  <2>2. PICK deleted \in SUBSET installed :
          /\ installed' = installed \ deleted
          /\ helpers' = [helpers EXCEPT ![h].pending = installed \ deleted, ![h].at = "values"]
    BY <1>4 DEF DeleteFonts
  <2> DEFINE s == [helpers[h] EXCEPT !.pending = installed \ deleted, !.at = "values"]
  <2>3. /\ s \in ScriptStates /\ s.names = helpers[h].names /\ s.pending = installed \ deleted
        /\ s.entries = helpers[h].entries
    BY <1>1 DEF ScriptStates, FontInv, FontTypes
  <2>4. helpers' = [helpers EXCEPT ![h] = s]
    BY <2>2 DEF FontInv, FontTypes
  <2> HIDE DEF s
  <2>5. /\ helpers' \in [Scripts -> ScriptStates \cup {None}]
        /\ helpers'[h] = s
        /\ \A g \in Scripts \ {h} : helpers'[g] = helpers[g]
    BY <2>3, <2>4 DEF FontInv, FontTypes
  <2>6. s # None /\ WorksFrom(s)
    BY <1>1, <2>1, <2>3, FontAssumption DEF WorksFrom
  <2>7. /\ installed' \in SUBSET Fonts /\ registered' \in SUBSET FontValues
        /\ scheduled' \in SUBSET Fonts
        /\ registered' \ fresh \subseteq SavedValues /\ scheduled' \subseteq SavedFiles
    BY <1>1, <1>2, <2>2 DEF FontInv, FontTypes, BackupsCover
  <2>8. FontInv'
    BY <1>1, <1>2, <2>5, <2>6, <2>7, ScriptStepKeeps DEF WorksFrom
  <2> QED
    BY <2>1, <2>8
<1> QED
  BY <1>3, <1>4

LEMMA RemoveValuesKeeps ==
  ASSUME FontInv, NEW h \in Scripts, RemoveValues(h), UNCHANGED server
  PROVE  FontInv' /\ (registered \ registered') \ fresh \subseteq SavedValues
<1>1. helpers[h] # None /\ backups # <<>>
  BY DEF RemoveValues, ScriptAt, FontInv, ScriptsWorkFromBackups
<1>2. UNCHANGED <<fontRecords, call, installed, scheduled>> /\ GoTo(h, "schedule")
  BY DEF RemoveValues
<1>3. registered' \subseteq registered
  BY DEF RemoveValues
<1>4. registered \ fresh \subseteq SavedValues
  BY <1>1 DEF FontInv, BackupsCover
<1>5. /\ registered' \in SUBSET FontValues /\ installed' \in SUBSET Fonts
      /\ scheduled' \in SUBSET Fonts /\ scheduled' \subseteq SavedFiles
  BY <1>2, <1>3 DEF FontInv, FontTypes, BackupsCover
<1>6. FontInv'
  BY <1>1, <1>2, <1>3, <1>4, <1>5, MovingScriptKeeps
<1> QED
  BY <1>4, <1>6

LEMMA ScheduleDeletesKeeps ==
  ASSUME FontInv, NEW h \in Scripts, ScheduleDeletes(h), UNCHANGED server
  PROVE  FontInv'
<1>1. /\ helpers[h] # None /\ helpers[h] \in ScriptStates
      /\ backups # <<>> /\ WorksFrom(helpers[h])
  BY DEF ScheduleDeletes, ScriptAt, FontInv, FontTypes, ScriptsWorkFromBackups
<1>2. UNCHANGED <<fontRecords, call, installed, registered>>
      /\ scheduled' = scheduled \cup helpers[h].pending
  BY DEF ScheduleDeletes
<1> DEFINE s == [helpers[h] EXCEPT !.owned = helpers[h].pending \ scheduled, !.at = "done"]
<1>3. /\ s \in ScriptStates /\ s.names = helpers[h].names /\ s.pending = helpers[h].pending
      /\ s.entries = helpers[h].entries
  BY <1>1 DEF ScriptStates
<1>4. helpers' = [helpers EXCEPT ![h] = s]
  BY DEF ScheduleDeletes, FontInv, FontTypes
<1> HIDE DEF s
<1>5. /\ helpers' \in [Scripts -> ScriptStates \cup {None}]
      /\ helpers'[h] = s /\ s # None
      /\ \A g \in Scripts \ {h} : helpers'[g] = helpers[g]
  BY <1>3, <1>4, FontAssumption DEF FontInv, FontTypes
<1>6. /\ installed' \in SUBSET Fonts /\ registered' \in SUBSET FontValues
      /\ scheduled' \in SUBSET Fonts
      /\ registered' \ fresh \subseteq SavedValues /\ scheduled' \subseteq SavedFiles
  BY <1>1, <1>2 DEF FontInv, FontTypes, BackupsCover, ScriptStates, WorksFrom
<1> QED
  BY <1>1, <1>2, <1>3, <1>5, <1>6, ScriptStepKeeps DEF WorksFrom

LEMMA RestoringScriptKeeps ==
  ASSUME FontInv, NEW h \in Scripts, CopyFonts(h) \/ WriteValues(h) \/ CancelDeletes(h),
         UNCHANGED server
  PROVE  FontInv' /\ installed \subseteq installed' /\ registered \subseteq registered'
<1>1. /\ helpers[h] # None /\ helpers[h] \in ScriptStates
      /\ backups # <<>> /\ WorksFrom(helpers[h])
  BY DEF CopyFonts, WriteValues, CancelDeletes, ScriptAt, FontInv, FontTypes,
     ScriptsWorkFromBackups
<1>2. UNCHANGED <<fontRecords, call>>
  BY DEF CopyFonts, WriteValues, CancelDeletes
<1>3. helpers[h].names \in SUBSET Fonts /\ helpers[h].entries \in SUBSET FontValues
  BY <1>1 DEF ScriptStates
<1>4. \E at \in {"values", "cancel", "done"} : GoTo(h, at)
  BY DEF CopyFonts, WriteValues, CancelDeletes
<1>5. /\ installed \subseteq installed' /\ installed' \subseteq installed \cup helpers[h].names
      /\ registered \subseteq registered' /\ registered' \subseteq registered \cup helpers[h].entries
      /\ scheduled' \subseteq scheduled
  BY DEF CopyFonts, WriteValues, CancelDeletes
<1>6. /\ installed' \in SUBSET Fonts /\ registered' \in SUBSET FontValues
      /\ scheduled' \in SUBSET Fonts
      /\ registered' \ fresh \subseteq SavedValues /\ scheduled' \subseteq SavedFiles
  BY <1>1, <1>3, <1>5 DEF FontInv, FontTypes, BackupsCover, WorksFrom
<1> QED
  BY <1>1, <1>2, <1>4, <1>5, <1>6, MovingScriptKeeps

LEMMA ScriptEndsKeeps ==
  ASSUME FontInv, StrayEnds \/ (\E h \in Scripts : ScriptFails(h)), UNCHANGED server
  PROVE  FontInv' /\ UNCHANGED machineFonts
<1>1. ASSUME NEW h \in Scripts, ScriptFails(h) PROVE FontInv' /\ UNCHANGED machineFonts
  <2>1. helpers[h] # None /\ GoTo(h, "failed") /\ UNCHANGED <<machineFonts, fontRecords, call>>
    BY <1>1 DEF ScriptFails
  <2> QED
    BY <2>1, MovingScriptKeeps DEF machineFonts, FontInv, FontTypes, BackupsCover,
       ScriptsWorkFromBackups
<1>2. CASE StrayEnds
  <2>1. helpers' = [helpers EXCEPT !["stray"] = None] /\ UNCHANGED <<machineFonts, fontRecords, call>>
    BY <1>2 DEF StrayEnds
  <2>2. SavedFiles' = SavedFiles /\ SavedValues' = SavedValues
    BY <2>1, BackupsKept DEF fontRecords
  <2>3. FontTypes' /\ CallHasScript'
    BY <2>1 DEF FontInv, FontTypes, CallHasScript, BackingUp, Scripts, machineFonts, fontRecords
  <2>4. BackupsCover'
    BY <2>1, <2>2 DEF FontInv, BackupsCover, machineFonts, fontRecords
  <2>5. ScriptsWorkFromBackups'
    BY <2>1, <2>2 DEF FontInv, FontTypes, ScriptsWorkFromBackups, WorksFrom, fontRecords
  <2> QED
    BY <2>1, <2>3, <2>4, <2>5 DEF FontInv
<1> QED
  BY <1>1, <1>2

LEMMA RebootKeeps ==
  ASSUME FontInv, Reboot
  PROVE  FontInv' /\ installed \ installed' \subseteq SavedFiles /\ UNCHANGED registered
<1> USE DEF FontInv
<1>1. /\ installed' = installed \ scheduled /\ scheduled' = {}
      /\ helpers' = [h \in Scripts |-> None]
      /\ call = None /\ UNCHANGED <<registered, fontRecords, call>>
  BY DEF Reboot
<1>2. SavedFiles' = SavedFiles /\ SavedValues' = SavedValues
  BY <1>1, BackupsKept DEF fontRecords
<1>3. FontTypes' /\ CallHasScript'
  BY <1>1, FontAssumption DEF FontTypes, CallHasScript, BackingUp, fontRecords, Calls
<1>4. BackupsCover'
  BY <1>1, <1>2 DEF BackupsCover, fontRecords
<1>5. ScriptsWorkFromBackups'
  BY <1>1 DEF ScriptsWorkFromBackups
<1> QED
  BY <1>1, <1>3, <1>4, <1>5 DEF BackupsCover

LEMMA FontAppearsKeeps ==
  ASSUME FontInv, NEW f \in Fonts, FontAppears(f), UNCHANGED server
  PROVE  FontInv' /\ installed \subseteq installed' /\ registered \subseteq registered'
<1> USE DEF FontInv
<1>1. PICK files \in SUBSET {f}, added \in SUBSET ({f} \X Names) :
        /\ installed' = installed \cup files
        /\ registered' = registered \cup added
        /\ fresh' = fresh \cup (added \ registered)
  BY DEF FontAppears
<1>2. UNCHANGED <<scheduled, backups, inventory, marker, call, helpers>>
  BY DEF FontAppears
<1>3. SavedFiles' = SavedFiles /\ SavedValues' = SavedValues
  BY <1>2, BackupsKept
<1>4. added \subseteq FontValues
  BY DEF FontValues
<1>5. FontTypes' /\ CallHasScript'
  BY <1>1, <1>2, <1>4 DEF FontTypes, CallHasScript, BackingUp
<1>6. BackupsCover' /\ ScriptsWorkFromBackups'
  BY <1>1, <1>2, <1>3 DEF BackupsCover, ScriptsWorkFromBackups, WorksFrom
<1> QED
  BY <1>1, <1>5, <1>6

\* Only what some backup holds goes, or a value that no backup could hold.
OnlySavedGoes ==
  /\ installed \ installed' \subseteq SavedFiles
  /\ (registered \ registered') \ fresh \subseteq SavedValues

LEMMA ScriptStepIsSafe ==
  ASSUME FontInv, ScriptStep, UNCHANGED server
  PROVE  FontInv' /\ OnlySavedGoes
<1>1. ASSUME NEW h \in Scripts, DeleteFonts(h) PROVE FontInv' /\ OnlySavedGoes
  BY <1>1, DeleteFontsKeeps DEF OnlySavedGoes, DeleteFonts
<1>2. ASSUME NEW h \in Scripts, RemoveValues(h) PROVE FontInv' /\ OnlySavedGoes
  BY <1>2, RemoveValuesKeeps DEF OnlySavedGoes, RemoveValues
<1>3. ASSUME NEW h \in Scripts, ScheduleDeletes(h) PROVE FontInv' /\ OnlySavedGoes
  BY <1>3, ScheduleDeletesKeeps DEF OnlySavedGoes, ScheduleDeletes
<1>4. ASSUME NEW h \in Scripts, CopyFonts(h) \/ WriteValues(h) \/ CancelDeletes(h)
      PROVE  FontInv' /\ OnlySavedGoes
  BY <1>4, RestoringScriptKeeps DEF OnlySavedGoes
<1>5. ASSUME StrayEnds \/ \E h \in Scripts : ScriptFails(h) PROVE FontInv' /\ OnlySavedGoes
  BY <1>5, ScriptEndsKeeps DEF OnlySavedGoes, machineFonts
<1> QED
  BY <1>1, <1>2, <1>3, <1>4, <1>5 DEF ScriptStep

LEMMA FontStepIsSafe ==
  ASSUME FontInv, FontStep
  PROVE  FontInv' /\ OnlySavedGoes
<1> USE DEF OnlySavedGoes
<1>1. CASE server = "down" /\ UNCHANGED server /\ (StartRemoval \/ BackupFails \/ RunRemoval)
  <2>1. FontInv'
    BY <1>1, StartRemovalKeeps, BackupFailsKeeps, RunRemovalKeeps
  <2> QED
    BY <1>1, <2>1 DEF StartRemoval, BackupFails, RunRemoval, machineFonts
<1>2. CASE RemovalReturns
  BY <1>2, RemovalReturnsKeeps DEF RemovalReturns, machineFonts
<1>3. CASE backups # <<>> /\ server = "up" /\ StartRestore
  BY <1>3, StartRestoreKeeps DEF StartRestore, machineFonts
<1>4. ASSUME NEW ok \in BOOLEAN, RestoreReturns(ok) PROVE FontInv' /\ OnlySavedGoes
  BY <1>4, RestoreReturnsKeeps DEF RestoreReturns, machineFonts
<1>5. CASE ServiceEnds
  BY <1>5, ServiceEndsKeeps DEF ServiceEnds, machineFonts
<1>6. CASE Reboot
  BY <1>6, RebootKeeps
<1>7. CASE ScriptStep /\ UNCHANGED server
  BY <1>7, ScriptStepIsSafe
<1>8. ASSUME NEW f \in Fonts, FontAppears(f), UNCHANGED server PROVE FontInv' /\ OnlySavedGoes
  BY <1>8, FontAppearsKeeps
<1>9. CASE UNCHANGED fontVars /\ (UNCHANGED server \/ call = None)
  <2>1. FontTypes' /\ BackupsCover' /\ ScriptsWorkFromBackups'
    BY <1>9 DEF fontVars, machineFonts, fontRecords, FontInv, FontTypes, BackupsCover,
       ScriptsWorkFromBackups, WorksFrom, SavedFiles, SavedValues
  <2>2. CallHasScript'
    BY <1>9, FontAssumption DEF fontVars, fontRecords, FontInv, CallHasScript, BackingUp, Calls
  <2> QED
    BY <1>9, <2>1, <2>2 DEF FontInv, fontVars, machineFonts
<1> QED
  BY <1>1, <1>2, <1>3, <1>4, <1>5, <1>6, <1>7, <1>8, <1>9 DEF FontStep

LEMMA FontInvInit == Init => Asked /\ FontInv
<1> SUFFICES ASSUME Init
             PROVE  Asked /\ FontInv
  OBVIOUS
<1> USE DEF Init, FontInit, PageInit
<1>1. Asked
  BY DEF Asked
<1>2. FontTypes /\ CallHasScript
  BY DEF FontTypes, CallHasScript, BackingUp, NoRemoval, Removals, FontValues
<1>3. BackupsCover /\ ScriptsWorkFromBackups
  BY DEF BackupsCover, ScriptsWorkFromBackups, ToSet, SavedFiles, SavedValues
<1> QED
  BY <1>1, <1>2, <1>3 DEF FontInv

\* createBackup and remove (fonts/service.ts 295-371) with the script they start
\* (fonts/elevated-script.ts 77-129): for any number of fonts, values, removals,
\* faults and restarts, no font file goes without being in a complete backup, and
\* no registry value but those that appeared since a backup last read the registry.
THEOREM NothingGoesWithoutBackup == Spec => RemovedFontsAreBackedUp
<1>1. Asked /\ FontInv /\ [Next]_vars => Asked' /\ FontInv' /\ OnlySavedGoes
  BY AskedStays, FontSteps, FontStepIsSafe
<1>2. OnlySavedGoes =>
        /\ \A f \in installed \ installed' : \E b \in ToSet(backups) : f \in b.files
        /\ \A v \in (registered \ registered') \ fresh :
             \E b \in ToSet(backups) : v \in b.entries
  BY DEF OnlySavedGoes, SavedFiles, SavedValues
<1> QED
  BY <1>1, <1>2, FontInvInit, PTL DEF Spec, RemovedFontsAreBackedUp

-----------------------------------------------------------------------------
(* The jobs, and what they wait for.                                       *)

JobTypes ==
  /\ jobs \in [Kinds -> JobStates \cup {None}]
  /\ intel \in {"none", "asking", "known", "unknown"}
  /\ runtime \in {"none", "creating", "ready"}
  /\ busy \in BOOLEAN

\* The first two parts of NobodyWaitsInVain and the last know nothing of fonts.
JobsAreServed ==
  /\ jobs["check"] = "waiting" => intel = "asking"
  /\ \A k \in Kinds \ {"fonts"} : jobs[k] # None => runtime # "none"
  /\ busy => \E k \in Kinds : jobs[k] # None

\* The third follows from CallHasScript: who is restoring has called.
RestorationIsCalled == jobs["fonts"] # None => call = "restore"

JobInv == JobTypes /\ JobsAreServed /\ RestorationIsCalled

\* The end of one job leaves the others alone.
LEMMA ReleaseKeeps ==
  ASSUME JobInv, NEW kind \in Kinds, Release(kind), UNCHANGED <<intel, runtime>>
  PROVE  /\ JobTypes' /\ JobsAreServed'
         /\ jobs'[kind] = None
         /\ \A k \in Kinds \ {kind} : jobs'[k] = jobs[k]
<1>1. busy' = FALSE /\ jobs' = [jobs EXCEPT ![kind] = None]
  BY DEF Release
<1> QED
  BY <1>1, JobAssumption DEF JobInv, JobTypes, JobsAreServed, JobStates, Kinds

LEMMA AcceptKeepsJobs ==
  ASSUME JobInv, NEW kind \in Kinds, Accept(kind)
  PROVE  JobInv'
<1> USE DEF JobInv
<1>1. CASE kind \in Fixes
  <2>1. AcceptFix(kind)
    BY <1>1 DEF Accept, Fixes
  <2>2. /\ busy' = TRUE
        /\ jobs' = [jobs EXCEPT ![kind] = IF kind = "on" THEN "resolve" ELSE "execute"]
        /\ runtime' = IF runtime = "none" THEN "creating" ELSE runtime
        /\ UNCHANGED <<intel, fontVars>>
    BY <2>1 DEF AcceptFix, AskRuntime
  <2>3. JobTypes'
    BY <2>2 DEF JobTypes, JobStates
  <2>4. JobsAreServed'
    BY <2>2, <1>1, JobAssumption DEF JobTypes, JobStates, JobsAreServed, Fixes
  <2>5. RestorationIsCalled'
    BY <2>2, <1>1 DEF JobTypes, RestorationIsCalled, Fixes, Kinds, fontVars
  <2> QED
    BY <2>3, <2>4, <2>5
<1>2. CASE kind = "check"
  <2>1. AcceptCheck
    BY <1>2 DEF Accept, Fixes
  <2>2. /\ busy' = TRUE
        /\ jobs' = [jobs EXCEPT !["check"] = Informed(intel)]
        /\ runtime' = IF runtime = "none" THEN "creating" ELSE runtime
        /\ intel' = IF intel = "none" THEN "asking" ELSE intel
        /\ UNCHANGED fontVars
    BY <2>1 DEF AcceptCheck, AskRuntime, AskIntel
  <2>3. /\ Informed(intel) \in JobStates
        /\ Informed(intel) = "waiting" => intel' = "asking"
    BY <2>2 DEF Informed, JobTypes, JobStates
  <2>4. JobTypes'
    BY <2>2, <2>3 DEF JobTypes
  <2>5. JobsAreServed'
    BY <2>2, <2>3, JobAssumption DEF JobTypes, JobsAreServed, Kinds
  <2>6. RestorationIsCalled'
    BY <2>2 DEF JobTypes, RestorationIsCalled, Kinds, fontVars
  <2> QED
    BY <2>4, <2>5, <2>6
<1>3. CASE kind = "fonts"
  <2>1. AcceptFonts
    BY <1>3 DEF Accept, Fixes
  <2>2. UNCHANGED <<intel, runtime>>
    BY <2>1 DEF AcceptFonts
  <2>3. CASE backups = <<>>
    BY <2>1, <2>2, <2>3 DEF AcceptFonts, JobTypes, JobsAreServed, RestorationIsCalled, fontVars
  <2>4. CASE backups # <<>>
    <3>1. StartRestore /\ busy' = TRUE /\ jobs' = [jobs EXCEPT !["fonts"] = "execute"]
      BY <2>1, <2>4 DEF AcceptFonts
    <3>2. call' = "restore"
      BY <3>1 DEF StartRestore
    <3>3. JobTypes' /\ JobsAreServed'
      BY <3>1, <2>2, JobAssumption DEF JobTypes, JobsAreServed, JobStates, Kinds
    <3> QED
      BY <3>2, <3>3 DEF RestorationIsCalled
  <2> QED
    BY <2>3, <2>4
<1> QED
  BY <1>1, <1>2, <1>3 DEF Kinds

\* A step that leaves the jobs alone, and takes nothing away that they wait for.
LEMMA IdleStepKeeps ==
  ASSUME JobInv, UNCHANGED <<jobs, busy>>,
         intel' \in {"none", "asking", "known", "unknown"},
         runtime' \in {"none", "creating", "ready"},
         intel = "asking" => intel' = "asking",
         runtime # "none" => runtime' # "none",
         call = "restore" => call' = "restore"
  PROVE  JobInv'
BY DEF JobInv, JobTypes, JobsAreServed, RestorationIsCalled

LEMMA ServerStepKeepsJobs ==
  ASSUME JobInv, ServerStep
  PROVE  JobInv'
<1> USE DEF JobInv
<1>1. ASSUME NEW failed \in BOOLEAN, ResolveTarget(failed) PROVE JobInv'
  <2>1. UNCHANGED <<fontVars, intel, runtime>>
    BY <1>1 DEF ResolveTarget
  <2>2. CASE failed
    <3>1. Release("on")
      BY <1>1, <2>2 DEF ResolveTarget, TargetUnknown
    <3> QED
      BY <2>1, <3>1, ReleaseKeeps DEF RestorationIsCalled, fontVars, Kinds, Fixes
  <2>3. CASE ~failed
    <3>1. jobs' = [jobs EXCEPT !["on"] = "execute"] /\ UNCHANGED busy /\ runtime = "ready"
      BY <1>1, <2>3 DEF ResolveTarget
    <3>2. JobTypes' /\ JobsAreServed'
      BY <2>1, <3>1, JobAssumption DEF JobTypes, JobsAreServed, JobStates, Kinds, Fixes
    <3> QED
      BY <2>1, <3>1, <3>2 DEF JobTypes, RestorationIsCalled, fontVars, Kinds, Fixes
  <2> QED
    BY <2>2, <2>3
<1>2. ASSUME NEW failed \in BOOLEAN, NEW kind \in Fixes, EndFix(kind, failed) PROVE JobInv'
  <2>1. Release(kind) /\ UNCHANGED <<fontVars, intel, runtime>>
    BY <1>2 DEF EndFix
  <2> QED
    BY <2>1, ReleaseKeeps DEF RestorationIsCalled, fontVars, Kinds, Fixes
<1>3. ASSUME NEW ok \in BOOLEAN, EndFonts(ok) PROVE JobInv'
  <2>1. Release("fonts") /\ UNCHANGED <<intel, runtime>>
    BY <1>3 DEF EndFonts
  <2> QED
    BY <2>1, ReleaseKeeps DEF RestorationIsCalled, Kinds
<1>4. ASSUME NEW failed \in BOOLEAN, IntelArrives(failed) PROVE JobInv'
  <2> DEFINE job == IF jobs["check"] = "waiting"
                    THEN Informed(IF failed THEN "unknown" ELSE "known") ELSE jobs["check"]
  <2>1. /\ jobs' = [jobs EXCEPT !["check"] = job]
        /\ intel' \in {"none", "known"}
        /\ UNCHANGED <<fontVars, busy, runtime>>
    BY <1>4 DEF IntelArrives, AfterFailure
  <2>2. /\ job \in JobStates \cup {None} /\ job # "waiting"
        /\ jobs["check"] # None <=> job # None
    BY JobAssumption DEF Informed, JobTypes, JobStates, Kinds
  <2> HIDE DEF job
  <2>3. JobTypes'
    BY <2>1, <2>2 DEF JobTypes
  <2>4. JobsAreServed'
    BY <2>1, <2>2 DEF JobTypes, JobsAreServed, Kinds
  <2>5. RestorationIsCalled'
    BY <2>1 DEF JobTypes, RestorationIsCalled, fontVars, Kinds
  <2> QED
    BY <2>3, <2>4, <2>5
<1>5. CASE StartDetection
  <2>1. /\ jobs' = [jobs EXCEPT !["check"] = "detect"] /\ runtime = "ready"
        /\ UNCHANGED <<fontVars, busy, intel, runtime>>
    BY <1>5 DEF StartDetection
  <2>2. JobTypes' /\ JobsAreServed'
    BY <2>1, JobAssumption DEF JobTypes, JobsAreServed, JobStates, Kinds
  <2> QED
    BY <2>1, <2>2 DEF JobTypes, RestorationIsCalled, fontVars, Kinds
<1>6. CASE EndDetection \/ FailDetection
  <2>1. Release("check") /\ UNCHANGED <<fontVars, intel, runtime>>
    BY <1>6 DEF EndDetection, FailDetection
  <2> QED
    BY <2>1, ReleaseKeeps DEF RestorationIsCalled, fontVars, Kinds
<1>7. CASE RuntimeIsReady
  BY <1>7, IdleStepKeeps DEF RuntimeIsReady, JobTypes, fontVars
<1>8. CASE RuntimeFails
  <2> DEFINE waiting == {k \in Kinds : jobs[k] # None /\ k # "fonts"}
  <2>1. /\ jobs' = [k \in Kinds |-> IF k \in waiting THEN None ELSE jobs[k]]
        /\ busy' = (busy /\ waiting = {})
        /\ runtime' = "none"
        /\ UNCHANGED <<fontVars, intel>>
    BY <1>8 DEF RuntimeFails
  <2>2. JobTypes'
    BY <2>1 DEF JobTypes
  <2>3. \A k \in Kinds \ {"fonts"} : jobs'[k] = None
    BY <2>1
  <2>4. busy' => busy /\ jobs' = jobs
    BY <2>1 DEF JobTypes
  <2>5. JobsAreServed'
    BY <2>3, <2>4, JobAssumption DEF JobsAreServed, JobStates, Kinds
  <2>6. RestorationIsCalled'
    BY <2>1 DEF RestorationIsCalled, fontVars, Kinds
  <2> QED
    BY <2>2, <2>5, <2>6
<1> QED
  BY <1>1, <1>2, <1>3, <1>4, <1>5, <1>6, <1>7, <1>8 DEF ServerStep

LEMMA PageStepKeepsJobs ==
  ASSUME JobInv, Asked, PageStep
  PROVE  JobInv'
<1>1. CASE FixAccepted
  BY <1>1, AcceptKeepsJobs DEF FixAccepted, Asked
<1>2. CASE CheckAccepted
  BY <1>2, AcceptKeepsJobs DEF CheckAccepted, Kinds
<1>3. CASE OpenStream
  BY <1>3, IdleStepKeeps DEF OpenStream, AttachSse, AskIntel, JobInv, JobTypes, fontVars
<1>4. CASE ReceiveStart \/ ReceiveSummary
  BY <1>4, IdleStepKeeps DEF ReceiveStart, ReceiveSummary, Receive, JobInv, JobTypes, fontVars
<1>5. CASE ReceiveDone
  BY <1>5, IdleStepKeeps DEF ReceiveDone, Receive, AskStatus, AskRuntime, JobInv, JobTypes, fontVars
<1>6. CASE StatusArrives \/ CheckIsDue \/ FixRefused \/ CheckRefused
  BY <1>6, IdleStepKeeps DEF StatusArrives, CheckIsDue, FixRefused, CheckRefused, serverVars,
     sidecar, JobInv, JobTypes, fontVars
<1> QED
  BY <1>1, <1>2, <1>3, <1>4, <1>5, <1>6 DEF PageStep

LEMMA UserStepKeepsJobs ==
  ASSUME JobInv, FontInv, UserStep
  PROVE  JobInv'
<1>1. ASSUME NEW kind \in Fixes, ClickFix(kind) PROVE JobInv'
  BY <1>1, IdleStepKeeps DEF ClickFix, serverVars, sidecar, JobInv, JobTypes, fontVars
<1>2. CASE ClickFonts \/ ClickRefresh
  BY <1>2, IdleStepKeeps DEF ClickFonts, ClickRefresh, serverVars, sidecar, JobInv, JobTypes,
     fontVars
<1>3. ASSUME NEW kind \in Elsewhere, AskedElsewhere(kind) PROVE JobInv'
  BY <1>3, AcceptKeepsJobs, PageAssumption DEF AskedElsewhere
<1>4. CASE OpenWindow
  BY <1>4, IdleStepKeeps DEF OpenWindow, AskStatus, AskRuntime, JobInv, JobTypes, fontVars
<1>5. CASE CloseWindow
  <2>1. /\ jobs' = [k \in Kinds |-> None] /\ busy' = FALSE
        /\ intel' = "none" /\ runtime' = "none"
    BY <1>5 DEF CloseWindow
  <2> QED
    BY <2>1, JobAssumption DEF JobInv, JobTypes, JobsAreServed, RestorationIsCalled, JobStates,
       Kinds
<1>6. CASE EarlierVersion
  <2>1. UNCHANGED sidecar
    BY <1>6 DEF EarlierVersion
  <2>2. call \in {None, "remove"}
    BY <1>6 DEF EarlierVersion, StartRemoval, BackupFails, RunRemoval, RemovalReturns, FontInv,
       CallHasScript
  <2>3. call # "restore"
    BY <2>2, FontAssumption DEF Calls
  <2> QED
    BY <2>1, <2>3, IdleStepKeeps DEF sidecar, JobInv, JobTypes
<1> QED
  BY <1>1, <1>2, <1>3, <1>4, <1>5, <1>6 DEF UserStep

LEMMA OutsideKeepsJobs ==
  ASSUME JobInv, Outside
  PROVE  JobInv'
<1> USE DEF JobInv
<1>1. CASE BreakStream
  BY <1>1, IdleStepKeeps DEF BreakStream, sidecar, JobTypes, fontVars
<1>2. CASE IntelExpires
  BY <1>2, IdleStepKeeps DEF IntelExpires, JobTypes, fontVars
<1>3. CASE Reboot
  BY <1>3, IdleStepKeeps DEF Reboot, sidecar, JobTypes
<1>4. ASSUME NEW f \in Fonts, FontAppears(f), UNCHANGED sidecar PROVE JobInv'
  BY <1>4, IdleStepKeeps DEF FontAppears, sidecar, JobTypes
<1> QED
  BY <1>1, <1>2, <1>3, <1>4 DEF Outside

LEMMA NextKeepsJobs ==
  ASSUME JobInv, FontInv, Asked, [Next]_vars
  PROVE  JobInv'
<1>1. CASE UNCHANGED vars
  BY <1>1, IdleStepKeeps DEF vars, sidecar, fontVars, JobInv, JobTypes
<1>2. CASE ScriptStep /\ UNCHANGED <<sidecar, stream, page>>
  <2>1. UNCHANGED call
    BY <1>2 DEF ScriptStep, DeleteFonts, RemoveValues, ScheduleDeletes, CopyFonts, WriteValues,
       CancelDeletes, ScriptFails, StrayEnds
  <2> QED
    BY <1>2, <2>1, IdleStepKeeps DEF sidecar, JobInv, JobTypes
<1> QED
  BY <1>1, <1>2, ServerStepKeepsJobs, PageStepKeepsJobs, UserStepKeepsJobs, OutsideKeepsJobs
  DEF Next

LEMMA JobInvInit == Init => JobInv
BY JobAssumption DEF Init, ServerInit, JobInv, JobTypes, JobsAreServed, RestorationIsCalled,
   JobStates, Kinds

LEMMA NobodyWaits == FontInv /\ JobInv => NobodyWaitsInVain
<1> SUFFICES ASSUME FontInv, JobInv
             PROVE  NobodyWaitsInVain
  OBVIOUS
<1>1. jobs["fonts"] # None => call = "restore" /\ helpers["own"] # None
  BY FontAssumption DEF JobInv, RestorationIsCalled, FontInv, CallHasScript, Calls
<1> QED
  BY <1>1 DEF JobInv, JobsAreServed, NobodyWaitsInVain

\* The jobs of gui/server.ts 142-281 and 363-389, which wait for getRuntime
\* (82-88), fetchIpIntelligence (proxy/ip-intel.ts 192-217) or a script: whatever fails, expires or is killed, a job that waits
\* for the runtime, for IP intelligence or for a script waits for one that has
\* been started, and the busy flag stands for a job.
THEOREM WaitingIsNotInVain == Spec => []NobodyWaitsInVain
<1>1. Init => Asked /\ FontInv /\ JobInv
  BY FontInvInit, JobInvInit
<1>2. Asked /\ FontInv /\ JobInv /\ [Next]_vars => Asked' /\ FontInv' /\ JobInv'
  BY AskedStays, FontSteps, FontStepIsSafe, NextKeepsJobs
<1> QED
  BY <1>1, <1>2, NobodyWaits, PTL DEF Spec
=============================================================================
