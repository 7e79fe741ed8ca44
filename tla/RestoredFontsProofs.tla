-------------------------- MODULE RestoredFontsProofs --------------------------
(***************************************************************************)
(* What has been restored stays.                                           *)
(*                                                                         *)
(* A deletion that is scheduled is one of these: the marker lists it, so a *)
(* restoration cancels it; the removal under way has scheduled it, whose   *)
(* fonts do not count as restored; or its removal is a forgotten one.      *)
(***************************************************************************)
EXTENDS DesktopProofs

-----------------------------------------------------------------------------
(* An earlier version removes fonts only while the sidecar is down.        *)

RemovesOffline == call = "remove" => server = "down"

LEMMA ServerSteps ==
  ASSUME Asked, [Next]_vars
  PROVE  UNCHANGED server \/ OpenWindow \/ CloseWindow
<1>1. ASSUME NEW kind \in Kinds, Accept(kind) PROVE UNCHANGED server
  BY <1>1 DEF Accept, AcceptFix, AcceptCheck, AcceptFonts, Fixes, Kinds
<1>2. CASE UNCHANGED vars
  BY <1>2 DEF vars, sidecar
<1>3. CASE ScriptStep /\ UNCHANGED <<sidecar, stream, page>>
  BY <1>3 DEF sidecar
<1>4. CASE ServerStep
  BY <1>4 DEF ServerStep, ResolveTarget, EndFix, EndFonts, IntelArrives, StartDetection,
     EndDetection, FailDetection, RuntimeIsReady, RuntimeFails
<1>5. CASE PageStep
  <2>1. CASE FixAccepted \/ CheckAccepted
    BY <2>1, <1>1 DEF FixAccepted, CheckAccepted, Asked, Kinds
  <2> QED
    BY <1>5, <2>1 DEF PageStep, OpenStream, ReceiveStart, ReceiveSummary, ReceiveDone, Receive,
       StatusArrives, CheckIsDue, FixRefused, CheckRefused, serverVars, sidecar
<1>6. CASE UserStep
  <2>1. ASSUME NEW kind \in Elsewhere, AskedElsewhere(kind) PROVE UNCHANGED server
    BY <2>1, <1>1, PageAssumption DEF AskedElsewhere
  <2>2. ASSUME NEW kind \in Fixes, ClickFix(kind) PROVE UNCHANGED server
    BY <2>2 DEF ClickFix, serverVars, sidecar
  <2>3. ASSUME ClickFonts \/ ClickRefresh \/ EarlierVersion PROVE UNCHANGED server
    BY <2>3 DEF ClickFonts, ClickRefresh, EarlierVersion, serverVars, sidecar
  <2> QED
    BY <1>6, <2>1, <2>2, <2>3 DEF UserStep
<1>7. CASE Outside
  <2>1. ASSUME NEW f \in Fonts, UNCHANGED <<sidecar, stream, page>> PROVE UNCHANGED server
    BY <2>1 DEF sidecar
  <2> QED
    BY <1>7, <2>1 DEF Outside, BreakStream, IntelExpires, Reboot, sidecar
<1> QED
  BY <1>2, <1>3, <1>4, <1>5, <1>6, <1>7 DEF Next

\* The calls that the fonts' own steps make.
LEMMA CallSteps ==
  ASSUME FontStep
  PROVE  UNCHANGED call \/ (server = "down" /\ call' = "remove") \/ call' \in {"restore", None}
<1>1. ASSUME ScriptStep PROVE UNCHANGED call
  BY <1>1 DEF ScriptStep, DeleteFonts, RemoveValues, ScheduleDeletes, CopyFonts, WriteValues,
     CancelDeletes, ScriptFails, StrayEnds
<1> QED
  BY <1>1 DEF FontStep, StartRemoval, BackupFails, RunRemoval, RemovalReturns, StartRestore, RestoreReturns, ServiceEnds, Reboot,
     FontAppears, fontVars

LEMMA OfflineStays ==
  ASSUME Asked, RemovesOffline, [Next]_vars
  PROVE  RemovesOffline'
<1> USE FontAssumption DEF RemovesOffline, Calls
<1>1. CASE OpenWindow
  BY <1>1 DEF OpenWindow, SpawnSidecar, fontVars
<1>2. CASE CloseWindow
  BY <1>2 DEF CloseWindow, SidecarIsKilled
<1> QED
  BY <1>1, <1>2, ServerSteps, FontSteps, CallSteps

-----------------------------------------------------------------------------
(* The deletions that are scheduled.                                       *)

Removing(h) == helpers[h] # None /\ helpers[h].mode = "remove"
Restoring(h) == helpers[h] # None /\ helpers[h].mode = "restore"

\* The script of the service does what was called, once the backup is made.
ScriptIsCalled == helpers["own"] # None => call = helpers["own"].mode /\ ~BackingUp

\* A removal owns only what it left pending, which it had listed, and nothing
\* before it has scheduled anything.
ScriptsOwnWhatIsPending ==
  \A h \in Scripts : Removing(h) =>
    /\ helpers[h].owned \subseteq helpers[h].pending
    /\ helpers[h].pending \subseteq helpers[h].names
    /\ helpers[h].at \in {"start", "values", "schedule"} => helpers[h].owned = {}

\* There is no removal while another one waits for Windows to start.
MarkerIsOfTheLast ==
  /\ marker.owned \subseteq marker.pending
  /\ call = "remove" => marker.pending = {}

StraysAreForgotten == Removing("stray") => helpers["stray"].names \subseteq forgotten

DeletionsAreKnown ==
  scheduled \subseteq forgotten \cup marker.owned
                      \cup (IF Removing("own") THEN helpers["own"].owned ELSE {})

\* A restoration cancels what the marker lists.
RestorationCancels ==
  Restoring("own") =>
    /\ helpers["own"].owned = marker.owned
    /\ helpers["own"].at = "done" => scheduled \subseteq forgotten

\* What is being removed does not count as restored.
RemovalsUnrestore == Removing("own") => helpers["own"].names \cap restored = {}

RestoredInv ==
  /\ ScriptIsCalled
  /\ ScriptsOwnWhatIsPending
  /\ MarkerIsOfTheLast
  /\ StraysAreForgotten
  /\ DeletionsAreKnown
  /\ RestorationCancels
  /\ RemovalsUnrestore
  /\ RestoredFontsStay

-----------------------------------------------------------------------------
(* The calls of the service.                                               *)

LEMMA RestoredInit == Init => RemovesOffline /\ RestoredInv
<1> SUFFICES ASSUME Init
             PROVE  RemovesOffline /\ RestoredInv
  OBVIOUS
<1>1. /\ call = None /\ helpers = [h \in Scripts |-> None] /\ marker = NoRemoval
      /\ scheduled = {} /\ restored = {}
  BY DEF Init, FontInit
<1> QED
  BY <1>1, FontAssumption DEF RemovesOffline, RestoredInv, ScriptIsCalled, ScriptsOwnWhatIsPending,
     MarkerIsOfTheLast, StraysAreForgotten, DeletionsAreKnown, RestorationCancels,
     RemovalsUnrestore, RestoredFontsStay, Removing, Restoring, Scripts, NoRemoval, Calls

\* What the invariant says of a new script of the service.
LEMMA OwnReplaced ==
  ASSUME FontInv, NEW mode \in Calls, NEW names, NEW entries, NEW owned,
         helpers' = [helpers EXCEPT !["own"] = Script(mode, names, entries, owned)]
  PROVE  /\ helpers'["own"].mode = mode /\ helpers'["own"].at = "start"
         /\ helpers'["own"].names = names /\ helpers'["own"].owned = owned
         /\ helpers'["own"].pending = {}
         /\ helpers'["stray"] = helpers["stray"]
BY DEF FontInv, FontTypes, Scripts, Script

LEMMA StartRemovalKeepsRestored ==
  ASSUME FontInv, RestoredInv, StartRemoval
  PROVE  RestoredInv'
<1> USE DEF RestoredInv
<1>1. /\ call = None /\ marker.pending = {}
      /\ UNCHANGED <<installed, scheduled, marker, restored, forgotten, helpers>>
  BY DEF StartRemoval, RemovalPending, machineFonts
<1>2. helpers["own"] = None
  BY <1>1, FontAssumption DEF ScriptIsCalled, FontInv, FontTypes, Scripts, ScriptStates
<1>3. ScriptIsCalled' /\ MarkerIsOfTheLast'
  BY <1>1, <1>2 DEF ScriptIsCalled, MarkerIsOfTheLast
<1>4. ScriptsOwnWhatIsPending' /\ StraysAreForgotten' /\ DeletionsAreKnown'
  BY <1>1 DEF ScriptsOwnWhatIsPending, StraysAreForgotten, DeletionsAreKnown, Removing
<1>5. RestorationCancels' /\ RemovalsUnrestore' /\ RestoredFontsStay'
  BY <1>1 DEF RestorationCancels, RemovalsUnrestore, RestoredFontsStay, Removing, Restoring
<1> QED
  BY <1>3, <1>4, <1>5

LEMMA BackupFailsKeepsRestored ==
  ASSUME FontInv, RestoredInv, BackupFails
  PROVE  RestoredInv'
<1> USE DEF RestoredInv
<1>1. /\ BackingUp /\ call' = None
      /\ UNCHANGED <<installed, scheduled, marker, restored, forgotten, helpers>>
  BY DEF BackupFails, machineFonts
<1>2. helpers["own"] = None
  BY <1>1 DEF ScriptIsCalled
<1>3. ScriptIsCalled' /\ MarkerIsOfTheLast'
  BY <1>1, <1>2, FontAssumption DEF ScriptIsCalled, MarkerIsOfTheLast, Calls
<1>4. ScriptsOwnWhatIsPending' /\ StraysAreForgotten' /\ DeletionsAreKnown'
  BY <1>1 DEF ScriptsOwnWhatIsPending, StraysAreForgotten, DeletionsAreKnown, Removing
<1>5. RestorationCancels' /\ RemovalsUnrestore' /\ RestoredFontsStay'
  BY <1>1 DEF RestorationCancels, RemovalsUnrestore, RestoredFontsStay, Removing, Restoring
<1> QED
  BY <1>3, <1>4, <1>5

LEMMA RunRemovalKeepsRestored ==
  ASSUME FontInv, RestoredInv, RunRemoval
  PROVE  RestoredInv'
<1> USE DEF RestoredInv
<1>1. /\ BackingUp /\ inventory' = {} /\ restored' = restored \ inventory
      /\ UNCHANGED <<installed, scheduled, marker, forgotten, call>>
  BY DEF RunRemoval, machineFonts
<1>2. call = "remove" /\ helpers["own"] = None
  BY <1>1 DEF FontInv, CallHasScript, ScriptIsCalled
<1>3. /\ helpers'["own"].mode = "remove" /\ helpers'["own"].at = "start"
      /\ helpers'["own"].names = inventory /\ helpers'["own"].owned = {}
      /\ helpers'["own"].pending = {}
      /\ helpers'["stray"] = helpers["stray"]
  BY OwnReplaced DEF RunRemoval, Calls
<1>4. marker.owned = {}
  BY <1>2 DEF MarkerIsOfTheLast
<1>5. ScriptIsCalled' /\ MarkerIsOfTheLast'
  BY <1>1, <1>2, <1>3 DEF ScriptIsCalled, MarkerIsOfTheLast, BackingUp
<1>6. ScriptsOwnWhatIsPending' /\ StraysAreForgotten'
  BY <1>1, <1>3 DEF ScriptsOwnWhatIsPending, StraysAreForgotten, Removing, Scripts
<1>7. DeletionsAreKnown'
  BY <1>1, <1>2, <1>4 DEF DeletionsAreKnown, Removing
<1>8. RestorationCancels' /\ RemovalsUnrestore' /\ RestoredFontsStay'
  BY <1>1, <1>3 DEF RestorationCancels, RemovalsUnrestore, RestoredFontsStay, Removing, Restoring
<1> QED
  BY <1>5, <1>6, <1>7, <1>8

LEMMA StartRestoreKeepsRestored ==
  ASSUME FontInv, RestoredInv, call # "remove", StartRestore
  PROVE  RestoredInv'
<1> USE DEF RestoredInv
<1>1. call' = "restore"
      /\ UNCHANGED <<installed, scheduled, marker, forgotten, restored>>
  BY DEF StartRestore, machineFonts, fontRecords
<1>2. ~Removing("own")
  BY DEF ScriptIsCalled, Removing
<1>3. /\ helpers'["own"].mode = "restore" /\ helpers'["own"].at = "start"
      /\ helpers'["own"].owned = marker.owned
      /\ helpers'["stray"] = helpers["stray"]
  BY OwnReplaced DEF StartRestore, Calls
<1>4. ScriptIsCalled' /\ MarkerIsOfTheLast'
  <2>1. ~BackingUp'
    BY DEF FontInv, CallHasScript, BackingUp, StartRestore, fontRecords
  <2> QED
    BY <1>1, <1>3, <2>1, FontAssumption DEF ScriptIsCalled, MarkerIsOfTheLast, Calls
<1>5. ScriptsOwnWhatIsPending' /\ StraysAreForgotten'
  BY <1>1, <1>3 DEF ScriptsOwnWhatIsPending, StraysAreForgotten, Removing, Scripts
<1>6. DeletionsAreKnown'
  BY <1>1, <1>2 DEF DeletionsAreKnown
<1>7. RestorationCancels' /\ RemovalsUnrestore' /\ RestoredFontsStay'
  BY <1>1, <1>3 DEF RestorationCancels, RemovalsUnrestore, RestoredFontsStay, Removing, Restoring
<1> QED
  BY <1>4, <1>5, <1>6, <1>7

LEMMA RemovalReturnsKeepsRestored ==
  ASSUME FontInv, RestoredInv, RemovalReturns
  PROVE  RestoredInv'
<1> USE DEF RestoredInv
<1>1. /\ call = "remove" /\ call' = None /\ ~BackingUp
      /\ helpers'["own"] = None /\ helpers'["stray"] = helpers["stray"]
      /\ UNCHANGED <<installed, scheduled, restored>>
  BY DEF RemovalReturns, machineFonts, FontInv, FontTypes, Scripts
<1>2. Removing("own")
  BY <1>1, FontAssumption DEF FontInv, CallHasScript, Calls, ScriptIsCalled, Removing
<1>3. marker.owned = {}
  BY <1>1 DEF MarkerIsOfTheLast
<1>4. /\ helpers["own"].owned \subseteq helpers["own"].pending
      /\ helpers["own"].owned \subseteq helpers["own"].names
  BY <1>2 DEF ScriptsOwnWhatIsPending, Scripts
<1>5. \/ /\ marker' = [pending |-> helpers["own"].pending, owned |-> helpers["own"].owned]
         /\ forgotten' = forgotten
      \/ /\ marker' = marker
         /\ forgotten' = forgotten \cup helpers["own"].names
  BY DEF RemovalReturns
<1>6. ScriptIsCalled' /\ RestorationCancels' /\ RemovalsUnrestore'
  BY <1>1 DEF ScriptIsCalled, RestorationCancels, RemovalsUnrestore, Removing, Restoring
<1>7. MarkerIsOfTheLast'
  BY <1>1, <1>4, <1>5, FontAssumption DEF MarkerIsOfTheLast, Calls
<1>8. ScriptsOwnWhatIsPending' /\ StraysAreForgotten'
  BY <1>1, <1>5 DEF ScriptsOwnWhatIsPending, StraysAreForgotten, Removing, Scripts
<1>9. DeletionsAreKnown' /\ RestoredFontsStay'
  BY <1>1, <1>2, <1>3, <1>4, <1>5 DEF DeletionsAreKnown, RestoredFontsStay, Removing
<1> QED
  BY <1>6, <1>7, <1>8, <1>9

LEMMA RestoreReturnsKeepsRestored ==
  ASSUME FontInv, RestoredInv, NEW ok \in BOOLEAN, RestoreReturns(ok)
  PROVE  RestoredInv'
<1> USE DEF RestoredInv
<1>1. /\ call = "restore" /\ call' = None
      /\ helpers'["own"] = None /\ helpers'["stray"] = helpers["stray"]
      /\ UNCHANGED <<installed, scheduled, forgotten>>
      /\ marker' = IF ok THEN NoRemoval ELSE marker
      /\ restored' = IF ok THEN LatestBackup.files ELSE restored
  BY DEF RestoreReturns, machineFonts, FontInv, FontTypes, Scripts
<1>2. Restoring("own") /\ ~Removing("own")
  BY <1>1, FontAssumption DEF FontInv, CallHasScript, Calls, ScriptIsCalled, Restoring, Removing
<1>3. ok => LatestBackup.files \subseteq installed /\ scheduled \subseteq forgotten
  BY <1>2 DEF RestoreReturns, Verified, RestorationCancels
<1>4. ScriptIsCalled' /\ RestorationCancels' /\ RemovalsUnrestore'
  BY <1>1 DEF ScriptIsCalled, RestorationCancels, RemovalsUnrestore, Removing, Restoring
<1>5. MarkerIsOfTheLast'
  BY <1>1, FontAssumption DEF MarkerIsOfTheLast, NoRemoval, Calls
<1>6. ScriptsOwnWhatIsPending' /\ StraysAreForgotten'
  BY <1>1 DEF ScriptsOwnWhatIsPending, StraysAreForgotten, Removing, Scripts
<1>7. DeletionsAreKnown' /\ RestoredFontsStay'
  BY <1>1, <1>2, <1>3 DEF DeletionsAreKnown, RestoredFontsStay, Removing, NoRemoval
<1> QED
  BY <1>4, <1>5, <1>6, <1>7

LEMMA ServiceEndsKeepsRestored ==
  ASSUME FontInv, RestoredInv, ServiceEnds
  PROVE  RestoredInv'
<1> USE DEF RestoredInv
<1>1. /\ call' = None /\ helpers'["own"] = None
      /\ helpers'["stray"] = IF helpers["own"] = None THEN helpers["stray"] ELSE helpers["own"]
      /\ UNCHANGED <<installed, scheduled, marker, restored>>
      /\ forgotten' = IF call = "remove" /\ ~BackingUp
                      THEN forgotten \cup helpers["own"].names ELSE forgotten
  BY DEF ServiceEnds, machineFonts
<1>2. Removing("own") => call = "remove" /\ ~BackingUp
  BY DEF ScriptIsCalled, Removing
<1>3. ScriptIsCalled' /\ RestorationCancels' /\ RemovalsUnrestore'
  BY <1>1 DEF ScriptIsCalled, RestorationCancels, RemovalsUnrestore, Removing, Restoring
<1>4. MarkerIsOfTheLast'
  BY <1>1, FontAssumption DEF MarkerIsOfTheLast, Calls
<1>5. ScriptsOwnWhatIsPending'
  BY <1>1 DEF ScriptsOwnWhatIsPending, Removing, Scripts
<1>6. StraysAreForgotten'
  BY <1>1, <1>2 DEF StraysAreForgotten, Removing
<1>7. Removing("own") => helpers["own"].owned \subseteq helpers["own"].names
  BY DEF ScriptsOwnWhatIsPending, Scripts
<1>8. DeletionsAreKnown' /\ RestoredFontsStay'
  BY <1>1, <1>2, <1>7 DEF DeletionsAreKnown, RestoredFontsStay, Removing
<1> QED
  BY <1>3, <1>4, <1>5, <1>6, <1>8

-----------------------------------------------------------------------------
(* The steps of a script, and of Windows.                                  *)

\* What a step changes of a script, and what it leaves.
LEMMA PendingChanged ==
  ASSUME FontInv, NEW h \in Scripts, helpers[h] # None, NEW pending, NEW at,
         helpers' = [helpers EXCEPT ![h].pending = pending, ![h].at = at]
  PROVE  /\ helpers'[h].mode = helpers[h].mode /\ helpers'[h].names = helpers[h].names
         /\ helpers'[h].owned = helpers[h].owned
         /\ helpers'[h].pending = pending /\ helpers'[h].at = at
         /\ \A g \in Scripts \ {h} : helpers'[g] = helpers[g]
BY DEF FontInv, FontTypes, ScriptStates

LEMMA OwnedChanged ==
  ASSUME FontInv, NEW h \in Scripts, helpers[h] # None, NEW owned, NEW at,
         helpers' = [helpers EXCEPT ![h].owned = owned, ![h].at = at]
  PROVE  /\ helpers'[h].mode = helpers[h].mode /\ helpers'[h].names = helpers[h].names
         /\ helpers'[h].pending = helpers[h].pending
         /\ helpers'[h].owned = owned /\ helpers'[h].at = at
         /\ \A g \in Scripts \ {h} : helpers'[g] = helpers[g]
BY DEF FontInv, FontTypes, ScriptStates

LEMMA PlaceChanged ==
  ASSUME FontInv, NEW h \in Scripts, helpers[h] # None, NEW at, GoTo(h, at)
  PROVE  /\ helpers'[h].mode = helpers[h].mode /\ helpers'[h].names = helpers[h].names
         /\ helpers'[h].pending = helpers[h].pending /\ helpers'[h].owned = helpers[h].owned
         /\ helpers'[h].at = at
         /\ \A g \in Scripts \ {h} : helpers'[g] = helpers[g]
BY DEF FontInv, FontTypes, ScriptStates, GoTo

\* A step of a removal, in whose place another one may be.
LEMMA RemovingStepKeeps ==
  ASSUME FontInv, RestoredInv, NEW h \in Scripts, Removing(h), helpers'[h] # None,
         helpers'[h].mode = "remove", helpers'[h].names = helpers[h].names,
         helpers'[h].owned \subseteq helpers'[h].pending,
         helpers'[h].pending \subseteq helpers[h].names,
         helpers'[h].at \in {"start", "values", "schedule"} => helpers'[h].owned = {},
         helpers[h].owned \subseteq helpers'[h].owned,
         \A g \in Scripts \ {h} : helpers'[g] = helpers[g],
         installed \ installed' \subseteq helpers[h].names,
         scheduled \subseteq scheduled', scheduled' \ scheduled \subseteq helpers'[h].owned,
         UNCHANGED <<inventory, marker, forgotten, restored, call>>
  PROVE  RestoredInv'
<1> USE DEF RestoredInv
<1>1. ScriptIsCalled' /\ MarkerIsOfTheLast'
  BY DEF ScriptIsCalled, MarkerIsOfTheLast, BackingUp, Removing, Scripts
<1>2. ScriptsOwnWhatIsPending'
  BY DEF ScriptsOwnWhatIsPending, Removing
<1>3. StraysAreForgotten'
  BY DEF StraysAreForgotten, Removing, Scripts
<1>4. CASE h = "own"
  <2>1. DeletionsAreKnown'
    BY <1>4 DEF DeletionsAreKnown, Removing
  <2>2. RestorationCancels'
    BY <1>4 DEF RestorationCancels, Restoring
  <2>3. RemovalsUnrestore'
    BY <1>4 DEF RemovalsUnrestore, Removing
  <2>4. RestoredFontsStay'
    BY <1>4 DEF RestoredFontsStay, RemovalsUnrestore
  <2> QED
    BY <1>1, <1>2, <1>3, <2>1, <2>2, <2>3, <2>4
<1>5. CASE h = "stray"
  <2>1. helpers[h].names \subseteq forgotten /\ helpers'["own"] = helpers["own"]
    BY <1>5 DEF StraysAreForgotten, Scripts
  <2>2. DeletionsAreKnown' /\ RestorationCancels' /\ RemovalsUnrestore'
    BY <2>1 DEF DeletionsAreKnown, RestorationCancels, RemovalsUnrestore, Removing, Restoring
  <2>3. RestoredFontsStay'
    BY <2>1 DEF RestoredFontsStay
  <2> QED
    BY <1>1, <1>2, <1>3, <2>2, <2>3
<1> QED
  BY <1>4, <1>5 DEF Scripts

LEMMA DeleteFontsKeepsRestored ==
  ASSUME FontInv, RestoredInv, NEW h \in Scripts, DeleteFonts(h)
  PROVE  RestoredInv'
<1>1. /\ Removing(h) /\ helpers[h].at = "start"
      /\ UNCHANGED <<scheduled, inventory, marker, forgotten, restored, call>>
  BY DEF DeleteFonts, ScriptAt, Removing, fontRecords
<1>2. /\ helpers[h].owned = {} /\ helpers[h].owned \subseteq helpers[h].pending
      /\ helpers[h].pending \subseteq helpers[h].names
  BY <1>1 DEF RestoredInv, ScriptsOwnWhatIsPending
<1>3. CASE InventoryFits(h)
  <2>1. PICK deleted \in SUBSET installed :
          /\ installed' = installed \ deleted
          /\ helpers' = [helpers EXCEPT ![h].pending = installed \ deleted, ![h].at = "values"]
    BY <1>3 DEF DeleteFonts
  <2>2. /\ helpers'[h].mode = helpers[h].mode /\ helpers'[h].names = helpers[h].names
        /\ helpers'[h].owned = helpers[h].owned
        /\ helpers'[h].pending = installed \ deleted /\ helpers'[h].at = "values"
        /\ \A g \in Scripts \ {h} : helpers'[g] = helpers[g]
    BY <1>1, <2>1, PendingChanged DEF Removing
  <2>3. helpers'[h] # None
    BY <1>1, <2>1, FontAssumption DEF FontInv, FontTypes, ScriptStates, Removing
  <2> QED
    BY <1>1, <1>2, <1>3, <2>1, <2>2, <2>3, RemovingStepKeeps DEF InventoryFits, Removing
<1>4. CASE ~InventoryFits(h)
  <2>1. GoTo(h, "failed") /\ UNCHANGED installed
    BY <1>4 DEF DeleteFonts
  <2>2. helpers'[h] # None
    BY <1>1, <2>1, ScriptGoesOn, FontAssumption DEF FontInv, Removing
  <2> QED
    BY <1>1, <1>2, <2>1, <2>2, PlaceChanged, RemovingStepKeeps DEF Removing
<1> QED
  BY <1>3, <1>4

LEMMA RemoveValuesKeepsRestored ==
  ASSUME FontInv, RestoredInv, NEW h \in Scripts, RemoveValues(h)
  PROVE  RestoredInv'
<1>1. /\ Removing(h) /\ helpers[h].at = "values" /\ GoTo(h, "schedule")
      /\ UNCHANGED <<installed, scheduled, inventory, marker, forgotten, restored, call>>
  BY DEF RemoveValues, ScriptAt, Removing, fontRecords
<1>2. /\ helpers[h].owned = {} /\ helpers[h].owned \subseteq helpers[h].pending
      /\ helpers[h].pending \subseteq helpers[h].names
  BY <1>1 DEF RestoredInv, ScriptsOwnWhatIsPending
<1>3. helpers'[h] # None
  BY <1>1, ScriptGoesOn, FontAssumption DEF FontInv, Removing
<1> QED
  BY <1>1, <1>2, <1>3, PlaceChanged, RemovingStepKeeps DEF Removing

LEMMA ScheduleDeletesKeepsRestored ==
  ASSUME FontInv, RestoredInv, NEW h \in Scripts, ScheduleDeletes(h)
  PROVE  RestoredInv'
<1>1. /\ Removing(h) /\ helpers[h].at = "schedule"
      /\ scheduled' = scheduled \cup helpers[h].pending
      /\ helpers' = [helpers EXCEPT ![h].owned = helpers[h].pending \ scheduled, ![h].at = "done"]
      /\ UNCHANGED <<installed, inventory, marker, forgotten, restored, call>>
  BY DEF ScheduleDeletes, ScriptAt, Removing, fontRecords
<1>2. helpers[h].owned = {} /\ helpers[h].pending \subseteq helpers[h].names
  BY <1>1 DEF RestoredInv, ScriptsOwnWhatIsPending
<1>3. /\ helpers'[h].mode = helpers[h].mode /\ helpers'[h].names = helpers[h].names
      /\ helpers'[h].pending = helpers[h].pending
      /\ helpers'[h].owned = helpers[h].pending \ scheduled /\ helpers'[h].at = "done"
      /\ \A g \in Scripts \ {h} : helpers'[g] = helpers[g]
  BY <1>1, OwnedChanged DEF Removing
<1>4. helpers'[h] # None
  BY <1>1, FontAssumption DEF FontInv, FontTypes, ScriptStates, Removing
<1> QED
  BY <1>1, <1>2, <1>3, <1>4, RemovingStepKeeps DEF Removing

\* The steps of a restoration add fonts and cancel deletions; so does Windows,
\* and a script that fails does not even do that.
LEMMA HarmlessStepKeeps ==
  ASSUME FontInv, RestoredInv, NEW h \in Scripts, helpers[h] # None, helpers'[h] # None,
         helpers'[h].mode = helpers[h].mode, helpers'[h].names = helpers[h].names,
         helpers'[h].pending = helpers[h].pending, helpers'[h].owned = helpers[h].owned,
         helpers'[h].at \notin {"start", "values", "schedule"} \/ ~Removing(h),
         Restoring(h) /\ helpers'[h].at = "done" => scheduled' \subseteq scheduled \ helpers[h].owned,
         \A g \in Scripts \ {h} : helpers'[g] = helpers[g],
         installed \subseteq installed', scheduled' \subseteq scheduled,
         UNCHANGED <<inventory, marker, forgotten, restored, call>>
  PROVE  RestoredInv'
<1> USE DEF RestoredInv
<1>1. ScriptIsCalled' /\ MarkerIsOfTheLast'
  BY DEF ScriptIsCalled, MarkerIsOfTheLast, BackingUp, Scripts
<1>2. ScriptsOwnWhatIsPending'
  BY DEF ScriptsOwnWhatIsPending, Removing
<1>3. StraysAreForgotten' /\ RemovalsUnrestore'
  BY DEF StraysAreForgotten, RemovalsUnrestore, Removing, Scripts
<1>4. DeletionsAreKnown'
  BY DEF DeletionsAreKnown, Removing, Scripts
<1>5. RestorationCancels'
  <2> SUFFICES ASSUME Restoring("own")'
               PROVE  /\ helpers'["own"].owned = marker.owned
                      /\ helpers'["own"].at = "done" => scheduled' \subseteq forgotten
    BY DEF RestorationCancels
  <2>1. Restoring("own") /\ helpers'["own"].owned = helpers["own"].owned
    BY DEF Restoring, Scripts
  <2>2. helpers["own"].owned = marker.owned /\ scheduled \subseteq forgotten \cup marker.owned
    BY <2>1 DEF RestorationCancels, DeletionsAreKnown, Restoring, Removing
  <2>3. CASE h = "own"
    BY <2>1, <2>2, <2>3
  <2>4. CASE h # "own"
    BY <2>1, <2>4 DEF RestorationCancels, Restoring, Scripts
  <2> QED
    BY <2>1, <2>2, <2>3, <2>4
<1>6. RestoredFontsStay'
  BY DEF RestoredFontsStay
<1> QED
  BY <1>1, <1>2, <1>3, <1>4, <1>5, <1>6

LEMMA RestoringScriptKeepsRestored ==
  ASSUME FontInv, RestoredInv, NEW h \in Scripts, CopyFonts(h) \/ WriteValues(h) \/ CancelDeletes(h)
  PROVE  RestoredInv'
<1>1. /\ helpers[h] # None /\ ~Removing(h)
      /\ UNCHANGED <<inventory, marker, forgotten, restored, call>>
      /\ installed \subseteq installed' /\ scheduled' \subseteq scheduled
  BY DEF CopyFonts, WriteValues, CancelDeletes, ScriptAt, Removing, fontRecords
<1>2. PICK at \in {"values", "cancel", "done"} :
        GoTo(h, at) /\ (at = "done" => scheduled' = scheduled \ helpers[h].owned)
  BY DEF CopyFonts, WriteValues, CancelDeletes
<1>3. helpers'[h] # None
  BY <1>1, <1>2, ScriptGoesOn, FontAssumption DEF FontInv
<1>4. /\ helpers'[h].mode = helpers[h].mode /\ helpers'[h].names = helpers[h].names
      /\ helpers'[h].pending = helpers[h].pending /\ helpers'[h].owned = helpers[h].owned
      /\ helpers'[h].at = at
      /\ \A g \in Scripts \ {h} : helpers'[g] = helpers[g]
  BY <1>1, <1>2, PlaceChanged
<1> QED
  BY <1>1, <1>2, <1>3, <1>4, HarmlessStepKeeps

LEMMA ScriptFailsKeepsRestored ==
  ASSUME FontInv, RestoredInv, NEW h \in Scripts, ScriptFails(h)
  PROVE  RestoredInv'
<1>1. /\ helpers[h] # None /\ GoTo(h, "failed")
      /\ UNCHANGED <<installed, scheduled, inventory, marker, forgotten, restored, call>>
  BY DEF ScriptFails, machineFonts, fontRecords
<1>2. helpers'[h] # None
  BY <1>1, ScriptGoesOn, FontAssumption DEF FontInv
<1>3. /\ helpers'[h].mode = helpers[h].mode /\ helpers'[h].names = helpers[h].names
      /\ helpers'[h].pending = helpers[h].pending /\ helpers'[h].owned = helpers[h].owned
      /\ helpers'[h].at = "failed"
      /\ \A g \in Scripts \ {h} : helpers'[g] = helpers[g]
  BY <1>1, PlaceChanged
<1> QED
  BY <1>1, <1>2, <1>3, HarmlessStepKeeps

\* Where no script of the service is left or changed, little can.
LEMMA OthersKeepRestored ==
  ASSUME FontInv, RestoredInv, StrayEnds \/ Reboot \/ (\E f \in Fonts : FontAppears(f))
                               \/ UNCHANGED fontVars
  PROVE  RestoredInv'
<1> USE DEF RestoredInv, ScriptIsCalled, ScriptsOwnWhatIsPending, MarkerIsOfTheLast,
            StraysAreForgotten, DeletionsAreKnown, RestorationCancels, RemovalsUnrestore,
            RestoredFontsStay, Removing, Restoring, BackingUp
<1>1. CASE StrayEnds
  BY <1>1 DEF StrayEnds, machineFonts, fontRecords, FontInv, FontTypes, Scripts
<1>2. CASE Reboot
  <2>1. /\ installed' = installed \ scheduled /\ scheduled' = {}
        /\ \A h \in Scripts : helpers'[h] = None
        /\ call = None /\ UNCHANGED <<inventory, marker, forgotten, restored, call>>
    BY <1>2 DEF Reboot, fontRecords
  <2> QED
    BY <2>1 DEF Scripts
<1>3. ASSUME NEW f \in Fonts, FontAppears(f) PROVE RestoredInv'
  BY <1>3 DEF FontAppears, fontRecords
<1>4. CASE UNCHANGED fontVars
  BY <1>4 DEF fontVars, machineFonts, fontRecords
<1> QED
  BY <1>1, <1>2, <1>3, <1>4

LEMMA FontStepKeepsRestored ==
  ASSUME FontInv, RestoredInv, RemovesOffline, FontStep
  PROVE  RestoredInv'
<1>1. CASE backups # <<>> /\ server = "up" /\ StartRestore
  BY <1>1, StartRestoreKeepsRestored DEF RemovesOffline
<1>2. ASSUME NEW ok \in BOOLEAN, RestoreReturns(ok) PROVE RestoredInv'
  BY <1>2, RestoreReturnsKeepsRestored
<1>3. CASE ScriptStep /\ UNCHANGED server
  BY <1>3, DeleteFontsKeepsRestored, RemoveValuesKeepsRestored, ScheduleDeletesKeepsRestored,
     RestoringScriptKeepsRestored, ScriptFailsKeepsRestored, OthersKeepRestored DEF ScriptStep
<1> QED
  BY <1>1, <1>2, <1>3, StartRemovalKeepsRestored, BackupFailsKeepsRestored,
     RunRemovalKeepsRestored, RemovalReturnsKeepsRestored, ServiceEndsKeepsRestored,
     OthersKeepRestored DEF FontStep

\* restore with verifyRestoredBackup (fonts/service.ts 210-241 and 373-397)
\* against removals of an earlier version, scripts that outlive their service, and restarts of Windows:
\* what has been reported as restored is installed and no deletion of it is
\* scheduled, save that its removal had been forgotten.
THEOREM RestoredStays == Spec => []RestoredFontsStay
<1>1. Init => Asked /\ FontInv /\ RemovesOffline /\ RestoredInv
  BY FontInvInit, RestoredInit
<1>2. Asked /\ FontInv /\ RemovesOffline /\ RestoredInv /\ [Next]_vars
        => Asked' /\ FontInv' /\ RemovesOffline' /\ RestoredInv'
  BY AskedStays, FontSteps, FontStepIsSafe, OfflineStays, FontStepKeepsRestored
<1>3. RestoredInv => RestoredFontsStay
  BY DEF RestoredInv
<1> QED
  BY <1>1, <1>2, <1>3, PTL DEF Spec
=============================================================================
