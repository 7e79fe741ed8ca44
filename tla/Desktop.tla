-------------------------------- MODULE Desktop --------------------------------
(***************************************************************************)
(* The desktop program: a shell (src-tauri/src/main.rs) that starts one    *)
(* sidecar, shows its page and kills it with the window; the sidecar with  *)
(* its page; the fonts it restores, which a version before this one        *)
(* removed; and Windows, which is started anew.                            *)
(***************************************************************************)
EXTENDS GuiPage

vars == <<fontVars, sidecar, stream, page, begun, faults>>

Init ==
  /\ FontInit
  /\ ServerInit
  /\ PageInit
  /\ streaming = FALSE
  /\ inbox = <<>>
  /\ missed = FALSE
  /\ begun = 0
  /\ faults = 0

SpawnSidecar ==
  /\ server = "down"
  /\ call = None
  /\ server' = "up"

\* With the page's first requests, and the runtime made beforehand.
OpenWindow ==
  /\ SpawnSidecar
  /\ AskStatus
  /\ checkHeld' = TRUE
  /\ UNCHANGED <<fontVars, busy, jobs, intel, fixes, scores, compared, stream, controls,
                 fixAsked, checkAsked, checkDue, unchecked, begun, faults>>

\* The sidecar is killed in the middle of whatever it does; an elevated script
\* is not its child.  Bound: one stray script.
SidecarIsKilled ==
  /\ server = "up"
  /\ helpers["own"] # None => helpers["stray"] = None
  /\ ServiceEnds
  /\ server' = "down"

\* The user closes the window, or the shell dies: its job object goes with it.
CloseWindow ==
  /\ SidecarIsKilled
  /\ busy' = FALSE
  /\ jobs' = [k \in Kinds |-> None]
  /\ runtime' = "none"
  /\ creations' = 0
  /\ intel' = "none"
  /\ fixes' = 0
  /\ scores' = NoScores
  /\ compared' = None
  /\ streaming' = FALSE
  /\ inbox' = <<>>
  /\ missed' = FALSE
  /\ rendered' = FALSE
  /\ disabled' = FALSE
  /\ fixActive' = FALSE
  /\ fatal' = FALSE
  /\ syncDue' = FALSE
  /\ fixAsked' = None
  /\ checkAsked' = FALSE
  /\ checkDue' = FALSE
  /\ checkHeld' = FALSE
  /\ unchecked' = FALSE
  /\ statusAsked' = 0
  /\ UNCHANGED <<begun, faults>>

\* While this program is not running, an earlier version of it removes fonts.
EarlierVersion ==
  /\ server = "down"
  /\ \/ StartRemoval \/ BackupFails \/ RunRemoval
     \/ RemovalReturns
     \/ /\ call = "remove" /\ helpers["stray"] = None
        /\ Fault
        /\ ServiceEnds
        /\ UNCHANGED begun
  /\ UNCHANGED <<sidecar, stream, page>>

Reboot ==
  /\ server = "down" /\ call = None
  /\ scheduled # {}
  /\ installed' = installed \ scheduled
  /\ scheduled' = {}
  /\ helpers' = [h \in Scripts |-> None]
  /\ UNCHANGED <<registered, fontRecords, call, sidecar, stream, page, begun, faults>>

PageStep ==
  \/ OpenStream
  \/ ReceiveStart \/ ReceiveSummary \/ ReceiveDone
  \/ StatusArrives \/ CheckIsDue
  \/ FixAccepted \/ FixRefused \/ CheckAccepted \/ CheckRefused

UserStep ==
  \/ \E kind \in Fixes : ClickFix(kind)
  \/ ClickFonts \/ ClickRefresh
  \/ \E kind \in Elsewhere : AskedElsewhere(kind)
  \/ OpenWindow \/ CloseWindow
  \/ EarlierVersion

Outside ==
  \/ BreakStream
  \/ IntelExpires /\ UNCHANGED page
  \/ Reboot
  \/ \E f \in Fonts : FontAppears(f) /\ UNCHANGED <<sidecar, stream, page>>

Next ==
  \/ ServerStep /\ UNCHANGED page
  \/ ScriptStep /\ UNCHANGED <<sidecar, stream, page>>
  \/ PageStep
  \/ UserStep
  \/ Outside

Spec == Init /\ [][Next]_vars
-----------------------------------------------------------------------------
(* Properties.                                                             *)

TypeOK ==
  /\ {installed, scheduled, restored, forgotten, inventory} \subseteq SUBSET Fonts
  /\ {registered, fresh} \subseteq SUBSET FontValues
  /\ backups \in Seq(BackupSets)
  /\ marker \in Removals
  /\ call \in Calls \cup {None}
  /\ helpers \in [Scripts -> ScriptStates \cup {None}]
  /\ server \in {"down", "up"}
  /\ {busy, streaming, missed, rendered, disabled, fixActive, fatal, syncDue, checkAsked, checkDue,
      checkHeld, unchecked} \subseteq BOOLEAN
  /\ jobs \in [Kinds -> JobStates \cup {None}]
  /\ runtime \in {"none", "creating", "ready"}
  /\ creations \in 0..1
  /\ intel \in {"none", "asking", "known", "unknown"}
  /\ fixes \in 0..MaxJobs
  /\ \A s \in {"last", "pending", "measured"} : scores[s] \in (0..fixes) \cup {None}
  /\ compared = None \/ compared \in [before : 0..fixes, after : 0..fixes]
  /\ inbox \in Seq({"start", "ok", "fail", "done"})
  /\ fixAsked \in Fixes \cup {"fonts", None}
  /\ statusAsked \in 0..MaxStatus
  /\ begun \in 0..MaxJobs
  /\ faults \in 0..MaxFaults

\* The comparison of scores that is shown after a fix spans that fix: the one
\* score was measured before it and the other after every fix reported so far,
\* however checks, switches, failures and requests of other pages mingle.
RecheckSpansTheFix ==
  [][compared' # compared /\ compared' # None =>
       compared'.before < compared'.after /\ compared'.after = fixes]_vars

\* Nothing is under way, on its way or due.
Quiet ==
  /\ server = "up" /\ streaming
  /\ jobs = [k \in Kinds |-> None]
  /\ inbox = <<>>
  /\ fixAsked = None
  /\ ~checkAsked /\ ~checkDue /\ ~checkHeld
  /\ statusAsked = 0

\* Controls that were disabled by one event and are enabled by another, of some
\* other request or none, are never left disabled or missing, and the next
\* request is not refused: unless a stream broke with the event, or the check
\* that would have brought them failed or was refused.
QuietPageIsUsable ==
  Quiet => /\ ~busy
           /\ missed \/ (~disabled /\ ~fixActive)
           /\ missed \/ rendered \/ unchecked

\* A check goes without IP intelligence only if the query it waited for has
\* failed: no earlier failure is held against it.
ChecksAskForThemselves == [][jobs["check"] = None => jobs'["check"] # "uninformed"]_vars

\* No font file goes without being in a complete backup, and no registry value
\* that was there when a backup last read the registry, whatever appears, fails
\* or dies between the backup and the deletion.  A value that appeared since may
\* go unsaved: the script compares the names of the files and then deletes every
\* value that names one of them (elevated-script.ts:87-89 and 103-108), which is
\* less than ADR-0013 asks, that what a restoration needs be saved with the removal.
RemovedFontsAreBackedUp ==
  [][/\ \A f \in installed \ installed' : \E b \in ToSet(backups) : f \in b.files
     /\ \A v \in (registered \ registered') \ fresh :
          \E b \in ToSet(backups) : v \in b.entries]_vars

\* What a restoration has reported as restored is there and stays, also when
\* Windows is started next; save the fonts of a removal whose result was lost.
RestoredFontsStay == restored \ forgotten \subseteq installed \ scheduled

\* Whoever waits, waits for something that will come: a request shared by
\* several, for the runtime or for IP intelligence, is never given up or
\* forgotten while one of them waits for it.
NobodyWaitsInVain ==
  /\ jobs["check"] = "waiting" => intel = "asking"
  /\ (\E k \in Kinds \ {"fonts"} : jobs[k] # None) => runtime # "none"
  /\ jobs["fonts"] # None => call = "restore" /\ helpers["own"] # None
  /\ busy => \E k \in Kinds : jobs[k] # None
=============================================================================
