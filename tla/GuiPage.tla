-------------------------------- MODULE GuiPage --------------------------------
(***************************************************************************)
(* The page (assets/gui/app.js with the reducer of assets/gui/state.js): a *)
(* stream of events that may break at any time and is not replayed, two    *)
(* kinds of requests, and the controls they disable.                       *)
(*                                                                         *)
(* Left out: what is only shown, and the hint about running browsers.  Two *)
(* automatic checks that are due at the same time count as one.            *)
(***************************************************************************)
EXTENDS GuiServer

CONSTANT Elsewhere  \* bound: what other clients of the session ask for

ASSUME PageAssumption == Elsewhere \subseteq Kinds /\ None \notin Kinds

VARIABLES
  rendered,   \* the controls are on the page
  disabled,   \* setButtonsDisabled
  fixActive,  \* the card of a fix says that it is going on
  fatal,      \* the card offers to recover or to restore, whatever is disabled
  syncDue,    \* lastFixAction is set: the next detection refreshes the status
  fixAsked,   \* the fix or restoration that has been requested, or None
  checkAsked, \* a check has been requested
  checkDue,   \* the automatic check half a second after a summary
  checkHeld,  \* pendingStart: a check waits for the stream
  unchecked,  \* the last check that the page asked for was refused
  statusAsked \* status requests under way

controls == <<rendered, disabled, fixActive, fatal, syncDue>>
requests == <<fixAsked, checkAsked, checkDue, checkHeld, unchecked, statusAsked>>
page == <<controls, requests>>
serverVars == <<sidecar, stream, fontVars, begun, faults>>

\* Bound: status requests at the same time.
MaxStatus == 2

AskStatus == statusAsked' = statusAsked + 1 /\ AskRuntime

\* startCheck.
StartCheck ==
  IF streaming THEN checkAsked' = TRUE /\ UNCHANGED checkHeld
               ELSE checkHeld' = TRUE /\ UNCHANGED checkAsked

-----------------------------------------------------------------------------
(* The stream.                                                             *)

\* attachSse of the server, which also asks for IP intelligence.
AttachSse ==
  /\ server = "up"
  /\ ~streaming
  /\ streaming' = TRUE
  /\ AskIntel

\* onopen.
OpenStream ==
  /\ AttachSse
  /\ IF checkHeld THEN checkHeld' = FALSE /\ checkAsked' = TRUE
                  ELSE UNCHANGED <<checkHeld, checkAsked>>
  /\ UNCHANGED <<fontVars, server, busy, jobs, runtime, creations, fixes, scores, compared,
                 inbox, missed, controls, fixAsked, checkDue, unchecked, statusAsked,
                 begun, faults>>

BreakStream ==
  /\ streaming
  /\ Fault
  /\ streaming' = FALSE
  /\ inbox' = <<>>
  /\ missed' = (missed \/ \E i \in DOMAIN inbox : inbox[i] # "start")
  /\ UNCHANGED <<fontVars, sidecar, page, begun>>

-----------------------------------------------------------------------------
(* Events.                                                                 *)

Receive(event) ==
  /\ inbox # <<>>
  /\ Head(inbox) = event
  /\ inbox' = Tail(inbox)
  /\ UNCHANGED <<fontVars, server, busy, jobs, intel, fixes, scores, compared, streaming,
                 fixAsked, checkAsked, checkHeld, begun, faults>>

ReceiveStart ==
  /\ Receive("start")
  /\ fixActive' = TRUE
  /\ fatal' = FALSE
  /\ UNCHANGED <<runtime, creations, missed, rendered, disabled, syncDue, checkDue, unchecked,
                 statusAsked>>

\* showSummary: of any job, a restoration of fonts included.
ReceiveSummary ==
  /\ \/ Receive("ok") /\ checkDue' = TRUE /\ fatal' = FALSE
     \/ Receive("fail") /\ fatal' \in BOOLEAN /\ UNCHANGED checkDue
  /\ fixActive' = FALSE
  /\ disabled' = FALSE
  /\ UNCHANGED <<runtime, creations, missed, rendered, syncDue, unchecked, statusAsked>>

\* detect-done: the controls are built if they are not there, and stay disabled
\* until the status has been read.
ReceiveDone ==
  /\ Receive("done")
  /\ rendered' = TRUE
  /\ disabled' = (disabled \/ ~rendered)
  /\ syncDue' = FALSE
  /\ unchecked' = FALSE
  /\ IF statusAsked < MaxStatus /\ (syncDue \/ ~rendered) THEN AskStatus
     ELSE UNCHANGED <<statusAsked, runtime, creations>>
  /\ UNCHANGED <<missed, fixActive, fatal, checkDue>>

\* loadStatus: an answer, an error and no connection all enable the controls.
StatusArrives ==
  /\ statusAsked > 0
  /\ runtime # "creating"
  /\ statusAsked' = statusAsked - 1
  /\ disabled' = FALSE
  /\ UNCHANGED <<serverVars, rendered, fixActive, fatal, syncDue, fixAsked, checkAsked, checkDue,
                 checkHeld, unchecked>>

-----------------------------------------------------------------------------
(* Requests.                                                               *)

\* persistOn, persistOff, persistRecover: by a control, or after a fatal end.
ClickFix(kind) ==
  /\ \/ rendered /\ ~disabled
     \/ fatal /\ kind \in {"off", "recover"}
  /\ fixAsked = None
  /\ begun < MaxJobs
  /\ disabled' = TRUE
  /\ syncDue' = TRUE
  /\ fixAsked' = kind
  /\ UNCHANGED <<serverVars, rendered, fixActive, fatal, checkAsked, checkDue, checkHeld,
                 unchecked, statusAsked>>

\* Its control is shown if there is a backup.
FontsOffered == backups # <<>>

\* fontsRestore leaves the other controls alone.
ClickFonts ==
  /\ server = "up" /\ ~disabled
  /\ FontsOffered
  /\ fixAsked = None
  /\ begun < MaxJobs
  /\ fixAsked' = "fonts"
  /\ UNCHANGED <<serverVars, controls, checkAsked, checkDue, checkHeld, unchecked, statusAsked>>

\* refresh: the controls go, until a detection ends.
ClickRefresh ==
  /\ rendered /\ ~disabled
  /\ ~checkAsked
  /\ begun < MaxJobs
  /\ rendered' = FALSE
  /\ StartCheck
  /\ UNCHANGED <<serverVars, disabled, fixActive, fatal, syncDue, fixAsked, checkDue, unchecked,
                 statusAsked>>

CheckIsDue ==
  /\ checkDue
  /\ ~checkAsked
  /\ checkDue' = FALSE
  /\ StartCheck
  /\ UNCHANGED <<serverVars, controls, fixAsked, unchecked, statusAsked>>

\* The refusal of a fix.
EnabledAgain == IF fixAsked = "fonts" THEN disabled ELSE FALSE

\* Bound: after MaxJobs every request is refused.
Refused == server = "up" /\ (busy \/ begun = MaxJobs)

FixAccepted ==
  /\ fixAsked # None
  /\ Accept(fixAsked)
  /\ fixAsked' = None
  /\ UNCHANGED <<controls, checkAsked, checkDue, checkHeld, unchecked, statusAsked>>

FixRefused ==
  /\ fixAsked # None
  /\ Refused
  /\ fixAsked' = None
  /\ disabled' = EnabledAgain
  /\ UNCHANGED <<serverVars, rendered, fixActive, fatal, syncDue, checkAsked, checkDue, checkHeld,
                 unchecked, statusAsked>>

CheckAccepted ==
  /\ checkAsked
  /\ Accept("check")
  /\ checkAsked' = FALSE
  /\ UNCHANGED <<controls, fixAsked, checkDue, checkHeld, unchecked, statusAsked>>

CheckRefused ==
  /\ checkAsked
  /\ Refused
  /\ checkAsked' = FALSE
  /\ unchecked' = TRUE
  /\ UNCHANGED <<serverVars, controls, fixAsked, checkDue, checkHeld, statusAsked>>

\* Another client of the same session.
AskedElsewhere(kind) ==
  /\ Accept(kind)
  /\ UNCHANGED page

PageInit ==
  /\ rendered = FALSE
  /\ disabled = FALSE
  /\ fixActive = FALSE
  /\ fatal = FALSE
  /\ syncDue = FALSE
  /\ fixAsked = None
  /\ checkAsked = FALSE
  /\ checkDue = FALSE
  /\ checkHeld = FALSE
  /\ unchecked = FALSE
  /\ statusAsked = 0

=============================================================================
