------------------------------- MODULE GuiServer -------------------------------
(***************************************************************************)
(* The sidecar of the desktop program (gui/server.ts, gui/sidecar.ts):     *)
(* jobs under a busy flag, one runtime for all of them, IP intelligence    *)
(* with its cache (proxy/ip-intel.ts), and the stream of events.           *)
(*                                                                         *)
(* What runs between two awaits is one step.  A score is represented by    *)
(* the number of fixes that had been reported when its detection began:    *)
(* that is what a comparison of two scores is about.  Of the events those  *)
(* are kept that a page acts upon: the start of a fix, its summary, and    *)
(* the end of a detection.  PersistTransaction is the inside of a fix.     *)
(***************************************************************************)
EXTENDS FontFix

VARIABLES
  server,     \* the sidecar is "down" or "up"
  busy,       \* the flag
  jobs,       \* per kind: how far its job is, or None
  runtime,    \* runtimePromise: "none", "creating" or "ready"
  creations,  \* createPersistRuntime calls under way
  intel,      \* IP intelligence: "none", "asking", or cached: "known", "unknown"
  fixes,      \* the fixes reported so far
  scores,     \* lastDetectScore, pendingRecheck, the score being measured
  compared,   \* the last recheck event: before, after; or None
  streaming,  \* the page's stream is open
  inbox,      \* the events on their way to the page
  missed      \* a summary or the end of a check was lost, or never told

sidecar == <<server, busy, jobs, runtime, creations, intel, fixes, scores, compared>>
stream == <<streaming, inbox, missed>>

Fixes == {"on", "off", "recover"}
Kinds == Fixes \cup {"check", "fonts"}
JobStates == {"resolve", "execute", "waiting", "informed", "uninformed", "detect"}

ASSUME JobAssumption == None \notin JobStates

NoScores == [last |-> None, pending |-> None, measured |-> None]

Telling(events) ==
  IF streaming THEN inbox' = inbox \o events /\ UNCHANGED <<streaming, missed>>
  ELSE /\ missed' = (missed \/ \E i \in DOMAIN events : events[i] # "start")
       /\ UNCHANGED <<streaming, inbox>>
Tell(event) == Telling(<<event>>)

\* Mutant of MayStart: the flag is set but not looked at.
AlwaysStart == server = "up"

\* tryAcquireLock.
MayStart == server = "up" /\ ~busy

\* releaseLock, and the end of the job.
Release(kind) ==
  /\ busy' = FALSE
  /\ jobs' = [jobs EXCEPT ![kind] = None]

\* Mutant of AskRuntime: only a runtime that is ready is shared.
AskRuntimeAgain ==
  /\ runtime' = IF runtime = "ready" THEN "ready" ELSE "creating"
  /\ creations' = IF runtime = "ready" THEN creations ELSE creations + 1

\* getRuntime.
AskRuntime ==
  /\ runtime' = IF runtime = "none" THEN "creating" ELSE runtime
  /\ creations' = IF runtime = "none" THEN creations + 1 ELSE creations

\* fetchIpIntelligence: who asks while an answer is due waits for that one.
AskIntel == intel' = IF intel = "none" THEN "asking" ELSE intel

\* Mutant of Informed: only an answer ends the waiting.
InformedOfSuccess(answer) == IF answer = "known" THEN "informed" ELSE "waiting"

Informed(answer) ==
  CASE answer = "known" -> "informed"
    [] answer = "unknown" -> "uninformed"
    [] OTHER -> "waiting"

-----------------------------------------------------------------------------
(* Requests that start a job.  202 is sent before the work begins.         *)

AcceptFix(kind) ==
  /\ MayStart
  /\ Begin
  /\ busy' = TRUE
  /\ jobs' = [jobs EXCEPT ![kind] = IF kind = "on" THEN "resolve" ELSE "execute"]
  /\ AskRuntime
  /\ IF kind = "on" THEN UNCHANGED stream ELSE Tell("start")
  /\ UNCHANGED <<fontVars, server, intel, fixes, scores, compared, faults>>

AcceptCheck ==
  /\ MayStart
  /\ Begin
  /\ busy' = TRUE
  /\ jobs' = [jobs EXCEPT !["check"] = Informed(intel)]
  /\ AskRuntime
  /\ AskIntel
  /\ UNCHANGED <<fontVars, server, fixes, scores, compared, stream, faults>>

\* Without a backup it has failed at once.
AcceptFonts ==
  /\ MayStart
  /\ Begin
  /\ IF backups = <<>>
     THEN Tell("fail") /\ UNCHANGED <<fontVars, busy, jobs>>
     ELSE /\ StartRestore
          /\ busy' = TRUE
          /\ jobs' = [jobs EXCEPT !["fonts"] = "execute"]
          /\ UNCHANGED stream
  /\ UNCHANGED <<server, runtime, creations, intel, fixes, scores, compared, faults>>

Accept(kind) ==
  CASE kind \in Fixes -> AcceptFix(kind)
    [] kind = "check" -> AcceptCheck
    [] kind = "fonts" -> AcceptFonts

-----------------------------------------------------------------------------
(* runPersistStep, handleFixOn, handleFixOff, handleRecover.               *)

\* Mutant of TargetUnknown: the job ends before its summary is sent.
EndUnnoticed == Release("on") /\ UNCHANGED stream

TargetUnknown == Release("on") /\ Tell("fail")

\* prepare of a switch: the target is resolved, or the job has failed.
ResolveTarget(failed) ==
  /\ jobs["on"] = "resolve"
  /\ runtime = "ready"
  /\ MayFail(failed)
  /\ IF failed THEN TargetUnknown
     ELSE /\ jobs' = [jobs EXCEPT !["on"] = "execute"]
          /\ Tell("start")
          /\ UNCHANGED busy
  /\ UNCHANGED <<fontVars, server, runtime, creations, intel, fixes, scores, compared, begun>>

\* markPendingRecheckIfKnown.
MarkRecheck == [scores EXCEPT !.pending = IF scores.last # None THEN scores.last ELSE @]

\* Outcome, summary and release are one step; a thrown error counts as failed.
EndFix(kind, failed) ==
  /\ jobs[kind] = "execute"
  /\ runtime = "ready"
  /\ MayFail(failed)
  /\ Release(kind)
  /\ Tell(IF failed THEN "fail" ELSE "ok")
  /\ IF failed \/ kind = "recover" THEN UNCHANGED <<fixes, scores>>
     ELSE fixes' = fixes + 1 /\ scores' = MarkRecheck
  /\ UNCHANGED <<fontVars, server, runtime, creations, intel, compared, begun>>

\* handleFontsRestore.
EndFonts(ok) ==
  /\ jobs["fonts"] = "execute"
  /\ RestoreReturns(ok)
  /\ Release("fonts")
  /\ Tell(IF ok THEN "ok" ELSE "fail")
  /\ UNCHANGED <<server, runtime, creations, intel, fixes, scores, compared, begun>>

-----------------------------------------------------------------------------
(* handleCheckStart, runDetection, checkEventConsumer.                     *)

\* The state is read, then every plugin reads the system.
StartDetection ==
  /\ jobs["check"] \in {"informed", "uninformed"}
  /\ runtime = "ready"
  /\ jobs' = [jobs EXCEPT !["check"] = "detect"]
  /\ scores' = [scores EXCEPT !.measured = fixes]
  /\ UNCHANGED <<fontVars, server, busy, runtime, creations, intel, fixes, compared, stream,
                 begun, faults>>

\* checkEventConsumer: the score is kept, and compared with the one before a fix.
CompareScores ==
  /\ scores' = [last |-> scores.measured, pending |-> None, measured |-> None]
  /\ compared' = IF scores.pending = None THEN compared
                 ELSE [before |-> scores.pending, after |-> scores.measured]

EndDetection ==
  /\ jobs["check"] = "detect"
  /\ Release("check")
  /\ Tell("done")
  /\ CompareScores
  /\ UNCHANGED <<fontVars, server, runtime, creations, intel, fixes, begun, faults>>

\* There is no event for a check that throws.
FailDetection ==
  /\ jobs["check"] \in {"informed", "uninformed", "detect"}
  /\ runtime = "ready"
  /\ Fault
  /\ Release("check")
  /\ missed' = TRUE
  /\ scores' = [scores EXCEPT !.measured = None]
  /\ UNCHANGED <<fontVars, server, runtime, creations, intel, fixes, compared, streaming, inbox,
                 begun>>

-----------------------------------------------------------------------------
(* The runtime and the IP intelligence.                                    *)

RuntimeIsReady ==
  /\ runtime = "creating"
  /\ runtime' = "ready"
  /\ creations' = creations - 1
  /\ UNCHANGED <<fontVars, server, busy, jobs, intel, fixes, scores, compared, stream,
                 begun, faults>>

\* The fixes that wait for the runtime end with a summary, a check without;
\* the next request tries again.
RuntimeFails ==
  LET waiting == {k \in Kinds : jobs[k] # None /\ k # "fonts"}
  IN /\ runtime = "creating"
     /\ Fault
     /\ runtime' = "none"
     /\ creations' = creations - 1
     /\ jobs' = [k \in Kinds |-> IF k \in waiting THEN None ELSE jobs[k]]
     /\ busy' = (busy /\ waiting = {})
     /\ IF waiting \cap Fixes # {} THEN Tell("fail")
        ELSE /\ missed' = (missed \/ waiting # {})
             /\ UNCHANGED <<streaming, inbox>>
     /\ UNCHANGED <<fontVars, server, intel, fixes, scores, compared, begun>>

\* Mutant of AfterFailure: no answer is an answer, for a minute.
KeepNoAnswer == "unknown"

\* Failures are not cached.
AfterFailure == "none"

IntelArrives(failed) ==
  /\ intel = "asking"
  /\ MayFail(failed)
  /\ intel' = IF failed THEN AfterFailure ELSE "known"
  /\ jobs' = [jobs EXCEPT !["check"] =
       IF @ = "waiting" THEN Informed(IF failed THEN "unknown" ELSE "known") ELSE @]
  /\ UNCHANGED <<fontVars, server, busy, runtime, creations, fixes, scores, compared, stream,
                 begun>>

\* IP_INTEL_CACHE_TTL_MS.
IntelExpires ==
  /\ intel \in {"known", "unknown"}
  /\ intel' = "none"
  /\ UNCHANGED <<fontVars, server, busy, jobs, runtime, creations, fixes, scores, compared, stream,
                 begun, faults>>

ServerStep ==
  \/ \E failed \in BOOLEAN :
       \/ ResolveTarget(failed)
       \/ \E kind \in Fixes : EndFix(kind, failed)
       \/ EndFonts(~failed)
       \/ IntelArrives(failed)
  \/ StartDetection \/ EndDetection \/ FailDetection
  \/ RuntimeIsReady \/ RuntimeFails

ServerInit ==
  /\ server = "down"
  /\ busy = FALSE
  /\ jobs = [k \in Kinds |-> None]
  /\ runtime = "none"
  /\ creations = 0
  /\ intel = "none"
  /\ fixes = 0
  /\ scores = NoScores
  /\ compared = None

=============================================================================
