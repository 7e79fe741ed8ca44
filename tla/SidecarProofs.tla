----------------------------- MODULE SidecarProofs -----------------------------
(***************************************************************************)
(* What a check asks, what the comparison of two checks shows, why a quiet *)
(* page can be used, and the types of everything.                          *)
(*                                                                         *)
(* There is one job at a time, so no fix is reported while a score is      *)
(* measured: the score stands for every fix reported when it is kept.  A   *)
(* control that is disabled, a card that is marked and controls that are   *)
(* missing each wait for a request, a job or an event on its way, and a    *)
(* job ends with the event: PageInv says which for which.                  *)
(***************************************************************************)
EXTENDS DesktopProofs

-----------------------------------------------------------------------------
(* The steps that concern the jobs and the scores.                         *)

jobRecords == <<jobs, busy, fixes, scores, compared>>

SidecarStep ==
  \/ \E kind \in Kinds : Accept(kind)
  \/ ServerStep
  \/ CloseWindow
  \/ UNCHANGED jobRecords /\ (UNCHANGED intel \/ AskIntel \/ intel' = "none")

LEMMA SidecarSteps ==
  ASSUME Asked, [Next]_vars
  PROVE  SidecarStep
<1> USE DEF SidecarStep, jobRecords
<1>1. CASE UNCHANGED vars
  BY <1>1 DEF vars, sidecar
<1>2. CASE ScriptStep /\ UNCHANGED <<sidecar, stream, page>>
  BY <1>2 DEF sidecar
<1>3. CASE PageStep
  <2>1. CASE FixAccepted \/ CheckAccepted
    BY <2>1 DEF FixAccepted, CheckAccepted, Asked, Kinds
  <2>2. CASE OpenStream
    BY <2>2 DEF OpenStream, AttachSse
  <2>3. CASE ReceiveStart \/ ReceiveSummary \/ ReceiveDone
    BY <2>3 DEF ReceiveStart, ReceiveSummary, ReceiveDone, Receive
  <2>4. CASE StatusArrives \/ CheckIsDue \/ FixRefused \/ CheckRefused
    BY <2>4 DEF StatusArrives, CheckIsDue, FixRefused, CheckRefused, serverVars, sidecar
  <2> QED
    BY <1>3, <2>1, <2>2, <2>3, <2>4 DEF PageStep
<1>4. CASE UserStep
  <2>1. ASSUME NEW kind \in Elsewhere, AskedElsewhere(kind) PROVE SidecarStep
    BY <2>1, PageAssumption DEF AskedElsewhere
  <2>2. ASSUME NEW kind \in Fixes, ClickFix(kind) PROVE SidecarStep
    BY <2>2 DEF ClickFix, serverVars, sidecar
  <2>3. CASE ClickFonts \/ ClickRefresh \/ EarlierVersion
    BY <2>3 DEF ClickFonts, ClickRefresh, EarlierVersion, serverVars, sidecar
  <2>4. CASE OpenWindow
    BY <2>4 DEF OpenWindow
  <2> QED
    BY <1>4, <2>1, <2>2, <2>3, <2>4 DEF UserStep
<1>5. CASE Outside
  <2>1. ASSUME NEW f \in Fonts, UNCHANGED <<sidecar, stream, page>> PROVE SidecarStep
    BY <2>1 DEF sidecar
  <2>2. CASE BreakStream \/ IntelExpires \/ Reboot
    BY <2>2 DEF BreakStream, IntelExpires, Reboot, sidecar
  <2> QED
    BY <1>5, <2>1, <2>2 DEF Outside
<1> QED
  BY <1>1, <1>2, <1>3, <1>4, <1>5 DEF Next

-----------------------------------------------------------------------------
(* IP intelligence.                                                        *)

\* No answer is never kept as an answer.
NoFailureIsKept == intel # "unknown"

LEMMA ServerStepOfChecks ==
  ASSUME JobTypes, NoFailureIsKept, ServerStep
  PROVE  NoFailureIsKept' /\ (jobs["check"] = None => jobs'["check"] # "uninformed")
<1> USE JobAssumption DEF JobTypes, NoFailureIsKept, JobStates, Kinds, Fixes
<1>1. ASSUME NEW failed \in BOOLEAN, IntelArrives(failed)
      PROVE  intel' # "unknown" /\ (jobs["check"] = None => jobs'["check"] = None)
  BY <1>1 DEF IntelArrives, AfterFailure
<1>2. ASSUME NEW failed \in BOOLEAN, ResolveTarget(failed)
      PROVE  UNCHANGED intel /\ jobs'["check"] = jobs["check"]
  BY <1>2 DEF ResolveTarget, TargetUnknown, Release
<1>3. ASSUME NEW failed \in BOOLEAN, NEW kind \in Fixes, EndFix(kind, failed)
      PROVE  UNCHANGED intel /\ jobs'["check"] = jobs["check"]
  BY <1>3 DEF EndFix, Release
<1>4. ASSUME NEW ok \in BOOLEAN, EndFonts(ok)
      PROVE  UNCHANGED intel /\ jobs'["check"] = jobs["check"]
  BY <1>4 DEF EndFonts, Release
<1>5. ASSUME StartDetection \/ EndDetection \/ FailDetection \/ RuntimeIsReady \/ RuntimeFails
      PROVE  UNCHANGED intel /\ (jobs'["check"] \in {None, "detect", jobs["check"]})
  BY <1>5 DEF StartDetection, EndDetection, FailDetection, RuntimeIsReady, RuntimeFails, Release
<1> QED
  BY <1>1, <1>2, <1>3, <1>4, <1>5 DEF ServerStep

LEMMA ChecksAsk ==
  ASSUME JobTypes, NoFailureIsKept, SidecarStep
  PROVE  NoFailureIsKept' /\ (jobs["check"] = None => jobs'["check"] # "uninformed")
<1> USE JobAssumption DEF JobTypes, NoFailureIsKept, JobStates, Kinds
<1>1. ASSUME NEW kind \in Kinds, Accept(kind)
      PROVE  intel' # "unknown" /\ (jobs["check"] = None => jobs'["check"] # "uninformed")
  <2>1. CASE kind \in Fixes
    BY <1>1, <2>1 DEF Accept, AcceptFix, Fixes
  <2>2. CASE kind = "check"
    BY <1>1, <2>2 DEF Accept, AcceptCheck, AskIntel, Informed, Fixes
  <2>3. CASE kind = "fonts"
    BY <1>1, <2>3 DEF Accept, AcceptFonts, Fixes
  <2> QED
    BY <2>1, <2>2, <2>3
<1>2. CASE CloseWindow
  BY <1>2 DEF CloseWindow
<1>3. CASE UNCHANGED jobRecords /\ (UNCHANGED intel \/ AskIntel \/ intel' = "none")
  BY <1>3 DEF jobRecords, AskIntel
<1> QED
  BY <1>1, <1>2, <1>3, ServerStepOfChecks DEF SidecarStep

\* fetchIpIntelligence (proxy/ip-intel.ts 192-217) as handleCheckStart uses it
\* (gui/server.ts 264-281): a check that goes without IP intelligence has waited
\* for a query of its own time, however queries fail, expire and are shared.
THEOREM ChecksAskAlways == Spec => ChecksAskForThemselves
<1>1. Init => Asked /\ FontInv /\ JobInv /\ NoFailureIsKept
  BY FontInvInit, JobInvInit DEF NoFailureIsKept, Init, ServerInit
<1>2. Asked /\ FontInv /\ JobInv /\ NoFailureIsKept /\ [Next]_vars
        => /\ Asked' /\ FontInv' /\ JobInv' /\ NoFailureIsKept'
           /\ jobs["check"] = None => jobs'["check"] # "uninformed"
  BY AskedStays, FontSteps, FontStepIsSafe, NextKeepsJobs, SidecarSteps, ChecksAsk DEF JobInv
<1> QED
  BY <1>1, <1>2, PTL DEF Spec, ChecksAskForThemselves

-----------------------------------------------------------------------------
(* The scores.                                                             *)

\* The flag excludes a second job.
OneJob == \A k \in Kinds : jobs[k] # None => busy /\ \A j \in Kinds \ {k} : jobs[j] = None

Scores == Nat \cup {None}

\* A score that waits for its comparison was measured before a fix.
ScoresAreDated ==
  /\ fixes \in Nat
  /\ scores \in [last : Scores, pending : Scores, measured : Scores]
  /\ scores.last # None => scores.last <= fixes
  /\ scores.pending # None => scores.pending < fixes
  /\ jobs["check"] = "detect" => scores.measured = fixes

ScoreInv == JobTypes /\ OneJob /\ ScoresAreDated

\* What a comparison says, if there is a new one.
ComparisonSpansTheFix ==
  compared' # compared /\ compared' # None =>
    compared'.before < compared'.after /\ compared'.after = fixes

\* A job that ends was the only one.
LEMMA LastJobEnds ==
  ASSUME JobTypes, OneJob, NEW kind \in Kinds, jobs[kind] # None, Release(kind)
  PROVE  OneJob' /\ \A k \in Kinds : jobs'[k] = None
BY DEF JobTypes, OneJob, Release

\* None of the jobs is under way that reports a fix or keeps a score.
LEMMA ScoresKept ==
  ASSUME ScoresAreDated, UNCHANGED <<fixes, scores, compared>>, jobs'["check"] # "detect"
  PROVE  ScoresAreDated' /\ ComparisonSpansTheFix
BY DEF ScoresAreDated, ComparisonSpansTheFix

LEMMA AcceptKeepsScores ==
  ASSUME ScoreInv, NEW kind \in Kinds, Accept(kind)
  PROVE  OneJob' /\ ScoresAreDated' /\ ComparisonSpansTheFix
<1> USE JobAssumption DEF ScoreInv, JobTypes, JobStates
<1>1. ~busy /\ UNCHANGED <<fixes, scores, compared>>
  BY DEF Accept, AcceptFix, AcceptCheck, AcceptFonts, MayStart, Fixes, Kinds
<1>2. \A k \in Kinds : jobs[k] = None
  BY <1>1 DEF OneJob
<1>3. \/ UNCHANGED <<jobs, busy>>
      \/ /\ busy' = TRUE
         /\ \E job \in {"resolve", "execute", "waiting", "informed", "uninformed"} :
              jobs' = [jobs EXCEPT ![kind] = job]
  <2>1. CASE kind \in Fixes
    BY <2>1 DEF Accept, AcceptFix, Fixes
  <2>2. CASE kind = "check"
    BY <2>2 DEF Accept, AcceptCheck, Informed, Fixes
  <2>3. CASE kind = "fonts"
    BY <2>3 DEF Accept, AcceptFonts, Fixes
  <2> QED
    BY <2>1, <2>2, <2>3 DEF Kinds
<1>4. OneJob'
  BY <1>2, <1>3 DEF OneJob
<1>5. jobs'["check"] # "detect"
  BY <1>2, <1>3 DEF Kinds
<1> QED
  BY <1>1, <1>4, <1>5, ScoresKept

LEMMA ServerStepKeepsScores ==
  ASSUME ScoreInv, ServerStep
  PROVE  OneJob' /\ ScoresAreDated' /\ ComparisonSpansTheFix
<1> USE JobAssumption DEF ScoreInv
<1>1. ASSUME NEW failed \in BOOLEAN, ResolveTarget(failed)
      PROVE  OneJob' /\ ScoresAreDated' /\ ComparisonSpansTheFix
  <2>1. jobs["on"] # None /\ UNCHANGED <<fixes, scores, compared>>
    BY <1>1 DEF ResolveTarget, JobStates
  <2>2. Release("on") \/ (jobs' = [jobs EXCEPT !["on"] = "execute"] /\ UNCHANGED busy)
    BY <1>1 DEF ResolveTarget, TargetUnknown
  <2>3. jobs["check"] = None
    BY <2>1 DEF OneJob, Kinds, Fixes
  <2>4. CASE Release("on")
    BY <2>1, <2>4, LastJobEnds, ScoresKept DEF JobStates, Kinds, Fixes
  <2>5. CASE jobs' = [jobs EXCEPT !["on"] = "execute"] /\ UNCHANGED busy
    <3>1. OneJob'
      BY <2>1, <2>5 DEF OneJob, JobTypes, Kinds, Fixes
    <3>2. jobs'["check"] # "detect"
      BY <2>3, <2>5 DEF JobTypes, JobStates, Kinds, Fixes
    <3> QED
      BY <2>1, <3>1, <3>2, ScoresKept
  <2> QED
    BY <2>2, <2>4, <2>5
<1>2. ASSUME NEW failed \in BOOLEAN, NEW kind \in Fixes, EndFix(kind, failed)
      PROVE  OneJob' /\ ScoresAreDated' /\ ComparisonSpansTheFix
  <2>1. jobs[kind] # None /\ Release(kind) /\ UNCHANGED compared /\ kind \in Kinds
    BY <1>2 DEF EndFix, JobStates, Kinds
  <2>2. OneJob' /\ jobs'["check"] # "detect"
    BY <2>1, LastJobEnds DEF JobStates, Kinds
  <2>3. CASE UNCHANGED <<fixes, scores>>
    BY <2>1, <2>2, <2>3, ScoresKept
  <2>4. CASE fixes' = fixes + 1 /\ scores' = MarkRecheck
    <3>1. scores' = [scores EXCEPT !.pending = IF scores.last # None THEN scores.last
                                               ELSE scores.pending]
      BY <2>4 DEF MarkRecheck
    <3> QED
      BY <2>1, <2>2, <2>4, <3>1 DEF ScoresAreDated, Scores, ComparisonSpansTheFix
  <2> QED
    BY <1>2, <2>3, <2>4 DEF EndFix
<1>3. ASSUME NEW ok \in BOOLEAN, EndFonts(ok)
      PROVE  OneJob' /\ ScoresAreDated' /\ ComparisonSpansTheFix
  <2>1. jobs["fonts"] # None /\ Release("fonts") /\ UNCHANGED <<fixes, scores, compared>>
    BY <1>3 DEF EndFonts, JobStates
  <2> QED
    BY <2>1, LastJobEnds, ScoresKept DEF JobStates, Kinds
<1>4. ASSUME NEW failed \in BOOLEAN, IntelArrives(failed)
      PROVE  OneJob' /\ ScoresAreDated' /\ ComparisonSpansTheFix
  <2> DEFINE job == IF jobs["check"] = "waiting"
                    THEN Informed(IF failed THEN "unknown" ELSE "known") ELSE jobs["check"]
  <2>1. jobs' = [jobs EXCEPT !["check"] = job] /\ UNCHANGED <<busy, fixes, scores, compared>>
    BY <1>4 DEF IntelArrives
  <2>2. (job = None <=> jobs["check"] = None) /\ (job = "detect" <=> jobs["check"] = "detect")
    BY DEF Informed, JobStates
  <2> HIDE DEF job
  <2>3. OneJob'
    BY <2>1, <2>2 DEF OneJob, JobTypes, Kinds
  <2> QED
    BY <2>1, <2>2, <2>3 DEF ScoresAreDated, ComparisonSpansTheFix, JobTypes, Kinds
<1>5. CASE StartDetection
  <2>1. /\ jobs["check"] # None /\ jobs' = [jobs EXCEPT !["check"] = "detect"]
        /\ scores' = [scores EXCEPT !.measured = fixes]
        /\ UNCHANGED <<busy, fixes, compared>>
    BY <1>5 DEF StartDetection, JobStates
  <2>2. OneJob'
    BY <2>1 DEF OneJob, JobTypes, Kinds
  <2> QED
    BY <2>1, <2>2 DEF ScoresAreDated, Scores, ComparisonSpansTheFix
<1>6. CASE EndDetection
  <2>1. /\ jobs["check"] = "detect" /\ Release("check") /\ UNCHANGED fixes /\ CompareScores
    BY <1>6 DEF EndDetection
  <2>2. OneJob' /\ jobs'["check"] = None
    BY <2>1, LastJobEnds DEF JobStates, Kinds
  <2> QED
    BY <2>1, <2>2 DEF CompareScores, ScoresAreDated, Scores, ComparisonSpansTheFix, JobStates
<1>7. CASE FailDetection
  <2>1. /\ jobs["check"] # None /\ Release("check") /\ UNCHANGED <<fixes, compared>>
        /\ scores' = [scores EXCEPT !.measured = None]
    BY <1>7 DEF FailDetection, JobStates
  <2>2. OneJob' /\ jobs'["check"] = None
    BY <2>1, LastJobEnds DEF Kinds
  <2> QED
    BY <2>1, <2>2 DEF ScoresAreDated, Scores, ComparisonSpansTheFix, JobStates
<1>8. CASE RuntimeIsReady
  BY <1>8 DEF RuntimeIsReady, OneJob, ScoresAreDated, ComparisonSpansTheFix
<1>9. CASE RuntimeFails
  <2> DEFINE waiting == {k \in Kinds : jobs[k] # None /\ k # "fonts"}
  <2>1. /\ jobs' = [k \in Kinds |-> IF k \in waiting THEN None ELSE jobs[k]]
        /\ busy' = (busy /\ waiting = {})
        /\ UNCHANGED <<fixes, scores, compared>>
    BY <1>9 DEF RuntimeFails
  <2>2. OneJob'
    BY <2>1 DEF OneJob, JobTypes
  <2>3. jobs'["check"] # "detect"
    BY <2>1 DEF JobStates, Kinds
  <2> QED
    BY <2>1, <2>2, <2>3, ScoresKept
<1> QED
  BY <1>1, <1>2, <1>3, <1>4, <1>5, <1>6, <1>7, <1>8, <1>9 DEF ServerStep

LEMMA SidecarStepKeepsScores ==
  ASSUME ScoreInv, SidecarStep
  PROVE  OneJob' /\ ScoresAreDated' /\ ComparisonSpansTheFix
<1> USE DEF ScoreInv
<1>1. CASE CloseWindow
  BY <1>1, JobAssumption DEF CloseWindow, OneJob, ScoresAreDated, Scores, NoScores,
     ComparisonSpansTheFix, JobStates, Kinds
<1>2. CASE UNCHANGED jobRecords
  BY <1>2 DEF jobRecords, OneJob, ScoresAreDated, ComparisonSpansTheFix
<1> QED
  BY <1>1, <1>2, AcceptKeepsScores, ServerStepKeepsScores DEF SidecarStep

LEMMA ScoresInit == Init => OneJob /\ ScoresAreDated
BY JobAssumption DEF Init, ServerInit, OneJob, ScoresAreDated, Scores, NoScores, JobStates, Kinds

\* markPendingRecheckIfKnown and checkEventConsumer (gui/server.ts 113-126) under
\* the busy flag: for any number of jobs and of clients that ask for them, the two
\* scores that are compared lie on either side of a fix, and the later one after
\* every fix reported so far.
THEOREM ComparisonsSpanTheFix == Spec => RecheckSpansTheFix
<1>1. Init => Asked /\ FontInv /\ JobInv /\ OneJob /\ ScoresAreDated
  BY FontInvInit, JobInvInit, ScoresInit
<1>2. Asked /\ FontInv /\ JobInv /\ OneJob /\ ScoresAreDated /\ [Next]_vars
        => Asked' /\ FontInv' /\ JobInv' /\ OneJob' /\ ScoresAreDated' /\ ComparisonSpansTheFix
  BY AskedStays, FontSteps, FontStepIsSafe, NextKeepsJobs, SidecarSteps, SidecarStepKeepsScores DEF JobInv, ScoreInv
<1> QED
  BY <1>1, <1>2, PTL DEF Spec, RecheckSpansTheFix, ComparisonSpansTheFix

-----------------------------------------------------------------------------
(* The page: what is disabled, marked or missing, and why it comes back.   *)

Summaries == {"ok", "fail"}
Events == Summaries \cup {"start", "done"}

FixUnderway == \E k \in Fixes : jobs[k] # None
Coming(events) == \E i \in DOMAIN inbox : inbox[i] \in events

\* Every event that disables a control has one on its way that enables it.
ControlsComeBack ==
  disabled => missed \/ fixAsked \in Fixes \/ FixUnderway \/ Coming(Summaries) \/ statusAsked > 0

\* The card says that a fix goes on until its summary has come ...
CardComesBack == fixActive => missed \/ FixUnderway \/ Coming(Summaries)

\* ... which comes after the start.
StartsAreClosed ==
  \A i \in DOMAIN inbox : inbox[i] = "start" =>
    missed \/ FixUnderway \/ \E j \in DOMAIN inbox : j > i /\ inbox[j] \in Summaries

\* Controls that are not on the page come with a check that is to be made.
PageComesBack ==
  \/ rendered \/ missed \/ unchecked \/ server = "down"
  \/ checkHeld \/ checkAsked \/ jobs["check"] # None \/ Coming({"done"})

PageTypes ==
  /\ inbox \in Seq(Events)
  /\ {streaming, missed, rendered, disabled, fixActive, fatal, syncDue, checkAsked, checkDue,
      checkHeld, unchecked} \subseteq BOOLEAN
  /\ server \in {"down", "up"}
  /\ statusAsked \in 0..MaxStatus

\* Without a sidecar nothing happens on the page.
DownIsQuiet ==
  server = "down" =>
    inbox = <<>> /\ statusAsked = 0 /\ runtime = "none" /\ \A k \in Kinds : jobs[k] = None

PageInv ==
  PageTypes /\ DownIsQuiet /\ ControlsComeBack /\ CardComesBack /\ StartsAreClosed /\ PageComesBack


\* What is told is the last event on its way, if the stream is open; otherwise
\* it is missed, if it matters.
LEMMA Told ==
  ASSUME inbox \in Seq(Events), missed \in BOOLEAN, NEW e \in Events, Tell(e)
  PROVE  /\ inbox' \in Seq(Events) /\ missed' \in BOOLEAN /\ UNCHANGED streaming
         /\ missed => missed'
         /\ \/ /\ Len(inbox') = Len(inbox) + 1
               /\ \A i \in 1..Len(inbox) : inbox'[i] = inbox[i]
               /\ inbox'[Len(inbox) + 1] = e
            \/ inbox' = inbox /\ (e = "start" \/ missed')
<1> DEFINE one == <<e>>
<1>1. one \in Seq(Events) /\ Len(one) = 1 /\ one[1] = e
  OBVIOUS
<1>2. CASE streaming
  <2>1. inbox' = inbox \o one /\ UNCHANGED <<streaming, missed>>
    BY <1>2 DEF Tell, Telling
  <2> HIDE DEF one
  <2>2. /\ inbox \o one \in Seq(Events)
        /\ Len(inbox \o one) = Len(inbox) + Len(one)
        /\ \A i \in 1 .. Len(inbox) + Len(one) :
             (inbox \o one)[i] = IF i <= Len(inbox) THEN inbox[i] ELSE one[i - Len(inbox)]
    BY <1>1, ConcatProperties
  <2>3. Len(inbox) \in Nat
    OBVIOUS
  <2>4. \A i \in 1..Len(inbox) : (inbox \o one)[i] = inbox[i]
    BY <1>1, <2>2, <2>3
  <2>5. (inbox \o one)[Len(inbox) + 1] = e
    BY <1>1, <2>2, <2>3
  <2> QED
    BY <1>1, <2>1, <2>2, <2>4, <2>5
<1>3. CASE ~streaming
  <2>1. /\ missed' = (missed \/ \E i \in DOMAIN one : one[i] # "start")
        /\ UNCHANGED <<streaming, inbox>>
    BY <1>3 DEF Tell, Telling
  <2>2. (\E i \in DOMAIN one : one[i] # "start") <=> e # "start"
    OBVIOUS
  <2> HIDE DEF one
  <2> QED
    BY <2>1, <2>2
<1> QED
  BY <1>2, <1>3

\* A step of the sidecar, as the page has it: what was asked for may have begun.
SidecarMoves ==
  /\ UNCHANGED <<controls, statusAsked, server, checkHeld, checkDue, unchecked, streaming>>
  /\ checkAsked' \in BOOLEAN
  /\ fixAsked \in Fixes => fixAsked' \in Fixes \/ FixUnderway'
  /\ checkAsked => checkAsked' \/ jobs'["check"] # None

\* A job that ends tells the page: a fix its summary, a check its end.
LEMMA TellingKeepsPage ==
  ASSUME PageInv, NEW e \in Events, Tell(e), SidecarMoves, server = "up",
         e = "start" => FixUnderway',
         FixUnderway => FixUnderway' \/ e \in Summaries,
         jobs["check"] # None => jobs'["check"] # None \/ e = "done"
  PROVE  PageInv'
<1> USE DEF PageInv, SidecarMoves, controls
<1>1. /\ inbox' \in Seq(Events) /\ missed' \in BOOLEAN
      /\ missed => missed'
  BY Told DEF PageTypes
<1>2. \/ /\ Len(inbox') = Len(inbox) + 1
         /\ \A i \in 1..Len(inbox) : inbox'[i] = inbox[i]
         /\ inbox'[Len(inbox) + 1] = e
      \/ inbox' = inbox /\ (e = "start" \/ missed')
  BY Told DEF PageTypes
<1>3. Coming(Summaries) => Coming(Summaries)'
  BY <1>1, <1>2 DEF Coming, PageTypes
<1>4. Coming({"done"}) => Coming({"done"})'
  BY <1>1, <1>2 DEF Coming, PageTypes
<1>5. e \in Summaries => missed' \/ Coming(Summaries)'
  BY <1>1, <1>2 DEF Coming, PageTypes, Summaries
<1>6. e = "done" => missed' \/ Coming({"done"})'
  BY <1>1, <1>2 DEF Coming, PageTypes
<1>7. PageTypes' /\ DownIsQuiet'
  BY <1>1 DEF PageTypes, DownIsQuiet
<1>8. ControlsComeBack'
  BY <1>1, <1>3, <1>5 DEF ControlsComeBack
<1>9. CardComesBack'
  BY <1>1, <1>3, <1>5 DEF CardComesBack
<1>10. PageComesBack'
  BY <1>1, <1>4, <1>6 DEF PageComesBack
<1>11. StartsAreClosed'
  <2> SUFFICES ASSUME ~missed', ~FixUnderway', NEW i \in DOMAIN inbox', inbox'[i] = "start"
               PROVE  \E j \in DOMAIN inbox' : j > i /\ inbox'[j] \in Summaries
    BY DEF StartsAreClosed
  <2>1. e # "start" /\ Len(inbox') = Len(inbox) + 1 /\ inbox'[Len(inbox) + 1] = e
    BY <1>2 DEF Events, Summaries, StartsAreClosed, PageTypes
  <2>2. i \in 1..Len(inbox) /\ inbox[i] = "start"
    BY <1>1, <1>2, <2>1 DEF PageTypes
  <2>3. CASE e \in Summaries
    BY <1>1, <2>1, <2>2, <2>3 DEF PageTypes
  <2>4. CASE e \notin Summaries
    <3>1. PICK j \in DOMAIN inbox : j > i /\ inbox[j] \in Summaries
      BY <1>1, <2>2, <2>4 DEF StartsAreClosed, PageTypes
    <3> QED
      BY <1>1, <1>2, <2>1, <3>1 DEF PageTypes
  <2> QED
    BY <2>3, <2>4
<1> QED
  BY <1>7, <1>8, <1>9, <1>10, <1>11

\* A step that tells nothing: nothing ends, or it counts as missed.
LEMMA SilenceKeepsPage ==
  ASSUME PageInv, UNCHANGED inbox, SidecarMoves, DownIsQuiet', missed' \in BOOLEAN,
         missed => missed',
         missed' \/ (FixUnderway => FixUnderway'),
         missed' \/ (jobs["check"] # None => jobs'["check"] # None)
  PROVE  PageInv'
<1> USE DEF PageInv, SidecarMoves, controls
<1>1. PageTypes'
  BY DEF PageTypes
<1>2. ControlsComeBack' /\ CardComesBack'
  BY DEF ControlsComeBack, CardComesBack, Coming
<1>3. StartsAreClosed'
  BY DEF StartsAreClosed
<1>4. PageComesBack'
  BY DEF PageComesBack, Coming
<1> QED
  BY <1>1, <1>2, <1>3, <1>4

\* The jobs that are left when one begins or ends.
LEMMA JobsLeft ==
  ASSUME JobTypes, NEW kind \in Kinds, NEW job, jobs' = [jobs EXCEPT ![kind] = job]
  PROVE  /\ job # None /\ kind \in Fixes => FixUnderway'
         /\ job # None \/ kind \notin Fixes => (FixUnderway => FixUnderway')
         /\ job # None \/ kind # "check" => (jobs["check"] # None => jobs'["check"] # None)
         /\ job # None /\ kind = "check" => jobs'["check"] # None
<1>1. jobs'[kind] = job /\ \A k \in Kinds \ {kind} : jobs'[k] = jobs[k]
  BY DEF JobTypes
<1>2. Fixes \subseteq Kinds /\ "check" \in Kinds
  BY DEF Kinds
<1> QED
  BY <1>1, <1>2 DEF FixUnderway

\* Whoever has asked for a job gets it, or a summary at once.
LEMMA AcceptKeepsPage ==
  ASSUME PageInv, JobTypes, NEW kind \in Kinds, Accept(kind),
         UNCHANGED <<controls, statusAsked, checkHeld, checkDue, unchecked>>,
         checkAsked' \in BOOLEAN,
         fixAsked' = fixAsked \/ fixAsked = kind,
         checkAsked' = checkAsked \/ kind = "check"
  PROVE  PageInv'
<1> USE JobAssumption DEF JobStates
<1>1. server = "up" /\ UNCHANGED server
  BY DEF Accept, AcceptFix, AcceptCheck, AcceptFonts, MayStart, Fixes, Kinds
<1>2. DownIsQuiet'
  BY <1>1 DEF DownIsQuiet
<1>3. CASE kind \in Fixes
  <2>1. /\ jobs' = [jobs EXCEPT ![kind] = IF kind = "on" THEN "resolve" ELSE "execute"]
        /\ UNCHANGED stream \/ Tell("start")
    BY <1>3 DEF Accept, AcceptFix, Fixes
  <2>2. (IF kind = "on" THEN "resolve" ELSE "execute") # None
    OBVIOUS
  <2>3. FixUnderway' /\ (jobs["check"] # None => jobs'["check"] # None)
    BY <1>3, <2>1, <2>2, JobsLeft
  <2>4. checkAsked' = checkAsked
    BY <1>3 DEF Fixes
  <2>5. SidecarMoves
    <3>1. UNCHANGED streaming
      BY <2>1, Told DEF PageInv, PageTypes, Events, stream
    <3> QED
      BY <1>1, <2>3, <2>4, <3>1 DEF SidecarMoves
  <2>6. CASE UNCHANGED stream
    BY <1>2, <2>3, <2>5, <2>6, SilenceKeepsPage DEF stream, PageInv, PageTypes
  <2>7. CASE Tell("start")
    BY <1>1, <2>3, <2>5, <2>7, TellingKeepsPage DEF Events
  <2> QED
    BY <2>1, <2>6, <2>7
<1>4. CASE kind = "check"
  <2>1. jobs' = [jobs EXCEPT !["check"] = Informed(intel)] /\ UNCHANGED stream
    BY <1>4 DEF Accept, AcceptCheck, Fixes
  <2>2. Informed(intel) # None
    BY DEF Informed
  <2>3. jobs'["check"] # None /\ (FixUnderway => FixUnderway')
    BY <1>4, <2>1, <2>2, JobsLeft
  <2>4. fixAsked \in Fixes => fixAsked' = fixAsked
    BY <1>4 DEF Fixes
  <2>5. SidecarMoves
    BY <1>1, <2>1, <2>3, <2>4 DEF SidecarMoves, stream
  <2> QED
    BY <1>2, <2>1, <2>3, <2>5, SilenceKeepsPage DEF stream, PageInv, PageTypes
<1>5. CASE kind = "fonts"
  <2>1. AcceptFonts
    BY <1>5 DEF Accept, Fixes
  <2>2. checkAsked' = checkAsked /\ (fixAsked \in Fixes => fixAsked' = fixAsked)
    BY <1>5 DEF Fixes
  <2>3. CASE backups = <<>>
    <3>1. Tell("fail") /\ UNCHANGED jobs
      BY <2>1, <2>3 DEF AcceptFonts
    <3>2. UNCHANGED streaming
      BY <3>1, Told DEF PageInv, PageTypes, Events, Summaries
    <3>3. SidecarMoves
      BY <1>1, <2>2, <3>2 DEF SidecarMoves
    <3> QED
      BY <1>1, <3>1, <3>3, TellingKeepsPage DEF Events, Summaries
  <2>4. CASE backups # <<>>
    <3>1. jobs' = [jobs EXCEPT !["fonts"] = "execute"] /\ UNCHANGED stream
      BY <2>1, <2>4 DEF AcceptFonts
    <3>2. (FixUnderway => FixUnderway') /\ (jobs["check"] # None => jobs'["check"] # None)
      BY <1>5, <3>1, JobsLeft DEF Fixes
    <3>3. SidecarMoves
      BY <1>1, <2>2, <3>1 DEF SidecarMoves, stream
    <3> QED
      BY <1>2, <3>1, <3>2, <3>3, SilenceKeepsPage DEF stream, PageInv, PageTypes
  <2> QED
    BY <2>3, <2>4
<1> QED
  BY <1>3, <1>4, <1>5 DEF Kinds

\* A job that ends with an event of its own.
LEMMA EndKeepsPage ==
  ASSUME PageInv, JobTypes, NEW kind \in Kinds, jobs[kind] # None,
         jobs' = [jobs EXCEPT ![kind] = None],
         NEW e \in Events, Tell(e), UNCHANGED <<server, page>>,
         e # "start",
         kind \in Fixes => e \in Summaries,
         kind = "check" => e = "done"
  PROVE  PageInv'
<1>1. server = "up"
  BY DEF PageInv, DownIsQuiet, PageTypes
<1>2. /\ kind \notin Fixes => (FixUnderway => FixUnderway')
      /\ kind # "check" => (jobs["check"] # None => jobs'["check"] # None)
  BY JobsLeft
<1>3. SidecarMoves
  BY Told DEF SidecarMoves, page, requests, PageInv, PageTypes
<1> QED
  BY <1>1, <1>2, <1>3, TellingKeepsPage

\* A job that goes on.
LEMMA ProgressKeepsPage ==
  ASSUME PageInv, JobTypes, NEW kind \in Kinds, NEW job, job # None \/ jobs[kind] = None,
         jobs[kind] # None \/ job = None,
         jobs' = [jobs EXCEPT ![kind] = job],
         UNCHANGED <<server, page>>,
         runtime = "none" => runtime' = "none",
         \/ UNCHANGED stream
         \/ Tell("start") /\ kind \in Fixes /\ job # None
  PROVE  PageInv'
<1>1. /\ jobs["check"] # None => jobs'["check"] # None
      /\ FixUnderway => FixUnderway'
      /\ job # None /\ kind \in Fixes => FixUnderway'
  <2>1. CASE job # None
    BY <2>1, JobsLeft
  <2>2. CASE job = None
    BY <2>2 DEF JobTypes, FixUnderway, Kinds
  <2> QED
    BY <2>1, <2>2
<1>2. SidecarMoves
  BY Told DEF SidecarMoves, page, requests, stream, PageInv, PageTypes, Events
<1>3. CASE UNCHANGED stream
  <2>1. DownIsQuiet'
    BY <1>3 DEF PageInv, DownIsQuiet, page, requests, stream, JobTypes
  <2> QED
    BY <1>1, <1>2, <1>3, <2>1, SilenceKeepsPage DEF stream, PageInv, PageTypes
<1>4. CASE Tell("start") /\ kind \in Fixes /\ job # None
  <2>1. server = "up"
    BY <1>4 DEF PageInv, DownIsQuiet, PageTypes
  <2> QED
    BY <1>1, <1>2, <1>4, <2>1, TellingKeepsPage DEF Events
<1> QED
  BY <1>3, <1>4

LEMMA ServerStepKeepsPage ==
  ASSUME PageInv, JobTypes, OneJob, ServerStep, UNCHANGED page
  PROVE  PageInv'
<1> USE JobAssumption DEF JobStates
<1>0. Fixes \subseteq Kinds /\ "on" \in Fixes /\ "check" \in Kinds /\ "fonts" \in Kinds
  BY DEF Kinds, Fixes
<1>1. ASSUME NEW failed \in BOOLEAN, ResolveTarget(failed)
      PROVE  PageInv'
  <2>1. jobs["on"] # None /\ UNCHANGED <<server, runtime>>
    BY <1>1 DEF ResolveTarget
  <2>2. CASE failed
    BY <1>0, <1>1, <2>1, <2>2, EndKeepsPage DEF ResolveTarget, TargetUnknown, Release, Events, Summaries
  <2>3. CASE ~failed
    <3>1. jobs' = [jobs EXCEPT !["on"] = "execute"] /\ Tell("start")
      BY <1>1, <2>3 DEF ResolveTarget
    <3> QED
      BY <1>0, <2>1, <3>1, ProgressKeepsPage
  <2> QED
    BY <2>2, <2>3
<1>2. ASSUME NEW failed \in BOOLEAN, NEW kind \in Fixes, EndFix(kind, failed)
      PROVE  PageInv'
  <2>1. /\ jobs[kind] # None /\ UNCHANGED server
        /\ jobs' = [jobs EXCEPT ![kind] = None]
        /\ Tell("ok") \/ Tell("fail")
    BY <1>2 DEF EndFix, Release
  <2>2. kind # "check"
    BY DEF Fixes
  <2> QED
    BY <1>0, <2>1, <2>2, EndKeepsPage DEF Events, Summaries
<1>3. ASSUME NEW ok \in BOOLEAN, EndFonts(ok)
      PROVE  PageInv'
  <2>1. /\ jobs["fonts"] # None /\ UNCHANGED server
        /\ jobs' = [jobs EXCEPT !["fonts"] = None]
        /\ Tell("ok") \/ Tell("fail")
    BY <1>3 DEF EndFonts, Release
  <2>2. "fonts" \notin Fixes
    BY DEF Fixes
  <2> QED
    BY <1>0, <2>1, <2>2, EndKeepsPage DEF Events, Summaries
<1>4. ASSUME NEW failed \in BOOLEAN, IntelArrives(failed)
      PROVE  PageInv'
  <2> DEFINE job == IF jobs["check"] = "waiting"
                    THEN Informed(IF failed THEN "unknown" ELSE "known") ELSE jobs["check"]
  <2>1. jobs' = [jobs EXCEPT !["check"] = job] /\ UNCHANGED <<server, runtime, stream>>
    BY <1>4 DEF IntelArrives
  <2>2. job = None <=> jobs["check"] = None
    BY DEF Informed
  <2> HIDE DEF job
  <2> QED
    BY <1>0, <2>1, <2>2, ProgressKeepsPage
<1>5. CASE StartDetection
  <2>1. /\ jobs["check"] # None /\ jobs' = [jobs EXCEPT !["check"] = "detect"]
        /\ UNCHANGED <<server, runtime, stream>>
    BY <1>5 DEF StartDetection
  <2> QED
    BY <1>0, <2>1, ProgressKeepsPage
<1>6. CASE EndDetection
  <2>1. /\ jobs["check"] # None /\ jobs' = [jobs EXCEPT !["check"] = None]
        /\ Tell("done") /\ UNCHANGED server
    BY <1>6 DEF EndDetection, Release
  <2>2. "check" \notin Fixes
    BY DEF Fixes
  <2> QED
    BY <1>0, <2>1, <2>2, EndKeepsPage DEF Events
<1>7. CASE FailDetection
  <2>1. /\ jobs["check"] # None /\ missed' = TRUE
        /\ UNCHANGED <<server, streaming, inbox>>
    BY <1>7 DEF FailDetection
  <2>2. SidecarMoves
    BY <2>1 DEF SidecarMoves, page, requests, PageInv, PageTypes
  <2>3. DownIsQuiet'
    BY <1>0, <2>1 DEF PageInv, DownIsQuiet
  <2> QED
    BY <2>1, <2>2, <2>3, SilenceKeepsPage
<1>8. CASE RuntimeIsReady
  <2>1. runtime = "creating" /\ UNCHANGED <<server, jobs, stream>>
    BY <1>8 DEF RuntimeIsReady
  <2>2. SidecarMoves
    BY <2>1 DEF SidecarMoves, page, requests, stream, PageInv, PageTypes
  <2>3. DownIsQuiet'
    BY <2>1 DEF PageInv, DownIsQuiet
  <2>4. UNCHANGED <<inbox, missed>> /\ missed' \in BOOLEAN /\ (FixUnderway => FixUnderway')
    BY <2>1 DEF stream, PageInv, PageTypes, FixUnderway
  <2> QED
    BY <2>1, <2>2, <2>3, <2>4, SilenceKeepsPage
<1>9. CASE RuntimeFails
  <2> DEFINE waiting == {k \in Kinds : jobs[k] # None /\ k # "fonts"}
  <2>1. /\ runtime = "creating" /\ UNCHANGED server
        /\ jobs' = [k \in Kinds |-> IF k \in waiting THEN None ELSE jobs[k]]
        /\ IF waiting \cap Fixes # {} THEN Tell("fail")
           ELSE missed' = (missed \/ waiting # {}) /\ UNCHANGED <<streaming, inbox>>
    BY <1>9 DEF RuntimeFails
  <2>2. server = "up"
    BY <2>1 DEF PageInv, DownIsQuiet, PageTypes
  <2>3. CASE waiting \cap Fixes # {}
    <3>1. jobs["check"] = None
      BY <1>0, <2>3 DEF OneJob, Fixes
    <3>2. SidecarMoves
      BY <2>1, <2>3, Told DEF SidecarMoves, page, requests, PageInv, PageTypes, Events, Summaries
    <3> QED
      BY <2>1, <2>2, <2>3, <3>1, <3>2, TellingKeepsPage DEF Events, Summaries
  <2>4. CASE waiting \cap Fixes = {}
    <3>1. ~FixUnderway
      BY <1>0, <2>4 DEF FixUnderway, Fixes
    <3>2. jobs["check"] # None => missed'
      <4>1. jobs["check"] # None => waiting # {}
        BY <1>0
      <4>2. missed' = (missed \/ waiting # {})
        BY <2>1, <2>4
      <4> QED
        BY <4>1, <4>2
    <3>3. SidecarMoves
      BY <2>1, <2>4 DEF SidecarMoves, page, requests, PageInv, PageTypes
    <3>4. missed' \in BOOLEAN /\ (missed => missed') /\ UNCHANGED inbox
      BY <2>1, <2>4 DEF PageInv, PageTypes
    <3>5. DownIsQuiet'
      BY <2>1, <2>2 DEF DownIsQuiet
    <3> QED
      BY <3>1, <3>2, <3>3, <3>4, <3>5, SilenceKeepsPage
  <2> QED
    BY <2>3, <2>4
<1> QED
  BY <1>1, <1>2, <1>3, <1>4, <1>5, <1>6, <1>7, <1>8, <1>9 DEF ServerStep

-----------------------------------------------------------------------------
(* What the page itself does.                                              *)

\* What remains of the stream when an event has been received.
LEMMA Received ==
  ASSUME PageInv, NEW e \in Events, Receive(e)
  PROVE  /\ inbox' \in Seq(Events)
         /\ UNCHANGED <<jobs, server, streaming, fixAsked, checkAsked, checkHeld>>
         /\ server = "up"
         /\ e \notin Summaries => (Coming(Summaries) => Coming(Summaries)')
         /\ e # "done" => (Coming({"done"}) => Coming({"done"})')
         /\ missed' = missed => StartsAreClosed'
         /\ e = "start" /\ missed' = missed => missed' \/ FixUnderway' \/ Coming(Summaries)'
<1> USE DEF PageInv
<1>1. inbox # <<>> /\ inbox[1] = e /\ inbox' = Tail(inbox) /\ inbox \in Seq(Events)
  BY DEF Receive, PageTypes
<1>2. /\ inbox' \in Seq(Events) /\ Len(inbox') = Len(inbox) - 1
      /\ \A i \in 1..Len(inbox') : inbox'[i] = inbox[i + 1]
  BY <1>1, HeadTailProperties
<1>3. Len(inbox) \in Nat \ {0} /\ DOMAIN inbox = 1..Len(inbox) /\ DOMAIN inbox' = 1..Len(inbox')
  BY <1>1, <1>2
<1>4. UNCHANGED <<jobs, server, streaming, fixAsked, checkAsked, checkHeld>>
  BY DEF Receive
<1>5. server = "up"
  BY <1>1 DEF DownIsQuiet, PageTypes
\* Every other event comes one place earlier.
<1>6. ASSUME NEW j \in DOMAIN inbox, j # 1
      PROVE  j - 1 \in DOMAIN inbox' /\ inbox'[j - 1] = inbox[j]
  <2>1. j \in Nat /\ j - 1 \in 1..Len(inbox') /\ (j - 1) + 1 = j
    BY <1>2, <1>3, <1>6
  <2> QED
    BY <1>2, <1>3, <2>1
<1>7. e \notin Summaries => (Coming(Summaries) => Coming(Summaries)')
  BY <1>1, <1>6 DEF Coming
<1>8. e # "done" => (Coming({"done"}) => Coming({"done"})')
  BY <1>1, <1>6 DEF Coming
<1>9. FixUnderway' = FixUnderway
  BY <1>4 DEF FixUnderway
<1>10. ASSUME missed' = missed, NEW i \in DOMAIN inbox', inbox'[i] = "start"
       PROVE  missed' \/ FixUnderway' \/ \E j \in DOMAIN inbox' : j > i /\ inbox'[j] \in Summaries
  <2>1. i + 1 \in DOMAIN inbox /\ inbox[i + 1] = "start"
    BY <1>2, <1>3, <1>10
  <2>2. SUFFICES ASSUME NEW j \in DOMAIN inbox, j > i + 1, inbox[j] \in Summaries
                 PROVE  \E k \in DOMAIN inbox' : k > i /\ inbox'[k] \in Summaries
    BY <1>9, <1>10, <2>1 DEF StartsAreClosed
  <2>3. j - 1 \in DOMAIN inbox' /\ inbox'[j - 1] = inbox[j] /\ j - 1 > i
    BY <1>3, <1>6, <2>2
  <2> QED
    BY <2>2, <2>3
<1>11. ASSUME e = "start", missed' = missed
       PROVE  missed' \/ FixUnderway' \/ Coming(Summaries)'
  <2>1. SUFFICES ASSUME NEW j \in DOMAIN inbox, j > 1, inbox[j] \in Summaries
                 PROVE  Coming(Summaries)'
    BY <1>1, <1>3, <1>9, <1>11 DEF StartsAreClosed
  <2>2. j - 1 \in DOMAIN inbox' /\ inbox'[j - 1] \in Summaries
    BY <1>6, <2>1
  <2> QED
    BY <2>2 DEF Coming
<1>12. missed' = missed => StartsAreClosed'
  BY <1>10 DEF StartsAreClosed
<1> QED
  BY <1>2, <1>4, <1>5, <1>7, <1>8, <1>11, <1>12

LEMMA ReceiveKeepsPage ==
  ASSUME PageInv, ReceiveStart \/ ReceiveSummary \/ ReceiveDone
  PROVE  PageInv'
<1>1. CASE ReceiveStart
  <2>1. /\ Receive("start") /\ fixActive' = TRUE /\ fatal' = FALSE
        /\ UNCHANGED <<runtime, missed, rendered, disabled, syncDue, checkDue, unchecked, statusAsked>>
    BY <1>1 DEF ReceiveStart
  <2>2. /\ inbox' \in Seq(Events)
        /\ UNCHANGED <<jobs, server, streaming, fixAsked, checkAsked, checkHeld>>
        /\ server = "up"
        /\ Coming(Summaries) => Coming(Summaries)'
        /\ Coming({"done"}) => Coming({"done"})'
        /\ StartsAreClosed'
        /\ missed' \/ FixUnderway' \/ Coming(Summaries)'
    BY <2>1, Received DEF Events, Summaries
  <2>3. PageTypes' /\ DownIsQuiet'
    BY <2>1, <2>2 DEF PageInv, PageTypes, DownIsQuiet
  <2>4. FixUnderway' = FixUnderway
    BY <2>2 DEF FixUnderway
  <2>5. ControlsComeBack' /\ CardComesBack' /\ PageComesBack'
    BY <2>1, <2>2, <2>4 DEF PageInv, ControlsComeBack, CardComesBack, PageComesBack
  <2> QED
    BY <2>2, <2>3, <2>5 DEF PageInv
<1>2. CASE ReceiveSummary
  <2>1. PICK e \in Summaries : Receive(e) /\ (e = "ok" \/ UNCHANGED checkDue)
    BY <1>2 DEF ReceiveSummary, Summaries
  <2>2. /\ checkDue' \in BOOLEAN /\ fatal' \in BOOLEAN
        /\ fixActive' = FALSE /\ disabled' = FALSE
        /\ UNCHANGED <<runtime, missed, rendered, syncDue, unchecked, statusAsked>>
    BY <1>2 DEF ReceiveSummary, PageInv, PageTypes
  <2>3. e \in Events /\ e # "done"
    BY DEF Events, Summaries
  <2>4. /\ inbox' \in Seq(Events)
        /\ UNCHANGED <<jobs, server, streaming, fixAsked, checkAsked, checkHeld>>
        /\ server = "up"
        /\ Coming({"done"}) => Coming({"done"})'
        /\ StartsAreClosed'
    BY <2>1, <2>2, <2>3, Received
  <2>5. PageTypes' /\ DownIsQuiet'
    BY <2>2, <2>4 DEF PageInv, PageTypes, DownIsQuiet
  <2>6. ControlsComeBack' /\ CardComesBack' /\ PageComesBack'
    BY <2>2, <2>4 DEF PageInv, ControlsComeBack, CardComesBack, PageComesBack
  <2> QED
    BY <2>4, <2>5, <2>6 DEF PageInv
<1>3. CASE ReceiveDone
  <2>1. /\ Receive("done") /\ rendered' = TRUE /\ syncDue' = FALSE /\ unchecked' = FALSE
        /\ disabled' = (disabled \/ ~rendered)
        /\ UNCHANGED <<missed, fixActive, fatal, checkDue>>
    BY <1>3 DEF ReceiveDone
  <2>2. /\ statusAsked' \in 0..MaxStatus
        /\ statusAsked > 0 => statusAsked' > 0
        /\ ~rendered => statusAsked' > 0
    BY <1>3 DEF ReceiveDone, AskStatus, MaxStatus, PageInv, PageTypes
  <2>3. /\ inbox' \in Seq(Events)
        /\ UNCHANGED <<jobs, server, streaming, fixAsked, checkAsked, checkHeld>>
        /\ server = "up"
        /\ Coming(Summaries) => Coming(Summaries)'
        /\ StartsAreClosed'
    BY <2>1, Received DEF Events, Summaries
  <2>4. disabled' \in BOOLEAN
    BY <2>1
  <2>5. PageTypes' /\ DownIsQuiet'
    BY <2>1, <2>2, <2>3, <2>4 DEF PageInv, PageTypes, DownIsQuiet
  <2>6. FixUnderway' = FixUnderway
    BY <2>3 DEF FixUnderway
  <2>7. disabled' => disabled \/ ~rendered
    BY <2>1
  <2>8. ControlsComeBack'
    BY <2>1, <2>2, <2>3, <2>6, <2>7 DEF PageInv, ControlsComeBack
  <2>9. CardComesBack' /\ PageComesBack'
    BY <2>1, <2>3, <2>6 DEF PageInv, CardComesBack, PageComesBack
  <2> QED
    BY <2>3, <2>5, <2>8, <2>9 DEF PageInv
<1> QED
  BY <1>1, <1>2, <1>3

\* A step that leaves the stream and the jobs alone.
LEMMA ControlsStepKeepsPage ==
  ASSUME PageInv, UNCHANGED <<inbox, missed, jobs, server, fixActive>>,
         {streaming', rendered', disabled', fatal', syncDue', checkAsked', checkDue', checkHeld',
          unchecked'} \subseteq BOOLEAN,
         statusAsked' \in 0..MaxStatus,
         server = "down" => statusAsked' = statusAsked /\ runtime' = runtime,
         disabled' =>
           \/ fixAsked' \in Fixes
           \/ /\ disabled
              /\ fixAsked \in Fixes => fixAsked' \in Fixes
              /\ statusAsked > 0 => statusAsked' > 0,
         rendered \/ unchecked \/ checkHeld \/ checkAsked =>
           rendered' \/ unchecked' \/ checkHeld' \/ checkAsked'
  PROVE  PageInv'
<1> USE DEF PageInv
<1>1. PageTypes'
  BY DEF PageTypes
<1>2. DownIsQuiet'
  BY DEF DownIsQuiet
<1>3. FixUnderway' = FixUnderway /\ Coming(Summaries)' = Coming(Summaries)
      /\ Coming({"done"})' = Coming({"done"})
  BY DEF FixUnderway, Coming
<1>4. ControlsComeBack'
  BY <1>3 DEF ControlsComeBack
<1>5. CardComesBack'
  BY <1>3 DEF CardComesBack
<1>6. PageComesBack'
  BY <1>3 DEF PageComesBack
<1>7. StartsAreClosed'
  BY <1>3 DEF StartsAreClosed
<1> QED
  BY <1>1, <1>2, <1>4, <1>5, <1>6, <1>7

LEMMA PageStepKeepsPage ==
  ASSUME PageInv, JobTypes, Asked, PageStep
  PROVE  PageInv'
<1>1. CASE FixAccepted
  <2>1. fixAsked \in Kinds /\ Accept(fixAsked)
    BY <1>1 DEF FixAccepted, Asked
  <2> QED
    BY <1>1, <2>1, AcceptKeepsPage DEF FixAccepted, PageInv, PageTypes
<1>2. CASE CheckAccepted
  BY <1>2, AcceptKeepsPage DEF CheckAccepted, Kinds
<1>3. CASE OpenStream
  BY <1>3, ControlsStepKeepsPage DEF OpenStream, AttachSse, controls, PageInv, PageTypes
<1>4. CASE StatusArrives
  <2>1. /\ statusAsked > 0 /\ statusAsked' = statusAsked - 1 /\ disabled' = FALSE
        /\ UNCHANGED <<serverVars, rendered, fixActive, fatal, syncDue, fixAsked, checkAsked,
                       checkDue, checkHeld, unchecked>>
    BY <1>4 DEF StatusArrives
  <2>2. statusAsked' \in 0..MaxStatus
    BY <2>1 DEF PageInv, PageTypes, MaxStatus
  <2>3. server # "down"
    BY <2>1 DEF PageInv, DownIsQuiet
  <2>4. UNCHANGED <<inbox, missed, jobs, server, fixActive, streaming>> /\ disabled' \in BOOLEAN
    BY <2>1 DEF serverVars, sidecar, stream
  <2> QED
    BY <2>1, <2>2, <2>3, <2>4, ControlsStepKeepsPage DEF PageInv, PageTypes
<1>5. CASE CheckIsDue
  BY <1>5, ControlsStepKeepsPage
     DEF CheckIsDue, StartCheck, serverVars, sidecar, stream, controls, PageInv, PageTypes
<1>6. CASE FixRefused
  BY <1>6, ControlsStepKeepsPage
     DEF FixRefused, EnabledAgain, serverVars, sidecar, stream, PageInv, PageTypes, Fixes
<1>7. CASE CheckRefused
  BY <1>7, ControlsStepKeepsPage
     DEF CheckRefused, serverVars, sidecar, stream, controls, PageInv, PageTypes
<1> QED
  BY <1>1, <1>2, <1>3, <1>4, <1>5, <1>6, <1>7, ReceiveKeepsPage DEF PageStep

LEMMA WindowKeepsPage ==
  ASSUME PageInv, OpenWindow \/ CloseWindow
  PROVE  PageInv'
<1>1. CASE OpenWindow
  <2>1. /\ server = "down" /\ server' = "up" /\ statusAsked' = statusAsked + 1 /\ checkHeld' = TRUE
        /\ UNCHANGED <<jobs, stream, controls, fixAsked, checkAsked, checkDue, unchecked>>
    BY <1>1 DEF OpenWindow, SpawnSidecar, AskStatus
  <2>2. statusAsked' = 1
    BY <2>1 DEF PageInv, DownIsQuiet
  <2>3. PageTypes' /\ DownIsQuiet'
    BY <2>1, <2>2 DEF PageInv, PageTypes, DownIsQuiet, MaxStatus, stream, controls
  <2>4. ControlsComeBack' /\ CardComesBack' /\ StartsAreClosed' /\ PageComesBack'
    BY <2>1, <2>2 DEF PageInv, ControlsComeBack, CardComesBack, StartsAreClosed, PageComesBack,
       FixUnderway, Coming, stream, controls
  <2> QED
    BY <2>3, <2>4 DEF PageInv
<1>2. CASE CloseWindow
  <2>1. /\ server' = "down" /\ jobs' = [k \in Kinds |-> None] /\ runtime' = "none"
        /\ inbox' = <<>> /\ statusAsked' = 0
        /\ ~streaming' /\ ~missed' /\ ~rendered' /\ ~disabled' /\ ~fixActive' /\ ~fatal' /\ ~syncDue'
        /\ ~checkAsked' /\ ~checkDue' /\ ~checkHeld' /\ ~unchecked'
    BY <1>2 DEF CloseWindow, SidecarIsKilled
  <2>2. /\ {streaming', missed', rendered', disabled', fixActive', fatal', syncDue', checkAsked',
            checkDue', checkHeld', unchecked'} \subseteq BOOLEAN
    BY <1>2 DEF CloseWindow
  <2>3. PageTypes' /\ DownIsQuiet'
    BY <2>1, <2>2 DEF PageTypes, DownIsQuiet, MaxStatus
  <2>4. ControlsComeBack' /\ CardComesBack' /\ StartsAreClosed' /\ PageComesBack'
    BY <2>1 DEF ControlsComeBack, CardComesBack, StartsAreClosed, PageComesBack
  <2> QED
    BY <2>3, <2>4 DEF PageInv
<1> QED
  BY <1>1, <1>2

LEMMA UserStepKeepsPage ==
  ASSUME PageInv, JobTypes, UserStep
  PROVE  PageInv'
<1> USE DEF serverVars, sidecar, stream, controls
<1>1. ASSUME NEW kind \in Fixes, ClickFix(kind)
      PROVE  PageInv'
  BY <1>1, ControlsStepKeepsPage DEF ClickFix, PageInv, PageTypes
<1>2. CASE ClickFonts
  BY <1>2, ControlsStepKeepsPage, FontAssumption DEF ClickFonts, PageInv, PageTypes
<1>3. CASE ClickRefresh
  BY <1>3, ControlsStepKeepsPage DEF ClickRefresh, StartCheck, PageInv, PageTypes
<1>4. ASSUME NEW kind \in Elsewhere, AskedElsewhere(kind)
      PROVE  PageInv'
  <2>1. kind \in Kinds /\ Accept(kind) /\ UNCHANGED page
    BY <1>4, PageAssumption DEF AskedElsewhere
  <2> QED
    BY <2>1, AcceptKeepsPage DEF page, requests, PageInv, PageTypes
<1>5. CASE EarlierVersion
  BY <1>5, ControlsStepKeepsPage DEF EarlierVersion, page, requests, PageInv, PageTypes
<1> QED
  BY <1>1, <1>2, <1>3, <1>4, <1>5, WindowKeepsPage DEF UserStep

\* A stream that breaks has lost what was on its way.
LEMMA BreakKeepsPage ==
  ASSUME PageInv, BreakStream
  PROVE  PageInv'
<1> USE DEF PageInv
<1>1. /\ inbox' = <<>> /\ streaming' = FALSE
      /\ missed' = (missed \/ \E i \in DOMAIN inbox : inbox[i] # "start")
      /\ UNCHANGED <<sidecar, page>>
  BY DEF BreakStream
<1>2. missed' \in BOOLEAN
  BY <1>1
<1>3. missed \/ Coming(Summaries) \/ Coming({"done"}) => missed'
  <2>1. Coming(Summaries) \/ Coming({"done"}) => \E i \in DOMAIN inbox : inbox[i] # "start"
    BY DEF Coming, Summaries
  <2> QED
    BY <1>1, <2>1
<1>4. FixUnderway' = FixUnderway
  BY <1>1 DEF FixUnderway, sidecar
<1>5. PageTypes' /\ DownIsQuiet'
  <2>1. streaming' \in BOOLEAN
    BY <1>1
  <2>2. UNCHANGED <<server, jobs, runtime, rendered, disabled, fixActive, fatal, syncDue, checkAsked,
                    checkDue, checkHeld, unchecked, statusAsked>>
    BY <1>1 DEF sidecar, page, controls, requests
  <2>3. DownIsQuiet'
    BY <1>1, <2>2 DEF DownIsQuiet
  <2>4. {rendered, disabled, fixActive, fatal, syncDue, checkAsked, checkDue, checkHeld,
         unchecked}' \subseteq BOOLEAN
    BY <2>2 DEF PageTypes
  <2>5. inbox' \in Seq(Events)
    BY <1>1
  <2>6. server' \in {"down", "up"} /\ statusAsked' \in 0..MaxStatus'
    BY <2>2 DEF PageTypes, MaxStatus
  <2> QED
    BY <1>2, <2>1, <2>3, <2>4, <2>5, <2>6 DEF PageTypes
<1>6. ControlsComeBack' /\ CardComesBack' /\ PageComesBack'
  BY <1>1, <1>3, <1>4 DEF ControlsComeBack, CardComesBack, PageComesBack, sidecar, page, controls,
     requests
<1>7. StartsAreClosed'
  BY <1>1 DEF StartsAreClosed
<1> QED
  BY <1>5, <1>6, <1>7

LEMMA NextKeepsPage ==
  ASSUME PageInv, JobTypes, OneJob, Asked, [Next]_vars
  PROVE  PageInv'
<1>1. ASSUME UNCHANGED <<sidecar, stream, page>>
      PROVE  PageInv'
  BY <1>1, ControlsStepKeepsPage DEF sidecar, stream, page, controls, requests, PageInv, PageTypes
<1>2. CASE UNCHANGED vars
  BY <1>1, <1>2 DEF vars
<1>3. CASE Outside
  <2>1. CASE IntelExpires /\ UNCHANGED page
    BY <2>1, ControlsStepKeepsPage DEF IntelExpires, stream, page, controls, requests, PageInv, PageTypes
  <2> QED
    BY <1>1, <1>3, <2>1, BreakKeepsPage DEF Outside, Reboot
<1> QED
  BY <1>1, <1>2, <1>3, ServerStepKeepsPage, PageStepKeepsPage, UserStepKeepsPage DEF Next

LEMMA PageInvInit == Init => PageInv
<1> SUFFICES ASSUME Init
             PROVE  PageInv
  OBVIOUS
<1> USE DEF Init, ServerInit, PageInit
<1>1. PageTypes
  <2>1. inbox \in Seq(Events) /\ server \in {"down", "up"} /\ statusAsked \in 0..MaxStatus
    BY DEF MaxStatus
  <2>2. {streaming, missed, rendered, disabled, fixActive, fatal, syncDue, checkAsked, checkDue,
         checkHeld, unchecked} \subseteq BOOLEAN
    OBVIOUS
  <2> QED
    BY <2>1, <2>2 DEF PageTypes
<1>2. DownIsQuiet
  BY DEF DownIsQuiet
<1>3. ControlsComeBack /\ CardComesBack /\ StartsAreClosed /\ PageComesBack
  BY DEF ControlsComeBack, CardComesBack, StartsAreClosed, PageComesBack
<1> QED
  BY <1>1, <1>2, <1>3 DEF PageInv

\* setButtonsDisabled, the cards and the controls of assets/gui/app.js under the
\* events, answers and refusals that enable them: for any number of jobs, clients,
\* failures and broken streams, a page that waits for nothing can be used.
THEOREM QuietPageUsable == Spec => []QuietPageIsUsable
<1>1. Init => Asked /\ FontInv /\ JobInv /\ OneJob /\ ScoresAreDated /\ PageInv
  BY FontInvInit, JobInvInit, ScoresInit, PageInvInit
<1>2. Asked /\ FontInv /\ JobInv /\ OneJob /\ ScoresAreDated /\ PageInv /\ [Next]_vars
        => Asked' /\ FontInv' /\ JobInv' /\ OneJob' /\ ScoresAreDated' /\ PageInv'
  BY AskedStays, FontSteps, FontStepIsSafe, NextKeepsJobs, SidecarSteps, SidecarStepKeepsScores, NextKeepsPage
  DEF JobInv, ScoreInv
<1>3. JobInv /\ PageInv => QuietPageIsUsable
  <2> SUFFICES ASSUME JobInv, PageInv, Quiet
               PROVE  /\ ~busy
                      /\ missed \/ (~disabled /\ ~fixActive)
                      /\ missed \/ rendered \/ unchecked
    BY DEF QuietPageIsUsable
  <2>1. /\ server = "up" /\ jobs = [k \in Kinds |-> None] /\ inbox = <<>>
        /\ fixAsked = None /\ ~checkAsked /\ ~checkHeld /\ statusAsked = 0
    BY DEF Quiet
  <2>2. ~busy
    BY <2>1 DEF JobInv, JobsAreServed
  <2>3. ~FixUnderway /\ ~Coming(Summaries) /\ ~Coming({"done"}) /\ jobs["check"] = None
    BY <2>1 DEF FixUnderway, Coming, Kinds, Fixes
  <2>4. fixAsked \notin Fixes
    BY <2>1, PageAssumption DEF Kinds
  <2> QED
    BY <2>1, <2>2, <2>3, <2>4 DEF PageInv, ControlsComeBack, CardComesBack, PageComesBack
<1> QED
  BY <1>1, <1>2, <1>3, PTL DEF Spec

-----------------------------------------------------------------------------
(* What is counted, and the types of everything.                           *)

\* A fix is counted when it ends, and was counted as begun before.
FixesAreBegun ==
  /\ fixes <= begun
  /\ FixUnderway => fixes < begun

\* A runtime is made once at a time.
OneCreation == creations = IF runtime = "creating" THEN 1 ELSE 0

\* A score that is shown is of this session.
ScoresAreCounted ==
  /\ scores.measured # None => scores.measured <= fixes
  /\ compared = None \/ compared \in [before : 0..fixes, after : 0..fixes]

Counted ==
  /\ begun \in 0..MaxJobs
  /\ faults \in 0..MaxFaults
  /\ FixesAreBegun
  /\ OneCreation
  /\ ScoresAreCounted

\* The records of what was restored and of what was lost; a page asks for what
\* it shows.
RecordTypes ==
  /\ restored \in SUBSET Fonts
  /\ forgotten \in SUBSET Fonts
  /\ fixAsked \in Fixes \cup {"fonts", None}
  /\ call = "restore" => backups # <<>>

\* The bounds.
BoundedStep ==
  /\ UNCHANGED begun \/ Begin
  /\ UNCHANGED faults \/ Fault

\* What may become of the runtime.
RuntimeStep ==
  \/ UNCHANGED <<runtime, creations>>
  \/ AskRuntime
  \/ runtime = "creating" /\ runtime' \in {"ready", "none"} /\ creations' = creations - 1
  \/ runtime' = "none" /\ creations' = 0

LEMMA AcceptCounts ==
  ASSUME NEW kind \in Kinds, Accept(kind)
  PROVE  BoundedStep /\ RuntimeStep
<1> USE DEF BoundedStep, RuntimeStep
<1>1. CASE kind \in Fixes
  <2>1. AcceptFix(kind)
    BY <1>1 DEF Accept, Fixes
  <2> QED
    BY <2>1 DEF AcceptFix
<1>2. CASE kind = "check"
  BY <1>2 DEF Accept, AcceptCheck, Fixes
<1>3. CASE kind = "fonts"
  BY <1>3 DEF Accept, AcceptFonts, Fixes
<1> QED
  BY <1>1, <1>2, <1>3 DEF Kinds

LEMMA ServerStepCounts ==
  ASSUME ServerStep
  PROVE  BoundedStep /\ RuntimeStep
<1> USE DEF BoundedStep, RuntimeStep, MayFail
<1>1. ASSUME NEW failed \in BOOLEAN, ResolveTarget(failed)
      PROVE  BoundedStep /\ RuntimeStep
  BY <1>1 DEF ResolveTarget
<1>2. ASSUME NEW failed \in BOOLEAN, NEW kind \in Fixes, EndFix(kind, failed)
      PROVE  BoundedStep /\ RuntimeStep
  BY <1>2 DEF EndFix
<1>3. ASSUME NEW ok \in BOOLEAN, EndFonts(ok)
      PROVE  BoundedStep /\ RuntimeStep
  BY <1>3 DEF EndFonts, RestoreReturns
<1>4. ASSUME NEW failed \in BOOLEAN, IntelArrives(failed)
      PROVE  BoundedStep /\ RuntimeStep
  BY <1>4 DEF IntelArrives
<1>5. CASE StartDetection \/ EndDetection \/ FailDetection
  BY <1>5 DEF StartDetection, EndDetection, FailDetection
<1>6. CASE RuntimeIsReady \/ RuntimeFails
  BY <1>6 DEF RuntimeIsReady, RuntimeFails
<1> QED
  BY <1>1, <1>2, <1>3, <1>4, <1>5, <1>6 DEF ServerStep

LEMMA ScriptStepCounts ==
  ASSUME ScriptStep
  PROVE  BoundedStep
<1> USE DEF BoundedStep, MayFail
<1>1. ASSUME NEW h \in Scripts, DeleteFonts(h) \/ ScheduleDeletes(h) \/ WriteValues(h) \/ CancelDeletes(h)
      PROVE  BoundedStep
  BY <1>1 DEF DeleteFonts, ScheduleDeletes, WriteValues, CancelDeletes
<1>2. ASSUME NEW h \in Scripts, RemoveValues(h)
      PROVE  BoundedStep
  BY <1>2 DEF RemoveValues
<1>3. ASSUME NEW h \in Scripts, CopyFonts(h)
      PROVE  BoundedStep
  BY <1>3 DEF CopyFonts
<1>4. ASSUME NEW h \in Scripts, ScriptFails(h)
      PROVE  BoundedStep
  BY <1>4 DEF ScriptFails
<1>5. CASE StrayEnds
  BY <1>5 DEF StrayEnds
<1> QED
  BY <1>1, <1>2, <1>3, <1>4, <1>5 DEF ScriptStep

LEMMA PageStepCounts ==
  ASSUME Asked, PageStep
  PROVE  BoundedStep /\ RuntimeStep
<1> USE DEF BoundedStep, RuntimeStep
<1>1. CASE FixAccepted
  BY <1>1, AcceptCounts DEF FixAccepted, Asked
<1>2. CASE CheckAccepted
  BY <1>2, AcceptCounts DEF CheckAccepted, Kinds
<1>3. CASE OpenStream
  BY <1>3 DEF OpenStream
<1>4. CASE ReceiveStart \/ ReceiveSummary
  BY <1>4 DEF ReceiveStart, ReceiveSummary, Receive
<1>5. CASE ReceiveDone
  <2>1. UNCHANGED <<begun, faults>>
    BY <1>5 DEF ReceiveDone, Receive
  <2>2. AskRuntime \/ UNCHANGED <<runtime, creations>>
    BY <1>5 DEF ReceiveDone, AskStatus
  <2> QED
    BY <2>1, <2>2
<1>6. CASE StatusArrives \/ CheckIsDue \/ FixRefused \/ CheckRefused
  BY <1>6 DEF StatusArrives, CheckIsDue, FixRefused, CheckRefused, serverVars, sidecar
<1> QED
  BY <1>1, <1>2, <1>3, <1>4, <1>5, <1>6 DEF PageStep

LEMMA UserStepCounts ==
  ASSUME UserStep
  PROVE  BoundedStep /\ RuntimeStep
<1> USE DEF BoundedStep, RuntimeStep
<1>1. ASSUME NEW kind \in Fixes, ClickFix(kind)
      PROVE  BoundedStep /\ RuntimeStep
  BY <1>1 DEF ClickFix, serverVars, sidecar
<1>2. CASE ClickFonts \/ ClickRefresh
  BY <1>2 DEF ClickFonts, ClickRefresh, serverVars, sidecar
<1>3. ASSUME NEW kind \in Elsewhere, AskedElsewhere(kind)
      PROVE  BoundedStep /\ RuntimeStep
  BY <1>3, AcceptCounts, PageAssumption DEF AskedElsewhere
<1>4. CASE OpenWindow
  BY <1>4 DEF OpenWindow, AskStatus
<1>5. CASE CloseWindow
  BY <1>5 DEF CloseWindow
<1>6. CASE EarlierVersion
  <2>1. UNCHANGED <<runtime, creations>>
    BY <1>6 DEF EarlierVersion, sidecar
  <2>2. CASE StartRemoval \/ BackupFails \/ RunRemoval
    BY <2>1, <2>2 DEF StartRemoval, BackupFails, RunRemoval
  <2>3. CASE RemovalReturns
    BY <2>1, <2>3 DEF RemovalReturns, MayFail
  <2>4. CASE Fault /\ UNCHANGED begun
    BY <2>1, <2>4
  <2> QED
    BY <1>6, <2>2, <2>3, <2>4 DEF EarlierVersion
<1> QED
  BY <1>1, <1>2, <1>3, <1>4, <1>5, <1>6 DEF UserStep

LEMMA NextCounts ==
  ASSUME Asked, [Next]_vars
  PROVE  BoundedStep /\ RuntimeStep
<1> USE DEF BoundedStep, RuntimeStep
<1>1. CASE UNCHANGED vars
  BY <1>1 DEF vars, sidecar
<1>2. CASE ScriptStep /\ UNCHANGED <<sidecar, stream, page>>
  BY <1>2, ScriptStepCounts DEF sidecar
<1>3. CASE Outside
  <2>1. CASE BreakStream \/ IntelExpires \/ Reboot
    BY <2>1 DEF BreakStream, IntelExpires, Reboot, sidecar
  <2>2. ASSUME NEW f \in Fonts, FontAppears(f), UNCHANGED sidecar
        PROVE  BoundedStep /\ RuntimeStep
    BY <2>2 DEF FontAppears, sidecar
  <2> QED
    BY <1>3, <2>1, <2>2 DEF Outside
<1> QED
  BY <1>1, <1>2, <1>3, ServerStepCounts, PageStepCounts, UserStepCounts DEF Next

\* The counters, whatever the step.
LEMMA BoundsStay ==
  ASSUME Counted, BoundedStep, RuntimeStep
  PROVE  /\ begun' \in 0..MaxJobs /\ faults' \in 0..MaxFaults /\ begun <= begun'
         /\ OneCreation'
<1>1. begun' \in 0..MaxJobs /\ faults' \in 0..MaxFaults /\ begun <= begun'
  BY FontAssumption DEF Counted, BoundedStep, Begin, Fault
<1>2. OneCreation'
  BY DEF Counted, OneCreation, RuntimeStep, AskRuntime
<1> QED
  BY <1>1, <1>2

\* A step that ends no fix and measures nothing.
LEMMA CountsKept ==
  ASSUME ScoreInv, Counted, BoundedStep, RuntimeStep, UNCHANGED <<fixes, scores, compared>>,
         FixUnderway' => FixUnderway \/ begun' = begun + 1
  PROVE  Counted'
<1>1. FixesAreBegun'
  BY BoundsStay DEF ScoreInv, ScoresAreDated, Counted, FixesAreBegun
<1>2. ScoresAreCounted'
  BY DEF Counted, ScoresAreCounted
<1> QED
  BY <1>1, <1>2, BoundsStay DEF Counted

LEMMA ServerStepKeepsCounts ==
  ASSUME ScoreInv, Counted, ServerStep, BoundedStep, RuntimeStep
  PROVE  Counted'
<1> USE JobAssumption DEF ScoreInv
<1>1. ASSUME NEW failed \in BOOLEAN, ResolveTarget(failed)
      PROVE  Counted'
  <2>1. jobs["on"] # None /\ UNCHANGED <<fixes, scores, compared>>
    BY <1>1 DEF ResolveTarget, JobStates
  <2>2. FixUnderway
    BY <2>1 DEF FixUnderway, Fixes
  <2> QED
    BY <2>1, <2>2, CountsKept
<1>2. ASSUME NEW failed \in BOOLEAN, NEW kind \in Fixes, EndFix(kind, failed)
      PROVE  Counted'
  <2>1. jobs[kind] # None /\ Release(kind) /\ UNCHANGED <<compared, begun>> /\ kind \in Kinds
    BY <1>2 DEF EndFix, JobStates, Kinds
  <2>2. FixUnderway /\ ~FixUnderway'
    <3>1. \A k \in Kinds : jobs'[k] = None
      BY <2>1, LastJobEnds
    <3> QED
      BY <2>1, <3>1 DEF FixUnderway, Kinds
  <2>3. CASE UNCHANGED <<fixes, scores>>
    BY <2>1, <2>2, <2>3, CountsKept
  <2>4. CASE fixes' = fixes + 1 /\ scores' = MarkRecheck
    <3>1. FixesAreBegun'
      BY <2>1, <2>2, <2>4 DEF Counted, FixesAreBegun, ScoresAreDated
    <3>2. scores'.measured = scores.measured
      BY <2>4 DEF MarkRecheck, ScoresAreDated
    <3>3. ScoresAreCounted'
      BY <2>1, <2>4, <3>2 DEF Counted, ScoresAreCounted, ScoresAreDated, Scores
    <3> QED
      BY <3>1, <3>3, BoundsStay DEF Counted
  <2> QED
    BY <1>2, <2>3, <2>4 DEF EndFix
<1>3. ASSUME NEW ok \in BOOLEAN, EndFonts(ok)
      PROVE  Counted'
  <2>1. jobs["fonts"] # None /\ Release("fonts") /\ UNCHANGED <<fixes, scores, compared>>
    BY <1>3 DEF EndFonts, JobStates
  <2>2. ~FixUnderway'
    BY <2>1, LastJobEnds DEF FixUnderway, Kinds
  <2> QED
    BY <2>1, <2>2, CountsKept
<1>4. ASSUME NEW failed \in BOOLEAN, IntelArrives(failed)
      PROVE  Counted'
  <2>1. /\ \A k \in Fixes : jobs'[k] = jobs[k]
        /\ UNCHANGED <<fixes, scores, compared>>
    BY <1>4 DEF IntelArrives, JobTypes, Kinds, Fixes
  <2> QED
    BY <2>1, CountsKept DEF FixUnderway
<1>5. CASE StartDetection
  <2>1. /\ jobs' = [jobs EXCEPT !["check"] = "detect"]
        /\ scores' = [scores EXCEPT !.measured = fixes]
        /\ UNCHANGED <<fixes, compared>>
    BY <1>5 DEF StartDetection
  <2>2. FixUnderway' = FixUnderway
    BY <2>1 DEF FixUnderway, JobTypes, Kinds, Fixes
  <2>3. FixesAreBegun'
    BY <2>1, <2>2, BoundsStay DEF Counted, FixesAreBegun, ScoresAreDated
  <2>4. ScoresAreCounted'
    BY <2>1 DEF Counted, ScoresAreCounted, ScoresAreDated
  <2> QED
    BY <2>3, <2>4, BoundsStay DEF Counted
<1>6. CASE EndDetection
  <2>1. /\ jobs["check"] = "detect" /\ Release("check") /\ UNCHANGED fixes /\ CompareScores
    BY <1>6 DEF EndDetection
  <2>2. ~FixUnderway'
    BY <2>1, LastJobEnds DEF FixUnderway, Kinds, JobStates
  <2>3. FixesAreBegun'
    BY <2>1, <2>2, BoundsStay DEF Counted, FixesAreBegun, ScoresAreDated
  <2>4. scores'.measured = None
    BY <2>1 DEF CompareScores
  <2>5. compared' = None \/ compared' \in [before : 0..fixes, after : 0..fixes]
    <3>1. CASE scores.pending = None
      BY <2>1, <3>1 DEF CompareScores, Counted, ScoresAreCounted
    <3>2. CASE scores.pending # None
      <4>1. scores.pending \in 0..fixes /\ scores.measured \in 0..fixes
        BY <2>1, <3>2 DEF ScoresAreDated, Scores
      <4>2. compared' = [before |-> scores.pending, after |-> scores.measured]
        BY <2>1, <3>2 DEF CompareScores
      <4> QED
        BY <4>1, <4>2
    <3> QED
      BY <3>1, <3>2
  <2>6. ScoresAreCounted'
    BY <2>1, <2>4, <2>5 DEF ScoresAreCounted
  <2> QED
    BY <2>3, <2>6, BoundsStay DEF Counted
<1>7. CASE FailDetection
  <2>1. /\ jobs["check"] # None /\ Release("check") /\ UNCHANGED <<fixes, compared>>
        /\ scores' = [scores EXCEPT !.measured = None]
    BY <1>7 DEF FailDetection, JobStates
  <2>2. ~FixUnderway'
    BY <2>1, LastJobEnds DEF FixUnderway, Kinds
  <2>3. FixesAreBegun'
    BY <2>1, <2>2, BoundsStay DEF Counted, FixesAreBegun, ScoresAreDated
  <2>4. ScoresAreCounted'
    BY <2>1 DEF Counted, ScoresAreCounted, ScoresAreDated
  <2> QED
    BY <2>3, <2>4, BoundsStay DEF Counted
<1>8. CASE RuntimeIsReady
  BY <1>8, CountsKept DEF RuntimeIsReady, FixUnderway
<1>9. CASE RuntimeFails
  <2>1. /\ \A k \in Kinds : jobs'[k] # None => jobs[k] # None
        /\ UNCHANGED <<fixes, scores, compared>>
    BY <1>9 DEF RuntimeFails
  <2> QED
    BY <2>1, CountsKept DEF FixUnderway, Kinds
<1> QED
  BY <1>1, <1>2, <1>3, <1>4, <1>5, <1>6, <1>7, <1>8, <1>9 DEF ServerStep

LEMMA NextKeepsCounts ==
  ASSUME Asked, ScoreInv, Counted, [Next]_vars
  PROVE  Counted'
<1>1. BoundedStep /\ RuntimeStep
  BY NextCounts
<1>2. ASSUME NEW kind \in Kinds, Accept(kind)
      PROVE  Counted'
  <2>1. UNCHANGED <<fixes, scores, compared>>
    BY <1>2 DEF Accept, AcceptFix, AcceptCheck, AcceptFonts, Kinds, Fixes
  <2>2. begun' = begun + 1
    BY <1>2 DEF Accept, AcceptFix, AcceptCheck, AcceptFonts, Begin, Kinds, Fixes
  <2> QED
    BY <1>1, <2>1, <2>2, CountsKept
<1>3. CASE CloseWindow
  <2>1. /\ fixes' = 0 /\ compared' = None /\ scores'.measured = None
        /\ jobs' = [k \in Kinds |-> None]
    BY <1>3 DEF CloseWindow, NoScores
  <2>2. ~FixUnderway'
    BY <2>1 DEF FixUnderway, Kinds
  <2>3. FixesAreBegun'
    BY <1>1, <2>1, <2>2, BoundsStay DEF FixesAreBegun
  <2>4. ScoresAreCounted'
    BY <2>1 DEF ScoresAreCounted
  <2> QED
    BY <1>1, <2>3, <2>4, BoundsStay DEF Counted
<1>4. CASE UNCHANGED jobRecords
  BY <1>1, <1>4, CountsKept DEF jobRecords, FixUnderway
<1> QED
  BY <1>1, <1>2, <1>3, <1>4, SidecarSteps, ServerStepKeepsCounts DEF SidecarStep

-----------------------------------------------------------------------------
(* The records of the fonts, and what the page asks for.                   *)

LEMMA FontStepKeepsRecords ==
  ASSUME FontInv, RecordTypes, FontStep
  PROVE  /\ restored' \in SUBSET Fonts
         /\ forgotten' \in SUBSET Fonts
         /\ call' = "restore" => backups' # <<>>
<1> USE FontAssumption DEF RecordTypes, Calls
<1>0. call = "remove" /\ ~BackingUp => helpers["own"].names \in SUBSET Fonts
  <2>1. call = "remove" /\ ~BackingUp => helpers["own"] \in ScriptStates
    BY DEF FontInv, FontTypes, CallHasScript, Scripts
  <2> QED
    BY <2>1 DEF ScriptStates
<1>1. CASE StartRemoval \/ BackupFails \/ RunRemoval
  BY <1>1 DEF StartRemoval, BackupFails, RunRemoval, FontInv, CallHasScript
<1>2. CASE RemovalReturns
  BY <1>0, <1>2 DEF RemovalReturns
<1>3. CASE backups # <<>> /\ StartRestore
  BY <1>3 DEF StartRestore, fontRecords
<1>4. ASSUME NEW ok \in BOOLEAN, RestoreReturns(ok)
      PROVE  /\ restored' \in SUBSET Fonts
             /\ forgotten' \in SUBSET Fonts
             /\ call' = "restore" => backups' # <<>>
  <2>1. LatestBackup.files \in SUBSET Fonts
    BY <1>4, NewestBackup DEF RestoreReturns, FontInv, FontTypes, BackupSets
  <2> QED
    BY <1>4, <2>1 DEF RestoreReturns
<1>5. CASE ServiceEnds
  BY <1>0, <1>5 DEF ServiceEnds
<1>6. CASE Reboot
  BY <1>6 DEF Reboot, fontRecords
<1>7. CASE ScriptStep
  <2>1. UNCHANGED <<fontRecords, call>>
    BY <1>7 DEF ScriptStep, DeleteFonts, RemoveValues, ScheduleDeletes, CopyFonts, WriteValues,
       CancelDeletes, ScriptFails, StrayEnds
  <2> QED
    BY <2>1 DEF fontRecords
<1>8. ASSUME NEW f \in Fonts, FontAppears(f)
      PROVE  UNCHANGED <<restored, forgotten, call, backups>>
  BY <1>8 DEF FontAppears, fontRecords
<1>9. CASE UNCHANGED fontVars
  BY <1>9 DEF fontVars, fontRecords
<1> QED
  BY <1>1, <1>2, <1>3, <1>4, <1>5, <1>6, <1>7, <1>8, <1>9 DEF FontStep

LEMMA NextKeepsRecords ==
  ASSUME Asked, FontInv, RecordTypes, [Next]_vars
  PROVE  RecordTypes'
<1>1. FontStep
  BY FontSteps
<1>2. fixAsked' \in Fixes \cup {"fonts", None}
  <2> USE DEF RecordTypes, page, requests, controls
  <2>1. CASE UNCHANGED vars
    BY <2>1 DEF vars
  <2>2. CASE PageStep
    BY <2>2 DEF PageStep, OpenStream, ReceiveStart, ReceiveSummary, ReceiveDone, Receive,
       StatusArrives, CheckIsDue, FixAccepted, FixRefused, CheckAccepted, CheckRefused
  <2>3. CASE UserStep
    <3>1. ASSUME NEW kind \in Fixes, ClickFix(kind) PROVE fixAsked' \in Fixes
      BY <3>1 DEF ClickFix
    <3>2. ASSUME NEW kind \in Elsewhere, AskedElsewhere(kind) PROVE UNCHANGED fixAsked
      BY <3>2 DEF AskedElsewhere
    <3>3. CASE ClickFonts \/ ClickRefresh \/ OpenWindow \/ CloseWindow \/ EarlierVersion
      BY <3>3 DEF ClickFonts, ClickRefresh, OpenWindow, CloseWindow, EarlierVersion
    <3> QED
      BY <2>3, <3>1, <3>2, <3>3 DEF UserStep
  <2>4. CASE Outside
    BY <2>4 DEF Outside, BreakStream, Reboot
  <2> QED
    BY <2>1, <2>2, <2>3, <2>4 DEF Next
<1> QED
  BY <1>1, <1>2, FontStepKeepsRecords DEF RecordTypes

LEMMA CountedInit == Init => Counted /\ RecordTypes
<1> SUFFICES ASSUME Init
             PROVE  Counted /\ RecordTypes
  OBVIOUS
<1> USE FontAssumption DEF Init, FontInit, ServerInit, PageInit
<1>1. ~FixUnderway
  BY DEF FixUnderway, Kinds
<1>2. Counted
  BY <1>1 DEF Counted, FixesAreBegun, OneCreation, ScoresAreCounted, NoScores
<1>3. RecordTypes
  BY DEF RecordTypes, Calls
<1> QED
  BY <1>2, <1>3

LEMMA TypesFit ==
  ASSUME FontInv, JobInv, ScoreInv, PageInv, Counted, RecordTypes
  PROVE  TypeOK
<1> USE DEF FontInv, FontTypes, JobInv, JobTypes, ScoreInv, PageInv, PageTypes, Counted, RecordTypes
<1>1. /\ {installed, scheduled, restored, forgotten, inventory} \subseteq SUBSET Fonts
      /\ {registered, fresh} \subseteq SUBSET FontValues
  OBVIOUS
<1>2. {busy, streaming, missed, rendered, disabled, fixActive, fatal, syncDue, checkAsked, checkDue,
       checkHeld, unchecked} \subseteq BOOLEAN
  OBVIOUS
<1>3. creations \in 0..1
  BY DEF OneCreation
<1>4. fixes \in 0..MaxJobs
  BY FontAssumption DEF FixesAreBegun, ScoresAreDated
<1>5. \A s \in {"last", "pending", "measured"} : scores[s] \in (0..fixes) \cup {None}
  BY DEF ScoresAreCounted, ScoresAreDated, Scores
<1>6. compared = None \/ compared \in [before : 0..fixes, after : 0..fixes]
  BY DEF ScoresAreCounted
<1>7. inbox \in Seq({"start", "ok", "fail", "done"})
  BY DEF Events, Summaries
<1>8. /\ backups \in Seq(BackupSets)
      /\ marker \in Removals
      /\ call \in Calls \cup {None}
      /\ helpers \in [Scripts -> ScriptStates \cup {None}]
  OBVIOUS
<1>9. /\ server \in {"down", "up"}
      /\ jobs \in [Kinds -> JobStates \cup {None}]
      /\ runtime \in {"none", "creating", "ready"}
      /\ intel \in {"none", "asking", "known", "unknown"}
  OBVIOUS
<1>10. /\ fixAsked \in Fixes \cup {"fonts", None}
       /\ statusAsked \in 0..MaxStatus
       /\ begun \in 0..MaxJobs
       /\ faults \in 0..MaxFaults
  OBVIOUS
<1> QED
  BY <1>1, <1>2, <1>3, <1>4, <1>5, <1>6, <1>7, <1>8, <1>9, <1>10 DEF TypeOK

\* The state of gui/server.ts, assets/gui/app.js and fonts/service.ts: for any
\* fonts, bounds and clients every variable keeps its type, and two facts are
\* more than shapes: one runtime is made at a time, and no score is of a fix that
\* was not reported.
THEOREM TypeCorrect == Spec => []TypeOK
<1>1. Init => Asked /\ FontInv /\ JobInv /\ ScoreInv /\ PageInv /\ Counted /\ RecordTypes
  BY FontInvInit, JobInvInit, ScoresInit, PageInvInit, CountedInit DEF JobInv, ScoreInv
<1>2. Asked /\ FontInv /\ JobInv /\ ScoreInv /\ PageInv /\ Counted /\ RecordTypes /\ [Next]_vars
        => Asked' /\ FontInv' /\ JobInv' /\ ScoreInv' /\ PageInv' /\ Counted' /\ RecordTypes'
  <2> SUFFICES ASSUME Asked, FontInv, JobInv, ScoreInv, PageInv, Counted, RecordTypes, [Next]_vars
               PROVE  Asked' /\ FontInv' /\ JobInv' /\ ScoreInv' /\ PageInv' /\ Counted' /\ RecordTypes'
    OBVIOUS
  <2>1. Asked' /\ FontInv' /\ JobInv'
    BY AskedStays, FontSteps, FontStepIsSafe, NextKeepsJobs
  <2>2. ScoreInv'
    BY <2>1, SidecarSteps, SidecarStepKeepsScores DEF JobInv, ScoreInv
  <2>3. PageInv'
    BY NextKeepsPage DEF ScoreInv
  <2>4. Counted' /\ RecordTypes'
    BY NextKeepsCounts, NextKeepsRecords
  <2> QED
    BY <2>1, <2>2, <2>3, <2>4
<1> QED
  BY <1>1, <1>2, TypesFit, PTL DEF Spec
=============================================================================
