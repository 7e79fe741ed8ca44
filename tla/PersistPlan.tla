------------------------------ MODULE PersistPlan ------------------------------
(***************************************************************************)
(* The vocabulary of a persist transaction: the managed settings, the      *)
(* protection targets, the transition planner, the write-ahead journal and *)
(* the durable protection state.  No behaviour is defined here.            *)
(*                                                                         *)
(* A step is its position in ALL_STEP_IDS (persist/steps.ts), so 1 ..      *)
(* NStandard are STANDARD_STEP_IDS, the rest DEEP_ONLY_STEP_IDS and        *)
(* PolicyStep is browser_policies and LanguageStep is user_languages.      *)
(* Production has NSteps = 6, NStandard = 3, PolicyStep = 3 and            *)
(* LanguageStep = 5.                                                       *)
(***************************************************************************)
EXTENDS Integers, FiniteSets

CONSTANTS
  NSteps,      \* how many authorities ALL_STEP_IDS lists
  NStandard,   \* how many of them belong to standard protection
  PolicyStep,  \* the step whose write may be partly denied
  LanguageStep,\* the step whose readback compares base languages only
  Regions,     \* region codes; also stand for the values a region dictates
  UserValues,  \* values only the user puts into a setting
  Partial,     \* what a write that stopped half way leaves in a setting
  Base,        \* the base languages of a value, as a list of languages
  None         \* null / undefined / a missing file

ASSUME PlanAssumption ==
  /\ NSteps \in Nat \ {0}
  /\ NStandard \in 1 .. NSteps
  /\ PolicyStep \in 1 .. NStandard
  /\ LanguageStep \in 1 .. NSteps
  /\ LanguageStep # PolicyStep
  /\ Regions # {}
  /\ Partial \notin Regions \cup UserValues
  /\ None \notin Regions \cup UserValues \cup {Partial}

-----------------------------------------------------------------------------
(* Settings and targets.                                                   *)

Steps == 1 .. NSteps
Standard == 1 .. NStandard
DeepOnly == Steps \ Standard

Values == Regions \cup UserValues \cup {Partial}
Settings == [Steps -> Values]

\* What the readback of step s accepts after v was written: v itself, except
\* that a language list may come back as any list of the same base languages
\* (Windows folds ja-JP into ja where the language pack is missing), and that
\* a removed list may come back as an empty one.
Accepted(s, v) == {w \in Values : w = v \/ (s = LanguageStep /\ Base[w] = Base[v])}

Targets == [mode : {"standard", "deep"}, region : Regions]

\* The steps a target manages.
ManagedSteps(target) == IF target.mode = "deep" THEN Steps ELSE Standard

\* The value a target dictates for every step; only the region matters.
DesiredValues(target) == [s \in Steps |-> target.region]

-----------------------------------------------------------------------------
(* The planner.  A step is applied, restored to its daily value, left      *)
(* alone because it is aligned already ("noop"), or not part of the plan.  *)

IsDownshift(from, target) ==
  from # None /\ from.mode = "deep" /\ target.mode = "standard"

PlanTransition(from, target, current) ==
  [s \in Steps |->
     CASE s \in ManagedSteps(target) /\ current[s] = DesiredValues(target)[s] -> "noop"
       [] s \in ManagedSteps(target) /\ current[s] # DesiredValues(target)[s] -> "apply"
       [] s \notin ManagedSteps(target) /\ IsDownshift(from, target) -> "restore"
       [] OTHER -> "absent"]

\* The steps that are journalled and written.
PlannedSteps(plan) == {s \in Steps : plan[s] \in {"apply", "restore"}}

IsNoopPlan(from, target, plan) == from = target /\ PlannedSteps(plan) = {}

\* Mutant of EffectiveDesired: the overlay of the daily values is forgotten.
DesiredEverywhere(target, plan, daily) == DesiredValues(target)

\* What each planned step is to hold: the target's value, or the daily one
\* for the deep-only steps of a downshift.
EffectiveDesired(target, plan, daily) ==
  [s \in Steps |-> IF plan[s] = "restore" THEN daily[s] ELSE DesiredValues(target)[s]]

-----------------------------------------------------------------------------
(* The journal: a phase per step, plus the backup_cleanup step of a        *)
(* restore transaction, and the state to return to.  "absent" marks a step *)
(* the plan does not contain.                                              *)

Cleanup == NSteps + 1
JournalSteps == 1 .. Cleanup

Phases == {"planned", "applying", "verified",
           "compensating", "compensated", "recovery_required"}

Healths == {"healthy", "degraded", "recovery_required"}

Previous == [target : Targets \cup {None}, preferred : Regions, health : Healths]

Journals(Ids) ==
  [txid : Ids, kind : {"protect", "restore"},
   phase : [JournalSteps -> Phases \cup {"absent"}], previous : Previous]

\* Mutant of LegalTransitions: recovery_required is a final phase.
TransitionsWithoutReopening(phase) ==
  CASE phase = "planned"           -> {"applying", "compensated", "recovery_required"}
    [] phase = "applying"          -> {"verified", "compensating", "recovery_required"}
    [] phase = "verified"          -> {"applying", "compensating", "recovery_required"}
    [] phase = "compensating"      -> {"compensated", "recovery_required"}
    [] OTHER                       -> {}

LegalTransitions(phase) ==
  CASE phase = "planned"           -> {"applying", "compensated", "recovery_required"}
    [] phase = "applying"          -> {"verified", "compensating", "recovery_required"}
    [] phase = "verified"          -> {"applying", "compensating", "recovery_required"}
    [] phase = "compensating"      -> {"compensated", "recovery_required"}
    [] phase = "recovery_required" -> {"applying", "compensating"}
    [] OTHER                       -> {}

NewJournal(txid, kind, steps, previous) ==
  [txid |-> txid, kind |-> kind, previous |-> previous,
   phase |-> [s \in JournalSteps |-> IF s \in steps THEN "planned" ELSE "absent"]]

\* recoveryAction(journal) = 'none'
IsSettled(j) ==
  \A s \in JournalSteps : j.phase[s] \in {"absent", "verified", "compensated"}

-----------------------------------------------------------------------------
(* state.json.  The degradation list is non-empty exactly when health is   *)
(* "degraded" (isProtectionState), so the list itself is left out.         *)

States(Ids) ==
  [target : Targets \cup {None}, preferred : Regions, health : Healths,
   active : Ids \cup {None}]

ProtectionState(previous, health, active) ==
  [target |-> previous.target, preferred |-> previous.preferred,
   health |-> health, active |-> active]

DailyState(preferred, health, active) ==
  [target |-> None, preferred |-> preferred, health |-> health, active |-> active]

PreviousOf(st) ==
  [target |-> st.target, preferred |-> st.preferred, health |-> st.health]
=============================================================================
