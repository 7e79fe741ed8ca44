------------------------------- MODULE Commands -------------------------------
(***************************************************************************)
(* The command line (index.ts): which region and target a command asks     *)
(* for, and the exit code that scripts and the installer act on.  Commands *)
(* keep no state: an answer is a function of the options, of what the      *)
(* calls threw, and of what the transaction module returned.  None stands  *)
(* for an option that is not given and for a call that did not throw.      *)
(***************************************************************************)
EXTENDS PersistTransaction

-----------------------------------------------------------------------------
(* Exit codes, cli/exit-codes.ts and persist/preflight.ts.                 *)

ExitOk == 0
ExitDegraded == 2
ExitInvalidInput == 10
ExitBusy == 20
ExitRecoveryRequired == 21
ExitCompensated == 22
ExitIncompleteRecovery == 23
ExitStateInvalid == 24
ExitInternal == 30
PreflightBlocked == 43

Error(class, code) == [class |-> class, code |-> code]

StateValidationCodes ==
  {"INVALID_STATE", "INVALID_BACKUP", "STATE_MISSING", "STATE_ALREADY_EXISTS", "STATE_CORRUPT",
   "BACKUP_CORRUPT", "BACKUP_ALREADY_EXISTS", "BACKUP_MISSING", "REVISION_MISMATCH",
   "BACKUP_IDENTITY_MISMATCH", "RESTORE_PROOF_INVALID", "RESTORE_VERIFIER_REQUIRED"}

\* The reasons of a failed migration that blame what it read.
UnreadableReasons ==
  {"state_read_failed", "legacy_corrupt_json", "legacy_unknown_schema", "legacy_invalid_shape"}

\* The code of a PersistRuntime error INITIALIZATION_FAILED is its reason here.
ClassifyError(e) ==
  CASE e.class \in {"InvalidCommand", "RegionResolution", "ProtectionRequest"} -> ExitInvalidInput
    [] e = Error("PersistApplication", "REGION_SET_REQUIRES_DAILY") -> ExitInvalidInput
    [] e.class = "MutationBusy" -> ExitBusy
    [] \/ e.class = "MutationRecoveryRequired"
       \/ e.class \in {"PersistApplication", "Repository"} /\ e.code = "RECOVERY_REQUIRED"
       \/ e = Error("PersistRuntime", "MIGRATION_RECOVERY_REQUIRED") -> ExitRecoveryRequired
    [] \/ e.class = "Repository" /\ e.code \in StateValidationCodes
       \/ e.class = "PersistRuntime" /\ e.code \in UnreadableReasons -> ExitStateInvalid
    [] OTHER -> ExitInternal

Outcomes0 == {"noop", "updated", "committable", "restored", "recovered"}

ExitOfOutcome(kind) ==
  CASE kind \in Outcomes0 -> ExitOk
    [] kind = "degraded" -> ExitDegraded
    [] kind = "compensated" -> ExitCompensated
    [] kind = "recovery_required" -> ExitIncompleteRecovery

\* What throws first decides: f is only called when e did not throw.
Before(e, f) == IF e # None THEN e ELSE f

\* The top-level catch: a code for what was thrown, or else for the outcome.
Exit(e, kind) == IF e # None THEN ClassifyError(e) ELSE ExitOfOutcome(kind)

-----------------------------------------------------------------------------
(* What is asked for, domain/region.ts and domain/protection.ts.           *)

\* "us", the first of REGION_CODES.
InitialRegion == CHOOSE region \in Regions : TRUE

\* The first region that is given.
ResolveRegion(explicit, active, preferred) ==
  CASE explicit # None -> explicit
    [] explicit = None /\ active # None -> active
    [] explicit = None /\ active = None /\ preferred # None -> preferred
    [] explicit = None /\ active = None /\ preferred = None -> InitialRegion

\* One that is no region is refused, not passed over.
RegionError(region) ==
  IF region \in Regions \cup {None} THEN None ELSE Error("RegionResolution", "INVALID_REGION")

LevelError(level, deep) ==
  CASE level \notin {None, "standard", "deep"} -> Error("ProtectionRequest", "INVALID_PROTECTION_LEVEL")
    [] level = "standard" /\ deep -> Error("ProtectionRequest", "CONFLICTING_PROTECTION_LEVEL")
    [] OTHER -> None

\* --deep decides, then --level, then the mode that is on.
ResolveProtectionRequest(mode, region, level, deep) ==
  [mode |-> CASE deep -> "deep"
              [] ~deep /\ level # None -> level
              [] ~deep /\ level = None -> IF mode = "daily" THEN "standard" ELSE mode,
   region |-> region]

\* check and run: what is on, or preferred, if the state can be read.
DetectionRegion(explicit, st) ==
  IF st = None THEN ResolveRegion(explicit, None, None)
  ELSE ResolveRegion(explicit, IF st.target = None THEN None ELSE st.target.region, st.preferred)

-----------------------------------------------------------------------------
(* The status, and the commands.                                           *)

Mode(st) == IF st.target = None THEN "daily" ELSE st.target.mode

\* status() throws while the journal cannot be read.
StatusError == IF Readable THEN None ELSE Error("DurableFile", "CORRUPT")

\* persist on, with the status st it reads before it asks for the lock.
PersistOnTarget(options, st) ==
  ResolveProtectionRequest(Mode(st), DetectionRegion(options.region, st), options.level, options.deep)

\* Its status afterwards is read before its result is looked at.
PersistOnExit(options, opened, protected, after, kind) ==
  Exit(Before(RegionError(options.region),
         Before(opened,
           Before(LevelError(options.level, options.deep),
             Before(protected, after)))), kind)

\* persist off and persist recover look at the result first.
PersistOffExit(opened, restored, after, kind) ==
  Exit(Before(opened, Before(restored, IF kind = "recovery_required" THEN None ELSE after)), kind)

PersistRecoverExit(opened, recovered, after, kind) ==
  Exit(Before(opened, Before(recovered, IF kind = "recovery_required" THEN None ELSE after)), kind)

\* persist status, region status.
StatusExit(opened) == Exit(opened, "noop")

RegionSetExit(region, opened, changed, after, kind) ==
  Exit(Before(RegionError(region), Before(opened, Before(changed, after))), kind)

\* The installer replaces files only when nothing is left to recover.
InstallerPreflight ==
  IF Health # "recovery_required" /\ ~Unfinished /\ state.active = None THEN ExitOk
  ELSE PreflightBlocked

PreflightExit(opened) == IF opened # None THEN ClassifyError(opened) ELSE InstallerPreflight

CheckExit(region, detected) == Exit(Before(RegionError(region), detected), "noop")

\* The child's own code, never a success when a signal ended it.
ChildExit(code, signal) ==
  IF code # None THEN code
  ELSE 128 + (CASE signal = "SIGHUP" -> 1 [] signal = "SIGINT" -> 2 [] signal = "SIGQUIT" -> 3
                [] signal = "SIGABRT" -> 6 [] signal = "SIGKILL" -> 9 [] signal = "SIGTERM" -> 15
                [] OTHER -> 1)

\* Claude Desktop is looked for in three places.
RunExit(region, desktop, installed, command, spawned, child) ==
  LET missing == IF ~desktop /\ command = None THEN Error("InvalidCommand", None) ELSE None
      e == Before(RegionError(region), Before(missing, spawned))
  IN IF e # None THEN ClassifyError(e)
     ELSE IF desktop /\ ~installed THEN 1 ELSE child

\* The port is parsed with parseInt; None is no number.
GuiExit(port) == IF port \in 1 .. 65535 THEN ExitOk ELSE ClassifyError(Error("InvalidCommand", None))

\* commander throws for --help and --version too, with code 0.
ParseExit(code) == IF code = 0 THEN ExitOk ELSE ClassifyError(Error("InvalidCommand", None))

-----------------------------------------------------------------------------
(* What the command gets whose operation ends with this step.  A durable   *)
(* write that fails is thrown, and a crash leaves nobody to answer.        *)

Returned == pc # "idle" /\ pc' = "idle" /\ faults' = faults

\* Mutant of Outcome: what could not be undone is not looked at.
OutcomeUnchecked ==
  CASE pc = "complete" -> IF degraded THEN "degraded" ELSE "committable"
    [] pc = "publish_previous" -> IF Recovering THEN "recovered" ELSE "compensated"
    [] pc = "complete_daily" -> IF Recovering THEN "recovered" ELSE "restored"
    [] pc = "fail_cleanup" -> "recovery_required"

Outcome ==
  CASE pc = "complete" -> IF degraded THEN "degraded" ELSE "committable"
    [] pc = "publish_previous" /\ failed -> "recovery_required"
    [] pc = "publish_previous" /\ ~failed -> IF Recovering THEN "recovered" ELSE "compensated"
    [] pc = "complete_daily" -> IF Recovering THEN "recovered" ELSE "restored"
    [] pc = "fail_cleanup" -> "recovery_required"

\* Its exit code, the options being in order.
ExitCode ==
  CASE op.kind = "protect" ->
         PersistOnExit([region |-> op.target.region, level |-> op.target.mode, deep |-> FALSE],
                       None, None, StatusError', Outcome)
    [] op.kind = "restore" -> PersistOffExit(None, None, StatusError', Outcome)
    [] op.kind = "recover" -> PersistRecoverExit(None, None, StatusError', Outcome)

\* The table of exit codes, as far as it speaks of what was left behind: after 0
\* nothing is open and the installer may go ahead, if recovery did not have to read
\* an older generation of the journal, which may lag behind the restore; after 2
\* the protection is on and known to be incomplete; after 22 the old target
\* stands; after 23 the status tells everybody to recover.
ExitCodesAreTrue ==
  [][Returned =>
       /\ (ExitCode = ExitOk /\ Intact) => InstallerPreflight' = ExitOk
       /\ ExitCode = ExitDegraded => state'.target = op.target /\ Health' = "degraded"
       /\ ExitCode = ExitCompensated => state'.target = op.base.target
       /\ ExitCode = ExitIncompleteRecovery => Health' = "recovery_required"]_vars
=============================================================================
