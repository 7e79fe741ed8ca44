-------------------------- MODULE BackupSnapshotProofs --------------------------
(***************************************************************************)
(* A backup stands for the settings it was made from.                      *)
(***************************************************************************)
EXTENDS BackupSnapshot, TLAPS

\* A single value survives both notations.
LEMMA ScalarKept ==
  ASSUME NEW S, Null \notin S, NEW v \in Stored(S)
  PROVE  MissingIfNull(Scalar(v)) = v /\ Scalar(v) = v
BY DEF Stored, StoredMissing, StoredValue, MissingIfNull, Scalar

\* A policy is a value of type REG_SZ or missing, and null is read back as null.
LEMMA PolicyKept ==
  ASSUME NEW v \in Texts \cup {Null}
  PROVE  /\ PolicyValue(v) \in Stored(RegistryValues)
         /\ PolicyValue(v).kind = "value" => PolicyValue(v).value.registryType = "REG_SZ"
         /\ DailyPolicy(PolicyValue(v)) = v
<1>1. CASE v = Null
  BY <1>1 DEF PolicyValue, Stored, StoredMissing, DailyPolicy
<1>2. CASE v # Null
  <2> DEFINE r == [registryType |-> "REG_SZ", value |-> v]
  <2>1. PolicyValue(v) = StoredValue(r)
    BY <1>2 DEF PolicyValue
  <2>2. r \in RegistryValues
    BY <1>2 DEF RegistryValues
  <2>3. StoredValue(r).kind = "value" /\ StoredValue(r).value = r
    BY DEF StoredValue
  <2> QED
    BY <2>1, <2>2, <2>3 DEF Stored, DailyPolicy
<1> QED
  BY <1>1, <1>2

\* So does a variable, in the notation of a new backup and in that of a migrated
\* one.
LEMMA VariableKept ==
  ASSUME NEW v
  PROVE  /\ DailyVariable(StoredValue(v)) = v
         /\ DailyVariable(EnvironmentValue(v)) = v
BY DEF DailyVariable, EnvironmentValue, StoredValue, StoredMissing

\* createBackupSnapshotV4 never rejects what the authorities have read, and
\* restore never meets a policy it cannot write.
THEOREM SnapshotIsValid ==
  ASSUME NEW values \in Captured
  PROVE  CreateBackupSnapshot(values) \in Authorities /\ Supported(CreateBackupSnapshot(values))
<1> DEFINE a == CreateBackupSnapshot(values)
<1>1. PICK e \in [Variables -> Texts \cup {Null}] : values.environment = StoredValue(e)
  BY DEF Captured
<1>2. PICK p \in [Slots -> Texts \cup {Null}] : values.browser_policies = StoredValue(p)
  BY DEF Captured
<1>3. a.environment \in [Variables -> Stored(Texts \cup {Null})]
  BY <1>1 DEF CreateBackupSnapshot, StoredValue, Stored
<1>4. \A s \in Slots : a.browserPolicies[s] = PolicyValue(p[s])
  BY <1>2 DEF CreateBackupSnapshot, StoredValue
<1>5. a.browserPolicies \in [Slots -> Stored(RegistryValues)]
  <2>1. a.browserPolicies = [s \in Slots |-> PolicyValue(p[s])]
    BY <1>2 DEF CreateBackupSnapshot, StoredValue
  <2> QED
    BY <2>1, PolicyKept
<1>6. Supported(a)
  BY <1>4, PolicyKept DEF Supported
<1>7. /\ a.systemTimezone = values.system_timezone
      /\ a.localeName = values.locale_name
      /\ a.culture = values.user_culture
  BY NotationAssumption, ScalarKept DEF CreateBackupSnapshot, Captured, Tags
<1>8. a.userLanguageList = values.user_languages
  BY NotationAssumption, ScalarKept DEF CreateBackupSnapshot, Captured
<1>9. Stored(Tags) \subseteq Stored(Texts \cup {Null}) /\ Stored(Lists) \subseteq Stored(Lists \cup {Null})
  BY DEF Stored, Tags
<1>10. a \in Authorities
  BY <1>3, <1>5, <1>7, <1>8, <1>9 DEF CreateBackupSnapshot, Authorities, Captured
<1> QED
  BY <1>6, <1>10

\* What restore writes is what protect has read, for every setting and whether it
\* was set or not: through a backup nothing is lost, invented or turned from
\* missing into empty.
THEOREM RestoredAsCaptured ==
  ASSUME NEW values \in Captured
  PROVE  DailyValues(CreateBackupSnapshot(values)) = values
<1> DEFINE a == CreateBackupSnapshot(values)
<1> DEFINE d == DailyValues(a)
<1>1. PICK e \in [Variables -> Texts \cup {Null}] : values.environment = StoredValue(e)
  BY DEF Captured
<1>2. PICK p \in [Slots -> Texts \cup {Null}] : values.browser_policies = StoredValue(p)
  BY DEF Captured
<1>3. d.environment = values.environment
  <2>1. \A k \in Variables : a.environment[k] = StoredValue(e[k])
    BY <1>1 DEF CreateBackupSnapshot, StoredValue
  <2>2. d.environment = StoredValue([k \in Variables |-> e[k]])
    BY <2>1, VariableKept DEF DailyValues
  <2> QED
    BY <1>1, <2>2
<1>4. d.browser_policies = values.browser_policies
  <2>1. \A s \in Slots : a.browserPolicies[s] = PolicyValue(p[s])
    BY <1>2 DEF CreateBackupSnapshot, StoredValue
  <2>2. d.browser_policies = StoredValue([s \in Slots |-> p[s]])
    BY <2>1, PolicyKept DEF DailyValues
  <2> QED
    BY <1>2, <2>2
<1>5. /\ d.system_timezone = values.system_timezone
      /\ d.locale_name = values.locale_name
      /\ d.user_culture = values.user_culture
  BY NotationAssumption, ScalarKept DEF CreateBackupSnapshot, DailyValues, Captured, Tags
<1>6. d.user_languages = values.user_languages
  BY NotationAssumption, ScalarKept DEF CreateBackupSnapshot, DailyValues, Captured
<1> QED
  BY <1>3, <1>4, <1>5, <1>6 DEF DailyValues, Captured

\* A migrated backup brings back what the version 3 backup says, though it notes a
\* variable that was not set in another way than a new backup does.
THEOREM MigratedAsWritten ==
  ASSUME NEW b \in LegacyBackups, Complete(b)
  PROVE  /\ DailyValues(ParseLegacyBackup(b)) = Facts(b)
         /\ Supported(ParseLegacyBackup(b))
<1> DEFINE a == ParseLegacyBackup(b)
<1> DEFINE d == DailyValues(a)
<1>1. \A k \in Variables : b.previous[k] \in Texts \cup {Null}
  BY DEF LegacyBackups, Complete
<1>2. \A s \in Slots : b.previousBrowserPolicies[s] \in Texts \cup {Null}
  BY DEF LegacyBackups, Complete
<1>3. d.environment = StoredValue(b.previous)
  <2>1. \A k \in Variables : a.environment[k] = EnvironmentValue(b.previous[k])
    BY DEF ParseLegacyBackup
  <2>2. \A k \in Variables : DailyVariable(a.environment[k]) = b.previous[k]
    BY <2>1, VariableKept
  <2>3. b.previous = [k \in Variables |-> b.previous[k]]
    BY DEF LegacyBackups
  <2> QED
    BY <2>2, <2>3 DEF DailyValues
<1>4. \A s \in Slots : a.browserPolicies[s] = PolicyValue(b.previousBrowserPolicies[s])
  BY DEF ParseLegacyBackup
<1>5. d.browser_policies = StoredValue(b.previousBrowserPolicies)
  <2>1. b.previousBrowserPolicies = [s \in Slots |-> b.previousBrowserPolicies[s]]
    BY DEF LegacyBackups
  <2> QED
    BY <1>2, <1>4, <2>1, PolicyKept DEF DailyValues
<1>6. Supported(a)
  BY <1>2, <1>4, PolicyKept DEF Supported
<1>7. \A v \in Texts \cup Lists : MissingIfNull(StoredValue(v)) = StoredValue(v)
  BY NotationAssumption DEF MissingIfNull, StoredValue
<1>8. /\ d.system_timezone = StoredValue(b.previousSystemTimezone)
      /\ d.locale_name = StoredValue(b.previousLocaleName)
      /\ d.user_languages = StoredValue(b.previousUserLanguages)
      /\ d.user_culture = StoredValue(b.previousUserCulture)
  BY <1>7 DEF DailyValues, ParseLegacyBackup, Complete, Tags
<1>9. d = Facts(b)
  BY <1>3, <1>5, <1>8 DEF DailyValues, Facts
<1> QED
  BY <1>6, <1>9
=============================================================================
