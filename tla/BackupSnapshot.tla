----------------------------- MODULE BackupSnapshot -----------------------------
(***************************************************************************)
(* The user's settings in three notations: as the authorities read and     *)
(* write them, as the backup keeps them (persist/backup-mapper.ts,         *)
(* state/schema.ts), and as a version 3 backup kept them                   *)
(* (state/migration.ts).  What is not set is `missing' in one, null in     *)
(* another and a missing key in none, and differently for a variable, a    *)
(* policy and a single value.                                              *)
(*                                                                         *)
(* The transactions and the state directory take a backup for the settings *)
(* it was made from; the theorems show that they may.                      *)
(***************************************************************************)
CONSTANTS
  Texts,   \* strings
  Empty,   \* the empty one
  Lists,   \* lists of languages
  Slots,   \* BROWSER_POLICY_SLOTS
  Null,    \* JSON's null
  Absent   \* no such key

ASSUME NotationAssumption ==
  /\ Empty \in Texts
  /\ Null \notin Texts \cup Lists
  /\ Absent \notin Texts \cup Lists \cup {Null}

Variables == {"TZ", "LANG", "LC_ALL"}

StoredMissing == [kind |-> "missing"]
StoredValue(v) == [kind |-> "value", value |-> v]
Stored(S) == {StoredMissing} \cup {StoredValue(v) : v \in S}

\* What the authorities read: the profiles of variables and policies are always
\* values, and a single value is never empty.
Tags == Texts \ {Empty}
Captured ==
  [environment : {StoredValue(e) : e \in [Variables -> Texts \cup {Null}]},
   system_timezone : Stored(Tags),
   browser_policies : {StoredValue(p) : p \in [Slots -> Texts \cup {Null}]},
   locale_name : Stored(Tags),
   user_languages : Stored(Lists),
   user_culture : Stored(Tags)]

\* isBackupSnapshotV4, as far as the settings go: it lets pass registry values of
\* every type.
RegistryValues == [registryType : {"REG_SZ", "other"}, value : Texts]
Authorities ==
  [environment : [Variables -> Stored(Texts \cup {Null})],
   systemTimezone : Stored(Texts \cup {Null}),
   browserPolicies : [Slots -> Stored(RegistryValues)],
   localeName : Stored(Texts \cup {Null}),
   userLanguageList : Stored(Lists \cup {Null}),
   culture : Stored(Texts \cup {Null})]

PolicyValue(v) ==
  IF v = Null THEN StoredMissing ELSE StoredValue([registryType |-> "REG_SZ", value |-> v])

Scalar(v) == IF v.kind = "missing" THEN StoredMissing ELSE StoredValue(v.value)

CreateBackupSnapshot(values) ==
  [environment |-> [k \in Variables |-> StoredValue(values.environment.value[k])],
   systemTimezone |-> Scalar(values.system_timezone),
   browserPolicies |-> [s \in Slots |-> PolicyValue(values.browser_policies.value[s])],
   localeName |-> Scalar(values.locale_name),
   userLanguageList |-> Scalar(values.user_languages),
   culture |-> Scalar(values.user_culture)]

MissingIfNull(v) ==
  IF v.kind = "missing" THEN StoredMissing
  ELSE IF v.value = Null THEN StoredMissing ELSE StoredValue(v.value)

\* backupSnapshotToDailyValues throws for a policy of another registry type.
Supported(a) ==
  \A s \in Slots :
    a.browserPolicies[s].kind = "value" => a.browserPolicies[s].value.registryType = "REG_SZ"

DailyVariable(v) == IF v.kind = "missing" THEN Null ELSE v.value
DailyPolicy(v) == IF v.kind = "missing" THEN Null ELSE v.value.value

DailyValues(a) ==
  [environment |-> StoredValue([k \in Variables |-> DailyVariable(a.environment[k])]),
   system_timezone |-> MissingIfNull(a.systemTimezone),
   browser_policies |-> StoredValue([s \in Slots |-> DailyPolicy(a.browserPolicies[s])]),
   locale_name |-> MissingIfNull(a.localeName),
   user_languages |-> MissingIfNull(a.userLanguageList),
   user_culture |-> MissingIfNull(a.culture)]

\* A version 3 backup that parses, with whatever it holds.
LegacyBackups ==
  [previous : [Variables -> Texts \cup {Null, Absent}],
   previousSystemTimezone : Texts \cup {Null, Absent},
   previousBrowserPolicies : [Slots -> Texts \cup {Null, Absent}],
   previousLocaleName : Texts \cup {Null, Absent},
   previousUserLanguages : Lists \cup {Null, Absent},
   previousUserCulture : Texts \cup {Null, Absent}]

\* No fact is missing; only a variable and a policy can be known not to be set.
Complete(b) ==
  /\ \A k \in Variables : b.previous[k] # Absent
  /\ b.previousSystemTimezone \in Tags
  /\ \A s \in Slots : b.previousBrowserPolicies[s] # Absent
  /\ b.previousLocaleName \in Texts
  /\ b.previousUserLanguages \in Lists
  /\ b.previousUserCulture \in Texts

EnvironmentValue(v) == IF v = Null THEN StoredMissing ELSE StoredValue(v)

ParseLegacyBackup(b) ==
  [environment |-> [k \in Variables |-> EnvironmentValue(b.previous[k])],
   systemTimezone |-> StoredValue(b.previousSystemTimezone),
   browserPolicies |-> [s \in Slots |-> PolicyValue(b.previousBrowserPolicies[s])],
   localeName |-> StoredValue(b.previousLocaleName),
   userLanguageList |-> StoredValue(b.previousUserLanguages),
   culture |-> StoredValue(b.previousUserCulture)]

\* What the version 3 backup says of the settings.
Facts(b) ==
  [environment |-> StoredValue(b.previous),
   system_timezone |-> StoredValue(b.previousSystemTimezone),
   browser_policies |-> StoredValue(b.previousBrowserPolicies),
   locale_name |-> StoredValue(b.previousLocaleName),
   user_languages |-> StoredValue(b.previousUserLanguages),
   user_culture |-> StoredValue(b.previousUserCulture)]
=============================================================================
