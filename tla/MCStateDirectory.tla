--------------------------- MODULE MCStateDirectory ---------------------------
(* StateDirectory for TLC, and the notations of a backup on small sets.    *)
EXTENDS StateDirectory, BackupSnapshot, TLC

\* What BackupSnapshotProofs proves for all values.
ASSUME NotationsAgree ==
  /\ \A values \in Captured :
       /\ CreateBackupSnapshot(values) \in Authorities
       /\ Supported(CreateBackupSnapshot(values))
       /\ DailyValues(CreateBackupSnapshot(values)) = values
  /\ \A b \in LegacyBackups : Complete(b) =>
       DailyValues(ParseLegacyBackup(b)) = Facts(b) /\ Supported(ParseLegacyBackup(b))
=============================================================================
