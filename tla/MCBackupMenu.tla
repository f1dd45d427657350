---------------------------- MODULE MCBackupMenu ----------------------------
EXTENDS BackupMenu

\* One backup of the title on the card and another on the drive.
OneLocal == [n \in {1} |-> 2]
OneRemote == [n \in {2} |-> 3]
=============================================================================
