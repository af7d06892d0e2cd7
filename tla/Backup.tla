------------------------------- MODULE Backup -------------------------------
(***************************************************************************)
(* The backup directory and the database, under the three shell scripts:   *)
(* scripts/backup.sh (run by hand), scripts/docker/schedule-backup.sh (run *)
(* by cron) and scripts/restore.sh.  A backup is named after the second it *)
(* started; it is a dump (.sql), then a zip (.gz), then an encrypted file  *)
(* (.enc) with a checksum, each file half-written while its step runs.     *)
(* Every script runs under "set -e": the first failing command ends it,    *)
(* and the machine may stop it anywhere.  No two backups start in the same *)
(* second and one restore runs at a time.                                  *)
(***************************************************************************)
EXTENDS Naturals, FiniteSets

CONSTANTS Backups,     \* the runs of the two backup scripts
          Own,         \* a dump in pg_dump's custom format, from elsewhere
          MaxRestores  \* bound: how often restore.sh is run

ASSUME BackupAssumption == Own \notin Backups /\ MaxRestores \in Nat

VARIABLES backup,    \* backup[b]: the script, its key and its next step
          disk,      \* disk[b]: the files of backup b
          aged,      \* the backups older than BACKUP_RETENTION_DAYS
          spoilt,    \* the backups whose .gz was emptied under their encryption
          base,      \* the database
          clients,   \* TRUE while the API has connections to it
          restore    \* the restore script

backupVars == <<backup, disk, aged, spoilt, base, clients, restore>>

File == {"none", "part", "whole"}
StillRunning == {"dump", "header", "zip", "encrypt", "check", "sum", "clean"}
NoFiles == [sql |-> "none", gz |-> "none", enc |-> "none", sum |-> FALSE]

BackupInit ==
  /\ backup = [b \in Backups |-> [script |-> "none", keyed |-> FALSE, step |-> "off"]]
  /\ disk = [b \in Backups |-> NoFiles]
  /\ aged = {} /\ spoilt = {}
  /\ base = "live" /\ clients = TRUE
  /\ restore = [step |-> "off", file |-> Own, form |-> "dump", runs |-> 0]

(* ------------------------------ backups -------------------------------- *)

(* backup.sh insists on BACKUP_ENCRYPTION_KEY, schedule-backup.sh does     *)
(* without; pg_dump then writes the .sql.                                  *)
StartBackup(b, script, keyed) ==
  /\ backup[b].step = "off"
  /\ script = "backup.sh" => keyed
  /\ backup' = [backup EXCEPT ![b] = [script |-> script, keyed |-> keyed, step |-> "dump"]]
  /\ disk' = [disk EXCEPT ![b].sql = "part"]
  /\ UNCHANGED <<aged, spoilt, base, clients, restore>>

GoTo(b, step) == backup' = [backup EXCEPT ![b].step = step]

(* pg_dump ends; a failed one leaves what it wrote.                        *)
Dumped(b) ==
  /\ backup[b].step = "dump"
  /\ \/ /\ base \in {"live", "restored"}
        /\ IF backup[b].script = "backup.sh"
           THEN /\ GoTo(b, "header") /\ disk' = [disk EXCEPT ![b].sql = "whole"]
           ELSE /\ GoTo(b, "zip")
                /\ disk' = [disk EXCEPT ![b].sql = "whole", ![b].gz = "part"]
     \/ /\ GoTo(b, "failed")
        /\ UNCHANGED disk
  /\ UNCHANGED <<aged, spoilt, base, clients, restore>>

(* verify_pg_dump_format looks for the header of the custom format, PGDMP; *)
(* the dump was written with -F p and has none, so backup.sh ends here.    *)
HeaderIsMissing(b) ==
  /\ backup[b].step = "header"
  /\ GoTo(b, "failed")
  /\ disk' = [disk EXCEPT ![b].sql = "none"]
  /\ UNCHANGED <<aged, spoilt, base, clients, restore>>

(* gzip replaces the .sql; when it fails the script removes the .sql.      *)
Zipped(b) ==
  /\ backup[b].step = "zip"
  /\ \/ /\ disk' = [disk EXCEPT ![b].sql = "none", ![b].gz = "whole",
                                ![b].enc = IF backup[b].keyed THEN "part" ELSE @]
        /\ GoTo(b, IF backup[b].keyed THEN "encrypt" ELSE "check")
     \/ /\ disk' = [disk EXCEPT ![b].sql = "none", ![b].gz = "none"]
        /\ GoTo(b, "failed")
  /\ UNCHANGED <<aged, spoilt, base, clients, restore>>

(* openssl ends, well or not; the .gz is removed either way and a          *)
(* half-written .enc is left.  What it read of a .gz that was emptied      *)
(* meanwhile it has encrypted without complaint.                           *)
Encrypted(b) ==
  /\ backup[b].step = "encrypt"
  /\ \/ /\ disk' = [disk EXCEPT ![b].gz = "none",
                                ![b].enc = IF b \in spoilt THEN "part" ELSE "whole"]
        /\ GoTo(b, "check")
     \/ /\ disk' = [disk EXCEPT ![b].gz = "none"]
        /\ GoTo(b, "failed")
  /\ UNCHANGED <<aged, spoilt, base, clients, restore>>

(* The file that a backup ends in, and that its checksum is of.            *)
Vouched(b) == IF backup[b].keyed THEN disk[b].enc ELSE disk[b].gz

(* verify_backup wants the file, of at least MIN_BACKUP_SIZE_KB; what is   *)
(* too small is left where it is, without a checksum.                      *)
Sized(b) ==
  /\ backup[b].step = "check"
  /\ \/ Vouched(b) # "none" /\ GoTo(b, "sum")
     \/ GoTo(b, "failed")
  /\ UNCHANGED <<disk, aged, spoilt, base, clients, restore>>

Summed(b) ==
  /\ backup[b].step = "sum"
  /\ IF Vouched(b) # "none"
     THEN disk' = [disk EXCEPT ![b].sum = TRUE] /\ GoTo(b, "clean")
     ELSE UNCHANGED disk /\ GoTo(b, "failed")
  /\ UNCHANGED <<aged, spoilt, base, clients, restore>>

Expendable_All(b) == Backups
Expendable(b) == aged

(* cleanup_old_backups: the .gz, .enc and .sha256 files past the retention *)
(* time; a .sql is never cleaned.                                          *)
Cleaned(b) ==
  /\ backup[b].step = "clean"
  /\ disk' = [c \in Backups |->
                IF c \in Expendable(b)
                THEN [disk[c] EXCEPT !.gz = "none", !.enc = "none", !.sum = FALSE]
                ELSE disk[c]]
  /\ GoTo(b, "done")
  /\ UNCHANGED <<aged, spoilt, base, clients, restore>>

(* The script is killed, or the machine goes down.                         *)
BackupDies(b) ==
  /\ backup[b].step \in StillRunning
  /\ GoTo(b, "failed")
  /\ UNCHANGED <<disk, aged, spoilt, base, clients, restore>>

GrowsOld(b) ==
  /\ backup[b].step \in {"failed", "done"} /\ b \notin aged
  /\ aged' = aged \cup {b}
  /\ UNCHANGED <<backup, disk, spoilt, base, clients, restore>>

(* ------------------------------ restore -------------------------------- *)

RestoreGoesTo(step) == restore' = [restore EXCEPT !.step = step]

(* What comes after the verification of a file: its decryption, its        *)
(* decompression, or the database.                                         *)
Prepare(form) == CASE form = "enc" -> "decrypt" [] form = "gz" -> "unpack"
                   [] OTHER -> "connect"

Present(f, form) == f # Own => disk[f][form] # "none"

StartRestore(f, form, verify) ==
  /\ restore.step \in {"off", "failed", "done"} /\ restore.runs < MaxRestores
  /\ (f = Own) <=> (form = "dump")
  /\ Present(f, form)
  /\ restore' = [step |-> IF verify THEN "verify" ELSE Prepare(form),
                 file |-> f, form |-> form, runs |-> restore.runs + 1]
  /\ UNCHANGED <<backup, disk, aged, spoilt, base, clients>>

(* verify_backup of restore.sh: the file is still there, a checksum beside *)
(* it fits, and a .gz passes gzip -t; a half-written .enc or .sql passes.  *)
Verify ==
  LET f == restore.file
      good == /\ Present(f, restore.form)
              /\ restore.form = "gz" => disk[f].gz = "whole"
  IN  /\ restore.step = "verify"
      /\ RestoreGoesTo(IF good THEN Prepare(restore.form) ELSE "failed")
      /\ UNCHANGED <<backup, disk, aged, spoilt, base, clients>>

(* decrypt_backup empties the .gz beside the .enc, though an encryption    *)
(* may just be reading it, ...                                             *)
StartDecrypt ==
  /\ restore.step = "decrypt"
  /\ disk' = [disk EXCEPT ![restore.file].gz = "part"]
  /\ spoilt' = IF backup[restore.file].step = "encrypt" THEN spoilt \cup {restore.file}
               ELSE spoilt
  /\ RestoreGoesTo("decrypting")
  /\ UNCHANGED <<backup, aged, base, clients>>

(* ... and writes it, unless somebody has removed it, or removes it when   *)
(* openssl refuses.  The caller takes the file's name from what the        *)
(* function prints, and log prints to the same place: the name is not that *)
(* of a file, gzip -d fails, and "set -e" ends the script either way.      *)
Decrypt ==
  /\ restore.step = "decrypting"
  /\ disk' = [disk EXCEPT ![restore.file].gz =
                IF disk[restore.file].enc = "whole" /\ @ = "part" THEN "whole" ELSE "none"]
  /\ RestoreGoesTo("failed")
  /\ UNCHANGED <<backup, aged, spoilt, base, clients>>

(* decompress_backup: gzip -d writes the .sql, over one that is there only *)
(* if the operator says so; a missing or truncated .gz ends the script ... *)
StartUnpack ==
  /\ restore.step = "unpack"
  /\ \/ /\ disk[restore.file].gz = "whole"
        /\ disk' = [disk EXCEPT ![restore.file].sql = "part"]
        /\ RestoreGoesTo("unpacking")
     \/ /\ disk[restore.file].gz # "whole" \/ disk[restore.file].sql # "none"
        /\ RestoreGoesTo("failed") /\ UNCHANGED disk
  /\ UNCHANGED <<backup, aged, spoilt, base, clients>>

(* ... and removes the .gz when it has written all of it.                  *)
Unpack ==
  /\ restore.step = "unpacking"
  /\ disk' = [disk EXCEPT ![restore.file].gz = "none", ![restore.file].sql = "whole"]
  /\ RestoreGoesTo("connect")
  /\ UNCHANGED <<backup, aged, spoilt, base, clients>>

(* check_connections ends the connections; the API opens new ones when it  *)
(* likes.                                                                  *)
Disconnect ==
  /\ restore.step = "connect"
  /\ clients' = FALSE
  /\ RestoreGoesTo("drop")
  /\ UNCHANGED <<backup, disk, aged, spoilt, base>>

Reconnect ==
  /\ base # "gone" /\ ~clients
  /\ clients' = TRUE
  /\ UNCHANGED <<backup, disk, aged, spoilt, base, restore>>

(* DROP DATABASE fails while somebody is connected, and "|| true" hides it.*)
DropDatabase ==
  /\ restore.step = "drop"
  /\ base' = IF clients THEN base ELSE "gone"
  /\ RestoreGoesTo("create")
  /\ UNCHANGED <<backup, disk, aged, spoilt, clients>>

(* CREATE DATABASE fails when the database is still there: the script ends.*)
CreateDatabase ==
  /\ restore.step = "create"
  /\ IF base = "gone"
     THEN RestoreGoesTo("load") /\ base' = "empty"
     ELSE RestoreGoesTo("failed") /\ UNCHANGED base
  /\ UNCHANGED <<backup, disk, aged, spoilt, clients>>

(* pg_restore takes the custom format only: of the files that come this    *)
(* far, the operator's own dump.  A .sql of the backup scripts is a text   *)
(* dump, and the name decompress_backup printed is no file.  verify_restore*)
(* then counts the tables.                                                 *)
Load ==
  /\ restore.step = "load"
  /\ IF restore.file = Own
     THEN base' = (IF base = "empty" THEN "restored" ELSE "mixed") /\ RestoreGoesTo("done")
     ELSE RestoreGoesTo("failed") /\ UNCHANGED base
  /\ UNCHANGED <<backup, disk, aged, spoilt, clients>>

RestoreDies ==
  /\ restore.step \notin {"off", "failed", "done"}
  /\ RestoreGoesTo("failed")
  /\ UNCHANGED <<backup, disk, aged, spoilt, base, clients>>

BackupNext ==
  \/ \E b \in Backups :
       \/ \E script \in {"backup.sh", "schedule"}, keyed \in BOOLEAN :
            StartBackup(b, script, keyed)
       \/ Dumped(b) \/ HeaderIsMissing(b) \/ Zipped(b) \/ Encrypted(b)
       \/ Sized(b) \/ Summed(b) \/ Cleaned(b) \/ BackupDies(b) \/ GrowsOld(b)
  \/ \E f \in Backups \cup {Own}, form \in {"dump", "sql", "gz", "enc"}, v \in BOOLEAN :
       StartRestore(f, form, v)
  \/ Verify \/ StartDecrypt \/ Decrypt \/ StartUnpack \/ Unpack \/ Disconnect \/ Reconnect
  \/ DropDatabase \/ CreateDatabase \/ Load \/ RestoreDies

BackupSpec == BackupInit /\ [][BackupNext]_backupVars

(* ----------------------------- properties ------------------------------ *)

BackupTypeOK ==
  /\ backup \in [Backups -> [script : {"none", "backup.sh", "schedule"}, keyed : BOOLEAN,
                             step : StillRunning \cup {"off", "failed", "done"}]]
  /\ disk \in [Backups -> [sql : File, gz : File, enc : File, sum : BOOLEAN]]
  /\ aged \subseteq Backups /\ spoilt \subseteq Backups
  /\ base \in {"live", "gone", "empty", "restored", "mixed"} /\ clients \in BOOLEAN
  /\ restore \in [step : {"off", "verify", "decrypt", "decrypting", "unpack", "unpacking",
                          "connect", "drop", "create", "load", "failed", "done"},
                  file : Backups \cup {Own}, form : {"dump", "sql", "gz", "enc"},
                  runs : 0 .. MaxRestores]

Recoverable(b) == "whole" \in {disk[b].sql, disk[b].gz, disk[b].enc}

(* Once a backup has been reported as done there is always a whole copy of *)
(* the data in the directory, whatever is cleaned, killed or restored      *)
(* afterwards, half way too: the cleaning comes last, and only after a new *)
(* backup.  Unless a restore took up a backup that was being encrypted.    *)
DoneIsRecoverable ==
  spoilt = {} /\ (\E b \in Backups : backup[b].step = "done") => \E b \in Backups : Recoverable(b)

(* A checksum vouches for a file written to its end: sha256sum runs after  *)
(* the step that writes the file, and only when that step succeeded, and   *)
(* no restore leaves that file half-written.                               *)
SumIsOfTheWhole ==
  \A b \in Backups \ spoilt : disk[b].sum => Vouched(b) # "part"

(* Nothing is ever loaded over the data that is there: when the API gets   *)
(* its connection back before the DROP, the CREATE ends the script.        *)
NothingIsMixed == base # "mixed"

(* What was reported stays whole on the disk, whatever runs over it, and a *)
(* restore loads what it loads into an empty database.  That restore.sh    *)
(* could load these backups is not said: it cannot (Decrypt, Load).        *)
BackupsAreWhole == DoneIsRecoverable /\ SumIsOfTheWhole /\ NothingIsMixed
=============================================================================
