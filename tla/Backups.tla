------------------------------ MODULE Backups ------------------------------
(***************************************************************************)
(* The nightly dump of the database (backup/backup.service.ts): it is      *)
(* taken, stored, and only then the dumps past their retention are         *)
(* deleted, page by page of a listing.  Any of these may fail, for any     *)
(* number of nights, and the process may die between them.                 *)
(***************************************************************************)
EXTENDS Common

CONSTANTS
    RetentionDays, \* BACKUP_RETENTION_DAYS
    LastNight      \* bound on the nights

\* A retention of no days would delete a dump as soon as it is stored.
ASSUME BackupsAssumption == RetentionDays \in Nat \ {0} /\ LastNight \in Nat

VARIABLES
    night,
    dumps,    \* the nights whose dump is in the bucket
    backup,   \* the run under way: [left, of], the steps left and the night of the last
              \* one; None without a run
    tonight,  \* this night's cron has come
    dumped   \* history: the nights whose dump was stored

backupsVars == <<night, dumps, backup, tonight, dumped>>

BackupsInit == night = 0 /\ dumps = {} /\ backup = None /\ tonight = FALSE /\ dumped = {}

-----------------------------------------------------------------------------
(* Faulty variants, for testing the property. *)

\* the old dumps make room for the new one first
PrunesFirst == <<"prune", "dump", "put">>

-----------------------------------------------------------------------------

\* run: dump, put, prune
Steps == <<"dump", "put", "prune">>

\* tick; a run that is still going has the guard
BackupStarts ==
    /\ ~tonight /\ tonight' = TRUE
    /\ backup' = IF backup = None THEN [left |-> Steps, of |-> night] ELSE backup
    /\ UNCHANGED <<night, dumps, dumped>>

Does(step) == backup # None /\ backup.left # <<>> /\ Head(backup.left) = step
Proceeds == backup' = [left |-> Tail(backup.left), of |-> night]

\* pgDump: the archive is whole, or the run throws.
Dump == Does("dump") /\ Proceeds /\ UNCHANGED <<night, dumps, tonight, dumped>>

Put ==
    /\ Does("put") /\ Proceeds
    /\ dumps' = dumps \cup {night} /\ dumped' = dumped \cup {night}
    /\ UNCHANGED <<night, tonight>>

\* The dumps of before the cutoff, as long as no deletion throws.
Expired == {n \in dumps : n < night - RetentionDays}

Prune ==
    /\ Does("prune")
    /\ \E gone \in IF Faults THEN SUBSET Expired ELSE {Expired} :
         /\ dumps' = dumps \ gone
         /\ IF gone = Expired THEN Proceeds ELSE backup' = None
    /\ UNCHANGED <<night, tonight, dumped>>

BackupEnds ==
    /\ backup # None /\ backup.left = <<>>
    /\ backup' = None
    /\ UNCHANGED <<night, dumps, tonight, dumped>>

\* A step throws, or the process dies.
BackupFails ==
    /\ Faults /\ backup # None
    /\ backup' = None
    /\ UNCHANGED <<night, dumps, tonight, dumped>>

\* A dump may take any number of nights; what follows it goes on within a day.
NightFalls ==
    /\ night < LastNight
    /\ (backup # None /\ ~Does("dump")) => backup.of = night
    /\ night' = night + 1 /\ tonight' = FALSE
    /\ UNCHANGED <<dumps, backup, dumped>>

BackupsNext ==
    BackupStarts \/ Dump \/ Put \/ Prune \/ BackupEnds \/ BackupFails \/ NightFalls

BackupsSpec == BackupsInit /\ [][BackupsNext]_backupsVars

-----------------------------------------------------------------------------
(* Properties. *)

\* However many nights fail, the newest dump ever stored is still there, with every
\* one stored less than the retention before it.
LastDumpsStand ==
    \A n \in dumped :
       (\A m \in dumped : m < n + RetentionDays) => n \in dumps
=============================================================================
