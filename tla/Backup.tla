------------------------------- MODULE Backup -------------------------------
(***************************************************************************)
(* Backup and restore (operations.py) beside the threads and processes of  *)
(* EvidenceStore.  Backup holds the lock of its own process only: what     *)
(* another process registers meanwhile, and the raw files that any thread  *)
(* writes, which takes no lock, go on.                                     *)
(***************************************************************************)
EXTENDS EvidenceStore

VARIABLE
    copy    \* the backup directory, and what is being done with it

backupVars == <<vars, copy>>

(* objects and audit are the copied database, raw the copied files, todo   *)
(* the addresses copytree has not come to.                                 *)
NoCopy ==
    [at |-> "none", objects |-> [id \in Ids |-> Unregistered], audit |-> <<>>,
     raw |-> [c \in Contents |-> "absent"], todo |-> Contents]

BackupInit == Init /\ copy = NoCopy

---------------------------------------------------------------------------
(* backup.                                                                 *)

(* The target is new; verify passes, or raises (see UnauditedIsTrue).      *)
Begin ==
    /\ copy.at = "none"
    /\ \E at \in {"begun", "failed"} : copy' = [copy EXCEPT !.at = at]
    /\ UNCHANGED vars

(* A plausible fault: the database is copied as a file, and torn between   *)
(* its two tables.                                                         *)
SnapshotTorn ==
    /\ copy.at = "begun"
    /\ LET last == IF audit = <<>> THEN {} ELSE {audit[Len(audit)].target}
       IN  copy' = [copy EXCEPT !.at = "copying", !.audit = audit,
                       !.objects = [id \in Ids |-> IF id \in last THEN Unregistered ELSE objects[id]]]
    /\ UNCHANGED vars

(* SQLite's online backup sees one state of the database. *)
Snapshot ==
    /\ copy.at = "begun"
    /\ copy' = [copy EXCEPT !.at = "copying", !.objects = objects, !.audit = audit]
    /\ UNCHANGED vars

(* A plausible fault: files are copied before the database is. *)
CopyFileAnytime(c) ==
    /\ copy.at \in {"begun", "copying"}
    /\ c \in copy.todo
    /\ copy' = [copy EXCEPT !.raw[c] = files[c], !.todo = @ \ {c}]
    /\ UNCHANGED vars

(* copytree comes to one file after the other, and finds it as it is. *)
CopyFile(c) ==
    /\ copy.at = "copying"
    /\ c \in copy.todo
    /\ copy' = [copy EXCEPT !.raw[c] = files[c], !.todo = @ \ {c}]
    /\ UNCHANGED vars

(* The manifest lists the hashes of the copies, whatever they hold. *)
WriteManifest ==
    /\ copy.at = "copying"
    /\ copy.todo = {}
    /\ copy' = [copy EXCEPT !.at = "complete"]
    /\ UNCHANGED vars

(* The process ends: without a manifest the directory is no backup.        *)
BackupCrash ==
    /\ copy.at \in {"begun", "copying"}
    /\ copy' = [copy EXCEPT !.at = "failed"]
    /\ UNCHANGED vars

---------------------------------------------------------------------------
(* restore, into a new directory.                                          *)

(* Service.verify on the copy: events, objects, raw files of the sources.  *)
CopyVerifies ==
    /\ \A id \in Ids : copy.objects[id] # Unregistered =>
         \E i \in DOMAIN copy.audit :
           copy.audit[i] = [target |-> id, payload |-> copy.objects[id]]
    /\ \A s \in Sources : copy.objects[s] # Unregistered =>
         copy.raw[copy.objects[s].content] = "complete"

(* The hashes agree with the manifest; the restored directory is verified. *)
Restore ==
    /\ copy.at = "complete"
    /\ copy' = [copy EXCEPT !.at = IF CopyVerifies THEN "restored" ELSE "rejected"]
    /\ UNCHANGED vars

BackupNext ==
    \/ Next /\ UNCHANGED copy
    \/ Begin \/ Snapshot \/ (\E c \in Contents : CopyFile(c)) \/ WriteManifest
    \/ BackupCrash \/ Restore

BackupSpec == BackupInit /\ [][BackupNext]_backupVars

---------------------------------------------------------------------------
(* Properties.                                                             *)

(* "Unusable backups": a backup that completed can be restored, whatever   *)
(* was acquired, extracted, half written or crashed while it was made.     *)
BackupRestores == copy.at # "rejected"

(* What is restored is a moment of the past: the log as it was then, and   *)
(* exactly the objects it lists, evidence with the sources it comes from.  *)
RestoredIsPast ==
    copy.at = "restored" =>
      /\ Len(copy.audit) <= Len(audit)
      /\ copy.audit = SubSeq(audit, 1, Len(copy.audit))
      /\ \A id \in Ids :
           copy.objects[id] =
             IF \E i \in DOMAIN copy.audit : copy.audit[i].target = id THEN objects[id] ELSE Unregistered
      /\ \A e \in Items : copy.objects[e] # Unregistered =>
           copy.raw[copy.objects[SourceOf[e]].content] = "complete"
=============================================================================
