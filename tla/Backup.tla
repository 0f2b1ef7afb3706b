------------------------------- MODULE Backup -------------------------------
(***************************************************************************)
(* backup.rs: the cold backup of a stopped daemon's data directory and its *)
(* restore.  A backup copies the artifacts one by one, makes them durable  *)
(* and writes the manifest last; a restore assembles the set in a sibling  *)
(* staging directory and swaps it in.  A power loss in between keeps of    *)
(* the backup directory what was fsynced and any part of the rest.         *)
(*                                                                         *)
(* A set of files is a function from artifacts to the instant they are of: *)
(* 0 absent, 1 the directory the backup was taken of, 2 the restore        *)
(* target's own later state, 3 what a first boot makes of an absent        *)
(* directory.  Renames are taken to reach the disk in the order they were  *)
(* made, as journaling filesystems do.                                     *)
(***************************************************************************)
EXTENDS Integers, FiniteSets, SequencesExt

CONSTANTS
    PowerLosses,    \* bound: crashes of the machine
    MaxAside        \* bound: old directories left aside

ASSUME BackupAssumption == PowerLosses \in Nat /\ MaxAside \in Nat

Optional == {"seed", "config", "fed", "px"}
Artifacts == Optional \cup {"db"}

VARIABLES
    bkWorld,    \* what holds of instant 1 and of the tools and filesystem used
    bkDir,      \* the data directory
    bkDest,     \* the backup directory: its files, the manifest, what is durable
    bkPc,       \* the command that is running
    bkStage,    \* restore's staging directory
    bkAside,    \* the old directories moved aside and not dropped
    bkDied,     \* the disk has died
    bkLost      \* power losses so far

bkFs == <<bkDir, bkStage, bkAside>>
bkVars == <<bkWorld, bkFs, bkDest, bkPc, bkDied, bkLost>>

NoSet == [a \in Artifacts |-> 0]
SetOf(i, has) == [a \in Artifacts |-> IF a \in has \cup {"db"} THEN i ELSE 0]
Fresh == SetOf(3, {"seed"})
Full == SetOf(2, Optional)

NoManifest == [written |-> FALSE, px |-> FALSE, selfContained |-> FALSE,
               encrypted |-> FALSE, has |-> {}]
EmptyDest == [files |-> NoSet, age |-> NoSet, manifest |-> NoManifest, synced |-> {}]

BackupInit ==
    /\ bkWorld \in [has : SUBSET Optional,
                    marker : BOOLEAN,       \* the books carry the ADR-0022 marker
                    refs : BOOLEAN,         \* they reference phoenixd
                    oldBuild : BOOLEAN,     \* a backup of a build without phoenixd
                    encrypted : BOOLEAN,
                    exchange : BOOLEAN]     \* renameat2(RENAME_EXCHANGE) works here
    \* books that use phoenixd have its map beside them until it is imported
    /\ (bkWorld.refs /\ ~bkWorld.marker) => "px" \in bkWorld.has
    /\ bkWorld.oldBuild => ~bkWorld.marker /\ ~bkWorld.encrypted
    /\ bkDir = SetOf(1, bkWorld.has)
    /\ bkDest = EmptyDest
    /\ bkPc = "idle"
    /\ bkStage = NoSet /\ bkAside = << >>
    /\ bkDied = FALSE /\ bkLost = 0

CopiedTo(dest, as) ==
    [dest EXCEPT !.files = [a \in Artifacts |-> IF a \in as THEN bkDir[a] ELSE @[a]]]

-----------------------------------------------------------------------------
(* backup: a directory with a state DB, into an empty destination (after   *)
(* an interrupted try, another one).                                       *)
BackupStarts ==
    bkPc = "idle" /\ bkDir["db"] = 1 /\ ~bkDest.manifest.written

(* backup_plaintext: the state DB is vacuumed into the destination ...     *)
BackupDb ==
    /\ BackupStarts /\ ~bkWorld.encrypted
    /\ bkDest' = CopiedTo(EmptyDest, {"db"})
    /\ bkPc' = "tree"
    /\ UNCHANGED <<bkWorld, bkFs, bkDied, bkLost>>

(* ... then the fedimint subtree ...                                       *)
BackupTree ==
    /\ bkPc = "tree"
    /\ bkDest' = CopiedTo(bkDest, {"fed"})
    /\ bkPc' = "roots"
    /\ UNCHANGED <<bkWorld, bkFs, bkDied, bkLost>>

(* A self-contained snapshot has absorbed the phoenixd side file.          *)
CapturesPx == ~bkWorld.marker /\ ~bkWorld.oldBuild

(* ... then the seed, the invite and the phoenixd map ...                  *)
BackupRoots ==
    /\ bkPc = "roots"
    /\ bkDest' = CopiedTo(bkDest, {"seed", "config"} \cup IF CapturesPx THEN {"px"} ELSE {})
    /\ bkPc' = "sync"
    /\ UNCHANGED <<bkWorld, bkFs, bkDied, bkLost>>

(* write_encrypted_bundle: what the tar stream holds.                      *)
Bundled == [a \in Artifacts |-> IF a = "px" /\ ~CapturesPx THEN 0 ELSE bkDir[a]]

(* backup_encrypted: one bundle of the same set; until its last chunk is   *)
(* written it does not decrypt, and nothing reads it without a manifest.   *)
BackupBundle ==
    /\ BackupStarts /\ bkWorld.encrypted
    /\ bkDest' = [EmptyDest EXCEPT !.age = Bundled]
    /\ bkPc' = "sync"
    /\ UNCHANGED <<bkWorld, bkFs, bkDied, bkLost>>

(* fsync_dir: every entry there is durable from here on.                   *)
BackupSync ==
    /\ bkPc = "sync"
    /\ bkDest' = [bkDest EXCEPT !.synced = Artifacts \cup {"age"}]
    /\ bkPc' = "manifest"
    /\ UNCHANGED <<bkWorld, bkFs, bkDied, bkLost>>

InBackup == {a \in Artifacts : bkDest.files[a] # 0 \/ bkDest.age[a] # 0}

(* format_version is what the snapshot carries: 3 self-contained, 2 with   *)
(* the phoenixd map, else 1.                                               *)
FormatVersion(selfContained, px) == IF selfContained THEN 3 ELSE IF px THEN 2 ELSE 1

BackupManifest ==
    /\ bkPc = "manifest"
    /\ bkDest' = [bkDest EXCEPT !.manifest =
           [written |-> TRUE, px |-> "px" \in InBackup, selfContained |-> bkWorld.marker,
            encrypted |-> bkWorld.encrypted, has |-> InBackup]]
    /\ bkPc' = "syncManifest"
    /\ UNCHANGED <<bkWorld, bkFs, bkDied, bkLost>>

BackupDone ==
    /\ bkPc = "syncManifest"
    /\ bkDest' = [bkDest EXCEPT !.synced = @ \cup {"manifest"}]
    /\ bkPc' = "idle"
    /\ UNCHANGED <<bkWorld, bkFs, bkDied, bkLost>>

-----------------------------------------------------------------------------
(* The daemon runs on, or the disk dies.                                   *)
DaemonRuns ==
    /\ bkPc = "idle" /\ bkDir["db"] = 1 /\ bkDest # EmptyDest
    /\ bkDir' = Full
    /\ UNCHANGED <<bkWorld, bkStage, bkAside, bkDest, bkPc, bkDied, bkLost>>

DiskDies ==
    /\ bkPc = "idle" /\ bkDir # NoSet /\ bkDest # EmptyDest
    /\ bkDir' = NoSet /\ bkDied' = TRUE
    /\ UNCHANGED <<bkWorld, bkStage, bkAside, bkDest, bkPc, bkLost>>

(* A daemon started on an absent directory takes it for a first boot.      *)
FirstBoot ==
    /\ bkDir = NoSet
    /\ bkDir' = Fresh
    /\ UNCHANGED <<bkWorld, bkStage, bkAside, bkDest, bkPc, bkDied, bkLost>>

-----------------------------------------------------------------------------
(* What restore finds of the set: the files, or the opened bundle.         *)
Found == IF bkDest.manifest.encrypted THEN bkDest.age ELSE bkDest.files

(* Mutant: the format-1 refusal trusts the manifest.                       *)
StateDbAcceptedUnread(m) == TRUE

(* check_restored_state_db: the manifest describes this database, and a    *)
(* format-1 backup must not be of books that reference phoenixd.           *)
StateDbAccepted(m) ==
    /\ bkWorld.marker = m.selfContained
    /\ FormatVersion(m.selfContained, m.px) = 1 => ~bkWorld.refs

(* Everything restore checks before it assembles the set.                  *)
RestoreAccepts(force, passphrase) ==
    LET m == bkDest.manifest
    IN  /\ m.written
        /\ IF m.encrypted THEN bkDest.age # NoSet /\ passphrase
           ELSE ~passphrase /\ bkDest.age = NoSet
        /\ ~m.encrypted => (\A a \in m.has : bkDest.files[a] # 0) /\ StateDbAccepted(m)
        /\ bkDir = NoSet \/ force

RestoreStart ==
    /\ bkPc = "idle" /\ Len(bkAside) < MaxAside
    /\ \E force, passphrase \in BOOLEAN : RestoreAccepts(force, passphrase)
    /\ bkPc' = "stage"
    /\ UNCHANGED <<bkWorld, bkFs, bkDest, bkDied, bkLost>>

(* finalize_decrypted_staging: only the opened bundle shows what it holds. *)
StagedIsWhole ==
    (\A a \in bkDest.manifest.has : Found[a] # 0) /\ StateDbAccepted(bkDest.manifest)

(* with_staging: copy, or decrypt and untar to the end, and check again.   *)
RestoreStage ==
    /\ bkPc = "stage"
    /\ bkStage' = [a \in Artifacts |-> IF a \in bkDest.manifest.has THEN Found[a] ELSE 0]
    /\ bkPc' = "swap"
    /\ bkDest.manifest.encrypted => StagedIsWhole
    /\ UNCHANGED <<bkWorld, bkDir, bkAside, bkDest, bkDied, bkLost>>

(* A wrong passphrase, a set that is not the manifest's, or a failed copy: *)
(* the staging directory is removed.                                       *)
RestoreFails ==
    /\ bkPc = "stage"
    /\ bkPc' = "idle"
    /\ UNCHANGED <<bkWorld, bkFs, bkDest, bkDied, bkLost>>

(* renameat2(RENAME_EXCHANGE), where kernel and filesystem have it.        *)
CanExchange == bkWorld.exchange

(* swap_into_place, into no directory: one rename.                         *)
SwapIn ==
    /\ bkPc = "swap" /\ bkDir = NoSet
    /\ bkDir' = bkStage /\ bkStage' = NoSet
    /\ bkPc' = "idle"
    /\ UNCHANGED <<bkWorld, bkAside, bkDest, bkDied, bkLost>>

(* ... over a directory: the two entries are exchanged, and the old set,   *)
(* now under the staging name, is dropped.                                 *)
SwapExchange ==
    /\ bkPc = "swap" /\ bkDir # NoSet /\ CanExchange
    /\ bkDir' = bkStage /\ bkStage' = bkDir
    /\ bkPc' = "drop"
    /\ UNCHANGED <<bkWorld, bkAside, bkDest, bkDied, bkLost>>

DropOld ==
    /\ bkPc \in {"drop", "dropAside"}
    /\ bkStage' = NoSet
    /\ bkAside' = IF bkPc = "dropAside" THEN Front(bkAside) ELSE bkAside
    /\ bkPc' = "idle"
    /\ UNCHANGED <<bkWorld, bkDir, bkDest, bkDied, bkLost>>

(* Mutant: the old set is always moved aside first.                        *)
MoveAsideAlways ==
    /\ bkPc = "swap" /\ bkDir # NoSet
    /\ bkAside' = Append(bkAside, bkDir) /\ bkDir' = NoSet
    /\ bkPc' = "moveIn"
    /\ UNCHANGED <<bkWorld, bkStage, bkDest, bkDied, bkLost>>

(* swap_via_move_aside, where the exchange is not supported.               *)
MoveAside ==
    /\ bkPc = "swap" /\ bkDir # NoSet /\ ~CanExchange
    /\ bkAside' = Append(bkAside, bkDir) /\ bkDir' = NoSet
    /\ bkPc' = "moveIn"
    /\ UNCHANGED <<bkWorld, bkStage, bkDest, bkDied, bkLost>>

(* The second rename fails on a directory a daemon has made meanwhile; the *)
(* rollback fails with it, and the old set stays aside.                    *)
MoveIn ==
    /\ bkPc = "moveIn"
    /\ bkStage' = NoSet
    /\ IF bkDir = NoSet THEN bkDir' = bkStage /\ bkPc' = "dropAside"
       ELSE UNCHANGED bkDir /\ bkPc' = "idle"
    /\ UNCHANGED <<bkWorld, bkAside, bkDest, bkDied, bkLost>>

MoveInFails ==
    /\ bkPc = "moveIn" /\ bkDir = NoSet
    /\ bkDir' = Last(bkAside) /\ bkAside' = Front(bkAside) /\ bkStage' = NoSet
    /\ bkPc' = "idle"
    /\ UNCHANGED <<bkWorld, bkDest, bkDied, bkLost>>

(* The machine stops: of the backup directory any part that was not yet    *)
(* fsynced may be gone.                                                    *)
PowerLoss ==
    /\ bkPc # "idle" /\ bkLost < PowerLosses
    /\ bkLost' = bkLost + 1
    /\ \E gone \in SUBSET ((Artifacts \cup {"age", "manifest"}) \ bkDest.synced) :
         bkDest' = [bkDest EXCEPT
             !.files = [a \in Artifacts |-> IF a \in gone THEN 0 ELSE @[a]],
             !.age = IF "age" \in gone THEN NoSet ELSE @,
             !.manifest = IF "manifest" \in gone THEN NoManifest ELSE @]
    /\ bkPc' = "idle"
    /\ UNCHANGED <<bkWorld, bkFs, bkDied>>

BackupNext ==
    \/ BackupDb \/ BackupTree \/ BackupRoots \/ BackupBundle
    \/ BackupSync \/ BackupManifest \/ BackupDone
    \/ DaemonRuns \/ DiskDies \/ FirstBoot
    \/ RestoreStart \/ RestoreStage \/ RestoreFails
    \/ SwapIn \/ SwapExchange \/ DropOld \/ MoveAside \/ MoveIn \/ MoveInFails
    \/ PowerLoss

-----------------------------------------------------------------------------
(* The set a complete backup of instant 1 restores to.                     *)
Restorable == [SetOf(1, bkWorld.has) EXCEPT !["px"] = IF CapturesPx THEN @ ELSE 0]

(* The data directory is always one whole set: what the daemon wrote, all  *)
(* that the manifest promised, or nothing -- never parts of two -- and     *)
(* books that reference phoenixd come with their payment map or have       *)
(* absorbed it, so that no refund already paid looks unpaid.               *)
DirIsWhole ==
    /\ bkDir \in {NoSet, Fresh, Full, SetOf(1, bkWorld.has), Restorable}
    /\ (bkDir["db"] = 1 /\ bkWorld.refs /\ ~bkWorld.marker) => bkDir["px"] = 1

(* A restore over a directory, cut off anywhere, never leaves the daemon   *)
(* to take the directory for a first boot and to make another operator of  *)
(* it; where the filesystem cannot exchange two entries, the old set is    *)
(* still there to be moved back.                                           *)
NeverFirstBoot ==
    (~bkDied /\ bkDir \in {NoSet, Fresh}) => ~bkWorld.exchange /\ bkAside # << >>
=============================================================================
