------------------------------- MODULE MCHost -------------------------------
(***************************************************************************)
(* The services on the operator's machine: configuration, data directory,  *)
(* database, backup, supervision, IPC, hooks and housekeeping.  As in      *)
(* MCEdge an instance picks the one that runs.                             *)
(***************************************************************************)
EXTENDS Bootstrap, Backup, DataDir, Migrations, Supervisor, Readiness, Ipc,
        HookRunner, Retention, LegacyImport

VARIABLE part                         \* the service that runs

Parts == {"bootstrap", "backup", "config", "dir", "migrations", "supervisor", "readiness",
          "ipc", "hooks", "retention", "import"}

\* What does not run is at one of its initial states.
AtRest ==
    /\ IF part = "backup" THEN TRUE
       ELSE bkWorld = [has |-> {}, marker |-> FALSE, refs |-> FALSE, oldBuild |-> FALSE,
                       encrypted |-> FALSE, exchange |-> TRUE]
    /\ IF part = "config" THEN TRUE ELSE csKind = CHOOSE k \in Kinds : TRUE
    /\ IF part = "dir" THEN TRUE
       ELSE ddPath = [i \in Components |-> OurDir] /\ ddAsRoot = FALSE
    /\ IF part = "migrations" THEN TRUE ELSE file = "absent"
    /\ IF part = "supervisor" THEN TRUE ELSE work = "none" /\ unsent = FALSE
    /\ IF part = "readiness" THEN TRUE ELSE kind = "federation"
    /\ IF part = "ipc" THEN TRUE ELSE sock = "none"
    /\ IF part = "hooks" THEN TRUE ELSE shelf = <<GoodRecipe, NoRecipe>>

HostInit ==
    /\ part \in Parts /\ AtRest
    /\ BootInit /\ BackupInit /\ ConfigInit /\ DirInit /\ MigrationsInit /\ SupervisorInit
    /\ ReadinessInit /\ IpcInit /\ HookInit /\ RetentionInit /\ LegacyInit

\* Whatever does not run keeps its state.
Rest ==
    /\ UNCHANGED part
    /\ IF part = "bootstrap" THEN TRUE ELSE UNCHANGED bsVars
    /\ IF part = "backup" THEN TRUE ELSE UNCHANGED bkVars
    /\ IF part = "config" THEN TRUE ELSE UNCHANGED csVars
    /\ IF part = "dir" THEN TRUE ELSE UNCHANGED ddVars
    /\ IF part = "migrations" THEN TRUE ELSE UNCHANGED mgVars
    /\ IF part = "supervisor" THEN TRUE ELSE UNCHANGED svVars
    /\ IF part = "readiness" THEN TRUE ELSE UNCHANGED rdVars
    /\ IF part = "ipc" THEN TRUE ELSE UNCHANGED ipcVars
    /\ IF part = "hooks" THEN TRUE ELSE UNCHANGED hrVars
    /\ IF part = "retention" THEN TRUE ELSE UNCHANGED retentionVars
    /\ IF part = "import" THEN TRUE ELSE UNCHANGED liVars

HostNext ==
    \/ part = "bootstrap" /\ BootNext /\ Rest
    \/ part = "backup" /\ BackupNext /\ Rest
    \/ part = "config" /\ ConfigNext /\ Rest
    \/ part = "dir" /\ DirNext /\ Rest
    \/ part = "migrations" /\ MigrationsNext /\ Rest
    \/ part = "supervisor" /\ SupervisorNext /\ Rest
    \/ part = "readiness" /\ ReadinessNext /\ Rest
    \/ part = "ipc" /\ IpcNext /\ Rest
    \/ part = "hooks" /\ HookNext /\ Rest
    \/ part = "retention" /\ RetentionNext /\ Rest
    \/ part = "import" /\ LegacyNext /\ Rest

hostVars == <<part, bsVars, bkVars, csVars, ddVars, mgVars, svVars, rdVars, ipcVars, hrVars,
              retentionVars, liVars>>

\* States are told apart by the service that runs: the others never move.
Moving ==
    CASE part = "bootstrap" -> <<part, bsVars>>
      [] part = "backup" -> <<part, bkVars>>
      [] part = "config" -> <<part, csVars>>
      [] part = "dir" -> <<part, ddVars>>
      [] part = "migrations" -> <<part, mgVars>>
      [] part = "supervisor" -> <<part, svVars>>
      [] part = "readiness" -> <<part, rdVars>>
      [] part = "ipc" -> <<part, ipcVars>>
      [] part = "hooks" -> <<part, hrVars>>
      [] part = "retention" -> <<part, retentionVars>>
      [] part = "import" -> <<part, liVars>>

HostSpec == HostInit /\ [][HostNext]_hostVars

-----------------------------------------------------------------------------
(* The operator a start comes up with is the configured one: one identity  *)
(* and one federation over all starts, nothing left by a refused one, a    *)
(* fee schedule from one place, in a directory nobody else can redirect    *)
(* (config.rs bootstrap, overlay, create_private_dir_all).                 *)
ConfigurationHolds == OneOperator /\ RefusedIsClean /\ OnePlaceDecides /\ DirIsPrivate

(* The data directory is always one instant of the daemon with a complete  *)
(* schema: a restore or a migration cut short leaves the old state or the  *)
(* new, never a mixture and never a first boot (backup.rs restore,         *)
(* store.rs apply_migrations).                                             *)
StoreIsWhole == DirIsWhole /\ NeverFirstBoot /\ VersionIsWhole

(* A shutdown drains what was accepted: no message is left to send, no     *)
(* nudge is lost, and only a slow mutation may hold the IPC drain          *)
(* (supervisor.rs supervise, drain_stopped_inbound; ipc.rs                 *)
(* serve_with_shutdown).                                                   *)
ShutdownDrains == NothingLeftUnsent /\ NudgeKept /\ DrainHeldBySlowOnly
=============================================================================
