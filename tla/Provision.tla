----------------------------- MODULE Provision -----------------------------
(***************************************************************************)
(* provision.rs on the single maintenance loop: recover re-drives a        *)
(* PROVISIONING row (load, hook, one transaction) and then the cleanups a  *)
(* failed provision still owes.  A step between two of these actions is    *)
(* where the process can die.                                              *)
(***************************************************************************)
EXTENDS Billing

othersP == <<envVars, rec, ren>>

(* drive: load a PROVISIONING row and run every attempt of its hook.  A    *)
(* failed hook may have left a partial box behind.                         *)
ProvisionDrive ==
    /\ MntFree /\ state = "PROVISIONING"
    /\ \/ mnt' = "active_write" /\ box' = "on"
       \/ mnt' = "refund_due_write" /\ box' \in {box, "on"}
    /\ UNCHANGED <<othersP, subVars, bookVars, reservation, cleanup,
                   teardown_failure, alerted>>

(* claim_cleanup_if_unowned_txn: a drive that lost its CAS owes a cleanup  *)
(* unless a tracked instance (written with paid_through) owns the box.     *)
LostCas ==
    /\ cleanup' = (cleanup \/ paid_through = NoTime)
    /\ mnt' = "idle"
    /\ UNCHANGED <<subVars, reservation, refund_attempt>>

(* ActiveWrite: CAS PROVISIONING -> ACTIVE, consume the hold, set timers   *)
(* from the order's settlement; a lost hold rolls back to REFUND_DUE.      *)
ActiveWrite ==
    /\ mnt = "active_write"
    /\ CASE state # "PROVISIONING" -> LostCas
         [] state = "PROVISIONING" /\ reservation # "HELD" ->
              /\ mnt' = "refund_due_write"
              /\ UNCHANGED <<subVars, reservation, refund_attempt, cleanup>>
         [] OTHER ->
              LET pt == invoice[Order].settled_at + Period
              IN  /\ state' = "ACTIVE"
                  /\ paid_through' = pt
                  /\ next_deadline' = SoftDate(pt)
                  /\ reservation' = "CONSUMED"
                  /\ mnt' = "idle"
                  /\ UNCHANGED <<suspend_not_before, refund_attempt, cleanup>>
    /\ UNCHANGED <<othersP, invoice, renew_resume, box, teardown_failure, alerted>>

(* RefundDueWrite: CAS PROVISIONING -> REFUND_DUE with the refund intent   *)
(* and the durable cleanup intent; the hold stays HELD.                    *)
RefundDueWrite ==
    /\ mnt = "refund_due_write"
    /\ IF state # "PROVISIONING" THEN LostCas
       ELSE /\ mnt' = "idle"
            /\ state' = "REFUND_DUE"
            /\ next_deadline' = NoTime
            /\ RefundIntent({Order})
            /\ cleanup' = TRUE
            /\ UNCHANGED <<paid_through, suspend_not_before, reservation>>
    /\ UNCHANGED <<othersP, invoice, renew_resume, box, teardown_failure, alerted>>

(* Mutant: a failed destroy hook is taken for a finished cleanup.          *)
CleanupTakenForDone ==
    /\ MntFree /\ cleanup
    /\ box' \in {box, "gone"} /\ mnt' = "cleanup_done"
    /\ UNCHANGED <<othersP, subVars, bookVars, reservation, cleanup,
                   teardown_failure, alerted>>

(* complete_failed_cleanup: a destroy hook that succeeds is followed by    *)
(* CLEANUP_DONE; one that fails leaves the intent for the next pass.       *)
CompleteFailedCleanup ==
    /\ MntFree /\ cleanup
    /\ box' = "gone" /\ mnt' = "cleanup_done"
    /\ UNCHANGED <<othersP, subVars, bookVars, reservation, cleanup,
                   teardown_failure, alerted>>

FinishFailedCleanup ==
    /\ mnt = "cleanup_done"
    /\ cleanup' = FALSE
    /\ mnt' = "idle"
    /\ UNCHANGED <<othersP, subVars, bookVars, reservation, box,
                   teardown_failure, alerted>>
=============================================================================
