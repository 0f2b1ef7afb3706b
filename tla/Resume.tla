------------------------------ MODULE Resume ------------------------------
(***************************************************************************)
(* resume.rs on the maintenance loop: drive a RESUMING row through the     *)
(* resume hook to ACTIVE, or back to SUSPENDED with every renewal of the   *)
(* batch refunded.  Also what the refund executor's success does to the    *)
(* subscription.                                                           *)
(***************************************************************************)
EXTENDS Billing

othersR == <<envVars, reservation, cleanup, teardown_failure, alerted, rec, ren>>

(* drive: load a RESUMING row and run every attempt of its hook, which can *)
(* only power on a box that still exists.                                  *)
ResumeDrive ==
    /\ MntFree /\ state = "RESUMING"
    /\ \/ box \in {"on", "off"} /\ box' = "on" /\ mnt' = "mark_active"
       \/ UNCHANGED box /\ mnt' = "resume_failure"
    /\ UNCHANGED <<othersR, subVars, bookVars>>

(* mark_active: CAS RESUMING -> ACTIVE; the timers capture set stay.  The  *)
(* resume_active event closes the batch.                                   *)
MarkActive ==
    /\ mnt = "mark_active"
    /\ mnt' = "idle"
    /\ IF state = "RESUMING"
       THEN state' = "ACTIVE" /\ renew_resume' = NoResume
       ELSE UNCHANGED <<state, renew_resume>>
    /\ UNCHANGED <<othersR, box, paid_through, suspend_not_before, next_deadline,
                   invoice, refund_attempt>>

(* Mutant: a permanent failure is logged and the row left as it is.        *)
ResumeFailureLogged ==
    /\ mnt = "resume_failure" /\ mnt' = "idle"
    /\ UNCHANGED <<othersR, box, subVars, bookVars>>

(* ResumeFailureWrite: restore the timers from before the batch, CAS       *)
(* RESUMING -> SUSPENDED and refund every renewal journaled in it.         *)
ResumeFailureWrite ==
    /\ mnt = "resume_failure"
    /\ mnt' = "idle"
    /\ IF state = "RESUMING"
       THEN LET pt == renew_resume.paid_through
                snb == renew_resume.suspend_not_before
            IN  /\ state' = "SUSPENDED"
                /\ paid_through' = pt
                /\ suspend_not_before' = snb
                /\ next_deadline' = ResumableUntil(pt, snb)
                /\ RefundIntent(renew_resume.pending)
                /\ renew_resume' = NoResume
       ELSE UNCHANGED <<subVars, refund_attempt, renew_resume>>
    /\ UNCHANGED <<othersR, box, invoice>>

-----------------------------------------------------------------------------
(* commit_sent, for the refund of a REFUND_DUE order: the subscription is  *)
(* REFUNDED and its hold released.  A refund sent for any other row leaves *)
(* the subscription untouched (the executor itself is module Refund).      *)
CommitSent ==
    /\ MntFree
    /\ state = "REFUND_DUE" /\ Order \in refund_attempt
    /\ state' = "REFUNDED"
    /\ next_deadline' = NoTime
    /\ ReleaseHold
    /\ UNCHANGED <<envVars, paid_through, suspend_not_before, bookVars, boxVars,
                   mnt, rec, ren>>
=============================================================================
