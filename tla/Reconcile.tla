----------------------------- MODULE Reconcile -----------------------------
(***************************************************************************)
(* reconcile.rs: one tick of the reconcile loop, step by step.  A tick     *)
(* reads the clock once (rec.t), snapshots the due row, and runs hooks and *)
(* backend lookups between that read and its guarded write, so capture,    *)
(* renew.request, sub.cancel and the operator may all move the row in      *)
(* between.  boot_recovery runs the same tick as its last step, alone.     *)
(***************************************************************************)
EXTENDS Billing

othersC == <<now, daemon, paid, renew_resume, mnt, ren>>

(***************************************************************************)
(* due_subscriptions, the dispatch of the row's one transition, and the    *)
(* re-reads that gate it: fire_suspend waits for the credited floor, and   *)
(* fire_suspend and fire_destroy defer to a renewal that may be pending at *)
(* the backend.                                                            *)
(***************************************************************************)
Dispatch(pc) ==
    LET eff == EffectiveSuspendAt(paid_through, suspend_not_before)
    IN  IF ~IsDue(now) THEN pc = "finish" ELSE
        CASE state = "PENDING" -> pc = "order_expiry"
          [] state = "ACTIVE" /\ next_deadline < paid_through -> pc = "remind"
          [] state = "ACTIVE" /\ next_deadline >= paid_through ->
               \/ pc = "finish" /\ (now < eff \/ MayBePending)
               \/ pc = "suspend_hook" /\ now >= eff /\ MayBeClear
          [] state \in {"SUSPENDED", "CANCELLED"} ->
               \/ pc = "finish" /\ MayBePending
               \/ pc = "destroy_hook" /\ MayBeClear
          [] OTHER -> pc = "finish"

(* Mutant: the guarded write checks the state and not the cursor.          *)
StillIn(S) == state \in S

(* The WHERE clause of a guarded write: the row is as the tick read it.    *)
StillDue(S) == state \in S /\ next_deadline = rec.nd

ReconcileTick ==
    /\ RecAt("idle") /\ daemon \in {"up", "boot_tick"}
    /\ \E pc \in {"finish", "order_expiry", "remind", "suspend_hook", "destroy_hook"} :
          /\ Dispatch(pc)
          /\ rec' = [pc |-> pc, t |-> now, nd |-> next_deadline, pt |-> paid_through,
                     eff |-> EffectiveSuspendAt(paid_through, suspend_not_before),
                     failed |-> FALSE]
    /\ UNCHANGED <<othersC, subVars, invoice, refund_attempt, reservation,
                   last_heartbeat, boxVars>>

-----------------------------------------------------------------------------
(* order_invoice_may_expire: no OPEN order invoice, or one not Paid.       *)
OrderMayExpire == ~(invoice[Order].status = "OPEN" /\ Order \in DOMAIN paid)

(* fire_pending_expiry: CAS (PENDING, nd) -> EXPIRED, unless the OPEN      *)
(* order invoice is Paid at the backend or its lookup fails.               *)
FirePendingExpiry ==
    /\ RecAt("order_expiry")
    /\ RecGo("finish")
    /\ \/ /\ invoice[Order].status = "OPEN" \/ state # "PENDING"
          /\ UNCHANGED <<state, next_deadline, reservation, invoice>>
       \/ /\ OrderMayExpire
          /\ StillDue({"PENDING"})
          /\ state' = "EXPIRED"
          /\ next_deadline' = NoTime
          /\ ReleaseHold
          /\ IF invoice[Order].status = "OPEN"
             THEN PutInvoice(Order, [invoice[Order] EXCEPT !.status = "EXPIRED"])
             ELSE UNCHANGED invoice
    /\ UNCHANGED <<othersC, paid_through, suspend_not_before, refund_attempt,
                   last_heartbeat, boxVars>>

-----------------------------------------------------------------------------
(* SoftReminderWrite: CAS (ACTIVE, nd), the cursor moves to the suspend    *)
(* floor and the cycle's invoice is written.                               *)
SoftReminderWrite(expiry) ==
    /\ StillDue({"ACTIVE"})
    /\ next_deadline' = rec.eff
    /\ UpsertRenewalInvoice(AutoRenewal(rec.pt), expiry)

(* fire_soft_reminder: mint the cycle's invoice, sized to the credited     *)
(* boundary.  A backend that cannot mint leaves the cursor as it is.       *)
FireSoftReminder ==
    /\ RecAt("remind")
    /\ RecGo("finish")
    /\ \/ UNCHANGED <<next_deadline, invoice>>
       \/ SoftReminderWrite(now + Max2(rec.eff + Retention - rec.t, MinReminder))
    /\ UNCHANGED <<othersC, state, paid_through, suspend_not_before,
                   refund_attempt, reservation, last_heartbeat, boxVars>>

-----------------------------------------------------------------------------
(* fire_suspend.  The hook may fail; the row moves all the same.           *)
SuspendHook ==
    /\ RecAt("suspend_hook")
    /\ RecGo("suspend_write")
    /\ \/ box = "on" /\ box' = "off"
       \/ UNCHANGED box
    /\ UNCHANGED <<othersC, subVars, invoice, refund_attempt, reservation,
                   last_heartbeat, cleanup, teardown_failure, alerted>>

(* CAS (ACTIVE, nd) -> SUSPENDED until the credited retention end.  If it  *)
(* lost to a renewal that kept the row ACTIVE, the box must be repowered.  *)
SuspendWrite ==
    /\ RecAt("suspend_write")
    /\ IF StillDue({"ACTIVE"})
       THEN /\ state' = "SUSPENDED"
            /\ next_deadline' = rec.eff + Retention
            /\ RecGo("finish")
       ELSE /\ RecGo(IF state = "ACTIVE" THEN "repower" ELSE "finish")
            /\ UNCHANGED <<state, next_deadline>>
    /\ UNCHANGED <<othersC, paid_through, suspend_not_before, invoice,
                   refund_attempt, reservation, last_heartbeat, boxVars>>

(* The compensating resume hook; its failure is only logged.               *)
Repower ==
    /\ RecAt("repower")
    /\ RecGo("finish")
    /\ \/ box \in {"on", "off"} /\ box' = "on"
       \/ UNCHANGED box
    /\ UNCHANGED <<othersC, subVars, invoice, refund_attempt, reservation,
                   last_heartbeat, cleanup, teardown_failure, alerted>>

-----------------------------------------------------------------------------
DestroyHook ==
    /\ RecAt("destroy_hook")
    /\ \/ box' = "gone" /\ rec' = [rec EXCEPT !.pc = "destroy_recheck"]
       \/ UNCHANGED box /\ rec' = [rec EXCEPT !.pc = "destroy_recheck", !.failed = TRUE]
    /\ UNCHANGED <<othersC, subVars, invoice, refund_attempt, reservation,
                   last_heartbeat, cleanup, teardown_failure, alerted>>

(* A renewal paid during the hook: the box is gone, so alert and leave the *)
(* row for capture instead of terminating it.                              *)
DestroyRecheck ==
    /\ RecAt("destroy_recheck")
    /\ \/ MayBePending /\ RecGo("finish") /\ alerted' = TRUE
       \/ MayBeClear /\ RecGo("destroy_write") /\ UNCHANGED alerted
    /\ UNCHANGED <<othersC, subVars, invoice, refund_attempt, reservation,
                   last_heartbeat, box, cleanup, teardown_failure>>

(* Mutant: only a row still being resumed is reported.                     *)
AlertIfResuming == alerted' = (alerted \/ state = "RESUMING")

(* A lost terminate CAS on a row that is not TERMINATED alerts.            *)
AlertIfAlive == alerted' = (alerted \/ state # "TERMINATED")

(* CAS (SUSPENDED|CANCELLED, nd) -> TERMINATED, releasing the hold and     *)
(* dead-lettering a failed hook; a lost CAS on a live row alerts.          *)
DestroyWrite ==
    /\ RecAt("destroy_write")
    /\ RecGo("finish")
    /\ IF StillDue({"SUSPENDED", "CANCELLED"})
       THEN /\ state' = "TERMINATED"
            /\ next_deadline' = NoTime
            /\ ReleaseHold
            /\ teardown_failure' = (teardown_failure \/ rec.failed)
            /\ UNCHANGED alerted
       ELSE /\ AlertIfAlive
            /\ UNCHANGED <<state, next_deadline, reservation, teardown_failure>>
    /\ UNCHANGED <<othersC, paid_through, suspend_not_before, invoice,
                   refund_attempt, last_heartbeat, box, cleanup>>

-----------------------------------------------------------------------------
(* expire_open_renewals: flip the OPEN renewals past their expiry that are *)
(* not Paid at the backend; an unanswered lookup skips one.                *)
Lapsed == {e \in OpenRenewals \ DOMAIN paid : invoice[e].expires_at <= rec.t}

ExpireOpenRenewals ==
    \E E \in SUBSET Lapsed :
        invoice' = [e \in DOMAIN invoice |->
                      IF e \in E THEN [invoice[e] EXCEPT !.status = "EXPIRED"]
                      ELSE invoice[e]]

(* write_heartbeat: the tick's own clock reading, never moved back.        *)
WriteHeartbeat(t) == last_heartbeat' = Max2(last_heartbeat, t)

(* Mutant: a retry resolves its dead letter whatever the hook returned.    *)
RetryGivesUp ==
    \/ UNCHANGED <<box, teardown_failure>>
    \/ /\ teardown_failure /\ state = "TERMINATED"
       /\ box' \in {box, "gone"} /\ teardown_failure' = FALSE

(* retry_teardowns: re-run the destroy hook of an open dead letter, only   *)
(* against a terminated row.                                               *)
RetryTeardowns ==
    \/ UNCHANGED <<box, teardown_failure>>
    \/ /\ teardown_failure /\ state = "TERMINATED"
       /\ box' = "gone" /\ teardown_failure' = FALSE

(* The rest of the tick, after the due scan.  The boot tick ends the boot. *)
FinishTick ==
    /\ RecAt("finish")
    /\ rec' = RecIdle
    /\ daemon' = "up"
    /\ ExpireOpenRenewals
    /\ WriteHeartbeat(rec.t)
    /\ RetryTeardowns
    /\ UNCHANGED <<now, paid, renew_resume, mnt, ren, subVars, refund_attempt,
                   reservation, cleanup, alerted>>

-----------------------------------------------------------------------------
(* Mutant: a second outage counts the first one's hours as seen.           *)
RawWindowStart(floor) == SoftDate(paid_through)

(* Where the credited lead window begins, moved right by earlier credits.  *)
WindowStart(floor) == Max2(SoftDate(paid_through), floor - Lead)

(* Mutant: the retention spent during the outage is not given back.        *)
RemainingNow(b_old) == Clamp(b_old - now, 0, Retention)

(* What was left of the retention window at the last heartbeat.            *)
RemainingRetention(b_old) == Clamp(b_old - last_heartbeat, 0, Retention)

(* apply_restart_downtime_credit, the ACTIVE arm: the buyer gets a full    *)
(* renew_lead of online time, measured from what was seen before the       *)
(* outage [last_heartbeat, now].                                           *)
CreditActive ==
    LET floor == EffectiveSuspendAt(paid_through, suspend_not_before)
        pre_available == Clamp(last_heartbeat - WindowStart(floor), 0, Lead)
        new_floor == Max2(floor, now + (Lead - pre_available))
        new_cursor == IF next_deadline < paid_through THEN next_deadline ELSE new_floor
    IN  IF /\ SoftDate(paid_through) <= now /\ floor >= last_heartbeat
           /\ ~(floor = new_floor /\ new_cursor = next_deadline)
        THEN suspend_not_before' = new_floor /\ next_deadline' = new_cursor
        ELSE UNCHANGED <<suspend_not_before, next_deadline>>

(* The SUSPENDED arm: what was left of the retention is left again now.    *)
CreditSuspended ==
    LET e_old == EffectiveSuspendAt(paid_through, suspend_not_before)
        b_old == e_old + Retention
        new_floor == Max2(e_old, now + RemainingRetention(b_old) - Retention)
        new_b == new_floor + Retention
    IN  IF e_old <= now /\ b_old > last_heartbeat /\ new_b > next_deadline
        THEN suspend_not_before' = new_floor /\ next_deadline' = new_b
        ELSE UNCHANGED <<suspend_not_before, next_deadline>>

ApplyRestartDowntimeCredit ==
    /\ WriteHeartbeat(now)
    /\ CASE now > last_heartbeat /\ state = "ACTIVE" -> CreditActive
         [] now > last_heartbeat /\ state = "SUSPENDED" -> CreditSuspended
         [] OTHER -> UNCHANGED <<suspend_not_before, next_deadline>>
    /\ UNCHANGED <<state, paid_through>>
=============================================================================
