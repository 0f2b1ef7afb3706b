------------------------------ MODULE Intake ------------------------------
(***************************************************************************)
(* order_intake.rs, the buyer's requests on a running subscription         *)
(* (renew.request, sub.cancel), and ipc.rs, the operator's overrides of    *)
(* its state (suspend, resume).                                            *)
(***************************************************************************)
EXTENDS Billing

othersI == <<envVars, reservation, boxVars, mnt, rec>>

(* handle_renew: load the row, gate it, and size the invoice to what is    *)
(* left of the resumable window.  A cached request only resends its reply. *)
HandleRenew(r) ==
    LET remaining == ResumableUntil(paid_through, suspend_not_before) - now
    IN  /\ daemon = "up" /\ ren = RenIdle
        /\ Req(r) \notin DOMAIN invoice
        /\ state \in {"ACTIVE", "SUSPENDED"}
        /\ remaining >= MinRenewal
        /\ ren' = [req |-> {r}, expiry |-> Min2(remaining, InvoiceExpiry)]
        /\ UNCHANGED <<othersI, subVars, bookVars>>

RenewalWrite(r) == UpsertRenewalInvoice(Req(r), now + ren.expiry)

(* issue_renewal: mint the invoice at the backend, then RenewalWrite it.   *)
(* The row's state is not read again.  The backend may refuse.             *)
IssueRenewal(r) ==
    /\ r \in ren.req
    /\ ren' = RenIdle
    /\ \/ RenewalWrite(r)
       \/ UNCHANGED invoice
    /\ UNCHANGED <<othersI, subVars, refund_attempt, renew_resume>>

(* Mutant: the cancel keeps the reminder's cursor.                         *)
CancelKeepsCursor ==
    /\ daemon = "up"
    /\ state \in {"ACTIVE", "SUSPENDED"}
    /\ state' = "CANCELLED"
    /\ UNCHANGED <<othersI, ren, bookVars, paid_through, suspend_not_before,
                   next_deadline>>

(* CancelWrite: service runs to the end of what is paid, or of retention.  *)
CancelWrite ==
    /\ daemon = "up"
    /\ state \in {"ACTIVE", "SUSPENDED"}
    /\ state' = "CANCELLED"
    /\ next_deadline' = IF state = "ACTIVE" THEN paid_through ELSE next_deadline
    /\ UNCHANGED <<othersI, ren, bookVars, paid_through, suspend_not_before>>

(* admin_transition: only the state column moves.                          *)
AdminSuspend ==
    /\ daemon = "up" /\ state = "ACTIVE" /\ state' = "SUSPENDED"
    /\ UNCHANGED <<othersI, ren, bookVars, paid_through, suspend_not_before,
                   next_deadline>>

AdminResume ==
    /\ daemon = "up" /\ state = "SUSPENDED" /\ state' = "ACTIVE"
    /\ UNCHANGED <<othersI, ren, bookVars, paid_through, suspend_not_before,
                   next_deadline>>
=============================================================================
