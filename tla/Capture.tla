------------------------------ MODULE Capture ------------------------------
(***************************************************************************)
(* capture.rs: apply one settlement of external id e, settled at s, to the *)
(* books in a single store transaction; and its two callers, the           *)
(* settlement stream and the settlement catch-up of supervisor.rs.         *)
(***************************************************************************)
EXTENDS Billing

(* The order gate: a settlement at or after the expiry is refunded.        *)
OrderInWindow(e, s) == e = Order /\ state = "PENDING" /\ s < invoice[e].expires_at

(* The renewal gate: the credited resumable boundary, inclusive-terminal.  *)
RenewalInWindow(e, s) ==
    /\ e \in Renewals
    /\ state \in {"ACTIVE", "SUSPENDED", "RESUMING"}
    /\ s < ResumableUntil(paid_through, suspend_not_before)

CaptureOrder ==
    /\ state' = "PROVISIONING"
    /\ next_deadline' = NoTime
    /\ UNCHANGED <<paid_through, suspend_not_before, refund_attempt, renew_resume>>

(* Mutant: a stacked renewal replaces the one before it.                   *)
JournalLatestOnly(e) ==
    renew_resume' =
        IF renew_resume.pending = {}
        THEN [pending |-> {e}, paid_through |-> paid_through,
              suspend_not_before |-> suspend_not_before]
        ELSE [renew_resume EXCEPT !.pending = {e}]

(* The journal keeps the timers of the first renewal of an unresolved      *)
(* resume batch: what a permanent resume failure restores.                 *)
JournalRenewResume(e) ==
    renew_resume' =
        IF renew_resume.pending = {}
        THEN [pending |-> {e}, paid_through |-> paid_through,
              suspend_not_before |-> suspend_not_before]
        ELSE [renew_resume EXCEPT !.pending = @ \cup {e}]

(* Mutant: the period runs from the settlement, not from the paid window.  *)
PeriodFromSettlement(s) == s + Period

(* A renewal paid early adds to the window; one paid late restarts it.     *)
ExtendedTo(s) == Max2(paid_through, s) + Period

CaptureRenewal(e, s) ==
    LET pt == ExtendedTo(s)
    IN  /\ paid_through' = pt
        /\ next_deadline' = SoftDate(pt)
        /\ suspend_not_before' = NoTime
        /\ IF state = "ACTIVE"
           THEN UNCHANGED <<state, renew_resume>>
           ELSE state' = "RESUMING" /\ JournalRenewResume(e)
        /\ UNCHANGED refund_attempt

(* apply_paid: the invoice just turned PAID; route by class and state.     *)
ApplyPaid(e, s) ==
    \/ OrderInWindow(e, s) /\ CaptureOrder
    \/ RenewalInWindow(e, s) /\ CaptureRenewal(e, s)
    \/ /\ ~OrderInWindow(e, s) /\ ~RenewalInWindow(e, s)
       /\ RefundIntent({e})
       /\ UNCHANGED <<subVars, renew_resume>>

(* Mutant: the status flips without its settlement time.                   *)
PaidRowUnstamped(e, s) == [invoice[e] EXCEPT !.status = "PAID"]

PaidRow(e, s) == [invoice[e] EXCEPT !.status = "PAID", !.settled_at = s]

(* capture_txn: invoice-status-first.                                      *)
CaptureTxn(e, s) ==
    \/ /\ e \notin DOMAIN invoice
       /\ RefundIntent({e})
       /\ UNCHANGED <<subVars, invoice, renew_resume>>
    \/ /\ e \in DOMAIN invoice /\ invoice[e].status = "PAID"
       /\ UNCHANGED <<subVars, bookVars>>
    \/ /\ e \in DOMAIN invoice /\ invoice[e].status = "OPEN"
       /\ PutInvoice(e, PaidRow(e, s))
       /\ ApplyPaid(e, s)
    \/ /\ e \in DOMAIN invoice /\ invoice[e].status = "EXPIRED"
       /\ PutInvoice(e, [invoice[e] EXCEPT
                           !.settled_at = IF @ = NoTime THEN s ELSE @])
       /\ RefundIntent({e})
       /\ UNCHANGED <<subVars, renew_resume>>

-----------------------------------------------------------------------------
(* run_settlement_loop: a live settlement carries its true time.  Nothing  *)
(* stops the backend from delivering it late, twice or never.              *)
DeliverSettlement(e) ==
    /\ daemon = "up"
    /\ e \in DOMAIN paid
    /\ CaptureTxn(e, paid[e])
    /\ UNCHANGED <<envVars, boxVars, reservation, mnt, rec, ren>>

(* recovered_settled_at: a settlement with no live timestamp is stamped    *)
(* now, or just inside the binding cap once now has passed it.             *)
RecoveredSettledAt(e) ==
    LET cap == IF e \in Renewals /\ paid_through # NoTime
               THEN Min2(invoice[e].expires_at,
                         ResumableUntil(paid_through, suspend_not_before))
               ELSE invoice[e].expires_at
    IN  IF now >= cap THEN cap - 1 ELSE now

(* Mutant: renewals are left to the stream.                                *)
OpenOrderPaid(e) == e = Order /\ e \in DOMAIN paid /\ invoice[e].status = "OPEN"

(* A row the catch-up scans and the backend reports Paid.                  *)
OpenPaid(e) == e \in DOMAIN invoice \cap DOMAIN paid /\ invoice[e].status = "OPEN"

(* settlement_catch_up, at boot and on the maintenance interval: look an   *)
(* OPEN row up at the backend and capture it if Paid.  A row that is not   *)
(* Paid, or whose lookup fails, is left for the next catch-up.             *)
SettlementCatchUp(e) ==
    /\ MntFree
    /\ OpenPaid(e)
    /\ \E s \in {paid[e], RecoveredSettledAt(e)} : CaptureTxn(e, s)
    /\ UNCHANGED <<envVars, boxVars, reservation, mnt, rec, ren>>
=============================================================================
