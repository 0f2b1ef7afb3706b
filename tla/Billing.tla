------------------------------ MODULE Billing ------------------------------
(***************************************************************************)
(* The durable books of one subscription, and the clocks and processes     *)
(* that work on them.  Every component module of the subscription          *)
(* lifecycle (Capture, Provision, Resume, Reconcile, Intake) EXTENDS this  *)
(* module and adds the actions of one daemon component.                    *)
(*                                                                         *)
(* Columns of the sqlite rows keep their source names.  A NULL column is   *)
(* NoTime.  soft_date is always paid_through - renew_lead_s in every       *)
(* writer, so it is the operator SoftDate and not a variable.              *)
(***************************************************************************)
EXTENDS Integers, FiniteSets

CONSTANTS
    Epoch,           \* the clock's reading when the order is taken
    Period,          \* period_s: how far one payment extends paid_through
    Lead,            \* renew_lead_s: the reminder comes this long before it
    Retention,       \* retention_s: a suspended box is kept this long
    InvoiceExpiry,   \* INVOICE_EXPIRY_S: order invoice (and hold) lifetime
    MinReminder,     \* RENEWAL_INVOICE_MIN_EXPIRY_S: floor of a reminder's expiry
    MinRenewal,      \* MIN_RENEWAL_INVOICE_EXPIRY_S: least window worth an invoice
    Requests,        \* request ids the buyer may put in renew.request
    Strays           \* external ids the backend may settle with no invoice row

ASSUME TimersAssumption ==
    /\ Epoch \in Nat /\ Period \in Nat \ {0} /\ Lead \in 0..(Epoch + Period)
    /\ Retention \in Nat
    /\ InvoiceExpiry \in Nat \ {0} /\ MinReminder \in Nat \ {0}
    /\ MinRenewal \in Nat \ {0}

NoTime == -1
Time == Nat \cup {NoTime}

(***************************************************************************)
(* External ids (invoice.external_id, UNIQUE): the order's own, one per    *)
(* cycle for the automatic renewal (renew:auto:<sub>:<paid_through>), one  *)
(* per buyer request (renew:req:<sender>:<id>), and strays.                *)
(***************************************************************************)
Order == <<"order", 0>>
AutoRenewal(pt) == <<"auto", pt>>
Req(r) == <<"req", r>>
Renewals == ({"auto"} \X Nat) \cup ({"req"} \X Requests)
Ext == {Order} \cup Renewals \cup Strays

(* An id of the daemon's own reaches a payer only with its invoice row.    *)
ASSUME StraysAssumption == \A e \in Strays : e \notin Renewals \cup {Order}

States == {"PENDING", "PROVISIONING", "ACTIVE", "SUSPENDED", "RESUMING",
           "CANCELLED", "EXPIRED", "TERMINATED", "REFUND_DUE", "REFUNDED"}

VARIABLES
    now,                 \* the daemon's clock
    daemon,              \* "up", "down", or a stage of boot_recovery
    state, paid_through, suspend_not_before, next_deadline,  \* subscription row
    invoice,             \* invoice rows, by external id
    refund_attempt,      \* external ids that have a refund_attempt row
    renew_resume,        \* unresolved renew_resume journal rows: who, and the
                         \* timers the first of them recorded
    reservation,         \* reservation.state
    last_heartbeat,      \* daemon_state.last_heartbeat
    paid,                \* backend: when each external id was paid
    box,                 \* provider: "absent", "on", "off", "gone"
    cleanup,             \* a provision CLEANUP_PENDING row without its DONE row
    teardown_failure,    \* an unresolved destroy dead letter
    alerted,             \* a PaidServiceDestroyed alert was enqueued
    mnt,                 \* the maintenance loop's position
    rec,                 \* the reconcile loop's position
    ren                  \* the renew.request handler's position

subVars == <<state, paid_through, suspend_not_before, next_deadline>>
bookVars == <<invoice, refund_attempt, renew_resume>>
boxVars == <<box, cleanup, teardown_failure, alerted>>
envVars == <<now, daemon, paid, last_heartbeat>>

(***************************************************************************)
(* Deadlines.  The downtime credit's floor only ever delays suspension;    *)
(* the same boundary B closes the window for capture, renew.request, the   *)
(* reminder's expiry and the settlement catch-up.                          *)
(***************************************************************************)
Max2(a, b) == IF a >= b THEN a ELSE b
Min2(a, b) == IF a <= b THEN a ELSE b
Clamp(x, lo, hi) == Max2(lo, Min2(x, hi))

SoftDate(pt) == pt - Lead
EffectiveSuspendAt(pt, snb) == Max2(pt, snb)
ResumableUntil(pt, snb) == EffectiveSuspendAt(pt, snb) + Retention

IsDue(t) == next_deadline # NoTime /\ next_deadline <= t

(***************************************************************************)
(* Row writers shared by several components.                               *)
(***************************************************************************)
PutInvoice(e, row) ==
    invoice' = [x \in DOMAIN invoice \cup {e} |->
                  IF x = e THEN row ELSE invoice[x]]

(* refund:<external_id> is UNIQUE and the insert does nothing on conflict. *)
RefundIntent(E) == refund_attempt' = refund_attempt \cup E

OpenInvoice(exp) == [status |-> "OPEN", expires_at |-> exp, settled_at |-> NoTime]

(* A row already PAID, or carrying a settlement, is never refreshed; an    *)
(* EXPIRED one reopens with the replacement's expiry.                      *)
UpsertRenewalInvoice(e, exp) ==
    IF e \in DOMAIN invoice /\ (invoice[e].status = "PAID" \/ invoice[e].settled_at # NoTime)
    THEN UNCHANGED invoice
    ELSE PutInvoice(e, OpenInvoice(exp))

(* Mutant: release_txn matches HELD rows only.                             *)
ReleaseHeldOnly == reservation' = IF reservation = "HELD" THEN "RELEASED" ELSE reservation

ReleaseHold == reservation' = "RELEASED"

OpenRenewals == {e \in DOMAIN invoice : e \in Renewals /\ invoice[e].status = "OPEN"}

(* renewal_settlement_pending looks every OPEN renewal up at the backend:  *)
(* pending when one is Paid, and also when a lookup fails, which it may    *)
(* whenever there is one to look up.                                       *)
MayBePending == OpenRenewals # {}
(* Mutant: only the current cycle's automatic invoice is looked up.        *)
AutoMayBeClear == AutoRenewal(paid_through) \notin DOMAIN paid

MayBeClear == OpenRenewals \cap DOMAIN paid = {}

NoResume == [pending |-> {}, paid_through |-> NoTime, suspend_not_before |-> NoTime]

(***************************************************************************)
(* Where each loop stands between two of its durable steps.  An idle loop  *)
(* holds nothing, so a crash puts every loop back to idle.                 *)
(***************************************************************************)
RecIdle == [pc |-> "idle", t |-> 0, nd |-> 0, pt |-> 0, eff |-> 0, failed |-> FALSE]
RenIdle == [req |-> {}, expiry |-> 0]

RecAt(pc) == rec.pc = pc
RecGo(pc) == rec' = [rec EXCEPT !.pc = pc]

(* The maintenance loop starts a driver: it is free, in a pass or at boot. *)
MntFree == mnt = "idle" /\ daemon \in {"up", "boot"}
=============================================================================
