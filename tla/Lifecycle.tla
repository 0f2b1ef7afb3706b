----------------------------- MODULE Lifecycle -----------------------------
(***************************************************************************)
(* One subscription from its issued order invoice to its end: the daemon's *)
(* concurrent loops (settlement stream, maintenance, reconcile, inbound    *)
(* requests, operator) over the same sqlite books, a buyer who pays any    *)
(* invoice at any time, and a process that may die between any two steps.  *)
(***************************************************************************)
EXTENDS Capture, Provision, Resume, Reconcile, Intake

CONSTANTS
    MaxTime,       \* bound: the clock stops this long after Epoch
    MaxSpan,       \* bound: how far the clock outruns the reconcile loop of a running daemon
    MaxCrashes,    \* bound: how often the daemon dies
    AdminActs      \* whether the operator uses suspend and resume

ASSUME BoundsAssumption ==
    MaxTime \in Nat /\ MaxSpan \in Nat /\ MaxCrashes \in Nat /\ AdminActs \in BOOLEAN

\* For an instance in which the backend settles one id nobody invoiced.
AStray == {<<"stray", 0>>}

VARIABLES
    crashes,       \* how often the daemon died
    online,        \* history: the clock values at which the daemon was up
    credited       \* history: the cycles (paid_through) restarts looked at, NoTime
                   \* for a restart that found the row where it gives no credit

vars == <<now, daemon, state, paid_through, suspend_not_before, next_deadline,
          invoice, refund_attempt, renew_resume, reservation, last_heartbeat,
          paid, box, cleanup, teardown_failure, alerted, mnt, rec, ren,
          crashes, online, credited>>

history == <<crashes, online, credited>>

(* What OrderWrite committed: a PENDING row due at the invoice's expiry,   *)
(* an OPEN order invoice and a HELD reservation.                           *)
Init ==
    /\ now = Epoch /\ daemon = "up" /\ last_heartbeat = Epoch
    /\ state = "PENDING" /\ paid_through = NoTime
    /\ suspend_not_before = NoTime /\ next_deadline = Epoch + InvoiceExpiry
    /\ invoice = [e \in {Order} |-> OpenInvoice(Epoch + InvoiceExpiry)]
    /\ refund_attempt = {}
    /\ renew_resume = NoResume
    /\ reservation = "HELD"
    /\ paid = [e \in {} |-> 0]
    /\ box = "absent" /\ cleanup = FALSE /\ teardown_failure = FALSE
    /\ alerted = FALSE
    /\ mnt = "idle" /\ rec = RecIdle /\ ren = RenIdle
    /\ crashes = 0 /\ online = {} /\ credited = {}

(* The reachable state in which the order was paid, captured and           *)
(* provisioned at once: where the runs about renewals begin.               *)
InitActive ==
    /\ now = Epoch /\ daemon = "up" /\ last_heartbeat = Epoch
    /\ state = "ACTIVE" /\ paid_through = Epoch + Period
    /\ suspend_not_before = NoTime /\ next_deadline = SoftDate(Epoch + Period)
    /\ invoice = [e \in {Order} |-> [status |-> "PAID", settled_at |-> Epoch,
                                     expires_at |-> Epoch + InvoiceExpiry]]
    /\ refund_attempt = {}
    /\ renew_resume = NoResume
    /\ reservation = "CONSUMED"
    /\ paid = [e \in {Order} |-> Epoch]
    /\ box = "on" /\ cleanup = FALSE /\ teardown_failure = FALSE
    /\ alerted = FALSE
    /\ mnt = "idle" /\ rec = RecIdle /\ ren = RenIdle
    /\ crashes = 0 /\ online = {} /\ credited = {}

-----------------------------------------------------------------------------
(* The environment.                                                        *)
Tick ==
    /\ now < Epoch + MaxTime
    /\ daemon # "down" => now <= last_heartbeat + MaxSpan
    /\ now' = now + 1
    /\ online' = IF daemon = "down" THEN online ELSE online \cup {now}
    /\ UNCHANGED <<daemon, paid, last_heartbeat, subVars, bookVars, boxVars,
                   reservation, mnt, rec, ren, crashes, credited>>

(* A buyer pays an invoice up to, and late at, the instant it expires.     *)
Pay(e) ==
    /\ e \in (DOMAIN invoice \cup Strays) \ DOMAIN paid
    /\ e \in DOMAIN invoice => now <= invoice[e].expires_at
    /\ paid' = [x \in DOMAIN paid \cup {e} |-> IF x = e THEN now ELSE paid[x]]
    /\ UNCHANGED <<now, daemon, last_heartbeat, subVars, bookVars, boxVars,
                   reservation, mnt, rec, ren, history>>

Crash ==
    /\ daemon # "down" /\ crashes < MaxCrashes
    /\ crashes' = crashes + 1
    /\ daemon' = "down"
    /\ mnt' = "idle" /\ rec' = RecIdle /\ ren' = RenIdle
    /\ UNCHANGED <<now, paid, last_heartbeat, subVars, bookVars, boxVars,
                   reservation, online, credited>>

(* Not a driver-owned row, nor an ACTIVE one kept past its suspend floor.  *)
Creditable ==
    \/ state = "SUSPENDED"
    \/ state = "ACTIVE" /\ EffectiveSuspendAt(paid_through, suspend_not_before) >= last_heartbeat

(* boot_recovery: the credit first ...                                     *)
Restart ==
    /\ daemon = "down"
    /\ daemon' = "boot"
    /\ ApplyRestartDowntimeCredit
    /\ credited' = credited \cup {IF Creditable THEN paid_through ELSE NoTime}
    /\ UNCHANGED <<now, paid, bookVars, boxVars, reservation, mnt, rec, ren, crashes, online>>

(* ... then the catch-up and the drivers, and last the reconcile tick.     *)
BootDrivesDone ==
    /\ daemon = "boot" /\ mnt = "idle"
    /\ daemon' = "boot_tick"
    /\ UNCHANGED <<now, paid, last_heartbeat, subVars, bookVars, boxVars,
                   reservation, mnt, rec, ren, history>>

-----------------------------------------------------------------------------
CaptureNext == \E e \in DOMAIN invoice \cup Strays :
    DeliverSettlement(e) \/ SettlementCatchUp(e)

MaintenanceNext ==
    \/ ProvisionDrive \/ ActiveWrite \/ RefundDueWrite
    \/ CompleteFailedCleanup \/ FinishFailedCleanup
    \/ ResumeDrive \/ MarkActive \/ ResumeFailureWrite
    \/ CommitSent

ReconcileNext ==
    \/ ReconcileTick \/ FirePendingExpiry \/ FireSoftReminder
    \/ SuspendHook \/ SuspendWrite \/ Repower
    \/ DestroyHook \/ DestroyRecheck \/ DestroyWrite
    \/ FinishTick

IntakeNext ==
    \/ \E r \in Requests : HandleRenew(r) \/ IssueRenewal(r)
    \/ CancelWrite

AdminNext == AdminActs /\ (AdminSuspend \/ AdminResume)

Next ==
    \/ (CaptureNext \/ MaintenanceNext \/ ReconcileNext
        \/ IntakeNext \/ AdminNext) /\ UNCHANGED history
    \/ Tick \/ Crash \/ Restart \/ BootDrivesDone
    \/ \E e \in DOMAIN invoice \cup Strays : Pay(e)

Spec == Init /\ [][Next]_vars
SpecActive == InitActive /\ [][Next]_vars

(***************************************************************************)
(* Fairness: the supervisor restarts the daemon and re-arms both loops on  *)
(* their intervals, every driver runs in every maintenance pass, and hooks *)
(* time out.  Nothing is assumed of the buyer, of the clock, of the        *)
(* settlement stream (it may miss a payment) or of the requests.           *)
(***************************************************************************)
Fairness ==
    /\ WF_vars(\E e \in DOMAIN invoice : SettlementCatchUp(e) /\ UNCHANGED history)
    /\ WF_vars(MaintenanceNext /\ UNCHANGED history)
    /\ WF_vars(ReconcileNext /\ UNCHANGED history)
    /\ WF_vars(Restart) /\ WF_vars(BootDrivesDone)

FairSpec == Spec /\ Fairness

-----------------------------------------------------------------------------
Clock == {t \in Nat : t >= Epoch}
PaidThroughs == {t \in Nat : t > Epoch} \cup {NoTime}
InvoiceRow ==
    [status : {"OPEN", "EXPIRED"}, expires_at : Clock \ {Epoch}, settled_at : Clock \cup {NoTime}]
    \cup [status : {"PAID"}, expires_at : Clock \ {Epoch}, settled_at : Clock]

ClocksOK ==
    /\ now \in Clock /\ last_heartbeat \in Clock
    /\ daemon \in {"up", "down", "boot", "boot_tick"}
    /\ DOMAIN paid \subseteq Ext /\ paid \in [DOMAIN paid -> Clock]
SubOK ==
    /\ state \in States
    /\ paid_through \in PaidThroughs
    /\ suspend_not_before \in Time /\ next_deadline \in Time
InvoicesOK == DOMAIN invoice \subseteq Ext /\ invoice \in [DOMAIN invoice -> InvoiceRow]
BooksOK ==
    /\ refund_attempt \in SUBSET Ext
    /\ renew_resume \in [pending : SUBSET Renewals, paid_through : PaidThroughs,
                         suspend_not_before : Time]
BoxOK ==
    /\ reservation \in {"HELD", "CONSUMED", "RELEASED"}
    /\ box \in {"absent", "on", "off", "gone"}
    /\ cleanup \in BOOLEAN /\ teardown_failure \in BOOLEAN /\ alerted \in BOOLEAN
LoopsOK ==
    /\ mnt \in {"idle", "active_write", "refund_due_write", "cleanup_done",
                "mark_active", "resume_failure"}
    /\ rec \in [pc : {"idle", "finish", "order_expiry", "remind", "suspend_hook",
                      "suspend_write", "repower", "destroy_hook", "destroy_recheck",
                      "destroy_write"},
                t : Nat, nd : Time, pt : Time, eff : Time, failed : BOOLEAN]
    /\ ren \in [req : SUBSET Requests, expiry : Nat]
HistoryOK == crashes \in Nat /\ online \subseteq Nat /\ credited \subseteq PaidThroughs

(* The books hold what their columns may hold.  In particular an invoice   *)
(* turns PAID only together with its settlement time (capture_txn), which  *)
(* is what ActiveWrite and capture compute paid_through from, and every    *)
(* deadline computed from the timers is a time.                            *)
TypeOK ==
    ClocksOK /\ SubOK /\ InvoicesOK /\ BooksOK /\ BoxOK /\ LoopsOK /\ HistoryOK

(* Capacity and service agree: a slot is HELD exactly while an order may   *)
(* still become a box (a failed one keeps it until its refund is sent),    *)
(* CONSUMED while a box is owed, and RELEASED exactly when the row is      *)
(* final (consume_txn, release_txn and the writers that call them).        *)
Holding == {"PENDING", "PROVISIONING", "REFUND_DUE"}
Serving == {"ACTIVE", "SUSPENDED", "RESUMING", "CANCELLED"}
HoldFollowsState ==
    reservation = CASE state \in Holding -> "HELD"
                    [] state \in Serving -> "CONSUMED"
                    [] OTHER -> "RELEASED"

(* Every receipt that is not being refunded bought exactly one period: the *)
(* paid window is never shorter than the order's settlement plus a period  *)
(* for each, and never longer than had they all come last.  No settlement  *)
(* is applied twice, dropped, or both kept and refunded (apply_paid,       *)
(* ActiveWrite, ResumeFailureWrite).                                       *)
Kept == {e \in DOMAIN invoice : invoice[e].status = "PAID"} \ refund_attempt
LastSettled == CHOOSE t \in {invoice[e].settled_at : e \in Kept} :
                 \A e \in Kept : invoice[e].settled_at <= t
KeptReceiptsBuyTime ==
    paid_through # NoTime =>
        /\ Order \in Kept
        /\ paid_through >= invoice[Order].settled_at + Period * Cardinality(Kept)
        /\ paid_through <= LastSettled + Period * Cardinality(Kept)

(* A box whose slot was given back is either destroyed or still owed a     *)
(* durable teardown: by retry_teardowns' dead letter or by a provision     *)
(* cleanup intent (fire_destroy, RefundDueWrite).                          *)
NoLeakedBox ==
    box \in {"on", "off"} /\ reservation = "RELEASED" => teardown_failure \/ cleanup

(* A box destroyed under a subscription that a renewal kept ACTIVE is      *)
(* never silent: once the destroying tick is past its write, the operator  *)
(* was alerted (fire_destroy's re-check and lost CAS).                     *)
DestroyedNeverSilent ==
    state = "ACTIVE" /\ box = "gone"
        /\ rec.pc \notin {"destroy_hook", "destroy_recheck", "destroy_write"}
        => alerted

(* The suspend write never lands before the credited floor of the row it   *)
(* lands on, whatever was captured during its hook (fire_suspend's CAS).   *)
SuspendOnlyPastFloor ==
    [][state = "ACTIVE" /\ state' = "SUSPENDED" =>
         now >= EffectiveSuspendAt(paid_through, suspend_not_before)]_vars

(* The terminate write never lands inside the retention window of a lapsed *)
(* row, nor inside the prepaid window of a cancelled one (fire_destroy).   *)
TerminateOnlyPastRetention ==
    [][state' = "TERMINATED" /\ state # "TERMINATED" =>
         /\ state = "SUSPENDED" => now >= ResumableUntil(paid_through, suspend_not_before)
         /\ state = "CANCELLED" => now >= paid_through]_vars

(* A lapse is never early: neither write lands before the time the row it  *)
(* lands on has paid for, although the row was read before the hook ran.   *)
LapseOnlyWhenDue == SuspendOnlyPastFloor /\ TerminateOnlyPastRetention

(* A lapse never overtakes a payment: a row is suspended or terminated     *)
(* only if every renewal still OPEN was unpaid when the tick began         *)
(* (renewal_settlement_pending).                                           *)
LapseSparesPaid ==
    [][state' # state /\ state' \in {"SUSPENDED", "TERMINATED"} /\ rec # RecIdle
         /\ UNCHANGED mnt =>
         \A e \in OpenRenewals \cap DOMAIN paid : paid[e] >= rec.t]_vars

(* ADR-0005: before it suspends, the daemon was running for a whole        *)
(* renew_lead inside the renewal window, outages notwithstanding.          *)
OnlineSince(t) == Cardinality({x \in online : x >= t})
LapseSuspends == state = "ACTIVE" /\ state' = "SUSPENDED"
LeadOnline == [][LapseSuspends => OnlineSince(SoftDate(paid_through)) >= Lead]_vars

(* The same, of a row whose present cycle is the one every restart saw:    *)
(* what apply_restart_downtime_credit covers, however many outages.        *)
AllCredited == credited \subseteq {paid_through}
CreditedLeadOnline ==
    [][LapseSuspends /\ AllCredited => OnlineSince(SoftDate(paid_through)) >= Lead]_vars

(* And of the retention window: a suspended row is destroyed only after    *)
(* the daemon was running for a whole retention_s since it lapsed.         *)
CreditedRetentionOnline ==
    [][state = "SUSPENDED" /\ state' = "TERMINATED" /\ AllCredited =>
         OnlineSince(EffectiveSuspendAt(paid_through, NoTime)) >= Retention]_vars

(* An outage costs the buyer neither window of the cycle the credit looked *)
(* at: not the lead before a suspend, not the retention before a destroy   *)
(* (apply_restart_downtime_credit).                                        *)
CreditedOnline == CreditedLeadOnline /\ CreditedRetentionOnline

(* No payment is stuck: an OPEN invoice paid at the backend is captured or *)
(* refunded although the stream may miss it (settlement_catch_up).         *)
PaidOpen == {e \in DOMAIN invoice \cap DOMAIN paid : invoice[e].status = "OPEN"}
PaidIsCaptured == PaidOpen # {} ~> PaidOpen = {}

(* No subscription is wedged in a driver-owned state (provision.rs and     *)
(* resume.rs: recover on every pass and at boot).                          *)
NeverWedged == state \in {"PROVISIONING", "RESUMING"} ~> state \notin {"PROVISIONING", "RESUMING"}
=============================================================================
