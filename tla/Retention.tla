----------------------------- MODULE Retention ------------------------------
(***************************************************************************)
(* store.rs reap_terminal_rows, its latch against a disk that cannot be    *)
(* written, and teardown.rs: what the reaper may delete of one             *)
(* subscription while payments arrive late and a destroy hook keeps        *)
(* failing.  The actions that write rows keep of the operations they stand *)
(* for what the reaper looks at; Billing, Capture, Provision and Reconcile *)
(* model them in full.  Time is in days.                                   *)
(***************************************************************************)
EXTENDS Naturals

CONSTANTS
    Window,          \* TERMINAL_ROW_RETENTION_SECS
    LastDay          \* bound: the clock stops here

ASSUME RetentionAssumption == Window \in Nat \ {0} /\ LastDay \in Nat

Receipts == {"order", "renewal"}     \* external ids

VARIABLES
    subRow,          \* subscription: state ("NONE": reaped), at
    invoices,        \* invoice rows: ext -> status, settled, at; no row: "NONE" or "REAPED"
    journal,         \* event_log rows: kind, external ids, of the subscription, at
    boxRow, hold,    \* instance and reservation rows
    refunds,         \* refund_attempt by external id, never reaped
    deadLetter,      \* teardown_failure: "none", "open", "resolved"
    message,         \* an outbox row of the subscription
    boxUp,           \* the provider has the box
    booked,          \* history: external ids whose money reached the books
    day,             \* MIN(unixepoch(), now)
    degraded         \* the latch

rowVars == <<subRow, invoices, journal, boxRow, hold, refunds, deadLetter, message>>
retentionVars == <<rowVars, boxUp, booked, day, degraded>>

Terminal == {"EXPIRED", "TERMINATED", "REFUNDED"}
NoInvoice == [status |-> "NONE", settled |-> FALSE, at |-> 0]

RetentionInit ==
    /\ subRow = [state |-> "PENDING", at |-> 0] /\ journal = {}
    /\ invoices = [e \in Receipts |-> IF e = "order" THEN [NoInvoice EXCEPT !.status = "OPEN"] ELSE NoInvoice]
    /\ boxRow = {} /\ hold = "HELD" /\ refunds = [e \in Receipts |-> "none"]
    /\ deadLetter = "none" /\ message = "none" /\ boxUp = FALSE
    /\ booked = {} /\ day = 0 /\ degraded = FALSE

Move(s) == subRow' = [state |-> s, at |-> day]
Journal(kind, exts, owned) ==
    journal' = journal \cup {[kind |-> kind, exts |-> exts, owned |-> owned, at |-> day]}

(* transaction(): refused before it opens once the latch is down.          *)
Txn == ~degraded /\ UNCHANGED <<day, degraded>>

-----------------------------------------------------------------------------
(* Capture: an OPEN invoice turns PAID; money for an EXPIRED or a reaped   *)
(* one becomes one refund, with the journal row the ledger counts as its   *)
(* receipt; for a reaped invoice nothing ties the two to the subscription. *)
SettlePaid(e) ==
    /\ Txn /\ invoices[e].status = "OPEN"
    /\ invoices' = [invoices EXCEPT ![e].status = "PAID", ![e].settled = TRUE]
    /\ IF e = "order" THEN Move("PROVISIONING") ELSE UNCHANGED subRow
    /\ booked' = booked \cup {e}
    /\ UNCHANGED <<journal, refunds, boxRow, hold, deadLetter, message, boxUp>>

SettleLate(e) ==
    /\ Txn /\ invoices[e].status \in {"EXPIRED", "REAPED"}
    /\ invoices' = [invoices EXCEPT ![e].settled = @ \/ invoices[e].status = "EXPIRED"]
    /\ refunds' = [refunds EXCEPT ![e] = IF @ = "none" THEN "PENDING" ELSE @]
    /\ IF refunds[e] = "none" THEN Journal("settle_refund", {e}, invoices[e].status = "EXPIRED")
       ELSE UNCHANGED journal
    /\ booked' = booked \cup {e}
    /\ UNCHANGED <<subRow, boxRow, hold, deadLetter, message, boxUp>>

(* Order expiry and the expiry of an unpaid renewal (reconcile.rs).        *)
OrderExpires ==
    /\ Txn /\ subRow.state = "PENDING" /\ Move("EXPIRED") /\ hold' = "RELEASED"
    /\ invoices' = [invoices EXCEPT !["order"].status = "EXPIRED", !["order"].at = day]
    /\ UNCHANGED <<journal, boxRow, refunds, deadLetter, message, boxUp, booked>>

RenewalIssued ==
    /\ Txn /\ subRow.state = "ACTIVE" /\ invoices["renewal"].status = "NONE"
    /\ invoices' = [invoices EXCEPT !["renewal"] = [NoInvoice EXCEPT !.status = "OPEN"]]
    /\ UNCHANGED <<subRow, journal, boxRow, hold, refunds, deadLetter, message, boxUp, booked>>

RenewalExpires ==
    /\ Txn /\ invoices["renewal"].status = "OPEN"
    /\ invoices' = [invoices EXCEPT !["renewal"].status = "EXPIRED", !["renewal"].at = day]
    /\ UNCHANGED <<subRow, journal, boxRow, hold, refunds, deadLetter, message, boxUp, booked>>

(* The provision hook makes the box; the write that follows may be refused.*)
ProvisionHook ==
    /\ subRow.state = "PROVISIONING" /\ boxUp' = TRUE
    /\ UNCHANGED <<rowVars, booked, day, degraded>>

Activate ==
    /\ Txn /\ subRow.state = "PROVISIONING" /\ boxUp /\ Move("ACTIVE")
    /\ boxRow' = {day} /\ message' = "PENDING"
    /\ UNCHANGED <<invoices, journal, hold, refunds, deadLetter, boxUp, booked>>

(* RefundDueWrite: the cleanup intent is in the transaction.               *)
ProvisionFails ==
    /\ Txn /\ subRow.state = "PROVISIONING" /\ Move("REFUND_DUE")
    /\ refunds' = [refunds EXCEPT !["order"] = "PENDING"] /\ Journal("provision_cleanup_pending", {}, TRUE)
    /\ UNCHANGED <<invoices, boxRow, hold, deadLetter, message, boxUp, booked>>

Unclean == (\E j \in journal : j.kind = "provision_cleanup_pending")
           /\ ~\E j \in journal : j.kind = "provision_cleanup_done"

(* recover_failed_cleanups: destroy, then the done journal.                *)
CleanupHook ==
    /\ Unclean /\ boxUp' = FALSE /\ UNCHANGED <<rowVars, booked, day, degraded>>

CleanupDone ==
    /\ Txn /\ Unclean /\ ~boxUp /\ Journal("provision_cleanup_done", {}, TRUE)
    /\ UNCHANGED <<subRow, invoices, boxRow, hold, refunds, deadLetter, message, boxUp, booked>>

RefundCompletes(e) ==
    /\ Txn /\ refunds[e] = "PENDING" /\ refunds' = [refunds EXCEPT ![e] = "SENT"]
    /\ IF e = "order" /\ subRow.state = "REFUND_DUE" THEN Move("REFUNDED") /\ hold' = "RELEASED"
       ELSE UNCHANGED <<subRow, hold>>
    /\ UNCHANGED <<invoices, journal, boxRow, deadLetter, message, boxUp, booked>>

(* fire_destroy: the hook, then TERMINATED, with the dead letter of a hook *)
(* that failed in the same transaction.                                    *)
DestroyHook ==
    /\ subRow.state = "ACTIVE" /\ boxUp' = FALSE /\ UNCHANGED <<rowVars, booked, day, degraded>>

(* Mutant: the dead letter is left to a later write.                       *)
TerminateQuietly ==
    /\ Txn /\ subRow.state = "ACTIVE" /\ Move("TERMINATED") /\ hold' = "RELEASED"
    /\ UNCHANGED <<invoices, journal, boxRow, refunds, deadLetter, message, boxUp, booked>>

Terminate ==
    /\ Txn /\ subRow.state = "ACTIVE" /\ Move("TERMINATED") /\ hold' = "RELEASED"
    /\ deadLetter' = IF boxUp THEN "open" ELSE deadLetter
    /\ UNCHANGED <<invoices, journal, boxRow, refunds, message, boxUp, booked>>

(* retry_teardowns: only for a subscription whose recipe it can read.      *)
TeardownHook ==
    /\ deadLetter = "open" /\ subRow.state # "NONE" /\ boxUp' = FALSE
    /\ UNCHANGED <<rowVars, booked, day, degraded>>

TeardownResolved ==
    /\ Txn /\ deadLetter = "open" /\ subRow.state # "NONE" /\ ~boxUp /\ deadLetter' = "resolved"
    /\ UNCHANGED <<subRow, invoices, journal, boxRow, hold, refunds, message, boxUp, booked>>

MessageSent ==
    /\ Txn /\ message = "PENDING" /\ message' = "SENT"
    /\ UNCHANGED <<subRow, invoices, journal, boxRow, hold, refunds, deadLetter, boxUp, booked>>

-----------------------------------------------------------------------------
(* reap_terminal_rows.                                                     *)
Past(at) == at + Window < day

OwnerReapable == subRow.state = "NONE" \/ (subRow.state \in Terminal /\ Past(subRow.at))

ReapedInvoices ==
    {e \in Receipts : /\ invoices[e].status = "EXPIRED" /\ ~invoices[e].settled
                      /\ Past(invoices[e].at) /\ refunds[e] # "PENDING"}

(* Mutant: receipts of the settle-refund class go with the other journals. *)
ReapedJournalAll == {j \in journal : Past(j.at) /\ ~Unclean}

ReapedJournal ==
    {j \in journal : /\ Past(j.at) /\ j.kind # "settle_refund"
                     /\ ~(j.kind = "provision_cleanup_pending" /\ subRow.state # "NONE" /\ Unclean)}

(* The parent last, and only when nothing is left to need it.              *)
ReapedSub(inv, jnl, box, res) ==
    /\ OwnerReapable
    /\ (\A e \in Receipts : inv[e].status \in {"NONE", "REAPED"}) /\ ~\E j \in jnl : j.owned
    /\ box = {} /\ res = "NONE"
    /\ \A e \in Receipts : refunds[e] # "PENDING"
    /\ deadLetter # "open" /\ message # "PENDING"

Reap ==
    LET inv == [e \in Receipts |-> IF e \in ReapedInvoices THEN [NoInvoice EXCEPT !.status = "REAPED"] ELSE invoices[e]]
        jnl == journal \ ReapedJournal
        box == IF OwnerReapable THEN {d \in boxRow : ~Past(d)} ELSE boxRow
        res == IF OwnerReapable /\ hold = "RELEASED" THEN "NONE" ELSE hold
    IN  /\ Txn /\ day > Window
        /\ invoices' = inv /\ journal' = jnl /\ boxRow' = box /\ hold' = res
        /\ subRow' = IF ReapedSub(inv, jnl, box, res) THEN [state |-> "NONE", at |-> 0] ELSE subRow
        /\ UNCHANGED <<refunds, deadLetter, message, boxUp, booked>>

(* A fatal write error rolls its transaction back and drops the latch for  *)
(* the life of the process.                                                *)
DiskFails ==
    /\ ~degraded /\ degraded' = TRUE /\ UNCHANGED <<rowVars, boxUp, booked, day>>

Reopen ==
    /\ degraded /\ degraded' = FALSE /\ UNCHANGED <<rowVars, boxUp, booked, day>>

DayPasses ==
    /\ day < LastDay /\ day' = day + 1 /\ UNCHANGED <<rowVars, boxUp, booked, degraded>>

RetentionNext ==
    \/ OrderExpires \/ RenewalIssued \/ RenewalExpires \/ ProvisionHook \/ Activate
    \/ ProvisionFails \/ CleanupHook \/ CleanupDone \/ DestroyHook \/ Terminate
    \/ TeardownHook \/ TeardownResolved \/ MessageSent \/ Reap \/ DiskFails \/ Reopen \/ DayPasses
    \/ \E e \in Receipts : SettlePaid(e) \/ SettleLate(e) \/ RefundCompletes(e)

-----------------------------------------------------------------------------
(* Money that reached the books stays in the books: every receipt is a     *)
(* settled invoice row or a settle-refund journal row, whatever has been   *)
(* reaped around it and whenever the payment arrived (store.rs             *)
(* reap_terminal_rows, ledger.rs sum_receipts_msat).                       *)
ReceiptsSurvive ==
    \A e \in booked :
        \/ invoices[e].status \notin {"NONE", "REAPED"} /\ invoices[e].settled
        \/ \E j \in journal : j.kind = "settle_refund" /\ e \in j.exts

(* A box whose subscription is over, or gone from the books, is on a list  *)
(* somebody still works through: an open dead letter with the row its      *)
(* retry needs, or an unfinished provision cleanup; not even a reaped      *)
(* journal or a write refused by the latch loses it (teardown.rs,          *)
(* store.rs reap_terminal_rows, provision.rs fail_to_refund_due).          *)
OrphansAreOwed ==
    boxUp /\ subRow.state \in Terminal \cup {"NONE"} =>
        (deadLetter = "open" /\ subRow.state # "NONE") \/ Unclean

(* Reaping old rows, with or without a store that refuses writes, loses    *)
(* neither a receipt of the ledger nor a box somebody must still destroy   *)
(* (store.rs reap_terminal_rows, latch_degraded).                          *)
ReapingLosesNothing == ReceiptsSurvive /\ OrphansAreOwed
=============================================================================
