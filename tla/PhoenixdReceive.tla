--------------------------- MODULE PhoenixdReceive ---------------------------
(***************************************************************************)
(* phoenixd_backend.rs, the receive side: one external id of a renewal,    *)
(* the incoming records phoenixd holds for it, the phoenixd_invoice rows,  *)
(* the settlement poll, and the refusal to book a receipt that may have    *)
(* landed in the wallet's fee credit.  Unlike lnv2 a lookup reads the      *)
(* node, so what the books expire is what the node did not see paid.       *)
(***************************************************************************)
EXTENDS Integers, FiniteSets

CONSTANTS
    MaxHashes,     \* bound: invoices created at phoenixd
    PhExpiry,      \* lifetime of an invoice
    PollGrace,     \* SETTLEMENT_POLL_GRACE_SECS
    RefusalAlert,  \* UNBOOKABLE_SETTLEMENT_ALERT_S
    PhLastTick,    \* bound: the clock
    PhCrashes      \* bound: crashes

ASSUME PhoenixdReceiveAssumption ==
    /\ {MaxHashes, PhExpiry} \subseteq Nat \ {0}
    /\ {PollGrace, RefusalAlert, PhLastTick, PhCrashes} \subseteq Nat

Hashes == 1..MaxHashes
NoHash == 0
Never == -1

VARIABLES
    phNode,     \* phoenixd's incoming records
    phIndex,    \* phoenixd_invoice: the local expiry per hash, Never if no row
    phCached,   \* the latest row of the external id
    phBook,     \* the invoice of the books
    phIssue,    \* the issuance in flight, under create_lock
    phRetired,  \* poll: hashes this task no longer looks at
    phChan,     \* settlements pushed and not captured
    phPolled,   \* the poll ran since the last tick
    phCredit,   \* the wallet's fee credit hides the receipt
    phRefused,  \* per hash: first_refusal_at
    phAlerted,  \* the operator was told of a held receipt
    phUp, phNow, phCrashed

phRows == <<phIndex, phCached, phBook, phRefused, phAlerted>>
phMem == <<phIssue, phRetired, phChan, phPolled>>
phTime == <<phUp, phNow, phCrashed>>
phVars == <<phNode, phCredit, phRows, phMem, phTime>>

NoIssue == [pc |-> "idle", hash |-> NoHash, expires |-> 0]
NoPhBook == [hash |-> NoHash, status |-> "none", expires |-> 0, settled |-> Never]

Payable(h) == phNode[h].st = "open" /\ phNow < phNode[h].expires
PaidAt(h) == phNode[h].st = "paid"
NodeExpired(h) == phNode[h].st = "open" /\ ~Payable(h)

PhInit ==
    /\ phNode = [h \in Hashes |-> [st |-> "none", expires |-> 0, at |-> Never]]
    /\ phIndex = [h \in Hashes |-> Never]
    /\ phCached = NoHash
    /\ phBook = NoPhBook
    /\ phIssue = NoIssue
    /\ phRetired = {} /\ phChan = {} /\ phPolled = FALSE
    /\ phCredit \in BOOLEAN
    /\ phRefused = [h \in Hashes |-> Never]
    /\ phAlerted = FALSE
    /\ phUp = TRUE /\ phNow = 0 /\ phCrashed = 0

-----------------------------------------------------------------------------
(* issue_invoice: resolve_invoice under create_lock, then the caller's     *)
(* commit of idx_upsert beside the books.                                  *)

Hand(h, e) == phIssue' = [pc |-> "commit", hash |-> h, expires |-> e]

(* The cached invoice: a paid one keeps its window, a payable one is       *)
(* reused and its lapsed local window reopened.                            *)
ReuseCached ==
    /\ phCached # NoHash
    /\ PaidAt(phCached) \/ Payable(phCached)
    /\ Hand(phCached,
            IF PaidAt(phCached) \/ phNow < phIndex[phCached] THEN phIndex[phCached]
            ELSE phNow + PhExpiry)

(* No row, or one phoenixd reports expired and unpaid.                     *)
CachedIsDead == (phCached # NoHash) => NodeExpired(phCached)

Recoverable == {h \in Hashes : PaidAt(h) \/ Payable(h)}

(* select_reusable_incoming: an orphan of a crashed issuance, found by its *)
(* external id; a paid one keeps the window phoenixd reports.              *)
RecoverOrphan ==
    /\ CachedIsDead
    /\ Recoverable # {}
    /\ \E h \in Recoverable :
         /\ (\E p \in Recoverable : PaidAt(p)) => PaidAt(h)
         /\ Hand(h, IF PaidAt(h) THEN phNode[h].expires ELSE phNow + PhExpiry)

(* Mutant: the index alone decides, as it does for lnv2.                   *)
NothingReusableLocally == CachedIsDead

(* Nothing at phoenixd can still be paid for this external id.             *)
NothingReusable ==
    /\ CachedIsDead
    /\ Recoverable = {}

(* createinvoice, with lnrent's own window pushed down; phoenixd's ends a  *)
(* little later.                                                           *)
CreateInvoice ==
    /\ NothingReusable
    /\ \E h \in Hashes, skew \in {0, 1} :
         /\ phNode[h].st = "none" /\ \A p \in 1..(h - 1) : phNode[p].st # "none"
         /\ phNode' = [phNode EXCEPT ![h] =
                          [st |-> "open", expires |-> phNow + PhExpiry + skew, at |-> Never]]
         /\ Hand(h, phNow + PhExpiry)

ResolveInvoice ==
    /\ phUp /\ phIssue = NoIssue
    /\ \/ ReuseCached /\ UNCHANGED phNode
       \/ RecoverOrphan /\ UNCHANGED phNode
       \/ CreateInvoice
    /\ UNCHANGED <<phCredit, phRows, phRetired, phChan, phPolled, phTime>>

(* upsert_renewal_invoice, as in Lnv2Receive.                              *)
PhRefreshed(h, e) ==
    CASE phBook.status = "none" ->
           [hash |-> h, status |-> "OPEN", expires |-> e, settled |-> Never]
      [] phBook.status \notin {"none", "PAID"} /\ phBook.settled = Never ->
           [phBook EXCEPT !.hash = h, !.expires = e,
                          !.status = IF @ = "EXPIRED" THEN "OPEN" ELSE @]
      [] OTHER -> phBook

CommitInvoice ==
    /\ phIssue.pc = "commit"
    /\ phIndex' = [phIndex EXCEPT ![phIssue.hash] = phIssue.expires]
    /\ phCached' = IF phIndex[phIssue.hash] = Never THEN phIssue.hash ELSE phCached
    /\ phBook' = PhRefreshed(phIssue.hash, phIssue.expires)
    /\ phIssue' = NoIssue
    /\ UNCHANGED <<phNode, phCredit, phRefused, phAlerted, phRetired, phChan, phPolled, phTime>>

-----------------------------------------------------------------------------
(* Booking a receipt.                                                      *)

(* credit_backing: the fee credit may hold all of it and the spendable     *)
(* balance cannot cover it.                                                *)
Unbacked == phCredit

(* Mutant: only the age of the refusal counts.                             *)
AlertDueByAge(h, first) == phNow - first >= RefusalAlert

(* alert_fee_credit_refusal: old enough, or the last look before the poll  *)
(* stops looking.                                                          *)
AlertDue(h, first) ==
    \/ phNow - first >= RefusalAlert
    \/ phNow + RefusalAlert > phIndex[h] + PollGrace

(* spendable_credit_msat refuses: idx_record_fee_credit_refusal keeps the  *)
(* first sighting, and the alert goes out when it is due.                  *)
Refuse(h) ==
    LET first == IF phRefused[h] = Never THEN phNow ELSE phRefused[h]
    IN  /\ phRefused' = [phRefused EXCEPT ![h] = first]
        /\ phAlerted' = (phAlerted \/ AlertDue(h, first))

PhCaptured(at) ==
    CASE phBook.status = "OPEN" -> [phBook EXCEPT !.status = "PAID", !.settled = at]
      [] phBook.status = "EXPIRED" /\ phBook.settled = Never ->
           [phBook EXCEPT !.settled = at]
      [] OTHER -> phBook

Pollable == {h \in Hashes : phIndex[h] # Never /\ phIndex[h] >= phNow - PollGrace}

(* Mutant: the poll stops at lnrent's own expiry.                          *)
RetiredLocally(h) == phNow >= phIndex[h]

(* An unpaid row is dropped on phoenixd's word that it can no longer be    *)
(* paid.                                                                   *)
RetiredUnpaid(h) == NodeExpired(h)

(* poll_settlements_once: one pass over the pollable rows.                 *)
Poll ==
    /\ phUp /\ ~phPolled
    /\ phPolled' = TRUE
    /\ LET rows == Pollable \ phRetired
           due == {h \in rows : PaidAt(h)}
           sent == IF Unbacked THEN {} ELSE due
       IN  /\ phChan' = phChan \cup sent
           /\ phRetired' = phRetired \cup sent \cup
                               {h \in rows \ due : RetiredUnpaid(h)}
           /\ IF due # {} /\ Unbacked
              THEN \E h \in due : Refuse(h)
              ELSE UNCHANGED <<phRefused, phAlerted>>
    /\ UNCHANGED <<phNode, phCredit, phIndex, phCached, phBook, phIssue, phTime>>

PhCaptureStream ==
    /\ phUp
    /\ \E h \in phChan :
         /\ phChan' = phChan \ {h}
         /\ phBook' = PhCaptured(phNode[h].at)
    /\ UNCHANGED <<phNode, phCredit, phIndex, phCached, phRefused, phAlerted,
                   phIssue, phRetired, phPolled, phTime>>

(* settlement_catch_up through lookup_settlement and received_amount_msat. *)
PhCatchUp ==
    /\ phUp
    /\ phBook.status = "OPEN" /\ PaidAt(phBook.hash)
    /\ IF Unbacked
       THEN Refuse(phBook.hash) /\ UNCHANGED phBook
       ELSE phBook' = PhCaptured(phNode[phBook.hash].at) /\ UNCHANGED <<phRefused, phAlerted>>
    /\ UNCHANGED <<phNode, phCredit, phIndex, phCached, phMem, phTime>>

(* expire_open_renewals: lookup_settlement by the node, then the write.    *)
PhExpire ==
    /\ phUp
    /\ phBook.status = "OPEN" /\ phBook.expires <= phNow /\ ~PaidAt(phBook.hash)
    /\ phBook' = [phBook EXCEPT !.status = "EXPIRED"]
    /\ UNCHANGED <<phNode, phCredit, phIndex, phCached, phRefused, phAlerted, phMem, phTime>>

-----------------------------------------------------------------------------
(* The buyer and the wallet (external), the clock, a crash.                *)

PhPays ==
    /\ \E h \in Hashes :
         /\ phIndex[h] # Never /\ Payable(h)
         /\ phNode' = [phNode EXCEPT ![h].st = "paid", ![h].at = phNow]
    /\ UNCHANGED <<phCredit, phRows, phMem, phTime>>

CreditClears ==
    /\ phCredit /\ phCredit' = FALSE
    /\ UNCHANGED <<phNode, phRows, phMem, phTime>>

(* The poll interval is far below a tick: time passes over a running       *)
(* daemon only once the poll has looked.                                   *)
PhTick ==
    /\ phNow < PhLastTick
    /\ phUp => phPolled
    /\ phNow' = phNow + 1
    /\ phPolled' = FALSE
    /\ UNCHANGED <<phNode, phCredit, phRows, phIssue, phRetired, phChan, phUp, phCrashed>>

PhCrash ==
    /\ phUp /\ phCrashed < PhCrashes
    /\ phUp' = FALSE /\ phCrashed' = phCrashed + 1
    /\ phIssue' = NoIssue /\ phRetired' = {} /\ phChan' = {} /\ phPolled' = FALSE
    /\ UNCHANGED <<phNode, phCredit, phRows, phNow>>

PhRestart ==
    /\ ~phUp /\ phUp' = TRUE
    /\ UNCHANGED <<phNode, phCredit, phRows, phMem, phNow, phCrashed>>

PhNext ==
    \/ ResolveInvoice \/ CommitInvoice
    \/ Poll \/ PhCaptureStream \/ PhCatchUp \/ PhExpire
    \/ PhPays \/ CreditClears \/ PhTick \/ PhCrash \/ PhRestart

-----------------------------------------------------------------------------
(* However often an issuance crashes and is retried, phoenixd holds at     *)
(* most one invoice of an external id that is paid or can still be paid:   *)
(* two would let the buyer pay twice for one renewal.                      *)
OnePayable == Cardinality(Recoverable) <= 1

(* A payment that came in after the books expired the invoice is not lost: *)
(* until the grace is over it is stamped for its refund, on its way, or    *)
(* still polled.                                                           *)
PaidLateIsPolled ==
    \A h \in Hashes :
        (phUp /\ PaidAt(h) /\ phBook.hash = h /\ phBook.status = "EXPIRED"
              /\ phBook.settled = Never /\ h \in Pollable) =>
            h \in phChan \/ h \notin phRetired

(* A receipt still held back for fee credit was reported to the operator   *)
(* by the time the poll stops looking at it, unless the daemon was down.   *)
HeldIsAlerted ==
    \A h \in Hashes :
        (phCredit /\ phRefused[h] # Never /\ phBook.settled = Never /\ phCrashed = 0
              /\ phIndex[h] < phNow - PollGrace) => phAlerted
=============================================================================
