------------------------------- MODULE Outbox --------------------------------
(***************************************************************************)
(* provision.rs OutboxSender: the durable outbox that stands between the   *)
(* state changes and the relays, for one refund.  A refund's outcome and   *)
(* the operator's alert are enqueued in the transaction of the change they *)
(* report, under stable ids; the maintenance loop drives refunds and then  *)
(* drains; refund-retry runs on its own connection at any moment.          *)
(***************************************************************************)
EXTENDS Naturals

CONSTANT
    MaxParks         \* bound: times the refund is parked

ASSUME OutboxAssumption == MaxParks \in Nat

RefundDm == "outbox:refund"          \* refund_outbox_id
ParkedAlert == "outbox:alert:refund_parked"
ReadyDm == "outbox:provision.ready"
StableIds == {RefundDm, ParkedAlert, ReadyDm}

VARIABLES
    outbox,          \* id -> row: state, payload
    refundStatus,    \* refund_attempt.status
    drain,           \* the drain: rows read and still to publish, row to mark
    heard,           \* id -> payload the recipient last received
    resend,          \* a delivery.resend.request being served
    parks, alerted   \* history: parks so far; the last park enqueued its alert

outboxVars == <<outbox, refundStatus, drain, heard, resend, parks, alerted>>

NoMessage == [state |-> "NONE", payload |-> "none"]
NoDrain == [pc |-> "idle", rows |-> {}, mark |-> "none"]

OutboxInit ==
    /\ outbox = [i \in StableIds |-> NoMessage] /\ refundStatus = "PENDING"
    /\ drain = NoDrain /\ heard = [i \in StableIds |-> "none"] /\ resend = FALSE
    /\ parks = 0 /\ alerted = FALSE

(* INSERT ... ON CONFLICT(id) DO NOTHING.                                  *)
Enqueue(box, i, payload) ==
    IF box[i].state = "NONE" THEN [box EXCEPT ![i] = [state |-> "PENDING", payload |-> payload]]
    ELSE box

-----------------------------------------------------------------------------
(* The refund driver runs between drains, in the maintenance loop.         *)
Park ==
    /\ drain.pc = "idle" /\ refundStatus = "PENDING" /\ parks < MaxParks
    /\ refundStatus' = "FAILED" /\ parks' = parks + 1
    /\ outbox' = Enqueue(Enqueue(outbox, RefundDm, "FAILED"), ParkedAlert, "parked")
    /\ alerted' = (outbox[ParkedAlert].state = "NONE")
    /\ UNCHANGED <<drain, heard, resend>>

RefundPaid ==
    /\ drain.pc = "idle" /\ refundStatus = "PENDING" /\ refundStatus' = "SENT"
    /\ outbox' = Enqueue(outbox, RefundDm, "SENT")
    /\ UNCHANGED <<drain, heard, resend, parks, alerted>>

Provisioned ==
    /\ outbox[ReadyDm].state = "NONE" /\ drain.pc = "idle"
    /\ \E payload \in {"ready", "malformed"} : outbox' = Enqueue(outbox, ReadyDm, payload)
    /\ UNCHANGED <<refundStatus, drain, heard, resend, parks, alerted>>

(* Mutant: the stale outcome stays in the outbox.                          *)
RetryKeepsOutcome ==
    /\ refundStatus = "FAILED" /\ refundStatus' = "PENDING" /\ UNCHANGED outbox
    /\ UNCHANGED <<drain, heard, resend, parks, alerted>>

(* refund_retry: back to PENDING, and the outcome it supersedes is         *)
(* deleted, whether or not a drain has it in hand.                         *)
Retry ==
    /\ refundStatus = "FAILED" /\ refundStatus' = "PENDING"
    /\ outbox' = [outbox EXCEPT ![RefundDm] = NoMessage]
    /\ UNCHANGED <<drain, heard, resend, parks, alerted>>

-----------------------------------------------------------------------------
(* drain_once.                                                             *)
DrainRead ==
    /\ drain.pc = "idle"
    /\ drain' = [NoDrain EXCEPT !.pc = "sending",
          !.rows = {[id |-> i, payload |-> outbox[i].payload] :
                      i \in {i \in StableIds : outbox[i].state = "PENDING"}}]
    /\ UNCHANGED <<outbox, refundStatus, heard, resend, parks, alerted>>

(* A row that can never be decoded is quarantined, one the relays refuse   *)
(* stays PENDING (bump_attempt), one they take is marked next.             *)
DrainSend(row, accepted) ==
    /\ drain.pc = "sending" /\ row \in drain.rows
    /\ LET left == [drain EXCEPT !.rows = @ \ {row}] IN
       IF row.payload = "malformed"
       THEN /\ drain' = left /\ UNCHANGED heard
            /\ outbox' = IF outbox[row.id].state = "PENDING"
                         THEN [outbox EXCEPT ![row.id].state = "FAILED"] ELSE outbox
       ELSE /\ UNCHANGED outbox
            /\ drain' = IF accepted THEN [left EXCEPT !.pc = "marking", !.mark = row.id] ELSE left
            /\ heard' = IF accepted THEN [heard EXCEPT ![row.id] = row.payload] ELSE heard
    /\ UNCHANGED <<refundStatus, resend, parks, alerted>>

(* mark_sent; a failed write ends the whole pass.                          *)
DrainMark(writes) ==
    /\ drain.pc = "marking"
    /\ drain' = IF writes THEN [drain EXCEPT !.pc = "sending"] ELSE NoDrain
    /\ outbox' = IF writes /\ outbox[drain.mark].state = "PENDING"
                 THEN [outbox EXCEPT ![drain.mark].state = "SENT"] ELSE outbox
    /\ UNCHANGED <<refundStatus, heard, resend, parks, alerted>>

DrainEnd ==
    /\ drain.pc = "sending" /\ drain.rows = {} /\ drain' = NoDrain
    /\ UNCHANGED <<outbox, refundStatus, heard, resend, parks, alerted>>

(* resend_provision_ready: publish what is PENDING or SENT again, then     *)
(* mark_delivered.                                                         *)
ResendSend ==
    /\ ~resend /\ outbox[ReadyDm].state \in {"PENDING", "SENT"}
    /\ outbox[ReadyDm].payload = "ready"
    /\ resend' = TRUE /\ heard' = [heard EXCEPT ![ReadyDm] = "ready"]
    /\ UNCHANGED <<outbox, refundStatus, drain, parks, alerted>>

ResendMark ==
    /\ resend /\ resend' = FALSE
    /\ outbox' = IF outbox[ReadyDm].state \in {"PENDING", "SENT"}
                 THEN [outbox EXCEPT ![ReadyDm].state = "SENT"] ELSE outbox
    /\ UNCHANGED <<refundStatus, drain, heard, parks, alerted>>

(* The process dies: what was read and the requests are gone.              *)
OutboxRestart ==
    /\ drain' = NoDrain /\ resend' = FALSE
    /\ UNCHANGED <<outbox, refundStatus, heard, parks, alerted>>

OutboxNext ==
    \/ Park \/ RefundPaid \/ Provisioned \/ Retry
    \/ DrainRead \/ DrainEnd \/ ResendSend \/ ResendMark \/ OutboxRestart
    \/ \E ok \in BOOLEAN : DrainMark(ok) \/ \E row \in drain.rows : DrainSend(row, ok)

-----------------------------------------------------------------------------
(* The last word the buyer has on a terminal refund is its outcome: the    *)
(* outcome is in the outbox, and once it counts as SENT the buyer's latest *)
(* message is that outcome and not one a retry superseded                  *)
(* (refund.rs commit_sent, ipc.rs refund_retry, provision.rs drain_once).  *)
BuyerHearsLast ==
    refundStatus # "PENDING" =>
        /\ outbox[RefundDm].state # "NONE"
        /\ outbox[RefundDm].state = "SENT" => heard[RefundDm] = refundStatus

(* What the protocol document says of a terminal alert: the transaction    *)
(* that parks the refund FAILED writes it (refund.rs commit_park_failed).  *)
ParkIsAlerted == refundStatus = "FAILED" => alerted
=============================================================================
