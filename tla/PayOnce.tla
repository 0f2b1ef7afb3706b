------------------------------ MODULE PayOnce ------------------------------
(***************************************************************************)
(* What the refund executor promises of one refund: whatever is retried,   *)
(* re-resolved or recovered, at most one outgoing payment ever exists that *)
(* landed or may still land; the refund is recorded SENT only after one    *)
(* landed, and is parked FAILED, or re-opened, only while none can.        *)
(***************************************************************************)
CONSTANT Payments    \* the payments the refund may be sent as

VARIABLES
    status,          \* refund_attempt.status
    live,            \* payments in flight
    landed           \* payments that reached the buyer

Unpaid == live = {} /\ landed = {}

Init ==
    /\ status \in {"PENDING", "FAILED"}
    /\ \/ Unpaid
       \/ \E p \in Payments : live = {p} /\ landed = {}
       \/ \E p \in Payments : live = {} /\ landed = {p}

Start(p) == Unpaid /\ status = "PENDING" /\ live' = {p} /\ UNCHANGED <<status, landed>>
Land(p) == p \in live /\ live' = live \ {p} /\ landed' = landed \cup {p} /\ UNCHANGED status
Return(p) == p \in live /\ live' = live \ {p} /\ UNCHANGED <<status, landed>>

Record == landed # {} /\ status = "PENDING" /\ status' = "SENT" /\ UNCHANGED <<live, landed>>
Park == Unpaid /\ status = "PENDING" /\ status' = "FAILED" /\ UNCHANGED <<live, landed>>
Requeue == Unpaid /\ status = "FAILED" /\ status' = "PENDING" /\ UNCHANGED <<live, landed>>

Next ==
    \/ \E p \in Payments : Start(p) \/ Land(p) \/ Return(p)
    \/ Record \/ Park \/ Requeue

Spec == Init /\ [][Next]_<<status, live, landed>>
=============================================================================
