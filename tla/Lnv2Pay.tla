------------------------------- MODULE Lnv2Pay -------------------------------
(***************************************************************************)
(* lnv2_backend.rs, the pay side: several idempotency keys whose           *)
(* destination is the same invoice, the lnv2_pay rows, and the operations  *)
(* the federation's client derives from that invoice.  send() itself would *)
(* advance to a second attempt after a definitive failure; the rows and    *)
(* the lnrent_key in the operation's meta are what keep lnrent from it.    *)
(***************************************************************************)
EXTENDS Integers, FiniteSets

CONSTANTS
    LnKeys,       \* idempotency keys that resolved to the invoice
    LnNoKey,
    Gateways,     \* registered gateways, 1..n in the federation's order
    MaxFee,       \* bound: advertised fees are 0..MaxFee
    FeeCap,       \* the largest fee the cap leaves room for
    LnPayCrashes  \* bound: crashes

ASSUME Lnv2PayAssumption ==
    /\ LnNoKey \notin LnKeys
    /\ Gateways \subseteq Nat \ {0} /\ IsFiniteSet(Gateways)
    /\ {MaxFee, FeeCap, LnPayCrashes} \subseteq Nat

Attempts == {0, 1}      \* operation ids derived from the invoice
Sentinel == 2           \* COLLISION_SENTINEL_OP
Unreachable == MaxFee + 1
Unusable == MaxFee + 2  \* over the client's limits in some component

VARIABLES
    lpRow,      \* lnv2_pay
    lpOps,      \* the client's operation log
    lpCall,     \* the call that holds pay_start_lock
    lpAwait,    \* calls awaiting a final state, outside the lock
    lpGateway,  \* what each gateway answers to routing_info
    lpOwes,     \* keys that owe the very amount the invoice encodes
    lpUp, lpCrashed

lpEnv == <<lpGateway, lpOwes, lpUp, lpCrashed>>
lpVars == <<lpRow, lpOps, lpCall, lpAwait, lpEnv>>

NoLpRow == [st |-> "none", op |-> 0]
NoOp == [st |-> "none", by |-> LnNoKey]
NoCall == [key |-> LnNoKey, pc |-> "idle"]
OpLive(a) == lpOps[a].st \in {"pending", "success"}

LpInit ==
    /\ lpRow = [k \in LnKeys |-> NoLpRow]
    /\ lpOps = [a \in Attempts |-> NoOp]
    /\ lpCall = NoCall
    /\ lpAwait = {}
    /\ lpGateway \in [Gateways -> 0..Unusable]
    /\ lpOwes \in SUBSET LnKeys
    /\ lpUp = TRUE /\ lpCrashed = 0

SetRow(k, st, op) == lpRow' = [lpRow EXCEPT ![k] = [st |-> st, op |-> op]]

-----------------------------------------------------------------------------
(* pay_other_key_for_op: another key claims this operation.                *)
LpCollides(k) ==
    \E j \in LnKeys \ {k} : lpRow[j].st \in {"PREPARED", "PENDING", "SUCCEEDED"} /\ lpRow[j].op = 0

(* prepare_pay: any existing row is pay's to resolve; a collision is       *)
(* recorded as this key's refusal, under the sentinel.                     *)
LpPrepare(k) ==
    /\ lpUp /\ lpCall = NoCall
    /\ lpRow[k].st = "none"
    /\ IF LpCollides(k) THEN SetRow(k, "FAILED", Sentinel) ELSE SetRow(k, "PREPARED", 0)
    /\ UNCHANGED <<lpOps, lpCall, lpAwait, lpEnv>>

(* Mutant: a failed payment is tried again.                                *)
PayAgain(k) ==
    \/ /\ lpRow[k].st = "PENDING"
       /\ lpAwait' = lpAwait \cup {[key |-> k, op |-> lpRow[k].op]}
       /\ UNCHANGED <<lpRow, lpCall>>
    \/ /\ lpRow[k].st \in {"PREPARED", "FAILED"}
       /\ lpCall' = [key |-> k, pc |-> "send"]
       /\ UNCHANGED <<lpRow, lpAwait>>

(* The row's status decides: SUCCEEDED and FAILED return, PENDING awaits   *)
(* the recorded operation, PREPARED looks it up first and adopts it only   *)
(* under its own key.                                                      *)
PayByStatus(k) ==
    \/ /\ lpRow[k].st = "PENDING"
       /\ lpAwait' = lpAwait \cup {[key |-> k, op |-> lpRow[k].op]}
       /\ UNCHANGED <<lpRow, lpCall>>
    \/ /\ lpRow[k].st = "PREPARED" /\ lpOps[0].st = "none"
       /\ lpCall' = [key |-> k, pc |-> "send"]
       /\ UNCHANGED <<lpRow, lpAwait>>
    \/ /\ lpRow[k].st = "PREPARED" /\ lpOps[0].st # "none" /\ lpOps[0].by = k
       /\ SetRow(k, "PENDING", 0)
       /\ lpAwait' = lpAwait \cup {[key |-> k, op |-> 0]}
       /\ UNCHANGED lpCall
    \/ /\ lpRow[k].st = "PREPARED" /\ lpOps[0].st # "none" /\ lpOps[0].by # k
       /\ SetRow(k, "FAILED", Sentinel)
       /\ UNCHANGED <<lpCall, lpAwait>>

Lnv2PayInner(k) ==
    /\ lpUp /\ lpCall = NoCall
    /\ PayByStatus(k)
    /\ UNCHANGED <<lpOps, lpEnv>>

(* reachable_gateway_preferring: the first that answers within the limits. *)
Usable == {g \in Gateways : lpGateway[g] <= MaxFee}
FirstUsable == CHOOSE g \in Usable : \A h \in Usable : g <= h

(* start_send's preflight: an invoice for another amount than the one owed *)
(* and an outlay above the cap are refusals before funding; no usable      *)
(* gateway is an error that changes nothing.                               *)
StartSend(k) ==
    /\ lpCall = [key |-> k, pc |-> "send"]
    /\ \/ /\ k \in lpOwes /\ Usable = {}
          /\ lpCall' = NoCall /\ UNCHANGED lpRow
       \/ /\ (k \in lpOwes) => (Usable # {} /\ lpGateway[FirstUsable] > FeeCap)
          /\ SetRow(k, "FAILED", 0) /\ lpCall' = NoCall
       \/ /\ k \in lpOwes /\ Usable # {} /\ lpGateway[FirstUsable] <= FeeCap
          /\ lpCall' = [key |-> k, pc |-> "fund"] /\ UNCHANGED lpRow
    /\ UNCHANGED <<lpOps, lpAwait, lpEnv>>

(* The client (external): it dedups on the invoice, and after a definitive *)
(* failure it starts the next attempt.                                     *)
NextAttempt == IF lpOps[0].st = "refunded" THEN 1 ELSE 0

(* send(): funded now, or refused before funding, for good or for a retry; *)
(* the row is written only afterwards.  Its dedup answers (InProgress,     *)
(* AlreadyPaid) need an attempt that the lookup under the same lock did    *)
(* not see.                                                                *)
Fund(k) ==
    /\ lpCall = [key |-> k, pc |-> "fund"]
    /\ \/ /\ lpOps' = [lpOps EXCEPT ![NextAttempt] = [st |-> "pending", by |-> k]]
          /\ lpCall' = [key |-> k, pc |-> "bind"] /\ UNCHANGED lpRow
       \/ /\ lpCall' = NoCall /\ UNCHANGED lpOps
          /\ UNCHANGED lpRow \/ SetRow(k, "FAILED", 0)
    /\ UNCHANGED <<lpAwait, lpEnv>>

(* set_op: bind the operation just funded.                                 *)
BindOp(k) ==
    /\ lpCall = [key |-> k, pc |-> "bind"]
    /\ LET a == IF lpOps[1].st # "none" THEN 1 ELSE 0
       IN  SetRow(k, "PENDING", a) /\ lpAwait' = lpAwait \cup {[key |-> k, op |-> a]}
    /\ lpCall' = NoCall
    /\ UNCHANGED <<lpOps, lpEnv>>

(* await_send_final: Refunded and Failure both mean not paid; an error or  *)
(* a timeout says nothing.                                                 *)
Awaited(w) ==
    CASE lpOps[w.op].st = "success" -> "SUCCEEDED"
      [] lpOps[w.op].st = "refunded" -> "FAILED"
      [] OTHER -> lpRow[w.key].st

(* pay_mark: a CAS on the key and the operation.                           *)
AwaitFinal ==
    /\ \E w \in lpAwait :
         /\ lpAwait' = lpAwait \ {w}
         /\ IF lpRow[w.key].op = w.op /\ lpRow[w.key].st # "none"
            THEN SetRow(w.key, Awaited(w), w.op)
            ELSE UNCHANGED lpRow
    /\ UNCHANGED <<lpOps, lpCall, lpEnv>>

(* gc_lnv2_pay_index: only FAILED rows.                                    *)
ReapPay(k) ==
    /\ lpUp /\ lpCall.key # k
    /\ lpRow[k].st = "FAILED"
    /\ \A w \in lpAwait : w.key # k
    /\ lpRow' = [lpRow EXCEPT ![k] = NoLpRow]
    /\ UNCHANGED <<lpOps, lpCall, lpAwait, lpEnv>>

-----------------------------------------------------------------------------
(* The federation and its gateways (external), a crash.                    *)

OpResolves ==
    /\ \E a \in Attempts, s \in {"success", "refunded"} :
         lpOps[a].st = "pending" /\ lpOps' = [lpOps EXCEPT ![a].st = s]
    /\ UNCHANGED <<lpRow, lpCall, lpAwait, lpEnv>>

GatewayChanges ==
    /\ \E g \in Gateways, f \in 0..Unusable : lpGateway' = [lpGateway EXCEPT ![g] = f]
    /\ UNCHANGED <<lpRow, lpOps, lpCall, lpAwait, lpOwes, lpUp, lpCrashed>>

LpCrash ==
    /\ lpUp /\ lpCrashed < LnPayCrashes
    /\ lpUp' = FALSE /\ lpCrashed' = lpCrashed + 1
    /\ lpCall' = NoCall /\ lpAwait' = {}
    /\ UNCHANGED <<lpRow, lpOps, lpGateway, lpOwes>>

LpRestart ==
    /\ ~lpUp /\ lpUp' = TRUE
    /\ UNCHANGED <<lpRow, lpOps, lpCall, lpAwait, lpGateway, lpOwes, lpCrashed>>

LpNext ==
    \/ \E k \in LnKeys :
         LpPrepare(k) \/ Lnv2PayInner(k) \/ StartSend(k) \/ Fund(k) \/ BindOp(k) \/ ReapPay(k)
    \/ AwaitFinal \/ OpResolves \/ GatewayChanges \/ LpCrash \/ LpRestart

-----------------------------------------------------------------------------
(* The pay row tells the truth: SUCCEEDED is a send of this key's own that *)
(* paid, FAILED is a key none of whose sends is live or paid, and the      *)
(* invoice is paid by one attempt at most, although a crash may separate   *)
(* the send from its row, waits time out, and old failures are reaped.     *)
Lnv2RowIsTruth ==
    /\ \A k \in LnKeys :
         /\ lpRow[k].st = "SUCCEEDED" =>
              \E a \in Attempts : lpOps[a] = [st |-> "success", by |-> k]
         /\ lpRow[k].st = "FAILED" => \A a \in Attempts : OpLive(a) => lpOps[a].by # k
    /\ lpOps[1].st = "none"
=============================================================================
