----------------------------- MODULE PhoenixdPay -----------------------------
(***************************************************************************)
(* phoenixd_backend.rs, the pay side: several idempotency keys whose       *)
(* destination is the same invoice, the durable phoenixd_pay rows, and the *)
(* wallets phoenixd_url may point at.  payinvoice takes no idempotency     *)
(* key, so the PREPARED row, the outgoingbyhash probe and the recorded     *)
(* wallet identity are what keep a payment from being made twice.          *)
(***************************************************************************)
EXTENDS Integers, FiniteSets

CONSTANTS
    PayKeys,      \* idempotency keys that resolved to the invoice
    Wallets,      \* phoenixd wallets, each with its own payment history
    NoWallet,
    NoKey,
    PayCrashes    \* bound: crashes, each of which may repoint phoenixd_url

ASSUME PhoenixdPayAssumption ==
    /\ NoWallet \notin Wallets /\ NoKey \notin PayKeys
    /\ PayCrashes \in Nat

VARIABLES
    ppRow,      \* phoenixd_pay
    ppOut,      \* per wallet: its one outgoing record for the hash
    ppWire,     \* payinvoice requests sent and not arrived
    ppPay,      \* the call that holds pay_start_lock
    ppWallet,   \* the wallet behind phoenixd_url
    ppUp,
    ppExpired,  \* the destination invoice has expired
    ppCapOk,    \* per key: payout plus reserved fee fits the cap
    ppCrashed

ppEnv == <<ppWallet, ppUp, ppExpired, ppCapOk, ppCrashed>>
ppVars == <<ppRow, ppOut, ppWire, ppPay, ppEnv>>

NoPayRow == [st |-> "none", node |-> NoWallet]
NoRecord == [st |-> "none", by |-> NoKey]
PayIdle == [key |-> NoKey, pc |-> "idle"]

Live(n) == ppOut[n].st \in {"flying", "paid"}

PayInit ==
    /\ ppRow = [k \in PayKeys |-> NoPayRow]
    /\ ppOut = [n \in Wallets |-> NoRecord]
    /\ ppWire = {}
    /\ ppPay = PayIdle
    /\ ppWallet \in Wallets
    /\ ppUp = TRUE
    /\ ppExpired = FALSE
    /\ ppCapOk \in [PayKeys -> BOOLEAN]
    /\ ppCrashed = 0

Goto(k, pc) == ppPay' = [key |-> k, pc |-> pc]
PayAt(k, pc) == ppPay = [key |-> k, pc |-> pc]

(* pay_other_key_for_hash: another key holds the hash and is not FAILED.   *)
Collides(k) == \E j \in PayKeys \ {k} : ppRow[j].st \in {"PREPARED", "SUCCEEDED"}

(* pay_upsert_prepared, pay_upsert_failed: never over a SUCCEEDED row.     *)
UpsertPrepared(k, n) ==
    ppRow' = IF ppRow[k].st = "SUCCEEDED" THEN ppRow
             ELSE [ppRow EXCEPT ![k] = [st |-> "PREPARED", node |-> n]]

UpsertFailed(k) ==
    ppRow' = IF ppRow[k].st = "SUCCEEDED" THEN ppRow
             ELSE [ppRow EXCEPT ![k].st = "FAILED"]

-----------------------------------------------------------------------------
(* prepare_pay under the lease, committed by the driver: a row that is not *)
(* FAILED is left to pay; a collision is recorded as a refusal; otherwise  *)
(* the wallet answering now goes into the witness.                         *)
PhPreparePay(k) ==
    /\ ppUp /\ ppPay = PayIdle
    /\ ppRow[k].st \in {"none", "FAILED"}
    /\ IF Collides(k) THEN UpsertFailed(k) ELSE UpsertPrepared(k, ppWallet)
    /\ UNCHANGED <<ppOut, ppWire, ppPay, ppEnv>>

(* pay_inner: no row and SUCCEEDED return at once; a PREPARED key is       *)
(* probed first; a FAILED one never sent anything.                         *)
PayInner(k) ==
    /\ ppUp /\ ppPay = PayIdle
    /\ \/ ppRow[k].st = "PREPARED" /\ Goto(k, "probe")
       \/ ppRow[k].st = "FAILED" /\ Goto(k, "start")
    /\ UNCHANGED <<ppRow, ppOut, ppWire, ppEnv>>

(* Mutant: a 404 is taken for proof whichever wallet answered.             *)
ProbedAnyNode(k) ==
    LET r == ppOut[ppWallet]
    IN  /\ IF r.st = "paid" THEN ppRow' = [ppRow EXCEPT ![k].st = "SUCCEEDED"]
           ELSE UNCHANGED ppRow
        /\ IF r.st = "none" THEN Goto(k, "start") ELSE ppPay' = PayIdle

(* outgoingbyhash decides for a PREPARED key: paid is adopted, in flight   *)
(* or failed leaves it pending, and a 404 retries only at the wallet the   *)
(* attempt was prepared against (require_prepared_node).                   *)
Probed(k) ==
    LET r == ppOut[ppWallet]
    IN  /\ IF r.st = "paid" THEN ppRow' = [ppRow EXCEPT ![k].st = "SUCCEEDED"]
           ELSE UNCHANGED ppRow
        /\ IF r.st = "none" /\ ppRow[k].node = ppWallet THEN Goto(k, "start")
           ELSE ppPay' = PayIdle

PayProbe(k) ==
    /\ PayAt(k, "probe")
    /\ \/ Probed(k)
       \/ ppPay' = PayIdle /\ UNCHANGED ppRow
    /\ UNCHANGED <<ppOut, ppWire, ppEnv>>

(* start_pay's refusals: an expired destination, a hash another key owns,  *)
(* an outlay above the cap.                                                *)
Refuses(k) == ppExpired \/ Collides(k) \/ ~ppCapOk[k]

(* The preflight, then the witness, then the send; the version check may   *)
(* fail in between and leaves the row as it was.                           *)
StartPay(k) ==
    /\ PayAt(k, "start")
    /\ \/ Refuses(k) /\ UpsertFailed(k) /\ ppPay' = PayIdle
       \/ ~Refuses(k) /\ UpsertPrepared(k, ppWallet) /\ Goto(k, "post")
       \/ ~Refuses(k) /\ ppPay' = PayIdle /\ UNCHANGED ppRow
    /\ UNCHANGED <<ppOut, ppWire, ppEnv>>

PostPay(k) ==
    /\ PayAt(k, "post")
    /\ ppWire' = ppWire \cup {[key |-> k, node |-> ppWallet]}
    /\ Goto(k, "await")
    /\ UNCHANGED <<ppRow, ppOut, ppEnv>>

(* A receipt, or no receipt and a record that says paid, is a success;     *)
(* every other answer, a timeout included, leaves the key PREPARED.        *)
Answered(k) ==
    \/ /\ ppOut[ppWallet].st = "paid"
       /\ ppRow' = [ppRow EXCEPT ![k].st = "SUCCEEDED"]
    \/ UNCHANGED ppRow

PayAnswer(k) ==
    /\ PayAt(k, "await")
    /\ Answered(k)
    /\ ppPay' = PayIdle /\ ppWire' = {}
    /\ UNCHANGED <<ppOut, ppEnv>>

-----------------------------------------------------------------------------
(* The wallet (external): it dedups by hash, pays no expired invoice, and  *)
(* shows a record as soon as a request has arrived.  A request that has    *)
(* not arrived when its call ends never does (the header's fact 3).        *)
PostArrives ==
    /\ \E w \in ppWire :
         /\ ppWire' = ppWire \ {w}
         /\ ppOut' = IF ppExpired \/ Live(w.node) THEN ppOut
                     ELSE [ppOut EXCEPT ![w.node] = [st |-> "flying", by |-> w.key]]
    /\ UNCHANGED <<ppRow, ppPay, ppEnv>>

WalletResolves ==
    /\ \E n \in Wallets, s \in {"paid", "failed"} :
         ppOut[n].st = "flying" /\ ppOut' = [ppOut EXCEPT ![n].st = s]
    /\ UNCHANGED <<ppRow, ppWire, ppPay, ppEnv>>

DestinationExpires ==
    /\ ~ppExpired /\ ppExpired' = TRUE
    /\ UNCHANGED <<ppRow, ppOut, ppWire, ppPay, ppWallet, ppUp, ppCapOk, ppCrashed>>

(* The process dies with its requests; the next one may be configured with *)
(* another wallet or another fee schedule.                                 *)
PayCrash ==
    /\ ppUp /\ ppCrashed < PayCrashes
    /\ ppCrashed' = ppCrashed + 1
    /\ ppUp' = FALSE
    /\ ppPay' = PayIdle /\ ppWire' = {}
    /\ UNCHANGED <<ppRow, ppOut, ppWallet, ppExpired, ppCapOk>>

PayRestart ==
    /\ ~ppUp /\ ppUp' = TRUE
    /\ ppWallet' \in Wallets
    /\ ppCapOk' \in [PayKeys -> BOOLEAN]
    /\ UNCHANGED <<ppRow, ppOut, ppWire, ppPay, ppExpired, ppCrashed>>

PayNext ==
    \/ \E k \in PayKeys :
         \/ PhPreparePay(k) \/ PayInner(k) \/ PayProbe(k)
         \/ StartPay(k) \/ PostPay(k) \/ PayAnswer(k)
    \/ PostArrives \/ WalletResolves \/ DestinationExpires
    \/ PayCrash \/ PayRestart

-----------------------------------------------------------------------------
(* The pay row tells the truth: SUCCEEDED is a payment this key's own send *)
(* made, FAILED is a key none of whose sends is live, landed or can still  *)
(* arrive (the module's invariant, on which the refunder pays a fresh     *)
(* invoice), and the destination is paid by one wallet at most,            *)
(* through ambiguous answers, crashes, a repointed phoenixd_url and keys   *)
(* that share the invoice.                                                 *)
PayRowIsTruth ==
    /\ \A k \in PayKeys :
         /\ ppRow[k].st = "SUCCEEDED" =>
              \E n \in Wallets : ppOut[n] = [st |-> "paid", by |-> k]
         /\ ppRow[k].st = "FAILED" =>
              /\ \A n \in Wallets : Live(n) => ppOut[n].by # k
              /\ \A w \in ppWire : w.key # k
    /\ \A m, n \in Wallets : Live(m) /\ Live(n) => m = n
=============================================================================
