------------------------------ MODULE Capacity ------------------------------
(***************************************************************************)
(* order.request and the host's slots: reservation.rs and the order half   *)
(* of order_intake.rs.  A request may be delivered any number of times and *)
(* each delivery runs in a task of its own, so several handlers work on    *)
(* one order id at once; every store transaction is atomic and the steps   *)
(* of a handler interleave between them.  The later life of a committed    *)
(* order appears here only where it moves the reservation or what counts   *)
(* as live usage; module Lifecycle has it in full.                         *)
(*                                                                         *)
(* One order needs one slot of a host of Slots slots.                      *)
(***************************************************************************)
EXTENDS Integers, FiniteSets

CONSTANTS
    Orders,          \* order ids, ord:<sender>:<request id>
    SenderOf,        \* the buyer key of each
    Handlers,        \* concurrent deliveries
    Slots,           \* host budget
    MaxHolds,        \* max_live_holds_per_buyer
    HoldTTL,         \* INVOICE_EXPIRY_S
    MaxTime,         \* bound: the clock stops here
    MaxFaults        \* bound: how often the daemon dies or a store call fails

ASSUME CapacityAssumption ==
    /\ IsFiniteSet(Orders)
    /\ Slots \in Nat /\ MaxHolds \in Nat /\ HoldTTL \in Nat \ {0}
    /\ MaxTime \in Nat /\ MaxFaults \in Nat

VARIABLES
    now,
    listing,         \* listing.state is ACTIVE
    cached,          \* inbound_request row of each request: "none", "invoice", "error"
    resv,            \* reservation.state, "none" before the first reserve
    expires_at,      \* reservation.expires_at
    sub,             \* subscription.state, "none" before OrderWrite
    order_invoice,   \* status of the order invoice, "none" before OrderWrite
    invoice_expiry,  \* its expires_at
    paid,            \* backend: the orders whose invoice is paid
    handler,         \* each delivery: its step and its order
    minted,          \* each delivery: the expires_at of the invoice it got
    revived,         \* history: a capture put a lapsed hold back to use
    hold_lost,       \* history: OrderWrite answered HoldLost
    cut,             \* history: the orders whose refusal a crash or the store cut short
    faults

vars == <<now, listing, cached, resv, expires_at, sub, order_invoice,
          invoice_expiry, paid, handler, minted, revived, hold_lost, cut, faults>>
subVars == <<sub, order_invoice, invoice_expiry>>
resvVars == <<resv, expires_at>>
envVars == <<now, listing, paid, faults>>
history == <<revived, hold_lost, cut>>

Idle == [pc |-> "idle", order |-> {}]
At(h, pc, o) == handler[h] = [pc |-> pc, order |-> {o}]
Go(h, pc, o) == handler' = [handler EXCEPT ![h] = [pc |-> pc, order |-> {o}]]
Done(h) == handler' = [handler EXCEPT ![h] = Idle]
Working(h, o) == \E pc \in {"issue", "write", "refuse_release", "release"} : At(h, pc, o)

Init ==
    /\ now = 0 /\ listing = TRUE
    /\ cached = [o \in Orders |-> "none"]
    /\ resv = [o \in Orders |-> "none"]
    /\ expires_at = [o \in Orders |-> 0]
    /\ sub = [o \in Orders |-> "none"]
    /\ order_invoice = [o \in Orders |-> "none"]
    /\ invoice_expiry = [o \in Orders |-> 0]
    /\ paid = {}
    /\ handler = [h \in Handlers |-> Idle]
    /\ minted = [h \in Handlers |-> 0]
    /\ revived = FALSE /\ hold_lost = FALSE /\ cut = {} /\ faults = 0

-----------------------------------------------------------------------------
(* Mutant: an expired hold frees its slot even if its order was paid.      *)
LiveWhileUnexpired(o) == resv[o] = "HELD" /\ expires_at[o] > now

(* A HELD row counts while unexpired, once paid, or while provisioning.    *)
LiveHeld(o) ==
    /\ resv[o] = "HELD"
    /\ \/ expires_at[o] > now
       \/ order_invoice[o] = "PAID"
       \/ sub[o] = "PROVISIONING"

(* live_usage and live_hold_count.                                         *)
Live(o) == resv[o] = "CONSUMED" \/ LiveHeld(o)
LiveUsage(except) == Cardinality({o \in Orders \ {except} : Live(o)})
LiveHoldCount(o) ==
    Cardinality({p \in Orders \ {o} : SenderOf[p] = SenderOf[o] /\ LiveHeld(p)})

Room(o) == LiveHoldCount(o) < MaxHolds /\ LiveUsage(o) + 1 <= Slots

(* Mutant: whoever fails last releases, and whoever writes last is cached. *)
NothingKeepsHold(o) == FALSE
CacheErrorAlways(o) == cached' = [cached EXCEPT ![o] = "error"]

(* Only a committed order.invoice keeps the hold of a failed delivery.     *)
InvoiceKeepsHold(o) == cached[o] = "invoice"

(* The insert is the idempotency arbiter: the first answer stays.          *)
CacheError(o) == cached' = [cached EXCEPT ![o] = IF @ = "none" THEN "error" ELSE @]

-----------------------------------------------------------------------------
(* handle_order up to the reserve: a cached request is answered from the   *)
(* cache; otherwise the request may be found invalid or stale, and must    *)
(* name an ACTIVE listing.                                                 *)
HandleOrder(h, o) ==
    /\ handler[h] = Idle /\ cached[o] = "none"
    /\ \/ listing /\ Go(h, "reserve", o)
       \/ Go(h, "refuse", o)
    /\ UNCHANGED <<envVars, cached, resvVars, subVars, minted, history>>

(* reserve: check and insert in one transaction.  A HELD row is refreshed, *)
(* a CONSUMED one is left alone, a RELEASED one is the caller's error.     *)
Reserve(h, o) ==
    /\ At(h, "reserve", o)
    /\ CASE resv[o] = "CONSUMED" -> Go(h, "issue", o) /\ UNCHANGED resvVars
         [] resv[o] = "RELEASED" -> Done(h) /\ UNCHANGED resvVars
         [] resv[o] \in {"none", "HELD"} /\ ~Room(o) ->
              Go(h, "refuse_release", o) /\ UNCHANGED resvVars
         [] OTHER ->
              /\ Go(h, "issue", o)
              /\ resv' = [resv EXCEPT ![o] = "HELD"]
              /\ expires_at' = [expires_at EXCEPT ![o] = now + HoldTTL]
    /\ UNCHANGED <<envVars, cached, subVars, minted, history>>

(* issue_invoice: a network round trip that may fail.  The invoice expires *)
(* when the backend says, at most HoldTTL from now; its create lease keeps *)
(* the next mint waiting until this delivery's commit is over.             *)
IssueInvoice(h, o) ==
    /\ At(h, "issue", o)
    /\ \A k \in Handlers, p \in Orders : ~At(k, "write", p)
    /\ \/ Go(h, "refuse_release", o) /\ UNCHANGED minted
       \/ /\ Go(h, "write", o)
          /\ \E e \in now + 1..now + HoldTTL : minted' = [minted EXCEPT ![h] = e]
    /\ UNCHANGED <<envVars, cached, resvVars, subVars, history>>

(* OrderWrite: one transaction.                                            *)
Duplicate(h, o) ==
    /\ IF InvoiceKeepsHold(o) THEN Done(h) ELSE Go(h, "release", o)
    /\ UNCHANGED <<cached, resvVars, subVars, hold_lost>>

ListingGone(h, o) ==
    /\ resv' = [resv EXCEPT ![o] = "RELEASED"]
    /\ cached' = [cached EXCEPT ![o] = "error"]
    /\ Done(h)
    /\ UNCHANGED <<expires_at, subVars, hold_lost>>

HoldLost(h, o) ==
    /\ cached' = [cached EXCEPT ![o] = "error"]
    /\ hold_lost' = TRUE
    /\ Done(h)
    /\ UNCHANGED <<resvVars, subVars>>

(* The hold's expiry is moved to the invoice's.                            *)
Committed(h, o) ==
    /\ sub' = [sub EXCEPT ![o] = "PENDING"]
    /\ order_invoice' = [order_invoice EXCEPT ![o] = "OPEN"]
    /\ invoice_expiry' = [invoice_expiry EXCEPT ![o] = minted[h]]
    /\ expires_at' = [expires_at EXCEPT ![o] = minted[h]]
    /\ cached' = [cached EXCEPT ![o] = "invoice"]
    /\ Done(h)
    /\ UNCHANGED <<resv, hold_lost>>

OrderWrite(h, o) ==
    /\ At(h, "write", o)
    /\ CASE cached[o] # "none" -> Duplicate(h, o)
         [] cached[o] = "none" /\ ~listing -> ListingGone(h, o)
         [] cached[o] = "none" /\ listing /\ resv[o] \notin {"HELD", "CONSUMED"} ->
              HoldLost(h, o)
         [] OTHER -> Committed(h, o)
    /\ minted' = [minted EXCEPT ![h] = 0]
    /\ UNCHANGED <<envVars, revived, cut>>

(* The store may also fail the commit: nothing is written.                 *)
OrderWriteFails(h, o) ==
    /\ At(h, "write", o)
    /\ Go(h, "refuse_release", o)
    /\ minted' = [minted EXCEPT ![h] = 0]
    /\ UNCHANGED <<envVars, cached, resvVars, subVars, history>>

(* fail_order: cache the error, unless another delivery's answer is there; *)
(* only an order.invoice keeps the hold.                                   *)
FailOrder(h, o) ==
    /\ \/ At(h, "refuse", o) /\ Done(h)
       \/ At(h, "refuse_release", o)
          /\ IF InvoiceKeepsHold(o) THEN Done(h) ELSE Go(h, "release", o)
    /\ CacheError(o)
    /\ UNCHANGED <<envVars, resvVars, subVars, minted, history>>

(* Mutant: a commit that lost to another delivery's refusal keeps its hold.*)
ReleaseForgotten(h, o) ==
    /\ At(h, "release", o) /\ Done(h)
    /\ UNCHANGED <<envVars, cached, resvVars, subVars, minted, history>>

(* release: idempotent.                                                    *)
Release(h, o) ==
    /\ At(h, "release", o)
    /\ resv' = [resv EXCEPT ![o] = IF @ = "none" THEN @ ELSE "RELEASED"]
    /\ Done(h)
    /\ UNCHANGED <<envVars, cached, expires_at, subVars, minted, history>>

(* A store call other than the commit fails: reserve, the refusal's cache  *)
(* row or the release.  The delivery ends there with no reply.             *)
StoreFails(h, o) ==
    /\ \E pc \in {"reserve", "refuse", "refuse_release", "release"} : At(h, pc, o)
    /\ Done(h)
    /\ faults < MaxFaults /\ faults' = faults + 1
    /\ cut' = IF Working(h, o) THEN cut \cup {o} ELSE cut
    /\ UNCHANGED <<now, listing, paid, cached, resvVars, subVars, minted, revived, hold_lost>>

-----------------------------------------------------------------------------
(* The rest of the daemon, where it touches the slot.                      *)
MoveSub(o, s) == sub' = [sub EXCEPT ![o] = s]
MoveResv(o, r) == resv' = [resv EXCEPT ![o] = r]
othersL == <<now, listing, paid, faults, cached, expires_at, invoice_expiry, handler, minted,
             hold_lost, cut>>

(* capture: settled at a time before the invoice's expiry, applied at any  *)
(* later time while the row is still PENDING.                              *)
CaptureOrder(o) ==
    /\ sub[o] = "PENDING" /\ o \in paid
    /\ MoveSub(o, "PROVISIONING")
    /\ order_invoice' = [order_invoice EXCEPT ![o] = "PAID"]
    /\ revived' = (revived \/ ~Live(o))
    /\ UNCHANGED <<othersL, resv>>

(* fire_pending_expiry, which spares an order paid at the backend.         *)
ExpireOrder(o) ==
    /\ sub[o] = "PENDING" /\ invoice_expiry[o] <= now /\ o \notin paid
    /\ MoveSub(o, "EXPIRED") /\ MoveResv(o, "RELEASED")
    /\ order_invoice' = [order_invoice EXCEPT ![o] = "EXPIRED"]
    /\ UNCHANGED <<othersL, revived>>

(* ActiveWrite, RefundDueWrite, and the ends of a served or refunded order.*)
ActivateOrder(o) ==
    /\ sub[o] = "PROVISIONING" /\ resv[o] = "HELD"
    /\ MoveSub(o, "ACTIVE") /\ MoveResv(o, "CONSUMED")
    /\ UNCHANGED <<othersL, order_invoice, revived>>

FailProvision(o) ==
    /\ sub[o] = "PROVISIONING"
    /\ MoveSub(o, "REFUND_DUE")
    /\ UNCHANGED <<othersL, resv, order_invoice, revived>>

EndOrder(o) ==
    /\ sub[o] \in {"ACTIVE", "REFUND_DUE"}
    /\ MoveSub(o, IF sub[o] = "ACTIVE" THEN "TERMINATED" ELSE "REFUNDED")
    /\ MoveResv(o, "RELEASED")
    /\ UNCHANGED <<othersL, order_invoice, revived>>

-----------------------------------------------------------------------------
(* Buyers, the operator, the clock, the process.                           *)
Pay(o) ==
    /\ order_invoice[o] = "OPEN" /\ now < invoice_expiry[o]
    /\ paid' = paid \cup {o}
    /\ UNCHANGED <<now, listing, faults, cached, resvVars, subVars, handler, minted, history>>

Withdraw ==
    /\ listing /\ listing' = FALSE
    /\ UNCHANGED <<now, paid, faults, cached, resvVars, subVars, handler, minted, history>>

(* Minting is one round trip: it never outlasts the hour its hold lasts.   *)
Minting(h, o) == \E pc \in {"issue", "write"} : At(h, pc, o)

Tick ==
    /\ now < MaxTime /\ now' = now + 1
    /\ \A h \in Handlers, o \in Orders :
          Minting(h, o) /\ cached[o] = "none" => now' < expires_at[o]
    /\ UNCHANGED <<listing, paid, faults, cached, resvVars, subVars, handler, minted, history>>

Crash ==
    /\ faults < MaxFaults /\ faults' = faults + 1
    /\ handler' = [h \in Handlers |-> Idle]
    /\ minted' = [h \in Handlers |-> 0]
    /\ cut' = cut \cup {o \in Orders : \E h \in Handlers : Working(h, o)}
    /\ UNCHANGED <<now, listing, paid, cached, resvVars, subVars, revived, hold_lost>>

Intake(h, o) ==
    \/ HandleOrder(h, o) \/ Reserve(h, o) \/ IssueInvoice(h, o)
    \/ OrderWrite(h, o) \/ OrderWriteFails(h, o)
    \/ FailOrder(h, o) \/ Release(h, o) \/ StoreFails(h, o)

Rest(o) ==
    \/ CaptureOrder(o) \/ ExpireOrder(o) \/ ActivateOrder(o)
    \/ FailProvision(o) \/ EndOrder(o) \/ Pay(o)

Next ==
    \/ \E o \in Orders : Rest(o) \/ \E h \in Handlers : Intake(h, o)
    \/ Withdraw \/ Tick \/ Crash

Spec == Init /\ [][Next]_vars

-----------------------------------------------------------------------------
(* The books hold what their columns may hold.                             *)
CapacityTypeOK ==
    /\ now \in Nat /\ listing \in BOOLEAN /\ paid \subseteq Orders
    /\ cached \in [Orders -> {"none", "invoice", "error"}]
    /\ resv \in [Orders -> {"none", "HELD", "CONSUMED", "RELEASED"}]
    /\ expires_at \in [Orders -> Nat] /\ invoice_expiry \in [Orders -> Nat]
    /\ sub \in [Orders -> {"none", "PENDING", "PROVISIONING", "ACTIVE", "REFUND_DUE",
                           "EXPIRED", "TERMINATED", "REFUNDED"}]
    /\ order_invoice \in [Orders -> {"none", "OPEN", "PAID", "EXPIRED"}]
    /\ handler \in [Handlers -> [pc : {"idle", "reserve", "issue", "write", "refuse",
                                       "refuse_release", "release"},
                                 order : {{}} \cup {{o} : o \in Orders}]]
    /\ minted \in [Handlers -> Nat]
    /\ revived \in BOOLEAN /\ hold_lost \in BOOLEAN /\ cut \subseteq Orders /\ faults \in Nat

(* The one answer a buyer gets is the truth: an order exists exactly when  *)
(* its request is answered with an invoice, however many deliveries raced  *)
(* (OrderWrite's dedup read, fail_order's cache-first rule).               *)
AnswerMatchesOrder == \A o \in Orders : cached[o] = "invoice" <=> sub[o] # "none"

(* No order is ever committed without a live hold behind it: a committed   *)
(* order that may still become, or is, a box keeps its reservation, and no *)
(* other delivery's refusal takes it away.                                 *)
OrderBehindHold ==
    \A o \in Orders :
        /\ sub[o] \in {"PENDING", "PROVISIONING", "REFUND_DUE"} => resv[o] = "HELD"
        /\ sub[o] = "ACTIVE" => resv[o] = "CONSUMED"

(* OrderWrite's "honest reachability" comment: no reachable caller trips   *)
(* the HoldLost guard.                                                     *)
HoldLostUnreachable == ~hold_lost

(* A refused request strands no slot: once every delivery of it is over,   *)
(* nothing is reserved for it.  Where a crash or a failed store call cut a *)
(* refusal short of its release the row may stay HELD, but it counts no    *)
(* longer than its TTL.                                                    *)
NoStrandedHold ==
    \A o \in Orders :
        cached[o] = "error" /\ (\A h \in Handlers : o \notin handler[h].order) =>
            /\ o \notin cut => resv[o] \notin {"HELD", "CONSUMED"}
            /\ Live(o) => now < expires_at[o]

(* The host is never oversold: reservation.rs promises that concurrent     *)
(* orders for the last slot can never both succeed.                        *)
NoOversell == Cardinality({o \in Orders : Live(o)}) <= Slots

(* The same as long as no lapsed hold is put back to use by a settlement   *)
(* captured after its expiry; and then no buyer holds more unfinished      *)
(* orders than max_live_holds_per_buyer.                                   *)
NoOversellOnTime ==
    ~revived =>
        /\ NoOversell
        /\ \A o \in Orders : LiveHeld(o) => LiveHoldCount(o) < MaxHolds
=============================================================================
