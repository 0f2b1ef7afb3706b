------------------------------- MODULE Refund -------------------------------
(***************************************************************************)
(* refund.rs: the executor of one refund_attempt row on the maintenance    *)
(* loop, the payment backend it sends through, and the operator's          *)
(* refund-retry and clear-fence (ipc.rs).                                  *)
(*                                                                         *)
(* A refund is paid under generation-bound keys: generation 0 pays the     *)
(* buyer's own bolt11, generation g >= 1 the g-th invoice resolved from a  *)
(* lightning address.  Amounts, fees and invoices are abstracted to the    *)
(* decisions they lead to, which are then free choices.                    *)
(***************************************************************************)
EXTENDS Integers, FiniteSets

CONSTANTS
    Dests,           \* refund_dest forms: "bolt11", "lnurl", "unpayable"
    Backends,        \* "lnv2" (a failed invoice is dead), "phoenixd" (it is reusable)
    MaxAttempts,     \* MAX_REFUND_ATTEMPTS
    MaxGen,          \* bound: how often a destination is resolved
    MaxCrashes       \* bound: how often the executor is cut off

ASSUME RefundAssumption ==
    /\ Dests \subseteq {"bolt11", "lnurl", "unpayable"}
    /\ Backends \subseteq {"lnv2", "phoenixd"}
    /\ MaxAttempts \in Nat \ {0} /\ MaxGen \in Nat \ {0} /\ MaxCrashes \in Nat

Gens == 0..MaxGen

VARIABLES
    dest, backend,       \* fixed by the order and by the configuration
    status, attempts, resolution_gen,  \* refund_attempt row
    fenced,              \* migration_unverified_at is set
    expired,             \* the resolved invoice is past resolved_expiry
    dm,                  \* the billing.refund outbox row: "none", "sent", "failed"
    pay,                 \* the backend's pay rows, by generation key
    net,                 \* the payments themselves, by generation
    drv,                 \* the executor's position, and the generation it pays
    crashes

rowVars == <<status, attempts, resolution_gen, fenced, expired, dm>>
vars == <<dest, backend, rowVars, pay, net, drv, crashes>>

Idle == [pc |-> "idle", gen |-> 0]
At(pc) == drv.pc = pc
Go(pc) == drv' = [drv EXCEPT !.pc = pc]

(* map_pay_status: no row is Unknown, a started one Pending.               *)
Status(g) == CASE pay[g] = "none" -> "Unknown"
               [] pay[g] = "PREPARED" -> "Pending"
               [] pay[g] = "SUCCEEDED" -> "Succeeded"
               [] OTHER -> "Failed"

FreshRow ==
    /\ status = "PENDING" /\ resolution_gen = 0 /\ fenced = FALSE /\ dm = "none"
    /\ net = [g \in Gens |-> "none"]

(* A row imported from a legacy side file, fenced because its pay row may  *)
(* have been lost while its payment lives on.                              *)
FencedImport ==
    /\ status \in {"PENDING", "FAILED"} /\ fenced = TRUE
    /\ dm = IF status = "FAILED" THEN "failed" ELSE "none"
    /\ resolution_gen = IF dest = "lnurl" THEN 1 ELSE 0
    /\ \E n \in {"none", "inflight", "paid"} :
          net = [g \in Gens |-> IF g = resolution_gen THEN n ELSE "none"]

Init ==
    /\ dest \in Dests /\ backend \in Backends
    /\ attempts = 0 /\ expired = FALSE
    /\ pay = [g \in Gens |-> "none"]
    /\ drv = Idle /\ crashes = 0
    /\ FreshRow \/ FencedImport

-----------------------------------------------------------------------------
(* drive: load a PENDING row.  A fenced one is left alone, whatever it is. *)
Load ==
    /\ At("idle") /\ status = "PENDING" /\ ~fenced
    /\ drv' = [pc |-> "plan", gen |-> resolution_gen]
    /\ UNCHANGED <<dest, backend, rowVars, pay, net, crashes>>

(* A transient setback: the row stays PENDING, attempts unchanged.         *)
ResolutionRetry ==
    /\ At("plan") \/ At("authorise")
    /\ drv' = Idle
    /\ UNCHANGED <<dest, backend, rowVars, pay, net, crashes>>

(* attempts, counted no further than the cap it is compared with.          *)
Bumped == IF attempts < MaxAttempts THEN attempts + 1 ELSE attempts

(* outbox:refund:<ext> is one row; the insert does nothing on conflict.    *)
EnqueueRefund(m) == dm' = IF dm = "none" THEN m ELSE dm

(* Terminalise a PENDING row, with its message, in one transaction.        *)
CommitTerminal(outcome, m) ==
    /\ drv' = Idle
    /\ IF status = "PENDING"
       THEN status' = outcome /\ attempts' = Bumped /\ EnqueueRefund(m)
       ELSE UNCHANGED <<status, attempts, dm>>
    /\ UNCHANGED <<dest, backend, resolution_gen, fenced, expired, pay, net, crashes>>

(* Pay generation g next; persist_resolution has committed it first when   *)
(* it is a new one, and a row that is no longer PENDING is not paid.       *)
PayGen(g) ==
    /\ drv' = [pc |-> "authorise", gen |-> g]
    /\ UNCHANGED <<dest, backend, rowVars, pay, net, crashes>>

PersistResolution(g) ==
    /\ g \in Gens
    /\ IF status = "PENDING"
       THEN /\ resolution_gen' = g /\ expired' = FALSE
            /\ drv' = [pc |-> "authorise", gen |-> g]
       ELSE drv' = Idle /\ UNCHANGED <<resolution_gen, expired>>
    /\ UNCHANGED <<dest, backend, status, attempts, fenced, dm, pay, net, crashes>>

(* Mutant: an unconfirmed payment on an expired invoice is replaced.       *)
MayReplaceUnknown(g) ==
    Status(g) \in {"Failed"} \cup (IF expired THEN {"Pending"} ELSE {})

(* Only a definite failure of the current generation may be replaced.      *)
MayReplace(g) == Status(g) = "Failed"

(* A failed invoice is reused if it still can be: not expired, not on a    *)
(* backend that never re-sends one (and not above a raised fee's cap).     *)
Reusable == ~expired /\ backend = "phoenixd"

(* plan_payment, with the guards process runs before it.  A quote may find *)
(* the refund dust, or the destination structurally unpayable: park.       *)
NewPayment(g) ==
    CASE dest = "bolt11" -> g = 0 /\ Status(0) \in {"Unknown", "Failed"}
      [] dest = "lnurl" -> g = 0 \/ MayReplace(g)
      [] OTHER -> FALSE

PlanPayment ==
    LET g == drv.gen
    IN  /\ At("plan")
        /\ \/ (dest = "unpayable" \/ NewPayment(g)) /\ CommitTerminal("FAILED", "failed")
           \/ dest = "bolt11" /\ NewPayment(g) /\ PayGen(0)
           \/ dest = "lnurl" /\ NewPayment(g) /\ PersistResolution(g + 1)
           \/ dest = "lnurl" /\ NewPayment(g) /\ g > 0 /\ Reusable /\ PayGen(g)
           \/ /\ dest # "unpayable" /\ ~NewPayment(g) /\ Status(g) = "Succeeded"
              /\ Go("sent") /\ UNCHANGED <<dest, backend, rowVars, pay, net, crashes>>
           \/ /\ dest # "unpayable" /\ ~NewPayment(g) /\ Status(g) # "Succeeded"
              /\ PayGen(g)

(* prepare_pay: a new key, or a failed one phoenixd may re-send, gets a    *)
(* PREPARED row; another refund that owns the same invoice makes it a      *)
(* terminal refusal instead.                                               *)
PreparePay(g) ==
    LET fresh == pay[g] = "none" \/ (pay[g] = "FAILED" /\ backend = "phoenixd")
    IN  \E row \in {"PREPARED", "FAILED"} :
            pay' = IF fresh THEN [pay EXCEPT ![g] = row] ELSE pay

(* authorise_send: the backend's row commits in the transaction that       *)
(* re-asserts the refund is PENDING and unfenced.                          *)
AuthoriseSend ==
    /\ At("authorise") /\ Status(drv.gen) # "Succeeded"
    /\ IF status = "PENDING" /\ ~fenced
       THEN Go("pay") /\ PreparePay(drv.gen)
       ELSE drv' = Idle /\ UNCHANGED pay
    /\ UNCHANGED <<dest, backend, rowVars, net, crashes>>

-----------------------------------------------------------------------------
(* pay_inner, of either backend.  A key that never reached the network is  *)
(* sent, refused for good (over the cap, expired, rejected), or left       *)
(* PREPARED by an error known to come before funding.                      *)
PaySend ==
    LET g == drv.gen
    IN  /\ At("pay") /\ pay[g] = "PREPARED" /\ net[g] = "none"
        /\ \/ net' = [net EXCEPT ![g] = "inflight"] /\ Go("await") /\ UNCHANGED pay
           \/ pay' = [pay EXCEPT ![g] = "FAILED"] /\ Go("errored") /\ UNCHANGED net
           \/ Go("errored") /\ UNCHANGED <<pay, net>>
        /\ UNCHANGED <<dest, backend, rowVars, crashes>>

(* Mutant: a payment found in flight is not awaited again.                 *)
PayKnownNotAwaited ==
    LET g == drv.gen
    IN  /\ At("pay") /\ ~(pay[g] = "PREPARED" /\ net[g] = "none")
        /\ Go(IF pay[g] = "SUCCEEDED" THEN "sent" ELSE "errored")
        /\ UNCHANGED <<dest, backend, rowVars, pay, net, crashes>>

(* A key whose payment exists is never sent again, only awaited; one with  *)
(* no row is refused, a terminal one answered from its row.                *)
PayKnown ==
    LET g == drv.gen
    IN  /\ At("pay") /\ ~(pay[g] = "PREPARED" /\ net[g] = "none")
        /\ Go(CASE pay[g] = "PREPARED" -> "await"
                [] pay[g] = "SUCCEEDED" -> "sent"
                [] OTHER -> "errored")
        /\ UNCHANGED <<dest, backend, rowVars, pay, net, crashes>>

(* Mutant: an await that times out marks the key FAILED.                   *)
PayAwaitGivesUp ==
    LET g == drv.gen
    IN  /\ At("await")
        /\ \/ net[g] = "paid" /\ pay' = [pay EXCEPT ![g] = "SUCCEEDED"] /\ Go("sent")
           \/ pay' = [pay EXCEPT ![g] = "FAILED"] /\ Go("errored")
        /\ UNCHANGED <<dest, backend, rowVars, net, crashes>>

(* await_send_final: only what the network says settles the key.  phoenixd *)
(* cannot tell whose failure a returned payment is, so it stays PREPARED.  *)
PayAwait ==
    LET g == drv.gen
    IN  /\ At("await")
        /\ \/ net[g] = "paid" /\ pay' = [pay EXCEPT ![g] = "SUCCEEDED"] /\ Go("sent")
           \/ /\ net[g] = "returned" /\ backend = "lnv2"
              /\ pay' = [pay EXCEPT ![g] = "FAILED"] /\ Go("errored")
           \/ Go("errored") /\ UNCHANGED pay
        /\ UNCHANGED <<dest, backend, rowVars, net, crashes>>

(* commit_sent: the row is SENT and the buyer told.                        *)
CommitSent == At("sent") /\ CommitTerminal("SENT", "sent")

(* After a pay error the backend's word on the key decides: a definite     *)
(* failure at the cap parks the row; a pending, unknown or unanswered      *)
(* status only counts the attempt (commit_pay_failure).                    *)
CountAttempt ==
    /\ drv' = Idle
    /\ attempts' = IF status = "PENDING" THEN Bumped ELSE attempts
    /\ UNCHANGED <<dest, backend, status, resolution_gen, fenced, expired, dm,
                   pay, net, crashes>>

CommitPayFailure ==
    /\ At("errored")
    /\ CASE Status(drv.gen) = "Succeeded" -> CommitTerminal("SENT", "sent")
         [] Status(drv.gen) = "Failed" /\ Bumped = MaxAttempts ->
              CommitTerminal("FAILED", "failed")
         [] OTHER -> CountAttempt

(* The lookup after the error may itself fail: the status is Unknown.      *)
StatusUnanswered == At("errored") /\ CountAttempt

-----------------------------------------------------------------------------
(* Mutant: the stale message is kept, and blocks the next one.             *)
RetryKeepsMessage ==
    /\ status = "FAILED" /\ ~fenced
    /\ status' = "PENDING" /\ attempts' = 0
    /\ UNCHANGED <<dest, backend, resolution_gen, fenced, expired, dm, pay, net, drv, crashes>>

(* refund_retry: FAILED -> PENDING with a fresh budget, and the stale      *)
(* message withdrawn.  A fenced row is refused.                            *)
RefundRetry ==
    /\ status = "FAILED" /\ ~fenced
    /\ status' = "PENDING" /\ attempts' = 0 /\ dm' = "none"
    /\ UNCHANGED <<dest, backend, resolution_gen, fenced, expired, pay, net, drv, crashes>>

(* migration_clear_fence, by an operator who found no such payment in the  *)
(* wallet's own records.                                                   *)
ClearFence ==
    /\ fenced /\ \A g \in Gens : net[g] \notin {"inflight", "paid"}
    /\ fenced' = FALSE
    /\ UNCHANGED <<dest, backend, status, attempts, resolution_gen, expired, dm, pay, net,
                   drv, crashes>>

(* The network settles or returns a payment in its own time.               *)
Resolve(g) ==
    /\ net[g] = "inflight"
    /\ net' \in {[net EXCEPT ![g] = "paid"], [net EXCEPT ![g] = "returned"]}
    /\ UNCHANGED <<dest, backend, rowVars, pay, drv, crashes>>

Expire ==
    /\ resolution_gen > 0 /\ ~expired /\ expired' = TRUE
    /\ UNCHANGED <<dest, backend, status, attempts, resolution_gen, fenced, dm, pay, net,
                   drv, crashes>>

(* The process dies, or a sibling's error drops the drive's tasks.         *)
CutOff ==
    /\ drv # Idle /\ crashes < MaxCrashes
    /\ crashes' = crashes + 1 /\ drv' = Idle
    /\ UNCHANGED <<dest, backend, rowVars, pay, net>>

Execute ==
    \/ PlanPayment \/ AuthoriseSend \/ PaySend \/ PayKnown \/ PayAwait
    \/ CommitSent \/ CommitPayFailure \/ StatusUnanswered

Next ==
    \/ Load \/ ResolutionRetry \/ Execute
    \/ RefundRetry \/ ClearFence \/ Expire \/ CutOff
    \/ \E g \in Gens : Resolve(g)

Spec == Init /\ [][Next]_vars

(***************************************************************************)
(* Fairness: the maintenance loop drives every PENDING row on every pass,  *)
(* and the backend's lookups and awaits do not fail for ever.              *)
(***************************************************************************)
Fairness ==
    /\ WF_vars(Load) /\ WF_vars(Execute)
    /\ SF_vars(PlanPayment) /\ SF_vars(AuthoriseSend)
    /\ SF_vars(PayAwait /\ pay' # pay)

FairSpec == Spec /\ Fairness

-----------------------------------------------------------------------------
RefundTypeOK ==
    /\ dest \in {"bolt11", "lnurl", "unpayable"} /\ backend \in {"lnv2", "phoenixd"}
    /\ status \in {"PENDING", "SENT", "FAILED"}
    /\ attempts \in 0..MaxAttempts /\ resolution_gen \in Gens
    /\ fenced \in BOOLEAN /\ expired \in BOOLEAN
    /\ dm \in {"none", "sent", "failed"}
    /\ pay \in [Gens -> {"none", "PREPARED", "SUCCEEDED", "FAILED"}]
    /\ net \in [Gens -> {"none", "inflight", "paid", "returned"}]
    /\ drv \in [pc : {"idle", "plan", "authorise", "pay", "await", "errored", "sent"},
                gen : Gens]
    /\ crashes \in Nat

(* The executor keeps the promise of PayOnce: across generations, crashes, *)
(* ambiguous answers, operator retries and fenced imports, one payment at  *)
(* most is ever live or landed, SENT follows one that landed, and FAILED   *)
(* or a retry never meets one (plan_payment, authorise_send, refund_retry).*)
Promise == INSTANCE PayOnce WITH
    Payments <- Gens,
    live <- {g \in Gens : net[g] = "inflight"},
    landed <- {g \in Gens : net[g] = "paid"}
PaysOnce == Promise!Spec

(* ADR-0022: no payment leaves before its witness is durable: a live or    *)
(* landed payment of an unfenced row belongs to a persisted generation and *)
(* has a pay row that is not a failure (persist_resolution, authorise_send)*)
WitnessBeforeSend ==
    \A g \in Gens : net[g] \in {"inflight", "paid"} /\ ~fenced =>
        g <= resolution_gen /\ pay[g] \in {"PREPARED", "SUCCEEDED"}

(* The buyer's message tells the outcome the books hold, also after an     *)
(* operator retry of a refund already reported as failed (refund_retry).   *)
MessageTellsOutcome ==
    /\ status = "SENT" => dm = "sent"
    /\ status = "FAILED" => dm = "failed"

(* A refund that landed is recorded, however its executor was interrupted  *)
(* (drive is the recovery path); a fenced one waits for the operator.      *)
LandedIsRecorded ==
    (\E g \in Gens : net[g] = "paid") ~> (status = "SENT" \/ fenced)
=============================================================================
