------------------------------ MODULE Treasury ------------------------------
(***************************************************************************)
(* sweep.rs and ledger.rs: what the operator may take out of the wallet.   *)
(*                                                                         *)
(* The books hold receipts, each of which is at risk, kept or owed back as *)
(* a refund, and operator sweeps.  A sweep is gated on the surplus of the  *)
(* books, never on the wallet's balance, and is paid by actors that know   *)
(* nothing of each other: the operator's commands (execute), any number at *)
(* once, and the maintenance loop (drive).                                 *)
(***************************************************************************)
EXTENDS Integers, FiniteSets, Functions, TLC

CONSTANTS
    Receipts,        \* external payment ids
    Sweeps,          \* operator invoices, each with its own pay key
    Backends,        \* "lnv2" (a failed key is dead), "phoenixd" (it is sent again)
    Commands,        \* the operator's sweep commands, each a handler of its own
    Gross,           \* invoice amount of a receipt
    Credit,          \* what reaches the wallet of it (lnv2 keeps a receive fee)
    Caps             \* max_outlay_msat a gateway may quote

ASSUME TreasuryAssumption ==
    /\ IsFiniteSet(Receipts) /\ IsFiniteSet(Sweeps) /\ Sweeps # {}
    /\ Backends \subseteq {"lnv2", "phoenixd"} /\ "drive" \notin Commands
    /\ Gross \in Nat /\ Credit \in 1..Gross
    /\ Caps \subseteq Nat \ {0}

VARIABLES
    backend,         \* the configured payment backend
    rcpt,            \* each receipt's place in the books
    sweep,           \* sweep_attempt rows
    pay,             \* the backend's pay rows, by sweep key
    net,             \* the sweep payments themselves
    debit,           \* what each of them took out of the wallet
    owner,           \* another key's hold on this invoice ([8A])
    wallet,          \* the wallet's balance, payments in flight taken out
    payer,           \* the actors: position, sweep in hand, ceiling to pay it under
    slipped,         \* history: a lookup failed, or an [8A] owner gave up on phoenixd
    raced            \* history: sweeps sent after their row had been given up

payVars == <<pay, net, debit, owner>>
history == <<slipped, raced>>
vars == <<backend, rcpt, sweep, payVars, wallet, payer, history>>

Actors == Commands \cup {"drive"}
NoSweep == [pc |-> "idle", s |-> CHOOSE s \in Sweeps : TRUE, cap |-> 0]
NoRow == [status |-> "none", cap |-> 0, fenced |-> FALSE, expired |-> FALSE]

At(a, pc) == payer[a].pc = pc
Go(a, pc) == payer' = [payer EXCEPT ![a] = IF pc = "idle" THEN NoSweep
                                           ELSE [@ EXCEPT !.pc = pc]]
Held(a) == payer[a].s

-----------------------------------------------------------------------------
(* The books.  A receipt is at risk while its subscription may still fail  *)
(* into a refund, kept once that is ACTIVE, held again when a later        *)
(* renewal of the same subscription resumes it, owed while its refund row  *)
(* is PENDING or FAILED, paying while that refund's payment is live or     *)
(* landed, refunded once the row is SENT.                                  *)
In(S) == {r \in Receipts : rcpt[r] \in S}

(* sum_receipts_msat: every captured receipt once, at its wallet credit.   *)
Earned == Credit * Cardinality(Receipts \ In({"none"}))

(* Refund rows not yet SENT and receipts at risk, once each, at the gross. *)
Reserved == Gross * Cardinality(In({"owed", "paying", "atrisk", "reheld"}))

(* Sweep caps that count: in flight, sent, or fenced whatever the status.  *)
CapCounts(s) == sweep[s].status \in {"SENT", "PENDING"} \/ sweep[s].fenced
CapOf(s) == IF CapCounts(s) THEN sweep[s].cap ELSE 0
SweepCaps(S) == SumFunctionOnSet([s \in Sweeps |-> CapOf(s)], S)

PaidOut(excluded) == Gross * Cardinality(In({"refunded"})) + SweepCaps(Sweeps \ excluded)

SatSub(a, b) == IF a > b THEN a - b ELSE 0

(* Mutant: a refund that is parked or pending is no liability.             *)
SurplusUnreserved(excluded) ==
    SatSub(SatSub(Earned, Gross * Cardinality(In({"atrisk", "reheld"}))), PaidOut(excluded))

(* read_surplus; recovery leaves the row's own cap out, or it would demand *)
(* the same money twice.                                                   *)
Surplus(excluded) == SatSub(SatSub(Earned, Reserved), PaidOut(excluded))

(* committed: the books must assume the refund's money has left.           *)
Committed(r) == rcpt[r] \in {"refunded", "paying"}

(* expected_msat, read at one instant: what the wallet holds at least.     *)
ExpectedOf(base, refunds) ==
    SatSub(base, Credit * Cardinality({r \in refunds : Committed(r)}))
LedgerBase == SatSub(Earned, SweepCaps(Sweeps))
RefundRows == In({"owed", "paying", "refunded"})
Expected == ExpectedOf(LedgerBase, RefundRows)

-----------------------------------------------------------------------------
(* A sweep row imported from a legacy side file, fenced because its pay    *)
(* row may be lost while its payment lives on, beside a receipt that       *)
(* covered it.                                                             *)
LegacyImport ==
    \E s \in Sweeps, r \in Receipts, c \in Caps, st \in {"PENDING", "FAILED"},
      n \in {"none", "inflight", "paid"} :
        /\ c <= Credit
        /\ sweep = [x \in Sweeps |-> IF x = s
              THEN [status |-> st, cap |-> c, fenced |-> TRUE, expired |-> FALSE]
              ELSE NoRow]
        /\ rcpt = [x \in Receipts |-> IF x = r THEN "kept" ELSE "none"]
        /\ net = [x \in Sweeps |-> IF x = s THEN n ELSE "none"]
        /\ debit = [x \in Sweeps |-> IF x = s /\ n # "none" THEN c ELSE 0]
        /\ wallet = Credit - (IF n # "none" THEN c ELSE 0)

FreshBooks ==
    /\ sweep = [s \in Sweeps |-> NoRow]
    /\ rcpt = [r \in Receipts |-> "none"]
    /\ net = [s \in Sweeps |-> "none"] /\ debit = [s \in Sweeps |-> 0]
    /\ wallet = 0

Init ==
    /\ backend \in Backends
    /\ FreshBooks \/ LegacyImport
    /\ pay = [s \in Sweeps |-> "none"]
    /\ owner \in [Sweeps -> {"none", "live"}]
    /\ payer = [a \in Actors |-> NoSweep]
    /\ slipped = FALSE /\ raced = {}

-----------------------------------------------------------------------------
(* Receipts, as the lifecycle moves them (Lifecycle, Refund).              *)
MoveReceipt(r, from, to, change) ==
    /\ rcpt[r] = from /\ rcpt' = [rcpt EXCEPT ![r] = to]
    /\ wallet' = wallet + change
    /\ UNCHANGED <<backend, sweep, payVars, payer, history>>

Capture(r) == \E to \in {"atrisk", "owed"} : MoveReceipt(r, "none", to, Credit)
Activate(r) == MoveReceipt(r, "atrisk", "kept", 0)
FailToRefund(r) == MoveReceipt(r, "atrisk", "owed", 0)
ResumeAgain(r) == MoveReceipt(r, "kept", "reheld", 0)
Resumed(r) == MoveReceipt(r, "reheld", "kept", 0)

(* A refund payment costs its receipt's credit at most (INV-1), and the    *)
(* wallet must have it.                                                    *)
RefundStart(r) == wallet >= Credit /\ MoveReceipt(r, "owed", "paying", -Credit)
RefundReturn(r) == MoveReceipt(r, "paying", "owed", Credit)
RefundRecorded(r) == MoveReceipt(r, "paying", "refunded", 0)

Books == \E r \in Receipts :
    \/ Capture(r) \/ Activate(r) \/ FailToRefund(r) \/ ResumeAgain(r) \/ Resumed(r)
    \/ RefundStart(r) \/ RefundReturn(r) \/ RefundRecorded(r)

-----------------------------------------------------------------------------
(* prepare_pay, committed in the caller's transaction under its lease: a   *)
(* new key, or a failed one phoenixd may send again, gets a PREPARED row,  *)
(* or a refusal if another key owns the invoice.                           *)
PreparePay(s) ==
    pay' = IF pay[s] = "none" \/ (pay[s] = "FAILED" /\ backend = "phoenixd")
           THEN [pay EXCEPT ![s] = IF owner[s] = "none" THEN "PREPARED" ELSE "FAILED"]
           ELSE pay

(* The verdict of a dry-run quote, and of the gate itself.                 *)
QuoteAllows(c) == Surplus({}) >= c

(* gate_and_write's answers that write nothing: fenced, already SENT, this *)
(* or another sweep in flight, not enough surplus.                         *)
GateRefuses(s, c) ==
    \/ sweep[s].fenced
    \/ sweep[s].status = "SENT"
    \/ \E t \in Sweeps : sweep[t].status = "PENDING"
    \/ ~QuoteAllows(c)

(* quote_outlay: lnv2 asks a gateway, phoenixd computes the same each time.*)
Quotes(s, c) == backend = "phoenixd" => sweep[s].cap \in {0, c}

(* execute: quote, prepare and the one gate transaction.  A FAILED row may *)
(* be submitted again.                                                     *)
Execute(m, s, c) ==
    /\ At(m, "idle") /\ ~sweep[s].expired
    /\ Quotes(s, c) /\ ~GateRefuses(s, c)
    /\ sweep' = [sweep EXCEPT ![s].status = "PENDING", ![s].cap = c]
    /\ PreparePay(s)
    /\ payer' = [payer EXCEPT ![m] = [pc |-> "pay", s |-> s, cap |-> c]]
    /\ UNCHANGED <<backend, rcpt, net, debit, owner, wallet, history>>

(* drive: take a PENDING row; a fenced one is parked and only alerted.     *)
DriveLoad(s) ==
    /\ At("drive", "idle") /\ sweep[s].status = "PENDING" /\ ~sweep[s].fenced
    /\ payer' = [payer EXCEPT !["drive"] = [pc |-> "status", s |-> s, cap |-> sweep[s].cap]]
    /\ UNCHANGED <<backend, rcpt, sweep, payVars, wallet, history>>

(* map_pay_status of the key's row.                                        *)
Status(s) == CASE pay[s] = "none" -> "Unknown"
               [] pay[s] = "PREPARED" -> "Pending"
               [] pay[s] = "SUCCEEDED" -> "Succeeded"
               [] OTHER -> "Failed"

(* What recovery does with a key nobody started: an expired invoice, or    *)
(* one the surplus no longer covers, is probed; the rest is sent.          *)
NotStarted(s) ==
    IF sweep[s].expired \/ Surplus({s}) < payer["drive"].cap THEN "probe" ELSE "authorise"

(* recovery_status: a lookup that fails reads as Unknown, so that a key    *)
(* somebody may be sending is taken for one nobody started.                *)
DriveStatus ==
    LET s == Held("drive")
    IN  /\ At("drive", "status")
        /\ \/ /\ Go("drive", CASE Status(s) = "Succeeded" -> "sent"
                               [] Status(s) = "Pending" -> "pay"
                               [] Status(s) = "Failed" -> "park"
                               [] OTHER -> NotStarted(s))
              /\ UNCHANGED slipped
           \/ Go("drive", NotStarted(s)) /\ slipped' = TRUE
        /\ UNCHANGED <<backend, rcpt, sweep, payVars, wallet, raced>>

(* outbound_status_by_ref: the node's own history of the invoice, in which *)
(* phoenixd cannot tell our payment from its other owner's.                *)
Outbound(s) ==
    CASE net[s] = "none" /\ owner[s] # "paid" -> "Failed"
      [] backend = "phoenixd" /\ "paid" \in {net[s], owner[s]} -> "Succeeded"
      [] OTHER -> "cannot answer"

(* resolve_or_park: only positive evidence ends the row; a probe that      *)
(* cannot answer, or fails, leaves it PENDING.                             *)
ResolveOrPark ==
    LET s == Held("drive")
    IN  /\ At("drive", "probe")
        /\ \/ Go("drive", CASE Outbound(s) = "Succeeded" -> "sent"
                            [] Outbound(s) = "Failed" -> "park"
                            [] OTHER -> "idle")
           \/ Go("drive", "idle")
        /\ UNCHANGED <<backend, rcpt, sweep, payVars, wallet, history>>

(* authorise_send of recovery: re-assert PENDING and unfenced, and prepare.*)
AuthoriseSend ==
    LET s == Held("drive")
    IN  /\ At("drive", "authorise")
        /\ IF sweep[s].status = "PENDING" /\ ~sweep[s].fenced
           THEN PreparePay(s) /\ Go("drive", "pay")
           ELSE Go("drive", "idle") /\ UNCHANGED pay
        /\ UNCHANGED <<backend, rcpt, sweep, net, debit, owner, wallet, history>>

-----------------------------------------------------------------------------
(* pay_inner starts a key that was never sent: within the cap, or refused  *)
(* for good (fee rose, expired, collision), or set back by an error known  *)
(* to come before the funding.  phoenixd does the same for a refused key.  *)
Startable(s) ==
    /\ pay[s] = "PREPARED" \/ (pay[s] = "FAILED" /\ backend = "phoenixd")
    /\ net[s] = "none"

(* Mutant: the quoted outlay is no ceiling for the payment.                *)
DebitsOverCap(a) == {payer[a].cap, payer[a].cap + 1}

(* A payment costs no more than the ceiling it is checked against, which   *)
(* is the one its actor read or wrote, and the wallet must have it.        *)
Debits(a) == {payer[a].cap - 1, payer[a].cap} \ {0}

(* The row the actor took up has been parked, or submitted anew under      *)
(* another cap, or is about to be parked.  pay does not look at the row.   *)
Overtaken(a) ==
    LET s == Held(a)
    IN  \/ sweep[s].status = "FAILED" \/ sweep[s].cap # payer[a].cap
        \/ \E b \in Actors \ {a} : At(b, "park") /\ Held(b) = s

PayStart(a) ==
    LET s == Held(a)
    IN  /\ At(a, "pay") /\ Startable(s)
        /\ \/ /\ owner[s] = "none" /\ ~sweep[s].expired
              /\ \E d \in Debits(a) : /\ wallet >= d /\ wallet' = wallet - d
                                      /\ debit' = [debit EXCEPT ![s] = d]
              /\ net' = [net EXCEPT ![s] = "inflight"] /\ pay' = [pay EXCEPT ![s] = "PREPARED"]
              /\ raced' = IF Overtaken(a) THEN raced \cup {s} ELSE raced
              /\ Go(a, "await")
           \/ /\ pay' = [pay EXCEPT ![s] = "FAILED"] /\ Go(a, "errored")
              /\ backend = "lnv2" \/ owner[s] # "none" \/ sweep[s].expired
              /\ UNCHANGED <<net, debit, wallet, raced>>
           \/ Go(a, "errored") /\ UNCHANGED <<pay, net, debit, wallet, raced>>
        /\ UNCHANGED <<backend, rcpt, sweep, owner, slipped>>

(* A key that was sent is only awaited, a settled one answered from its    *)
(* row, one without a row refused.                                         *)
PayKnown(a) ==
    LET s == Held(a)
    IN  /\ At(a, "pay") /\ ~Startable(s)
        /\ Go(a, CASE pay[s] = "PREPARED" -> "await"
                   [] pay[s] = "SUCCEEDED" -> "sent"
                   [] OTHER -> "errored")
        /\ UNCHANGED <<backend, rcpt, sweep, payVars, wallet, history>>

PayAwait(a) ==
    LET s == Held(a)
    IN  /\ At(a, "await")
        /\ \/ net[s] = "paid" /\ pay' = [pay EXCEPT ![s] = "SUCCEEDED"] /\ Go(a, "sent")
           \/ /\ net[s] = "returned" /\ backend = "lnv2"
              /\ pay' = [pay EXCEPT ![s] = "FAILED"] /\ Go(a, "errored")
           \/ Go(a, "errored") /\ UNCHANGED pay
        /\ UNCHANGED <<backend, rcpt, sweep, net, debit, owner, wallet, history>>

(* Mutant: an ambiguous payment is given up.                               *)
StatusAfterErrorGivesUp(a) ==
    /\ At(a, "errored")
    /\ Go(a, IF Status(Held(a)) = "Succeeded" THEN "sent" ELSE "park")
    /\ UNCHANGED <<backend, rcpt, sweep, payVars, wallet, history>>

(* status_after_error: a pending, unknown or unanswered key leaves the row *)
(* PENDING, and its cap subtracted.                                        *)
StatusAfterError(a) ==
    /\ At(a, "errored")
    /\ \/ Go(a, CASE Status(Held(a)) = "Succeeded" -> "sent"
                  [] Status(Held(a)) = "Failed" -> "park"
                  [] OTHER -> "idle")
       \/ Go(a, "idle")
    /\ UNCHANGED <<backend, rcpt, sweep, payVars, wallet, history>>

(* commit_sent: a payment that landed corrects even a FAILED row.          *)
CommitSent(a) ==
    /\ At(a, "sent") /\ Go(a, "idle")
    /\ sweep' = IF sweep[Held(a)].status \in {"PENDING", "FAILED"}
                THEN [sweep EXCEPT ![Held(a)].status = "SENT"] ELSE sweep
    /\ UNCHANGED <<backend, rcpt, payVars, wallet, history>>

(* commit_failed, with its alert in the same transaction.                  *)
CommitFailed(a) ==
    /\ At(a, "park") /\ Go(a, "idle")
    /\ sweep' = IF sweep[Held(a)].status = "PENDING"
                THEN [sweep EXCEPT ![Held(a)].status = "FAILED"] ELSE sweep
    /\ UNCHANGED <<backend, rcpt, payVars, wallet, history>>

PayStep(a) == PayStart(a) \/ PayKnown(a) \/ PayAwait(a) \/ StatusAfterError(a)
                \/ CommitSent(a) \/ CommitFailed(a)
DriveStep == (\E s \in Sweeps : DriveLoad(s)) \/ DriveStatus \/ ResolveOrPark \/ AuthoriseSend

-----------------------------------------------------------------------------
(* The network settles or returns a sweep's payment in its own time.       *)
Resolve(s) ==
    /\ net[s] = "inflight"
    /\ \/ net' = [net EXCEPT ![s] = "paid"] /\ UNCHANGED <<debit, wallet>>
       \/ /\ net' = [net EXCEPT ![s] = "returned"]
          /\ wallet' = wallet + debit[s] /\ debit' = [debit EXCEPT ![s] = 0]
    /\ UNCHANGED <<backend, rcpt, sweep, pay, owner, payer, history>>

Expire(s) ==
    /\ sweep[s].status # "none" /\ ~sweep[s].expired
    /\ sweep' = [sweep EXCEPT ![s].expired = TRUE]
    /\ UNCHANGED <<backend, rcpt, payVars, wallet, payer, history>>

(* The key that owns the invoice pays it, or fails and owns it no longer.  *)
OwnerPays(s) ==
    /\ owner[s] = "live" /\ owner' = [owner EXCEPT ![s] = "paid"]
    /\ UNCHANGED <<backend, rcpt, sweep, pay, net, debit, wallet, payer, history>>

CollisionEnds(s) ==
    /\ owner[s] = "live" /\ owner' = [owner EXCEPT ![s] = "none"]
    /\ slipped' = (slipped \/ backend = "phoenixd")
    /\ UNCHANGED <<backend, rcpt, sweep, pay, net, debit, wallet, payer, raced>>

(* migration_clear_fence, by an operator who found no such payment in the  *)
(* wallet's own records.                                                   *)
ClearFence(s) ==
    /\ sweep[s].fenced /\ net[s] \notin {"inflight", "paid"}
    /\ sweep' = [sweep EXCEPT ![s].fenced = FALSE]
    /\ UNCHANGED <<backend, rcpt, payVars, wallet, payer, history>>

Crash ==
    /\ payer' = [a \in Actors |-> NoSweep]
    /\ UNCHANGED <<backend, rcpt, sweep, payVars, wallet, history>>

Next ==
    \/ Books \/ DriveStep
    \/ \E m \in Commands, s \in Sweeps, c \in Caps : Execute(m, s, c)
    \/ \E a \in Actors : PayStep(a)
    \/ \E s \in Sweeps : Resolve(s) \/ Expire(s) \/ ClearFence(s)
                         \/ OwnerPays(s) \/ CollisionEnds(s)
    \/ Crash

Spec == Init /\ [][Next]_vars

-----------------------------------------------------------------------------
TreasuryTypeOK ==
    /\ backend \in Backends
    /\ rcpt \in [Receipts -> {"none", "atrisk", "kept", "reheld", "owed", "paying",
                         "refunded"}]
    /\ sweep \in [Sweeps -> [status : {"none", "PENDING", "SENT", "FAILED"}, cap : Nat,
                             fenced : BOOLEAN, expired : BOOLEAN]]
    /\ pay \in [Sweeps -> {"none", "PREPARED", "SUCCEEDED", "FAILED"}]
    /\ net \in [Sweeps -> {"none", "inflight", "paid", "returned"}]
    /\ debit \in [Sweeps -> Nat] /\ owner \in [Sweeps -> {"none", "live", "paid"}]
    /\ wallet \in Int
    /\ payer \in [Actors -> [pc : {"idle", "status", "probe", "authorise", "pay", "await",
                                   "errored", "park", "sent"}, s : Sweeps, cap : Nat]]
    /\ slipped \in BOOLEAN /\ raced \in SUBSET Sweeps

Live(s) == net[s] \in {"inflight", "paid"}

(* A cap covers its payment from the send until it lands or returns, but   *)
(* for a sweep sent after its row was given up; that takes a failed lookup *)
(* or, on phoenixd, an [8A] owner that gave up.  Such a payment still has  *)
(* its pay row, so that submitting it again pays nothing twice, and SENT   *)
(* is never written of an unpaid invoice (capped_pay, commit_sent).        *)
CapHeld ==
    /\ \A s \in Sweeps \ raced : Live(s) => CapCounts(s) /\ debit[s] <= sweep[s].cap
    /\ raced # {} => slipped
    /\ \A s \in raced : Live(s) => pay[s] \in {"PREPARED", "SUCCEEDED"}
    /\ \A s \in Sweeps : sweep[s].status = "SENT" => "paid" \in {net[s], owner[s]}

(* A sweep never spends what a refund still needs: the wallet covers every *)
(* receipt at risk and every refund not yet started, short of no more than *)
(* what the sweeps took that were sent after being given up (gate_and_write*)
(* and the recovery gate, which leaves the row's own cap out).             *)
Solvent ==
    wallet + SumFunctionOnSet(debit, raced) >= Credit * Cardinality(In({"atrisk", "owed"}))

(* ledger.rs: expected_msat, read at one instant, is a lower bound of the  *)
(* wallet, through fee savings, returned payments, fences and re-attempts, *)
(* but for the payments whose row does not say so yet.                     *)
BooksAreFloor ==
    wallet + SumFunctionOnSet(debit, {s \in raced : debit[s] > CapOf(s)}) >= Expected

(* The doc comment of capped_pay, sweep.rs:894: "never releasing a cap     *)
(* while the payment might still settle", asked once nobody is left who    *)
(* would correct the row.                                                  *)
CapNeverLost ==
    (\A a \in Actors : At(a, "idle")) => \A s \in Sweeps : Live(s) => CapCounts(s)

(* Receipts are interchangeable, and so are sweeps and commands.           *)
Interchangeable == Permutations(Receipts) \cup Permutations(Sweeps) \cup Permutations(Commands)
=============================================================================
