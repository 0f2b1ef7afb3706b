------------------------------ MODULE Readiness ------------------------------
(***************************************************************************)
(* supervisor.rs refund_readiness_report: whether the books cover what     *)
(* buyers are owed, read while captures, deliveries, refund payments and   *)
(* sweeps go on.  Amounts are whole sats; Credit is one receipt's gross.   *)
(***************************************************************************)
EXTENDS Integers, FiniteSets, FiniteSetsExt

CONSTANTS
    Owings,      \* external ids of settlements
    Credit,      \* received sats of each
    Outlays      \* sats a refund may need: net of fees, or a fixed bolt11 plus fees

ASSUME ReadinessAssumption == Credit \in Nat \ {0} /\ Outlays \subseteq Nat /\ IsFiniteSet(Owings)

VARIABLES
    owing,       \* per settlement: its place in the books and its pay witness
    taken,       \* sats the sweeps' caps subtract
    kind,        \* the configured backend's kind
    rep,         \* the report under way
    verdict,     \* last report
    shortfall    \* history: the books were short all through the report, and no payment failed

rdVars == <<owing, taken, kind, rep, verdict, shortfall>>

Liable == {"order", "orphan", "pending", "failed", "fenced"}
Row == {"pending", "failed", "fenced", "sent"}
Probes == {"federation", "gateway"}

NoOwing == [at |-> "none", outlay |-> 0, pay |-> "Unknown"]
NoReport == [pc |-> "idle", probe |-> {}, sat |-> 0, book |-> [e \in Owings |-> NoOwing], rows |-> {}, committed |-> {}]
NoVerdict == [warning |-> "none", backend |-> "federation"]

ReadinessInit ==
    /\ owing = [e \in Owings |-> NoOwing] /\ taken = 0
    /\ kind \in {"federation", "phoenixd"}
    /\ rep = NoReport /\ verdict = NoVerdict /\ shortfall = FALSE

In(s) == {e \in Owings : owing[e].at \in s}
-----------------------------------------------------------------------------
(* ledger.rs                                                               *)

LedgerCommits(e) == owing[e].at \in {"sent", "fenced"} \/ owing[e].pay \in {"Pending", "Succeeded"}
ReceiptsIn == Credit * Cardinality({e \in Owings : owing[e].at # "none"})
SaturatingSub(a, b) == IF a > b THEN a - b ELSE 0
HoldingsOf(receipts, committed, caps) ==
    SaturatingSub(SaturatingSub(receipts, Credit * Cardinality(committed)), caps)

(* What an uncommitted, unparked liability needs: its priced outlay, or    *)
(* its gross while no refund row exists.                                   *)
RequiredOf(book, committed) ==
    LET Need(e) == IF book[e].at = "pending" THEN book[e].outlay ELSE Credit
    IN  MapThenSumSet(Need, {e \in Owings : book[e].at \in {"order", "orphan", "pending"}} \ committed)

Committed == {e \in In(Row) : LedgerCommits(e)}
Short == HoldingsOf(ReceiptsIn, Committed, taken) < RequiredOf(owing, Committed)

PayFails == \E e \in Owings : owing[e].pay = "Pending" /\ owing'[e].pay = "Failed"
Steps == shortfall' = (rep.pc # "idle" /\ shortfall /\ Short' /\ ~PayFails)
-----------------------------------------------------------------------------
(* What goes on meanwhile                                                  *)

Becomes(e, r) ==
    /\ owing' = [owing EXCEPT ![e] = r]
    /\ UNCHANGED <<taken, kind, rep, verdict>> /\ Steps

(* A settlement of an order, or of an invoice nothing waits for.           *)
Settles(e, as) == owing[e].at = "none" /\ Becomes(e, [NoOwing EXCEPT !.at = as])
Delivers(e) == owing[e].at = "order" /\ Becomes(e, [NoOwing EXCEPT !.at = "delivered"])

(* A refund row, whose price is that of its destination.                   *)
OpensRefund(e, o) ==
    owing[e].at \in {"order", "orphan"} /\ Becomes(e, [NoOwing EXCEPT !.at = "pending", !.outlay = o])

(* pay_refund_capped refuses an outlay above the gross.                    *)
Pays(e) ==
    /\ owing[e].at = "pending" /\ owing[e].pay = "Unknown" /\ owing[e].outlay <= Credit
    /\ Becomes(e, [owing[e] EXCEPT !.pay = "Pending"])

PayEnds(e, s) == owing[e].pay = "Pending" /\ Becomes(e, [owing[e] EXCEPT !.pay = s])

Books(e) ==
    /\ owing[e].at = "pending" /\ owing[e].pay \in {"Succeeded", "Failed"}
    /\ Becomes(e, [owing[e] EXCEPT !.at = IF owing[e].pay = "Succeeded" THEN "sent" ELSE "failed"])

(* A restored backend: the migration fence.                                *)
Fences(e) == owing[e].at = "pending" /\ owing[e].pay = "Unknown" /\ Becomes(e, [owing[e] EXCEPT !.at = "fenced"])

(* A sweep takes what deliveries have earned.                              *)
Sweeps ==
    /\ taken + Credit <= Credit * Cardinality(In({"delivered"}))
    /\ taken' = taken + Credit /\ UNCHANGED <<owing, kind, rep, verdict>> /\ Steps
-----------------------------------------------------------------------------
(* The report                                                              *)

(* RefundReadinessProbe::query: which of the two answered.                 *)
ProbeWire(ok) ==
    /\ rep.pc = "idle" /\ rep' = [NoReport EXCEPT !.pc = "read", !.probe = ok]
    /\ verdict' = NoVerdict /\ shortfall' = Short /\ UNCHANGED <<owing, taken, kind>>

(* One store read: ledger terms and liabilities of the same books.         *)
ReadBooks ==
    /\ rep.pc = "read"
    /\ rep' = [rep EXCEPT !.pc = "observe", !.sat = SaturatingSub(ReceiptsIn, taken), !.book = owing,
                          !.rows = In({"pending", "failed"}), !.committed = In({"sent", "fenced"})]
    /\ UNCHANGED <<owing, taken, kind, verdict>> /\ Steps

(* observe: the witness of each row the books did not commit, once.        *)
ObserveRow(e) ==
    /\ rep.pc = "observe" /\ e \in rep.rows
    /\ rep' = [rep EXCEPT !.rows = @ \ {e},
                          !.committed = IF owing[e].pay \in {"Pending", "Succeeded"} THEN @ \cup {e} ELSE @]
    /\ UNCHANGED <<owing, taken, kind, verdict>> /\ Steps

(* Mutant: the witness is probed again to classify the row.                *)
ClassifiedAfresh == Committed

(* A row is committed in the snapshot that expected_msat subtracted it     *)
(* from: each liability is committed, parked or required, never two.       *)
Classified == rep.committed

(* The first warning that applies, the loudest first; blind are the rows   *)
(* that could not be priced, parked the ones a human must handle.          *)
WarningOf(expected, required, blind, parked) ==
    CASE "federation" \notin rep.probe -> "FederationDown"
      [] "gateway" \notin rep.probe    -> "GatewayUnavailable"
      [] expected < required           -> "InsufficientBalance"
      [] blind # {}                    -> "Unpriceable"
      [] parked # {}                   -> "ParkedManual"
      [] OTHER                         -> "ready"

BookIn(s) == {e \in Owings : rep.book[e].at \in s}
Ends == rep' = NoReport /\ UNCHANGED <<owing, taken, kind, shortfall>>

Reports(blind) ==
    /\ rep.pc = "observe" /\ rep.rows = {} /\ BookIn(Liable) # {}
    /\ blind \subseteq BookIn({"pending"}) \ Classified
    /\ verdict' = [warning |-> WarningOf(SaturatingSub(rep.sat, Credit * Cardinality(rep.committed)),
                                         RequiredOf(rep.book, Classified \cup blind),
                                         blind, BookIn({"failed", "fenced"})),
                   backend |-> kind]
    /\ Ends

(* Nothing is owed: only an unreachable backend is worth a warning; the    *)
(* rest of the report is its default.                                      *)
ReportsNothingOwed ==
    /\ rep.pc = "observe" /\ rep.rows = {} /\ BookIn(Liable) = {}
    /\ verdict' = [NoVerdict EXCEPT !.warning = IF "federation" \in rep.probe THEN "ready" ELSE "FederationDown"]
    /\ Ends

ReadinessNext ==
    \/ \E e \in Owings :
          \/ \E as \in {"order", "orphan"} : Settles(e, as)
          \/ \E o \in Outlays : OpensRefund(e, o)
          \/ \E s \in {"Succeeded", "Failed"} : PayEnds(e, s)
          \/ Delivers(e) \/ Pays(e) \/ Books(e) \/ Fences(e) \/ ObserveRow(e)
    \/ Sweeps \/ ReadBooks \/ ReportsNothingOwed
    \/ \E ok \in SUBSET Probes : ProbeWire(ok)
    \/ \E blind \in SUBSET Owings : Reports(blind)
-----------------------------------------------------------------------------
(* A shortfall that lasted from the probe to the verdict is never reported *)
(* as covered, whatever was captured, paid or swept between the reads, if  *)
(* no payment failed meanwhile.  (One that fails gives its credit back to  *)
(* the books after others were observed, and the report may add up credits *)
(* that were never there together.)                                        *)
NeverFalselyReady == rep.pc = "idle" /\ shortfall => verdict.warning # "ready"
=============================================================================
