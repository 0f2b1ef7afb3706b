-------------------------- MODULE LifecycleProofs --------------------------
(***************************************************************************)
(* Proofs about Lifecycle, for every choice of timers, invoices, requests  *)
(* and bounds, in five layers, each resting on the ones before:            *)
(*                                                                         *)
(*   IInv      the books are well typed and the reservation follows the    *)
(*             subscription's state;                                       *)
(*   BoxInv    who owes what to the box: no box is leaked;                 *)
(*   KeptInv   the receipts that are not refunded are what paid_through    *)
(*             was bought with;                                            *)
(*   LapseInv  what a reconcile tick read is still true when its write     *)
(*             lands, or its write loses: nothing lapses early;            *)
(*   CreditInv what the heartbeat vouches for and what restarts credit     *)
(*             leave every cycle its lead and its retention.               *)
(*                                                                         *)
(* No promise is inductive alone.  For the types: a deadline is a time     *)
(* only because every settlement is stamped no earlier than the order      *)
(* (also a recovered one), a row is activated only from an order invoice   *)
(* that was paid, and the loops carry values they checked: that is Carried.*)
(***************************************************************************)
EXTENDS Lifecycle, FiniteSetTheorems, TLAPS

Carried ==
    /\ Order \in DOMAIN invoice
    /\ state = "PROVISIONING" => invoice[Order].status = "PAID"
    /\ rec.pc = "remind" => rec.pt \in Nat
    /\ ren.req # {} => ren.expiry >= 1

IInv == TypeOK /\ HoldFollowsState /\ Carried

-----------------------------------------------------------------------------
(* Deadline arithmetic stays within the times.                             *)
LEMMA DeadlineTypes ==
    ASSUME NEW pt \in PaidThroughs, NEW snb \in Time
    PROVE  /\ EffectiveSuspendAt(pt, snb) \in Time
           /\ ResumableUntil(pt, snb) \in Time
           /\ pt # NoTime => ResumableUntil(pt, snb) > Epoch /\ SoftDate(pt) \in Int
  BY TimersAssumption DEF EffectiveSuspendAt, ResumableUntil, SoftDate, Max2, PaidThroughs,
     Time, NoTime

(* A settlement no earlier than the order extends the paid window past the *)
(* order, and the reminder of any such window is due at a time.            *)
LEMMA WindowTypes ==
    ASSUME NEW s \in Clock
    PROVE  /\ s + Period \in PaidThroughs /\ SoftDate(s + Period) \in Time
           /\ \A pt \in PaidThroughs :
                 Max2(pt, s) + Period \in PaidThroughs /\ SoftDate(Max2(pt, s) + Period) \in Time
  BY TimersAssumption DEF Clock, PaidThroughs, NoTime, Max2, SoftDate, Time

(* A row written over or added to the invoices leaves them well typed.     *)
LEMMA PutTypes ==
    ASSUME InvoicesOK, NEW e \in Ext, NEW row \in InvoiceRow, PutInvoice(e, row)
    PROVE  /\ InvoicesOK'
           /\ DOMAIN invoice' = DOMAIN invoice \cup {e}
           /\ invoice'[e] = row
           /\ \A x \in DOMAIN invoice \ {e} : invoice'[x] = invoice[x]
  BY DEF InvoicesOK, PutInvoice

(* The order's invoice is not one of the renewals'.                        *)
LEMMA OrderIsNoRenewal == Order \notin Renewals /\ Order \in Ext
  BY DEF Order, Renewals, Ext

(* A renewal's row is issued or refreshed; no other row changes.           *)
LEMMA UpsertTypes ==
    ASSUME InvoicesOK, NEW e \in Renewals, NEW exp \in Clock \ {Epoch},
           UpsertRenewalInvoice(e, exp), Order \in DOMAIN invoice
    PROVE  InvoicesOK' /\ Order \in DOMAIN invoice' /\ invoice'[Order] = invoice[Order]
<1>1. OpenInvoice(exp) \in InvoiceRow /\ e \in Ext /\ e # Order
  BY OrderIsNoRenewal DEF OpenInvoice, InvoiceRow, Ext
<1>2. CASE PutInvoice(e, OpenInvoice(exp))
  BY <1>1, <1>2, PutTypes
<1>3. CASE UNCHANGED invoice
  BY <1>3 DEF InvoicesOK
<1> QED
  BY <1>2, <1>3 DEF UpsertRenewalInvoice

-----------------------------------------------------------------------------
(* What a step leaves alone stays well typed.                              *)
LEMMA Frame ==
    ASSUME IInv
    PROVE  /\ UNCHANGED <<now, last_heartbeat, daemon, paid>> => ClocksOK'
           /\ UNCHANGED subVars => SubOK'
           /\ UNCHANGED invoice => InvoicesOK'
           /\ UNCHANGED <<refund_attempt, renew_resume>> => BooksOK'
           /\ UNCHANGED <<reservation, boxVars>> => BoxOK'
           /\ UNCHANGED <<mnt, rec, ren>> => LoopsOK'
           /\ UNCHANGED history => HistoryOK'
           /\ UNCHANGED <<state, reservation>> => HoldFollowsState'
           /\ UNCHANGED <<invoice, state, rec, ren>> => Carried'
  BY DEF IInv, TypeOK, ClocksOK, SubOK, InvoicesOK, BooksOK, BoxOK, LoopsOK, HistoryOK,
     HoldFollowsState, Carried, subVars, boxVars, history

(* A closed batch is a well-typed batch.                                   *)
LEMMA NoResumeType ==
    NoResume \in [pending : SUBSET Renewals, paid_through : PaidThroughs,
                  suspend_not_before : Time]
  BY DEF NoResume, PaidThroughs, Time

(* The provision and resume drivers and the refund's end.                  *)
LEMMA MaintenanceStep ==
    ASSUME IInv, MaintenanceNext, UNCHANGED history
    PROVE  IInv'
<1> USE Frame DEF IInv, TypeOK, othersP, othersR, envVars, bookVars, boxVars, subVars
<1>1. CASE ProvisionDrive
  BY <1>1 DEF ProvisionDrive, BoxOK, LoopsOK
<1>2. CASE ActiveWrite
  <2>1. ClocksOK' /\ InvoicesOK' /\ BooksOK' /\ HistoryOK'
    BY <1>2 DEF ActiveWrite, LostCas
  <2>2. LoopsOK'
    BY <1>2 DEF ActiveWrite, LostCas, LoopsOK
  <2>3. CASE state = "PROVISIONING" /\ reservation = "HELD"
    <3> DEFINE pt == invoice[Order].settled_at + Period
    <3>1. /\ state' = "ACTIVE" /\ paid_through' = pt /\ next_deadline' = SoftDate(pt)
          /\ reservation' = "CONSUMED" /\ UNCHANGED <<suspend_not_before, cleanup>>
          /\ UNCHANGED <<invoice, rec, ren, box, teardown_failure, alerted>>
      BY <1>2, <2>3 DEF ActiveWrite
    <3>2. invoice[Order].settled_at \in Clock
      BY <2>3 DEF Carried, InvoicesOK, InvoiceRow
    <3>3. pt \in PaidThroughs /\ SoftDate(pt) \in Time
      BY <3>2, WindowTypes
    <3>4. SubOK'
      BY <3>1, <3>3 DEF SubOK, States
    <3>5. BoxOK' /\ HoldFollowsState' /\ Carried'
      BY <3>1 DEF BoxOK, HoldFollowsState, Holding, Serving, Carried
    <3> QED
      BY <2>1, <2>2, <3>4, <3>5
  <2>4. CASE ~(state = "PROVISIONING" /\ reservation = "HELD")
    <3>1. UNCHANGED <<subVars, reservation, invoice, rec, ren, box, teardown_failure, alerted>>
      BY <1>2, <2>4 DEF ActiveWrite, LostCas
    <3>2. cleanup' \in BOOLEAN
      BY <1>2, <2>4 DEF ActiveWrite, LostCas, BoxOK
    <3> QED
      BY <2>1, <2>2, <3>1, <3>2 DEF BoxOK
  <2> QED
    BY <2>3, <2>4
<1>3. CASE RefundDueWrite
  <2>1. ClocksOK' /\ InvoicesOK' /\ HistoryOK'
    BY <1>3 DEF RefundDueWrite
  <2>2. LoopsOK'
    BY <1>3 DEF RefundDueWrite, LostCas, LoopsOK
  <2>3. BooksOK'
    BY <1>3, OrderIsNoRenewal DEF RefundDueWrite, LostCas, RefundIntent, BooksOK
  <2>4. cleanup' \in BOOLEAN
    BY <1>3 DEF RefundDueWrite, LostCas, BoxOK
  <2>5. SubOK'
    BY <1>3 DEF RefundDueWrite, LostCas, SubOK, States, Time
  <2>6. BoxOK'
    BY <1>3, <2>4 DEF RefundDueWrite, LostCas, BoxOK
  <2>7. HoldFollowsState' /\ Carried'
    BY <1>3 DEF RefundDueWrite, LostCas, HoldFollowsState, Holding, Serving, Carried
  <2> QED
    BY <2>1, <2>2, <2>3, <2>5, <2>6, <2>7
<1>4. CASE CompleteFailedCleanup
  BY <1>4 DEF CompleteFailedCleanup, BoxOK, LoopsOK
<1>5. CASE FinishFailedCleanup
  <2>1. cleanup' \in BOOLEAN
    BY <1>5 DEF FinishFailedCleanup
  <2> QED
    BY <1>5, <2>1 DEF FinishFailedCleanup, BoxOK, LoopsOK
<1>6. CASE ResumeDrive
  BY <1>6 DEF ResumeDrive, BoxOK, LoopsOK
<1>7. CASE MarkActive
  <2>1. ClocksOK' /\ InvoicesOK' /\ HistoryOK' /\ BoxOK'
    BY <1>7 DEF MarkActive
  <2>2. LoopsOK'
    BY <1>7 DEF MarkActive, LoopsOK
  <2>3. SubOK'
    BY <1>7 DEF MarkActive, SubOK, States
  <2>4. BooksOK'
    BY <1>7, NoResumeType DEF MarkActive, BooksOK
  <2>5. HoldFollowsState' /\ Carried'
    BY <1>7 DEF MarkActive, HoldFollowsState, Holding, Serving, Carried
  <2> QED
    BY <2>1, <2>2, <2>3, <2>4, <2>5
<1>8. CASE ResumeFailureWrite
  <2>1. ClocksOK' /\ InvoicesOK' /\ HistoryOK' /\ BoxOK'
    BY <1>8 DEF ResumeFailureWrite
  <2>2. LoopsOK'
    BY <1>8 DEF ResumeFailureWrite, LoopsOK
  <2>3. SubOK'
    BY <1>8, DeadlineTypes DEF ResumeFailureWrite, SubOK, BooksOK, States
  <2>4. BooksOK'
    BY <1>8, NoResumeType DEF ResumeFailureWrite, RefundIntent, BooksOK, Ext
  <2>5. HoldFollowsState' /\ Carried'
    BY <1>8 DEF ResumeFailureWrite, HoldFollowsState, Holding, Serving, Carried
  <2> QED
    BY <2>1, <2>2, <2>3, <2>4, <2>5
<1>9. CASE CommitSent
  <2>1. ClocksOK' /\ InvoicesOK' /\ BooksOK' /\ LoopsOK' /\ HistoryOK'
    BY <1>9 DEF CommitSent
  <2>2. SubOK' /\ BoxOK'
    BY <1>9 DEF CommitSent, ReleaseHold, SubOK, BoxOK, States, Time
  <2>3. HoldFollowsState' /\ Carried'
    BY <1>9 DEF CommitSent, ReleaseHold, HoldFollowsState, Holding, Serving, Carried
  <2> QED
    BY <2>1, <2>2, <2>3
<1> QED
  BY <1>1, <1>2, <1>3, <1>4, <1>5, <1>6, <1>7, <1>8, <1>9 DEF MaintenanceNext
-----------------------------------------------------------------------------
(* One settlement, applied to the books.                                   *)
LEMMA CaptureTxnStep ==
    ASSUME IInv, NEW e \in Ext, NEW s \in Clock, CaptureTxn(e, s),
           UNCHANGED <<envVars, boxVars, reservation, mnt, rec, ren>>, UNCHANGED history
    PROVE  IInv'
<1>0. ClocksOK' /\ BoxOK' /\ LoopsOK' /\ HistoryOK'
  BY Frame DEF envVars
<1>1. CASE UNCHANGED <<subVars, invoice, renew_resume>> /\ refund_attempt' \in SUBSET Ext
  <2>1. SubOK' /\ InvoicesOK' /\ HoldFollowsState' /\ Carried'
    BY <1>1, Frame DEF subVars
  <2>2. BooksOK'
    BY <1>1 DEF BooksOK, IInv, TypeOK
  <2> QED
    BY <1>0, <2>1, <2>2 DEF IInv, TypeOK
<1>2. CASE /\ e \in DOMAIN invoice /\ invoice[e].status = "EXPIRED"
           /\ PutInvoice(e, [invoice[e] EXCEPT !.settled_at = IF @ = NoTime THEN s ELSE @])
           /\ RefundIntent({e})
           /\ UNCHANGED <<subVars, renew_resume>>
  <2> DEFINE row == [invoice[e] EXCEPT !.settled_at = IF @ = NoTime THEN s ELSE @]
  <2>1. row \in InvoiceRow /\ row.status = "EXPIRED"
    BY <1>2 DEF InvoiceRow, InvoicesOK, IInv, TypeOK
  <2>2. /\ InvoicesOK' /\ DOMAIN invoice' = DOMAIN invoice \cup {e} /\ invoice'[e] = row
        /\ \A x \in DOMAIN invoice \ {e} : invoice'[x] = invoice[x]
    BY <1>2, <2>1, PutTypes DEF IInv, TypeOK
  <2>3. SubOK' /\ HoldFollowsState'
    BY <1>2, Frame DEF subVars
  <2>4. BooksOK'
    BY <1>2 DEF BooksOK, RefundIntent, IInv, TypeOK
  <2>5. Carried'
    BY <1>2, <2>1, <2>2 DEF Carried, IInv, subVars
  <2> QED
    BY <1>0, <2>2, <2>3, <2>4, <2>5 DEF IInv, TypeOK
<1>3. CASE /\ e \in DOMAIN invoice /\ invoice[e].status = "OPEN"
           /\ PutInvoice(e, PaidRow(e, s))
           /\ ApplyPaid(e, s)
  <2>1. PaidRow(e, s) \in InvoiceRow /\ PaidRow(e, s).status = "PAID"
    BY <1>3 DEF PaidRow, InvoiceRow, InvoicesOK, IInv, TypeOK
  <2>2. /\ InvoicesOK' /\ DOMAIN invoice' = DOMAIN invoice \cup {e}
        /\ invoice'[e].status = "PAID"
        /\ \A x \in DOMAIN invoice \ {e} : invoice'[x] = invoice[x]
    BY <1>3, <2>1, PutTypes DEF IInv, TypeOK
  <2>3. /\ Order \in DOMAIN invoice'
        /\ invoice[Order].status = "PAID" => invoice'[Order].status = "PAID"
    BY <1>3, <2>2 DEF Carried, IInv
  <2>4. CASE OrderInWindow(e, s) /\ CaptureOrder
    <3>1. SubOK' /\ BooksOK'
      BY <2>4 DEF CaptureOrder, SubOK, BooksOK, States, Time, IInv, TypeOK
    <3>2. HoldFollowsState' /\ Carried'
      BY <2>2, <2>3, <2>4 DEF OrderInWindow, CaptureOrder, HoldFollowsState, Holding, Serving,
         Carried, IInv
    <3> QED
      BY <1>0, <2>2, <3>1, <3>2 DEF IInv, TypeOK
  <2>5. CASE RenewalInWindow(e, s) /\ CaptureRenewal(e, s)
    <3>1. SubOK'
      BY <2>5, WindowTypes DEF CaptureRenewal, ExtendedTo, SubOK, States, Time, IInv, TypeOK
    <3>2. BooksOK'
      BY <2>5 DEF RenewalInWindow, CaptureRenewal, JournalRenewResume, BooksOK, SubOK, IInv, TypeOK
    <3>3. HoldFollowsState' /\ Carried'
      BY <2>3, <2>5 DEF RenewalInWindow, CaptureRenewal, HoldFollowsState, Holding, Serving,
         Carried, IInv
    <3> QED
      BY <1>0, <2>2, <3>1, <3>2, <3>3 DEF IInv, TypeOK
  <2>6. CASE RefundIntent({e}) /\ UNCHANGED <<subVars, renew_resume>>
    <3>1. SubOK' /\ HoldFollowsState'
      BY <2>6, Frame DEF subVars
    <3>2. BooksOK' /\ Carried'
      BY <2>3, <2>6 DEF RefundIntent, BooksOK, Carried, IInv, TypeOK, subVars
    <3> QED
      BY <1>0, <2>2, <3>1, <3>2 DEF IInv, TypeOK
  <2> QED
    BY <1>3, <2>4, <2>5, <2>6 DEF ApplyPaid
<1> QED
  BY <1>1, <1>2, <1>3 DEF CaptureTxn, RefundIntent, BooksOK, bookVars, IInv, TypeOK

(* A settlement is stamped no earlier than the order, also one recovered   *)
(* from a backend that has no time for it.                                 *)
LEMMA CaptureStep ==
    ASSUME IInv, CaptureNext, UNCHANGED history
    PROVE  IInv'
<1>1. PICK e \in DOMAIN invoice \cup Strays : DeliverSettlement(e) \/ SettlementCatchUp(e)
  BY DEF CaptureNext
<1>2. e \in Ext
  BY DEF IInv, TypeOK, InvoicesOK, Ext
<1>3. CASE DeliverSettlement(e)
  BY <1>2, <1>3, CaptureTxnStep DEF DeliverSettlement, ClocksOK, IInv, TypeOK
<1>4. CASE SettlementCatchUp(e)
  <2>1. RecoveredSettledAt(e) \in Clock /\ paid[e] \in Clock
    BY <1>4, TimersAssumption DEF SettlementCatchUp, OpenPaid, RecoveredSettledAt, IInv, TypeOK,
       ClocksOK, InvoicesOK, InvoiceRow, SubOK, PaidThroughs, Clock, Time, NoTime, Min2, Max2,
       ResumableUntil, EffectiveSuspendAt
  <2> QED
    BY <1>2, <1>4, <2>1, CaptureTxnStep DEF SettlementCatchUp
<1> QED
  BY <1>1, <1>3, <1>4

-----------------------------------------------------------------------------
(* The books as OrderWrite committed them.                                 *)
LEMMA IInvInit == Init => IInv
<1> SUFFICES ASSUME Init PROVE IInv
  OBVIOUS
<1> USE DEF Init
<1>1. ClocksOK /\ HistoryOK
  BY TimersAssumption DEF ClocksOK, HistoryOK, Clock, Ext
<1>2. SubOK
  BY TimersAssumption DEF SubOK, States, PaidThroughs, Time, NoTime
<1>3. InvoicesOK
  BY TimersAssumption DEF InvoicesOK, InvoiceRow, OpenInvoice, Clock, NoTime, Ext
<1>4. BooksOK
  BY NoResumeType DEF BooksOK
<1>5. BoxOK
  BY DEF BoxOK
<1>6. LoopsOK
  BY DEF LoopsOK, RecIdle, RenIdle, Time, NoTime
<1>7. HoldFollowsState /\ Carried
  BY DEF HoldFollowsState, Holding, Serving, Carried, RecIdle, RenIdle
<1> QED
  BY <1>1, <1>2, <1>3, <1>4, <1>5, <1>6, <1>7 DEF IInv, TypeOK

-----------------------------------------------------------------------------
(* The end of a tick: only lapsed renewals change status, so the order's   *)
(* row is as it was.                                                       *)
LEMMA ExpireTypes ==
    ASSUME IInv, ExpireOpenRenewals
    PROVE  /\ InvoicesOK' /\ Order \in DOMAIN invoice'
           /\ invoice'[Order] = invoice[Order]
<1>1. PICK E \in SUBSET Lapsed :
        invoice' = [e \in DOMAIN invoice |->
                      IF e \in E THEN [invoice[e] EXCEPT !.status = "EXPIRED"]
                      ELSE invoice[e]]
  BY DEF ExpireOpenRenewals
<1>2. \A e \in E : invoice[e] \in InvoiceRow /\ e # Order
  BY OrderIsNoRenewal DEF Lapsed, OpenRenewals, IInv, TypeOK, InvoicesOK
<1>3. \A e \in E : [invoice[e] EXCEPT !.status = "EXPIRED"] \in InvoiceRow
  BY <1>2 DEF InvoiceRow
<1>4. InvoicesOK'
  BY <1>1, <1>3 DEF IInv, TypeOK, InvoicesOK
<1> QED
  BY <1>1, <1>2, <1>4 DEF IInv, Carried

(* Moving the reconcile loop to another position keeps what it carries.    *)
LEMMA RecGoTypes ==
    ASSUME LoopsOK, UNCHANGED <<mnt, ren>>,
           NEW pc \in {"finish", "suspend_write", "repower", "destroy_recheck", "destroy_write"},
           \/ RecGo(pc)
           \/ rec' = [rec EXCEPT !.pc = pc, !.failed = TRUE]
    PROVE  LoopsOK' /\ rec'.pc # "remind"
  BY DEF LoopsOK, RecGo

(* Every step of a reconcile tick.                                         *)
LEMMA ReconcileStep ==
    ASSUME IInv, ReconcileNext, UNCHANGED history
    PROVE  IInv'
<1> USE Frame DEF IInv, TypeOK, othersC, boxVars, subVars
<1>1. CASE ReconcileTick
  <2>1. PICK pc \in {"finish", "order_expiry", "remind", "suspend_hook", "destroy_hook"} :
          /\ Dispatch(pc)
          /\ rec' = [pc |-> pc, t |-> now, nd |-> next_deadline, pt |-> paid_through,
                     eff |-> EffectiveSuspendAt(paid_through, suspend_not_before),
                     failed |-> FALSE]
    BY <1>1 DEF ReconcileTick
  <2>2. EffectiveSuspendAt(paid_through, suspend_not_before) \in Time
    BY DeadlineTypes DEF SubOK
  <2>3. LoopsOK'
    BY <1>1, <2>1, <2>2 DEF ReconcileTick, LoopsOK, ClocksOK, Clock, SubOK, PaidThroughs, Time
  <2>4. pc = "remind" => paid_through \in Nat
    BY <2>1 DEF Dispatch, IsDue, SubOK, PaidThroughs, Time, NoTime
  <2>5. Carried'
    BY <1>1, <2>1, <2>4 DEF ReconcileTick, Carried
  <2> QED
    BY <1>1, <2>3, <2>5 DEF ReconcileTick
<1>2. CASE FirePendingExpiry
  <2>1. LoopsOK' /\ rec'.pc # "remind"
    BY <1>2, RecGoTypes DEF FirePendingExpiry
  <2>2. ClocksOK' /\ BooksOK' /\ HistoryOK'
    BY <1>2 DEF FirePendingExpiry
  <2>3. CASE UNCHANGED <<state, next_deadline, reservation, invoice>>
    BY <1>2, <2>1, <2>2, <2>3 DEF FirePendingExpiry, Carried
  <2>4. CASE /\ StillDue({"PENDING"})
             /\ state' = "EXPIRED"
             /\ next_deadline' = NoTime
             /\ ReleaseHold
             /\ IF invoice[Order].status = "OPEN"
                THEN PutInvoice(Order, [invoice[Order] EXCEPT !.status = "EXPIRED"])
                ELSE UNCHANGED invoice
    <3>1. SubOK' /\ BoxOK'
      BY <1>2, <2>4 DEF FirePendingExpiry, ReleaseHold, SubOK, BoxOK, States, Time
    <3>2. InvoicesOK' /\ Order \in DOMAIN invoice'
      <4> DEFINE row == [invoice[Order] EXCEPT !.status = "EXPIRED"]
      <4>1. CASE invoice[Order].status = "OPEN"
        <5>1. row \in InvoiceRow
          BY <4>1 DEF InvoiceRow, InvoicesOK, Carried
        <5> HIDE DEF row
        <5>2. PutInvoice(Order, row)
          BY <2>4, <4>1 DEF row
        <5> QED
          BY <5>1, <5>2, PutTypes, OrderIsNoRenewal
      <4>2. CASE invoice[Order].status # "OPEN"
        BY <2>4, <4>2 DEF Carried
      <4> QED
        BY <4>1, <4>2
    <3>3. HoldFollowsState' /\ Carried'
      BY <1>2, <2>1, <2>4, <3>2 DEF FirePendingExpiry, ReleaseHold, HoldFollowsState, Holding,
         Serving, Carried
    <3> QED
      BY <2>1, <2>2, <3>1, <3>2, <3>3
  <2> QED
    BY <1>2, <2>3, <2>4 DEF FirePendingExpiry
<1>3. CASE FireSoftReminder
  <2>1. LoopsOK' /\ rec'.pc # "remind"
    BY <1>3, RecGoTypes DEF FireSoftReminder
  <2>2. ClocksOK' /\ BooksOK' /\ HistoryOK' /\ BoxOK' /\ HoldFollowsState'
    BY <1>3 DEF FireSoftReminder
  <2>3. CASE UNCHANGED <<next_deadline, invoice>>
    BY <1>3, <2>1, <2>2, <2>3 DEF FireSoftReminder, Carried
  <2>4. CASE /\ next_deadline' = rec.eff
             /\ UpsertRenewalInvoice(AutoRenewal(rec.pt),
                    now + Max2(rec.eff + Retention - rec.t, MinReminder))
    <3>1. AutoRenewal(rec.pt) \in Renewals
      BY <1>3 DEF FireSoftReminder, RecAt, Carried, AutoRenewal, Renewals
    <3>2. now + Max2(rec.eff + Retention - rec.t, MinReminder) \in Clock \ {Epoch}
      BY TimersAssumption DEF ClocksOK, LoopsOK, Clock, Max2, Time, NoTime
    <3>3. InvoicesOK' /\ Order \in DOMAIN invoice' /\ invoice'[Order] = invoice[Order]
      BY <2>4, <3>1, <3>2, UpsertTypes DEF Carried
    <3>4. SubOK'
      BY <1>3, <2>4 DEF FireSoftReminder, SubOK, LoopsOK
    <3>5. Carried'
      BY <1>3, <2>1, <3>3 DEF FireSoftReminder, Carried
    <3> QED
      BY <2>1, <2>2, <3>3, <3>4, <3>5
  <2> QED
    BY <1>3, <2>3, <2>4 DEF FireSoftReminder, SoftReminderWrite
<1>4. CASE SuspendHook
  <2>1. LoopsOK' /\ rec'.pc # "remind"
    BY <1>4, RecGoTypes DEF SuspendHook
  <2>2. BoxOK'
    BY <1>4 DEF SuspendHook, BoxOK
  <2> QED
    BY <1>4, <2>1, <2>2 DEF SuspendHook, Carried
<1>5. CASE SuspendWrite
  <2>1. LoopsOK' /\ rec'.pc # "remind"
    BY <1>5, RecGoTypes DEF SuspendWrite
  <2>2. SubOK'
    BY <1>5, TimersAssumption DEF SuspendWrite, SubOK, States, LoopsOK, Time, NoTime
  <2>3. HoldFollowsState' /\ Carried'
    BY <1>5, <2>1 DEF SuspendWrite, StillDue, HoldFollowsState, Holding, Serving, Carried
  <2> QED
    BY <1>5, <2>1, <2>2, <2>3 DEF SuspendWrite
<1>6. CASE Repower
  <2>1. LoopsOK' /\ rec'.pc # "remind"
    BY <1>6, RecGoTypes DEF Repower
  <2>2. BoxOK'
    BY <1>6 DEF Repower, BoxOK
  <2> QED
    BY <1>6, <2>1, <2>2 DEF Repower, Carried
<1>7. CASE DestroyHook
  <2>1. LoopsOK' /\ rec'.pc # "remind"
    BY <1>7, RecGoTypes DEF DestroyHook, RecGo
  <2>2. BoxOK'
    BY <1>7 DEF DestroyHook, BoxOK
  <2> QED
    BY <1>7, <2>1, <2>2 DEF DestroyHook, Carried
<1>8. CASE DestroyRecheck
  <2>1. LoopsOK' /\ rec'.pc # "remind"
    BY <1>8, RecGoTypes DEF DestroyRecheck
  <2>2. alerted' \in BOOLEAN
    BY <1>8 DEF DestroyRecheck, BoxOK
  <2>3. BoxOK'
    BY <1>8, <2>2 DEF DestroyRecheck, BoxOK
  <2> QED
    BY <1>8, <2>1, <2>3 DEF DestroyRecheck, Carried
<1>9. CASE DestroyWrite
  <2>1. LoopsOK' /\ rec'.pc # "remind"
    BY <1>9, RecGoTypes DEF DestroyWrite
  <2>2. alerted' \in BOOLEAN /\ teardown_failure' \in BOOLEAN
    BY <1>9 DEF DestroyWrite, AlertIfAlive, BoxOK
  <2>3. SubOK'
    BY <1>9 DEF DestroyWrite, SubOK, States, Time
  <2>4. BoxOK'
    BY <1>9, <2>2 DEF DestroyWrite, ReleaseHold, BoxOK
  <2>5. HoldFollowsState' /\ Carried'
    BY <1>9, <2>1 DEF DestroyWrite, ReleaseHold, HoldFollowsState, Holding, Serving, Carried
  <2> QED
    BY <1>9, <2>1, <2>3, <2>4, <2>5 DEF DestroyWrite
<1>10. CASE FinishTick
  <2>1. InvoicesOK' /\ Order \in DOMAIN invoice' /\ invoice'[Order] = invoice[Order]
    BY <1>10, ExpireTypes DEF FinishTick
  <2>2. LoopsOK'
    BY <1>10 DEF FinishTick, LoopsOK, RecIdle, Time, NoTime
  <2>3. ClocksOK'
    BY <1>10, TimersAssumption DEF FinishTick, ClocksOK, WriteHeartbeat, LoopsOK, Clock, Max2
  <2>4. teardown_failure' \in BOOLEAN
    BY <1>10 DEF FinishTick, RetryTeardowns, BoxOK
  <2>5. BoxOK'
    BY <1>10, <2>4 DEF FinishTick, RetryTeardowns, BoxOK
  <2>6. Carried'
    BY <1>10, <2>1 DEF FinishTick, Carried, RecIdle
  <2> QED
    BY <1>10, <2>1, <2>2, <2>3, <2>5, <2>6 DEF FinishTick
<1> QED
  BY <1>1, <1>2, <1>3, <1>4, <1>5, <1>6, <1>7, <1>8, <1>9, <1>10 DEF ReconcileNext

-----------------------------------------------------------------------------
(* The buyer's requests and the operator's overrides.                      *)
LEMMA RequestStep ==
    ASSUME IInv, IntakeNext \/ AdminNext, UNCHANGED history
    PROVE  IInv'
<1> USE Frame DEF IInv, TypeOK, othersI, envVars, bookVars, boxVars, subVars
<1>1. ASSUME NEW r \in Requests, HandleRenew(r) PROVE IInv'
  <2> DEFINE remaining == ResumableUntil(paid_through, suspend_not_before) - now
  <2>1. remaining \in Int /\ remaining >= 1
    BY <1>1, TimersAssumption, DeadlineTypes DEF HandleRenew, SubOK, ClocksOK, Clock, Time, NoTime
  <2> HIDE DEF remaining
  <2>2. ren' = [req |-> {r}, expiry |-> Min2(remaining, InvoiceExpiry)]
    BY <1>1 DEF HandleRenew, remaining
  <2>3. Min2(remaining, InvoiceExpiry) \in Nat \ {0}
    BY <2>1, TimersAssumption DEF Min2
  <2>4. LoopsOK' /\ Carried'
    BY <1>1, <2>2, <2>3 DEF HandleRenew, LoopsOK, Carried
  <2> QED
    BY <1>1, <2>4 DEF HandleRenew
<1>2. ASSUME NEW r \in Requests, IssueRenewal(r) PROVE IInv'
  <2>1. LoopsOK'
    BY <1>2 DEF IssueRenewal, LoopsOK, RenIdle
  <2>2. now + ren.expiry \in Clock \ {Epoch} /\ Req(r) \in Renewals
    BY <1>2, TimersAssumption DEF IssueRenewal, ClocksOK, LoopsOK, Carried, Clock, Req, Renewals
  <2>3. InvoicesOK' /\ Order \in DOMAIN invoice' /\ invoice'[Order] = invoice[Order]
    <3>1. CASE UpsertRenewalInvoice(Req(r), now + ren.expiry)
      BY <2>2, <3>1, UpsertTypes DEF Carried
    <3>2. CASE UNCHANGED invoice
      BY <3>2 DEF Carried
    <3> QED
      BY <1>2, <3>1, <3>2 DEF IssueRenewal, RenewalWrite
  <2>4. Carried'
    BY <1>2, <2>3 DEF IssueRenewal, Carried, RenIdle
  <2> QED
    BY <1>2, <2>1, <2>3, <2>4 DEF IssueRenewal
<1>3. CASE CancelWrite \/ AdminSuspend \/ AdminResume
  <2>1. SubOK'
    BY <1>3 DEF CancelWrite, AdminSuspend, AdminResume, SubOK, States, PaidThroughs, Time
  <2>2. HoldFollowsState' /\ Carried'
    BY <1>3 DEF CancelWrite, AdminSuspend, AdminResume, HoldFollowsState, Holding, Serving, Carried
  <2> QED
    BY <1>3, <2>1, <2>2 DEF CancelWrite, AdminSuspend, AdminResume
<1> QED
  BY <1>1, <1>2, <1>3 DEF IntakeNext, AdminNext

(* The clock, the payers, the crash and the boot.                          *)
LEMMA EnvironmentStep ==
    ASSUME IInv,
           \/ Tick \/ Crash \/ Restart \/ BootDrivesDone
           \/ \E e \in DOMAIN invoice \cup Strays : Pay(e)
    PROVE  IInv'
<1> USE Frame DEF IInv, TypeOK, bookVars, boxVars, subVars, history
<1>1. CASE Tick
  <2>1. ClocksOK'
    BY <1>1, TimersAssumption DEF Tick, ClocksOK, Clock
  <2>2. HistoryOK'
    BY <1>1 DEF Tick, ClocksOK, Clock, HistoryOK
  <2> QED
    BY <1>1, <2>1, <2>2 DEF Tick
<1>2. CASE Crash
  <2>1. ClocksOK' /\ HistoryOK'
    BY <1>2 DEF Crash, ClocksOK, HistoryOK
  <2>2. LoopsOK' /\ Carried'
    BY <1>2 DEF Crash, LoopsOK, Carried, RecIdle, RenIdle, Time, NoTime
  <2> QED
    BY <1>2, <2>1, <2>2 DEF Crash
<1>3. CASE Restart
  <2>1. ClocksOK'
    BY <1>3 DEF Restart, ApplyRestartDowntimeCredit, WriteHeartbeat, ClocksOK, Clock, Max2
  <2>2. HistoryOK'
    BY <1>3 DEF Restart, HistoryOK, SubOK, PaidThroughs
  <2>3. EffectiveSuspendAt(paid_through, suspend_not_before) \in Time
    BY DeadlineTypes DEF SubOK
  <2>4. suspend_not_before' \in Time /\ next_deadline' \in Time
    <3>1. CASE CreditActive
      BY <2>3, <3>1, TimersAssumption DEF CreditActive, WindowStart, SoftDate, Clamp, Max2, Min2,
         SubOK, ClocksOK, Clock, PaidThroughs, Time, NoTime
    <3>2. CASE CreditSuspended
      BY <2>3, <3>2, TimersAssumption DEF CreditSuspended, RemainingRetention, Clamp, Max2, Min2,
         SubOK, ClocksOK, Clock, PaidThroughs, Time, NoTime
    <3>3. CASE UNCHANGED <<suspend_not_before, next_deadline>>
      BY <3>3 DEF SubOK
    <3> QED
      BY <1>3, <3>1, <3>2, <3>3 DEF Restart, ApplyRestartDowntimeCredit
  <2>5. SubOK'
    BY <1>3, <2>4 DEF Restart, ApplyRestartDowntimeCredit, SubOK
  <2> QED
    BY <1>3, <2>1, <2>2, <2>5 DEF Restart, ApplyRestartDowntimeCredit
<1>4. CASE BootDrivesDone
  <2>1. ClocksOK'
    BY <1>4 DEF BootDrivesDone, ClocksOK
  <2> QED
    BY <1>4, <2>1 DEF BootDrivesDone
<1>5. ASSUME NEW e \in DOMAIN invoice \cup Strays, Pay(e) PROVE IInv'
  <2>1. ClocksOK'
    BY <1>5 DEF Pay, ClocksOK, InvoicesOK, Ext
  <2> QED
    BY <1>5, <2>1 DEF Pay
<1> QED
  BY <1>1, <1>2, <1>3, <1>4, <1>5

-----------------------------------------------------------------------------
(* Every step preserves the invariant ...                                  *)
LEMMA IInvStep == IInv /\ [Next]_vars => IInv'
<1> SUFFICES ASSUME IInv, [Next]_vars PROVE IInv'
  OBVIOUS
<1>1. CASE UNCHANGED vars
  BY <1>1, Frame DEF IInv, TypeOK, vars, subVars, boxVars, history
<1>2. CASE Next
  BY <1>2, CaptureStep, MaintenanceStep, ReconcileStep, RequestStep, EnvironmentStep DEF Next
<1> QED
  BY <1>1, <1>2

(* ... so it always holds.                                                 *)
LEMMA IInvAlways == Spec => []IInv
  BY IInvInit, IInvStep, PTL DEF Spec

(* The books are well typed for every period, lead, retention and expiry,  *)
(* every set of requests and strays, and without bound on time or crashes: *)
(* capture_txn never leaves a PAID invoice without the settlement time     *)
(* that ActiveWrite reads, and no deadline the writers compute falls       *)
(* before the epoch of the clock.                                          *)
THEOREM TypesAlways == Spec => []TypeOK
<1>1. IInv => TypeOK
  BY DEF IInv
<1> QED
  BY <1>1, IInvAlways, PTL

(* A slot is HELD, CONSUMED or RELEASED exactly as the subscription's      *)
(* state demands, whatever the loops, the buyer, the operator and the      *)
(* crashes do (consume_txn, release_txn and every writer of state).  So    *)
(* ActiveWrite never finds its hold lost on a PROVISIONING row.            *)
THEOREM HoldAlwaysFollows == Spec => []HoldFollowsState
<1>1. IInv => HoldFollowsState
  BY DEF IInv
<1> QED
  BY <1>1, IInvAlways, PTL

-----------------------------------------------------------------------------
(* Loop positions: a destroy under way, and what it has done to the box.   *)
Destroying == {"destroy_hook", "destroy_recheck", "destroy_write"}
NoBox == {"absent", "gone"}

(* Who owes what to the box: a destroy runs only against a row that was    *)
(* served, a write of the provision driver only follows its own read, and  *)
(* a row that is final either has no box left or a durable teardown.       *)
BoxInv ==
    /\ rec.pc \in Destroying => state \in Serving \cup {"TERMINATED"}
    /\ rec.pc \in {"destroy_recheck", "destroy_write"} /\ ~rec.failed => box = "gone"
    /\ mnt \in {"active_write", "refund_due_write"} => state = "PROVISIONING"
    /\ mnt = "active_write" => box # "gone"
    /\ mnt = "cleanup_done" => box = "gone"
    /\ cleanup \/ mnt = "cleanup_done" => state \in {"REFUND_DUE", "REFUNDED"}
    /\ state \in {"PENDING", "EXPIRED"} => box \in NoBox
    /\ state \in {"REFUND_DUE", "REFUNDED"} => box \in NoBox \/ cleanup
    /\ state = "TERMINATED" => box \in NoBox \/ teardown_failure
    /\ crashes = 0 /\ state \in Serving /\ box = "gone" /\ rec.pc \notin Destroying => alerted

(* RecGo moves the loop on and keeps what the tick read.                   *)
LEMMA RecFields ==
    ASSUME LoopsOK, NEW pc, RecGo(pc)
    PROVE  /\ rec'.pc = pc /\ rec'.t = rec.t /\ rec'.nd = rec.nd /\ rec'.pt = rec.pt
           /\ rec'.eff = rec.eff /\ rec'.failed = rec.failed
BY DEF LoopsOK, RecGo

(* The states a settlement moves the row between.                          *)
LEMMA CaptureStates ==
    ASSUME CaptureNext
    PROVE  /\ UNCHANGED <<box, cleanup, teardown_failure, alerted, mnt, rec>>
           /\ \/ state' = state
              \/ state = "PENDING" /\ state' = "PROVISIONING"
              \/ state \in {"SUSPENDED", "RESUMING"} /\ state' = "RESUMING"
<1>1. PICK e \in DOMAIN invoice \cup Strays : \E s \in {paid[e], RecoveredSettledAt(e)} :
        CaptureTxn(e, s) /\ UNCHANGED <<boxVars, mnt, rec>>
  BY DEF CaptureNext, DeliverSettlement, SettlementCatchUp
<1>2. \/ state' = state
      \/ state = "PENDING" /\ state' = "PROVISIONING"
      \/ state \in {"SUSPENDED", "RESUMING"} /\ state' = "RESUMING"
  BY <1>1 DEF CaptureTxn, ApplyPaid, OrderInWindow, CaptureOrder, RenewalInWindow, CaptureRenewal,
     subVars
<1> QED
  BY <1>1, <1>2 DEF boxVars

(* No box before the order is paid.                                        *)
LEMMA BoxInvInit == Init => BoxInv
BY DEF Init, BoxInv, RecIdle, Destroying, NoBox, Serving

(* Every step keeps track of the box ...                                   *)
LEMMA BoxInvStep == IInv /\ BoxInv /\ [Next]_vars => BoxInv'
<1> SUFFICES ASSUME IInv, BoxInv, [Next]_vars PROVE BoxInv'
  OBVIOUS
<1>0. LoopsOK /\ BoxOK /\ state \in States
  BY DEF IInv, TypeOK, SubOK
<1> USE DEF Serving, Destroying, NoBox
<1>1. CASE UNCHANGED vars
  BY <1>1 DEF vars, BoxInv
<1>2. CASE CaptureNext /\ UNCHANGED history
  BY <1>2, CaptureStates DEF BoxInv, history
<1>3. CASE MaintenanceNext /\ UNCHANGED history
  <2> USE DEF othersP, othersR, envVars, subVars, bookVars, history, MntFree, BoxInv
  <2>1. CASE ProvisionDrive
    BY <1>3, <2>1 DEF ProvisionDrive
  <2>2. CASE ActiveWrite
    <3>1. state = "PROVISIONING" /\ reservation = "HELD"
      BY <2>2 DEF ActiveWrite, IInv, HoldFollowsState, Holding
    <3>2. /\ state' = "ACTIVE" /\ mnt' = "idle"
          /\ UNCHANGED <<box, cleanup, teardown_failure, alerted, rec, crashes>>
      BY <1>3, <2>2, <3>1 DEF ActiveWrite
    <3> QED
      BY <2>2, <3>1, <3>2 DEF ActiveWrite
  <2>3. CASE RefundDueWrite
    BY <1>3, <2>3 DEF RefundDueWrite
  <2>4. CASE CompleteFailedCleanup
    BY <1>3, <2>4 DEF CompleteFailedCleanup
  <2>5. CASE FinishFailedCleanup
    BY <1>3, <2>5 DEF FinishFailedCleanup
  <2>6. CASE ResumeDrive
    BY <1>3, <2>6 DEF ResumeDrive
  <2>7. CASE MarkActive
    BY <1>3, <2>7 DEF MarkActive
  <2>8. CASE ResumeFailureWrite
    BY <1>3, <2>8 DEF ResumeFailureWrite
  <2>9. CASE CommitSent
    BY <1>3, <2>9 DEF CommitSent, boxVars
  <2> QED
    BY <1>3, <2>1, <2>2, <2>3, <2>4, <2>5, <2>6, <2>7, <2>8, <2>9 DEF MaintenanceNext
<1>4. CASE ReconcileNext /\ UNCHANGED history
  <2> USE DEF othersC, subVars, boxVars, history, BoxInv
  <2>1. CASE ReconcileTick
    <3>1. PICK pc \in {"finish", "order_expiry", "remind", "suspend_hook", "destroy_hook"} :
            Dispatch(pc) /\ rec'.pc = pc
      BY <2>1 DEF ReconcileTick
    <3>2. pc = "destroy_hook" => state \in {"SUSPENDED", "CANCELLED"}
      BY <3>1 DEF Dispatch
    <3>3. /\ UNCHANGED <<state, mnt, box, cleanup, teardown_failure, alerted, crashes>>
          /\ rec.pc = "idle"
      BY <1>4, <2>1 DEF ReconcileTick, RecAt
    <3> QED
      BY <3>1, <3>2, <3>3
  <2>2. CASE FirePendingExpiry
    <3>1. rec'.pc = "finish" /\ rec.pc = "order_expiry"
      BY <1>0, <2>2, RecFields DEF FirePendingExpiry, RecAt
    <3>2. /\ UNCHANGED <<mnt, box, cleanup, teardown_failure, alerted, crashes>>
          /\ state' = state \/ (state = "PENDING" /\ state' = "EXPIRED")
      BY <1>4, <2>2 DEF FirePendingExpiry, StillDue
    <3> QED
      BY <3>1, <3>2
  <2>3. CASE FireSoftReminder \/ SuspendHook \/ SuspendWrite \/ Repower
    <3>1. rec'.pc \notin Destroying /\ rec.pc \notin Destroying
      BY <1>0, <2>3, RecFields DEF FireSoftReminder, SuspendHook, SuspendWrite, Repower, RecAt
    <3>2. /\ UNCHANGED <<mnt, cleanup, teardown_failure, alerted, crashes>>
          /\ state' = state \/ (state = "ACTIVE" /\ state' = "SUSPENDED")
          /\ box' = box \/ (box \in {"on", "off"} /\ box' \in {"on", "off"})
      BY <1>4, <2>3 DEF FireSoftReminder, SuspendHook, SuspendWrite, Repower, StillDue
    <3> QED
      BY <3>1, <3>2
  <2>4. CASE DestroyHook
    <3>1. /\ rec.pc = "destroy_hook" /\ rec'.pc = "destroy_recheck"
          /\ box' = "gone" \/ (box' = box /\ rec'.failed)
      BY <1>0, <2>4 DEF DestroyHook, RecAt, LoopsOK
    <3>2. UNCHANGED <<state, mnt, cleanup, teardown_failure, alerted, crashes>>
      BY <1>4, <2>4 DEF DestroyHook
    <3> QED
      BY <3>1, <3>2
  <2>5. CASE DestroyRecheck
    <3>1. /\ rec.pc = "destroy_recheck" /\ rec'.failed = rec.failed
          /\ \/ rec'.pc = "finish" /\ alerted'
             \/ rec'.pc = "destroy_write" /\ alerted' = alerted
      BY <1>0, <2>5, RecFields DEF DestroyRecheck, RecAt
    <3>2. UNCHANGED <<state, mnt, box, cleanup, teardown_failure, crashes>>
      BY <1>4, <2>5 DEF DestroyRecheck
    <3> QED
      BY <3>1, <3>2
  <2>6. CASE DestroyWrite
    <3>1. rec.pc = "destroy_write" /\ rec'.pc = "finish"
      BY <1>0, <2>6, RecFields DEF DestroyWrite, RecAt
    <3>2. UNCHANGED <<mnt, box, cleanup, crashes>>
      BY <1>4, <2>6 DEF DestroyWrite
    <3>3. CASE StillDue({"SUSPENDED", "CANCELLED"})
      <4>1. /\ state' = "TERMINATED" /\ alerted' = alerted /\ state \in {"SUSPENDED", "CANCELLED"}
            /\ teardown_failure' = (teardown_failure \/ rec.failed)
        BY <2>6, <3>3 DEF DestroyWrite, StillDue
      <4>2. box \in NoBox \/ teardown_failure'
        BY <3>1, <4>1 DEF LoopsOK, BoxOK
      <4> QED
        BY <3>1, <3>2, <4>1, <4>2
    <3>4. CASE ~StillDue({"SUSPENDED", "CANCELLED"})
      <4>1. state' = state /\ teardown_failure' = teardown_failure
        BY <2>6, <3>4 DEF DestroyWrite
      <4>2. alerted' \/ state = "TERMINATED"
        BY <2>6, <3>4 DEF DestroyWrite, AlertIfAlive
      <4> QED
        BY <3>1, <3>2, <4>1, <4>2
    <3> QED
      BY <3>3, <3>4
  <2>7. CASE FinishTick
    <3>1. rec.pc = "finish" /\ rec'.pc = "idle"
      BY <2>7 DEF FinishTick, RecAt, RecIdle
    <3>2. UNCHANGED <<state, mnt, cleanup, alerted, crashes>>
      BY <1>4, <2>7 DEF FinishTick
    <3>3. \/ UNCHANGED <<box, teardown_failure>>
          \/ state = "TERMINATED" /\ box' = "gone"
      BY <2>7 DEF FinishTick, RetryTeardowns
    <3> QED
      BY <3>1, <3>2, <3>3
  <2> QED
    BY <1>4, <2>1, <2>2, <2>3, <2>4, <2>5, <2>6, <2>7 DEF ReconcileNext
<1>5. CASE (IntakeNext \/ AdminNext) /\ UNCHANGED history
  <2>1. /\ UNCHANGED <<box, cleanup, teardown_failure, alerted, mnt, rec, crashes>>
        /\ state' = state \/ (state \in {"ACTIVE", "SUSPENDED"} /\ state' \in Serving)
    BY <1>5 DEF IntakeNext, AdminNext, HandleRenew, IssueRenewal, CancelWrite, AdminSuspend,
       AdminResume, othersI, boxVars, subVars, history
  <2> QED
    BY <2>1 DEF BoxInv
<1>6. CASE Crash
  <2>1. /\ UNCHANGED <<state, box, cleanup, teardown_failure, alerted>> /\ crashes' = crashes + 1
        /\ mnt' = "idle" /\ rec'.pc = "idle"
    BY <1>6 DEF Crash, subVars, boxVars, RecIdle
  <2>2. crashes' # 0
    BY <2>1 DEF IInv, TypeOK, HistoryOK
  <2> QED
    BY <2>1, <2>2 DEF BoxInv
<1>7. CASE Tick \/ Restart \/ BootDrivesDone \/ \E e \in DOMAIN invoice \cup Strays : Pay(e)
  <2>1. UNCHANGED <<state, box, cleanup, teardown_failure, alerted, mnt, rec, crashes>>
    BY <1>7 DEF Tick, Restart, ApplyRestartDowntimeCredit, BootDrivesDone, Pay, subVars, boxVars,
       history
  <2> QED
    BY <2>1 DEF BoxInv
<1> QED
  BY <1>1, <1>2, <1>3, <1>4, <1>5, <1>6, <1>7 DEF Next

(* ... so it is always tracked.                                            *)
LEMMA BoxInvAlways == Spec => []BoxInv
BY BoxInvInit, BoxInvStep, IInvAlways, PTL DEF Spec

(* No box outlives its subscription unnoticed: once a row is EXPIRED,      *)
(* REFUNDED or TERMINATED its box is gone, or a durable cleanup intent or  *)
(* teardown dead letter says that it is not.  Holds across crashes.        *)
THEOREM NoBoxLeaks == Spec => []NoLeakedBox
<1>1. IInv /\ BoxInv => NoLeakedBox
  BY DEF IInv, TypeOK, SubOK, States, HoldFollowsState, Holding, Serving, BoxInv, NoLeakedBox, NoBox
<1> QED
  BY <1>1, IInvAlways, BoxInvAlways, PTL

(* Without a crash, a box destroyed under a row that is still served has   *)
(* raised the alert (fire_destroy's two late checks).  A crash between the *)
(* destroy hook and the write of its outcome leaves no trace of the hook,  *)
(* which is why the hypothesis is there.                                   *)
THEOREM DestroyedIsReported == Spec => [](crashes = 0 => DestroyedNeverSilent)
<1>1. BoxInv => (crashes = 0 => DestroyedNeverSilent)
  BY DEF BoxInv, DestroyedNeverSilent, Destroying, Serving
<1> QED
  BY <1>1, BoxInvAlways, PTL

-----------------------------------------------------------------------------
(* The receipts K bought the window up to pt: no less than a period each   *)
(* from the order's settlement on, no more than had all come last.         *)
Bought(inv, K, pt) ==
    /\ IsFiniteSet(K) /\ Order \in K
    /\ pt >= inv[Order].settled_at + Period * Cardinality(K)
    /\ \E m \in K : /\ \A e \in K : inv[e].settled_at <= inv[m].settled_at
                    /\ pt <= inv[m].settled_at + Period * Cardinality(K)

Unserved == {"PENDING", "PROVISIONING", "EXPIRED", "REFUND_DUE", "REFUNDED"}

(* A refunded row is closed for good.                                      *)
RefundsClosed ==
    /\ refund_attempt \subseteq DOMAIN invoice \cup Strays
    /\ \A e \in refund_attempt \cap DOMAIN invoice :
          \/ invoice[e].status = "PAID"
          \/ invoice[e].status = "EXPIRED" /\ invoice[e].settled_at # NoTime

(* What the kept receipts have bought, also without the batch whose resume *)
(* is not settled yet: that is the window a permanent failure goes back to.*)
ReceiptsCounted ==
    /\ paid_through = NoTime <=> state \in Unserved
    /\ state = "PENDING" => Kept = {}
    /\ state = "PROVISIONING" => Kept = {Order}
    /\ paid_through # NoTime => Bought(invoice, Kept, paid_through)
    /\ renew_resume.pending \subseteq Kept
    /\ state # "RESUMING" => renew_resume.pending = {}
    /\ state = "RESUMING" =>
          /\ renew_resume.pending # {} /\ renew_resume.paid_through # NoTime
          /\ Bought(invoice, Kept \ renew_resume.pending, renew_resume.paid_through)

KeptInv == RefundsClosed /\ ReceiptsCounted

(* What was bought depends only on the receipts' own rows.                 *)
LEMMA BoughtSame ==
    ASSUME NEW inv, NEW inv2, NEW K, NEW pt, Bought(inv, K, pt), \A e \in K : inv2[e] = inv[e]
    PROVE  Bought(inv2, K, pt)
BY DEF Bought

(* The order buys the first period.                                        *)
LEMMA BoughtFirst ==
    ASSUME NEW inv, inv[Order].settled_at \in Nat
    PROVE  Bought(inv, {Order}, inv[Order].settled_at + Period)
<1>1. IsFiniteSet({Order}) /\ Cardinality({Order}) = 1
  BY FS_Singleton
<1>2. Period * 1 = Period
  BY TimersAssumption
<1> QED
  BY <1>1, <1>2, TimersAssumption DEF Bought

(* A further receipt buys a further period: max(paid_through, s) + period  *)
(* is at least one period more than before and at most what the latest     *)
(* receipt could give.                                                     *)
LEMMA BoughtMore ==
    ASSUME NEW inv, NEW inv2, NEW K, NEW pt \in Int, NEW x, x \notin K, NEW s \in Nat,
           Bought(inv, K, pt), \A e \in K : inv2[e] = inv[e] /\ inv[e].settled_at \in Nat,
           inv2[x].settled_at = s
    PROVE  Bought(inv2, K \cup {x}, Max2(pt, s) + Period)
<1> DEFINE n == Cardinality(K)
           at(e) == inv2[e].settled_at
<1>1. IsFiniteSet(K) /\ IsFiniteSet(K \cup {x}) /\ n \in Nat /\ Cardinality(K \cup {x}) = n + 1
  BY FS_AddElement, FS_CardinalityType DEF Bought
<1>2. Period * (n + 1) = Period * n + Period /\ Period * n \in Nat
  BY <1>1, TimersAssumption
<1>3. PICK m \in K : (\A e \in K : at(e) <= at(m)) /\ pt <= at(m) + Period * n
  BY DEF Bought
<1>4. Order \in K /\ pt >= at(Order) + Period * n /\ at(x) = s
  BY DEF Bought
<1>5. \A e \in K : at(e) \in Nat
  OBVIOUS
<1> HIDE DEF at, n
<1> DEFINE q == Period * n
<1>6. q \in Nat /\ Period * (n + 1) = q + Period
  BY <1>2
<1>7. Order \in K /\ pt >= at(Order) + q /\ pt <= at(m) + q
  BY <1>3, <1>4
<1> HIDE DEF q
<1>8. Max2(pt, s) + Period >= at(Order) + (q + Period)
  BY <1>5, <1>6, <1>7, TimersAssumption DEF Max2
<1>9. \E l \in K \cup {x} : /\ \A e \in K \cup {x} : at(e) <= at(l)
                            /\ Max2(pt, s) + Period <= at(l) + (q + Period)
  <2>1. CASE s <= at(m)
    BY <1>3, <1>4, <1>5, <1>6, <1>7, <2>1, TimersAssumption DEF Max2
  <2>2. CASE s > at(m)
    BY <1>3, <1>4, <1>5, <1>6, <1>7, <2>2, TimersAssumption DEF Max2
  <2> QED
    BY <1>5, <2>1, <2>2
<1> QED
  BY <1>1, <1>4, <1>6, <1>8, <1>9 DEF Bought, at, n

(* Kept receipts carry the time they were settled.                         *)
LEMMA KeptRows ==
    ASSUME IInv
    PROVE  \A e \in Kept : e \in DOMAIN invoice /\ invoice[e].settled_at \in Nat
BY DEF IInv, TypeOK, InvoicesOK, InvoiceRow, Clock, Kept

(* A step that keeps the kept receipts and the paid window.                *)
LEMMA SameKept ==
    ASSUME KeptInv, RefundsClosed', Kept' = Kept, \A e \in Kept : invoice'[e] = invoice[e],
           UNCHANGED <<paid_through, renew_resume>>,
           \/ state' = state
           \/ state \notin Unserved \cup {"RESUMING"} /\ state' \notin Unserved \cup {"RESUMING"}
           \/ state \in Unserved /\ state' \in Unserved \ {"PENDING", "PROVISIONING"}
    PROVE  KeptInv'
<1>1. paid_through # NoTime => Bought(invoice', Kept, paid_through)
  BY BoughtSame DEF KeptInv, ReceiptsCounted
<1>2. state = "RESUMING" => Bought(invoice', Kept \ renew_resume.pending, renew_resume.paid_through)
  BY BoughtSame DEF KeptInv, ReceiptsCounted
<1> QED
  BY <1>1, <1>2 DEF KeptInv, ReceiptsCounted, Unserved

(* Invoices issued, reopened or expired are no receipts.                   *)
LEMMA QuietInvoices ==
    ASSUME KeptInv, UNCHANGED refund_attempt, DOMAIN invoice \subseteq DOMAIN invoice',
           \A e \in DOMAIN invoice' :
              \/ e \in DOMAIN invoice /\ invoice'[e] = invoice[e]
              \/ /\ e \notin refund_attempt /\ invoice'[e].status # "PAID"
                 /\ e \in DOMAIN invoice => invoice[e].status # "PAID"
    PROVE  RefundsClosed' /\ Kept' = Kept /\ \A e \in Kept : invoice'[e] = invoice[e]
<1>1. RefundsClosed'
  BY DEF KeptInv, RefundsClosed
<1>2. Kept' = Kept
  BY DEF Kept
<1>3. \A e \in Kept : invoice'[e] = invoice[e]
  BY DEF Kept
<1> QED
  BY <1>1, <1>2, <1>3

(* Writing one invoice row.                                                *)
LEMMA PutShape ==
    ASSUME NEW e, NEW row, PutInvoice(e, row)
    PROVE  /\ DOMAIN invoice' = DOMAIN invoice \cup {e} /\ invoice'[e] = row
           /\ \A x \in DOMAIN invoice \ {e} : invoice'[x] = invoice[x]
BY DEF PutInvoice

(* Issuing a renewal invoice touches no kept receipt and no refund.        *)
LEMMA UpsertQuiet ==
    ASSUME KeptInv, IInv, NEW e \in Renewals, NEW exp, UpsertRenewalInvoice(e, exp),
           UNCHANGED refund_attempt
    PROVE  RefundsClosed' /\ Kept' = Kept /\ \A x \in Kept : invoice'[x] = invoice[x]
<1>1. CASE UNCHANGED invoice
  BY <1>1, QuietInvoices
<1>2. CASE /\ PutInvoice(e, OpenInvoice(exp))
           /\ e \in DOMAIN invoice => invoice[e].status # "PAID" /\ invoice[e].settled_at = NoTime
  <2>1. e \notin refund_attempt
    BY <1>2, StraysAssumption DEF KeptInv, RefundsClosed
  <2>2. OpenInvoice(exp).status # "PAID"
    BY DEF OpenInvoice
  <2>3. /\ DOMAIN invoice' = DOMAIN invoice \cup {e} /\ invoice'[e].status # "PAID"
        /\ \A x \in DOMAIN invoice \ {e} : invoice'[x] = invoice[x]
    BY <1>2, <2>2, PutShape
  <2> QED
    BY <1>2, <2>1, <2>3, QuietInvoices
<1> QED
  BY <1>1, <1>2 DEF UpsertRenewalInvoice

(* A settlement is stamped no earlier than the order.                      *)
LEMMA SettlementTimes ==
    ASSUME IInv, CaptureNext
    PROVE  \E e \in DOMAIN invoice \cup Strays, s \in Clock :
              CaptureTxn(e, s) /\ e \in DOMAIN paid /\ s \in {paid[e], RecoveredSettledAt(e)}
<1>1. PICK e \in DOMAIN invoice \cup Strays : DeliverSettlement(e) \/ SettlementCatchUp(e)
  BY DEF CaptureNext
<1>2. CASE DeliverSettlement(e)
  BY <1>2 DEF DeliverSettlement, ClocksOK, IInv, TypeOK
<1>3. CASE SettlementCatchUp(e)
  <2>1. RecoveredSettledAt(e) \in Clock /\ paid[e] \in Clock
    BY <1>3, TimersAssumption DEF SettlementCatchUp, OpenPaid, RecoveredSettledAt, IInv, TypeOK,
       ClocksOK, InvoicesOK, InvoiceRow, SubOK, PaidThroughs, Clock, Time, NoTime, Min2, Max2,
       ResumableUntil, EffectiveSuspendAt
  <2> QED
    BY <1>3, <2>1 DEF SettlementCatchUp, OpenPaid
<1> QED
  BY <1>1, <1>2, <1>3

(* One settlement.                                                         *)
LEMMA KeptCapture == ASSUME IInv, KeptInv, CaptureNext PROVE KeptInv'
<1>1. PICK e \in DOMAIN invoice \cup Strays, s \in Clock : CaptureTxn(e, s)
  BY SettlementTimes
<1>2. s \in Nat /\ s # NoTime
  BY DEF Clock, NoTime
<1>3. CASE /\ e \notin DOMAIN invoice /\ RefundIntent({e})
           /\ UNCHANGED <<subVars, invoice, renew_resume>>
  <2>1. RefundsClosed' /\ Kept' = Kept
    BY <1>3 DEF RefundIntent, KeptInv, RefundsClosed, Kept
  <2> QED
    BY <1>3, <2>1, SameKept DEF subVars
<1>4. CASE UNCHANGED <<subVars, bookVars>>
  <2>1. RefundsClosed' /\ Kept' = Kept
    BY <1>4 DEF bookVars, KeptInv, RefundsClosed, Kept
  <2> QED
    BY <1>4, <2>1, SameKept DEF subVars, bookVars
<1>5. CASE /\ e \in DOMAIN invoice /\ invoice[e].status = "EXPIRED"
           /\ PutInvoice(e, [invoice[e] EXCEPT !.settled_at = IF @ = NoTime THEN s ELSE @])
           /\ RefundIntent({e})
           /\ UNCHANGED <<subVars, renew_resume>>
  <2> DEFINE row == [invoice[e] EXCEPT !.settled_at = IF @ = NoTime THEN s ELSE @]
  <2>1. PutInvoice(e, row)
    BY <1>5
  <2>2. row.status = "EXPIRED" /\ row.settled_at # NoTime
    BY <1>2, <1>5 DEF IInv, TypeOK, InvoicesOK, InvoiceRow
  <2> HIDE DEF row
  <2>3. /\ DOMAIN invoice' = DOMAIN invoice /\ invoice'[e] = row
        /\ \A x \in DOMAIN invoice \ {e} : invoice'[x] = invoice[x]
    BY <1>5, <2>1, PutShape
  <2>4. refund_attempt' = refund_attempt \cup {e}
    BY <1>5 DEF RefundIntent
  <2>5. RefundsClosed'
    BY <1>5, <2>2, <2>3, <2>4 DEF KeptInv, RefundsClosed
  <2>6. Kept' = Kept /\ \A x \in Kept : invoice'[x] = invoice[x]
    BY <1>5, <2>2, <2>3, <2>4 DEF Kept
  <2> QED
    BY <1>5, <2>5, <2>6, SameKept DEF subVars
<1>6. CASE /\ e \in DOMAIN invoice /\ invoice[e].status = "OPEN"
           /\ PutInvoice(e, PaidRow(e, s)) /\ ApplyPaid(e, s)
  <2>1. PaidRow(e, s).status = "PAID" /\ PaidRow(e, s).settled_at = s
    BY <1>6 DEF PaidRow, IInv, TypeOK, InvoicesOK, InvoiceRow
  <2>2. /\ DOMAIN invoice' = DOMAIN invoice /\ invoice'[e].status = "PAID"
        /\ invoice'[e].settled_at = s
        /\ \A x \in DOMAIN invoice \ {e} : invoice'[x] = invoice[x]
    BY <1>6, <2>1, PutShape
  <2>3. e \notin refund_attempt /\ e \notin Kept /\ \A x \in Kept : invoice'[x] = invoice[x]
    BY <1>6, <2>2 DEF KeptInv, RefundsClosed, Kept
  <2>4. CASE RefundIntent({e}) /\ UNCHANGED <<subVars, renew_resume>>
    <3>1. refund_attempt' = refund_attempt \cup {e}
      BY <2>4 DEF RefundIntent
    <3>2. RefundsClosed' /\ Kept' = Kept
      BY <1>6, <2>2, <3>1 DEF KeptInv, RefundsClosed, Kept
    <3> QED
      BY <2>3, <2>4, <3>2, SameKept DEF subVars
  <2>5. ASSUME UNCHANGED refund_attempt PROVE RefundsClosed' /\ Kept' = Kept \cup {e}
    BY <1>6, <2>2, <2>3, <2>5 DEF KeptInv, RefundsClosed, Kept
  <2>6. CASE OrderInWindow(e, s) /\ CaptureOrder
    <3>1. /\ e = Order /\ state = "PENDING" /\ state' = "PROVISIONING"
          /\ UNCHANGED <<paid_through, refund_attempt, renew_resume>>
      BY <2>6 DEF OrderInWindow, CaptureOrder
    <3>2. Kept = {} /\ paid_through = NoTime /\ renew_resume.pending = {}
      BY <3>1 DEF KeptInv, ReceiptsCounted, Unserved
    <3> QED
      BY <2>5, <3>1, <3>2 DEF KeptInv, ReceiptsCounted, Unserved
  <2>7. CASE RenewalInWindow(e, s) /\ CaptureRenewal(e, s)
    <3>1. /\ state \in {"ACTIVE", "SUSPENDED", "RESUMING"} /\ refund_attempt' = refund_attempt
          /\ paid_through' = Max2(paid_through, s) + Period
      BY <2>7 DEF RenewalInWindow, CaptureRenewal, ExtendedTo
    <3>2. paid_through \in Int /\ paid_through # NoTime /\ paid_through' # NoTime
      <4>1. paid_through # NoTime /\ paid_through \in Nat
        BY <3>1 DEF KeptInv, ReceiptsCounted, Unserved, IInv, TypeOK, SubOK, PaidThroughs
      <4> QED
        BY <1>2, <3>1, <4>1, TimersAssumption DEF Max2, NoTime
    <3>4. RefundsClosed' /\ Kept' = Kept \cup {e}
      BY <2>5, <3>1
    <3>5. Bought(invoice', Kept', paid_through')
      BY <2>2, <2>3, <1>2, <3>1, <3>2, <3>4, KeptRows, BoughtMore DEF KeptInv, ReceiptsCounted
    <3>6. Bought(invoice', Kept, paid_through)
      BY <2>3, <3>2, BoughtSame DEF KeptInv, ReceiptsCounted
    <3>7. CASE state = "ACTIVE"
      <4>1. UNCHANGED <<state, renew_resume>> /\ renew_resume.pending = {}
        BY <2>7, <3>7 DEF CaptureRenewal, KeptInv, ReceiptsCounted
      <4> QED
        BY <3>2, <3>4, <3>5, <3>7, <4>1 DEF KeptInv, ReceiptsCounted, Unserved
    <3>8. CASE state = "SUSPENDED"
      <4>1. renew_resume.pending = {}
        BY <3>8 DEF KeptInv, ReceiptsCounted
      <4>2. /\ state' = "RESUMING"
            /\ renew_resume' = [pending |-> {e}, paid_through |-> paid_through,
                                suspend_not_before |-> suspend_not_before]
        BY <2>7, <3>8, <4>1 DEF CaptureRenewal, JournalRenewResume
      <4>3. Kept' \ renew_resume'.pending = Kept /\ renew_resume'.pending \subseteq Kept'
        BY <2>3, <3>4, <4>2
      <4>4. renew_resume'.paid_through = paid_through /\ renew_resume'.pending # {}
        BY <4>2
      <4> QED
        BY <3>2, <3>4, <3>5, <3>6, <4>2, <4>3, <4>4 DEF KeptInv, ReceiptsCounted, Unserved
    <3>9. CASE state = "RESUMING"
      <4>1. /\ renew_resume.pending # {} /\ renew_resume.pending \subseteq Kept
            /\ renew_resume.paid_through # NoTime
            /\ Bought(invoice, Kept \ renew_resume.pending, renew_resume.paid_through)
        BY <3>9 DEF KeptInv, ReceiptsCounted
      <4>2. /\ state' = "RESUMING"
            /\ renew_resume' = [renew_resume EXCEPT !.pending = @ \cup {e}]
        BY <2>7, <3>9, <4>1 DEF CaptureRenewal, JournalRenewResume
      <4>3. /\ renew_resume'.pending = renew_resume.pending \cup {e}
            /\ renew_resume'.paid_through = renew_resume.paid_through
        BY <4>2 DEF IInv, TypeOK, BooksOK
      <4>4. Kept' \ renew_resume'.pending = Kept \ renew_resume.pending
        BY <2>3, <3>4, <4>3
      <4>5. Bought(invoice', Kept \ renew_resume.pending, renew_resume.paid_through)
        BY <2>3, <4>1, BoughtSame
      <4> QED
        BY <3>2, <3>4, <3>5, <4>1, <4>2, <4>3, <4>4, <4>5 DEF KeptInv, ReceiptsCounted, Unserved
    <3> QED
      BY <3>1, <3>7, <3>8, <3>9
  <2> QED
    BY <1>6, <2>4, <2>6, <2>7 DEF ApplyPaid
<1> QED
  BY <1>1, <1>3, <1>4, <1>5, <1>6 DEF CaptureTxn

(* Nothing is kept before the first settlement.                            *)
LEMMA KeptInvInit == Init => KeptInv
<1> SUFFICES ASSUME Init PROVE KeptInv
  OBVIOUS
<1>1. /\ state = "PENDING" /\ paid_through = NoTime /\ refund_attempt = {}
      /\ renew_resume.pending = {}
      /\ \A e \in DOMAIN invoice : invoice[e].status = "OPEN"
  BY DEF Init, NoResume, OpenInvoice
<1>2. Kept = {}
  BY <1>1 DEF Kept
<1> QED
  BY <1>1, <1>2 DEF KeptInv, RefundsClosed, ReceiptsCounted, Unserved

(* Every step keeps receipts and paid time together ...                    *)
LEMMA KeptInvStep == IInv /\ KeptInv /\ [Next]_vars => KeptInv'
<1> SUFFICES ASSUME IInv, KeptInv, [Next]_vars PROVE KeptInv'
  OBVIOUS
<1>1. ASSUME UNCHANGED <<invoice, refund_attempt, paid_through, renew_resume>>,
             \/ state' = state
             \/ state \notin Unserved \cup {"RESUMING"} /\ state' \notin Unserved \cup {"RESUMING"}
             \/ state \in Unserved /\ state' \in Unserved \ {"PENDING", "PROVISIONING"}
      PROVE  KeptInv'
  <2>1. RefundsClosed' /\ Kept' = Kept /\ \A e \in Kept : invoice'[e] = invoice[e]
    BY <1>1 DEF KeptInv, RefundsClosed, Kept
  <2> QED
    BY <1>1, <2>1, SameKept
<1>2. CASE UNCHANGED vars
  BY <1>1, <1>2 DEF vars
<1>3. CASE CaptureNext
  BY <1>3, KeptCapture
<1>4. CASE MaintenanceNext
  <2> USE DEF othersP, othersR, envVars, subVars, bookVars
  <2>1. CASE \/ ProvisionDrive \/ CompleteFailedCleanup \/ FinishFailedCleanup
             \/ ResumeDrive \/ CommitSent
    BY <1>1, <2>1 DEF ProvisionDrive, CompleteFailedCleanup, FinishFailedCleanup, ResumeDrive,
       CommitSent, Unserved
  <2>2. CASE ActiveWrite
    <3>1. CASE state = "PROVISIONING" /\ reservation = "HELD"
      <4>1. /\ state' = "ACTIVE" /\ paid_through' = invoice[Order].settled_at + Period
            /\ UNCHANGED <<invoice, refund_attempt, renew_resume>>
        BY <2>2, <3>1 DEF ActiveWrite
      <4>2. Kept = {Order} /\ Kept' = Kept /\ RefundsClosed' /\ renew_resume.pending = {}
        BY <3>1, <4>1 DEF KeptInv, ReceiptsCounted, RefundsClosed, Kept
      <4>3. invoice[Order].settled_at \in Nat
        BY <4>2, KeptRows
      <4>4. Bought(invoice, {Order}, paid_through') /\ paid_through' # NoTime
        <5>1. Bought(invoice, {Order}, invoice[Order].settled_at + Period)
          BY <4>3, BoughtFirst
        <5> QED
          BY <4>1, <4>3, <5>1, TimersAssumption DEF NoTime
      <4> QED
        BY <4>1, <4>2, <4>4 DEF KeptInv, ReceiptsCounted, Unserved
    <3>2. CASE ~(state = "PROVISIONING" /\ reservation = "HELD")
      BY <1>1, <2>2, <3>2 DEF ActiveWrite, LostCas
    <3> QED
      BY <3>1, <3>2
  <2>3. CASE RefundDueWrite
    <3>1. CASE state = "PROVISIONING"
      <4>1. /\ state' = "REFUND_DUE" /\ refund_attempt' = refund_attempt \cup {Order}
            /\ UNCHANGED <<invoice, paid_through, renew_resume>>
        BY <2>3, <3>1 DEF RefundDueWrite, RefundIntent
      <4>2. Order \in DOMAIN invoice /\ invoice[Order].status = "PAID"
        BY <3>1 DEF IInv, Carried
      <4>3. RefundsClosed'
        BY <4>1, <4>2 DEF KeptInv, RefundsClosed
      <4>4. renew_resume.pending = {} /\ paid_through = NoTime
        BY <3>1 DEF KeptInv, ReceiptsCounted, Unserved
      <4> QED
        BY <4>1, <4>3, <4>4 DEF KeptInv, ReceiptsCounted, Unserved
    <3>2. CASE state # "PROVISIONING"
      BY <1>1, <2>3, <3>2 DEF RefundDueWrite, LostCas
    <3> QED
      BY <3>1, <3>2
  <2>4. CASE MarkActive
    <3>1. CASE state = "RESUMING"
      <4>1. /\ state' = "ACTIVE" /\ renew_resume' = NoResume
            /\ UNCHANGED <<invoice, refund_attempt, paid_through>>
        BY <2>4, <3>1 DEF MarkActive
      <4>2. RefundsClosed' /\ Kept' = Kept /\ renew_resume'.pending = {}
        BY <4>1 DEF KeptInv, RefundsClosed, Kept, NoResume
      <4> QED
        BY <3>1, <4>1, <4>2 DEF KeptInv, ReceiptsCounted, Unserved
    <3>2. CASE state # "RESUMING"
      BY <1>1, <2>4, <3>2 DEF MarkActive
    <3> QED
      BY <3>1, <3>2
  <2>5. CASE ResumeFailureWrite
    <3>1. CASE state = "RESUMING"
      <4>1. /\ state' = "SUSPENDED" /\ paid_through' = renew_resume.paid_through
            /\ refund_attempt' = refund_attempt \cup renew_resume.pending
            /\ renew_resume' = NoResume /\ UNCHANGED invoice
        BY <2>5, <3>1 DEF ResumeFailureWrite, RefundIntent
      <4>2. /\ renew_resume.pending \subseteq Kept /\ renew_resume.paid_through # NoTime
            /\ Bought(invoice, Kept \ renew_resume.pending, renew_resume.paid_through)
        BY <3>1 DEF KeptInv, ReceiptsCounted
      <4>3. Kept' = Kept \ renew_resume.pending
        BY <4>1 DEF Kept
      <4>4. RefundsClosed'
        BY <4>1, <4>2 DEF KeptInv, RefundsClosed, Kept
      <4>5. renew_resume'.pending = {}
        BY <4>1 DEF NoResume
      <4> QED
        BY <4>1, <4>2, <4>3, <4>4, <4>5 DEF KeptInv, ReceiptsCounted, Unserved
    <3>2. CASE state # "RESUMING"
      BY <1>1, <2>5, <3>2 DEF ResumeFailureWrite
    <3> QED
      BY <3>1, <3>2
  <2> QED
    BY <1>4, <2>1, <2>2, <2>3, <2>4, <2>5 DEF MaintenanceNext
<1>5. CASE ReconcileNext
  <2> USE DEF othersC, subVars
  <2>1. CASE \/ ReconcileTick \/ SuspendHook \/ SuspendWrite \/ Repower
             \/ DestroyHook \/ DestroyRecheck \/ DestroyWrite
    BY <1>1, <2>1 DEF ReconcileTick, SuspendHook, SuspendWrite, Repower, DestroyHook,
       DestroyRecheck, DestroyWrite, StillDue, Unserved
  <2>2. CASE FirePendingExpiry
    <3>1. UNCHANGED <<paid_through, refund_attempt, renew_resume>>
      BY <2>2 DEF FirePendingExpiry
    <3>2. CASE UNCHANGED <<state, invoice>>
      BY <1>1, <3>1, <3>2
    <3>3. CASE state = "PENDING" /\ state' = "EXPIRED" /\ UNCHANGED invoice
      BY <1>1, <3>1, <3>3 DEF Unserved
    <3>4. CASE /\ state = "PENDING" /\ state' = "EXPIRED" /\ invoice[Order].status = "OPEN"
               /\ PutInvoice(Order, [invoice[Order] EXCEPT !.status = "EXPIRED"])
      <4>1. /\ Order \in DOMAIN invoice
            /\ [invoice[Order] EXCEPT !.status = "EXPIRED"].status = "EXPIRED"
        BY DEF IInv, Carried, TypeOK, InvoicesOK, InvoiceRow
      <4>2. Order \notin refund_attempt
        BY <3>4, <4>1 DEF KeptInv, RefundsClosed
      <4>3. RefundsClosed' /\ Kept' = Kept /\ \A e \in Kept : invoice'[e] = invoice[e]
        BY <3>1, <3>4, <4>1, <4>2, PutShape, QuietInvoices
      <4> QED
        BY <3>1, <3>4, <4>3, SameKept DEF Unserved
    <3> QED
      BY <2>2, <3>2, <3>3, <3>4 DEF FirePendingExpiry, StillDue
  <2>3. CASE FireSoftReminder
    <3>1. UNCHANGED <<state, paid_through, refund_attempt, renew_resume>>
      BY <2>3 DEF FireSoftReminder
    <3>2. CASE UNCHANGED invoice
      BY <1>1, <3>1, <3>2
    <3>3. ASSUME NEW exp, UpsertRenewalInvoice(AutoRenewal(rec.pt), exp) PROVE KeptInv'
      <4>1. AutoRenewal(rec.pt) \in Renewals
        BY <2>3 DEF FireSoftReminder, RecAt, IInv, Carried, AutoRenewal, Renewals
      <4> QED
        BY <3>1, <3>3, <4>1, UpsertQuiet, SameKept
    <3> QED
      BY <2>3, <3>2, <3>3 DEF FireSoftReminder, SoftReminderWrite
  <2>4. CASE FinishTick
    <3>1. UNCHANGED <<state, paid_through, refund_attempt, renew_resume>>
      BY <2>4 DEF FinishTick
    <3>2. PICK E \in SUBSET Lapsed :
            invoice' = [e \in DOMAIN invoice |->
                          IF e \in E THEN [invoice[e] EXCEPT !.status = "EXPIRED"]
                          ELSE invoice[e]]
      BY <2>4 DEF FinishTick, ExpireOpenRenewals
    <3>3. \A e \in E : /\ e \in DOMAIN invoice /\ invoice[e].status = "OPEN"
                       /\ [invoice[e] EXCEPT !.status = "EXPIRED"].status = "EXPIRED"
      BY DEF Lapsed, OpenRenewals, IInv, TypeOK, InvoicesOK, InvoiceRow
    <3>4. \A e \in E : e \notin refund_attempt
      BY <3>3 DEF KeptInv, RefundsClosed
    <3>5. RefundsClosed' /\ Kept' = Kept /\ \A e \in Kept : invoice'[e] = invoice[e]
      BY <3>1, <3>2, <3>3, <3>4, QuietInvoices
    <3> QED
      BY <3>1, <3>5, SameKept
  <2> QED
    BY <1>5, <2>1, <2>2, <2>3, <2>4 DEF ReconcileNext
<1>6. CASE IntakeNext \/ AdminNext
  <2> USE DEF othersI, envVars, subVars, bookVars
  <2>1. ASSUME NEW r \in Requests, HandleRenew(r) PROVE KeptInv'
    BY <1>1, <2>1 DEF HandleRenew
  <2>2. ASSUME NEW r \in Requests, IssueRenewal(r) PROVE KeptInv'
    <3>1. UNCHANGED <<state, paid_through, refund_attempt, renew_resume>>
      BY <2>2 DEF IssueRenewal
    <3>2. CASE UNCHANGED invoice
      BY <1>1, <3>1, <3>2
    <3>3. CASE UpsertRenewalInvoice(Req(r), now + ren.expiry)
      <4>1. Req(r) \in Renewals
        BY DEF Req, Renewals
      <4> QED
        BY <3>1, <3>3, <4>1, UpsertQuiet, SameKept
    <3> QED
      BY <2>2, <3>2, <3>3 DEF IssueRenewal, RenewalWrite
  <2>3. CASE CancelWrite \/ AdminSuspend \/ AdminResume
    BY <1>1, <2>3 DEF CancelWrite, AdminSuspend, AdminResume, Unserved
  <2> QED
    BY <1>6, <2>1, <2>2, <2>3 DEF IntakeNext, AdminNext
<1>7. CASE \/ Tick \/ Crash \/ Restart \/ BootDrivesDone
           \/ \E e \in DOMAIN invoice \cup Strays : Pay(e)
  BY <1>1, <1>7 DEF Tick, Crash, Restart, ApplyRestartDowntimeCredit, BootDrivesDone, Pay,
     subVars, bookVars
<1> QED
  BY <1>2, <1>3, <1>4, <1>5, <1>6, <1>7 DEF Next

(* ... so they always agree.                                               *)
LEMMA KeptInvAlways == Spec => []KeptInv
BY KeptInvInit, KeptInvStep, IInvAlways, PTL DEF Spec

(* Every receipt that is not refunded bought a period, and only those did: *)
(* paid_through lies between the order's settlement plus a period for each *)
(* kept receipt and the last settlement plus the same (capture.rs's        *)
(* max(paid_through, settled_at) + period, resume.rs's roll-back).         *)
THEOREM ReceiptsAlwaysBuyTime == Spec => []KeptReceiptsBuyTime
<1>1. ASSUME IInv, KeptInv PROVE KeptReceiptsBuyTime
  <2> SUFFICES ASSUME paid_through # NoTime PROVE KeptReceiptsBuyTime
    BY DEF KeptReceiptsBuyTime
  <2>1. Bought(invoice, Kept, paid_through)
    BY <1>1 DEF KeptInv, ReceiptsCounted
  <2> DEFINE q == Period * Cardinality(Kept)
             S == {invoice[e].settled_at : e \in Kept}
  <2>2. /\ Order \in Kept /\ paid_through >= invoice[Order].settled_at + q
        /\ q \in Nat
    BY <2>1, FS_CardinalityType, TimersAssumption DEF Bought
  <2>3. PICK m \in Kept : /\ \A e \in Kept : invoice[e].settled_at <= invoice[m].settled_at
                          /\ paid_through <= invoice[m].settled_at + q
    BY <2>1 DEF Bought
  <2>4. LastSettled \in S /\ \A e \in Kept : invoice[e].settled_at <= LastSettled
    BY <2>3 DEF LastSettled
  <2>5. LastSettled \in Nat /\ invoice[m].settled_at \in Nat /\ paid_through \in Int
    BY <1>1, <2>4, KeptRows DEF IInv, TypeOK, SubOK, PaidThroughs, NoTime
  <2> HIDE DEF q
  <2>6. paid_through <= LastSettled + q
    BY <2>2, <2>3, <2>4, <2>5
  <2> QED
    BY <2>2, <2>6 DEF KeptReceiptsBuyTime, q
<1> QED
  BY <1>1, IInvAlways, KeptInvAlways, PTL

-----------------------------------------------------------------------------
Suspending == {"suspend_hook", "suspend_write"}
Lapsing == {"remind"} \cup Suspending
Eff == EffectiveSuspendAt(paid_through, suspend_not_before)

(* The loops work on the rows they read: only the reconcile loop takes an  *)
(* ACTIVE row elsewhere, save for a cancel, and only the resume driver a   *)
(* RESUMING one.                                                           *)
LoopsFollow ==
    /\ daemon \in {"down", "boot"} => rec.pc = "idle"
    /\ rec.t <= now
    /\ rec.pc \in Lapsing => state \in {"ACTIVE", "CANCELLED"}
    /\ mnt \in {"mark_active", "resume_failure"} => state = "RESUMING"

(* The cursor of a row never runs ahead of what the row has paid for.      *)
CursorRight ==
    /\ state \in {"ACTIVE", "RESUMING"} =>
          SoftDate(paid_through) <= next_deadline /\ next_deadline <= Eff
    /\ state = "SUSPENDED" => next_deadline = Eff + Retention
    /\ state = "CANCELLED" => next_deadline >= paid_through

(* What the tick read is what the row still holds, or a payment has moved  *)
(* the cursor past what the tick read, for good.                           *)
SnapshotFresh ==
    /\ rec.pc = "remind" => rec.nd < rec.pt
    /\ rec.pc \in Suspending => rec.nd <= rec.eff /\ rec.eff <= rec.t
    /\ rec.pc \in Destroying => rec.nd <= rec.t
    /\ rec.pc \in Lapsing /\ state = "ACTIVE" =>
          \/ paid_through = rec.pt /\ Eff = rec.eff /\ next_deadline = rec.nd
          \/ SoftDate(paid_through) > rec.nd

(* Payments are made when an invoice is there and has not expired.         *)
PaymentsDated ==
    /\ \A e \in DOMAIN paid : paid[e] <= now
    /\ \A e \in DOMAIN invoice \cap DOMAIN paid : paid[e] <= invoice[e].expires_at
    /\ DOMAIN paid \subseteq DOMAIN invoice \cup Strays
    /\ \A r \in ren.req : Req(r) \notin DOMAIN invoice

(* Past the check, an OPEN renewal that is paid was paid after the read.   *)
PaidSinceRead ==
    rec.pc \in Suspending \cup Destroying =>
        \A e \in OpenRenewals \cap DOMAIN paid : paid[e] >= rec.t

LapseInv == LoopsFollow /\ CursorRight /\ SnapshotFresh /\ PaymentsDated /\ PaidSinceRead

(* The integers the argument is about.                                     *)
LEMMA LapseTypes ==
    ASSUME IInv, KeptInv
    PROVE  /\ now \in Nat /\ last_heartbeat \in Nat /\ suspend_not_before \in Int
           /\ next_deadline \in Int /\ paid_through \in Int
           /\ rec.t \in Nat /\ rec.nd \in Int /\ rec.eff \in Int /\ rec.pt \in Int
           /\ state \in Serving => paid_through \in Nat
           /\ \A e \in DOMAIN paid : paid[e] \in Nat
           /\ \A e \in DOMAIN invoice : invoice[e].expires_at \in Nat
           /\ Lead \in Nat /\ Period \in Nat /\ Retention \in Nat
<1>1. /\ now \in Nat /\ last_heartbeat \in Nat /\ suspend_not_before \in Int
      /\ next_deadline \in Int /\ paid_through \in Int
  BY DEF IInv, TypeOK, ClocksOK, SubOK, Clock, PaidThroughs, Time, NoTime
<1>2. rec.t \in Nat /\ rec.nd \in Int /\ rec.eff \in Int /\ rec.pt \in Int
  BY DEF IInv, TypeOK, LoopsOK, Time, NoTime
<1>3. state \in Serving => paid_through \in Nat
  BY DEF KeptInv, ReceiptsCounted, Unserved, Serving, IInv, TypeOK, SubOK, PaidThroughs
<1>4. /\ \A e \in DOMAIN paid : paid[e] \in Nat
      /\ \A e \in DOMAIN invoice : invoice[e].expires_at \in Nat
  BY DEF IInv, TypeOK, ClocksOK, InvoicesOK, InvoiceRow, Clock
<1>5. Lead \in Nat /\ Period \in Nat /\ Retention \in Nat
  BY TimersAssumption
<1> QED
  BY <1>1, <1>2, <1>3, <1>4, <1>5

(* What one settlement does to the cursor and to the invoices.             *)
LEMMA CaptureEffects ==
    ASSUME IInv, CaptureNext
    PROVE  \E e \in DOMAIN invoice \cup Strays, s \in Clock :
      /\ e \in DOMAIN paid /\ s \in {paid[e], RecoveredSettledAt(e)}
      /\ DOMAIN invoice' = DOMAIN invoice
      /\ \A x \in DOMAIN invoice : invoice'[x].expires_at = invoice[x].expires_at
      /\ \A x \in DOMAIN invoice : invoice'[x].status = "OPEN" => invoice[x].status = "OPEN"
      /\ \/ UNCHANGED subVars
         \/ state = "PENDING" /\ state' = "PROVISIONING"
         \/ /\ e \in OpenRenewals /\ state \in {"ACTIVE", "SUSPENDED", "RESUMING"}
            /\ state' = IF state = "ACTIVE" THEN "ACTIVE" ELSE "RESUMING"
            /\ paid_through' = Max2(paid_through, s) + Period
            /\ next_deadline' = SoftDate(paid_through') /\ suspend_not_before' = NoTime
<1>1. PICK e \in DOMAIN invoice \cup Strays, s \in Clock :
        CaptureTxn(e, s) /\ e \in DOMAIN paid /\ s \in {paid[e], RecoveredSettledAt(e)}
  BY SettlementTimes
<1> DEFINE Same == /\ DOMAIN invoice' = DOMAIN invoice
                   /\ \A x \in DOMAIN invoice : invoice'[x].expires_at = invoice[x].expires_at
                   /\ \A x \in DOMAIN invoice :
                         invoice'[x].status = "OPEN" => invoice[x].status = "OPEN"
<1>2. CASE UNCHANGED <<subVars, invoice>>
  <2>1. Same /\ UNCHANGED subVars
    BY <1>2
  <2> HIDE DEF Same
  <2> QED
    BY <1>1, <2>1 DEF Same
<1>3. ASSUME e \in DOMAIN invoice, NEW row, PutInvoice(e, row),
             row.expires_at = invoice[e].expires_at, row.status # "OPEN"
      PROVE  Same
  <2>1. /\ DOMAIN invoice' = DOMAIN invoice \cup {e} /\ invoice'[e] = row
        /\ \A x \in DOMAIN invoice \ {e} : invoice'[x] = invoice[x]
    BY <1>3, PutShape
  <2>2. ASSUME NEW x \in DOMAIN invoice
        PROVE  /\ invoice'[x].expires_at = invoice[x].expires_at
               /\ invoice'[x].status = "OPEN" => invoice[x].status = "OPEN"
    BY <1>3, <2>1
  <2> QED
    BY <1>3, <2>1, <2>2
<1>4. CASE /\ e \in DOMAIN invoice /\ invoice[e].status = "EXPIRED"
           /\ PutInvoice(e, [invoice[e] EXCEPT !.settled_at = IF @ = NoTime THEN s ELSE @])
           /\ RefundIntent({e})
           /\ UNCHANGED <<subVars, renew_resume>>
  <2> DEFINE row == [invoice[e] EXCEPT !.settled_at = IF @ = NoTime THEN s ELSE @]
  <2>1. row.status = "EXPIRED" /\ row.expires_at = invoice[e].expires_at /\ PutInvoice(e, row)
    BY <1>4 DEF IInv, TypeOK, InvoicesOK, InvoiceRow
  <2> HIDE DEF row
  <2>2. Same
    BY <1>3, <1>4, <2>1
  <2> QED
    BY <1>1, <1>4, <2>2
<1>5. CASE /\ e \in DOMAIN invoice /\ invoice[e].status = "OPEN"
           /\ PutInvoice(e, PaidRow(e, s)) /\ ApplyPaid(e, s)
  <2>1. PaidRow(e, s).status = "PAID" /\ PaidRow(e, s).expires_at = invoice[e].expires_at
    BY <1>5 DEF PaidRow, IInv, TypeOK, InvoicesOK, InvoiceRow
  <2>2. Same
    BY <1>3, <1>5, <2>1
  <2>3. CASE UNCHANGED subVars
    BY <1>1, <2>2, <2>3
  <2>4. CASE OrderInWindow(e, s) /\ CaptureOrder
    BY <1>1, <2>2, <2>4 DEF OrderInWindow, CaptureOrder
  <2>5. CASE RenewalInWindow(e, s) /\ CaptureRenewal(e, s)
    <3>1. /\ e \in OpenRenewals /\ state \in {"ACTIVE", "SUSPENDED", "RESUMING"}
          /\ state' = IF state = "ACTIVE" THEN "ACTIVE" ELSE "RESUMING"
          /\ paid_through' = Max2(paid_through, s) + Period
          /\ next_deadline' = SoftDate(paid_through') /\ suspend_not_before' = NoTime
      BY <1>5, <2>5 DEF RenewalInWindow, CaptureRenewal, ExtendedTo, OpenRenewals
    <3> QED
      BY <1>1, <2>2, <3>1
  <2> QED
    BY <1>5, <2>3, <2>4, <2>5 DEF ApplyPaid
<1> QED
  BY <1>1, <1>2, <1>4, <1>5 DEF CaptureTxn, bookVars

(* A settlement moves the cursor past everything a tick under way has      *)
(* read: this is where the period must exceed the lead.                    *)
LEMMA LapseCapture ==
    ASSUME IInv, KeptInv, LapseInv, Lead + 2 <= Period, CaptureNext
    PROVE  LapseInv'
<1> USE DEF Lapsing, Suspending
<1>1. PICK e \in DOMAIN invoice \cup Strays, s \in Clock :
      /\ e \in DOMAIN paid /\ s \in {paid[e], RecoveredSettledAt(e)}
      /\ DOMAIN invoice' = DOMAIN invoice
      /\ \A x \in DOMAIN invoice : invoice'[x].expires_at = invoice[x].expires_at
      /\ \A x \in DOMAIN invoice : invoice'[x].status = "OPEN" => invoice[x].status = "OPEN"
      /\ \/ UNCHANGED subVars
         \/ state = "PENDING" /\ state' = "PROVISIONING"
         \/ /\ e \in OpenRenewals /\ state \in {"ACTIVE", "SUSPENDED", "RESUMING"}
            /\ state' = IF state = "ACTIVE" THEN "ACTIVE" ELSE "RESUMING"
            /\ paid_through' = Max2(paid_through, s) + Period
            /\ next_deadline' = SoftDate(paid_through') /\ suspend_not_before' = NoTime
  BY CaptureEffects
<1>2. UNCHANGED <<now, daemon, paid, mnt, rec, ren>>
  BY DEF CaptureNext, DeliverSettlement, SettlementCatchUp, envVars
<1>3. PaymentsDated'
  BY <1>1, <1>2 DEF LapseInv, PaymentsDated
<1>4. PaidSinceRead'
  BY <1>1, <1>2 DEF LapseInv, PaidSinceRead, OpenRenewals
<1>5. LoopsFollow'
  BY <1>1, <1>2 DEF LapseInv, LoopsFollow, subVars
<1>6. CASE UNCHANGED subVars
  BY <1>2, <1>3, <1>4, <1>5, <1>6 DEF LapseInv, CursorRight, SnapshotFresh, subVars, Eff
<1>7. CASE state = "PENDING" /\ state' = "PROVISIONING"
  <2>1. CursorRight' /\ SnapshotFresh'
    BY <1>2, <1>7 DEF LapseInv, CursorRight, SnapshotFresh, LoopsFollow
  <2> QED
    BY <1>3, <1>4, <1>5, <2>1 DEF LapseInv
<1>8. CASE /\ e \in OpenRenewals /\ state \in {"ACTIVE", "SUSPENDED", "RESUMING"}
           /\ state' = IF state = "ACTIVE" THEN "ACTIVE" ELSE "RESUMING"
           /\ paid_through' = Max2(paid_through, s) + Period
           /\ next_deadline' = SoftDate(paid_through') /\ suspend_not_before' = NoTime
  <2>1. /\ now \in Nat /\ suspend_not_before \in Int /\ next_deadline \in Int
        /\ rec.t \in Nat /\ rec.nd \in Int /\ rec.eff \in Int /\ rec.pt \in Int
        /\ paid_through \in Nat /\ s \in Nat /\ paid[e] \in Nat
        /\ invoice[e].expires_at \in Nat /\ Lead \in Nat /\ Period \in Nat /\ Retention \in Nat
    BY <1>1, <1>8, LapseTypes DEF Serving, OpenRenewals, Clock
  <2>2. /\ paid_through' >= paid_through + Period /\ paid_through' >= s + Period
        /\ paid_through' \in Nat
    BY <1>8, <2>1 DEF Max2
  <2>3. CursorRight'
    BY <1>8, <2>1, <2>2 DEF CursorRight, Eff, EffectiveSuspendAt, SoftDate, Max2, NoTime
  <2>4. CASE rec.pc = "remind" /\ state = "ACTIVE"
    <3>1. SoftDate(paid_through') > rec.nd
      BY <2>1, <2>2, <2>4 DEF LapseInv, SnapshotFresh, SoftDate
    <3> QED
      BY <1>2, <1>3, <1>4, <1>5, <2>3, <2>4, <3>1 DEF LapseInv, SnapshotFresh
  <2>5. CASE rec.pc \in Suspending /\ state = "ACTIVE"
    <3>1. CASE SoftDate(paid_through) > rec.nd
      <4>1. SoftDate(paid_through') > rec.nd
        BY <2>1, <2>2, <3>1 DEF SoftDate
      <4> QED
        BY <1>2, <1>3, <1>4, <1>5, <2>3, <2>5, <4>1 DEF LapseInv, SnapshotFresh
    <3>2. CASE Eff = rec.eff
      <4>1. rec.nd <= rec.eff /\ rec.eff <= rec.t /\ rec.t <= now
        BY <2>5 DEF LapseInv, SnapshotFresh, LoopsFollow
      <4>2. paid[e] >= rec.t /\ invoice[e].expires_at >= paid[e]
        BY <1>1, <1>8, <2>5 DEF LapseInv, PaidSinceRead, PaymentsDated, OpenRenewals
      <4>3. s + 1 >= rec.eff
        <5>1. CASE s = paid[e]
          BY <2>1, <4>1, <4>2, <5>1
        <5>2. CASE s = RecoveredSettledAt(e)
          BY <2>1, <3>2, <4>1, <4>2, <5>2 DEF RecoveredSettledAt, Min2, ResumableUntil, Eff
        <5> QED
          BY <1>1, <5>1, <5>2
      <4>4. SoftDate(paid_through') > rec.nd
        BY <2>1, <2>2, <4>1, <4>3 DEF SoftDate
      <4> QED
        BY <1>2, <1>3, <1>4, <1>5, <2>3, <2>5, <4>4 DEF LapseInv, SnapshotFresh
    <3> QED
      BY <2>5, <3>1, <3>2 DEF LapseInv, SnapshotFresh
  <2>6. CASE ~(rec.pc \in Lapsing /\ state = "ACTIVE")
    <3>1. rec.pc \notin Lapsing
      BY <1>8, <2>6 DEF LapseInv, LoopsFollow
    <3>2. SnapshotFresh'
      BY <1>2, <3>1 DEF LapseInv, SnapshotFresh
    <3> QED
      BY <1>3, <1>4, <1>5, <2>3, <3>2 DEF LapseInv
  <2> QED
    BY <2>4, <2>5, <2>6
<1> QED
  BY <1>1, <1>6, <1>7, <1>8

(* What a step leaves alone.                                               *)
LEMMA LapseFrame ==
    ASSUME LapseInv
    PROVE  /\ UNCHANGED <<now, daemon, rec, mnt, state>> => LoopsFollow'
           /\ UNCHANGED <<subVars>> => CursorRight'
           /\ UNCHANGED <<subVars, rec>> => SnapshotFresh'
           /\ UNCHANGED <<now, paid, invoice, ren>> => PaymentsDated'
           /\ UNCHANGED <<paid, invoice, rec>> => PaidSinceRead'
BY DEF LapseInv, LoopsFollow, CursorRight, SnapshotFresh, PaymentsDated, PaidSinceRead, subVars,
       Eff, OpenRenewals

(* The drivers of the maintenance loop.                                    *)
LEMMA LapseMaintenance ==
    ASSUME IInv, KeptInv, BoxInv, LapseInv, MaintenanceNext, UNCHANGED history
    PROVE  LapseInv'
<1> USE DEF othersP, othersR, envVars, subVars, bookVars
<1>1. /\ now \in Nat /\ suspend_not_before \in Int /\ next_deadline \in Int /\ paid_through \in Int
      /\ (state \in Serving => paid_through \in Nat)
      /\ Lead \in Nat /\ Period \in Nat /\ Retention \in Nat
  BY LapseTypes
<1>2. /\ UNCHANGED <<now, daemon, paid, rec, ren, invoice>>
  BY DEF MaintenanceNext, ProvisionDrive, ActiveWrite, LostCas, RefundDueWrite,
     CompleteFailedCleanup, FinishFailedCleanup, ResumeDrive, MarkActive, ResumeFailureWrite,
     CommitSent
<1>3. PaymentsDated' /\ PaidSinceRead'
  BY <1>2, LapseFrame
<1>4. CASE ProvisionDrive \/ CompleteFailedCleanup \/ FinishFailedCleanup \/ ResumeDrive
  <2>1. UNCHANGED subVars
    BY <1>4 DEF ProvisionDrive, CompleteFailedCleanup, FinishFailedCleanup, ResumeDrive
  <2>2. LoopsFollow'
    BY <1>2, <1>4, <2>1 DEF ProvisionDrive, CompleteFailedCleanup, FinishFailedCleanup, ResumeDrive,
       MntFree, LapseInv, LoopsFollow
  <2> QED
    BY <1>2, <1>3, <2>1, <2>2, LapseFrame DEF LapseInv
<1>5. CASE ActiveWrite
  <2>1. state = "PROVISIONING" /\ reservation = "HELD"
    <3>1. mnt = "active_write"
      BY <1>5 DEF ActiveWrite
    <3>2. state = "PROVISIONING"
      BY <3>1 DEF BoxInv
    <3> QED
      BY <3>2 DEF IInv, HoldFollowsState, Holding, Serving
  <2>2. /\ state' = "ACTIVE" /\ paid_through' = invoice[Order].settled_at + Period
        /\ next_deadline' = SoftDate(paid_through') /\ mnt' = "idle"
        /\ suspend_not_before' = suspend_not_before
    BY <1>5, <2>1 DEF ActiveWrite
  <2>3. paid_through' \in Nat
    BY <2>1, <2>2, TimersAssumption DEF IInv, Carried, TypeOK, InvoicesOK, InvoiceRow, Clock
  <2>4. CursorRight'
    BY <1>1, <2>2, <2>3 DEF CursorRight, Eff, EffectiveSuspendAt, SoftDate, Max2
  <2>5. rec.pc \notin Lapsing
    BY <2>1 DEF LapseInv, LoopsFollow
  <2>6. LoopsFollow' /\ SnapshotFresh'
    BY <1>2, <2>2, <2>5 DEF LapseInv, LoopsFollow, SnapshotFresh, Lapsing, Suspending
  <2> QED
    BY <1>3, <2>4, <2>6 DEF LapseInv
<1>6. CASE RefundDueWrite \/ CommitSent
  <2>1. /\ state \in {"PROVISIONING", "REFUND_DUE"} /\ state' \in {"REFUND_DUE", "REFUNDED"}
        /\ mnt' = "idle"
    BY <1>6 DEF RefundDueWrite, CommitSent, BoxInv, MntFree
  <2>2. rec.pc \notin Lapsing
    BY <2>1 DEF LapseInv, LoopsFollow
  <2>3. LoopsFollow' /\ SnapshotFresh' /\ CursorRight'
    BY <1>2, <2>1, <2>2 DEF LapseInv, LoopsFollow, SnapshotFresh, CursorRight, Lapsing, Suspending
  <2> QED
    BY <1>3, <2>3 DEF LapseInv
<1>7. CASE MarkActive \/ ResumeFailureWrite
  <2>1. state = "RESUMING" /\ mnt' = "idle"
    BY <1>7 DEF MarkActive, ResumeFailureWrite, LapseInv, LoopsFollow
  <2>2. rec.pc \notin Lapsing
    BY <2>1 DEF LapseInv, LoopsFollow
  <2>3. state' \in {"ACTIVE", "SUSPENDED"}
    BY <1>7, <2>1 DEF MarkActive, ResumeFailureWrite
  <2>4. LoopsFollow' /\ SnapshotFresh'
    BY <1>2, <2>1, <2>2, <2>3 DEF LapseInv, LoopsFollow, SnapshotFresh, Lapsing, Suspending
  <2>5. CASE MarkActive
    <3>1. state' = "ACTIVE" /\ UNCHANGED <<paid_through, suspend_not_before, next_deadline>>
      BY <2>1, <2>5 DEF MarkActive
    <3>2. CursorRight'
      BY <2>1, <3>1 DEF LapseInv, CursorRight, Eff
    <3> QED
      BY <1>3, <2>4, <3>2 DEF LapseInv
  <2>6. CASE ResumeFailureWrite
    <3>1. /\ state' = "SUSPENDED"
          /\ next_deadline' = ResumableUntil(paid_through', suspend_not_before')
          /\ paid_through' = renew_resume.paid_through
          /\ suspend_not_before' = renew_resume.suspend_not_before
      BY <2>1, <2>6 DEF ResumeFailureWrite
    <3>2. paid_through' \in Int /\ suspend_not_before' \in Int
      BY <3>1 DEF IInv, TypeOK, BooksOK, PaidThroughs, Time, NoTime
    <3>3. CursorRight'
      BY <1>1, <3>1, <3>2 DEF CursorRight, Eff, ResumableUntil, EffectiveSuspendAt, Max2
    <3> QED
      BY <1>3, <2>4, <3>3 DEF LapseInv
  <2> QED
    BY <1>7, <2>5, <2>6
<1> QED
  BY <1>4, <1>5, <1>6, <1>7 DEF MaintenanceNext

(* Issuing an invoice makes no old payment look new: the row is not paid   *)
(* yet, or no check relies on it.                                          *)
LEMMA LapseUpsert ==
    ASSUME IInv, KeptInv, LapseInv, NEW e \in Renewals, NEW exp \in Nat, exp >= now,
           UpsertRenewalInvoice(e, exp), UNCHANGED <<now, paid>>, NEW r2, ren' = r2,
           r2.req \subseteq ren.req, \A r \in r2.req : Req(r) # e
    PROVE  /\ PaymentsDated'
           /\ e \notin DOMAIN paid /\ UNCHANGED rec => PaidSinceRead'
<1>1. CASE UNCHANGED invoice
  BY <1>1 DEF LapseInv, PaymentsDated, PaidSinceRead, OpenRenewals
<1>2. CASE PutInvoice(e, OpenInvoice(exp))
  <2>1. /\ DOMAIN invoice' = DOMAIN invoice \cup {e} /\ invoice'[e].expires_at = exp
        /\ \A x \in DOMAIN invoice \ {e} : invoice'[x] = invoice[x]
    BY <1>2, PutShape DEF OpenInvoice
  <2>2. \A x \in DOMAIN paid : paid[x] \in Nat /\ now \in Nat
    BY LapseTypes
  <2>3. PaymentsDated'
    BY <2>1, <2>2 DEF LapseInv, PaymentsDated
  <2>4. e \notin DOMAIN paid /\ UNCHANGED rec => PaidSinceRead'
    BY <2>1 DEF LapseInv, PaidSinceRead, OpenRenewals
  <2> QED
    BY <2>3, <2>4
<1> QED
  BY <1>1, <1>2 DEF UpsertRenewalInvoice

(* One tick of the reconcile loop, step by step.                           *)
LEMMA LapseReconcile ==
    ASSUME IInv, KeptInv, BoxInv, LapseInv, ReconcileNext
    PROVE  LapseInv'
<1> USE DEF othersC, Lapsing, Suspending, Destroying
<1>1. /\ now \in Nat /\ suspend_not_before \in Int /\ next_deadline \in Int /\ paid_through \in Int
      /\ rec.t \in Nat /\ rec.nd \in Int /\ rec.eff \in Int /\ rec.pt \in Int
      /\ (state \in Serving => paid_through \in Nat)
      /\ Lead \in Nat /\ Period \in Nat /\ Retention \in Nat /\ LoopsOK
  BY LapseTypes DEF IInv, TypeOK
<1>2. ASSUME NEW pc \in {"finish", "repower", "suspend_write", "destroy_write",
                          "destroy_recheck"},
             rec'.pc = pc, rec'.t = rec.t, rec'.nd = rec.nd, rec'.eff = rec.eff, rec'.pt = rec.pt,
             rec.pc # "idle",
             pc = "suspend_write" => rec.pc = "suspend_hook",
             pc = "destroy_write" => rec.pc = "destroy_recheck",
             pc = "destroy_recheck" => rec.pc = "destroy_hook",
             UNCHANGED <<subVars, now, daemon, paid, mnt, ren, invoice>>
      PROVE  LapseInv'
  <2>1. CursorRight' /\ PaymentsDated'
    BY <1>2, LapseFrame
  <2>2. LoopsFollow'
    BY <1>2 DEF LapseInv, LoopsFollow, subVars
  <2>3. SnapshotFresh'
    BY <1>2 DEF LapseInv, SnapshotFresh, subVars, Eff
  <2>4. PaidSinceRead'
    BY <1>2 DEF LapseInv, PaidSinceRead, OpenRenewals
  <2> QED
    BY <2>1, <2>2, <2>3, <2>4 DEF LapseInv
<1>3. ASSUME NEW pc, RecGo(pc)
      PROVE  /\ rec'.pc = pc /\ rec'.t = rec.t /\ rec'.nd = rec.nd /\ rec'.pt = rec.pt
             /\ rec'.eff = rec.eff
  BY <1>1, <1>3, RecFields
<1>4. CASE ReconcileTick
  <2>1. PICK pc \in {"finish", "order_expiry", "remind", "suspend_hook", "destroy_hook"} :
          /\ Dispatch(pc)
          /\ rec' = [pc |-> pc, t |-> now, nd |-> next_deadline, pt |-> paid_through,
                     eff |-> Eff, failed |-> FALSE]
    BY <1>4 DEF ReconcileTick, Eff
  <2>2. /\ rec'.pc = pc /\ rec'.t = now /\ rec'.nd = next_deadline /\ rec'.pt = paid_through
        /\ rec'.eff = Eff
    BY <2>1
  <2>3. /\ daemon \in {"up", "boot_tick"}
        /\ UNCHANGED <<subVars, now, daemon, paid, mnt, ren, invoice>>
    BY <1>4 DEF ReconcileTick
  <2>4. CursorRight' /\ PaymentsDated'
    BY <2>3, LapseFrame
  <2>5. /\ pc = "remind" => state = "ACTIVE" /\ next_deadline < paid_through
        /\ pc = "suspend_hook" => state = "ACTIVE" /\ now >= Eff /\ MayBeClear
        /\ pc = "destroy_hook" => MayBeClear /\ next_deadline <= now
    <3>1. CASE ~IsDue(now) \/ state \notin {"ACTIVE", "SUSPENDED", "CANCELLED"}
      <4>1. pc \in {"finish", "order_expiry"}
        BY <2>1, <3>1 DEF Dispatch
      <4> QED
        BY <4>1
    <3>2. CASE IsDue(now) /\ state = "ACTIVE" /\ next_deadline < paid_through
      <4>1. pc = "remind"
        BY <1>1, <2>1, <3>2 DEF Dispatch
      <4> QED
        BY <3>2, <4>1
    <3>3. CASE IsDue(now) /\ state = "ACTIVE" /\ next_deadline >= paid_through
      BY <1>1, <2>1, <3>3 DEF Dispatch, Eff
    <3>4. CASE IsDue(now) /\ state \in {"SUSPENDED", "CANCELLED"}
      BY <2>1, <3>4 DEF Dispatch, IsDue
    <3> QED
      BY <1>1, <3>1, <3>2, <3>3, <3>4
  <2>6. LoopsFollow'
    BY <1>1, <2>2, <2>3, <2>5 DEF LapseInv, LoopsFollow, subVars
  <2>7. Eff' = Eff
    BY <2>3 DEF Eff, subVars
  <2>8. SnapshotFresh'
    BY <2>1, <2>2, <2>3, <2>5, <2>7 DEF LapseInv, SnapshotFresh, CursorRight, subVars
  <2>9. PaidSinceRead'
    BY <2>1, <2>2, <2>3, <2>5 DEF PaidSinceRead, OpenRenewals, MayBeClear
  <2> QED
    BY <2>4, <2>6, <2>8, <2>9 DEF LapseInv
<1>5. CASE FirePendingExpiry
  <2>1. rec.pc = "order_expiry" /\ rec'.pc = "finish" /\ rec'.t = rec.t
    BY <1>3, <1>5 DEF FirePendingExpiry, RecAt
  <2>2. /\ UNCHANGED <<now, daemon, paid, mnt, ren, paid_through, suspend_not_before>>
        /\ \/ UNCHANGED <<state, next_deadline>>
           \/ state' = "EXPIRED" /\ state = "PENDING"
    BY <1>5 DEF FirePendingExpiry, StillDue
  <2>3. \/ UNCHANGED invoice
        \/ PutInvoice(Order, [invoice[Order] EXCEPT !.status = "EXPIRED"])
    BY <1>5 DEF FirePendingExpiry
  <2>4. PaymentsDated'
    <3>1. CASE UNCHANGED invoice
      BY <2>2, <3>1, LapseFrame
    <3>2. CASE PutInvoice(Order, [invoice[Order] EXCEPT !.status = "EXPIRED"])
      <4>1. Order \in DOMAIN invoice
        BY DEF IInv, Carried
      <4>2. [invoice[Order] EXCEPT !.status = "EXPIRED"].expires_at = invoice[Order].expires_at
        BY <4>1 DEF IInv, TypeOK, InvoicesOK, InvoiceRow
      <4>3. /\ DOMAIN invoice' = DOMAIN invoice
            /\ \A x \in DOMAIN invoice : invoice'[x].expires_at = invoice[x].expires_at
        BY <3>2, <4>1, <4>2, PutShape
      <4> QED
        BY <2>2, <4>3 DEF LapseInv, PaymentsDated
    <3> QED
      BY <2>3, <3>1, <3>2
  <2>5. LoopsFollow' /\ SnapshotFresh' /\ PaidSinceRead'
    BY <2>1, <2>2 DEF LapseInv, LoopsFollow, SnapshotFresh, PaidSinceRead
  <2>6. CursorRight'
    BY <2>2 DEF LapseInv, CursorRight, Eff
  <2> QED
    BY <2>4, <2>5, <2>6 DEF LapseInv
<1>6. CASE FireSoftReminder
  <2>1. rec.pc = "remind" /\ rec'.pc = "finish" /\ rec'.t = rec.t
    BY <1>3, <1>6 DEF FireSoftReminder, RecAt
  <2>2. UNCHANGED <<now, daemon, paid, mnt, ren, state, paid_through, suspend_not_before>>
    BY <1>6 DEF FireSoftReminder
  <2>3. LoopsFollow' /\ SnapshotFresh' /\ PaidSinceRead'
    BY <2>1, <2>2 DEF LapseInv, LoopsFollow, SnapshotFresh, PaidSinceRead
  <2>4. CASE UNCHANGED <<next_deadline, invoice>>
    BY <2>2, <2>3, <2>4, LapseFrame DEF LapseInv, subVars
  <2>5. CASE SoftReminderWrite(now + Max2(rec.eff + Retention - rec.t, MinReminder))
    <3>1. /\ state = "ACTIVE" /\ next_deadline = rec.nd /\ next_deadline' = rec.eff
          /\ UpsertRenewalInvoice(AutoRenewal(rec.pt),
                now + Max2(rec.eff + Retention - rec.t, MinReminder))
      BY <2>5 DEF SoftReminderWrite, StillDue
    <3>2. rec.eff = Eff
      BY <1>1, <2>1, <3>1 DEF LapseInv, SnapshotFresh, CursorRight, SoftDate, Serving
    <3>3. CursorRight'
      BY <1>1, <2>2, <3>1, <3>2 DEF CursorRight, Eff, EffectiveSuspendAt, SoftDate, Max2, Serving
    <3>4. /\ now + Max2(rec.eff + Retention - rec.t, MinReminder) \in Nat
          /\ now + Max2(rec.eff + Retention - rec.t, MinReminder) >= now
      BY <1>1, TimersAssumption DEF Max2
    <3>5. AutoRenewal(rec.pt) \in Renewals /\ \A r : Req(r) # AutoRenewal(rec.pt)
      BY <2>1 DEF IInv, Carried, AutoRenewal, Renewals, Req
    <3>6. PaymentsDated'
      BY <2>2, <3>1, <3>4, <3>5, LapseUpsert
    <3> QED
      BY <2>3, <3>3, <3>6 DEF LapseInv
  <2> QED
    BY <1>6, <2>4, <2>5 DEF FireSoftReminder
<1>7. CASE SuspendHook \/ Repower \/ DestroyRecheck
  BY <1>2, <1>3, <1>7 DEF SuspendHook, Repower, DestroyRecheck, RecAt
<1>8. CASE DestroyHook
  <2>1. /\ rec'.pc = "destroy_recheck" /\ rec'.t = rec.t /\ rec'.nd = rec.nd
        /\ rec'.eff = rec.eff /\ rec'.pt = rec.pt /\ rec.pc = "destroy_hook"
    BY <1>1, <1>8 DEF DestroyHook, RecAt, LoopsOK
  <2> QED
    BY <1>2, <1>8, <2>1 DEF DestroyHook
<1>9. CASE SuspendWrite
  <2>1. CASE ~StillDue({"ACTIVE"})
    BY <1>2, <1>3, <1>9, <2>1 DEF SuspendWrite, RecAt, subVars
  <2>2. CASE StillDue({"ACTIVE"})
    <3>1. /\ state = "ACTIVE" /\ next_deadline = rec.nd /\ state' = "SUSPENDED"
          /\ next_deadline' = rec.eff + Retention /\ rec.pc = "suspend_write"
          /\ rec'.pc = "finish" /\ rec'.t = rec.t
          /\ UNCHANGED <<now, daemon, paid, mnt, ren, invoice, paid_through, suspend_not_before>>
      BY <1>3, <1>9, <2>2 DEF SuspendWrite, StillDue, RecAt
    <3>2. rec.eff = Eff
      BY <1>1, <3>1 DEF LapseInv, SnapshotFresh, CursorRight, SoftDate, Serving
    <3>3. CursorRight'
      BY <1>1, <3>1, <3>2 DEF CursorRight, Eff
    <3>4. PaymentsDated'
      BY <3>1, LapseFrame
    <3>5. LoopsFollow' /\ SnapshotFresh' /\ PaidSinceRead'
      BY <3>1 DEF LapseInv, LoopsFollow, SnapshotFresh, PaidSinceRead
    <3> QED
      BY <3>3, <3>4, <3>5 DEF LapseInv
  <2> QED
    BY <2>1, <2>2
<1>10. CASE DestroyWrite
  <2>1. CASE ~StillDue({"SUSPENDED", "CANCELLED"})
    BY <1>2, <1>3, <1>10, <2>1 DEF DestroyWrite, RecAt, subVars
  <2>2. CASE StillDue({"SUSPENDED", "CANCELLED"})
    <3>1. /\ state \in {"SUSPENDED", "CANCELLED"} /\ state' = "TERMINATED"
          /\ rec.pc = "destroy_write" /\ rec'.pc = "finish" /\ rec'.t = rec.t
          /\ UNCHANGED <<now, daemon, paid, mnt, ren, invoice>>
      BY <1>3, <1>10, <2>2 DEF DestroyWrite, StillDue, RecAt
    <3>2. PaymentsDated'
      BY <3>1, LapseFrame
    <3>3. CursorRight' /\ LoopsFollow' /\ SnapshotFresh' /\ PaidSinceRead'
      BY <3>1 DEF LapseInv, CursorRight, LoopsFollow, SnapshotFresh, PaidSinceRead
    <3> QED
      BY <3>2, <3>3 DEF LapseInv
  <2> QED
    BY <2>1, <2>2
<1>11. CASE FinishTick
  <2>1. /\ rec'.pc = "idle" /\ rec'.t = 0 /\ daemon' = "up"
        /\ UNCHANGED <<now, paid, mnt, ren, subVars>>
    BY <1>11 DEF FinishTick, RecIdle
  <2>2. PICK E \in SUBSET Lapsed :
          invoice' = [e \in DOMAIN invoice |->
                        IF e \in E THEN [invoice[e] EXCEPT !.status = "EXPIRED"]
                        ELSE invoice[e]]
    BY <1>11 DEF FinishTick, ExpireOpenRenewals
  <2>3. /\ DOMAIN invoice' = DOMAIN invoice
        /\ \A x \in DOMAIN invoice : invoice'[x].expires_at = invoice[x].expires_at
    BY <2>2 DEF IInv, TypeOK, InvoicesOK, InvoiceRow
  <2>4. PaymentsDated'
    BY <2>1, <2>3 DEF LapseInv, PaymentsDated
  <2>5. LoopsFollow' /\ SnapshotFresh' /\ PaidSinceRead'
    BY <1>1, <2>1 DEF LapseInv, LoopsFollow, SnapshotFresh, PaidSinceRead, subVars
  <2> QED
    BY <2>1, <2>4, <2>5, LapseFrame DEF LapseInv
<1> QED
  BY <1>4, <1>5, <1>6, <1>7, <1>8, <1>9, <1>10, <1>11 DEF ReconcileNext

(* The buyer's requests.                                                   *)
LEMMA LapseIntake ==
    ASSUME IInv, KeptInv, LapseInv, IntakeNext
    PROVE  LapseInv'
<1> USE DEF othersI, envVars
<1>1. ASSUME NEW r \in Requests, HandleRenew(r) PROVE LapseInv'
  <2>1. /\ UNCHANGED <<now, daemon, paid, mnt, rec, invoice, subVars>>
        /\ ren'.req = {r} /\ Req(r) \notin DOMAIN invoice
    BY <1>1 DEF HandleRenew, bookVars
  <2>2. PaymentsDated'
    BY <2>1 DEF LapseInv, PaymentsDated
  <2> QED
    BY <2>1, <2>2, LapseFrame DEF LapseInv, subVars
<1>2. ASSUME NEW r \in Requests, IssueRenewal(r) PROVE LapseInv'
  <2>1. /\ UNCHANGED <<now, daemon, paid, mnt, rec, subVars>> /\ r \in ren.req
        /\ ren' = RenIdle /\ RenIdle.req = {}
    BY <1>2 DEF IssueRenewal, RenIdle
  <2>2. LoopsFollow' /\ CursorRight' /\ SnapshotFresh'
    BY <2>1, LapseFrame DEF subVars
  <2>3. CASE UNCHANGED invoice
    <3>1. PaymentsDated'
      BY <2>1, <2>3 DEF LapseInv, PaymentsDated
    <3> QED
      BY <2>1, <2>2, <2>3, <3>1, LapseFrame DEF LapseInv
  <2>4. CASE UpsertRenewalInvoice(Req(r), now + ren.expiry)
    <3>1. Req(r) \in Renewals /\ Req(r) \notin DOMAIN paid
      BY <2>1, StraysAssumption DEF Req, Renewals, LapseInv, PaymentsDated
    <3>2. now + ren.expiry \in Nat /\ now + ren.expiry >= now
      BY LapseTypes DEF IInv, TypeOK, LoopsOK
    <3>3. PaymentsDated' /\ PaidSinceRead'
      BY <2>1, <2>4, <3>1, <3>2, LapseUpsert
    <3> QED
      BY <2>2, <3>3 DEF LapseInv
  <2> QED
    BY <1>2, <2>3, <2>4 DEF IssueRenewal, RenewalWrite
<1>3. CASE CancelWrite
  <2>1. /\ UNCHANGED <<now, daemon, paid, mnt, rec, ren, invoice, paid_through, suspend_not_before>>
        /\ state \in {"ACTIVE", "SUSPENDED"} /\ state' = "CANCELLED"
        /\ next_deadline' = IF state = "ACTIVE" THEN paid_through ELSE next_deadline
    BY <1>3 DEF CancelWrite, bookVars
  <2>2. PaymentsDated' /\ PaidSinceRead'
    BY <2>1, LapseFrame
  <2>3. CursorRight'
    <3>1. state = "SUSPENDED" => next_deadline >= paid_through
      BY LapseTypes DEF LapseInv, CursorRight, Eff, EffectiveSuspendAt, Max2
    <3> QED
      BY <2>1, <3>1, LapseTypes DEF CursorRight
  <2>4. LoopsFollow'
    <3>1. mnt \notin {"mark_active", "resume_failure"}
      BY <2>1 DEF LapseInv, LoopsFollow
    <3> QED
      BY <2>1, <3>1 DEF LapseInv, LoopsFollow
  <2>5. SnapshotFresh'
    BY <2>1 DEF LapseInv, SnapshotFresh
  <2> QED
    BY <2>2, <2>3, <2>4, <2>5 DEF LapseInv
<1> QED
  BY <1>1, <1>2, <1>3 DEF IntakeNext

(* The clock, the payers, the crash and the boot with its credit.          *)
LEMMA LapseEnvironment ==
    ASSUME IInv, KeptInv, LapseInv,
           \/ Tick \/ Crash \/ Restart \/ BootDrivesDone
           \/ \E e \in DOMAIN invoice \cup Strays : Pay(e)
    PROVE  LapseInv'
<1> USE DEF bookVars, Lapsing, Suspending, Destroying
<1>1. /\ now \in Nat /\ last_heartbeat \in Nat /\ suspend_not_before \in Int
      /\ next_deadline \in Int /\ paid_through \in Int /\ rec.t \in Nat
      /\ (state \in Serving => paid_through \in Nat)
      /\ (\A e \in DOMAIN paid : paid[e] \in Nat)
      /\ Lead \in Nat /\ Period \in Nat /\ Retention \in Nat
  BY LapseTypes
<1>2. CASE Tick
  <2>1. now' = now + 1 /\ UNCHANGED <<daemon, paid, mnt, rec, ren, invoice, subVars>>
    BY <1>2 DEF Tick
  <2>2. LoopsFollow' /\ PaymentsDated'
    BY <1>1, <2>1 DEF LapseInv, LoopsFollow, PaymentsDated, subVars
  <2> QED
    BY <2>1, <2>2, LapseFrame DEF LapseInv
<1>3. CASE Crash
  <2>1. /\ rec'.pc = "idle" /\ rec'.t = 0 /\ mnt' = "idle" /\ ren'.req = {}
        /\ UNCHANGED <<now, paid, invoice, subVars>>
    BY <1>3 DEF Crash, RecIdle, RenIdle
  <2>2. LoopsFollow' /\ PaymentsDated' /\ SnapshotFresh' /\ PaidSinceRead'
    BY <1>1, <2>1 DEF LapseInv, LoopsFollow, PaymentsDated, SnapshotFresh, PaidSinceRead
  <2> QED
    BY <2>1, <2>2, LapseFrame DEF LapseInv
<1>4. CASE BootDrivesDone
  <2>1. /\ daemon' = "boot_tick" /\ UNCHANGED <<now, paid, mnt, rec, ren, invoice, subVars>>
    BY <1>4 DEF BootDrivesDone
  <2>2. LoopsFollow'
    BY <2>1 DEF LapseInv, LoopsFollow, subVars
  <2> QED
    BY <2>1, <2>2, LapseFrame DEF LapseInv
<1>5. ASSUME NEW e \in DOMAIN invoice \cup Strays, Pay(e) PROVE LapseInv'
  <2>1. /\ UNCHANGED <<now, daemon, mnt, rec, ren, invoice, subVars>>
        /\ DOMAIN paid' = DOMAIN paid \cup {e} /\ paid'[e] = now
        /\ (e \in DOMAIN invoice => now <= invoice[e].expires_at)
        /\ \A x \in DOMAIN paid : x # e => paid'[x] = paid[x]
    BY <1>5 DEF Pay
  <2>2. PaymentsDated'
    BY <1>1, <2>1 DEF LapseInv, PaymentsDated
  <2>3. PaidSinceRead'
    BY <1>1, <2>1 DEF LapseInv, PaidSinceRead, LoopsFollow, OpenRenewals
  <2> QED
    BY <2>1, <2>2, <2>3, LapseFrame DEF LapseInv, subVars
<1>6. CASE Restart
  <2>1. /\ daemon = "down" /\ daemon' = "boot"
        /\ UNCHANGED <<now, paid, mnt, rec, ren, invoice, state, paid_through>>
    BY <1>6 DEF Restart, ApplyRestartDowntimeCredit
  <2>2. rec.pc = "idle"
    BY <2>1 DEF LapseInv, LoopsFollow
  <2>3. LoopsFollow' /\ SnapshotFresh'
    BY <2>1, <2>2 DEF LapseInv, LoopsFollow, SnapshotFresh
  <2>4. PaymentsDated' /\ PaidSinceRead'
    BY <2>1, LapseFrame
  <2>5. CASE UNCHANGED <<suspend_not_before, next_deadline>>
    BY <2>1, <2>3, <2>4, <2>5, LapseFrame DEF LapseInv, subVars
  <2>6. CASE state = "ACTIVE" /\ CreditActive
    <3> DEFINE pre == Clamp(last_heartbeat - WindowStart(Eff), 0, Lead)
               floor == Max2(Eff, now + (Lead - pre))
    <3>1. pre \in Int /\ Eff \in Int /\ Eff >= paid_through
      BY <1>1 DEF Clamp, Max2, Min2, WindowStart, SoftDate, Eff, EffectiveSuspendAt
    <3>2. \/ UNCHANGED <<suspend_not_before, next_deadline>>
          \/ /\ suspend_not_before' = floor
             /\ next_deadline' = IF next_deadline < paid_through THEN next_deadline ELSE floor
      BY <2>6 DEF CreditActive, Eff
    <3> HIDE DEF pre
    <3>3. floor \in Int /\ floor >= Eff
      BY <1>1, <3>1 DEF Max2
    <3> HIDE DEF floor
    <3>4. CASE /\ suspend_not_before' = floor
               /\ next_deadline' = IF next_deadline < paid_through THEN next_deadline ELSE floor
      <4>1. Eff' = floor
        BY <1>1, <2>1, <3>1, <3>3, <3>4 DEF Eff, EffectiveSuspendAt, Max2
      <4>2. CursorRight'
        BY <1>1, <2>1, <2>6, <3>1, <3>3, <3>4, <4>1 DEF LapseInv, CursorRight, SoftDate
      <4> QED
        BY <2>3, <2>4, <4>2 DEF LapseInv
    <3> QED
      BY <2>5, <3>2, <3>4
  <2>7. CASE state = "SUSPENDED" /\ CreditSuspended
    <3> DEFINE floor == Max2(Eff, now + RemainingRetention(Eff + Retention) - Retention)
    <3>1. Eff \in Int /\ Eff >= paid_through /\ RemainingRetention(Eff + Retention) \in Int
      BY <1>1 DEF Clamp, Max2, Min2, RemainingRetention, Eff, EffectiveSuspendAt
    <3>2. \/ UNCHANGED <<suspend_not_before, next_deadline>>
          \/ suspend_not_before' = floor /\ next_deadline' = floor + Retention
      BY <2>7 DEF CreditSuspended, Eff
    <3>3. floor \in Int /\ floor >= Eff
      BY <1>1, <3>1 DEF Max2
    <3> HIDE DEF floor
    <3>4. CASE suspend_not_before' = floor /\ next_deadline' = floor + Retention
      <4>1. Eff' = floor
        BY <1>1, <2>1, <3>1, <3>3, <3>4 DEF Eff, EffectiveSuspendAt, Max2
      <4>2. CursorRight'
        BY <1>1, <2>1, <2>7, <3>3, <3>4, <4>1 DEF CursorRight
      <4> QED
        BY <2>3, <2>4, <4>2 DEF LapseInv
    <3> QED
      BY <2>5, <3>2, <3>4
  <2> QED
    BY <1>6, <2>5, <2>6, <2>7 DEF Restart, ApplyRestartDowntimeCredit
<1> QED
  BY <1>2, <1>3, <1>4, <1>5, <1>6

(* The loops are idle and nothing is paid.                                 *)
LEMMA LapseInvInit == Init => LapseInv
<1> SUFFICES ASSUME Init PROVE LapseInv
  OBVIOUS
<1>1. /\ daemon = "up" /\ rec.pc = "idle" /\ rec.t = 0 /\ mnt = "idle" /\ state = "PENDING"
      /\ DOMAIN paid = {} /\ ren.req = {} /\ now = Epoch
  BY DEF Init, RecIdle, RenIdle
<1> QED
  BY <1>1, TimersAssumption DEF LapseInv, LoopsFollow, CursorRight, SnapshotFresh, PaymentsDated,
     PaidSinceRead, Lapsing, Suspending, Destroying

(* Every step preserves it, where a period outlasts the lead ...           *)
LEMMA LapseInvStep ==
    ASSUME Lead + 2 <= Period, ~AdminActs
    PROVE  IInv /\ KeptInv /\ BoxInv /\ LapseInv /\ [Next]_vars => LapseInv'
<1> SUFFICES ASSUME IInv, KeptInv, BoxInv, LapseInv, [Next]_vars PROVE LapseInv'
  OBVIOUS
<1>1. CASE UNCHANGED vars
  <2>1. UNCHANGED <<now, daemon, paid, mnt, rec, ren, invoice, subVars>>
    BY <1>1 DEF vars, subVars
  <2> QED
    BY <2>1, LapseFrame DEF LapseInv, subVars
<1> QED
  BY <1>1, LapseCapture, LapseMaintenance, LapseReconcile, LapseIntake, LapseEnvironment
     DEF Next, AdminNext

(* ... so it always holds.                                                 *)
LEMMA LapseInvAlways == ASSUME Lead + 2 <= Period, ~AdminActs PROVE Spec => []LapseInv
BY LapseInvInit, LapseInvStep, IInvAlways, KeptInvAlways, BoxInvAlways, PTL DEF Spec

(* Which steps move a row to SUSPENDED or TERMINATED.                      *)
LEMMA LapseSteps ==
    ASSUME IInv, LapseInv, [Next]_vars, ~AdminActs, state' # state,
           state' \in {"SUSPENDED", "TERMINATED"}
    PROVE  \/ SuspendWrite /\ StillDue({"ACTIVE"}) /\ state' = "SUSPENDED"
           \/ DestroyWrite /\ StillDue({"SUSPENDED", "CANCELLED"}) /\ state' = "TERMINATED"
           \/ state = "RESUMING" /\ state' = "SUSPENDED" /\ mnt' # mnt
<1>1. ~CaptureNext
  BY CaptureStates
<1>2. MaintenanceNext => state = "RESUMING" /\ state' = "SUSPENDED" /\ mnt' # mnt
  BY DEF MaintenanceNext, ProvisionDrive, ActiveWrite, LostCas, RefundDueWrite,
     CompleteFailedCleanup, FinishFailedCleanup, ResumeDrive, MarkActive, ResumeFailureWrite,
     CommitSent, subVars
<1>3. ReconcileNext =>
         \/ SuspendWrite /\ StillDue({"ACTIVE"}) /\ state' = "SUSPENDED"
         \/ DestroyWrite /\ StillDue({"SUSPENDED", "CANCELLED"}) /\ state' = "TERMINATED"
  BY DEF ReconcileNext, ReconcileTick, FirePendingExpiry, FireSoftReminder, SuspendHook,
     SuspendWrite, Repower, DestroyHook, DestroyRecheck, DestroyWrite, FinishTick, subVars
<1>4. ~IntakeNext
  BY DEF IntakeNext, HandleRenew, IssueRenewal, CancelWrite, subVars
<1>5. ~(Tick \/ Crash \/ Restart \/ BootDrivesDone \/ \E e \in DOMAIN invoice \cup Strays : Pay(e))
  BY DEF Tick, Crash, Restart, ApplyRestartDowntimeCredit, BootDrivesDone, Pay, subVars
<1> QED
  BY <1>1, <1>2, <1>3, <1>4, <1>5 DEF Next, AdminNext, vars

(* A row is suspended only at or past its credited suspend date and ended  *)
(* only past its retention (a cancelled one past the time it paid for),    *)
(* although the reconcile loop decides on a row it read before its hooks.  *)
THEOREM LapsesOnlyWhenDue ==
    ASSUME Lead + 2 <= Period, ~AdminActs PROVE Spec => LapseOnlyWhenDue
<1> DEFINE Susp == state = "ACTIVE" /\ state' = "SUSPENDED" =>
                      now >= EffectiveSuspendAt(paid_through, suspend_not_before)
           Term == state' = "TERMINATED" /\ state # "TERMINATED" =>
                      /\ state = "SUSPENDED" =>
                            now >= ResumableUntil(paid_through, suspend_not_before)
                      /\ state = "CANCELLED" => now >= paid_through
<1>1. ASSUME IInv, KeptInv, LapseInv, [Next]_vars PROVE Susp
  <2>1. SUFFICES ASSUME state = "ACTIVE", state' = "SUSPENDED" PROVE now >= Eff
    BY DEF Eff
  <2>2. SuspendWrite /\ StillDue({"ACTIVE"})
    BY <1>1, <2>1, LapseSteps
  <2>3. rec.pc = "suspend_write" /\ next_deadline = rec.nd
    BY <2>2 DEF SuspendWrite, StillDue, RecAt
  <2>4. rec.eff = Eff /\ rec.eff <= rec.t /\ rec.t <= now
    BY <1>1, <2>1, <2>3, LapseTypes DEF LapseInv, SnapshotFresh, CursorRight, LoopsFollow, SoftDate,
       Lapsing, Suspending
  <2> QED
    BY <1>1, <2>4, LapseTypes
<1>2. ASSUME IInv, KeptInv, LapseInv, [Next]_vars PROVE Term
  <2>1. SUFFICES ASSUME state' = "TERMINATED", state # "TERMINATED"
                 PROVE  /\ state = "SUSPENDED" => now >= Eff + Retention
                        /\ state = "CANCELLED" => now >= paid_through
    BY DEF Eff, ResumableUntil
  <2>2. DestroyWrite /\ StillDue({"SUSPENDED", "CANCELLED"})
    BY <1>1, <1>2, <2>1, LapseSteps
  <2>3. rec.pc = "destroy_write" /\ next_deadline = rec.nd
    BY <2>2 DEF DestroyWrite, StillDue, RecAt
  <2>4. rec.nd <= rec.t /\ rec.t <= now
    BY <1>2, <2>3 DEF LapseInv, SnapshotFresh, LoopsFollow, Destroying
  <2>5. Eff \in Int
    BY <1>2, LapseTypes DEF Eff, EffectiveSuspendAt, Max2
  <2> QED
    BY <1>2, <2>3, <2>4, <2>5, LapseTypes DEF LapseInv, CursorRight
<1>3. IInv /\ KeptInv /\ LapseInv /\ [Next]_vars => [Susp]_vars /\ [Term]_vars
  BY <1>1, <1>2
<1> QED
  BY <1>3, IInvAlways, KeptInvAlways, LapseInvAlways, PTL
     DEF Spec, LapseOnlyWhenDue, SuspendOnlyPastFloor, TerminateOnlyPastRetention

(* No row lapses over a renewal that was already paid when the tick read   *)
(* the clock: fire_suspend and fire_destroy ask the backend first, and a   *)
(* payment that lands later moves the cursor their write compares.         *)
THEOREM LapsesSparePaid ==
    ASSUME Lead + 2 <= Period, ~AdminActs PROVE Spec => LapseSparesPaid
<1> DEFINE Spares == state' # state /\ state' \in {"SUSPENDED", "TERMINATED"} /\ rec # RecIdle
                        /\ UNCHANGED mnt =>
                        \A e \in OpenRenewals \cap DOMAIN paid : paid[e] >= rec.t
<1>1. ASSUME IInv, LapseInv, [Next]_vars PROVE Spares
  <2>1. SUFFICES ASSUME state' # state, state' \in {"SUSPENDED", "TERMINATED"}, UNCHANGED mnt
                 PROVE  \A e \in OpenRenewals \cap DOMAIN paid : paid[e] >= rec.t
    OBVIOUS
  <2>2. SuspendWrite \/ DestroyWrite
    BY <1>1, <2>1, LapseSteps
  <2>3. rec.pc \in {"suspend_write", "destroy_write"}
    BY <2>2 DEF SuspendWrite, DestroyWrite, RecAt
  <2> QED
    BY <1>1, <2>3 DEF LapseInv, PaidSinceRead, Suspending, Destroying
<1>2. IInv /\ LapseInv /\ [Next]_vars => [Spares]_vars
  BY <1>1
<1> QED
  BY <1>2, IInvAlways, LapseInvAlways, PTL DEF Spec, LapseSparesPaid
-----------------------------------------------------------------------------
(* The seconds of S in which the daemon was seen from a on, up to the      *)
(* heartbeat h, and whether they and what is left from there to b make d.  *)
Seen(S, a, h) == Cardinality({x \in S : a <= x /\ x < h})
Granted(S, h, a, b, d) == Seen(S, a, h) + Max2(0, b - Max2(h, a)) >= d

LeadGranted(pt, snb) ==
    Granted(online, last_heartbeat, SoftDate(pt), EffectiveSuspendAt(pt, snb), Lead)
RetentionGranted(pt, snb) ==
    Granted(online, last_heartbeat, pt, EffectiveSuspendAt(pt, snb) + Retention, Retention)

(* What the heartbeat vouches for: a daemon that runs was up since its     *)
(* last one, and until the first restart there is no gap before it either. *)
OnlineKnown ==
    /\ last_heartbeat <= now /\ \A x \in online : x < now
    /\ daemon # "down" => last_heartbeat..(now - 1) \subseteq online
    /\ credited = {} => Epoch..(last_heartbeat - 1) \subseteq online

(* Cycles a restart looked at are not ahead of the row, nor of the window  *)
(* a failed resume goes back to: a payment starts a cycle no restart has   *)
(* seen                                                                    *)
CyclesPast ==
    /\ \A c \in credited : c <= paid_through
    /\ state = "RESUMING" => \A c \in credited : c <= renew_resume.paid_through

(* A cycle every restart gave its credit still holds its lead and, once it *)
(* has lapsed, its retention; so does the window a failed resume restores. *)
WindowsKept ==
    /\ state \in {"ACTIVE", "RESUMING"} /\ AllCredited =>
          LeadGranted(paid_through, suspend_not_before)
    /\ state \in {"ACTIVE", "RESUMING", "SUSPENDED"} /\ AllCredited =>
          RetentionGranted(paid_through, suspend_not_before)
    /\ state = "RESUMING" /\ credited \subseteq {renew_resume.paid_through} =>
          RetentionGranted(renew_resume.paid_through, renew_resume.suspend_not_before)

CreditInv == OnlineKnown /\ CyclesPast /\ WindowsKept

(* Counting seen seconds: more of them are never fewer.                    *)
LEMMA SeenMonotone ==
    ASSUME NEW S \in SUBSET Nat, NEW T \in SUBSET Nat, NEW h \in Nat, NEW k \in Nat, NEW a \in Int,
           S \subseteq T, h <= k
    PROVE  Seen(S, a, h) \in Nat /\ Seen(T, a, k) \in Nat /\ Seen(S, a, h) <= Seen(T, a, k)
<1> DEFINE A == {x \in S : a <= x /\ x < h}
           B == {x \in T : a <= x /\ x < k}
<1>1. A \subseteq B /\ B \subseteq 0..k
  <2>1. \A x \in S : x \in T /\ x \in Nat
    OBVIOUS
  <2>2. \A x \in A : x \in B
    BY <2>1
  <2>3. \A x \in T : x \in Nat
    OBVIOUS
  <2>4. \A x \in B : x \in 0..k
    BY <2>3
  <2> QED
    BY <2>2, <2>4
<1>2. IsFiniteSet(0..k)
  BY FS_Interval
<1>3. IsFiniteSet(B)
  BY <1>1, <1>2, FS_Subset
<1>4. IsFiniteSet(A) /\ Cardinality(A) <= Cardinality(B)
  BY <1>1, <1>3, FS_Subset
<1>5. Cardinality(A) \in Nat /\ Cardinality(B) \in Nat
  BY <1>3, <1>4, FS_CardinalityType
<1> QED
  BY <1>4, <1>5 DEF Seen

(* ... and a stretch without a gap counts in full.                         *)
LEMMA SeenMore ==
    ASSUME NEW S \in SUBSET Nat, NEW T \in SUBSET Nat, NEW h \in Nat, NEW k \in Nat, NEW a \in Int,
           S \subseteq T, h <= k, h..(k - 1) \subseteq T
    PROVE  Seen(T, a, k) >= Seen(S, a, h) + Max2(0, k - Max2(h, a))
<1> DEFINE A == {x \in S : a <= x /\ x < h}
           B == {x \in T : a <= x /\ x < k}
           m == Max2(h, a)
           M == m..(k - 1)
<1>1. m \in Int /\ m >= h /\ m >= a
  BY DEF Max2
<1>2. A \subseteq B /\ M \subseteq B /\ A \cap M = {} /\ B \subseteq 0..k
  <2>1. \A x \in M : x \in h..(k - 1) /\ a <= x /\ x < k
    BY <1>1
  <2>2. \A x \in S : x \in T /\ x \in Nat
    OBVIOUS
  <2>3. \A x \in A : x \in B /\ x \notin M
    BY <1>1, <2>2
  <2>4. \A x \in M : x \in B
    BY <2>1
  <2>5. \A x \in T : x \in Nat
    OBVIOUS
  <2>6. \A x \in B : x \in 0..k
    BY <2>5
  <2> QED
    BY <2>3, <2>4, <2>6
<1>3. IsFiniteSet(0..k) /\ IsFiniteSet(M)
      /\ Cardinality(M) = IF m > k - 1 THEN 0 ELSE (k - 1) - m + 1
  BY <1>1, FS_Interval
<1>4. IsFiniteSet(B)
  BY <1>2, <1>3, FS_Subset
<1>5. IsFiniteSet(A) /\ IsFiniteSet(A \cup M)
      /\ Cardinality(A \cup M) = Cardinality(A) + Cardinality(M) - Cardinality(A \cap M)
  <2>1. IsFiniteSet(A)
    BY <1>2, <1>4, FS_Subset
  <2> QED
    BY <1>3, <2>1, FS_Union
<1>6. Cardinality(A \cap M) = 0
  BY <1>2, FS_EmptySet
<1>7. A \cup M \subseteq B
  BY <1>2
<1>8. Cardinality(A \cup M) <= Cardinality(B)
  BY <1>4, <1>7, FS_Subset
<1>9. Cardinality(A) \in Nat /\ Cardinality(B) \in Nat
  BY <1>4, <1>5, FS_CardinalityType
<1>10. Max2(0, k - m) = Cardinality(M)
  BY <1>1, <1>3 DEF Max2
<1> HIDE DEF A, B, M, m
<1>11. Cardinality(M) \in Nat
  BY <1>3, FS_CardinalityType
<1>12. Cardinality(B) >= Cardinality(A) + Cardinality(M)
  BY <1>5, <1>6, <1>8, <1>9, <1>11
<1> QED
  BY <1>10, <1>12 DEF Seen, A, B, m

(* With no gap before the heartbeat a window is whole.                     *)
LEMMA GrantedWhole ==
    ASSUME NEW S \in SUBSET Nat, NEW h \in Nat, NEW a \in Int, NEW b \in Int, NEW d \in Nat,
           Epoch <= a, Epoch..(h - 1) \subseteq S, b >= a + d
    PROVE  Granted(S, h, a, b, d)
<1>1. Epoch \in Nat
  BY TimersAssumption
<1>2. a \in Nat
  BY <1>1
<1>3. CASE h <= a
  <2>1. Seen(S, a, h) \in Nat
    BY SeenMonotone
  <2> QED
    BY <1>3, <2>1 DEF Granted, Max2
<1>4. CASE a < h
  <2>1. a..(h - 1) \subseteq S
    BY <1>1, <1>4
  <2>2. Seen(S, a, h) >= Seen({}, a, a) + Max2(0, h - Max2(a, a))
    BY <1>2, <1>4, <2>1, SeenMore
  <2>3. Seen({}, a, a) \in Nat /\ Seen(S, a, h) \in Nat
    BY <1>2, <1>4, SeenMonotone
  <2> QED
    BY <1>2, <1>4, <2>2, <2>3 DEF Granted, Max2
<1> QED
  BY <1>3, <1>4

(* Time that passes with the daemon seen takes nothing from a window ...   *)
LEMMA GrantedStays ==
    ASSUME NEW S \in SUBSET Nat, NEW T \in SUBSET Nat, NEW h \in Nat, NEW k \in Nat, NEW a \in Int,
           NEW b \in Int, NEW d \in Nat,
           S \subseteq T, h <= k, h..(k - 1) \subseteq T, Granted(S, h, a, b, d)
    PROVE  Granted(T, k, a, b, d)
<1>1. Seen(T, a, k) >= Seen(S, a, h) + Max2(0, k - Max2(h, a))
  BY SeenMore
<1>2. Seen(S, a, h) \in Nat /\ Seen(T, a, k) \in Nat
  BY SeenMonotone
<1> QED
  BY <1>1, <1>2 DEF Granted, Max2

(* The credit makes up for an outage from h to n: of the lead ...          *)
LEMMA LeadCredited ==
    ASSUME NEW S \in SUBSET Nat, NEW h \in Nat, NEW n \in Nat, NEW soft \in Int, NEW old \in Int,
           NEW new \in Int, NEW d \in Nat, h <= n, old >= soft + d, Granted(S, h, soft, old, d),
           \/ soft > n /\ new = old
           \/ /\ soft <= n /\ old >= h
              /\ new >= n + (d - Clamp(h - Max2(soft, old - d), 0, d))
    PROVE  Granted(S, n, soft, new, d)
<1>1. Seen(S, soft, h) \in Nat /\ Seen(S, soft, n) \in Nat /\ Seen(S, soft, h) <= Seen(S, soft, n)
  BY SeenMonotone
<1>2. Seen(S, soft, h) + Max2(0, old - Max2(h, soft)) >= d
  BY DEF Granted
<1>3. CASE soft > n /\ new = old
  BY <1>1, <1>3 DEF Granted, Max2
<1>4. CASE /\ soft <= n /\ old >= h
           /\ new >= n + (d - Clamp(h - Max2(soft, old - d), 0, d))
  <2>1. Seen(S, soft, h) >= Clamp(h - Max2(soft, old - d), 0, d)
    BY <1>1, <1>2, <1>4 DEF Clamp, Max2, Min2
  <2>2. Clamp(h - Max2(soft, old - d), 0, d) \in Nat
    BY DEF Clamp, Max2, Min2
  <2>3. new - n >= d - Clamp(h - Max2(soft, old - d), 0, d)
    BY <1>4, <2>2
  <2>4. Max2(n, soft) = n /\ Max2(0, new - n) >= new - n /\ Max2(0, new - n) \in Nat
    BY <1>4 DEF Max2
  <2> QED
    BY <1>1, <2>1, <2>2, <2>3, <2>4 DEF Granted
<1> QED
  BY <1>3, <1>4

(* ... and of the retention, which it leaves as long as it was, or leaves  *)
(* whole if the floor is not past.                                         *)
LEMMA RetentionCredited ==
    ASSUME NEW S \in SUBSET Nat, NEW h \in Nat, NEW n \in Nat, NEW pt \in Int, NEW old \in Int,
           NEW new \in Int, NEW d \in Nat, h <= n, old >= pt, new >= old,
           Granted(S, h, pt, old + d, d),
           \/ new >= n
           \/ old + d <= h
           \/ new + d >= n + Clamp(old + d - h, 0, d)
    PROVE  Granted(S, n, pt, new + d, d)
<1>1. Seen(S, pt, h) \in Nat /\ Seen(S, pt, n) \in Nat /\ Seen(S, pt, h) <= Seen(S, pt, n)
  BY SeenMonotone
<1>2. Seen(S, pt, h) + Max2(0, (old + d) - Max2(h, pt)) >= d
  BY DEF Granted
<1>3. CASE new >= n
  BY <1>1, <1>3 DEF Granted, Max2
<1>4. CASE old + d <= h
  <2>1. Seen(S, pt, h) >= d
    BY <1>2, <1>4, <1>1 DEF Max2
  <2> QED
    BY <1>1, <2>1 DEF Granted, Max2
<1>5. CASE new + d >= n + Clamp(old + d - h, 0, d) /\ ~(new >= n) /\ ~(old + d <= h)
  <2>1. CASE old + d - h >= d
    <3>1. Clamp(old + d - h, 0, d) = d
      BY <2>1 DEF Clamp, Max2, Min2
    <3> QED
      BY <1>5, <3>1
  <2>2. CASE old + d - h < d
    <3>1. Clamp(old + d - h, 0, d) = old + d - h
      BY <1>5, <2>2 DEF Clamp, Max2, Min2
    <3>2. Seen(S, pt, h) >= d - (old + d - h)
      BY <1>1, <1>2, <1>5 DEF Max2
    <3> QED
      BY <1>1, <1>5, <3>1, <3>2 DEF Granted, Max2
  <2> QED
    BY <2>1, <2>2
<1> QED
  BY <1>3, <1>4, <1>5

(* The integers of the credit.                                             *)
LEMMA CreditTypes ==
    ASSUME IInv, KeptInv
    PROVE  /\ online \in SUBSET Nat /\ last_heartbeat \in Nat /\ now \in Nat /\ Epoch \in Nat
           /\ paid_through \in Int /\ suspend_not_before \in Int /\ next_deadline \in Int
           /\ Eff \in Int /\ Eff >= paid_through
           /\ renew_resume.paid_through \in Int /\ renew_resume.suspend_not_before \in Int
           /\ Lead \in Nat /\ Retention \in Nat /\ Period \in Nat /\ Period > 0
           /\ credited \in SUBSET Int /\ rec.t \in Nat
           /\ (state \in Serving => paid_through \in Nat)
<1>1. /\ now \in Nat /\ last_heartbeat \in Nat /\ suspend_not_before \in Int
      /\ next_deadline \in Int /\ paid_through \in Int /\ rec.t \in Nat
      /\ (state \in Serving => paid_through \in Nat)
  BY LapseTypes
<1>2. Eff \in Int /\ Eff >= paid_through
  BY <1>1 DEF Eff, EffectiveSuspendAt, Max2
<1>3. \A c \in PaidThroughs : c \in Int
  BY DEF PaidThroughs, NoTime
<1>4. online \in SUBSET Nat /\ credited \in SUBSET Int
  BY <1>3 DEF IInv, TypeOK, HistoryOK
<1>5. renew_resume.paid_through \in Int /\ renew_resume.suspend_not_before \in Int
  BY <1>3 DEF IInv, TypeOK, BooksOK, Time, NoTime
<1> QED
  BY <1>1, <1>2, <1>4, <1>5, TimersAssumption

(* A window granted to its end has been seen in full once its end has      *)
(* come.                                                                   *)
LEMMA GrantedSpent ==
    ASSUME IInv, KeptInv, CreditInv, daemon # "down", NEW a \in Int, NEW b \in Int, NEW d \in Nat,
           b <= now, Granted(online, last_heartbeat, a, b, d)
    PROVE  OnlineSince(a) >= d
<1>1. online \in SUBSET Nat /\ last_heartbeat \in Nat /\ now \in Nat
  BY CreditTypes
<1>2. /\ last_heartbeat <= now /\ last_heartbeat..(now - 1) \subseteq online
      /\ \A x \in online : x < now
  BY DEF CreditInv, OnlineKnown
<1>3. Seen(online, a, now)
         >= Seen(online, a, last_heartbeat) + Max2(0, now - Max2(last_heartbeat, a))
  BY <1>1, <1>2, SeenMore
<1>4. Seen(online, a, last_heartbeat) \in Nat /\ Seen(online, a, now) \in Nat
  BY <1>1, <1>2, SeenMonotone
<1>5. {x \in online : a <= x /\ x < now} = {x \in online : x >= a}
  BY <1>1, <1>2
<1>6. Seen(online, a, now) = OnlineSince(a)
  BY <1>5 DEF Seen, OnlineSince
<1> QED
  BY <1>1, <1>3, <1>4, <1>6 DEF Granted, Max2

(* While no cycle starts and the daemon is seen, nothing granted is lost.  *)
LEMMA CreditQuiet ==
    ASSUME IInv, KeptInv, CreditInv, NEW k \in Nat, last_heartbeat' = k, NEW T \in SUBSET Nat,
           online' = T, online \subseteq T, last_heartbeat <= k,
           last_heartbeat..(k - 1) \subseteq T,
           UNCHANGED <<paid_through, suspend_not_before, renew_resume, credited>>,
           \/ state' = state
           \/ state = "ACTIVE" /\ state' = "SUSPENDED"
           \/ state' \notin {"ACTIVE", "RESUMING", "SUSPENDED"}
    PROVE  CyclesPast' /\ WindowsKept'
<1>1. /\ online \in SUBSET Nat /\ last_heartbeat \in Nat /\ paid_through \in Int
      /\ renew_resume.paid_through \in Int /\ renew_resume.suspend_not_before \in Int
      /\ suspend_not_before \in Int /\ Lead \in Nat /\ Retention \in Nat
  BY CreditTypes
<1>2. ASSUME NEW a \in Int, NEW b \in Int, NEW d \in Nat,
             Granted(online, last_heartbeat, a, b, d)
      PROVE  Granted(T, k, a, b, d)
  BY <1>1, <1>2, GrantedStays
<1>3. ASSUME NEW pt \in Int, NEW snb \in Int
      PROVE  /\ SoftDate(pt) \in Int /\ EffectiveSuspendAt(pt, snb) \in Int
             /\ EffectiveSuspendAt(pt, snb) + Retention \in Int
  BY <1>1 DEF SoftDate, EffectiveSuspendAt, Max2
<1>4. ASSUME NEW pt \in Int, NEW snb \in Int
      PROVE  /\ LeadGranted(pt, snb) =>
                   Granted(T, k, SoftDate(pt), EffectiveSuspendAt(pt, snb), Lead)
             /\ RetentionGranted(pt, snb) =>
                   Granted(T, k, pt, EffectiveSuspendAt(pt, snb) + Retention, Retention)
  BY <1>1, <1>2, <1>3 DEF LeadGranted, RetentionGranted
<1>5. CyclesPast'
  BY DEF CreditInv, CyclesPast
<1>6. WindowsKept'
  BY <1>1, <1>4 DEF CreditInv, WindowsKept, AllCredited, LeadGranted, RetentionGranted
<1> QED
  BY <1>5, <1>6

(* A journal keeps the timers its first renewal found.                     *)
LEMMA CaptureJournal ==
    ASSUME IInv, KeptInv, CaptureNext, state' = "RESUMING"
    PROVE  \/ state = "RESUMING"
              /\ renew_resume'.paid_through = renew_resume.paid_through
              /\ renew_resume'.suspend_not_before = renew_resume.suspend_not_before
           \/ state = "SUSPENDED" /\ renew_resume'.paid_through = paid_through
              /\ renew_resume'.suspend_not_before = suspend_not_before
<1>1. PICK e \in DOMAIN invoice \cup Strays, s \in Clock : CaptureTxn(e, s)
  BY SettlementTimes
<1>2. CASE UNCHANGED <<state, renew_resume>>
  BY <1>2
<1>3. CASE RenewalInWindow(e, s) /\ CaptureRenewal(e, s)
  <2>1. state \in {"SUSPENDED", "RESUMING"} /\ JournalRenewResume(e)
    BY <1>3 DEF RenewalInWindow, CaptureRenewal
  <2>2. state = "SUSPENDED" => renew_resume.pending = {}
    BY DEF KeptInv, ReceiptsCounted
  <2>3. state = "RESUMING" => renew_resume.pending # {}
    BY DEF KeptInv, ReceiptsCounted
  <2> QED
    BY <2>1, <2>2, <2>3 DEF JournalRenewResume
<1>4. CASE OrderInWindow(e, s) /\ CaptureOrder
  BY <1>4 DEF CaptureOrder
<1> QED
  BY <1>1, <1>2, <1>3, <1>4 DEF CaptureTxn, ApplyPaid, subVars, bookVars

(* A payment starts a cycle no restart has seen, which is whole if none    *)
(* happened at all; the window it replaces goes into the journal as it is. *)
LEMMA CreditCapture ==
    ASSUME IInv, KeptInv, CreditInv, CaptureNext, UNCHANGED history, Lead + 2 <= Period
    PROVE  CreditInv'
<1>1. PICK e \in DOMAIN invoice \cup Strays, s \in Clock :
      \/ UNCHANGED subVars
      \/ state = "PENDING" /\ state' = "PROVISIONING"
      \/ /\ e \in OpenRenewals /\ state \in {"ACTIVE", "SUSPENDED", "RESUMING"}
         /\ state' = IF state = "ACTIVE" THEN "ACTIVE" ELSE "RESUMING"
         /\ paid_through' = Max2(paid_through, s) + Period
         /\ next_deadline' = SoftDate(paid_through') /\ suspend_not_before' = NoTime
  BY CaptureEffects
<1>2. UNCHANGED <<now, daemon, last_heartbeat, online, credited>>
  BY DEF CaptureNext, DeliverSettlement, SettlementCatchUp, envVars, history
<1>3. OnlineKnown'
  BY <1>2 DEF CreditInv, OnlineKnown
<1>4. /\ online \in SUBSET Nat /\ last_heartbeat \in Nat /\ Epoch \in Nat
      /\ paid_through \in Int /\ suspend_not_before \in Int /\ credited \in SUBSET Int
      /\ Lead \in Nat /\ Retention \in Nat /\ Period \in Nat /\ Period > 0
  BY CreditTypes
<1>5. CASE UNCHANGED subVars
  <2>1. UNCHANGED <<state, paid_through, suspend_not_before>>
    BY <1>5 DEF subVars
  <2>2. state' = "RESUMING" => /\ renew_resume'.paid_through = renew_resume.paid_through
                               /\ renew_resume'.suspend_not_before = renew_resume.suspend_not_before
    BY <2>1, CaptureJournal
  <2>3. CyclesPast'
    BY <1>2, <2>1, <2>2 DEF CreditInv, CyclesPast
  <2>4. WindowsKept'
    BY <1>2, <2>1, <2>2 DEF CreditInv, WindowsKept, AllCredited, LeadGranted, RetentionGranted
  <2> QED
    BY <1>3, <2>3, <2>4 DEF CreditInv
<1>6. CASE state = "PENDING" /\ state' = "PROVISIONING"
  <2>1. KeptInv'
    BY KeptCapture
  <2>2. paid_through = NoTime /\ paid_through' = NoTime
    BY <1>6, <2>1 DEF KeptInv, ReceiptsCounted, Unserved
  <2>3. CyclesPast' /\ WindowsKept'
    BY <1>2, <1>6, <2>2 DEF CreditInv, CyclesPast, WindowsKept
  <2> QED
    BY <1>3, <2>3 DEF CreditInv
<1>7. CASE /\ state \in {"ACTIVE", "SUSPENDED", "RESUMING"}
           /\ state' = IF state = "ACTIVE" THEN "ACTIVE" ELSE "RESUMING"
           /\ paid_through' = Max2(paid_through, s) + Period
           /\ suspend_not_before' = NoTime
  <2>1. PICK pt \in Int : pt = paid_through'
    BY <1>4, <1>7 DEF Clock, Max2
  <2>2. pt > paid_through /\ pt >= Epoch + Period
    BY <1>4, <1>7, <2>1 DEF Clock, Max2
  <2>3. EffectiveSuspendAt(pt, NoTime) = pt
    BY <1>4, <2>2 DEF EffectiveSuspendAt, Max2, NoTime
  <2>4. state' = "RESUMING" =>
           \/ state = "RESUMING"
              /\ renew_resume'.paid_through = renew_resume.paid_through
              /\ renew_resume'.suspend_not_before = renew_resume.suspend_not_before
           \/ state = "SUSPENDED" /\ renew_resume'.paid_through = paid_through
              /\ renew_resume'.suspend_not_before = suspend_not_before
    BY CaptureJournal
  <2>5. \A c \in credited : c <= paid_through
    BY DEF CreditInv, CyclesPast
  <2>6. CyclesPast'
    <3>1. \A c \in credited : c <= pt
      BY <1>4, <2>2, <2>5
    <3>2. state' = "RESUMING" => \A c \in credited : c <= renew_resume'.paid_through
      BY <2>4, <2>5 DEF CreditInv, CyclesPast
    <3> QED
      BY <1>2, <2>1, <3>1, <3>2 DEF CyclesPast
  <2>7. credited \subseteq {pt} => credited = {}
    BY <1>4, <2>2, <2>5
  <2>8. credited = {} =>
           /\ Granted(online, last_heartbeat, SoftDate(pt), pt, Lead)
           /\ Granted(online, last_heartbeat, pt, pt + Retention, Retention)
    <3>1. SUFFICES ASSUME credited = {}
                   PROVE  /\ Granted(online, last_heartbeat, SoftDate(pt), pt, Lead)
                          /\ Granted(online, last_heartbeat, pt, pt + Retention, Retention)
      OBVIOUS
    <3>2. Epoch..(last_heartbeat - 1) \subseteq online
      BY <3>1 DEF CreditInv, OnlineKnown
    <3>3. /\ SoftDate(pt) \in Int /\ Epoch <= SoftDate(pt) /\ pt >= SoftDate(pt) + Lead
          /\ Epoch <= pt /\ pt + Retention \in Int
      BY <1>4, <2>2 DEF SoftDate
    <3>4. Granted(online, last_heartbeat, SoftDate(pt), pt, Lead)
      BY <1>4, <3>2, <3>3, GrantedWhole
    <3>5. Granted(online, last_heartbeat, pt, pt + Retention, Retention)
      BY <1>4, <3>2, <3>3, GrantedWhole
    <3> QED
      BY <3>4, <3>5
  <2>9. credited \subseteq {pt} =>
           LeadGranted(pt, NoTime) /\ RetentionGranted(pt, NoTime)
    BY <2>3, <2>7, <2>8 DEF LeadGranted, RetentionGranted
  <2>10. WindowsKept'
    <3>1. AllCredited' =>
             /\ LeadGranted(paid_through, suspend_not_before)'
             /\ RetentionGranted(paid_through, suspend_not_before)'
      BY <1>2, <1>7, <2>1, <2>9 DEF AllCredited, LeadGranted, RetentionGranted
    <3>2. state' = "RESUMING" /\ credited \subseteq {renew_resume'.paid_through} =>
             RetentionGranted(renew_resume.paid_through, renew_resume.suspend_not_before)'
      <4>1. CASE state = "RESUMING"
        BY <1>2, <2>4, <4>1 DEF CreditInv, WindowsKept, RetentionGranted
      <4>2. CASE state # "RESUMING"
        BY <1>2, <2>4, <4>2 DEF CreditInv, WindowsKept, AllCredited, RetentionGranted
      <4> QED
        BY <4>1, <4>2
    <3> QED
      BY <1>2, <3>1, <3>2 DEF WindowsKept
  <2> QED
    BY <1>3, <2>6, <2>10 DEF CreditInv
<1> QED
  BY <1>1, <1>5, <1>6, <1>7

(* The drivers: a first activation and a resume keep the row's cycle, and  *)
(* a failed resume goes back to the one in the journal.                    *)
LEMMA CreditMaintenance ==
    ASSUME IInv, KeptInv, BoxInv, LapseInv, CreditInv, MaintenanceNext, UNCHANGED history,
           Lead + 2 <= Period
    PROVE  CreditInv'
<1> USE DEF othersP, othersR, envVars, subVars, bookVars, history
<1>1. UNCHANGED <<now, daemon, last_heartbeat, online, credited, invoice>>
  BY DEF MaintenanceNext, ProvisionDrive, ActiveWrite, LostCas, RefundDueWrite,
     CompleteFailedCleanup, FinishFailedCleanup, ResumeDrive, MarkActive, ResumeFailureWrite,
     CommitSent
<1>2. OnlineKnown'
  BY <1>1 DEF CreditInv, OnlineKnown
<1>3. /\ online \in SUBSET Nat /\ last_heartbeat \in Nat /\ Epoch \in Nat
      /\ paid_through \in Int /\ suspend_not_before \in Int /\ credited \in SUBSET Int
      /\ Lead \in Nat /\ Retention \in Nat /\ Period \in Nat
  BY CreditTypes
<1>4. last_heartbeat..(last_heartbeat - 1) \subseteq online
  BY <1>3
<1>5. CASE \/ ProvisionDrive \/ CompleteFailedCleanup \/ FinishFailedCleanup \/ ResumeDrive
           \/ RefundDueWrite \/ CommitSent
  <2>1. /\ UNCHANGED <<paid_through, suspend_not_before, renew_resume>>
        /\ state' = state \/ state' \in {"REFUND_DUE", "REFUNDED"}
    BY <1>5 DEF ProvisionDrive, CompleteFailedCleanup, FinishFailedCleanup, ResumeDrive,
       RefundDueWrite, LostCas, CommitSent
  <2>2. CyclesPast' /\ WindowsKept'
    BY <1>1, <1>3, <1>4, <2>1, CreditQuiet
  <2> QED
    BY <1>2, <2>2 DEF CreditInv
<1>6. CASE ActiveWrite
  <2>1. state = "PROVISIONING" /\ reservation = "HELD"
    <3>1. mnt = "active_write"
      BY <1>6 DEF ActiveWrite
    <3>2. state = "PROVISIONING"
      BY <3>1 DEF BoxInv
    <3> QED
      BY <3>2 DEF IInv, HoldFollowsState, Holding, Serving
  <2>2. /\ state' = "ACTIVE" /\ paid_through' = invoice[Order].settled_at + Period
        /\ suspend_not_before' = suspend_not_before
    BY <1>6, <2>1 DEF ActiveWrite
  <2>3. invoice[Order].settled_at \in Clock
    BY <2>1 DEF IInv, Carried, TypeOK, InvoicesOK, InvoiceRow
  <2>4. PICK pt \in Nat : pt = paid_through' /\ pt >= Epoch + Period
    BY <1>3, <2>2, <2>3 DEF Clock
  <2>5. paid_through = NoTime
    BY <2>1 DEF KeptInv, ReceiptsCounted, Unserved
  <2>6. \A c \in credited : c <= NoTime
    BY <2>5 DEF CreditInv, CyclesPast
  <2>7. CyclesPast'
    BY <1>1, <1>3, <2>2, <2>4, <2>6 DEF CyclesPast, NoTime
  <2>8. credited \subseteq {pt} => credited = {}
    BY <1>3, <2>6 DEF NoTime
  <2>9. credited = {} => LeadGranted(pt, suspend_not_before)
                         /\ RetentionGranted(pt, suspend_not_before)
    <3>1. SUFFICES ASSUME credited = {}
                   PROVE  LeadGranted(pt, suspend_not_before)
                          /\ RetentionGranted(pt, suspend_not_before)
      OBVIOUS
    <3>2. Epoch..(last_heartbeat - 1) \subseteq online
      BY <3>1 DEF CreditInv, OnlineKnown
    <3>3. PICK b \in Int : b = EffectiveSuspendAt(pt, suspend_not_before) /\ b >= pt
      BY <1>3 DEF EffectiveSuspendAt, Max2
    <3>4. /\ SoftDate(pt) \in Int /\ Epoch <= SoftDate(pt) /\ b >= SoftDate(pt) + Lead
          /\ Epoch <= pt /\ b + Retention \in Int /\ b + Retention >= pt + Retention
      <4>1. pt \in Nat /\ pt >= Epoch + Period /\ b \in Int /\ b >= pt
        BY <2>4, <3>3
      <4> QED
        BY <1>3, <4>1 DEF SoftDate
    <3>5. Granted(online, last_heartbeat, SoftDate(pt), b, Lead)
      BY <1>3, <3>2, <3>4, GrantedWhole
    <3>6. Granted(online, last_heartbeat, pt, b + Retention, Retention)
      BY <1>3, <3>2, <3>4, GrantedWhole
    <3> QED
      BY <3>3, <3>5, <3>6 DEF LeadGranted, RetentionGranted
  <2>10. WindowsKept'
    BY <1>1, <2>2, <2>4, <2>8, <2>9 DEF WindowsKept, AllCredited, LeadGranted, RetentionGranted
  <2> QED
    BY <1>2, <2>7, <2>10 DEF CreditInv
<1>7. CASE MarkActive
  <2>1. /\ state = "RESUMING" /\ state' = "ACTIVE"
        /\ UNCHANGED <<paid_through, suspend_not_before>>
    BY <1>7 DEF MarkActive, LapseInv, LoopsFollow
  <2>2. CyclesPast'
    BY <1>1, <2>1 DEF CreditInv, CyclesPast
  <2>3. WindowsKept'
    BY <1>1, <2>1 DEF CreditInv, WindowsKept, AllCredited, LeadGranted, RetentionGranted
  <2> QED
    BY <1>2, <2>2, <2>3 DEF CreditInv
<1>8. CASE ResumeFailureWrite
  <2>1. /\ state = "RESUMING" /\ state' = "SUSPENDED"
        /\ paid_through' = renew_resume.paid_through
        /\ suspend_not_before' = renew_resume.suspend_not_before
    BY <1>8 DEF ResumeFailureWrite, LapseInv, LoopsFollow
  <2>2. CyclesPast'
    BY <1>1, <2>1 DEF CreditInv, CyclesPast
  <2>3. WindowsKept'
    BY <1>1, <2>1 DEF CreditInv, WindowsKept, AllCredited, RetentionGranted
  <2> QED
    BY <1>2, <2>2, <2>3 DEF CreditInv
<1> QED
  BY <1>5, <1>6, <1>7, <1>8 DEF MaintenanceNext

(* A tick starts no cycle; its heartbeat vouches for the time it ran.      *)
LEMMA CreditReconcile ==
    ASSUME IInv, KeptInv, LapseInv, CreditInv, ReconcileNext, UNCHANGED history
    PROVE  CreditInv'
<1> USE DEF othersC, subVars, history
<1>1. /\ online \in SUBSET Nat /\ last_heartbeat \in Nat /\ now \in Nat /\ rec.t \in Nat
      /\ Epoch \in Nat
  BY CreditTypes
<1>2. /\ UNCHANGED <<now, renew_resume, paid_through, suspend_not_before, online, credited>>
      /\ \/ state' = state
         \/ state = "ACTIVE" /\ state' = "SUSPENDED"
         \/ state' \notin {"ACTIVE", "RESUMING", "SUSPENDED"}
  BY DEF ReconcileNext, ReconcileTick, FirePendingExpiry, FireSoftReminder, SuspendHook,
     SuspendWrite, StillDue, Repower, DestroyHook, DestroyRecheck, DestroyWrite, FinishTick
<1>3. CASE ~FinishTick
  <2>1. UNCHANGED <<daemon, last_heartbeat>>
    BY <1>3 DEF ReconcileNext, ReconcileTick, FirePendingExpiry, FireSoftReminder, SuspendHook,
       SuspendWrite, Repower, DestroyHook, DestroyRecheck, DestroyWrite
  <2>2. last_heartbeat..(last_heartbeat - 1) \subseteq online
    BY <1>1
  <2>3. CyclesPast' /\ WindowsKept'
    BY <1>1, <1>2, <2>1, <2>2, CreditQuiet
  <2>4. OnlineKnown'
    BY <1>2, <2>1 DEF CreditInv, OnlineKnown
  <2> QED
    BY <2>3, <2>4 DEF CreditInv
<1>4. CASE FinishTick
  <2>1. rec.pc = "finish" /\ daemon' = "up" /\ last_heartbeat' = Max2(last_heartbeat, rec.t)
    BY <1>4 DEF FinishTick, RecAt, WriteHeartbeat
  <2>2. daemon # "down" /\ rec.t <= now
    BY <2>1 DEF LapseInv, LoopsFollow
  <2>3. last_heartbeat..(now - 1) \subseteq online /\ last_heartbeat <= now
    BY <2>2 DEF CreditInv, OnlineKnown
  <2>4. PICK k \in Nat : k = last_heartbeat' /\ last_heartbeat <= k /\ k <= now
    BY <1>1, <2>1, <2>2, <2>3 DEF Max2
  <2>5. /\ last_heartbeat..(k - 1) \subseteq online /\ k..(now - 1) \subseteq online
    <3>1. last_heartbeat <= k /\ k <= now
      BY <2>4
    <3>2. \A x \in last_heartbeat..(k - 1) : x \in last_heartbeat..(now - 1)
      BY <1>1, <3>1
    <3>3. \A x \in k..(now - 1) : x \in last_heartbeat..(now - 1)
      BY <1>1, <3>1
    <3> QED
      BY <2>3, <3>2, <3>3
  <2>6. credited = {} => Epoch..(k - 1) \subseteq online
    <3>1. SUFFICES ASSUME credited = {}, NEW x \in Epoch..(k - 1) PROVE x \in online
      OBVIOUS
    <3>2. Epoch..(last_heartbeat - 1) \subseteq online
      BY <3>1 DEF CreditInv, OnlineKnown
    <3>3. x \in Epoch..(last_heartbeat - 1) \/ x \in last_heartbeat..(k - 1)
      BY <1>1
    <3> QED
      BY <2>5, <3>2, <3>3
  <2>7. OnlineKnown'
    BY <1>2, <2>4, <2>5, <2>6 DEF CreditInv, OnlineKnown
  <2>8. CyclesPast' /\ WindowsKept'
    BY <1>1, <1>2, <2>4, <2>5, CreditQuiet
  <2> QED
    BY <2>7, <2>8 DEF CreditInv
<1> QED
  BY <1>3, <1>4

(* The boot: the credit makes up for the outage, or the row is one that no *)
(* credit looks at, which is what NoTime stands for.                       *)
LEMMA CreditRestart ==
    ASSUME IInv, KeptInv, LapseInv, CreditInv, Restart
    PROVE  CreditInv'
<1>1. /\ online \in SUBSET Nat /\ last_heartbeat \in Nat /\ now \in Nat /\ Epoch \in Nat
      /\ paid_through \in Int /\ suspend_not_before \in Int /\ next_deadline \in Int
      /\ Eff \in Int /\ Eff >= paid_through
      /\ Lead \in Nat /\ Retention \in Nat /\ credited \in SUBSET Int
      /\ (state \in Serving => paid_through \in Nat)
  BY CreditTypes
<1>2. /\ last_heartbeat <= now /\ \A x \in online : x < now
      /\ \A c \in credited : c <= paid_through
      /\ state = "RESUMING" => \A c \in credited : c <= renew_resume.paid_through
  BY DEF CreditInv, OnlineKnown, CyclesPast
<1>3. /\ UNCHANGED <<now, renew_resume, online, state, paid_through>>
      /\ credited' = credited \cup {IF Creditable THEN paid_through ELSE NoTime}
      /\ daemon' = "boot"
  BY DEF Restart, ApplyRestartDowntimeCredit, bookVars
<1>4. last_heartbeat' = now
  BY <1>1, <1>2 DEF Restart, ApplyRestartDowntimeCredit, WriteHeartbeat, Max2
<1>5. OnlineKnown'
  <2>1. now..(now - 1) \subseteq online
    BY <1>1
  <2>2. credited' # {}
    BY <1>3
  <2>3. last_heartbeat' <= now' /\ \A x \in online' : x < now'
    BY <1>1, <1>2, <1>3, <1>4
  <2>4. last_heartbeat'..(now' - 1) \subseteq online'
    BY <1>3, <1>4, <2>1
  <2> QED
    BY <2>2, <2>3, <2>4 DEF OnlineKnown
<1>6. paid_through >= NoTime /\ (state = "RESUMING" => renew_resume.paid_through >= NoTime)
  BY DEF IInv, TypeOK, SubOK, BooksOK, PaidThroughs, NoTime
<1>7. CyclesPast'
  <2>1. \A c \in credited' : c <= paid_through
    BY <1>1, <1>2, <1>3, <1>6
  <2>2. state = "RESUMING" => ~Creditable
    BY DEF Creditable
  <2>3. state = "RESUMING" => \A c \in credited' : c <= renew_resume.paid_through
    BY <1>2, <1>3, <1>6, <2>2
  <2> QED
    BY <1>3, <2>1, <2>3 DEF CyclesPast
<1>8. ASSUME state \in {"ACTIVE", "RESUMING", "SUSPENDED"}, AllCredited'
      PROVE  Creditable /\ AllCredited
  <2>1. paid_through \in Nat
    BY <1>1, <1>8 DEF Serving
  <2>2. Creditable
    BY <1>3, <1>8, <2>1 DEF AllCredited, NoTime
  <2>3. AllCredited
    BY <1>3, <1>8 DEF AllCredited
  <2> QED
    BY <2>2, <2>3
<1>9. ~(state = "RESUMING" /\ credited' \subseteq {renew_resume.paid_through})
  <2>1. SUFFICES ASSUME state = "RESUMING", credited' \subseteq {renew_resume.paid_through}
                 PROVE FALSE
    OBVIOUS
  <2>2. NoTime \in credited'
    BY <1>3, <2>1 DEF Creditable
  <2>3. renew_resume.paid_through # NoTime
    BY <2>1 DEF KeptInv, ReceiptsCounted
  <2> QED
    BY <2>1, <2>2, <2>3
<1>10. CASE state = "ACTIVE" /\ AllCredited'
  <2>1. Creditable /\ AllCredited
    BY <1>8, <1>10
  <2>2. Eff >= last_heartbeat
    BY <1>10, <2>1 DEF Creditable, Eff
  <2>3. /\ Granted(online, last_heartbeat, SoftDate(paid_through), Eff, Lead)
        /\ Granted(online, last_heartbeat, paid_through, Eff + Retention, Retention)
    BY <1>10, <2>1 DEF CreditInv, WindowsKept, LeadGranted, RetentionGranted, Eff
  <2> DEFINE soft == SoftDate(paid_through)
             pre == Clamp(last_heartbeat - Max2(soft, Eff - Lead), 0, Lead)
  <2>4. soft \in Int /\ Eff >= soft + Lead /\ pre \in 0..Lead /\ Eff' \in Int
        /\ (last_heartbeat = now => Eff' = Eff)
        /\ (soft > now => Eff' = Eff)
        /\ (soft <= now /\ last_heartbeat < now => Eff' = Max2(Eff, now + (Lead - pre)))
    <3>1. soft \in Int /\ Eff >= soft + Lead
      BY <1>1 DEF SoftDate
    <3>2. pre \in 0..Lead
      BY <1>1, <3>1 DEF Clamp, Max2, Min2
    <3>3. last_heartbeat = now => UNCHANGED <<suspend_not_before, next_deadline>>
      BY <1>10, <1>1 DEF Restart, ApplyRestartDowntimeCredit
    <3>4. last_heartbeat < now => CreditActive
      BY <1>10, <1>1 DEF Restart, ApplyRestartDowntimeCredit
    <3>5. UNCHANGED suspend_not_before => Eff' = Eff
      BY <1>3 DEF Eff
    <3>6. last_heartbeat < now /\ soft > now => UNCHANGED suspend_not_before
      BY <1>1, <3>1, <3>4 DEF CreditActive
    <3>7. last_heartbeat < now /\ soft <= now =>
             \/ suspend_not_before' = Max2(Eff, now + (Lead - pre))
             \/ UNCHANGED suspend_not_before /\ Eff = Max2(Eff, now + (Lead - pre))
      BY <1>1, <2>2, <3>4 DEF CreditActive, WindowStart, Eff
    <3> HIDE DEF soft, pre
    <3>8. suspend_not_before' = Max2(Eff, now + (Lead - pre))
             => Eff' = Max2(Eff, now + (Lead - pre))
      BY <1>1, <1>3, <3>2 DEF Eff, EffectiveSuspendAt, Max2
    <3>9. (last_heartbeat = now => Eff' = Eff) /\ (soft > now => Eff' = Eff)
          /\ (soft <= now /\ last_heartbeat < now => Eff' = Max2(Eff, now + (Lead - pre)))
      BY <1>1, <1>2, <3>3, <3>5, <3>6, <3>7, <3>8
    <3>10. Eff' \in Int
      BY <1>1, <1>2, <3>1, <3>2, <3>9 DEF Max2
    <3> QED
      BY <3>1, <3>2, <3>9, <3>10
  <2>5. PICK new \in Int : new = Eff'
    BY <2>4
  <2>6. new >= Eff
    BY <1>1, <1>2, <2>4, <2>5 DEF Max2
  <2>7. Granted(online, now, soft, new, Lead)
    <3>1. CASE last_heartbeat = now
      BY <2>3, <2>4, <2>5, <3>1
    <3>2. CASE last_heartbeat < now /\ soft > now
      <4> HIDE DEF soft
      <4>1. soft \in Int /\ Eff >= soft + Lead /\ new = Eff
        BY <2>4, <2>5, <3>2
      <4> QED
        BY <1>1, <1>2, <2>3, <3>2, <4>1, LeadCredited DEF soft
    <3>3. CASE last_heartbeat < now /\ soft <= now
      <4>1. new >= now + (Lead - pre)
        BY <1>1, <2>4, <2>5, <3>3 DEF Max2
      <4> QED
        BY <1>1, <1>2, <2>2, <2>3, <2>4, <3>3, <4>1, LeadCredited
    <3> QED
      BY <1>1, <1>2, <2>4, <3>1, <3>2, <3>3
  <2>8. Granted(online, now, paid_through, new + Retention, Retention)
    <3>1. CASE last_heartbeat = now
      BY <2>3, <2>4, <2>5, <3>1
    <3>2. CASE last_heartbeat < now
      <4>1. new >= now
        <5>1. CASE soft > now
          BY <1>1, <2>4, <2>6, <5>1
        <5>2. CASE soft <= now
          BY <1>1, <2>4, <2>5, <3>2, <5>2 DEF Max2
        <5> QED
          BY <1>1, <2>4, <5>1, <5>2
      <4> QED
        BY <1>1, <1>2, <2>3, <2>6, <4>1, RetentionCredited
    <3> QED
      BY <1>1, <1>2, <3>1, <3>2
  <2>9. /\ LeadGranted(paid_through, suspend_not_before)'
        /\ RetentionGranted(paid_through, suspend_not_before)'
    BY <1>3, <1>4, <2>5, <2>7, <2>8 DEF LeadGranted, RetentionGranted, Eff
  <2>10. WindowsKept'
    BY <1>3, <1>10, <2>9 DEF WindowsKept
  <2> QED
    BY <1>5, <1>7, <2>10 DEF CreditInv
<1>11. CASE state = "SUSPENDED" /\ AllCredited'
  <2>1. AllCredited
    BY <1>8, <1>11
  <2>2. Granted(online, last_heartbeat, paid_through, Eff + Retention, Retention)
    BY <1>11, <2>1 DEF CreditInv, WindowsKept, RetentionGranted, Eff
  <2>3. next_deadline = Eff + Retention
    BY <1>11 DEF LapseInv, CursorRight
  <2> DEFINE left == Clamp(Eff + Retention - last_heartbeat, 0, Retention)
             floor == Max2(Eff, now + left - Retention)
  <2>4. left \in 0..Retention
    BY <1>1 DEF Clamp, Max2, Min2
  <2>5. last_heartbeat = now => UNCHANGED suspend_not_before
    BY <1>11, <1>1 DEF Restart, ApplyRestartDowntimeCredit
  <2>6. last_heartbeat < now => CreditSuspended
    BY <1>11, <1>1 DEF Restart, ApplyRestartDowntimeCredit
  <2>7. last_heartbeat < now =>
           IF Eff <= now /\ Eff + Retention > last_heartbeat /\ floor + Retention > next_deadline
           THEN suspend_not_before' = floor
           ELSE UNCHANGED suspend_not_before
    BY <1>1, <2>6 DEF CreditSuspended, RemainingRetention, Eff
  <2> HIDE DEF left
  <2>8. floor \in Int /\ floor >= Eff /\ floor >= now + left - Retention
    BY <1>1, <2>4 DEF Max2
  <2> HIDE DEF floor
  <2>9. UNCHANGED suspend_not_before => Eff' = Eff
    BY <1>3 DEF Eff
  <2>10. suspend_not_before' = floor => Eff' = floor
    BY <1>1, <1>3, <2>8 DEF Eff, EffectiveSuspendAt, Max2
  <2>11. PICK new \in Int : new = Eff' /\ new >= Eff
    BY <1>1, <1>2, <2>5, <2>7, <2>8, <2>9, <2>10
  <2>12. Granted(online, now, paid_through, new + Retention, Retention)
    <3>1. CASE last_heartbeat = now
      BY <2>2, <2>5, <2>9, <2>11, <3>1
    <3>2. CASE last_heartbeat < now
      <4>1. \/ new >= now
            \/ Eff + Retention <= last_heartbeat
            \/ new + Retention >= now + left
        <5>1. CASE Eff > now
          BY <1>1, <2>11, <5>1
        <5>2. CASE Eff <= now /\ Eff + Retention > last_heartbeat
                   /\ floor + Retention > next_deadline
          <6>1. new = floor
            BY <2>7, <2>10, <2>11, <3>2, <5>2
          <6> QED
            BY <1>1, <2>4, <2>8, <6>1
        <5>3. CASE floor + Retention <= next_deadline
          <6>1. new \in Int /\ new >= Eff /\ Eff + Retention >= floor + Retention
            BY <2>3, <2>11, <5>3
          <6> QED
            BY <1>1, <2>4, <2>8, <6>1
        <5> QED
          BY <1>1, <2>8, <5>1, <5>2, <5>3
      <4> QED
        BY <1>1, <1>2, <2>2, <2>11, <4>1, RetentionCredited DEF left
    <3> QED
      BY <1>1, <1>2, <3>1, <3>2
  <2>13. RetentionGranted(paid_through, suspend_not_before)'
    BY <1>3, <1>4, <2>11, <2>12 DEF RetentionGranted, Eff
  <2>14. WindowsKept'
    BY <1>3, <1>11, <2>13 DEF WindowsKept
  <2> QED
    BY <1>5, <1>7, <2>14 DEF CreditInv
<1>12. CASE state \notin {"ACTIVE", "SUSPENDED"} \/ ~AllCredited'
  <2>1. ~(state \in {"ACTIVE", "RESUMING", "SUSPENDED"} /\ AllCredited')
    BY <1>8, <1>12 DEF Creditable
  <2>2. WindowsKept'
    BY <1>3, <1>9, <2>1 DEF WindowsKept
  <2> QED
    BY <1>5, <1>7, <2>2 DEF CreditInv
<1> QED
  BY <1>10, <1>11, <1>12

(* Nothing else starts a cycle either.                                     *)
LEMMA CreditElse ==
    ASSUME IInv, KeptInv, CreditInv,
           \/ IntakeNext /\ UNCHANGED history
           \/ Tick \/ Crash \/ BootDrivesDone \/ UNCHANGED vars
           \/ \E e \in DOMAIN invoice \cup Strays : Pay(e)
    PROVE  CreditInv'
<1> USE DEF history, envVars, subVars, bookVars
<1>1. online \in SUBSET Nat /\ last_heartbeat \in Nat /\ now \in Nat
  BY CreditTypes
<1>2. last_heartbeat..(last_heartbeat - 1) \subseteq online
  BY <1>1
<1>3. CASE Tick
  <2>1. /\ now' = now + 1 /\ online' = IF daemon = "down" THEN online ELSE online \cup {now}
        /\ UNCHANGED <<daemon, last_heartbeat, state, paid_through, suspend_not_before,
                       renew_resume, credited>>
    BY <1>3 DEF Tick
  <2>2. PICK T \in SUBSET Nat : /\ T = online' /\ online \subseteq T
                                /\ T \subseteq online \cup {now}
                                /\ daemon # "down" => now \in T
    BY <1>1, <2>1
  <2>3. CyclesPast' /\ WindowsKept'
    <3>1. last_heartbeat..(last_heartbeat - 1) \subseteq T
      BY <1>2, <2>2
    <3> QED
      BY <1>1, <2>1, <2>2, <3>1, CreditQuiet
  <2>4. OnlineKnown'
    <3>1. last_heartbeat' <= now' /\ \A x \in online' : x < now'
      BY <1>1, <2>1, <2>2 DEF CreditInv, OnlineKnown
    <3>2. daemon # "down" => last_heartbeat..now \subseteq T
      <4>1. \A x \in last_heartbeat..now : x = now \/ x \in last_heartbeat..(now - 1)
        BY <1>1
      <4> QED
        BY <2>2, <4>1 DEF CreditInv, OnlineKnown
    <3>3. now' - 1 = now
      BY <1>1, <2>1
    <3>4. credited = {} => Epoch..(last_heartbeat - 1) \subseteq T
      BY <2>2 DEF CreditInv, OnlineKnown
    <3> QED
      BY <2>1, <2>2, <3>1, <3>2, <3>3, <3>4 DEF OnlineKnown
  <2> QED
    BY <2>3, <2>4 DEF CreditInv
<1>4. CASE ~Tick
  <2>1. /\ UNCHANGED <<now, last_heartbeat, paid_through, suspend_not_before, renew_resume,
                       online, credited>>
        /\ state' = state \/ state' = "CANCELLED"
        /\ daemon' # "down" => daemon # "down"
    <3>1. CASE IntakeNext /\ UNCHANGED history
      BY <3>1 DEF IntakeNext, HandleRenew, IssueRenewal, CancelWrite, othersI
    <3>2. CASE Crash \/ BootDrivesDone \/ UNCHANGED vars
      BY <3>2 DEF Crash, BootDrivesDone, vars
    <3>3. CASE \E e \in DOMAIN invoice \cup Strays : Pay(e)
      BY <3>3 DEF Pay
    <3> QED
      BY <1>4, <3>1, <3>2, <3>3
  <2>2. OnlineKnown'
    BY <2>1 DEF CreditInv, OnlineKnown
  <2>3. CyclesPast' /\ WindowsKept'
    BY <1>1, <1>2, <2>1, CreditQuiet
  <2> QED
    BY <2>2, <2>3 DEF CreditInv
<1> QED
  BY <1>3, <1>4

(* Nothing is paid for and no time has passed.                             *)
LEMMA CreditInvInit == Init => CreditInv
<1> SUFFICES ASSUME Init PROVE CreditInv
  OBVIOUS
<1>1. /\ now = Epoch /\ last_heartbeat = Epoch /\ online = {} /\ credited = {}
      /\ state = "PENDING"
  BY DEF Init
<1>2. Epoch \in Nat
  BY TimersAssumption
<1>3. Epoch..(Epoch - 1) = {}
  BY <1>2
<1> QED
  BY <1>1, <1>2, <1>3 DEF CreditInv, OnlineKnown, CyclesPast, WindowsKept

(* The windows are kept.                                                   *)
LEMMA CreditInvAlways == ASSUME Lead + 2 <= Period, ~AdminActs PROVE Spec => []CreditInv
<1>1. IInv /\ KeptInv /\ BoxInv /\ LapseInv /\ CreditInv /\ [Next]_vars => CreditInv'
  BY CreditCapture, CreditMaintenance, CreditReconcile, CreditRestart, CreditElse
     DEF Next, AdminNext
<1> QED
  BY <1>1, CreditInvInit, IInvAlways, KeptInvAlways, BoxInvAlways, LapseInvAlways, PTL DEF Spec

(* An outage costs the buyer neither window of a cycle every restart gave  *)
(* its credit: the daemon was running for a whole renew_lead before the    *)
(* suspension, and for a whole retention_s between lapse and destruction.  *)
THEOREM OutagesAreCredited ==
    ASSUME Lead + 2 <= Period, ~AdminActs PROVE Spec => CreditedOnline
<1> DEFINE Susp == LapseSuspends /\ AllCredited => OnlineSince(SoftDate(paid_through)) >= Lead
           Term == state = "SUSPENDED" /\ state' = "TERMINATED" /\ AllCredited =>
                      OnlineSince(EffectiveSuspendAt(paid_through, NoTime)) >= Retention
<1>1. ASSUME IInv, KeptInv, LapseInv, CreditInv, [Next]_vars PROVE Susp
  <2>1. SUFFICES ASSUME state = "ACTIVE", state' = "SUSPENDED", AllCredited
                 PROVE  OnlineSince(SoftDate(paid_through)) >= Lead
    BY DEF LapseSuspends
  <2>2. SuspendWrite /\ StillDue({"ACTIVE"})
    BY <1>1, <2>1, LapseSteps
  <2>3. rec.pc = "suspend_write" /\ next_deadline = rec.nd
    BY <2>2 DEF SuspendWrite, StillDue, RecAt
  <2>4. rec.eff = Eff /\ rec.eff <= rec.t /\ rec.t <= now /\ daemon # "down"
    BY <1>1, <2>1, <2>3, LapseTypes DEF LapseInv, SnapshotFresh, CursorRight, LoopsFollow, SoftDate,
       Lapsing, Suspending
  <2>5. /\ now \in Nat /\ paid_through \in Int /\ Eff \in Int /\ Lead \in Nat /\ rec.t \in Nat
    BY <1>1, CreditTypes
  <2>6. Granted(online, last_heartbeat, SoftDate(paid_through), Eff, Lead)
    BY <1>1, <2>1 DEF CreditInv, WindowsKept, LeadGranted, Eff
  <2>7. SoftDate(paid_through) \in Int /\ Eff <= now
    BY <2>4, <2>5 DEF SoftDate
  <2> QED
    BY <1>1, <2>4, <2>5, <2>6, <2>7, GrantedSpent
<1>2. ASSUME IInv, KeptInv, LapseInv, CreditInv, [Next]_vars PROVE Term
  <2>1. SUFFICES ASSUME state = "SUSPENDED", state' = "TERMINATED", AllCredited
                 PROVE  OnlineSince(EffectiveSuspendAt(paid_through, NoTime)) >= Retention
    OBVIOUS
  <2>2. DestroyWrite /\ StillDue({"SUSPENDED", "CANCELLED"})
    BY <1>2, <2>1, LapseSteps
  <2>3. rec.pc = "destroy_write" /\ next_deadline = rec.nd
    BY <2>2 DEF DestroyWrite, StillDue, RecAt
  <2>4. rec.nd <= rec.t /\ rec.t <= now /\ next_deadline = Eff + Retention /\ daemon # "down"
    BY <1>2, <2>1, <2>3 DEF LapseInv, SnapshotFresh, CursorRight, LoopsFollow, Destroying
  <2>5. /\ now \in Nat /\ paid_through \in Nat /\ Eff \in Int /\ Retention \in Nat
        /\ rec.t \in Nat
    BY <1>2, <2>1, CreditTypes DEF Serving
  <2>6. Granted(online, last_heartbeat, paid_through, Eff + Retention, Retention)
    BY <1>2, <2>1 DEF CreditInv, WindowsKept, RetentionGranted, Eff
  <2>7. Eff + Retention \in Int /\ Eff + Retention <= now
    BY <2>3, <2>4, <2>5
  <2>8. OnlineSince(paid_through) >= Retention
    BY <1>2, <2>4, <2>5, <2>6, <2>7, GrantedSpent
  <2>9. EffectiveSuspendAt(paid_through, NoTime) = paid_through
    BY <2>5 DEF EffectiveSuspendAt, Max2, NoTime
  <2> QED
    BY <2>8, <2>9
<1>3. IInv /\ KeptInv /\ LapseInv /\ CreditInv /\ [Next]_vars => [Susp]_vars /\ [Term]_vars
  BY <1>1, <1>2
<1> QED
  BY <1>3, IInvAlways, KeptInvAlways, LapseInvAlways, CreditInvAlways, PTL
     DEF Spec, CreditedOnline, CreditedLeadOnline, CreditedRetentionOnline
=============================================================================
