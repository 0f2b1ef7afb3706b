--------------------------- MODULE CapacityProofs ---------------------------
(***************************************************************************)
(* Proofs about Capacity, for every set of orders and buyers, every number *)
(* of concurrent deliveries, every budget and any number of faults.        *)
(*                                                                         *)
(* What makes it inductive is who owns a hold: until the request is        *)
(* answered nobody gives its hold back (Unanswered), only a delivery that  *)
(* saw a refusal cached does (Releasing), and unless a crash or a failed   *)
(* store call cut it short, a hold without an order has a delivery that    *)
(* will either commit the order or release it (Owned).                     *)
(*                                                                         *)
(* The budgets rest on it: an order commits on a hold that is still live,  *)
(* since its invoice is minted within the hold's hour (Fresh), so only a   *)
(* reserve that found room makes anything live (NInv).                     *)
(***************************************************************************)
EXTENDS Capacity, FiniteSetTheorems, TLAPS

Truthful(o) ==
    /\ cached[o] = "invoice" <=> sub[o] # "none"
    /\ sub[o] = "none" => order_invoice[o] = "none"
    /\ sub[o] \in {"PENDING", "PROVISIONING", "REFUND_DUE"} => resv[o] = "HELD"
    /\ sub[o] = "ACTIVE" <=> resv[o] = "CONSUMED"
Releasing(o) == \A h \in Handlers : At(h, "release", o) => cached[o] = "error"
Unanswered(o) ==
    cached[o] = "none" =>
        /\ resv[o] \in {"none", "HELD"}
        /\ \A h \in Handlers : Minting(h, o) => resv[o] = "HELD"
Owned(o) ==
    cached[o] # "invoice" /\ resv[o] = "HELD" /\ o \notin cut => \E h \in Handlers : Working(h, o)

OrderOK(o) == Truthful(o) /\ Releasing(o) /\ Unanswered(o) /\ Owned(o)
CInv == CapacityTypeOK /\ ~hold_lost /\ \A o \in Orders : OrderOK(o)

-----------------------------------------------------------------------------
(* Before the first request nobody holds anything.                         *)
LEMMA CInvInit == Init => CInv
<1> SUFFICES ASSUME Init PROVE CInv
  OBVIOUS
<1>1. CapacityTypeOK /\ ~hold_lost
  BY DEF Init, CapacityTypeOK, Idle
<1>2. \A h \in Handlers, o \in Orders, pc \in {"issue", "write", "release"} : ~At(h, pc, o)
  BY DEF Init, At, Idle
<1>3. \A o \in Orders : OrderOK(o)
  BY <1>2 DEF Init, OrderOK, Truthful, Releasing, Unanswered, Owned, Minting
<1> QED
  BY <1>1, <1>3 DEF CInv

(* A delivery stands at one step, for one order.                           *)
LEMMA OneStep ==
    ASSUME NEW h \in Handlers, NEW o, NEW p, NEW pc, NEW qc, At(h, pc, o), At(h, qc, p)
    PROVE  pc = qc /\ o = p
<1>1. [pc |-> pc, order |-> {o}].pc = [pc |-> qc, order |-> {p}].pc
  BY DEF At
<1>2. [pc |-> pc, order |-> {o}].order = [pc |-> qc, order |-> {p}].order
  BY DEF At
<1> QED
  BY <1>1, <1>2

(* One delivery moves; the others stay where they are.                     *)
LEMMA GoMoves ==
    ASSUME CapacityTypeOK, NEW h \in Handlers, NEW o \in Orders,
           NEW pc \in {"reserve", "issue", "write", "refuse", "refuse_release", "release"},
           Go(h, pc, o)
    PROVE  /\ At(h, pc, o)'
           /\ handler' \in [Handlers -> [pc : {"idle", "reserve", "issue", "write", "refuse",
                                               "refuse_release", "release"},
                                         order : {{}} \cup {{q} : q \in Orders}]]
           /\ \A k \in Handlers \ {h} : handler'[k] = handler[k]
  BY DEF CapacityTypeOK, Go, At

(* An idle delivery works for no order.                                    *)
LEMMA IdleIsNowhere == \A pc, o : Idle # [pc |-> pc, order |-> {o}]
<1> SUFFICES ASSUME NEW pc, NEW o, Idle = [pc |-> pc, order |-> {o}] PROVE FALSE
  OBVIOUS
<1>1. Idle.order = {o}
  OBVIOUS
<1> QED
  BY <1>1 DEF Idle

(* A delivery that is done leaves; the others stay where they are.         *)
LEMMA DoneMoves ==
    ASSUME CapacityTypeOK, NEW h \in Handlers, Done(h)
    PROVE  /\ handler'[h] = Idle
           /\ \A pc, o : ~At(h, pc, o)'
           /\ handler' \in [Handlers -> [pc : {"idle", "reserve", "issue", "write", "refuse",
                                               "refuse_release", "release"},
                                         order : {{}} \cup {{q} : q \in Orders}]]
           /\ \A k \in Handlers \ {h} : handler'[k] = handler[k]
<1>1. handler' \in [Handlers -> [pc : {"idle", "reserve", "issue", "write", "refuse",
                                       "refuse_release", "release"},
                                 order : {{}} \cup {{q} : q \in Orders}]]
      /\ handler'[h] = Idle /\ \A k \in Handlers \ {h} : handler'[k] = handler[k]
  BY DEF CapacityTypeOK, Done, Idle
<1> QED
  BY <1>1, IdleIsNowhere DEF At

(* A delivery of o moves within o: what stands at another order, and every *)
(* other delivery of o, is as it was.                                      *)
LEMMA Elsewhere ==
    ASSUME CapacityTypeOK, NEW h \in Handlers, NEW o \in Orders,
           handler[h] = Idle \/ \E qc : At(h, qc, o),
           \/ Done(h)
           \/ \E pc \in {"reserve", "issue", "write", "refuse", "refuse_release", "release"} :
                 Go(h, pc, o)
    PROVE  /\ \A k \in Handlers, p \in Orders : \A pc : p # o => (At(k, pc, p)' <=> At(k, pc, p))
           /\ \A k \in Handlers \ {h} : \A pc : At(k, pc, o)' <=> At(k, pc, o)
<1>1. \A k \in Handlers \ {h} : handler'[k] = handler[k]
  BY GoMoves, DoneMoves
<1>2. \A pc, p : p # o => ~At(h, pc, p)
  <2>1. CASE handler[h] = Idle
    BY <2>1, IdleIsNowhere DEF At
  <2>2. CASE \E qc : At(h, qc, o)
    BY <2>2, OneStep
  <2> QED
    BY <2>1, <2>2
<1>3. \A pc, p : p # o => ~At(h, pc, p)'
  <2>1. CASE Done(h)
    BY <2>1, DoneMoves
  <2>2. CASE \E qc \in {"reserve", "issue", "write", "refuse", "refuse_release", "release"} :
                 Go(h, qc, o)
    <3>1. PICK qc : handler'[h] = [pc |-> qc, order |-> {o}]
      BY <2>2, GoMoves DEF At
    <3> SUFFICES ASSUME NEW pc, NEW p, p # o, handler'[h] = [pc |-> pc, order |-> {p}]
                 PROVE FALSE
      BY DEF At
    <3>2. handler'[h].order = {o} /\ handler'[h].order = {p}
      BY <3>1
    <3> QED
      BY <3>2
  <2> QED
    BY <2>1, <2>2
<1> QED
  BY <1>1, <1>2, <1>3 DEF At

-----------------------------------------------------------------------------
(* An order is untouched by a step that leaves its rows and its deliveries *)
(* alone.                                                                  *)
LEMMA Keeps ==
    ASSUME CInv, NEW p \in Orders,
           \A k \in Handlers : \A pc : At(k, pc, p)' <=> At(k, pc, p),
           cached'[p] = cached[p], sub'[p] = sub[p], resv'[p] = resv[p],
           order_invoice'[p] = order_invoice[p], p \notin cut' => p \notin cut
    PROVE  OrderOK(p)'
  BY DEF CInv, OrderOK, Truthful, Releasing, Unanswered, Owned, Minting, Working

(* Where a delivery of o that moves now stands.                            *)
LEMMA Stands ==
    ASSUME CapacityTypeOK, NEW h \in Handlers, NEW o \in Orders
    PROVE  /\ \A pc \in {"reserve", "issue", "write", "refuse", "refuse_release", "release"} :
                 Go(h, pc, o) => \A qc : At(h, qc, o)' <=> qc = pc
           /\ Done(h) => \A qc : ~At(h, qc, o)'
           /\ \A pc : At(h, pc, o) => \A qc : At(h, qc, o) <=> qc = pc
           /\ handler[h] = Idle => \A qc : ~At(h, qc, o)
<1>1. ASSUME NEW pc \in {"reserve", "issue", "write", "refuse", "refuse_release", "release"},
             Go(h, pc, o), NEW qc
      PROVE  At(h, qc, o)' <=> qc = pc
  <2>1. handler'[h] = [pc |-> pc, order |-> {o}]
    BY <1>1, GoMoves DEF At
  <2>2. handler'[h] = [pc |-> qc, order |-> {o}] => handler'[h].pc = qc
    OBVIOUS
  <2> QED
    BY <2>1, <2>2 DEF At
<1> QED
  BY <1>1, DoneMoves, OneStep, IdleIsNowhere DEF At

(* A delivery's step: the answer it finds or writes, and the hold it keeps *)
(* or gives back.                                                          *)
LEMMA IntakeStep ==
    ASSUME CInv, NEW h \in Handlers, NEW o \in Orders, Intake(h, o)
    PROVE  CInv'
<1> DEFINE Moves == \/ Done(h)
                    \/ \E pc \in {"reserve", "issue", "write", "refuse", "refuse_release",
                                  "release"} : Go(h, pc, o)
<1> DEFINE PCs == {"idle", "reserve", "issue", "write", "refuse", "refuse_release", "release"}
<1>1. (handler[h] = Idle \/ \E qc : At(h, qc, o)) /\ Moves
  BY DEF Intake, HandleOrder, Reserve, IssueInvoice, OrderWrite, OrderWriteFails, FailOrder,
     Release, StoreFails, Duplicate, ListingGone, HoldLost, Committed
<1>2. handler' \in [Handlers -> [pc : PCs, order : {{}} \cup {{q} : q \in Orders}]]
  BY <1>1, GoMoves, DoneMoves DEF CInv
<1>3. /\ \A k \in Handlers, p \in Orders : \A pc : p # o => (At(k, pc, p)' <=> At(k, pc, p))
      /\ \A k \in Handlers \ {h} : \A pc : At(k, pc, o)' <=> At(k, pc, o)
  BY <1>1, Elsewhere DEF CInv
<1>4. \A p \in Orders : p \notin cut' => p \notin cut
  BY DEF Intake, HandleOrder, Reserve, IssueInvoice, OrderWrite, OrderWriteFails, FailOrder,
     Release, StoreFails, history
<1>5. /\ \A pc \in PCs \ {"idle"} : Go(h, pc, o) => \A qc : At(h, qc, o)' <=> qc = pc
      /\ Done(h) => \A qc : ~At(h, qc, o)'
      /\ \A pc : At(h, pc, o) => \A qc : At(h, qc, o) <=> qc = pc
      /\ handler[h] = Idle => \A qc : ~At(h, qc, o)
  BY Stands DEF CInv
<1> HIDE DEF Moves
<1>0. /\ now \in Nat /\ HoldTTL \in Nat /\ minted' \in [Handlers -> Nat]
      /\ faults' \in Nat /\ cut' \subseteq Orders /\ UNCHANGED revived
  <2>0. UNCHANGED revived
    BY DEF Intake, HandleOrder, Reserve, IssueInvoice, OrderWrite, OrderWriteFails, FailOrder,
       Release, StoreFails, history
  <2>1. now \in Nat /\ HoldTTL \in Nat /\ faults \in Nat /\ cut \subseteq Orders
        /\ minted \in [Handlers -> Nat]
    BY CapacityAssumption DEF CInv, CapacityTypeOK
  <2>2. \A e \in now + 1..now + HoldTTL : e \in Nat
    BY <2>1
  <2>3. faults' \in Nat /\ cut' \subseteq Orders
    BY <2>1 DEF Intake, HandleOrder, Reserve, IssueInvoice, OrderWrite, OrderWriteFails,
       FailOrder, Release, StoreFails, history, envVars
  <2>4. \/ UNCHANGED minted
        \/ minted' = [minted EXCEPT ![h] = 0]
        \/ \E e \in now + 1..now + HoldTTL : minted' = [minted EXCEPT ![h] = e]
    BY DEF Intake, HandleOrder, Reserve, IssueInvoice, OrderWrite, OrderWriteFails, FailOrder,
       Release, StoreFails
  <2> QED
    BY <2>0, <2>1, <2>2, <2>3, <2>4
<1> USE DEF envVars, resvVars, subVars, history
<1>6. CASE HandleOrder(h, o)
  <2>1. CapacityTypeOK' /\ ~hold_lost'
    BY <1>0, <1>2, <1>6 DEF HandleOrder, CInv, CapacityTypeOK
  <2>2. \A p \in Orders \ {o} : OrderOK(p)'
    BY <1>3, <1>4, <1>6, Keeps DEF HandleOrder
  <2>3. OrderOK(o)'
    BY <1>3, <1>4, <1>5, <1>6 DEF HandleOrder, CInv, OrderOK, Truthful, Releasing, Unanswered,
       Owned, Minting, Working
  <2> QED
    BY <2>1, <2>2, <2>3 DEF CInv
<1>7. CASE Reserve(h, o)
  <2>1. CapacityTypeOK' /\ ~hold_lost'
    <3>1. now + HoldTTL \in Nat
      BY <1>0
    <3>2. resv' \in [Orders -> {"none", "HELD", "CONSUMED", "RELEASED"}]
          /\ expires_at' \in [Orders -> Nat]
      BY <1>7, <3>1 DEF Reserve, CInv, CapacityTypeOK
    <3> QED
      BY <1>0, <1>2, <1>7, <3>2 DEF Reserve, CInv, CapacityTypeOK
  <2>2. \A p \in Orders \ {o} : OrderOK(p)'
    BY <1>3, <1>4, <1>7, Keeps DEF Reserve, CInv, CapacityTypeOK
  <2>3. OrderOK(o)'
    <3>1. \/ /\ resv'[o] = resv[o]
             /\ resv[o] = "CONSUMED" \/ Done(h) \/ Go(h, "refuse_release", o)
          \/ resv[o] \in {"none", "HELD"} /\ resv'[o] = "HELD" /\ Go(h, "issue", o)
      BY <1>7 DEF Reserve, CInv, CapacityTypeOK
    <3>2. Truthful(o)'
      BY <1>7, <3>1 DEF Reserve, CInv, OrderOK, Truthful
    <3>3. Releasing(o)'
      BY <1>3, <1>5, <1>7 DEF Reserve, CInv, OrderOK, Releasing
    <3>4. Unanswered(o)'
      BY <1>3, <1>5, <1>7, <3>1 DEF Reserve, CInv, OrderOK, Unanswered, Minting
    <3>5. Owned(o)'
      BY <1>3, <1>4, <1>5, <1>7, <3>1 DEF Reserve, CInv, OrderOK, Owned, Working
    <3> QED
      BY <3>2, <3>3, <3>4, <3>5 DEF OrderOK
  <2> QED
    BY <2>1, <2>2, <2>3 DEF CInv
<1>8. CASE IssueInvoice(h, o) \/ OrderWriteFails(h, o)
  <2>1. CapacityTypeOK' /\ ~hold_lost'
    BY <1>0, <1>2, <1>8 DEF IssueInvoice, OrderWriteFails, CInv, CapacityTypeOK
  <2>2. \A p \in Orders \ {o} : OrderOK(p)'
    BY <1>3, <1>4, <1>8, Keeps DEF IssueInvoice, OrderWriteFails
  <2>3. OrderOK(o)'
    BY <1>3, <1>4, <1>5, <1>8 DEF IssueInvoice, OrderWriteFails, CInv, OrderOK, Truthful,
       Releasing, Unanswered, Owned, Minting, Working
  <2> QED
    BY <2>1, <2>2, <2>3 DEF CInv
<1>9. CASE OrderWrite(h, o) /\ cached[o] # "none"
  <2>1. Duplicate(h, o) /\ UNCHANGED envVars /\ At(h, "write", o)
    BY <1>9 DEF OrderWrite
  <2>2. CapacityTypeOK' /\ ~hold_lost'
    BY <1>0, <1>2, <2>1 DEF Duplicate, CInv, CapacityTypeOK
  <2>3. \A p \in Orders \ {o} : OrderOK(p)'
    BY <1>3, <1>4, <2>1, Keeps DEF Duplicate
  <2>4. OrderOK(o)'
    BY <1>3, <1>4, <1>5, <1>9, <2>1 DEF Duplicate, InvoiceKeepsHold, CInv, CapacityTypeOK, OrderOK,
       Truthful, Releasing, Unanswered, Owned, Minting, Working
  <2> QED
    BY <2>2, <2>3, <2>4 DEF CInv
<1>10. CASE OrderWrite(h, o) /\ cached[o] = "none" /\ ~listing
  <2>1. ListingGone(h, o) /\ UNCHANGED envVars /\ At(h, "write", o)
    BY <1>10 DEF OrderWrite
  <2>2. CapacityTypeOK' /\ ~hold_lost'
    BY <1>0, <1>2, <2>1 DEF ListingGone, CInv, CapacityTypeOK
  <2>3. \A p \in Orders \ {o} : OrderOK(p)'
    BY <1>3, <1>4, <2>1, Keeps DEF ListingGone, CInv, CapacityTypeOK
  <2>4. cached'[o] = "error" /\ resv'[o] = "RELEASED"
    BY <2>1 DEF ListingGone, CInv, CapacityTypeOK
  <2>5. OrderOK(o)'
    BY <1>10, <2>1, <2>4 DEF ListingGone, CInv, OrderOK, Truthful, Releasing, Unanswered, Owned
  <2> QED
    BY <2>2, <2>3, <2>5 DEF CInv
<1>11. CASE OrderWrite(h, o) /\ cached[o] = "none" /\ listing
  <2>1. resv[o] = "HELD" /\ At(h, "write", o) /\ sub[o] = "none"
    BY <1>11 DEF OrderWrite, CInv, CapacityTypeOK, OrderOK, Truthful, Unanswered, Minting
  <2>2. Committed(h, o) /\ UNCHANGED envVars
    BY <1>11, <2>1 DEF OrderWrite
  <2>3. CapacityTypeOK' /\ ~hold_lost'
    <3>1. minted[h] \in Nat
      BY DEF CInv, CapacityTypeOK
    <3> QED
      BY <1>0, <1>2, <2>2, <3>1 DEF Committed, CInv, CapacityTypeOK
  <2>4. \A p \in Orders \ {o} : OrderOK(p)'
    BY <1>3, <1>4, <2>2, Keeps DEF Committed, CInv, CapacityTypeOK
  <2>5. cached'[o] = "invoice" /\ sub'[o] = "PENDING" /\ resv'[o] = "HELD"
    BY <2>1, <2>2 DEF Committed, CInv, CapacityTypeOK
  <2>6. \A k \in Handlers : ~At(k, "release", o)'
    BY <1>3, <1>5, <1>11, <2>2 DEF Committed, CInv, OrderOK, Releasing
  <2>7. OrderOK(o)'
    BY <2>5, <2>6 DEF OrderOK, Truthful, Releasing, Unanswered, Owned
  <2> QED
    BY <2>3, <2>4, <2>7 DEF CInv
<1>12. CASE FailOrder(h, o)
  <2>1. cached'[o] = IF cached[o] = "none" THEN "error" ELSE cached[o]
    BY <1>12 DEF FailOrder, CacheError, CInv, CapacityTypeOK
  <2>2. CapacityTypeOK' /\ ~hold_lost'
    BY <1>0, <1>2, <1>12 DEF FailOrder, CacheError, CInv, CapacityTypeOK
  <2>3. \A p \in Orders \ {o} : OrderOK(p)'
    BY <1>3, <1>4, <1>12, Keeps DEF FailOrder, CacheError, CInv, CapacityTypeOK
  <2>4. Truthful(o)' /\ Unanswered(o)'
    BY <1>12, <2>1 DEF FailOrder, CInv, CapacityTypeOK, OrderOK, Truthful, Unanswered
  <2>5. Releasing(o)'
    BY <1>3, <1>5, <1>12, <2>1 DEF FailOrder, InvoiceKeepsHold, CInv, CapacityTypeOK, OrderOK,
       Releasing
  <2>6. Owned(o)'
    BY <1>3, <1>4, <1>5, <1>12, <2>1 DEF FailOrder, InvoiceKeepsHold, CInv, CapacityTypeOK, OrderOK,
       Owned, Working
  <2> QED
    BY <2>2, <2>3, <2>4, <2>5, <2>6 DEF CInv, OrderOK
<1>13. CASE Release(h, o)
  <2>1. cached[o] = "error" /\ sub[o] = "none" /\ order_invoice[o] = "none"
    BY <1>13 DEF Release, CInv, CapacityTypeOK, OrderOK, Truthful, Releasing
  <2>2. CapacityTypeOK' /\ ~hold_lost'
    BY <1>0, <1>2, <1>13 DEF Release, CInv, CapacityTypeOK
  <2>3. \A p \in Orders \ {o} : OrderOK(p)'
    BY <1>3, <1>4, <1>13, Keeps DEF Release, CInv, CapacityTypeOK
  <2>4. resv'[o] \in {"none", "RELEASED"}
    BY <1>13 DEF Release, CInv, CapacityTypeOK
  <2>5. OrderOK(o)'
    BY <1>13, <2>1, <2>4 DEF Release, OrderOK, Truthful, Releasing, Unanswered, Owned
  <2> QED
    BY <2>2, <2>3, <2>5 DEF CInv
<1>14. CASE StoreFails(h, o)
  <2>1. CapacityTypeOK' /\ ~hold_lost'
    BY <1>0, <1>2, <1>14 DEF StoreFails, CInv, CapacityTypeOK
  <2>2. \A p \in Orders \ {o} : OrderOK(p)'
    BY <1>3, <1>4, <1>14, Keeps DEF StoreFails
  <2>3. Truthful(o)' /\ Unanswered(o)' /\ Releasing(o)'
    BY <1>3, <1>5, <1>14 DEF StoreFails, CInv, OrderOK, Truthful, Unanswered, Releasing, Minting
  <2>4. Owned(o)'
    <3>1. CASE Working(h, o)
      <4>1. o \in cut'
        BY <1>14, <3>1 DEF StoreFails
      <4> QED
        BY <4>1 DEF Owned
    <3>2. CASE ~Working(h, o)
      BY <1>3, <1>4, <1>14, <3>2 DEF StoreFails, CInv, OrderOK, Owned, Working
    <3> QED
      BY <3>1, <3>2
  <2> QED
    BY <2>1, <2>2, <2>3, <2>4 DEF CInv, OrderOK
<1> QED
  BY <1>6, <1>7, <1>8, <1>9, <1>10, <1>11, <1>12, <1>13, <1>14 DEF Intake, OrderWrite, CInv, CapacityTypeOK

-----------------------------------------------------------------------------
(* The later life of an order only moves an answered one.                  *)
LEMMA RestStep ==
    ASSUME CInv, NEW o \in Orders, Rest(o)
    PROVE  CInv'
<1> USE DEF othersL, MoveSub, MoveResv
<1>1. UNCHANGED <<handler, minted, cached, hold_lost, cut, faults>>
  BY DEF Rest, CaptureOrder, ExpireOrder, ActivateOrder, FailProvision, EndOrder, Pay, history
<1>2. \A k \in Handlers, p \in Orders : \A pc : At(k, pc, p)' <=> At(k, pc, p)
  BY <1>1 DEF At
<1>3. CapacityTypeOK'
  <2>1. revived' \in BOOLEAN
    BY DEF Rest, CaptureOrder, ExpireOrder, ActivateOrder, FailProvision, EndOrder, Pay, history,
       CInv, CapacityTypeOK
  <2> QED
    BY <1>1, <2>1 DEF Rest, CaptureOrder, ExpireOrder, ActivateOrder, FailProvision, EndOrder, Pay,
       resvVars, subVars, CInv, CapacityTypeOK
<1>4. \A p \in Orders \ {o} : UNCHANGED <<sub[p], resv[p], order_invoice[p]>>
  BY DEF Rest, CaptureOrder, ExpireOrder, ActivateOrder, FailProvision, EndOrder, Pay, resvVars,
     subVars, CInv, CapacityTypeOK
<1>5. \A p \in Orders \ {o} : OrderOK(p)'
  BY <1>1, <1>2, <1>4, Keeps
<1>6. OrderOK(o)'
  <2>1. Truthful(o) /\ Releasing(o) /\ Unanswered(o) /\ Owned(o)
    BY DEF CInv, OrderOK
  <2>2. CASE Pay(o)
    BY <1>1, <1>2, <2>1, <2>2 DEF Pay, resvVars, subVars, OrderOK, Truthful, Releasing, Unanswered,
       Owned, Minting, Working
  <2>3. CASE ~Pay(o)
    <3>1. cached[o] = "invoice" /\ sub[o] # "none" /\ sub'[o] # "none"
      BY <2>1, <2>3 DEF Rest, CaptureOrder, ExpireOrder, ActivateOrder, FailProvision, EndOrder,
         Truthful, CInv, CapacityTypeOK
    <3>2. Truthful(o)'
      BY <1>1, <2>1, <2>3, <3>1 DEF Rest, CaptureOrder, ExpireOrder, ActivateOrder, FailProvision,
         EndOrder, Truthful, CInv, CapacityTypeOK
    <3> QED
      BY <1>1, <1>2, <2>1, <3>1, <3>2 DEF OrderOK, Releasing, Unanswered, Owned
  <2> QED
    BY <2>2, <2>3
<1> QED
  BY <1>1, <1>3, <1>5, <1>6 DEF CInv

(* Every step preserves the invariant ...                                  *)
LEMMA CInvStep == CInv /\ [Next]_vars => CInv'
<1> SUFFICES ASSUME CInv, [Next]_vars PROVE CInv'
  OBVIOUS
<1> USE DEF CInv, resvVars, subVars, history
<1>1. CASE UNCHANGED vars
  <2>1. \A o \in Orders : OrderOK(o)'
    BY <1>1, Keeps DEF vars, At
  <2>2. CapacityTypeOK' /\ ~hold_lost'
    BY <1>1 DEF vars, CapacityTypeOK
  <2> QED
    BY <2>1, <2>2
<1>2. CASE Withdraw \/ Tick
  <2>1. listing' \in BOOLEAN
    BY <1>2, Zenon DEF Withdraw, Tick, CapacityTypeOK
  <2>0. now' \in Nat
    BY <1>2 DEF Withdraw, Tick, CapacityTypeOK
  <2>2. CapacityTypeOK' /\ ~hold_lost'
    BY <1>2, <2>0, <2>1 DEF Withdraw, Tick, CapacityTypeOK
  <2>3. \A o \in Orders : OrderOK(o)'
    BY <1>2, Keeps DEF Withdraw, Tick, At
  <2> QED
    BY <2>2, <2>3
<1>3. CASE Crash
  <2>1. CapacityTypeOK' /\ ~hold_lost'
    BY <1>3 DEF Crash, CapacityTypeOK, Idle
  <2>4. \A o \in Orders : o \notin cut' => o \notin cut /\ \A h \in Handlers : ~Working(h, o)
    BY <1>3 DEF Crash
  <2>2. \A k \in Handlers, o \in Orders : \A pc : ~At(k, pc, o)'
    BY <1>3, IdleIsNowhere DEF Crash, At
  <2>3. \A o \in Orders : OrderOK(o)'
    BY <1>3, <2>2, <2>4 DEF Crash, OrderOK, Truthful, Releasing, Unanswered, Owned, Minting
  <2> QED
    BY <2>1, <2>3
<1> QED
  BY <1>1, <1>2, <1>3, IntakeStep, RestStep DEF Next

(* ... so it always holds.                                                 *)
LEMMA CInvAlways == Spec => []CInv
  BY CInvInit, CInvStep, PTL DEF Spec

(* However many deliveries of however many orders race, and wherever the   *)
(* daemon dies: an order exists exactly when its request was answered with *)
(* an invoice (OrderWrite, fail_order).                                    *)
THEOREM AnswersAreTrue == Spec => []AnswerMatchesOrder
<1>1. CInv => AnswerMatchesOrder
  BY DEF CInv, OrderOK, Truthful, AnswerMatchesOrder
<1> QED
  BY <1>1, CInvAlways, PTL

(* No refusal of one delivery releases the hold another delivery's order   *)
(* stands on (fail_order's and OrderWrite's cache-first rule).             *)
THEOREM OrdersKeepTheirHold == Spec => []OrderBehindHold
<1>1. CInv => OrderBehindHold
  BY DEF CInv, OrderOK, Truthful, OrderBehindHold
<1> QED
  BY <1>1, CInvAlways, PTL

(* OrderWrite's HoldLost guard is dead code, as its comment says: no       *)
(* interleaving of handlers reaches the commit with its hold gone.         *)
THEOREM HoldNeverLost == Spec => []HoldLostUnreachable
<1>1. CInv => HoldLostUnreachable
  BY DEF CInv, HoldLostUnreachable
<1> QED
  BY <1>1, CInvAlways, PTL

(* A refused request whose deliveries are all over holds no slot; where a  *)
(* crash or a failed store call cut the refusal short, the hold it left    *)
(* counts no longer than its TTL (OrderWrite, fail_order, release).        *)
THEOREM HoldNeverStranded == Spec => []NoStrandedHold
<1>1. CInv => NoStrandedHold
  <2> SUFFICES ASSUME CInv, NEW o \in Orders, cached[o] = "error",
                      \A h \in Handlers : o \notin handler[h].order
               PROVE  /\ o \notin cut => resv[o] \notin {"HELD", "CONSUMED"}
                      /\ Live(o) => now < expires_at[o]
    BY DEF NoStrandedHold
  <2>1. resv[o] # "CONSUMED" /\ sub[o] = "none" /\ order_invoice[o] = "none"
    BY DEF CInv, CapacityTypeOK, OrderOK, Truthful
  <2>2. \A h \in Handlers : ~Working(h, o)
    BY DEF Working, At
  <2>3. o \notin cut => resv[o] # "HELD"
    BY <2>2 DEF CInv, OrderOK, Owned
  <2>4. now \in Nat /\ expires_at[o] \in Nat
    BY DEF CInv, CapacityTypeOK
  <2>5. Live(o) => now < expires_at[o]
    BY <2>1, <2>4 DEF Live, LiveHeld
  <2> QED
    BY <2>1, <2>3, <2>5
<1> QED
  BY <1>1, CInvAlways, PTL

-----------------------------------------------------------------------------
(* Until the answer is there, a hold is live while its invoice is minted.  *)
Fresh(o) ==
    cached[o] = "none" /\ resv[o] = "HELD" /\ (\E h \in Handlers : Minting(h, o))
        => expires_at[o] > now

LiveSet == {o \in Orders : Live(o)}
HeldBy(b) == {o \in Orders : SenderOf[o] = b /\ LiveHeld(o)}

(* The budgets as bounds on whole sets, which a new hold adds one to.      *)
WithinBudget == Cardinality(LiveSet) <= Slots /\ \A b : Cardinality(HeldBy(b)) <= MaxHolds
NInv == (\A o \in Orders : Fresh(o)) /\ (~revived => WithinBudget)

(* A step that makes nothing live keeps the budgets.                       *)
LEMMA NothingNew ==
    ASSUME ~revived' => ~revived, ~revived => WithinBudget,
           \A p \in Orders : (LiveHeld(p)' => LiveHeld(p)) /\ (Live(p)' => Live(p))
    PROVE  ~revived' => WithinBudget'
<1> SUFFICES ASSUME ~revived' PROVE WithinBudget'
  OBVIOUS
<1>1. IsFiniteSet(Orders) /\ Slots \in Nat /\ MaxHolds \in Nat
  BY CapacityAssumption
<1>2. LiveSet' \subseteq LiveSet /\ \A b : HeldBy(b)' \subseteq HeldBy(b)
  BY DEF LiveSet, HeldBy
<1>3. LiveSet \subseteq Orders /\ \A b : HeldBy(b) \subseteq Orders
  BY DEF LiveSet, HeldBy
<1>4. ASSUME NEW S, NEW T, S \subseteq Orders, T \subseteq S
      PROVE  Cardinality(T) \in Nat /\ Cardinality(S) \in Nat /\ Cardinality(T) <= Cardinality(S)
  BY <1>1, <1>4, FS_Subset, FS_CardinalityType
<1>5. Cardinality(LiveSet') <= Slots
  <2>1. Cardinality(LiveSet) <= Slots
    BY DEF WithinBudget
  <2> QED
    BY <1>1, <1>2, <1>3, <1>4, <2>1
<1>6. ASSUME NEW b PROVE Cardinality(HeldBy(b)') <= MaxHolds
  <2>1. Cardinality(HeldBy(b)) <= MaxHolds
    BY DEF WithinBudget
  <2> QED
    BY <1>1, <1>2, <1>3, <1>4, <2>1
<1> QED
  BY <1>5, <1>6 DEF WithinBudget

(* A reserve that found room adds at most its own order.                   *)
LEMMA RoomForOne ==
    ASSUME NEW o \in Orders, Room(o), ~revived => WithinBudget, UNCHANGED revived,
           \A p \in Orders \ {o} : (LiveHeld(p)' => LiveHeld(p)) /\ (Live(p)' => Live(p))
    PROVE  ~revived' => WithinBudget'
<1> SUFFICES ASSUME ~revived' PROVE WithinBudget'
  OBVIOUS
<1> DEFINE L == {p \in Orders \ {o} : Live(p)}
           H == {p \in Orders \ {o} : SenderOf[p] = SenderOf[o] /\ LiveHeld(p)}
<1>1. IsFiniteSet(Orders) /\ Slots \in Nat /\ MaxHolds \in Nat
  BY CapacityAssumption
<1>2. ASSUME NEW S, NEW T, S \subseteq Orders, T \subseteq S \cup {o}
      PROVE  /\ Cardinality(T) \in Nat /\ Cardinality(S) \in Nat
             /\ Cardinality(T) <= Cardinality(S) + 1
             /\ o \notin T => Cardinality(T) <= Cardinality(S)
  <2>1. IsFiniteSet(S) /\ Cardinality(S) \in Nat
    BY <1>1, <1>2, FS_Subset, FS_CardinalityType
  <2>2. /\ IsFiniteSet(S \cup {o}) /\ Cardinality(S \cup {o}) \in Nat
        /\ Cardinality(S \cup {o}) <= Cardinality(S) + 1
    BY <2>1, FS_AddElement, FS_CardinalityType
  <2>3. IsFiniteSet(T) /\ Cardinality(T) \in Nat /\ Cardinality(T) <= Cardinality(S \cup {o})
    BY <1>2, <2>2, FS_Subset, FS_CardinalityType
  <2>4. o \notin T => Cardinality(T) <= Cardinality(S)
    <3>1. o \notin T => T \subseteq S
      BY <1>2
    <3> QED
      BY <2>1, <3>1, FS_Subset
  <2> QED
    BY <2>1, <2>2, <2>3, <2>4
<1>3. Cardinality(L) + 1 <= Slots /\ Cardinality(H) < MaxHolds
  BY DEF Room, LiveUsage, LiveHoldCount
<1>4. L \subseteq Orders /\ H \subseteq Orders /\ LiveSet' \subseteq L \cup {o}
  BY DEF LiveSet
<1>5. HeldBy(SenderOf[o])' \subseteq H \cup {o}
  BY DEF HeldBy
<1> HIDE DEF L, H
<1>6. Cardinality(LiveSet') <= Slots
  BY <1>1, <1>2, <1>3, <1>4
<1>7. ASSUME NEW b PROVE Cardinality(HeldBy(b)') <= MaxHolds
  <2>1. CASE b = SenderOf[o]
    BY <1>1, <1>2, <1>3, <1>4, <1>5, <2>1
  <2>2. CASE b # SenderOf[o]
    <3>1. /\ HeldBy(b) \subseteq Orders
          /\ HeldBy(b)' \subseteq HeldBy(b) \cup {o} /\ o \notin HeldBy(b)'
      BY <2>2 DEF HeldBy
    <3>2. Cardinality(HeldBy(b)) <= MaxHolds
      BY DEF WithinBudget
    <3> QED
      BY <1>1, <1>2, <3>1, <3>2
  <2> QED
    BY <2>1, <2>2
<1> QED
  BY <1>6, <1>7 DEF WithinBudget

(* Nothing is live at first.                                               *)
LEMMA NInvInit == Init => NInv
<1> SUFFICES ASSUME Init PROVE NInv
  OBVIOUS
<1>1. \A o \in Orders : ~Live(o) /\ ~LiveHeld(o) /\ Fresh(o)
  BY DEF Init, Live, LiveHeld, Fresh
<1>2. LiveSet = {} /\ \A b : HeldBy(b) = {}
  BY <1>1 DEF LiveSet, HeldBy
<1> QED
  BY <1>1, <1>2, FS_EmptySet, CapacityAssumption DEF NInv, WithinBudget

(* What a delivery does to the budgets.                                    *)
LEMMA NIntakeStep ==
    ASSUME CInv, NInv, NEW h \in Handlers, NEW o \in Orders, Intake(h, o)
    PROVE  NInv'
<1> USE DEF envVars, resvVars, subVars, history
<1>1. /\ now \in Nat /\ HoldTTL \in Nat /\ HoldTTL > 0 /\ UNCHANGED <<now, revived>>
      /\ resv \in [Orders -> {"none", "HELD", "CONSUMED", "RELEASED"}]
      /\ expires_at \in [Orders -> Nat]
  BY CapacityAssumption DEF CInv, CapacityTypeOK, Intake, HandleOrder, Reserve, IssueInvoice,
     OrderWrite, OrderWriteFails, FailOrder, Release, StoreFails, Duplicate, ListingGone,
     HoldLost, Committed
<1>0. \A p \in Orders : cached'[p] = "none" => cached[p] = "none"
  BY DEF CInv, CapacityTypeOK, Intake, HandleOrder, Reserve, IssueInvoice, OrderWrite,
     OrderWriteFails, FailOrder, CacheError, Release, StoreFails, Duplicate, ListingGone,
     HoldLost, Committed
<1>2. /\ \A k \in Handlers, p \in Orders : p # o => (Minting(k, p)' <=> Minting(k, p))
      /\ \A k \in Handlers \ {h} : Minting(k, o)' <=> Minting(k, o)
  <2>1. \/ Done(h)
        \/ \E pc \in {"reserve", "issue", "write", "refuse", "refuse_release", "release"} :
              Go(h, pc, o)
    BY DEF Intake, HandleOrder, Reserve, IssueInvoice, OrderWrite, OrderWriteFails, FailOrder,
       Release, StoreFails, Duplicate, ListingGone, HoldLost, Committed
  <2>2. handler[h] = Idle \/ \E qc : At(h, qc, o)
    BY DEF Intake, HandleOrder, Reserve, IssueInvoice, OrderWrite, OrderWriteFails, FailOrder,
       Release, StoreFails
  <2> QED
    BY <2>1, <2>2, Elsewhere DEF CInv, Minting
<1>3. ASSUME NEW pc \in {"reserve", "refuse", "refuse_release", "release"}, Go(h, pc, o)
      PROVE  ~Minting(h, o)'
  BY <1>3, Stands DEF CInv, Minting
<1>4. ASSUME Done(h) PROVE ~Minting(h, o)'
  BY <1>4, Stands DEF CInv, Minting
<1>5. ASSUME \A p \in Orders \ {o} : UNCHANGED <<resv[p], expires_at[p], order_invoice[p], sub[p]>>
      PROVE  /\ \A p \in Orders \ {o} : (LiveHeld(p)' <=> LiveHeld(p)) /\ (Live(p)' <=> Live(p))
             /\ \A p \in Orders \ {o} : Fresh(p)'
  BY <1>0, <1>1, <1>2, <1>5 DEF LiveHeld, Live, NInv, Fresh
<1>6. ASSUME UNCHANGED <<subVars, resvVars>>, Minting(h, o)' => Minting(h, o) \/ resv[o] # "HELD"
      PROVE  NInv'
  <2>1. \A p \in Orders : (LiveHeld(p)' <=> LiveHeld(p)) /\ (Live(p)' <=> Live(p))
    BY <1>1, <1>6 DEF LiveHeld, Live
  <2>2. \A p \in Orders : Fresh(p)'
    BY <1>0, <1>1, <1>2, <1>6 DEF NInv, Fresh
  <2> QED
    BY <1>1, <2>1, <2>2, NothingNew DEF NInv
<1>7. ASSUME UNCHANGED <<subVars, expires_at>>, resv' = [resv EXCEPT ![o] = resv'[o]],
             resv'[o] \in {"none", "RELEASED"}
      PROVE  NInv'
  <2>1. \A p \in Orders \ {o} : resv'[p] = resv[p]
    BY <1>1, <1>7
  <2>2. ~Live(o)' /\ ~LiveHeld(o)' /\ Fresh(o)'
    BY <1>7 DEF Live, LiveHeld, Fresh
  <2>3. /\ \A p \in Orders : (LiveHeld(p)' => LiveHeld(p)) /\ (Live(p)' => Live(p))
        /\ \A p \in Orders : Fresh(p)'
    BY <1>5, <1>7, <2>1, <2>2
  <2> QED
    BY <1>1, <2>3, NothingNew DEF NInv
<1>8. CASE HandleOrder(h, o) \/ FailOrder(h, o) \/ StoreFails(h, o)
  BY <1>3, <1>4, <1>6, <1>8 DEF HandleOrder, FailOrder, StoreFails
<1>9. CASE IssueInvoice(h, o) \/ OrderWriteFails(h, o)
  <2>1. Minting(h, o)
    BY <1>9 DEF IssueInvoice, OrderWriteFails, Minting
  <2> QED
    BY <1>6, <1>9, <2>1 DEF IssueInvoice, OrderWriteFails
<1>10. CASE Release(h, o)
  <2>1. resv'[o] \in {"none", "RELEASED"} /\ resv' = [resv EXCEPT ![o] = resv'[o]]
    BY <1>1, <1>10 DEF Release
  <2> QED
    BY <1>7, <1>10, <2>1 DEF Release
<1>11. CASE Reserve(h, o)
  <2>1. CASE Room(o) /\ resv[o] \in {"none", "HELD"}
    <3>1. /\ resv' = [resv EXCEPT ![o] = "HELD"]
          /\ expires_at' = [expires_at EXCEPT ![o] = now + HoldTTL] /\ UNCHANGED subVars
      BY <1>11, <2>1 DEF Reserve
    <3>2. \A p \in Orders \ {o} : UNCHANGED <<resv[p], expires_at[p], order_invoice[p], sub[p]>>
      BY <1>1, <3>1
    <3>3. Fresh(o)'
      BY <1>1, <3>1 DEF Fresh
    <3>4. ~revived' => WithinBudget'
      BY <1>1, <1>5, <2>1, <3>2, RoomForOne DEF NInv
    <3> QED
      BY <1>5, <3>2, <3>3, <3>4 DEF NInv
  <2>2. CASE ~(Room(o) /\ resv[o] \in {"none", "HELD"})
    <3>1. /\ UNCHANGED <<resvVars, subVars>>
          /\ \/ Go(h, "issue", o) /\ resv[o] = "CONSUMED"
             \/ Done(h) \/ Go(h, "refuse_release", o)
      BY <1>1, <1>11, <2>2 DEF Reserve
    <3> QED
      BY <1>3, <1>4, <1>6, <3>1
  <2> QED
    BY <2>1, <2>2
<1>12. CASE OrderWrite(h, o) /\ cached[o] # "none"
  <2>1. Duplicate(h, o)
    BY <1>12 DEF OrderWrite
  <2> QED
    BY <1>3, <1>4, <1>6, <2>1 DEF Duplicate
<1>13. CASE OrderWrite(h, o) /\ cached[o] = "none" /\ ~listing
  <2>1. ListingGone(h, o)
    BY <1>13 DEF OrderWrite
  <2>2. resv'[o] = "RELEASED" /\ resv' = [resv EXCEPT ![o] = resv'[o]]
    BY <1>1, <2>1 DEF ListingGone
  <2> QED
    BY <1>7, <2>1, <2>2 DEF ListingGone
<1>14. CASE OrderWrite(h, o) /\ cached[o] = "none" /\ listing
  <2>1. resv[o] = "HELD" /\ Minting(h, o)
    BY <1>14 DEF OrderWrite, CInv, OrderOK, Unanswered, Minting
  <2>2. Committed(h, o)
    BY <1>14, <2>1 DEF OrderWrite
  <2>3. LiveHeld(o) /\ Live(o)
    BY <1>14, <2>1 DEF NInv, Fresh, LiveHeld, Live
  <2>4. /\ \A p \in Orders \ {o} : UNCHANGED <<resv[p], expires_at[p], order_invoice[p], sub[p]>>
        /\ cached'[o] = "invoice"
    BY <1>1, <2>2 DEF Committed, CInv, CapacityTypeOK
  <2>5. Fresh(o)'
    BY <2>4 DEF Fresh
  <2>6. \A p \in Orders : (LiveHeld(p)' => LiveHeld(p)) /\ (Live(p)' => Live(p))
    BY <1>5, <2>3, <2>4
  <2> QED
    BY <1>1, <1>5, <2>4, <2>5, <2>6, NothingNew DEF NInv
<1> QED
  BY <1>8, <1>9, <1>10, <1>11, <1>12, <1>13, <1>14 DEF Intake

(* What the later life of an order does to them: only a capture puts a     *)
(* lapsed hold back to use, and that is what revived records.              *)
LEMMA NRestStep ==
    ASSUME CInv, NInv, NEW o \in Orders, Rest(o)
    PROVE  NInv'
<1> USE DEF othersL, MoveSub, MoveResv, resvVars, subVars, history
<1>1. /\ resv \in [Orders -> {"none", "HELD", "CONSUMED", "RELEASED"}]
      /\ sub \in [Orders -> {"none", "PENDING", "PROVISIONING", "ACTIVE", "REFUND_DUE",
                           "EXPIRED", "TERMINATED", "REFUNDED"}]
      /\ order_invoice \in [Orders -> {"none", "OPEN", "PAID", "EXPIRED"}]
      /\ revived \in BOOLEAN
  BY DEF CInv, CapacityTypeOK
<1>2. UNCHANGED <<now, expires_at, handler, cached>>
  BY DEF Rest, CaptureOrder, ExpireOrder, ActivateOrder, FailProvision, EndOrder, Pay
<1>3. \A p \in Orders \ {o} : UNCHANGED <<resv[p], order_invoice[p], sub[p]>>
  BY <1>1 DEF Rest, CaptureOrder, ExpireOrder, ActivateOrder, FailProvision, EndOrder, Pay
<1>4. resv'[o] = "HELD" => resv[o] = "HELD"
  BY <1>1 DEF Rest, CaptureOrder, ExpireOrder, ActivateOrder, FailProvision, EndOrder, Pay
<1>5. \A p \in Orders : Fresh(p)'
  BY <1>2, <1>3, <1>4 DEF NInv, Fresh, Minting, At
<1>6. ~revived' => ~revived
  BY <1>1 DEF Rest, CaptureOrder, ExpireOrder, ActivateOrder, FailProvision, EndOrder, Pay
<1>7. ASSUME ~revived' PROVE (LiveHeld(o)' => LiveHeld(o)) /\ (Live(o)' => Live(o))
  <2>1. CASE CaptureOrder(o)
    <3>1. Live(o) /\ resv[o] = "HELD"
      BY <1>7, <2>1 DEF CaptureOrder, CInv, OrderOK, Truthful
    <3> QED
      BY <3>1 DEF Live
  <2>2. CASE ExpireOrder(o) \/ EndOrder(o)
    BY <1>1, <2>2 DEF ExpireOrder, EndOrder, Live, LiveHeld
  <2>3. CASE ActivateOrder(o)
    BY <1>1, <2>3 DEF ActivateOrder, Live, LiveHeld
  <2>4. CASE FailProvision(o)
    BY <1>1, <1>2, <2>4 DEF FailProvision, Live, LiveHeld
  <2>5. CASE Pay(o)
    BY <1>2, <2>5 DEF Pay, Live, LiveHeld
  <2> QED
    BY <2>1, <2>2, <2>3, <2>4, <2>5 DEF Rest
<1>8. \A p \in Orders \ {o} : (LiveHeld(p)' => LiveHeld(p)) /\ (Live(p)' => Live(p))
  BY <1>2, <1>3 DEF LiveHeld, Live
<1>9. ~revived' => WithinBudget'
  <2> SUFFICES ASSUME ~revived' PROVE WithinBudget'
    OBVIOUS
  <2>1. \A p \in Orders : (LiveHeld(p)' => LiveHeld(p)) /\ (Live(p)' => Live(p))
    BY <1>7, <1>8
  <2> QED
    BY <1>6, <2>1, NothingNew DEF NInv
<1> QED
  BY <1>5, <1>9 DEF NInv

(* Every step keeps the budgets ...                                        *)
LEMMA NInvStep == CInv /\ NInv /\ [Next]_vars => NInv'
<1> SUFFICES ASSUME CInv, NInv, [Next]_vars PROVE NInv'
  OBVIOUS
<1> USE DEF resvVars, subVars, history
<1>0. /\ now \in Nat /\ expires_at \in [Orders -> Nat]
  BY DEF CInv, CapacityTypeOK
<1>1. CASE UNCHANGED vars \/ Withdraw \/ Tick \/ Crash
  <2>1. UNCHANGED <<resv, expires_at, sub, order_invoice, revived, cached>> /\ now' \in Nat /\ now <= now'
    BY <1>0, <1>1 DEF vars, Withdraw, Tick, Crash
  <2>2. \A p \in Orders : (LiveHeld(p)' => LiveHeld(p)) /\ (Live(p)' => Live(p))
    BY <1>0, <2>1 DEF LiveHeld, Live
  <2>3. CASE Tick
    <3>1. \A h \in Handlers, o \in Orders : Minting(h, o)' <=> Minting(h, o)
      BY <2>3 DEF Tick, Minting, At
    <3>2. \A h \in Handlers, o \in Orders : Minting(h, o) /\ cached[o] = "none" => now' < expires_at[o]
      BY <2>3 DEF Tick
    <3>3. \A o \in Orders : Fresh(o)'
      BY <1>0, <2>1, <3>1, <3>2 DEF Fresh
    <3> QED
      BY <2>1, <2>2, <3>3, NothingNew DEF NInv
  <2>4. CASE ~Tick
    <3>1. \A h \in Handlers, o \in Orders : Minting(h, o)' => Minting(h, o)
      BY <1>1, <2>4, IdleIsNowhere DEF vars, Withdraw, Crash, Minting, At
    <3>2. now' = now
      BY <1>1, <2>4 DEF vars, Withdraw, Crash
    <3>3. \A o \in Orders : Fresh(o)'
      BY <2>1, <3>1, <3>2 DEF NInv, Fresh
    <3> QED
      BY <2>1, <2>2, <3>3, NothingNew DEF NInv
  <2> QED
    BY <2>3, <2>4
<1> QED
  BY <1>1, NIntakeStep, NRestStep DEF Next

(* ... so they always hold.                                                *)
LEMMA NInvAlways == Spec => []NInv
BY NInvInit, NInvStep, CInvAlways, PTL DEF Spec

(* However many orders race for the last slot, the host is not oversold and*)
(* no buyer exceeds max_live_holds_per_buyer, as long as no capture puts a *)
(* lapsed hold back to use (reserve's check and insert in one transaction, *)
(* OrderWrite's refresh of a hold that is still live).                     *)
THEOREM NeverOversoldOnTime == Spec => []NoOversellOnTime
<1>1. ASSUME NInv PROVE NoOversellOnTime
  <2> SUFFICES ASSUME ~revived
               PROVE  /\ NoOversell
                      /\ \A o \in Orders : LiveHeld(o) => LiveHoldCount(o) < MaxHolds
    BY DEF NoOversellOnTime
  <2>1. WithinBudget
    BY <1>1 DEF NInv
  <2>2. NoOversell
    BY <2>1 DEF NoOversell, WithinBudget, LiveSet
  <2>3. ASSUME NEW o \in Orders, LiveHeld(o) PROVE LiveHoldCount(o) < MaxHolds
    <3> DEFINE S == HeldBy(SenderOf[o])
               R == {p \in Orders \ {o} : SenderOf[p] = SenderOf[o] /\ LiveHeld(p)}
    <3>1. IsFiniteSet(S) /\ Cardinality(S) \in Nat
      <4>1. S \subseteq Orders
        BY DEF HeldBy
      <4> QED
        BY <4>1, CapacityAssumption, FS_Subset, FS_CardinalityType
    <3>2. Cardinality(S) <= MaxHolds
      BY <2>1 DEF WithinBudget
    <3>3. o \in S /\ R = S \ {o}
      BY <2>3 DEF HeldBy
    <3> HIDE DEF S
    <3>4. Cardinality(S \ {o}) = Cardinality(S) - 1
      BY <3>1, <3>3, FS_RemoveElement
    <3>5. LiveHoldCount(o) = Cardinality(S) - 1
      BY <3>3, <3>4 DEF LiveHoldCount
    <3> QED
      BY <3>1, <3>2, <3>5, CapacityAssumption
  <2> QED
    BY <2>2, <2>3
<1> QED
  BY <1>1, NInvAlways, PTL
=============================================================================
