---------------------------- MODULE RefundProofs ----------------------------
(***************************************************************************)
(* Proofs about Refund, for every number of generations, attempts and      *)
(* interruptions: the witness precedes the send, the buyer's message tells *)
(* the outcome, and the executor implements PayOnce.                       *)
(*                                                                         *)
(* None of these is inductive.  The strengthening below says what makes a  *)
(* replacement safe: only the current generation can be live (OnlyCurrent),*)
(* a definite failure is never live (RowsTellTruth), a destination that    *)
(* has no payment of its own has no pay row (NoRowBeforeUse), and the      *)
(* executor works on the row as it stands (DriverCurrent).                 *)
(***************************************************************************)
EXTENDS Refund, TLAPS

IsLive(g) == net[g] \in {"inflight", "paid"}

OnlyCurrent == \A g \in Gens : IsLive(g) => g = resolution_gen

RowsTellTruth ==
    \A g \in Gens :
        /\ IsLive(g) /\ ~fenced => pay[g] \in {"PREPARED", "SUCCEEDED"}
        /\ pay[g] = "SUCCEEDED" => net[g] = "paid"

NoRowBeforeUse ==
    /\ dest # "lnurl" => resolution_gen = 0
    /\ dest = "lnurl" => pay[0] = "none"
    /\ dest = "unpayable" => \A g \in Gens : pay[g] = "none"
    /\ \A g \in Gens : g > resolution_gen => pay[g] = "none" /\ net[g] = "none"

DriverCurrent ==
    /\ fenced => drv = Idle /\ status # "SENT"
    /\ drv.pc # "idle" => status = "PENDING" /\ drv.gen = resolution_gen
    /\ drv.pc = "sent" => pay[drv.gen] = "SUCCEEDED"
    /\ drv.pc \in {"authorise", "pay", "await", "errored", "sent"} =>
          dest # "unpayable" /\ (dest = "lnurl" => drv.gen > 0)

OutcomeTrue ==
    /\ status = "FAILED" /\ ~fenced => \A g \in Gens : ~IsLive(g)
    /\ status = "SENT" => \E g \in Gens : net[g] = "paid"
    /\ status = "PENDING" => dm = "none"

RInv ==
    /\ RefundTypeOK /\ OnlyCurrent /\ RowsTellTruth /\ NoRowBeforeUse
    /\ DriverCurrent /\ OutcomeTrue /\ MessageTellsOutcome

-----------------------------------------------------------------------------
(* Every initial state satisfies the invariant: a fresh row, or a fenced   *)
(* import whose payment, if any, is the current generation's.              *)
LEMMA RInvInit == Init => RInv
<1> SUFFICES ASSUME Init PROVE RInv
  OBVIOUS
<1> USE RefundAssumption DEF Init, Idle, Gens
<1>1. PICK n \in {"none", "inflight", "paid"}, r \in {0, 1} :
         /\ net = [g \in Gens |-> IF g = r THEN n ELSE "none"]
         /\ resolution_gen = r /\ (fenced \/ n = "none")
         /\ r = 1 => dest = "lnurl"
  <2>1. CASE FreshRow
    BY <2>1 DEF FreshRow
  <2>2. CASE FencedImport
    BY <2>2 DEF FencedImport
  <2> QED
    BY <2>1, <2>2
<1>2. /\ fenced \in BOOLEAN /\ status \in {"PENDING", "FAILED"}
      /\ status = "FAILED" => fenced /\ dm = "failed"
      /\ status = "PENDING" => dm = "none"
  BY DEF FreshRow, FencedImport
<1>3. RefundTypeOK
  <2>1. net \in [Gens -> {"none", "inflight", "paid", "returned"}] /\ resolution_gen \in Gens
    BY <1>1
  <2>2. dest \in {"bolt11", "lnurl", "unpayable"} /\ backend \in {"lnv2", "phoenixd"}
    OBVIOUS
  <2>3. attempts \in 0..MaxAttempts /\ crashes \in Nat /\ drv \in [pc : {"idle"}, gen : Gens]
    OBVIOUS
  <2>4. expired \in BOOLEAN /\ pay \in [Gens -> {"none"}]
    BY Zenon
  <2> HIDE DEF Init
  <2> QED
    BY <1>2, <2>1, <2>2, <2>3, <2>4 DEF RefundTypeOK
<1>4. OnlyCurrent /\ RowsTellTruth
  BY <1>1 DEF OnlyCurrent, RowsTellTruth, IsLive
<1>5. NoRowBeforeUse
  BY <1>1 DEF NoRowBeforeUse
<1>6. DriverCurrent /\ OutcomeTrue /\ MessageTellsOutcome
  BY <1>2 DEF DriverCurrent, OutcomeTrue, MessageTellsOutcome, IsLive
<1> QED
  BY <1>3, <1>4, <1>5, <1>6 DEF RInv

(* Every step of the executor, the backend, the operator and the network   *)
(* preserves it.                                                           *)
LEMMA RInvStep == RInv /\ [Next]_vars => RInv'
<1> SUFFICES ASSUME RInv, [Next]_vars PROVE RInv'
  OBVIOUS
<1> USE RefundAssumption DEF RInv, IsLive, Idle, Gens, At, Go, RefundTypeOK, OnlyCurrent,
     RowsTellTruth, NoRowBeforeUse, DriverCurrent, OutcomeTrue, MessageTellsOutcome, rowVars
<1>1. CASE Load
  BY <1>1 DEF Load
<1>2. CASE ResolutionRetry
  BY <1>2 DEF ResolutionRetry
<1>3. CASE PlanPayment
  <2> DEFINE g == drv.gen
  <2> USE DEF NewPayment, MayReplace, Status
  <2>1. CASE (dest = "unpayable" \/ NewPayment(g)) /\ CommitTerminal("FAILED", "failed")
    BY <1>3, <2>1 DEF PlanPayment, CommitTerminal, Bumped, EnqueueRefund
  <2>2. CASE dest = "bolt11" /\ PayGen(0)
    BY <1>3, <2>2 DEF PlanPayment, PayGen
  <2>3. CASE dest = "lnurl" /\ NewPayment(g) /\ PersistResolution(g + 1)
    <3>1. /\ resolution_gen' = g + 1 /\ drv' = [pc |-> "authorise", gen |-> g + 1]
          /\ g = resolution_gen /\ g + 1 \in Gens /\ expired' = FALSE
          /\ UNCHANGED <<dest, backend, status, attempts, fenced, dm, pay, net, crashes>>
      BY <1>3, <2>3 DEF PlanPayment, PersistResolution
    <3>2. \A h \in Gens : ~IsLive(h)
      BY <1>3, <2>3, <3>1 DEF PlanPayment
    <3>3. RefundTypeOK'
      BY <3>1
    <3>4. OnlyCurrent' /\ RowsTellTruth' /\ OutcomeTrue' /\ MessageTellsOutcome'
      BY <3>1, <3>2
    <3>5. NoRowBeforeUse'
      BY <2>3, <3>1
    <3>6. DriverCurrent'
      BY <1>3, <2>3, <3>1 DEF PlanPayment
    <3> QED
      BY <3>3, <3>4, <3>5, <3>6
  <2>4. CASE dest = "lnurl" /\ g > 0 /\ PayGen(g)
    BY <1>3, <2>4 DEF PlanPayment, PayGen
  <2>5. CASE dest # "unpayable" /\ ~NewPayment(g) /\ Status(g) = "Succeeded"
             /\ Go("sent") /\ UNCHANGED <<dest, backend, rowVars, pay, net, crashes>>
    BY <1>3, <2>5 DEF PlanPayment
  <2>6. CASE dest # "unpayable" /\ ~NewPayment(g) /\ PayGen(g)
    BY <1>3, <2>6 DEF PlanPayment, PayGen
  <2> QED
    BY <1>3, <2>1, <2>2, <2>3, <2>4, <2>5, <2>6 DEF PlanPayment
<1>4. CASE AuthoriseSend
  BY <1>4 DEF AuthoriseSend, PreparePay, Status
<1>5. CASE PaySend
  <2> DEFINE g == drv.gen
  <2>1. CASE net' = [net EXCEPT ![g] = "inflight"] /\ Go("await") /\ UNCHANGED pay
    BY <1>5, <2>1 DEF PaySend
  <2>2. CASE pay' = [pay EXCEPT ![g] = "FAILED"] /\ Go("errored") /\ UNCHANGED net
    BY <1>5, <2>2 DEF PaySend
  <2>3. CASE Go("errored") /\ UNCHANGED <<pay, net>>
    BY <1>5, <2>3 DEF PaySend
  <2> QED
    BY <1>5, <2>1, <2>2, <2>3 DEF PaySend
<1>6. CASE PayKnown
  BY <1>6 DEF PayKnown
<1>7. CASE PayAwait
  <2> DEFINE g == drv.gen
  <2>1. CASE net[g] = "paid" /\ pay' = [pay EXCEPT ![g] = "SUCCEEDED"] /\ Go("sent")
    BY <1>7, <2>1 DEF PayAwait
  <2>2. CASE net[g] = "returned" /\ pay' = [pay EXCEPT ![g] = "FAILED"] /\ Go("errored")
    BY <1>7, <2>2 DEF PayAwait
  <2>3. CASE Go("errored") /\ UNCHANGED pay
    BY <1>7, <2>3 DEF PayAwait
  <2> QED
    BY <1>7, <2>1, <2>2, <2>3 DEF PayAwait
<1>8. CASE CommitSent
  BY <1>8 DEF CommitSent, CommitTerminal, Bumped, EnqueueRefund
<1>9. CASE CommitPayFailure
  BY <1>9 DEF CommitPayFailure, CommitTerminal, CountAttempt, Bumped, EnqueueRefund, Status
<1>10. CASE StatusUnanswered
  BY <1>10 DEF StatusUnanswered, CountAttempt, Bumped
<1>11. CASE RefundRetry
  BY <1>11 DEF RefundRetry
<1>12. CASE ClearFence
  BY <1>12 DEF ClearFence
<1>13. CASE Expire
  BY <1>13 DEF Expire
<1>14. CASE CutOff
  BY <1>14 DEF CutOff
<1>15. ASSUME NEW g \in Gens, Resolve(g) PROVE RInv'
  BY <1>15 DEF Resolve
<1>16. CASE UNCHANGED vars
  BY <1>16 DEF vars
<1> QED
  BY <1>1, <1>2, <1>3, <1>4, <1>5, <1>6, <1>7, <1>8, <1>9, <1>10, <1>11, <1>12, <1>13, <1>14, <1>15, <1>16 DEF Next, Execute

(* So the invariant holds throughout.                                      *)
LEMMA RInvAlways == Spec => []RInv
  BY RInvInit, RInvStep, PTL DEF Spec

-----------------------------------------------------------------------------
(* ADR-0022, of any number of resolutions and interruptions: a payment     *)
(* that is out, or may be, has a persisted generation and a pay row that   *)
(* is not a failure (persist_resolution, authorise_send, pay_inner).       *)
THEOREM WitnessFirst == Spec => []WitnessBeforeSend
<1>1. RInv => WitnessBeforeSend
  BY DEF RInv, RefundTypeOK, OnlyCurrent, RowsTellTruth, WitnessBeforeSend, IsLive, Gens
<1> QED
  BY <1>1, RInvAlways, PTL

(* The message in the outbox is the outcome in the books, whatever the     *)
(* operator retried (commit_sent, commit_park_failed, refund_retry).       *)
THEOREM MessageIsTrue == Spec => []MessageTellsOutcome
<1>1. RInv => MessageTellsOutcome
  BY DEF RInv
<1> QED
  BY <1>1, RInvAlways, PTL

-----------------------------------------------------------------------------
(* The initial states are PayOnce's.                                       *)
LEMMA PromiseInit == Init => Promise!Init
<1> SUFFICES ASSUME Init PROVE Promise!Init
  OBVIOUS
<1> USE DEF Init, Promise!Init, Promise!Unpaid
<1>1. CASE FreshRow
  BY <1>1 DEF FreshRow
<1>2. CASE FencedImport
  <2>1. resolution_gen \in Gens
    BY <1>2, RefundAssumption DEF FencedImport, Gens
  <2>2. PICK n \in {"none", "inflight", "paid"} :
           net = [g \in Gens |-> IF g = resolution_gen THEN n ELSE "none"]
    BY <1>2 DEF FencedImport
  <2>3. CASE n = "none"
    BY <1>2, <2>2, <2>3 DEF FencedImport
  <2>4. CASE n = "inflight"
    BY <1>2, <2>1, <2>2, <2>4 DEF FencedImport
  <2>5. CASE n = "paid"
    BY <1>2, <2>1, <2>2, <2>5 DEF FencedImport
  <2> QED
    BY <2>2, <2>3, <2>4, <2>5
<1> QED
  BY <1>1, <1>2

(* Every step is one of PayOnce's or changes nothing it sees.              *)
LEMMA PromiseStep ==
    RInv /\ [Next]_vars =>
        [Promise!Next]_<<status, {g \in Gens : net[g] = "inflight"}, {g \in Gens : net[g] = "paid"}>>
<1> DEFINE live == {g \in Gens : net[g] = "inflight"}
           landed == {g \in Gens : net[g] = "paid"}
           Seen == <<status, live, landed>>
<1> SUFFICES ASSUME RInv, [Next]_vars PROVE Promise!Next \/ UNCHANGED Seen
  OBVIOUS
<1> USE DEF At, Go, rowVars
<1>0. UNCHANGED <<status, net>> => UNCHANGED Seen
  OBVIOUS
<1>1. CASE Load \/ ResolutionRetry \/ AuthoriseSend \/ PayKnown \/ PayAwait
           \/ StatusUnanswered \/ ClearFence \/ Expire \/ CutOff \/ UNCHANGED vars
  BY <1>0, <1>1 DEF Load, ResolutionRetry, AuthoriseSend, PreparePay, PayKnown, PayAwait,
     StatusUnanswered, CountAttempt, ClearFence, Expire, CutOff, vars
<1>2. ASSUME NEW outcome, NEW m, CommitTerminal(outcome, m), drv.pc # "idle",
             \/ outcome = "SENT" /\ pay[drv.gen] = "SUCCEEDED"
             \/ outcome = "FAILED" /\ \A g \in Gens : ~IsLive(g)
      PROVE  Promise!Next
  <2>1. status = "PENDING" /\ status' = outcome /\ UNCHANGED net /\ drv.gen \in Gens
    BY <1>2 DEF CommitTerminal, RInv, DriverCurrent, RefundTypeOK
  <2>2. UNCHANGED <<live, landed>>
    BY <2>1
  <2>3. CASE outcome = "SENT" /\ pay[drv.gen] = "SUCCEEDED"
    <3>1. landed # {}
      BY <2>1, <2>3 DEF RInv, RowsTellTruth
    <3> QED
      BY <2>1, <2>2, <2>3, <3>1 DEF Promise!Next, Promise!Record
  <2>4. CASE outcome = "FAILED" /\ \A g \in Gens : ~IsLive(g)
    <3>1. live = {} /\ landed = {}
      BY <2>4 DEF IsLive
    <3> QED
      BY <2>1, <2>2, <2>4, <3>1 DEF Promise!Next, Promise!Park, Promise!Unpaid
  <2> QED
    BY <1>2, <2>3, <2>4
<1>3. CASE CommitSent
  BY <1>2, <1>3 DEF CommitSent, RInv, DriverCurrent
<1>4. CASE CommitPayFailure
  <2>1. CASE Status(drv.gen) = "Succeeded"
    <3>1. pay[drv.gen] = "SUCCEEDED"
      BY <2>1 DEF Status
    <3> QED
      BY <1>2, <1>4, <2>1, <3>1 DEF CommitPayFailure
  <2>2. CASE Status(drv.gen) = "Failed" /\ Bumped = MaxAttempts
    <3>1. \A g \in Gens : ~IsLive(g)
      BY <1>4, <2>2 DEF CommitPayFailure, Status, RInv, RefundTypeOK, DriverCurrent,
         OnlyCurrent, RowsTellTruth, IsLive, Idle
    <3> QED
      BY <1>2, <1>4, <2>2, <3>1 DEF CommitPayFailure
  <2>3. CASE CountAttempt
    BY <1>0, <2>3 DEF CountAttempt
  <2> QED
    BY <1>4, <2>1, <2>2, <2>3 DEF CommitPayFailure
<1>5. CASE PlanPayment
  <2> DEFINE g == drv.gen
  <2>1. CASE (dest = "unpayable" \/ NewPayment(g)) /\ CommitTerminal("FAILED", "failed")
    <3>1. \A h \in Gens : ~IsLive(h)
      BY <1>5, <2>1, RefundAssumption DEF PlanPayment, NewPayment, MayReplace, Status, RInv,
         RefundTypeOK, DriverCurrent, OnlyCurrent, RowsTellTruth, NoRowBeforeUse, IsLive, Idle, Gens
    <3> QED
      BY <1>2, <1>5, <2>1, <3>1 DEF PlanPayment
  <2>2. CASE UNCHANGED <<status, net>>
    BY <1>0, <2>2
  <2> QED
    BY <1>5, <2>1, <2>2 DEF PlanPayment, PayGen, PersistResolution
<1>6. CASE PaySend
  <2> DEFINE g == drv.gen
  <2>1. CASE net' = [net EXCEPT ![g] = "inflight"]
    <3>1. /\ g \in Gens /\ status = "PENDING" /\ status' = status
          /\ \A h \in Gens : ~IsLive(h)
      BY <1>6, <2>1 DEF PaySend, RInv, RefundTypeOK, DriverCurrent, OnlyCurrent, IsLive
    <3>2. live = {} /\ landed = {} /\ live' = {g} /\ landed' = {}
      BY <2>1, <3>1 DEF IsLive, RInv, RefundTypeOK
    <3> HIDE DEF g
    <3> QED
      BY <3>1, <3>2 DEF Promise!Next, Promise!Start, Promise!Unpaid
  <2>2. CASE UNCHANGED net
    BY <1>0, <1>6, <2>2 DEF PaySend
  <2> QED
    BY <1>6, <2>1, <2>2 DEF PaySend
<1>7. CASE RefundRetry
  <2>1. live = {} /\ landed = {} /\ UNCHANGED net
    BY <1>7 DEF RefundRetry, RInv, OutcomeTrue, IsLive
  <2> QED
    BY <1>7, <2>1 DEF RefundRetry, Promise!Next, Promise!Requeue, Promise!Unpaid
<1>8. ASSUME NEW g \in Gens, Resolve(g) PROVE Promise!Next
  <2>1. net[g] = "inflight" /\ UNCHANGED status /\ g \in live
    BY <1>8 DEF Resolve
  <2>2. CASE net' = [net EXCEPT ![g] = "paid"]
    <3>1. live' = live \ {g} /\ landed' = landed \cup {g}
      BY <2>1, <2>2 DEF RInv, RefundTypeOK
    <3> QED
      BY <2>1, <3>1 DEF Promise!Next, Promise!Land
  <2>3. CASE net' = [net EXCEPT ![g] = "returned"]
    <3>1. live' = live \ {g} /\ landed' = landed
      BY <2>1, <2>3 DEF RInv, RefundTypeOK
    <3> QED
      BY <2>1, <3>1 DEF Promise!Next, Promise!Return
  <2> QED
    BY <1>8, <2>2, <2>3 DEF Resolve
<1> QED
  BY <1>1, <1>3, <1>4, <1>5, <1>6, <1>7, <1>8 DEF Next, Execute

(* The executor implements PayOnce: a buyer is refunded at most once, and  *)
(* the books never claim more, or less, than the network did               *)
(* (plan_payment, authorise_send, commit_sent, commit_pay_failure).        *)
THEOREM RefundsOnce == Spec => PaysOnce
  BY PromiseInit, PromiseStep, RInvAlways, PTL DEF Spec, PaysOnce, Promise!Spec
=============================================================================
