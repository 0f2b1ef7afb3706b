----------------------------- MODULE EdgeProofs -----------------------------
(***************************************************************************)
(* The services that face relays, buyers and the operator: their           *)
(* inductive invariants, and the theorems of EdgeSpec that rest on them.   *)
(***************************************************************************)
EXTENDS MCEdge, FiniteSetTheorems, WellFoundedInduction, TLAPS

-----------------------------------------------------------------------------
(* The outbox sender.                                                      *)

(* What a message says, and a row of the outbox.                           *)
Payloads == {"none", "SENT", "FAILED", "parked", "ready", "malformed"}
OutboxRow == [state : {"NONE", "PENDING", "SENT", "FAILED"}, payload : Payloads]

(* The types of the outbox.                                                *)
OutboxTypes ==
    /\ outbox \in [StableIds -> OutboxRow] /\ heard \in [StableIds -> Payloads]
    /\ drain \in [pc : {"idle", "sending", "marking"},
                  rows : SUBSET [id : StableIds, payload : Payloads],
                  mark : StableIds \cup {"none"}]
    /\ drain.pc = "marking" => drain.mark \in StableIds
    /\ refundStatus \in {"PENDING", "SENT", "FAILED"}

(* A drain that has the refund's outcome in hand has the current one: the  *)
(* driver waits for the drain, and a retry takes the outcome away.         *)
OutcomeInHand ==
    /\ drain.pc = "idle" => drain.rows = {}
    /\ refundStatus = "PENDING" <=> outbox[RefundDm].state = "NONE"
    /\ refundStatus # "PENDING" =>
          /\ outbox[RefundDm].payload = refundStatus
          /\ outbox[RefundDm].state = "SENT" => heard[RefundDm] = refundStatus
          /\ drain.pc = "marking" /\ drain.mark = RefundDm => heard[RefundDm] = refundStatus
          /\ \A row \in drain.rows : row.id = RefundDm => row.payload = refundStatus

(* The inductive invariant of the outbox.                                  *)
OutboxInv == OutboxTypes /\ OutcomeInHand

(* The outbox starts empty.                                                *)
LEMMA OutboxInvInit == OutboxInit => OutboxInv
BY DEF OutboxInit, OutboxInv, OutboxTypes, OutcomeInHand, StableIds, RefundDm, ReadyDm, ParkedAlert,
   NoMessage, NoDrain, OutboxRow, Payloads

(* Enqueueing under an id leaves a row that is there alone.                *)
LEMMA Enqueued ==
    ASSUME NEW box \in [StableIds -> OutboxRow], NEW i \in StableIds, NEW p \in Payloads
    PROVE  /\ Enqueue(box, i, p) \in [StableIds -> OutboxRow]
           /\ \A j \in StableIds \ {i} : Enqueue(box, i, p)[j] = box[j]
           /\ box[i].state = "NONE" =>
                 Enqueue(box, i, p)[i].state = "PENDING" /\ Enqueue(box, i, p)[i].payload = p
BY DEF Enqueue, OutboxRow

LEMMA OutboxInvStep == OutboxInv /\ [OutboxNext]_outboxVars => OutboxInv'
<1> SUFFICES ASSUME OutboxInv, [OutboxNext]_outboxVars PROVE OutboxInv'
  OBVIOUS
<1>0. /\ RefundDm \in StableIds /\ ParkedAlert \in StableIds /\ ReadyDm \in StableIds
      /\ RefundDm # ParkedAlert /\ RefundDm # ReadyDm
  BY DEF StableIds, RefundDm, ReadyDm, ParkedAlert
<1>1. NoDrain.pc = "idle" /\ NoDrain.rows = {} /\ NoDrain.mark = "none"
      /\ NoDrain \in [pc : {"idle", "sending", "marking"},
                  rows : SUBSET [id : StableIds, payload : Payloads],
                  mark : StableIds \cup {"none"}]
  BY DEF NoDrain
<1>2. ASSUME UNCHANGED <<refundStatus, heard, drain>>, outbox'[RefundDm] = outbox[RefundDm],
             outbox' \in [StableIds -> OutboxRow]
      PROVE  OutboxInv'
  BY <1>2 DEF OutboxInv, OutboxTypes, OutcomeInHand
<1>3. CASE Park
  <2> DEFINE b1 == Enqueue(outbox, RefundDm, "FAILED")
  <2>1. /\ b1 \in [StableIds -> OutboxRow] /\ b1[RefundDm].state = "PENDING"
        /\ b1[RefundDm].payload = "FAILED"
    BY <1>0, <1>3, Enqueued DEF Park, OutboxInv, OutboxTypes, OutcomeInHand, Payloads
  <2> HIDE DEF b1
  <2>2. outbox' = Enqueue(b1, ParkedAlert, "parked")
    BY <1>3 DEF Park, b1
  <2>3. /\ outbox' \in [StableIds -> OutboxRow] /\ outbox'[RefundDm].state = "PENDING"
        /\ outbox'[RefundDm].payload = "FAILED"
    BY <1>0, <2>1, <2>2, Enqueued DEF Payloads
  <2>4. drain.pc = "idle" /\ refundStatus' = "FAILED" /\ UNCHANGED <<drain, heard>>
    BY <1>3 DEF Park
  <2> QED
    BY <2>3, <2>4 DEF OutboxInv, OutboxTypes, OutcomeInHand
<1>4. CASE RefundPaid
  <2>1. drain.pc = "idle" /\ refundStatus' = "SENT" /\ UNCHANGED <<drain, heard>>
    BY <1>4 DEF RefundPaid
  <2>2. /\ outbox' \in [StableIds -> OutboxRow] /\ outbox'[RefundDm].state = "PENDING"
        /\ outbox'[RefundDm].payload = "SENT"
    BY <1>0, <1>4, Enqueued DEF RefundPaid, OutboxInv, OutboxTypes, OutcomeInHand, Payloads
  <2> QED
    BY <2>1, <2>2 DEF OutboxInv, OutboxTypes, OutcomeInHand
<1>5. CASE Provisioned
  <2>1. outbox' \in [StableIds -> OutboxRow] /\ outbox'[RefundDm] = outbox[RefundDm]
    BY <1>0, <1>5, Enqueued DEF Provisioned, OutboxInv, OutboxTypes, Payloads
  <2> QED
    BY <1>2, <1>5, <2>1 DEF Provisioned
<1>6. CASE Retry
  <2>1. /\ outbox' \in [StableIds -> OutboxRow] /\ outbox'[RefundDm].state = "NONE"
    BY <1>0, <1>6 DEF Retry, OutboxInv, OutboxTypes, NoMessage, OutboxRow, Payloads
  <2> QED
    BY <1>6, <2>1 DEF Retry, OutboxInv, OutboxTypes, OutcomeInHand
<1>7. CASE DrainRead
  <2> DEFINE R == {[id |-> i, payload |-> outbox[i].payload] :
                      i \in {i \in StableIds : outbox[i].state = "PENDING"}}
  <2>1. drain'.pc = "sending" /\ drain'.rows = R /\ drain'.mark = "none"
        /\ drain' = [pc |-> "sending", rows |-> R, mark |-> "none"]
    BY <1>7 DEF DrainRead, NoDrain
  <2>2. R \subseteq [id : StableIds, payload : Payloads]
    BY DEF OutboxInv, OutboxTypes, OutboxRow
  <2>3. \A row \in R : row.id = RefundDm => row.payload = outbox[RefundDm].payload
    OBVIOUS
  <2> HIDE DEF R
  <2>4. UNCHANGED <<outbox, refundStatus, heard>>
    BY <1>7 DEF DrainRead
  <2>5. OutboxTypes'
    BY <2>1, <2>2, <2>4 DEF OutboxInv, OutboxTypes
  <2>6. OutcomeInHand'
    BY <2>1, <2>3, <2>4 DEF OutboxInv, OutboxTypes, OutcomeInHand
  <2> QED
    BY <2>5, <2>6 DEF OutboxInv
<1>8. ASSUME NEW ok \in BOOLEAN, NEW row \in drain.rows, DrainSend(row, ok) PROVE OutboxInv'
  <2>1. /\ drain.pc = "sending" /\ row.id \in StableIds /\ row.payload \in Payloads
        /\ UNCHANGED refundStatus
    BY <1>8 DEF DrainSend, OutboxInv, OutboxTypes
  <2> DEFINE left == [drain EXCEPT !.rows = @ \ {row}]
  <2>2. /\ left.pc = "sending" /\ left.rows = drain.rows \ {row} /\ left.mark = drain.mark
        /\ left \in [pc : {"idle", "sending", "marking"},
                  rows : SUBSET [id : StableIds, payload : Payloads],
                  mark : StableIds \cup {"none"}]
    BY <2>1 DEF OutboxInv, OutboxTypes
  <2>3. CASE row.payload = "malformed"
    <3>1. /\ drain' = left /\ UNCHANGED heard
          /\ outbox' = IF outbox[row.id].state = "PENDING"
                       THEN [outbox EXCEPT ![row.id].state = "FAILED"] ELSE outbox
      BY <1>8, <2>3 DEF DrainSend
    <3> HIDE DEF left
    <3>2. /\ outbox' \in [StableIds -> OutboxRow]
          /\ outbox'[RefundDm].payload = outbox[RefundDm].payload
          /\ \/ outbox'[RefundDm].state = outbox[RefundDm].state
             \/ outbox'[RefundDm].state = "FAILED" /\ outbox[RefundDm].state = "PENDING"
      BY <1>0, <2>1, <3>1 DEF OutboxInv, OutboxTypes, OutboxRow
    <3>3. OutboxTypes'
      BY <2>1, <2>2, <3>1, <3>2 DEF OutboxInv, OutboxTypes
    <3>4. OutcomeInHand'
      BY <2>1, <2>2, <3>1, <3>2 DEF OutboxInv, OutcomeInHand
    <3> QED
      BY <3>3, <3>4 DEF OutboxInv
  <2>4. CASE row.payload # "malformed" /\ ok
    <3>1. /\ UNCHANGED outbox /\ drain' = [left EXCEPT !.pc = "marking", !.mark = row.id]
          /\ heard' = [heard EXCEPT ![row.id] = row.payload]
      BY <1>8, <2>4 DEF DrainSend
    <3> HIDE DEF left
    <3>2. /\ drain'.pc = "marking" /\ drain'.rows = drain.rows \ {row} /\ drain'.mark = row.id
          /\ drain' \in [pc : {"idle", "sending", "marking"},
                  rows : SUBSET [id : StableIds, payload : Payloads],
                  mark : StableIds \cup {"none"}]
      BY <2>1, <2>2, <3>1
    <3>3. /\ heard' \in [StableIds -> Payloads]
          /\ row.id = RefundDm => heard'[RefundDm] = row.payload
          /\ row.id # RefundDm => heard'[RefundDm] = heard[RefundDm]
      BY <1>0, <2>1, <3>1 DEF OutboxInv, OutboxTypes
    <3>4. OutboxTypes'
      BY <2>1, <3>1, <3>2, <3>3 DEF OutboxInv, OutboxTypes
    <3>5. OutcomeInHand'
      BY <1>8, <2>1, <3>1, <3>2, <3>3 DEF OutboxInv, OutcomeInHand
    <3> QED
      BY <3>4, <3>5 DEF OutboxInv
  <2>5. CASE row.payload # "malformed" /\ ~ok
    <3>1. UNCHANGED <<outbox, heard>> /\ drain' = left
      BY <1>8, <2>5 DEF DrainSend
    <3> HIDE DEF left
    <3> QED
      BY <2>1, <2>2, <3>1 DEF OutboxInv, OutboxTypes, OutcomeInHand
  <2> QED
    BY <2>3, <2>4, <2>5
<1>9. ASSUME NEW ok \in BOOLEAN, DrainMark(ok) PROVE OutboxInv'
  <2>1. /\ UNCHANGED <<refundStatus, heard>> /\ drain.pc = "marking"
        /\ drain' = IF ok THEN [drain EXCEPT !.pc = "sending"] ELSE NoDrain
        /\ outbox' = IF ok /\ outbox[drain.mark].state = "PENDING"
                     THEN [outbox EXCEPT ![drain.mark].state = "SENT"] ELSE outbox
    BY <1>9 DEF DrainMark
  <2>2. drain.mark \in StableIds
    BY <2>1 DEF OutboxInv, OutboxTypes
  <2>3. /\ outbox' \in [StableIds -> OutboxRow]
        /\ outbox'[RefundDm].payload = outbox[RefundDm].payload
        /\ \/ outbox'[RefundDm].state = outbox[RefundDm].state
           \/ /\ outbox'[RefundDm].state = "SENT" /\ outbox[RefundDm].state = "PENDING"
              /\ drain.mark = RefundDm
    BY <1>0, <2>1, <2>2 DEF OutboxInv, OutboxTypes, OutboxRow
  <2>4. /\ drain' \in [pc : {"idle", "sending", "marking"},
                  rows : SUBSET [id : StableIds, payload : Payloads],
                  mark : StableIds \cup {"none"}]
        /\ drain'.rows \subseteq drain.rows /\ drain'.pc # "marking"
        /\ drain'.pc = "idle" => drain'.rows = {}
    BY <1>1, <2>1 DEF OutboxInv, OutboxTypes
  <2>5. OutboxTypes'
    BY <2>1, <2>3, <2>4 DEF OutboxInv, OutboxTypes
  <2>6. OutcomeInHand'
    BY <2>1, <2>3, <2>4 DEF OutboxInv, OutcomeInHand
  <2> QED
    BY <2>5, <2>6 DEF OutboxInv
<1>10. CASE DrainEnd \/ OutboxRestart
  <2>1. UNCHANGED <<outbox, refundStatus, heard>> /\ drain' = NoDrain
    BY <1>10 DEF DrainEnd, OutboxRestart
  <2> QED
    BY <1>1, <2>1 DEF OutboxInv, OutboxTypes, OutcomeInHand
<1>11. CASE ResendSend
  <2>1. /\ UNCHANGED <<outbox, refundStatus, drain>>
        /\ heard' \in [StableIds -> Payloads] /\ heard'[RefundDm] = heard[RefundDm]
    BY <1>0, <1>11 DEF ResendSend, OutboxInv, OutboxTypes, Payloads
  <2> QED
    BY <2>1 DEF OutboxInv, OutboxTypes, OutcomeInHand
<1>12. CASE ResendMark
  <2>1. /\ UNCHANGED <<refundStatus, drain, heard>>
        /\ outbox' \in [StableIds -> OutboxRow] /\ outbox'[RefundDm] = outbox[RefundDm]
    BY <1>0, <1>12 DEF ResendMark, OutboxInv, OutboxTypes, OutboxRow
  <2> QED
    BY <1>2, <2>1
<1>13. CASE UNCHANGED outboxVars
  BY <1>2, <1>13 DEF outboxVars, OutboxInv, OutboxTypes
<1> QED
  BY <1>3, <1>4, <1>5, <1>6, <1>7, <1>8, <1>9, <1>10, <1>11, <1>12, <1>13 DEF OutboxNext

LEMMA OutboxInvHears == OutboxInv => BuyerHearsLast
BY DEF OutboxInv, OutboxTypes, OutcomeInHand, BuyerHearsLast

-----------------------------------------------------------------------------
(* Alerts and the relay blackout monitor.                                  *)

(* The lock is held from the check to the stamp, so what was checked is    *)
(* still so when the alert is enqueued.                                    *)
AlertsInv ==
    /\ tick \in Nat /\ lastSent \subseteq Nat /\ fired \subseteq Nat
    /\ reporter \in [Reporters -> [pc : {"idle", "waiting", "enqueue"}, now : Nat]]
    /\ \A r \in Reporters : reporter[r].pc = "enqueue" =>
          /\ \A t \in lastSent : ~(reporter[r].now - t < AlertCooldown)
          /\ \A s \in Reporters : reporter[s].pc = "enqueue" => s = r
    /\ AlertsSpaced

(* Nothing has been sent.                                                  *)
LEMMA AlertsInvInit == AlertsInit => AlertsInv
BY DEF AlertsInit, AlertsInv, NoDispatch, AlertsSpaced

(* Every step keeps the alerts apart.                                      *)
LEMMA AlertsInvStep == AlertsInv /\ [AlertsNext]_alertVars => AlertsInv'
<1> SUFFICES ASSUME AlertsInv, [AlertsNext]_alertVars PROVE AlertsInv'
  OBVIOUS
<1>1. CASE UNCHANGED alertVars \/ AlertsTick
  <2>1. UNCHANGED <<lastSent, fired, reporter>> /\ tick' \in Nat
    BY <1>1 DEF alertVars, AlertsTick, AlertsInv
  <2> QED
    BY <2>1 DEF AlertsInv, AlertsSpaced, Cooling
<1>2. CASE AlertsRestart
  BY <1>2 DEF AlertsRestart, AlertsInv, AlertsSpaced, NoDispatch
<1>3. ASSUME NEW r \in Reporters, DispatchStart(r) PROVE AlertsInv'
  BY <1>3 DEF DispatchStart, AlertsInv, AlertsSpaced, Cooling
<1>4. ASSUME NEW r \in Reporters, DispatchCheck(r) PROVE AlertsInv'
  <2>1. /\ UNCHANGED <<tick, lastSent, fired>> /\ DispatchFree
        /\ \A s \in Reporters \ {r} : reporter'[s] = reporter[s]
        /\ reporter'[r] = IF Cooling(reporter[r].now) THEN NoDispatch
                          ELSE [reporter[r] EXCEPT !.pc = "enqueue"]
        /\ reporter' = [reporter EXCEPT ![r] = reporter'[r]]
    BY <1>4 DEF DispatchCheck, AlertsInv
  <2>2. /\ reporter'[r] \in [pc : {"idle", "waiting", "enqueue"}, now : Nat]
        /\ reporter'[r].pc = "enqueue" =>
              \A t \in lastSent : ~(reporter'[r].now - t < AlertCooldown)
    BY <2>1 DEF AlertsInv, NoDispatch, Cooling
  <2>3. \A s \in Reporters \ {r} : reporter'[s].pc # "enqueue"
    BY <2>1 DEF DispatchFree
  <2>5. AlertsSpaced'
    BY <2>1 DEF AlertsInv, AlertsSpaced
  <2>6. reporter' \in [Reporters -> [pc : {"idle", "waiting", "enqueue"}, now : Nat]]
    BY <2>1, <2>2 DEF AlertsInv
  <2>7. ASSUME NEW s \in Reporters, reporter'[s].pc = "enqueue"
        PROVE  s = r /\ \A t \in lastSent' : ~(reporter'[s].now - t < AlertCooldown)
    BY <2>1, <2>2, <2>3, <2>7
  <2> QED
    BY <2>1, <2>5, <2>6, <2>7 DEF AlertsInv
<1>5. ASSUME NEW r \in Reporters, NEW ok \in BOOLEAN, DispatchCommit(r, ok) PROVE AlertsInv'
  <2> DEFINE n == reporter[r].now
  <2>1. /\ reporter[r].pc = "enqueue" /\ UNCHANGED tick /\ n \in Nat
        /\ \A t \in lastSent : ~(n - t < AlertCooldown)
        /\ reporter' = [reporter EXCEPT ![r] = NoDispatch]
        /\ fired' = IF ok THEN fired \cup {n} ELSE fired
        /\ lastSent' = IF ok THEN {n} ELSE lastSent
    BY <1>5 DEF DispatchCommit, AlertsInv
  <2>2. \A s \in Reporters : reporter'[s].pc # "enqueue"
    BY <2>1 DEF AlertsInv, NoDispatch
  <2>3. reporter' \in [Reporters -> [pc : {"idle", "waiting", "enqueue"}, now : Nat]]
    BY <2>1 DEF AlertsInv, NoDispatch
  <2>4. CASE ~ok
    BY <2>1, <2>2, <2>3, <2>4 DEF AlertsInv, AlertsSpaced
  <2>5. CASE ok
    <3>1. \A s \in fired : s \in Nat /\ n - s >= AlertCooldown
      BY <2>1, AlertsAssumption DEF AlertsInv, AlertsSpaced, Cooling
    <3>2. AlertsSpaced'
      <4>1. ASSUME NEW s \in fired', NEW t \in fired', s < t PROVE t - s >= AlertCooldown
        BY <2>1, <2>5, <3>1, <4>1, AlertsAssumption DEF AlertsInv, AlertsSpaced
      <4>2. \A s \in fired' : s <= n
        BY <2>1, <2>5, <3>1, AlertsAssumption
      <4> QED
        BY <2>1, <2>5, <4>1, <4>2 DEF AlertsSpaced
    <3> QED
      BY <2>1, <2>2, <2>3, <2>5, <3>2 DEF AlertsInv
  <2> QED
    BY <2>4, <2>5
<1> QED
  BY <1>1, <1>2, <1>3, <1>4, <1>5 DEF AlertsNext

(* The monitor's onset is the first sample of the dark run, and it has     *)
(* fired exactly when that onset was told; an onset that was told is past, *)
(* so no later blackout begins on it.                                      *)
WatchInv ==
    /\ rwTick \in 0 .. RwLastTick
    /\ blackouts \in [0 .. RwLastTick -> {0, 1}]
    /\ \A t \in 0 .. RwLastTick : blackouts[t] = 1 => t < rwTick
    /\ monitor \in [onset : SUBSET (0 .. RwLastTick), fired : BOOLEAN]
    /\ dark \in [first : Int, last : Int, heard : BOOLEAN]
    /\ monitor.onset = {} => ~monitor.fired /\ ~dark.heard /\ dark.first = -1
    /\ monitor.onset # {} =>
          /\ monitor.onset = {dark.first} /\ dark.first \in 0 .. rwTick /\ dark.last <= rwTick
          /\ monitor.fired <=> blackouts[dark.first] = 1
          /\ dark.heard /\ dark.last - dark.first >= BlackoutAlert => monitor.fired

(* Nothing sampled yet.                                                    *)
LEMMA WatchInvInit == RelayWatchInit => WatchInv
BY BlackoutAssumption DEF RelayWatchInit, WatchInv, Rearmed, NoDark

(* Every pass keeps the monitor and the alerts together.                   *)
LEMMA WatchInvStep == WatchInv /\ [RelayWatchNext]_rwVars => WatchInv'
<1> SUFFICES ASSUME WatchInv, [RelayWatchNext]_rwVars PROVE WatchInv'
  OBVIOUS
<1>0. RwLastTick \in Nat /\ BlackoutAlert \in Nat /\ BlackoutAlert >= 1
  BY BlackoutAssumption
<1>1. CASE UNCHANGED rwVars \/ \E up \in SUBSET Relays : PoolChanges(up)
  BY <1>1 DEF rwVars, PoolChanges, WatchInv
<1>2. CASE RwTicks
  BY <1>0, <1>2 DEF RwTicks, WatchInv
<1>3. CASE PassSamplesLight \/ WatchRestarts
  <2>1. /\ monitor' = Rearmed /\ dark' = NoDark /\ UNCHANGED rwTick
        /\ blackouts' = blackouts \/ blackouts' = [t \in 0 .. RwLastTick |-> 0]
    BY <1>3 DEF PassSamplesLight, WatchRestarts
  <2>2. /\ blackouts' \in [0 .. RwLastTick -> {0, 1}]
        /\ \A t \in 0 .. RwLastTick : blackouts'[t] = 1 => t < rwTick'
    BY <2>1 DEF WatchInv
  <2> QED
    BY <2>1, <2>2 DEF WatchInv, Rearmed, NoDark
<1>4. ASSUME NEW enqueued \in BOOLEAN, PassSamplesDark(enqueued) PROVE WatchInv'
  <2>1. /\ monitor' = [onset |-> {OnsetOf}, fired |-> monitor.fired \/ (OnsetDue /\ enqueued)]
        /\ blackouts' = IF OnsetDue /\ enqueued THEN [blackouts EXCEPT ![OnsetOf] = @ + 1]
                        ELSE blackouts
        /\ dark' = [first |-> IF dark.first < 0 THEN rwTick ELSE dark.first, last |-> rwTick,
                    heard |-> enqueued]
        /\ UNCHANGED rwTick /\ AllDisconnected
    BY <1>4 DEF PassSamplesDark, MarkFired
  <2>2. /\ OnsetOf = dark'.first /\ OnsetOf \in 0 .. rwTick
        /\ monitor.fired <=> blackouts[OnsetOf] = 1
    <3>1. CASE monitor.onset = {}
      BY <1>0, <2>1, <3>1 DEF WatchInv, OnsetOf
    <3>2. CASE monitor.onset # {}
      BY <1>0, <2>1, <3>2 DEF WatchInv, OnsetOf
    <3> QED
      BY <3>1, <3>2
  <2>3. OnsetDue <=> ~monitor.fired /\ rwTick - OnsetOf >= BlackoutAlert
    BY <2>1 DEF OnsetDue
  <2>4. /\ monitor'.onset = {OnsetOf} /\ dark'.last = rwTick /\ dark'.heard = enqueued
        /\ monitor'.fired <=> monitor.fired \/ (OnsetDue /\ enqueued)
        /\ dark' \in [first : Int, last : Int, heard : BOOLEAN]
    BY <1>0, <2>1, <2>2 DEF WatchInv
  <2>5. /\ blackouts' \in [0 .. RwLastTick -> {0, 1}]
        /\ blackouts'[OnsetOf] = 1 <=> blackouts[OnsetOf] = 1 \/ (OnsetDue /\ enqueued)
        /\ \A t \in 0 .. RwLastTick : t # OnsetOf => blackouts'[t] = blackouts[t]
    <3>1. CASE OnsetDue /\ enqueued
      <4>1. blackouts[OnsetOf] = 0 /\ OnsetOf \in 0 .. RwLastTick
        BY <1>0, <2>2, <2>3, <3>1 DEF WatchInv
      <4>2. blackouts' = [blackouts EXCEPT ![OnsetOf] = 1]
        BY <2>1, <3>1, <4>1
      <4> QED
        BY <3>1, <4>1, <4>2 DEF WatchInv
    <3>2. CASE ~(OnsetDue /\ enqueued)
      BY <2>1, <3>2 DEF WatchInv
    <3> QED
      BY <3>1, <3>2
  <2>6. \A t \in 0 .. RwLastTick : blackouts'[t] = 1 => t < rwTick'
    BY <1>0, <2>1, <2>2, <2>3, <2>5 DEF WatchInv
  <2>7. monitor' \in [onset : SUBSET (0 .. RwLastTick), fired : BOOLEAN]
    <3>1. monitor.fired \in BOOLEAN /\ OnsetDue \in BOOLEAN /\ OnsetOf \in 0 .. RwLastTick
      BY <1>0, <2>2 DEF WatchInv, OnsetDue, AllDisconnected
    <3> QED
      BY <2>1, <3>1
  <2>8. rwTick \in 0 .. RwLastTick /\ OnsetOf \in Int
    BY <2>2 DEF WatchInv
  <2>9. /\ monitor'.onset = {dark'.first} /\ dark'.first \in 0 .. rwTick' /\ dark'.last <= rwTick'
        /\ monitor'.fired <=> blackouts'[dark'.first] = 1
    BY <2>1, <2>2, <2>4, <2>5, <2>8
  <2>10. dark'.heard /\ dark'.last - dark'.first >= BlackoutAlert => monitor'.fired
    BY <2>2, <2>3, <2>4
  <2> QED
    BY <2>1, <2>4, <2>5, <2>6, <2>7, <2>8, <2>9, <2>10 DEF WatchInv
<1> QED
  BY <1>1, <1>2, <1>3, <1>4 DEF RelayWatchNext

LEMMA WatchInvTells == WatchInv => BlackoutToldOnce
BY BlackoutAssumption DEF WatchInv, BlackoutToldOnce

-----------------------------------------------------------------------------
(* The listing.                                                            *)

(* Where a command is, and the states of a listing.                        *)
Pcs == {"idle", "probing", "broadcast", "record", "retract"}
States == {"NONE", "UNPUBLISHED", "ACTIVE", "WITHDRAWN"}

(* The types the listing needs.                                            *)
ListingTypes ==
    /\ lrow \in [state : States, event : Nat]
    /\ epoch \in Nat /\ second \in Nat \ {0}
    /\ booting \in {"upsert", "broadcast", "done"}
    /\ command \in [Commands -> [pc : Pcs, state : States, epoch : Nat, accept : BOOLEAN,
                                 event : Nat]]

(* TRANSITION has one holder.                                              *)
OneHolder ==
    /\ \A c, d \in Commands :
          command[c].pc \notin {"idle", "probing"} /\ command[d].pc \notin {"idle", "probing"}
             => c = d
    /\ booting # "done" => \A c \in Commands : command[c].pc = "idle"

(* From the row taken down to the next snapshot the epoch has moved past   *)
(* every publish that is still out probing.                                *)
Superseded ==
    /\ \A c \in Commands : command[c].pc = "probing" => command[c].epoch <= epoch
    /\ told \/ (\E d \in Commands : command[d].pc = "retract") =>
          /\ lrow.state # "ACTIVE"
          /\ \A c \in Commands : command[c].pc = "probing" => command[c].epoch # epoch

(* What is to be recorded was broadcast.                                   *)
RecordedIsServed == \A c \in Commands : command[c].pc = "record" => served # 0

(* The inductive invariant of the listing.                                 *)
ListingInv ==
    /\ ListingTypes /\ OneHolder /\ Superseded /\ EventIdIsServed /\ RecordedIsServed

(* A fresh data directory.                                                 *)
LEMMA ListingInvInit == ListingInit => ListingInv
BY ListingAssumption DEF ListingInit, ListingInv, ListingTypes, OneHolder, Superseded,
   EventIdIsServed, RecordedIsServed, NoCommand, States, Pcs

(* The lock's holder is alone.                                             *)
LEMMA Alone ==
  ASSUME ListingInv, NEW c \in Commands, command[c].pc \notin {"idle", "probing"}
  PROVE  /\ booting = "done"
         /\ \A d \in Commands \ {c} : command[d].pc \in {"idle", "probing"}
BY DEF ListingInv, OneHolder

(* A command ends: its handler's record is cleared and nothing else of the *)
(* commands moves.                                                         *)
LEMMA CommandMoves ==
  ASSUME ListingInv, NEW c \in Commands, NEW r, CommandAt(c, r)
  PROVE  command'[c] = r /\ \A d \in Commands \ {c} : command'[d] = command[d]
BY DEF CommandAt, ListingInv, ListingTypes

(* Every step keeps the row true.                                          *)
LEMMA ListingInvStep == ListingInv /\ [ListingNext]_listingVars => ListingInv'
<1> SUFFICES ASSUME ListingInv, [ListingNext]_listingVars PROVE ListingInv'
  OBVIOUS
<1> DEFINE CmdType == [pc : Pcs, state : States, epoch : Nat, accept : BOOLEAN, event : Nat]
<1>0. /\ NoCommand \in CmdType /\ NoCommand.pc = "idle"
      /\ [NoCommand EXCEPT !.pc = "retract"] \in CmdType
      /\ [NoCommand EXCEPT !.pc = "retract"].pc = "retract"
  BY DEF NoCommand, Pcs, States
<1>1. CASE UNCHANGED listingVars \/ SecondPasses
  <2>1. UNCHANGED <<lrow, epoch, booting, command, told, served>> /\ second' \in Nat \ {0}
    BY <1>1 DEF listingVars, relaySide, SecondPasses, ListingInv, ListingTypes
  <2> QED
    BY <2>1 DEF ListingInv, ListingTypes, OneHolder, Superseded, EventIdIsServed, RecordedIsServed
<1>2. CASE BootUpsert
  <2>1. /\ booting = "upsert" /\ UNCHANGED <<epoch, command, told, served, second>>
        /\ lrow' = IF lrow.state = "NONE" THEN [state |-> "UNPUBLISHED", event |-> 0] ELSE lrow
        /\ booting' \in {"broadcast", "done"}
    BY <1>2 DEF BootUpsert, relaySide
  <2>2. \A c \in Commands : command[c].pc = "idle"
    BY <2>1 DEF ListingInv, OneHolder
  <2>3. /\ lrow' \in [state : States, event : Nat]
        /\ lrow'.state = "ACTIVE" => lrow.state = "ACTIVE" /\ lrow' = lrow
    BY <2>1 DEF ListingInv, ListingTypes, States
  <2>4. Superseded' /\ EventIdIsServed'
    BY <2>1, <2>2, <2>3 DEF ListingInv, Superseded, EventIdIsServed
  <2> QED
    BY <2>1, <2>2, <2>3, <2>4 DEF ListingInv, ListingTypes, OneHolder, RecordedIsServed
<1>3. CASE ListingRestart
  <2>1. /\ UNCHANGED <<lrow, told, served, second>> /\ epoch' = 0 /\ booting' = "upsert"
        /\ command' \in [Commands -> CmdType] /\ \A c \in Commands : command'[c].pc = "idle"
    BY <1>0, <1>3 DEF ListingRestart, relaySide
  <2> QED
    BY <2>1 DEF ListingInv, ListingTypes, OneHolder, Superseded, EventIdIsServed, RecordedIsServed
<1>4. ASSUME NEW a \in BOOLEAN, NEW b \in BOOLEAN, BootBroadcast(a, b) PROVE ListingInv'
  <2>1. /\ booting = "broadcast" /\ booting' = "done" /\ UNCHANGED <<epoch, command, told, second>>
        /\ lrow' = IF b THEN [lrow EXCEPT !.event = second] ELSE lrow
        /\ served' = served \/ served' = second
        /\ b => served' = second
    BY <1>4 DEF BootBroadcast, Broadcast
  <2>2. \A c \in Commands : command[c].pc = "idle"
    BY <2>1 DEF ListingInv, OneHolder
  <2>3. /\ lrow' \in [state : States, event : Nat] /\ lrow'.state = lrow.state
        /\ ~b => lrow' = lrow
    BY <2>1 DEF ListingInv, ListingTypes
  <2>4. second # 0
    BY DEF ListingInv, ListingTypes
  <2>5. Superseded' /\ EventIdIsServed'
    BY <2>1, <2>2, <2>3, <2>4 DEF ListingInv, Superseded, EventIdIsServed
  <2> QED
    BY <2>1, <2>2, <2>3, <2>5 DEF ListingInv, ListingTypes, OneHolder, RecordedIsServed
<1>5. ASSUME NEW c \in Commands, NEW ok \in BOOLEAN, TakeSnapshot(c, ok) PROVE ListingInv'
  <2> DEFINE r == [pc |-> "probing", state |-> lrow.state, epoch |-> epoch, accept |-> ok,
                   event |-> 0]
  <2>1. /\ Unlocked /\ UNCHANGED <<lrow, epoch, booting, served, second>> /\ told' = FALSE
        /\ CommandAt(c, r)
    BY <1>5 DEF TakeSnapshot, relaySide
  <2>2. r \in CmdType /\ r.pc = "probing" /\ r.epoch = epoch
    BY DEF ListingInv, ListingTypes, Pcs
  <2> HIDE DEF r
  <2>3. /\ command'[c] = r /\ \A d \in Commands \ {c} : command'[d] = command[d]
        /\ command' \in [Commands -> CmdType]
    BY <2>1, <2>2, CommandMoves DEF CommandAt, ListingInv, ListingTypes
  <2>4. booting = "done" /\ \A d \in Commands : command[d].pc \in {"idle", "probing"}
    BY <2>1 DEF Unlocked
  <2>5. \A d \in Commands : command'[d].pc \in {"idle", "probing"}
    BY <2>2, <2>3, <2>4
  <2>6. Superseded'
    BY <2>1, <2>2, <2>3, <2>5 DEF ListingInv, Superseded, ListingTypes
  <2> QED
    BY <2>1, <2>3, <2>4, <2>5, <2>6
    DEF ListingInv, ListingTypes, OneHolder, EventIdIsServed, RecordedIsServed
<1>6. ASSUME NEW c \in Commands, NEW ok \in BOOLEAN, Withdraw(c, ok) PROVE ListingInv'
  <2>1. /\ Unlocked /\ UNCHANGED <<booting, served, second, told>> /\ epoch' = epoch + 1
        /\ \/ UNCHANGED <<lrow, command>>
           \/ /\ lrow' = IF lrow.state = "ACTIVE" THEN [lrow EXCEPT !.state = "WITHDRAWN"] ELSE lrow
              /\ CommandAt(c, [NoCommand EXCEPT !.pc = "retract"])
    BY <1>6 DEF Withdraw, relaySide
  <2>2. booting = "done" /\ \A d \in Commands : command[d].pc \in {"idle", "probing"}
    BY <2>1 DEF Unlocked
  <2>3. epoch' \in Nat /\ epoch < epoch' /\ epoch \in Nat
    BY <2>1 DEF ListingInv, ListingTypes
  <2>4. \A d \in Commands : command[d].pc = "probing" => command[d].epoch < epoch'
    BY <2>3 DEF ListingInv, ListingTypes, Superseded
  <2>5. CASE UNCHANGED <<lrow, command>>
    <3>1. Superseded'
      BY <2>1, <2>2, <2>3, <2>4, <2>5 DEF ListingInv, ListingTypes, Superseded
    <3> QED
      BY <2>1, <2>2, <2>3, <2>5, <3>1
      DEF ListingInv, ListingTypes, OneHolder, EventIdIsServed, RecordedIsServed
  <2>6. CASE /\ lrow' = IF lrow.state = "ACTIVE" THEN [lrow EXCEPT !.state = "WITHDRAWN"] ELSE lrow
             /\ CommandAt(c, [NoCommand EXCEPT !.pc = "retract"])
    <3>1. lrow' \in [state : States, event : Nat] /\ lrow'.state # "ACTIVE"
      BY <2>6 DEF ListingInv, ListingTypes, States
    <3>2. /\ command'[c].pc = "retract" /\ \A d \in Commands \ {c} : command'[d] = command[d]
          /\ command' \in [Commands -> CmdType]
      BY <1>0, <2>6, CommandMoves DEF CommandAt, ListingInv, ListingTypes
    <3>3. Superseded'
      BY <2>3, <2>4, <3>1, <3>2 DEF ListingTypes, ListingInv, Superseded
    <3>4. OneHolder' /\ RecordedIsServed'
      BY <2>1, <2>2, <3>2 DEF OneHolder, RecordedIsServed
    <3> QED
      BY <2>1, <2>2, <2>3, <3>1, <3>2, <3>3, <3>4 DEF ListingInv, ListingTypes, EventIdIsServed
  <2> QED
    BY <2>1, <2>5, <2>6
<1>7. ASSUME NEW c \in Commands, NEW ok \in BOOLEAN, Retract(c, ok) PROVE ListingInv'
  <2>1. /\ command[c].pc = "retract" /\ CommandAt(c, NoCommand) /\ told' = TRUE
        /\ UNCHANGED <<lrow, epoch, booting, second>>
    BY <1>7 DEF Retract
  <2>2. /\ booting = "done"
        /\ \A d \in Commands \ {c} : command[d].pc \in {"idle", "probing"}
    BY <2>1, Alone
  <2>3. /\ command'[c].pc = "idle" /\ \A d \in Commands \ {c} : command'[d] = command[d]
        /\ command' \in [Commands -> CmdType]
    BY <1>0, <2>1, CommandMoves DEF CommandAt, ListingInv, ListingTypes
  <2>4. lrow.state # "ACTIVE" /\ Superseded'
    BY <2>1, <2>3 DEF ListingInv, Superseded
  <2>5. OneHolder' /\ RecordedIsServed'
    BY <2>1, <2>2, <2>3 DEF OneHolder, RecordedIsServed
  <2> QED
    BY <2>1, <2>3, <2>4, <2>5 DEF ListingInv, ListingTypes, EventIdIsServed
<1>8. ASSUME NEW c \in Commands, NEW ok \in BOOLEAN, RecordEvent(c, ok) PROVE ListingInv'
  <2>1. /\ command[c].pc = "record" /\ CommandAt(c, NoCommand)
        /\ lrow' = IF ok THEN [lrow EXCEPT !.event = command[c].event] ELSE lrow
        /\ UNCHANGED <<epoch, booting, told, served, second>>
    BY <1>8 DEF RecordEvent, relaySide
  <2>2. /\ booting = "done" /\ served # 0
        /\ \A d \in Commands \ {c} : command[d].pc \in {"idle", "probing"}
    BY <2>1, Alone DEF ListingInv, RecordedIsServed
  <2>3. /\ command'[c].pc = "idle" /\ \A d \in Commands \ {c} : command'[d] = command[d]
        /\ command' \in [Commands -> CmdType]
    BY <1>0, <2>1, CommandMoves DEF CommandAt, ListingInv, ListingTypes
  <2>4. lrow' \in [state : States, event : Nat] /\ lrow'.state = lrow.state
    BY <2>1 DEF ListingInv, ListingTypes
  <2>5. Superseded'
    BY <2>1, <2>3, <2>4 DEF ListingInv, Superseded
  <2>6. OneHolder' /\ RecordedIsServed' /\ EventIdIsServed'
    BY <2>1, <2>2, <2>3 DEF OneHolder, RecordedIsServed, EventIdIsServed
  <2> QED
    BY <2>1, <2>3, <2>4, <2>5, <2>6 DEF ListingInv, ListingTypes
<1>9. ASSUME NEW c \in Commands, NEW ok \in BOOLEAN, NEW rep \in BOOLEAN,
             PublishBroadcast(c, ok, rep)
      PROVE  ListingInv'
  <2> DEFINE r == IF rep THEN [command[c] EXCEPT !.pc = "record", !.event = second]
                  ELSE NoCommand
  <2>1. /\ command[c].pc = "broadcast" /\ CommandAt(c, r)
        /\ UNCHANGED <<lrow, epoch, booting, told, second>>
        /\ served' = served \/ served' = second
        /\ rep => served' = second
    BY <1>9 DEF PublishBroadcast, Broadcast
  <2>2. r \in CmdType /\ r.pc \in {"idle", "record"} /\ (~rep => r.pc = "idle")
    BY <1>0 DEF ListingInv, ListingTypes, Pcs
  <2> HIDE DEF r
  <2>3. /\ booting = "done" /\ second # 0
        /\ \A d \in Commands \ {c} : command[d].pc \in {"idle", "probing"}
    BY <2>1, Alone DEF ListingInv, ListingTypes
  <2>4. /\ command'[c] = r /\ \A d \in Commands \ {c} : command'[d] = command[d]
        /\ command' \in [Commands -> CmdType]
    BY <2>1, <2>2, CommandMoves DEF CommandAt, ListingInv, ListingTypes
  <2>5. Superseded'
    BY <2>1, <2>2, <2>4 DEF ListingInv, Superseded
  <2>6. OneHolder' /\ RecordedIsServed' /\ EventIdIsServed'
    BY <2>1, <2>2, <2>3, <2>4 DEF ListingInv, OneHolder, RecordedIsServed, EventIdIsServed
  <2> QED
    BY <2>1, <2>4, <2>5, <2>6 DEF ListingInv, ListingTypes
<1>10. ASSUME NEW c \in Commands, NEW ok \in BOOLEAN, NEW report \in Reports,
              PublishGate(c, report, ok)
       PROVE  ListingInv'
  <2>1. /\ Unlocked /\ command[c].pc = "probing"
        /\ UNCHANGED <<epoch, booting, told, served, second>>
        /\ \/ CommandAt(c, NoCommand) /\ UNCHANGED lrow
           \/ /\ ~Moved(c) /\ lrow' = Activated
              /\ CommandAt(c, [command[c] EXCEPT !.pc = "broadcast"])
    BY <1>10 DEF PublishGate, relaySide
  <2>2. booting = "done" /\ \A d \in Commands : command[d].pc \in {"idle", "probing"}
    BY <2>1 DEF Unlocked
  <2>3. CASE CommandAt(c, NoCommand) /\ UNCHANGED lrow
    <3>1. /\ command'[c].pc = "idle" /\ \A d \in Commands \ {c} : command'[d] = command[d]
          /\ command' \in [Commands -> CmdType]
      BY <1>0, <2>3, CommandMoves DEF CommandAt, ListingInv, ListingTypes
    <3>2. Superseded'
      BY <2>1, <2>3, <3>1 DEF ListingInv, Superseded
    <3>3. OneHolder' /\ RecordedIsServed' /\ EventIdIsServed'
      BY <2>1, <2>2, <2>3, <3>1 DEF ListingInv, OneHolder, RecordedIsServed, EventIdIsServed
    <3> QED
      BY <2>1, <2>3, <3>1, <3>2, <3>3 DEF ListingInv, ListingTypes
  <2>4. CASE /\ ~Moved(c) /\ lrow' = Activated
             /\ CommandAt(c, [command[c] EXCEPT !.pc = "broadcast"])
    <3>1. /\ command'[c].pc = "broadcast" /\ \A d \in Commands \ {c} : command'[d] = command[d]
          /\ command' \in [Commands -> CmdType]
      BY <2>4, CommandMoves DEF CommandAt, ListingInv, ListingTypes, Pcs
    <3>2. lrow' \in [state : States, event : Nat] /\ (lrow'.event # 0 => lrow' = lrow)
      BY <2>4 DEF Activated, ListingInv, ListingTypes, States
    <3>3. command[c].epoch = epoch
      BY <2>4 DEF Moved
    <3>4. ~told
      BY <2>1, <3>3 DEF ListingInv, Superseded
    <3>5. Superseded'
      BY <2>1, <2>2, <3>1, <3>4 DEF ListingInv, Superseded
    <3>6. OneHolder' /\ RecordedIsServed' /\ EventIdIsServed'
      BY <2>1, <2>2, <3>1, <3>2 DEF ListingInv, OneHolder, RecordedIsServed, EventIdIsServed
    <3> QED
      BY <2>1, <3>1, <3>2, <3>5, <3>6 DEF ListingInv, ListingTypes
  <2> QED
    BY <2>1, <2>3, <2>4
<1> QED
  BY <1>1, <1>2, <1>3, <1>4, <1>5, <1>6, <1>7, <1>8, <1>9, <1>10 DEF ListingNext

(* What the operator was told is so in every state of the invariant.       *)
LEMMA ListingInvTells == ListingInv => ListingIsTrue
BY DEF ListingInv, Superseded, ListingIsTrue, ToldNotLive

-----------------------------------------------------------------------------
(* The backlog walk.                                                       *)

(* How much the relay answers at most.                                     *)
PageCut == Min({clamp, PageLimit})

(* A readable event nobody queued yet.                                     *)
NotQueued == Events \ (broken \cup queued)

(* What is newer than the cursor is queued; a walk that cannot cross a     *)
(* second has queued all but what lies at or below it.                     *)
BackfillInv ==
    /\ created \in [Events -> Seconds] /\ broken \subseteq Events
    /\ clamp \in Clamps /\ observed \in Nat /\ observed <= PageCut
    /\ until = {} \/ \E s \in Seconds : until = {s}
    /\ walk = "paging" => \A s \in until : \A e \in NotQueued : created[e] <= s
    /\ walk = "stalled" =>
          \A e \in NotQueued : \E s \in Seconds : Crowded(s) /\ created[e] <= s
    /\ NothingBuried

(* The larger and the smaller of two numbers.                              *)
LEMMA OfTwo ==
  ASSUME NEW a \in Nat, NEW b \in Nat
  PROVE  /\ Min({a, b}) = IF a <= b THEN a ELSE b
         /\ Max({a, b}) = IF a >= b THEN a ELSE b
BY DEF Min, Max

(* A set of natural numbers has a least one: among the intervals 0..m that *)
(* end in it, one has no other inside.                                     *)
LEMMA LeastExists ==
  ASSUME NEW T, T \subseteq Nat, T # {}
  PROVE  Min(T) \in T /\ \A y \in T : Min(T) <= y
<1>1. PICK n \in T : TRUE
  OBVIOUS
<1>2. n \in Nat
  OBVIOUS
<1> DEFINE S == 0..n
           W == {U \in SUBSET S : \E m \in T : U = 0..m}
<1>3. IsFiniteSet(S)
  BY <1>2, FS_Interval
<1>4. W \in SUBSET (SUBSET S) /\ S \in W
  OBVIOUS
<1>5. IsWellFoundedOn(StrictSubsetOrdering(S), SUBSET S)
  BY <1>3, FS_StrictSubsetOrderingWellFounded, FS_FiniteSubsetsOfFinite
<1>6. PICK V \in W : \A U \in W : <<U, V>> \notin StrictSubsetOrdering(S)
  <2> HIDE DEF W, S
  <2> QED
    BY <1>4, <1>5, WFMin
<1>7. \A U \in W : ~(U \subseteq V /\ U # V)
  BY <1>6 DEF StrictSubsetOrdering
<1>8. PICK x \in T : V = 0..x
  OBVIOUS
<1>9. x \in Nat /\ V \in SUBSET S
  OBVIOUS
<1>10. \A y \in T : x <= y
  <2> SUFFICES ASSUME NEW y \in T, ~(x <= y) PROVE FALSE
    OBVIOUS
  <2>1. y \in Nat /\ y < x
    BY <1>9
  <2>2. 0..y \subseteq V /\ x \in V /\ x \notin 0..y
    BY <1>8, <1>9, <2>1
  <2>3. 0..y \in W
    BY <1>9, <2>2
  <2> HIDE DEF W, S
  <2> QED
    BY <1>7, <2>2, <2>3
<1> QED
  BY <1>10 DEF Min

(* Nothing asked yet.                                                      *)
LEMMA BackfillInvInit == BackfillInit => BackfillInv
<1> SUFFICES ASSUME BackfillInit PROVE BackfillInv
  OBVIOUS
<1>1. clamp \in Nat /\ PageLimit \in Nat
  BY BackfillAssumption DEF BackfillInit
<1>2. 0 <= PageCut
  BY <1>1, OfTwo DEF PageCut
<1> QED
  BY <1>2 DEF BackfillInit, BackfillInv, NothingBuried

(* Every page keeps what is newer than the cursor queued.                  *)
LEMMA BackfillInvStep == BackfillInv /\ [BackfillNext]_backfillVars => BackfillInv'
<1> SUFFICES ASSUME BackfillInv, [BackfillNext]_backfillVars PROVE BackfillInv'
  OBVIOUS
<1>0. /\ clamp \in Nat \ {0} /\ PageLimit \in Nat \ {0} /\ PageCut \in Nat \ {0}
      /\ Seconds \subseteq Nat /\ IsFiniteSet(Events)
  <2>1. clamp \in Nat \ {0} /\ PageLimit \in Nat \ {0}
    BY BackfillAssumption DEF BackfillInv
  <2> QED
    BY <2>1, OfTwo, BackfillAssumption DEF PageCut
<1>1. UNCHANGED <<created, broken, clamp, reconciles>>
  BY DEF BackfillNext, FetchPage, PageCap, Reconcile, backfillVars, relayVars
<1>2. /\ PageCut' = PageCut
      /\ \A s \in Seconds : Crowded(s)' <=> Crowded(s)
  BY <1>1 DEF PageCut, Crowded
<1>3. CASE UNCHANGED backfillVars
  BY <1>1, <1>2, <1>3 DEF backfillVars, walkVars, BackfillInv, NotQueued, NothingBuried
<1>4. CASE PageCap
  BY <1>1, <1>2, <1>4 DEF PageCap, BackfillInv, NothingBuried
<1>5. CASE Reconcile
  <2>1. /\ walk = "stalled" /\ walk' = "done" /\ UNCHANGED <<until, observed>>
        /\ queued' = IF reconciles THEN Events \ broken ELSE queued
    BY <1>5 DEF Reconcile
  <2>2. NothingBuried'
    <3> SUFFICES ASSUME NEW e \in Events, e \notin broken, e \notin queued'
                 PROVE  ~reconciles /\ \E s \in Seconds : Crowded(s) /\ created[e] <= s
      BY <1>1, <1>2 DEF NothingBuried
    <3> QED
      BY <2>1 DEF BackfillInv, NotQueued
  <2> QED
    BY <1>1, <1>2, <2>1, <2>2 DEF BackfillInv
<1>6. CASE FetchPage
  <2>1. PICK P \in SUBSET Events :
          /\ IsPage(P, until)
          /\ queued' = queued \union (P \ broken)
          /\ observed' = Max({observed, Cardinality(P)})
          /\ walk' = AfterPage(P)
          /\ until' = IF walk' = "paging" /\ P \ broken # {} THEN {Oldest(P)} ELSE until
    BY <1>6 DEF FetchPage
  <2> DEFINE S == AtOrBefore(until)
  <2>2. walk = "paging"
    BY <1>6 DEF FetchPage
  <2>3. /\ P \subseteq S /\ S \subseteq Events
        /\ \A e \in P, f \in S \ P : created[e] >= created[f]
    BY <2>1 DEF IsPage, AtOrBefore
  <2>4. IsFiniteSet(S) /\ IsFiniteSet(P) /\ Cardinality(S) \in Nat /\ Cardinality(P) \in Nat
    BY <1>0, <2>3, FS_Subset, FS_CardinalityType
  <2>5. /\ Cardinality(P) <= PageCut
        /\ Cardinality(P) < PageCut => P = S
    <3>1. Cardinality(P) = IF Cardinality(S) <= PageCut THEN Cardinality(S) ELSE PageCut
      BY <1>0, <2>1, <2>4, OfTwo DEF IsPage, PageCut
    <3>2. Cardinality(P) = Cardinality(S) => P = S
      BY <2>3, <2>4, FS_Subset
    <3> QED
      BY <1>0, <2>4, <3>1, <3>2
  <2>6. /\ \A e \in NotQueued : e \in S
        /\ NotQueued' = NotQueued \ P
    <3>1. \A e \in NotQueued : \A s \in until : created[e] <= s
      BY <2>2 DEF BackfillInv
    <3> QED
      BY <1>1, <2>1, <3>1 DEF NotQueued, AtOrBefore
  <2>7. observed' \in Nat /\ observed' <= PageCut
        /\ observed' = IF observed >= Cardinality(P) THEN observed ELSE Cardinality(P)
    BY <1>0, <2>1, <2>4, <2>5, OfTwo DEF BackfillInv
  <2>8. \A e \in Events : created[e] \in Nat /\ created[e] \in Seconds
    BY <1>0 DEF BackfillInv
  <2>9. P \ broken # {} =>
          /\ \E p \in P \ broken : Oldest(P) = created[p]
          /\ \A p \in P \ broken : Oldest(P) <= created[p]
          /\ Oldest(P) \in Seconds
    <3> DEFINE T == {created[e] : e \in P \ broken}
    <3> SUFFICES ASSUME P \ broken # {}
                 PROVE  /\ \E p \in P \ broken : Oldest(P) = created[p]
                        /\ \A p \in P \ broken : Oldest(P) <= created[p]
                        /\ Oldest(P) \in Seconds
      OBVIOUS
    <3>1. T \subseteq Nat /\ T # {} /\ Oldest(P) = Min(T)
      BY <2>1, <2>8 DEF Oldest
    <3>2. Min(T) \in T /\ \A y \in T : Min(T) <= y
      BY <3>1, LeastExists
    <3> QED
      BY <2>1, <2>8, <3>1, <3>2
  <2>10. CASE P = {}
    <3>1. walk' = "done" /\ until' = until
      BY <2>1, <2>10 DEF AfterPage
    <3>2. Cardinality(P) = 0
      BY <2>10, FS_EmptySet
    <3>3. P = S
      BY <1>0, <2>5, <3>2
    <3>4. NotQueued' = {}
      BY <2>6, <3>3
    <3>5. NothingBuried'
      BY <3>4 DEF NothingBuried, NotQueued
    <3> QED
      BY <1>1, <1>2, <2>7, <3>1, <3>5 DEF BackfillInv
  <2>11. CASE P # {} /\ P \subseteq broken
    <3>1. walk' = "unreadable" /\ until' = until
      BY <2>1, <2>11 DEF AfterPage
    <3> QED
      BY <1>1, <1>2, <2>7, <3>1 DEF BackfillInv, NothingBuried
  <2>12. CASE P \ broken # {} /\ (until = {} \/ \A s \in until : Oldest(P) < s)
    <3>1. walk' = "paging"
      BY <2>1, <2>12 DEF AfterPage
    <3>2. until' = {Oldest(P)}
      BY <2>1, <2>12, <3>1
    <3>3. \A e \in NotQueued' : created[e] <= Oldest(P)
      BY <2>3, <2>6, <2>8, <2>9, <2>12
    <3> QED
      BY <1>1, <1>2, <2>7, <2>9, <2>12, <3>1, <3>2, <3>3 DEF BackfillInv, NothingBuried
  <2>13. CASE P \ broken # {} /\ ~(until = {} \/ \A s \in until : Oldest(P) < s)
    <3>1. walk' = IF Cardinality(P) < observed' THEN "done" ELSE "stalled"
      BY <2>1, <2>13 DEF AfterPage
    <3>2. until' = until
      BY <2>1, <3>1
    <3>3. PICK s \in Seconds : until = {s}
      BY <2>13 DEF BackfillInv
    <3>4. Oldest(P) >= s /\ s \in Nat
      <4>1. Oldest(P) \in Nat /\ s \in Nat
        BY <1>0, <2>9, <2>13
      <4>2. ~(Oldest(P) < s)
        BY <2>13, <3>3
      <4> HIDE DEF Oldest
      <4> QED
        BY <4>1, <4>2
    <3>5. \A p \in P : created[p] <= s
      BY <2>3, <3>3 DEF AtOrBefore
    <3>6. \A p \in P \ broken : created[p] = s
      BY <2>1, <2>8, <2>9, <3>4, <3>5
    <3>7. CASE Cardinality(P) < PageCut
      <4>1. NotQueued' = {}
        BY <2>5, <2>6, <3>7
      <4>2. NothingBuried'
        BY <4>1 DEF NothingBuried, NotQueued
      <4> QED
        BY <1>1, <1>2, <2>7, <3>1, <3>2, <4>1, <4>2 DEF BackfillInv
    <3>8. CASE ~(Cardinality(P) < PageCut)
      <4>1. walk' = "stalled" /\ Cardinality(P) = PageCut
        BY <1>0, <2>4, <2>5, <2>7, <3>1, <3>8
      <4> DEFINE C == {e \in Events : created[e] = s \/ (e \in broken /\ created[e] < s)}
      <4>2. P \subseteq C
        BY <2>1, <2>8, <3>4, <3>5, <3>6
      <4>3. IsFiniteSet(C) /\ Cardinality(C) \in Nat /\ Cardinality(P) <= Cardinality(C)
        BY <1>0, <4>2, FS_Subset, FS_CardinalityType
      <4>4. Crowded(s)
        BY <1>0, <4>1, <4>3 DEF Crowded, PageCut
      <4>5. \A e \in NotQueued' : created[e] <= s
        BY <2>6, <3>3 DEF AtOrBefore
      <4> QED
        BY <1>1, <1>2, <2>7, <3>2, <4>1, <4>4, <4>5 DEF BackfillInv, NothingBuried
    <3> QED
      BY <3>7, <3>8
  <2> QED
    BY <2>10, <2>11, <2>12, <2>13
<1> QED
  BY <1>3, <1>4, <1>5, <1>6 DEF BackfillNext

-----------------------------------------------------------------------------
(* The long-lived subscription.                                            *)

(* While the relay does not serve it, the closure is the last notification *)
(* or, once it was read, something that subscribes again remembers it.     *)
SubInv ==
    /\ live \in BOOLEAN /\ failed \in BOOLEAN /\ lag \in Nat
    /\ chan \in Seq({"CLOSED", "EVENT", "EOSE"})
    /\ ~live /\ Len(chan) > 0 => chan[Len(chan)] = "CLOSED"
    /\ ~live /\ Len(chan) = 0 =>
          recovery = "backoff" \/ (closed.pending /\ closed.retry) \/ lag > 0 \/ failed

(* The relay serves it.                                                    *)
LEMMA SubInvInit == ResubscribeInit => SubInv
<1>1. <<>> \in Seq({"CLOSED", "EVENT", "EOSE"}) /\ 0 \in Nat
  OBVIOUS
<1> QED
  BY <1>1, Zenon DEF ResubscribeInit, SubInv

(* Reading the head keeps the last notification.                           *)
LEMMA LastStays ==
  ASSUME NEW q \in Seq({"CLOSED", "EVENT", "EOSE"}), q # <<>>
  PROVE  /\ Tail(q) \in Seq({"CLOSED", "EVENT", "EOSE"}) /\ Len(q) > 0
         /\ Len(Tail(q)) > 0 => Tail(q)[Len(Tail(q))] = q[Len(q)]
         /\ Len(Tail(q)) = 0 => q[Len(q)] = Head(q)
<1>1. Len(q) \in Nat /\ Len(q) > 0 /\ Tail(q) \in Seq({"CLOSED", "EVENT", "EOSE"})
      /\ Len(Tail(q)) = Len(q) - 1
  OBVIOUS
<1>2. \A i \in 1 .. Len(q) - 1 : Tail(q)[i] = q[i + 1]
  OBVIOUS
<1>3. Len(q) > 1 => Tail(q)[Len(q) - 1] = q[Len(q)]
  BY <1>1, <1>2
<1>4. Len(q) = 1 => q[Len(q)] = Head(q)
  OBVIOUS
<1> QED
  BY <1>1, <1>3, <1>4

(* Every step keeps a closed subscription remembered.                      *)
LEMMA SubInvStep == SubInv /\ [ResubscribeNext]_subVars => SubInv'
<1> SUFFICES ASSUME SubInv, [ResubscribeNext]_subVars PROVE SubInv'
  OBVIOUS
<1>1. CASE UNCHANGED subVars
  BY <1>1 DEF subVars, SubInv
<1>2. CASE RelayCloses
  <2>1. /\ chan' \in Seq({"CLOSED", "EVENT", "EOSE"}) /\ Len(chan') > 0
        /\ chan'[Len(chan')] = "CLOSED" /\ ~(Len(chan') = 0)
    BY <1>2 DEF RelayCloses, SubInv
  <2>2. lag' = lag /\ live' = FALSE /\ failed' = FALSE
    BY <1>2 DEF RelayCloses
  <2> QED
    BY <2>1, <2>2, Zenon DEF SubInv
<1>3. CASE RelayDelivers
  <2>1. chan' \in Seq({"CLOSED", "EVENT", "EOSE"})
    BY <1>3 DEF RelayDelivers, SubInv
  <2>2. lag' = lag /\ live' = live /\ live /\ failed' = failed
    BY <1>3 DEF RelayDelivers
  <2> QED
    BY <2>1, <2>2, Zenon DEF SubInv
<1>4. CASE OnClosed
  <2>1. /\ chan' \in Seq({"CLOSED", "EVENT", "EOSE"}) /\ Len(chan) > 0
        /\ Len(chan') > 0 => chan'[Len(chan')] = chan[Len(chan)]
    BY <1>4, LastStays DEF OnClosed, SubInv
  <2>2. live' = live /\ lag' = lag
    BY <1>4 DEF OnClosed
  <2>3. failed' \in BOOLEAN /\ (recovery' = "backoff" \/ (closed'.pending /\ closed'.retry))
    <3>1. CASE closed.pending
      <4>1. closed' = [closed EXCEPT !.retry = TRUE] /\ failed' = failed
        BY <1>4, <3>1 DEF OnClosed
      <4>2. closed'.pending /\ closed'.retry
        BY <3>1, <4>1 DEF SubInv
      <4> QED
        BY <4>1, <4>2, Zenon DEF SubInv
    <3>2. CASE ~closed.pending
      BY <1>4, <3>2, Zenon DEF OnClosed
    <3> QED
      BY <3>1, <3>2
  <2> QED
    BY <2>1, <2>2, <2>3, Zenon DEF SubInv
<1>5. CASE OnEvent
  <2>1. /\ chan' \in Seq({"CLOSED", "EVENT", "EOSE"}) /\ Len(chan) > 0
        /\ Len(chan') > 0 => chan'[Len(chan')] = chan[Len(chan)]
        /\ Len(chan') = 0 => chan[Len(chan)] # "CLOSED"
    BY <1>5, LastStays DEF OnEvent, SubInv
  <2>2. live' = live /\ lag' = lag /\ failed' = failed
    BY <1>5 DEF OnEvent
  <2> QED
    BY <2>1, <2>2, Zenon DEF SubInv
<1>6. CASE Lagged
  <2>1. lag' \in Nat /\ lag' > 0 /\ chan' \in Seq({"CLOSED", "EVENT", "EOSE"}) /\ ~(Len(chan') > 0)
    BY <1>6 DEF Lagged, SubInv
  <2>2. live' = live /\ failed' = FALSE
    BY <1>6 DEF Lagged
  <2> QED
    BY <2>1, <2>2, Zenon DEF SubInv
<1>7. ASSUME NEW ok \in BOOLEAN, Subscribe(ok), lag' \in Nat PROVE SubInv'
  <2>1. CASE ok
    <3>1. live' = TRUE /\ failed' = FALSE
      BY <1>7, <2>1, Zenon DEF Subscribe
    <3>2. chan' \in Seq({"CLOSED", "EVENT", "EOSE"})
      BY <1>7, <2>1 DEF Subscribe, SubInv
    <3> QED
      BY <1>7, <3>1, <3>2, Zenon DEF SubInv
  <2>2. CASE ~ok
    <3>1. live' \in BOOLEAN /\ (live' <=> live) /\ failed' = ~live' /\ chan' = chan
      BY <1>7, <2>2, Zenon DEF Subscribe, SubInv
    <3> QED
      BY <1>7, <3>1, Zenon DEF SubInv
  <2> QED
    BY <2>1, <2>2
<1>8. ASSUME NEW ok \in BOOLEAN, LagResubscribes(ok) \/ RecoverySubscribes(ok) PROVE SubInv'
  <2>1. Subscribe(ok)
    BY <1>8 DEF LagResubscribes, RecoverySubscribes
  <2>2. lag' \in Nat
    BY <1>8 DEF LagResubscribes, RecoverySubscribes, SubInv
  <2> QED
    BY <1>7, <2>1, <2>2
<1>9. CASE FinishRecovery
  <2>1. recovery # "backoff" /\ live' = live /\ lag' = lag /\ chan' = chan
    BY <1>9 DEF FinishRecovery
  <2>2. CASE closed.retry
    <3>1. recovery' = "backoff" /\ failed' = FALSE
      BY <1>9, <2>2 DEF FinishRecovery
    <3> QED
      BY <2>1, <3>1, Zenon DEF SubInv
  <2>3. CASE ~closed.retry
    <3>1. failed' = failed
      BY <1>9, <2>3 DEF FinishRecovery
    <3> QED
      BY <2>1, <2>3, <3>1, Zenon DEF SubInv
  <2> QED
    BY <2>2, <2>3
<1> QED
  BY <1>1, <1>2, <1>3, <1>4, <1>5, <1>6, <1>8, <1>9 DEF ResubscribeNext

(* What is remembered is what brings it back.                              *)
LEMMA SubInvRecovers == SubInv => ClosedIsRecovered
<1> SUFFICES ASSUME SubInv, ~live, Len(chan) > 0 PROVE \E i \in DOMAIN chan : chan[i] = "CLOSED"
  BY DEF SubInv, ClosedIsRecovered
<1>1. Len(chan) \in DOMAIN chan
  BY DEF SubInv
<1> QED
  BY <1>1 DEF SubInv

-----------------------------------------------------------------------------
(* The buyer's agent.                                                      *)

(* What a reply says, and a gift wrap to the buyer.                        *)
Says == {"served", "refused", "garbled"}
ReplyWraps == [from : {"operator", "stranger"}, rid : Nat, says : Says]

(* An id nobody was asked under and no row was made for.                   *)
Unasked(r) == byAsked[r] = 0 /\ byServed[r] = "none"

(* An operation of an agent that pins its ids, and no stale refusal yet.   *)
Unsuperseded == byKind = "op" /\ byPins /\ ~byStale

(* The types, and the id a call runs under.                                *)
BuyerTypes ==
    /\ byKind \in Verbs /\ byClock \in Nat /\ byTry \in 0 .. MaxTries /\ byRid \in 0 .. byTry
    /\ byAsked \in [Rids -> Nat] /\ byServed \in [Rids -> {"none", "running", "done"}]
    /\ byWire \subseteq ReplyWraps
    /\ byCall \in [pc : {"idle", "publish", "read"}, start : Nat, deadline : Nat,
                   held : ReplyWraps \cup {Nothing}]
    /\ byCall.pc # "idle" \/ Retryable(byAnswer) => byRid \in Rids
    /\ byCall.pc = "read" => byKind # "cancel"

(* An operation's exchange is never cut short of its timeout, and what it  *)
(* holds is a refusal of its id.                                           *)
ExchangeIsWhole ==
    /\ byKind = "op" /\ byCall.pc # "idle" => byCall.deadline = byCall.start + BuyerTimeout
    /\ byCall.held # Nothing =>
          byCall.held.from = "operator" /\ byCall.held.rid = byRid /\ byCall.held.says = "refused"

(* An id that was given up is quiet for good, and one not minted yet too.  *)
OthersQuiet ==
    Unsuperseded =>
        /\ \A r \in Rids : r # byRid => Unasked(r)
        /\ byCall.pc = "idle" /\ ~Retryable(byAnswer) /\ byAnswer.says \notin {"served", "sent"} =>
              \A r \in Rids : Unasked(r)

(* An answer is the operator's, to the id of the call that returned it.    *)
AnswerIsOwn ==
    byAnswer.says \in {"served", "refused"} =>
         /\ byAnswer.from = "operator"
         /\ byCall.pc = "idle" /\ byKind # "delivery" => byAnswer.rid = byRid

(* The inductive invariant of the buyer.                                   *)
BuyerInv == BuyerTypes /\ ExchangeIsWhole /\ OthersQuiet /\ AnswerIsOwn

(* Nothing asked yet.                                                      *)
LEMMA BuyerInvInit == BuyerInit => BuyerInv
<1> SUFFICES ASSUME BuyerInit PROVE BuyerInv
  OBVIOUS
<1>1. Nothing \notin ReplyWraps
  BY DEF Nothing, ReplyWraps
<1>2. BuyerTypes
  BY BuyerAssumption DEF BuyerInit, BuyerTypes, Rids, ReplyWraps, Says, Message, Idle0, Nothing,
     Retryable
<1>3. ExchangeIsWhole
  BY DEF BuyerInit, ExchangeIsWhole, Idle0
<1>4. OthersQuiet
  BY DEF BuyerInit, OthersQuiet, Unasked
<1>5. AnswerIsOwn
  BY DEF BuyerInit, AnswerIsOwn, Nothing
<1> QED
  BY <1>2, <1>3, <1>4, <1>5 DEF BuyerInv

(* Only the id of the last call was ever taken up.                         *)
LEMMA BuyerInvTells == BuyerInv => AgentRunsOnce
<1> SUFFICES ASSUME BuyerInv PROVE AgentRunsOnce
  OBVIOUS
<1> DEFINE T == {r \in Rids : byServed[r] # "none"}
<1>1. ASSUME byKind = "op" /\ byPins /\ ~byStale PROVE Cardinality(T) <= 1
  <2>1. T \subseteq {byRid}
    BY <1>1 DEF BuyerInv, OthersQuiet, Unsuperseded, Unasked
  <2>2. IsFiniteSet({byRid}) /\ Cardinality({byRid}) = 1
    BY FS_Singleton
  <2> HIDE DEF T
  <2> QED
    BY <2>1, <2>2, FS_Subset
<1> QED
  BY <1>1, Zenon DEF AgentRunsOnce, BuyerInv, AnswerIsOwn

(* A reply that is rated is the operator's, and to the id of the call      *)
(* unless the call goes by the subscription.                               *)
LEMMA RatedIsOwn ==
  ASSUME BuyerTypes, NEW msg \in byWire, Rating(msg) # "ignore", byKind # "cancel"
  PROVE  /\ msg.from = "operator" /\ msg.says \in {"served", "refused"}
         /\ byKind # "delivery" => msg.rid = byRid
         /\ Rating(msg) # "preferred" => msg.says = "refused" /\ msg.rid = byRid
         /\ byKind = "op" /\ Rating(msg) = "preferred" => msg.says = "served"
<1>1. msg.from = "operator" /\ msg.says # "garbled"
  BY DEF Rating, Unwraps
<1>2. msg.says \in {"served", "refused"}
  BY <1>1 DEF BuyerTypes, ReplyWraps, Says
<1>3. byKind \in {"op", "renew", "order", "delivery"}
  BY DEF BuyerTypes, Verbs
<1>4. Rating(msg) = CASE byKind = "order" -> OrderRating(msg)
           [] byKind = "renew" -> RenewRating(msg)
           [] byKind = "op" -> OpRating(msg)
           [] OTHER -> DeliveryRating(msg)
  BY <1>1 DEF Rating, Unwraps
<1>5. /\ byKind = "order" => Rating(msg) = OrderRating(msg)
      /\ byKind = "renew" => Rating(msg) = RenewRating(msg)
      /\ byKind = "op" => Rating(msg) = OpRating(msg)
      /\ byKind = "delivery" => Rating(msg) = DeliveryRating(msg)
  BY <1>4
<1> QED
  BY <1>1, <1>2, <1>3, <1>5 DEF OrderRating, RenewRating, OpRating, DeliveryRating

(* A step of the agent or of the operator keeps it.                        *)
LEMMA BuyerInvStep == BuyerInv /\ [BuyerNext]_byVars => BuyerInv'
<1> SUFFICES ASSUME BuyerInv, [BuyerNext]_byVars PROVE BuyerInv'
  OBVIOUS
<1> USE DEF BuyerInv
<1>0. /\ BuyerTimeout \in Nat /\ MaxTries \in Nat /\ Nothing \notin ReplyWraps
      /\ Nothing.says = "nothing" /\ \A r : r \in Rids => r \in Nat
  BY BuyerAssumption DEF Nothing, ReplyWraps, Rids
<1>1. CASE UNCHANGED byVars
  BY <1>1 DEF byVars, BuyerTypes, ExchangeIsWhole, OthersQuiet, AnswerIsOwn, Unsuperseded, Unasked,
              Retryable
<1>2. CASE StartCall
  <2>1. /\ byCall.pc = "idle" /\ byTry < MaxTries /\ byAnswer.says \notin {"served", "sent"}
        /\ byTry' = byTry + 1
        /\ byRid' = IF byPins /\ Retryable(byAnswer) THEN byRid ELSE byRid + 1
        /\ byCall' = [pc |-> "publish", start |-> byClock, deadline |-> byClock + BuyerTimeout,
                      held |-> Nothing]
        /\ UNCHANGED <<byKind, byPins, byClock, byAnswer, byWire, byAsked, byServed, byStale>>
    BY <1>2 DEF StartCall, operatorVars
  <2>2. byRid' \in Rids /\ byRid' \in 0 .. byTry'
    BY <1>0, <2>1 DEF BuyerTypes, Rids
  <2>3. BuyerTypes'
    BY <1>0, <2>1, <2>2 DEF BuyerTypes
  <2>4. ExchangeIsWhole'
    BY <2>1 DEF ExchangeIsWhole
  <2>5. OthersQuiet'
    <3> SUFFICES ASSUME Unsuperseded' PROVE \A r \in Rids : r # byRid' => Unasked(r)'
      BY <2>1 DEF OthersQuiet
    <3>1. Unsuperseded
      BY <2>1 DEF Unsuperseded
    <3>2. CASE Retryable(byAnswer)
      BY <2>1, <3>1, <3>2 DEF OthersQuiet, Unsuperseded, Unasked
    <3>3. CASE ~Retryable(byAnswer)
      BY <2>1, <3>1, <3>3 DEF OthersQuiet, Unasked
    <3> QED
      BY <3>2, <3>3
  <2>6. AnswerIsOwn'
    BY <2>1 DEF AnswerIsOwn
  <2> QED
    BY <2>3, <2>4, <2>5, <2>6
<1>3. CASE PublishWrap
  <2>1. /\ byCall.pc = "publish" /\ byRid \in Rids
        /\ UNCHANGED <<byKind, byPins, byTry, byRid, byClock, byWire, byServed, byStale>>
    BY <1>3 DEF PublishWrap, agentVars, BuyerTypes
  <2>2. byAsked' \in {byAsked, [byAsked EXCEPT ![byRid] = @ + 1]}
    BY <1>3 DEF PublishWrap
  <2>3. /\ byAsked' \in [Rids -> Nat]
        /\ \A r \in Rids : r # byRid => byAsked'[r] = byAsked[r]
    BY <2>1, <2>2 DEF BuyerTypes
  <2>4. \A r \in Rids : r # byRid => (Unasked(r)' <=> Unasked(r))
    BY <2>1, <2>3 DEF Unasked
  <2>5. Unsuperseded' <=> Unsuperseded
    BY <2>1 DEF Unsuperseded
  <2>6. CASE byCall' = Idle0 /\ byAnswer'.says \in {"sent", "timeout"}
    <3>1. /\ byCall'.pc = "idle" /\ byCall'.held = Nothing
          /\ byCall' \in [pc : {"idle", "publish", "read"}, start : Nat, deadline : Nat,
                   held : ReplyWraps \cup {Nothing}]
      BY <2>6 DEF Idle0
    <3>2. BuyerTypes'
      BY <2>1, <2>3, <3>1 DEF BuyerTypes
    <3>3. ExchangeIsWhole'
      BY <3>1 DEF ExchangeIsWhole
    <3>4. OthersQuiet'
      BY <2>1, <2>4, <2>5, <2>6 DEF OthersQuiet, Retryable
    <3>5. AnswerIsOwn'
      BY <2>6 DEF AnswerIsOwn
    <3> QED
      BY <3>2, <3>3, <3>4, <3>5
  <2>7. CASE /\ byKind # "cancel" /\ byCall' = [byCall EXCEPT !.pc = "read"]
             /\ UNCHANGED byAnswer
    <3>1. /\ byCall'.pc = "read" /\ byCall'.held = byCall.held
          /\ byCall'.start = byCall.start /\ byCall'.deadline = byCall.deadline
          /\ byCall' \in [pc : {"idle", "publish", "read"}, start : Nat, deadline : Nat,
                   held : ReplyWraps \cup {Nothing}]
      BY <2>7 DEF BuyerTypes
    <3>2. BuyerTypes'
      BY <2>1, <2>3, <2>7, <3>1 DEF BuyerTypes
    <3>3. ExchangeIsWhole'
      BY <2>1, <3>1 DEF ExchangeIsWhole
    <3>4. OthersQuiet'
      BY <2>1, <2>4, <2>5, <3>1 DEF OthersQuiet
    <3>5. AnswerIsOwn'
      BY <2>7, <3>1 DEF AnswerIsOwn
    <3> QED
      BY <3>2, <3>3, <3>4, <3>5
  <2>8. \/ byCall' = Idle0 /\ byAnswer' = Message("relay", byRid, "sent")
        \/ byCall' = Idle0 /\ byAnswer' = TimedOut
        \/ byKind # "cancel" /\ byCall' = [byCall EXCEPT !.pc = "read"] /\ UNCHANGED byAnswer
    BY <1>3, Zenon DEF PublishWrap
  <2>9. Message("relay", byRid, "sent").says = "sent" /\ TimedOut.says = "timeout"
    BY DEF Message, TimedOut
  <2> QED
    BY <2>6, <2>7, <2>8, <2>9
<1>4. CASE ReadWrap
  <2>1. PICK msg \in byWire :
         CASE Rating(msg) = "ignore" -> UNCHANGED <<byCall, byAnswer>>
           [] Rating(msg) # "ignore" /\ (Rating(msg) = "preferred" \/ ~byPins) -> Returns(msg)
           [] OTHER ->
                /\ byCall.held = Nothing
                /\ byCall' = [byCall EXCEPT !.held = msg,
                                !.deadline = IF Grace < @ THEN Grace ELSE @]
                /\ UNCHANGED byAnswer
    BY <1>4 DEF ReadWrap
  <2>2. /\ byCall.pc = "read" /\ byKind # "cancel" /\ msg \in ReplyWraps
        /\ UNCHANGED <<byKind, byPins, byTry, byRid, byClock, byWire, byAsked, byServed, byStale>>
    BY <1>4 DEF ReadWrap, agentVars, operatorVars, BuyerTypes
  <2>3. \A r \in Rids : Unasked(r)' <=> Unasked(r)
    BY <2>2 DEF Unasked
  <2>4. Unsuperseded' <=> Unsuperseded
    BY <2>2 DEF Unsuperseded
  <2>5. CASE Rating(msg) = "ignore"
    <3>1. UNCHANGED <<byCall, byAnswer>>
      BY <2>1, <2>5
    <3> QED
      BY <2>2, <2>3, <2>4, <3>1
         DEF BuyerTypes, ExchangeIsWhole, OthersQuiet, AnswerIsOwn, Retryable
  <2>6. CASE Rating(msg) # "ignore" /\ (Rating(msg) = "preferred" \/ ~byPins)
    <3>1. byCall' = Idle0 /\ byAnswer' = msg
      BY <2>1, <2>6 DEF Returns
    <3>2. /\ msg.from = "operator" /\ msg.says \in {"served", "refused"}
          /\ byKind # "delivery" => msg.rid = byRid
          /\ byKind = "op" /\ Rating(msg) = "preferred" => msg.says = "served"
      BY <2>2, <2>6, RatedIsOwn
    <3>3. /\ byCall'.pc = "idle" /\ byCall'.held = Nothing
          /\ byCall' \in [pc : {"idle", "publish", "read"}, start : Nat, deadline : Nat,
                   held : ReplyWraps \cup {Nothing}]
      BY <3>1 DEF Idle0
    <3>4. BuyerTypes'
      BY <2>2, <3>1, <3>2, <3>3 DEF BuyerTypes, Retryable
    <3>5. ExchangeIsWhole'
      BY <3>3 DEF ExchangeIsWhole
    <3>6. OthersQuiet'
      BY <2>2, <2>3, <2>4, <2>6, <3>1, <3>2 DEF OthersQuiet, Unsuperseded
    <3>7. AnswerIsOwn'
      BY <2>2, <3>1, <3>2 DEF AnswerIsOwn
    <3> QED
      BY <3>4, <3>5, <3>6, <3>7
  <2>7. CASE Rating(msg) # "ignore" /\ ~(Rating(msg) = "preferred" \/ ~byPins)
    <3>1. /\ byCall.held = Nothing
          /\ byCall' = [byCall EXCEPT !.held = msg,
                                !.deadline = IF Grace < @ THEN Grace ELSE @]
          /\ UNCHANGED byAnswer
      BY <2>1, <2>7
    <3>2. msg.from = "operator" /\ msg.says = "refused" /\ msg.rid = byRid
      BY <2>2, <2>7, RatedIsOwn
    <3>3. Grace \in Nat /\ (byKind = "op" => Grace = byCall.deadline)
      BY BuyerAssumption DEF Grace, BuyerTypes
    <3>4. /\ byCall'.pc = "read" /\ byCall'.held = msg /\ byCall'.start = byCall.start
          /\ byKind = "op" => byCall'.deadline = byCall.deadline
          /\ byCall' \in [pc : {"idle", "publish", "read"}, start : Nat, deadline : Nat,
                   held : ReplyWraps \cup {Nothing}]
      BY <2>2, <3>1, <3>3 DEF BuyerTypes
    <3>5. BuyerTypes'
      BY <2>2, <3>1, <3>4 DEF BuyerTypes, Retryable
    <3>6. ExchangeIsWhole'
      BY <2>2, <3>2, <3>4 DEF ExchangeIsWhole
    <3>7. OthersQuiet'
      BY <2>2, <2>3, <2>4, <3>4 DEF OthersQuiet
    <3>8. AnswerIsOwn'
      BY <2>2, <3>1, <3>4 DEF AnswerIsOwn
    <3> QED
      BY <3>5, <3>6, <3>7, <3>8
  <2> QED
    BY <2>5, <2>6, <2>7
<1>5. ASSUME NEW whole \in BOOLEAN, StreamEnds(whole), byKind = "op" => whole
      PROVE  BuyerInv'
  <2>1. /\ byCall.pc = "read" /\ byRid \in Rids
        /\ byCall' = Idle0
        /\ byAnswer' = IF byCall.held = Nothing THEN TimedOut ELSE byCall.held
        /\ UNCHANGED <<byKind, byPins, byTry, byRid, byClock, byWire, byAsked, byServed>>
    BY <1>5 DEF StreamEnds, Returns, agentVars, operatorVars, BuyerTypes
  <2>2. byStale' <=> (byStale \/ (whole /\ byCall.held # Nothing /\ UnderWay(byRid)))
    BY <1>5 DEF StreamEnds
  <2>3. /\ byCall'.pc = "idle" /\ byCall'.held = Nothing
        /\ byCall' \in [pc : {"idle", "publish", "read"}, start : Nat, deadline : Nat,
                   held : ReplyWraps \cup {Nothing}]
    BY <2>1 DEF Idle0
  <2>4. /\ byCall.held = Nothing => byAnswer'.says = "timeout"
        /\ byCall.held # Nothing =>
             byAnswer'.says = "refused" /\ byAnswer'.rid = byRid /\ byAnswer'.from = "operator"
    BY <2>1 DEF TimedOut, Message, ExchangeIsWhole
  <2>5. BuyerTypes'
    BY <2>1, <2>3 DEF BuyerTypes
  <2>6. ExchangeIsWhole'
    BY <2>3 DEF ExchangeIsWhole
  <2>7. \A r \in Rids : Unasked(r)' <=> Unasked(r)
    BY <2>1 DEF Unasked
  <2>8. OthersQuiet'
    <3> SUFFICES ASSUME Unsuperseded'
                 PROVE  /\ \A r \in Rids : r # byRid => Unasked(r)
                        /\ byCall.held # Nothing => Unasked(byRid)
      BY <2>1, <2>4, <2>7 DEF OthersQuiet, Retryable
    <3>1. byKind = "op" /\ byPins /\ ~byStale'
      BY <2>1 DEF Unsuperseded
    <3>2. ~byStale
      BY <2>2, <3>1, Zenon
    <3>3. Unsuperseded
      BY <3>1, <3>2 DEF Unsuperseded
    <3>4. ASSUME byCall.held # Nothing PROVE Unasked(byRid)
      <4>1. ~UnderWay(byRid)
        BY <1>5, <2>2, <3>1, <3>4, Zenon
      <4> QED
        BY <2>1, <4>1 DEF UnderWay, Unasked, BuyerTypes
    <3> QED
      BY <3>3, <3>4 DEF OthersQuiet
  <2>9. AnswerIsOwn'
    BY <2>1, <2>4 DEF AnswerIsOwn
  <2> QED
    BY <2>5, <2>6, <2>8, <2>9
<1>6. CASE DeadlineEnds
  <2> DEFINE whole == byClock >= byCall.start + BuyerTimeout
  <2>1. byCall.pc = "read" /\ StreamEnds(whole) /\ byClock >= byCall.deadline
    BY <1>6 DEF DeadlineEnds, StreamEnds
  <2>2. byKind = "op" => whole
    BY <2>1 DEF ExchangeIsWhole
  <2>3. whole \in BOOLEAN
    BY <1>0 DEF BuyerTypes
  <2> HIDE DEF whole
  <2> QED
    BY <1>5, <2>1, <2>2, <2>3
<1>7. CASE StreamCloses
  BY <1>5, <1>7 DEF StreamCloses
<1>8. ASSUME NEW r \in Rids, OperatorTakes(r) \/ OperatorAnswers(r)
      PROVE  BuyerInv'
  <2>1. UNCHANGED <<byKind, byPins, byTry, byRid, byClock, byCall, byAnswer, byStale>>
    BY <1>8 DEF OperatorTakes, OperatorAnswers, agentVars
  <2>2. /\ byAsked' \in [Rids -> Nat] /\ byServed' \in [Rids -> {"none", "running", "done"}]
        /\ \A q \in Rids : q # r => byAsked'[q] = byAsked[q] /\ byServed'[q] = byServed[q]
        /\ ~Unasked(r)
    <3>1. CASE OperatorTakes(r)
      <4>1. byAsked[r] > 0 /\ byAsked' = [byAsked EXCEPT ![r] = @ - 1]
        BY <3>1 DEF OperatorTakes
      <4>2. byServed' = byServed \/ byServed' = [byServed EXCEPT ![r] = "running"]
        BY <3>1 DEF OperatorTakes
      <4> QED
        BY <4>1, <4>2 DEF BuyerTypes, Unasked
    <3>2. CASE OperatorAnswers(r)
      BY <3>2 DEF OperatorAnswers, BuyerTypes, Unasked
    <3> QED
      BY <1>8, <3>1, <3>2
  <2>3. byWire' \subseteq ReplyWraps
    <3>1. \A m \in byWire' : m \in byWire \/ m = Message("operator", r, "served")
                              \/ m = Message("operator", r, "refused")
      BY <1>8 DEF OperatorTakes, OperatorAnswers
    <3>2. \A says \in {"served", "refused"} : Message("operator", r, says) \in ReplyWraps
      BY <1>0 DEF Message, ReplyWraps, Says
    <3> QED
      BY <3>1, <3>2 DEF BuyerTypes
  <2>4. BuyerTypes'
    BY <2>1, <2>2, <2>3 DEF BuyerTypes, Retryable
  <2>5. ExchangeIsWhole'
    BY <2>1 DEF ExchangeIsWhole
  <2>6. OthersQuiet'
    <3>1. Unsuperseded' <=> Unsuperseded
      BY <2>1 DEF Unsuperseded
    <3>2. \A q \in Rids : q # r => (Unasked(q)' <=> Unasked(q))
      BY <2>2 DEF Unasked
    <3>3. Retryable(byAnswer)' <=> Retryable(byAnswer)
      BY <2>1 DEF Retryable
    <3> QED
      BY <2>1, <2>2, <3>1, <3>2, <3>3 DEF OthersQuiet
  <2>7. AnswerIsOwn'
    BY <2>1 DEF AnswerIsOwn
  <2> QED
    BY <2>4, <2>5, <2>6, <2>7
<1>9. CASE OperatorTurns \/ ByTick
  <2>1. /\ UNCHANGED <<byKind, byPins, byTry, byRid, byCall, byAnswer, byWire, byAsked, byServed,
                       byStale>>
        /\ byClock' \in Nat
    BY <1>9 DEF OperatorTurns, ByTick, agentVars, operatorVars, BuyerTypes
  <2>2. BuyerTypes'
    BY <2>1 DEF BuyerTypes, Retryable
  <2> QED
    BY <2>1, <2>2 DEF ExchangeIsWhole, OthersQuiet, AnswerIsOwn, Unsuperseded, Unasked, Retryable
<1> QED
  BY <1>1, <1>2, <1>3, <1>4, <1>6, <1>7, <1>8, <1>9 DEF BuyerNext

-----------------------------------------------------------------------------
(* Each step of the composition is one of a service, or leaves it alone.   *)
LEMMA EdgeServices ==
    [EdgeNext]_edgeVars =>
        /\ [OutboxNext]_outboxVars
        /\ [AlertsNext]_alertVars
        /\ [RelayWatchNext]_rwVars
        /\ [ListingNext]_listingVars
        /\ [BackfillNext]_backfillVars
        /\ [ResubscribeNext]_subVars
        /\ [BuyerNext]_byVars
BY DEF EdgeNext, Rest, edgeVars

(* The last word a buyer has on a terminal refund is its outcome, although *)
(* the drain, the refund driver, the operator's retry and a resend share   *)
(* the row (provision.rs drain_once, refund.rs commit_sent, ipc.rs).       *)
THEOREM BuyersHearTheLast == EdgeSpec => []BuyerHearsLast
<1>1. EdgeInit => OutboxInv
  BY OutboxInvInit DEF EdgeInit
<1>2. OutboxInv /\ [EdgeNext]_edgeVars => OutboxInv'
  BY EdgeServices, OutboxInvStep
<1>3. OutboxInv => BuyerHearsLast
  BY OutboxInvHears
<1> QED
  BY <1>1, <1>2, <1>3, PTL DEF EdgeSpec

(* Two reporters of one subject keep the cooldown, and a blackout is told  *)
(* exactly once, for any number of reporters (alerts.rs dispatch,          *)
(* supervisor.rs refresh_relay_status).                                    *)
THEOREM AlertsAlwaysHeardOnce == EdgeSpec => []AlertsAreHeardOnce
<1>1. EdgeInit => AlertsInv
  BY AlertsInvInit DEF EdgeInit
<1>2. AlertsInv /\ [EdgeNext]_edgeVars => AlertsInv'
  BY EdgeServices, AlertsInvStep
<1>3. EdgeInit => WatchInv
  BY WatchInvInit DEF EdgeInit
<1>4. WatchInv /\ [EdgeNext]_edgeVars => WatchInv'
  BY EdgeServices, WatchInvStep
<1>5. AlertsInv /\ WatchInv => AlertsAreHeardOnce
  BY WatchInvTells DEF AlertsInv, AlertsAreHeardOnce
<1> QED
  BY <1>1, <1>2, <1>3, <1>4, <1>5, PTL DEF EdgeSpec

(* Withdrawn stays withdrawn and an ACTIVE row with an event id is one     *)
(* buyers can find, for any number of commands that interleave             *)
(* (listing.rs publish_gated, set_state).                                  *)
THEOREM ListingAlwaysTrue == EdgeSpec => []ListingIsTrue
<1>1. EdgeInit => ListingInv
  BY ListingInvInit DEF EdgeInit
<1>2. ListingInv /\ [EdgeNext]_edgeVars => ListingInv'
  BY EdgeServices, ListingInvStep
<1>3. ListingInv => ListingIsTrue
  BY ListingInvTells
<1> QED
  BY <1>1, <1>2, <1>3, PTL DEF EdgeSpec

(* For every relay, page limit and timestamps: a finished walk has queued  *)
(* all it could, and a closed subscription comes back (nostr_engine.rs     *)
(* fetch_inbound_backlog_from_relay, finish_closed_resubscribe).           *)
THEOREM InboundAlwaysComplete == EdgeSpec => []InboundIsComplete
<1>1. EdgeInit => BackfillInv
  BY BackfillInvInit DEF EdgeInit
<1>2. BackfillInv /\ [EdgeNext]_edgeVars => BackfillInv'
  BY EdgeServices, BackfillInvStep
<1>3. EdgeInit => SubInv
  BY SubInvInit DEF EdgeInit
<1>4. SubInv /\ [EdgeNext]_edgeVars => SubInv'
  BY EdgeServices, SubInvStep
<1>5. BackfillInv /\ SubInv => InboundIsComplete
  BY SubInvRecovers DEF BackfillInv, InboundIsComplete
<1> QED
  BY <1>1, <1>2, <1>3, <1>4, <1>5, PTL DEF EdgeSpec

(* However many calls an agent makes and whatever the relay replays, its   *)
(* operation runs twice only after a stale refusal at the very end of an   *)
(* exchange (clients/core client.rs exchange_preferred).                   *)
THEOREM AgentsRunOnce == EdgeSpec => []AgentRunsOnce
<1>1. EdgeInit => BuyerInv
  BY BuyerInvInit DEF EdgeInit
<1>2. BuyerInv /\ [EdgeNext]_edgeVars => BuyerInv'
  BY EdgeServices, BuyerInvStep
<1>3. BuyerInv => AgentRunsOnce
  BY BuyerInvTells
<1> QED
  BY <1>1, <1>2, <1>3, PTL DEF EdgeSpec
=============================================================================
