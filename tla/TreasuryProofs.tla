--------------------------- MODULE TreasuryProofs ---------------------------
(***************************************************************************)
(* Proofs about Treasury, for every number of receipts, sweeps, commands   *)
(* and stops of the daemon, for both backends and for all amounts: a cap   *)
(* is held while its payment may land, the wallet covers what refunds      *)
(* need, and the books are a floor, each but for the sweeps that were sent *)
(* after being given up.                                                   *)
(*                                                                         *)
(* CapHeld rests on what the pay rows say of their payments, on what each  *)
(* actor may still rely on, and on what holds besides as long as no lookup *)
(* failed and no [8A] owner gave up (RowsTellTruth, ActorsKnow, NotYet).   *)
(* The amounts rest on CapHeld and on the exact wallet (MInv): a sum over  *)
(* the sweeps is the number of its units, so that the library's facts      *)
(* about cardinalities apply.                                              *)
(***************************************************************************)
EXTENDS Treasury, FiniteSetTheorems, WellFoundedInduction, TLAPS

(* What a pay row says of its payment, and what it lets happen next.       *)
RowsTellTruth ==
    \A s \in Sweeps :
        /\ sweep[s].status # "none" => sweep[s].cap > 0
        /\ pay[s] = "none" => (~Live(s) \/ sweep[s].fenced) /\ s \notin raced
        /\ pay[s] # "none" => ~sweep[s].fenced
        /\ pay[s] = "SUCCEEDED" => net[s] = "paid"
        /\ pay[s] = "FAILED" => ~Live(s)

(* What an actor in the middle of its work may still rely on.              *)
ActorsKnow ==
    \A a \in Actors :
        /\ ~At(a, "idle") =>
              ~sweep[Held(a)].fenced /\ sweep[Held(a)].status # "none" /\ payer[a].cap > 0
        /\ ~At(a, "idle") /\ a # "drive" =>
              pay[Held(a)] # "none" /\ payer[a].pc \notin {"status", "probe", "authorise"}
        /\ payer[a].pc \in {"pay", "await", "errored"} => pay[Held(a)] # "none"
        /\ At(a, "sent") => "paid" \in {net[Held(a)], owner[Held(a)]}
        /\ At(a, "park") => Held(a) \in raced \/ ~Live(Held(a))

(* As long as no lookup failed and no [8A] owner gave up on phoenixd: a    *)
(* prepared key has an open row, a refused one will be refused again, a    *)
(* parked one was never prepared, and an actor's ceiling is its row's.     *)
Unslipped ==
    /\ raced = {}
    /\ \A s \in Sweeps :
          /\ pay[s] = "PREPARED" => sweep[s].status \in {"PENDING", "SENT"}
          /\ pay[s] = "FAILED" /\ backend = "phoenixd" => owner[s] # "none" \/ sweep[s].expired
    /\ \A a \in Actors :
          /\ At(a, "park") => pay[Held(a)] \in {"none", "FAILED"}
          /\ payer[a].pc \in {"probe", "authorise"} => pay[Held(a)] = "none"
          /\ payer[a].pc \in {"status", "probe", "authorise", "park"} /\ pay[Held(a)] = "none"
                => sweep[Held(a)].status = "PENDING"
          /\ payer[a].pc \in {"status", "probe", "authorise", "pay"}
             /\ pay[Held(a)] \in {"none", "PREPARED"} => payer[a].cap = sweep[Held(a)].cap

NotYet == slipped \/ Unslipped

TInv == TreasuryTypeOK /\ RowsTellTruth /\ ActorsKnow /\ NotYet /\ CapHeld

-----------------------------------------------------------------------------
SweepRow == [status : {"none", "PENDING", "SENT", "FAILED"}, cap : Nat,
             fenced : BOOLEAN, expired : BOOLEAN]
PayerRow == [pc : {"idle", "status", "probe", "authorise", "pay", "await", "errored",
                   "park", "sent"}, s : Sweeps, cap : Nat]

(* Fresh books, and the books of a legacy import, satisfy the invariant.   *)
LEMMA TInvInit == Init => TInv
<1> SUFFICES ASSUME Init PROVE TInv
  OBVIOUS
<1> USE TreasuryAssumption DEF Init, NoSweep, NoRow, Actors
<1>1. (CHOOSE s \in Sweeps : TRUE) \in Sweeps
  OBVIOUS
<1>2. \A a \in Actors : At(a, "idle") /\ payer[a].cap = 0 /\ Held(a) \in Sweeps
  BY <1>1 DEF At, Held
<1>3. NotYet
  BY <1>2 DEF NotYet, Unslipped, At
<1>4. ActorsKnow
  BY <1>2 DEF ActorsKnow, At
<1>7. /\ backend \in Backends /\ payer \in [Actors -> PayerRow]
      /\ pay \in [Sweeps -> {"none", "PREPARED", "SUCCEEDED", "FAILED"}]
      /\ owner \in [Sweeps -> {"none", "live", "paid"}]
      /\ slipped \in BOOLEAN /\ raced \in SUBSET Sweeps
  <2>1. [pc |-> "idle", s |-> CHOOSE s \in Sweeps : TRUE, cap |-> 0] \in PayerRow
    BY <1>1 DEF PayerRow
  <2> QED
    BY <2>1
<1>5. CASE FreshBooks
  <2>1. TreasuryTypeOK
    BY <1>5, <1>7 DEF FreshBooks, TreasuryTypeOK, PayerRow
  <2>2. RowsTellTruth /\ CapHeld
    BY <1>5 DEF FreshBooks, RowsTellTruth, CapHeld, Live, CapCounts
  <2> QED
    BY <1>3, <1>4, <2>1, <2>2 DEF TInv
<1>6. CASE LegacyImport
  <2>1. TreasuryTypeOK
    <3>1. PICK s \in Sweeps, r \in Receipts, c \in Caps, st \in {"PENDING", "FAILED"},
               n \in {"none", "inflight", "paid"} :
          /\ c <= Credit
          /\ sweep = [x \in Sweeps |-> IF x = s
                THEN [status |-> st, cap |-> c, fenced |-> TRUE, expired |-> FALSE]
                ELSE NoRow]
          /\ rcpt = [x \in Receipts |-> IF x = r THEN "kept" ELSE "none"]
          /\ net = [x \in Sweeps |-> IF x = s THEN n ELSE "none"]
          /\ debit = [x \in Sweeps |-> IF x = s /\ n # "none" THEN c ELSE 0]
          /\ wallet = Credit - (IF n # "none" THEN c ELSE 0)
      BY <1>6 DEF LegacyImport
    <3>2. c \in Nat /\ Credit \in Nat
      OBVIOUS
    <3>3. wallet \in Int /\ debit \in [Sweeps -> Nat]
      BY <3>1, <3>2
    <3>4. /\ sweep \in [Sweeps -> SweepRow] /\ net \in [Sweeps -> {"none", "inflight", "paid"}]
          /\ rcpt \in [Receipts -> {"none", "kept"}]
      BY <3>1, <3>2 DEF SweepRow
    <3> QED
      BY <1>7, <3>3, <3>4 DEF TreasuryTypeOK, PayerRow, SweepRow
  <2>2. RowsTellTruth /\ CapHeld
    BY <1>6 DEF LegacyImport, RowsTellTruth, CapHeld, Live, CapCounts
  <2> QED
    BY <1>3, <1>4, <2>1, <2>2 DEF TInv
<1> QED
  BY <1>5, <1>6

(* A row stays a row when its status, cap, fence or expiry is written, and *)
(* an actor an actor when its position is.                                 *)
LEMMA RowUpdates ==
    ASSUME NEW f \in [Sweeps -> SweepRow], NEW s \in Sweeps,
           NEW p \in [Actors -> PayerRow], NEW a \in Actors
    PROVE  /\ \A c \in Nat :
                [f EXCEPT ![s].status = "PENDING", ![s].cap = c] \in [Sweeps -> SweepRow]
           /\ \A st \in {"none", "PENDING", "SENT", "FAILED"} :
                [f EXCEPT ![s].status = st] \in [Sweeps -> SweepRow]
           /\ [f EXCEPT ![s].expired = TRUE] \in [Sweeps -> SweepRow]
           /\ [f EXCEPT ![s].fenced = FALSE] \in [Sweeps -> SweepRow]
           /\ \A w \in PayerRow : [p EXCEPT ![a] = w] \in [Actors -> PayerRow]
           /\ \A pc \in {"status", "probe", "authorise", "pay", "await", "errored",
                         "park", "sent"} : [p[a] EXCEPT !.pc = pc] \in PayerRow
BY Zenon DEF SweepRow, PayerRow

(* What Go writes.                                                         *)
LEMMA GoWrites ==
    ASSUME payer \in [Actors -> PayerRow], NEW a \in Actors,
           NEW pc \in {"idle", "status", "probe", "authorise", "pay", "await", "errored",
                       "park", "sent"}, Go(a, pc)
    PROVE  /\ payer' \in [Actors -> PayerRow]
           /\ payer'[a].pc = pc
           /\ pc # "idle" => payer'[a].s = payer[a].s /\ payer'[a].cap = payer[a].cap
           /\ \A b \in Actors \ {a} : payer'[b] = payer[b]
<1>1. CASE pc = "idle"
  <2>1. payer' = [payer EXCEPT ![a] = NoSweep]
    BY <1>1 DEF Go
  <2>2. NoSweep \in PayerRow /\ NoSweep.pc = "idle"
    BY TreasuryAssumption DEF NoSweep, PayerRow
  <2> QED
    BY <1>1, <2>1, <2>2
<1>2. CASE pc # "idle"
  <2>1. payer' = [payer EXCEPT ![a] = [payer[a] EXCEPT !.pc = pc]]
    BY <1>2 DEF Go
  <2>2. [payer[a] EXCEPT !.pc = pc] \in PayerRow
    BY <1>2 DEF PayerRow
  <2>3. /\ [payer[a] EXCEPT !.pc = pc].pc = pc
        /\ [payer[a] EXCEPT !.pc = pc].s = payer[a].s
        /\ [payer[a] EXCEPT !.pc = pc].cap = payer[a].cap
    BY DEF PayerRow
  <2> QED
    BY <1>2, <2>1, <2>2, <2>3
<1> QED
  BY <1>1, <1>2

(* A step of one actor that writes no row, no key and no payment.          *)
LEMMA ActorMoves ==
    ASSUME TInv, NEW a \in Actors,
           NEW pc \in {"idle", "status", "probe", "authorise", "pay", "await", "errored",
                       "park", "sent"}, Go(a, pc), ~At(a, "idle"),
           UNCHANGED <<backend, rcpt, sweep, payVars, wallet, raced>>,
           slipped' \in BOOLEAN, slipped => slipped',
           pc \in {"status", "probe", "authorise"} => a = "drive",
           pc \in {"pay", "await", "errored"} => pay[Held(a)] # "none",
           pc = "sent" => "paid" \in {net[Held(a)], owner[Held(a)]},
           pc = "park" => ~Live(Held(a)),
           slipped' \/ /\ pc \in {"park", "probe", "authorise"} /\ pay[Held(a)] = "none"
                             => payer[a].pc \in {"status", "probe", "authorise"}
                       /\ pc \in {"probe", "authorise"} => pay[Held(a)] = "none"
                       /\ pc = "park" => pay[Held(a)] \in {"none", "FAILED"}
                       /\ pc \in {"probe", "authorise", "pay"}
                             => payer[a].pc \in {"status", "probe", "authorise"}
                       /\ pc # "status"
    PROVE  TInv'
<1> DEFINE s == Held(a)
<1>1. /\ payer \in [Actors -> PayerRow] /\ s \in Sweeps
      /\ UNCHANGED <<backend, rcpt, sweep, pay, net, debit, owner, wallet, raced>>
  BY DEF TInv, TreasuryTypeOK, PayerRow, payVars, Held
<1>2. /\ payer' \in [Actors -> PayerRow] /\ payer'[a].pc = pc
      /\ pc # "idle" => payer'[a].s = payer[a].s /\ payer'[a].cap = payer[a].cap
      /\ \A b \in Actors \ {a} : payer'[b] = payer[b]
  BY <1>1, GoWrites
<1>3. TreasuryTypeOK'
  BY <1>1, <1>2 DEF TInv, TreasuryTypeOK, PayerRow
<1>4. RowsTellTruth' /\ CapHeld'
  BY <1>1 DEF TInv, RowsTellTruth, CapHeld, Live, CapCounts
<1>5. ActorsKnow'
  BY <1>1, <1>2 DEF TInv, ActorsKnow, At, Held, Live
<1>6. NotYet'
  <2> SUFFICES ASSUME ~slipped' PROVE Unslipped'
    BY DEF NotYet
  <2>1. Unslipped
    BY DEF TInv, NotYet
  <2> QED
    BY <1>1, <1>2, <2>1 DEF Unslipped, At, Held
<1> QED
  BY <1>3, <1>4, <1>5, <1>6 DEF TInv

(* PreparePay by an actor whose row is open and unfenced: the key has a    *)
(* row now, and whatever was refused before is refused again.              *)
LEMMA PreparesTruly ==
    ASSUME TInv, NEW s \in Sweeps, PreparePay(s), ~sweep[s].fenced
    PROVE  /\ pay' \in [Sweeps -> {"none", "PREPARED", "SUCCEEDED", "FAILED"}]
           /\ \A t \in Sweeps \ {s} : pay'[t] = pay[t]
           /\ pay'[s] # "none"
           /\ pay'[s] = "SUCCEEDED" => pay[s] = "SUCCEEDED"
           /\ pay'[s] = "FAILED" => ~Live(s) /\ (backend = "lnv2" \/ owner[s] # "none")
           /\ pay'[s] = "PREPARED" => pay[s] = "PREPARED" \/ owner[s] = "none"
           /\ pay'[s] # pay[s] => pay[s] = "none" \/ (pay[s] = "FAILED" /\ backend = "phoenixd")
<1> USE DEF TInv, TreasuryTypeOK
<1>1. backend \in {"lnv2", "phoenixd"}
  BY TreasuryAssumption
<1>2. CASE pay[s] = "none" \/ (pay[s] = "FAILED" /\ backend = "phoenixd")
  <2>1. pay' = [pay EXCEPT ![s] = IF owner[s] = "none" THEN "PREPARED" ELSE "FAILED"]
    BY <1>2 DEF PreparePay
  <2>2. ~Live(s)
    BY <1>2 DEF RowsTellTruth
  <2> QED
    BY <1>2, <2>1, <2>2
<1>3. CASE ~(pay[s] = "none" \/ (pay[s] = "FAILED" /\ backend = "phoenixd"))
  <2>1. pay' = pay
    BY <1>3 DEF PreparePay
  <2> QED
    BY <1>1, <1>3, <2>1 DEF RowsTellTruth
<1> QED
  BY <1>2, <1>3

(* The steps of recovery that only move the drive.                         *)
LEMMA DriveMoves ==
    ASSUME TInv, DriveStatus \/ ResolveOrPark PROVE TInv'
<1> DEFINE s == Held("drive")
<1>0. /\ "drive" \in Actors /\ s \in Sweeps /\ slipped \in BOOLEAN
      /\ pay[s] \in {"none", "PREPARED", "SUCCEEDED", "FAILED"}
  BY DEF Actors, TInv, TreasuryTypeOK, Held
<1>1. CASE DriveStatus
  <2>1. /\ payer["drive"].pc = "status" /\ ~At("drive", "idle")
        /\ UNCHANGED <<backend, rcpt, sweep, payVars, wallet, raced>>
    BY <1>1 DEF DriveStatus, At
  <2>2. ~sweep[s].fenced
    BY <1>0, <2>1 DEF TInv, ActorsKnow
  <2>3. NotStarted(s) \in {"probe", "authorise"}
    BY DEF NotStarted
  <2>4. CASE Status(s) = "Succeeded" /\ Go("drive", "sent") /\ UNCHANGED slipped
    <3>1. net[s] = "paid"
      BY <1>0, <2>4 DEF Status, TInv, RowsTellTruth
    <3> QED
      BY <1>0, <2>1, <2>4, <3>1, ActorMoves
  <2>5. CASE Status(s) = "Pending" /\ Go("drive", "pay") /\ UNCHANGED slipped
    <3>1. pay[s] = "PREPARED"
      BY <1>0, <2>5 DEF Status
    <3> QED
      BY <1>0, <2>1, <2>5, <3>1, ActorMoves
  <2>6. CASE Status(s) = "Failed" /\ Go("drive", "park") /\ UNCHANGED slipped
    <3>1. pay[s] = "FAILED" /\ ~Live(s)
      BY <1>0, <2>6 DEF Status, TInv, RowsTellTruth
    <3> QED
      BY <1>0, <2>1, <2>6, <3>1, ActorMoves
  <2>7. CASE Status(s) = "Unknown" /\ Go("drive", NotStarted(s)) /\ UNCHANGED slipped
    <3>1. pay[s] = "none"
      BY <1>0, <2>7 DEF Status
    <3> QED
      BY <1>0, <2>1, <2>3, <2>7, <3>1, ActorMoves
  <2>8. CASE Go("drive", NotStarted(s)) /\ slipped' = TRUE
    BY <1>0, <2>1, <2>3, <2>8, ActorMoves
  <2> QED
    BY <1>1, <2>4, <2>5, <2>6, <2>7, <2>8 DEF DriveStatus, Status
<1>2. CASE ResolveOrPark
  <2>1. /\ payer["drive"].pc = "probe" /\ ~At("drive", "idle")
        /\ UNCHANGED <<backend, rcpt, sweep, payVars, wallet, raced>> /\ UNCHANGED slipped
    BY <1>2 DEF ResolveOrPark, At, history
  <2>2. slipped \/ pay[s] = "none"
    BY <1>0, <2>1 DEF TInv, NotYet, Unslipped, Held
  <2>3. CASE Outbound(s) = "Succeeded" /\ Go("drive", "sent")
    <3>1. "paid" \in {net[s], owner[s]}
      BY <2>3 DEF Outbound
    <3> QED
      BY <1>0, <2>1, <2>3, <3>1, ActorMoves
  <2>4. CASE Outbound(s) = "Failed" /\ Go("drive", "park")
    <3>1. ~Live(s)
      BY <2>4 DEF Outbound, Live
    <3> QED
      BY <1>0, <2>1, <2>2, <2>4, <3>1, ActorMoves
  <2>5. CASE Go("drive", "idle")
    BY <1>0, <2>1, <2>5, ActorMoves
  <2> QED
    BY <1>2, <2>3, <2>4, <2>5 DEF ResolveOrPark, Outbound
<1> QED
  BY <1>1, <1>2

(* authorise_send of recovery.                                             *)
LEMMA AuthoriseKeeps == ASSUME TInv, AuthoriseSend PROVE TInv'
<1> DEFINE s == Held("drive")
<1>1. /\ "drive" \in Actors /\ s \in Sweeps /\ payer \in [Actors -> PayerRow]
      /\ payer["drive"].pc = "authorise" /\ ~At("drive", "idle")
      /\ UNCHANGED <<backend, rcpt, sweep, net, debit, owner, wallet, slipped, raced>>
  BY DEF Actors, TInv, TreasuryTypeOK, Held, AuthoriseSend, At, PayerRow, history
<1>2. CASE Go("drive", "idle") /\ UNCHANGED pay
  BY <1>1, <1>2, ActorMoves DEF payVars, TInv, TreasuryTypeOK
<1>3. CASE /\ sweep[s].status = "PENDING" /\ ~sweep[s].fenced
           /\ PreparePay(s) /\ Go("drive", "pay")
  <2>1. /\ payer' \in [Actors -> PayerRow] /\ payer'["drive"].pc = "pay"
        /\ payer'["drive"].s = s /\ payer'["drive"].cap = payer["drive"].cap
        /\ \A b \in Actors \ {"drive"} : payer'[b] = payer[b]
    BY <1>1, <1>3, GoWrites DEF Held
  <2>2. /\ pay' \in [Sweeps -> {"none", "PREPARED", "SUCCEEDED", "FAILED"}]
        /\ \A t \in Sweeps \ {s} : pay'[t] = pay[t]
        /\ pay'[s] # "none"
        /\ pay'[s] = "SUCCEEDED" => pay[s] = "SUCCEEDED"
        /\ pay'[s] = "FAILED" => ~Live(s) /\ (backend = "lnv2" \/ owner[s] # "none")
        /\ pay'[s] = "PREPARED" => pay[s] = "PREPARED" \/ owner[s] = "none"
        /\ pay'[s] # pay[s] => pay[s] = "none" \/ (pay[s] = "FAILED" /\ backend = "phoenixd")
    BY <1>1, <1>3, PreparesTruly
  <2>3. TreasuryTypeOK'
    BY <1>1, <2>1, <2>2 DEF TInv, TreasuryTypeOK, PayerRow
  <2>4. RowsTellTruth'
    BY <1>1, <1>3, <2>2 DEF TInv, RowsTellTruth, Live
  <2>5. CapHeld'
    BY <1>1, <2>2, <2>4 DEF TInv, RowsTellTruth, CapHeld, CapCounts, Live, TreasuryTypeOK
  <2>6. ActorsKnow'
    <3> SUFFICES ASSUME NEW a \in Actors
                 PROVE  /\ ~At(a, "idle")' => /\ ~sweep[payer'[a].s].fenced
                                              /\ sweep[payer'[a].s].status # "none"
                                              /\ payer'[a].cap > 0
                        /\ ~At(a, "idle")' /\ a # "drive" =>
                              /\ pay'[payer'[a].s] # "none"
                              /\ payer'[a].pc \notin {"status", "probe", "authorise"}
                        /\ payer'[a].pc \in {"pay", "await", "errored"}
                              => pay'[payer'[a].s] # "none"
                        /\ At(a, "sent")' => "paid" \in {net[payer'[a].s], owner[payer'[a].s]}
                        /\ At(a, "park")' => payer'[a].s \in raced \/ ~Live(payer'[a].s)
      BY <1>1 DEF ActorsKnow, Held, Live, At
    <3>1. CASE a = "drive"
      BY <1>1, <1>3, <2>1, <2>2, <3>1 DEF At, TInv, ActorsKnow
    <3>2. CASE a # "drive"
      <4>1. payer'[a] = payer[a] /\ payer[a].s \in Sweeps
        BY <1>1, <2>1, <3>2 DEF PayerRow
      <4> QED
        BY <1>1, <2>2, <3>2, <4>1 DEF At, TInv, ActorsKnow, Held
    <3> QED
      BY <3>1, <3>2
  <2>7. NotYet'
    <3> SUFFICES ASSUME ~slipped' PROVE Unslipped'
      BY DEF NotYet
    <3>1. Unslipped /\ ActorsKnow
      BY <1>1 DEF TInv, NotYet
    <3>2. pay[s] = "none" /\ payer["drive"].cap = sweep[s].cap
      BY <1>1, <3>1 DEF Unslipped, Held
    <3>3. \A b \in Actors \ {"drive"} : payer[b].pc # "idle" => payer[b].s # s
      BY <1>1, <3>1, <3>2 DEF ActorsKnow, At, Held
    <3>4. \A t \in Sweeps :
            /\ pay'[t] = "PREPARED" => sweep[t].status \in {"PENDING", "SENT"}
            /\ pay'[t] = "FAILED" /\ backend = "phoenixd" => owner[t] # "none" \/ sweep[t].expired
      BY <1>1, <1>3, <2>2, <3>1, TreasuryAssumption DEF Unslipped
    <3>5. ASSUME NEW a \in Actors
          PROVE  /\ payer'[a].pc = "park" => pay'[payer'[a].s] \in {"none", "FAILED"}
                 /\ payer'[a].pc \in {"probe", "authorise"} => pay'[payer'[a].s] = "none"
                 /\ payer'[a].pc \in {"status", "probe", "authorise", "park"}
                      /\ pay'[payer'[a].s] = "none" => sweep[payer'[a].s].status = "PENDING"
                 /\ payer'[a].pc \in {"status", "probe", "authorise", "pay"}
                      /\ pay'[payer'[a].s] \in {"none", "PREPARED"}
                      => payer'[a].cap = sweep[payer'[a].s].cap
      <4>1. CASE a = "drive"
        BY <1>1, <2>1, <3>2, <4>1
      <4>2. CASE a # "drive"
        <5>1. payer'[a] = payer[a] /\ payer[a].s \in Sweeps
          BY <1>1, <2>1, <4>2 DEF PayerRow
        <5>2. CASE payer[a].pc # "idle"
          BY <2>2, <3>1, <3>3, <4>2, <5>1, <5>2 DEF Unslipped, At, Held
        <5> QED
          BY <5>1, <5>2
      <4> QED
        BY <4>1, <4>2
    <3> QED
      BY <1>1, <3>1, <3>4, <3>5 DEF Unslipped, At, Held
  <2> QED
    BY <2>3, <2>4, <2>5, <2>6, <2>7 DEF TInv
<1> QED
  BY <1>2, <1>3 DEF AuthoriseSend

(* A command's gate: the row it opens had no live payment to cover.        *)
LEMMA ExecuteKeeps ==
    ASSUME TInv, NEW m \in Commands, NEW s \in Sweeps, NEW c \in Caps, Execute(m, s, c)
    PROVE  TInv'
<1>1. /\ ~sweep[s].expired /\ ~sweep[s].fenced /\ sweep[s].status \notin {"SENT", "PENDING"}
      /\ sweep' = [sweep EXCEPT ![s].status = "PENDING", ![s].cap = c]
      /\ payer[m].pc = "idle" /\ PreparePay(s)
      /\ payer' = [payer EXCEPT ![m] = [pc |-> "pay", s |-> s, cap |-> c]]
      /\ UNCHANGED <<backend, rcpt, net, debit, owner, wallet, slipped, raced>>
  BY DEF Execute, GateRefuses, At, history
<1>2. /\ m \in Actors /\ m # "drive" /\ c \in Nat /\ c > 0
      /\ payer \in [Actors -> PayerRow] /\ sweep \in [Sweeps -> SweepRow]
  BY TreasuryAssumption DEF Actors, TInv, TreasuryTypeOK, PayerRow, SweepRow
<1>3. /\ pay' \in [Sweeps -> {"none", "PREPARED", "SUCCEEDED", "FAILED"}]
      /\ \A t \in Sweeps \ {s} : pay'[t] = pay[t]
      /\ pay'[s] # "none"
      /\ pay'[s] = "SUCCEEDED" => pay[s] = "SUCCEEDED"
      /\ pay'[s] = "FAILED" => ~Live(s) /\ (backend = "lnv2" \/ owner[s] # "none")
      /\ pay'[s] = "PREPARED" => pay[s] = "PREPARED" \/ owner[s] = "none"
      /\ pay'[s] # pay[s] => pay[s] = "none" \/ (pay[s] = "FAILED" /\ backend = "phoenixd")
  BY <1>1, PreparesTruly
<1>4. /\ sweep' \in [Sweeps -> SweepRow] /\ sweep'[s].status = "PENDING" /\ sweep'[s].cap = c
      /\ sweep'[s].fenced = sweep[s].fenced /\ sweep'[s].expired = sweep[s].expired
      /\ \A t \in Sweeps \ {s} : sweep'[t] = sweep[t]
  <2>1. sweep' \in [Sweeps -> SweepRow]
    BY <1>1, <1>2, RowUpdates
  <2> QED
    BY <1>1, <1>2, <2>1 DEF SweepRow
<1>5. /\ payer' \in [Actors -> PayerRow]
      /\ payer'[m].pc = "pay" /\ payer'[m].s = s /\ payer'[m].cap = c
      /\ \A b \in Actors \ {m} : payer'[b] = payer[b]
  <2>1. [pc |-> "pay", s |-> s, cap |-> c] \in PayerRow
    BY <1>2 DEF PayerRow
  <2> QED
    BY <1>1, <1>2, <2>1
<1>6. TreasuryTypeOK'
  BY <1>1, <1>3, <1>4, <1>5 DEF TInv, TreasuryTypeOK, PayerRow, SweepRow
<1>7. s \in raced \/ ~Live(s)
  BY <1>1 DEF TInv, CapHeld, CapCounts
<1>8. RowsTellTruth'
  BY <1>1, <1>2, <1>3, <1>4 DEF TInv, RowsTellTruth, Live
<1>9. CapHeld'
  <2>1. \A t \in Sweeps \ raced : Live(t) => CapCounts(t)' /\ debit'[t] <= sweep'[t].cap
    BY <1>1, <1>4, <1>7 DEF TInv, CapHeld, CapCounts
  <2>2. \A t \in raced : Live(t) => pay'[t] \in {"PREPARED", "SUCCEEDED"}
    BY <1>1, <1>3 DEF TInv, CapHeld, TreasuryTypeOK
  <2>3. \A t \in Sweeps : sweep'[t].status = "SENT" => "paid" \in {net[t], owner[t]}
    BY <1>4 DEF TInv, CapHeld
  <2> QED
    BY <1>1, <2>1, <2>2, <2>3 DEF TInv, CapHeld, Live
<1>10. ActorsKnow'
  <2> SUFFICES ASSUME NEW a \in Actors
               PROVE  /\ ~At(a, "idle")' => /\ ~sweep'[payer'[a].s].fenced
                                            /\ sweep'[payer'[a].s].status # "none"
                                            /\ payer'[a].cap > 0
                      /\ ~At(a, "idle")' /\ a # "drive" =>
                            /\ pay'[payer'[a].s] # "none"
                            /\ payer'[a].pc \notin {"status", "probe", "authorise"}
                      /\ payer'[a].pc \in {"pay", "await", "errored"}
                            => pay'[payer'[a].s] # "none"
                      /\ At(a, "sent")' => "paid" \in {net[payer'[a].s], owner[payer'[a].s]}
                      /\ At(a, "park")' => payer'[a].s \in raced \/ ~Live(payer'[a].s)
    BY <1>1 DEF ActorsKnow, Held, Live, At
  <2>1. CASE a = m
    BY <1>1, <1>2, <1>3, <1>4, <1>5, <2>1 DEF At
  <2>2. CASE a # m
    <3>1. payer'[a] = payer[a] /\ payer[a].s \in Sweeps
      BY <1>2, <1>5, <2>2 DEF PayerRow
    <3> QED
      BY <1>1, <1>3, <1>4, <3>1 DEF At, TInv, ActorsKnow, Held
  <2> QED
    BY <2>1, <2>2
<1>11. NotYet'
  <2> SUFFICES ASSUME ~slipped' PROVE Unslipped'
    BY DEF NotYet
  <2>1. Unslipped
    BY <1>1 DEF TInv, NotYet
  <2>2. pay'[s] = "PREPARED" => pay[s] = "none"
    BY <1>1, <1>3, <2>1 DEF Unslipped
  <2>3. \A a \in Actors \ {m} : payer[a].pc \in {"status", "probe", "authorise", "park"}
             /\ payer[a].s = s => pay[s] # "none"
    BY <1>1, <2>1 DEF Unslipped, Held
  <2>4. \A t \in Sweeps :
          /\ pay'[t] = "PREPARED" => sweep'[t].status \in {"PENDING", "SENT"}
          /\ pay'[t] = "FAILED" /\ backend = "phoenixd" => owner[t] # "none" \/ sweep'[t].expired
    BY <1>1, <1>3, <1>4, <2>1 DEF Unslipped
  <2>5. ASSUME NEW a \in Actors
        PROVE  /\ payer'[a].pc = "park" => pay'[payer'[a].s] \in {"none", "FAILED"}
               /\ payer'[a].pc \in {"probe", "authorise"} => pay'[payer'[a].s] = "none"
               /\ payer'[a].pc \in {"status", "probe", "authorise", "park"}
                    /\ pay'[payer'[a].s] = "none" => sweep'[payer'[a].s].status = "PENDING"
               /\ payer'[a].pc \in {"status", "probe", "authorise", "pay"}
                    /\ pay'[payer'[a].s] \in {"none", "PREPARED"}
                    => payer'[a].cap = sweep'[payer'[a].s].cap
    <3>1. CASE a = m
      BY <1>4, <1>5, <3>1
    <3>2. CASE a # m
      <4>1. payer'[a] = payer[a] /\ payer[a].s \in Sweeps
        BY <1>2, <1>5, <3>2 DEF PayerRow
      <4>2. CASE payer[a].s = s
        <5>1. payer[a].pc \in {"pay", "await", "errored"} => pay[s] # "none"
          BY <4>2 DEF TInv, ActorsKnow, Held
        <5> QED
          BY <1>3, <2>1, <2>2, <2>3, <3>2, <4>1, <4>2, <5>1 DEF Unslipped, At, Held
      <4>3. CASE payer[a].s # s
        BY <1>3, <1>4, <2>1, <4>1, <4>3 DEF Unslipped, At, Held
      <4> QED
        BY <4>2, <4>3
    <3> QED
      BY <3>1, <3>2
  <2> QED
    BY <1>1, <2>1, <2>4, <2>5 DEF Unslipped, At, Held
<1> QED
  BY <1>6, <1>8, <1>9, <1>10, <1>11 DEF TInv

(* Starting a payment: nobody else is about to park a row that is open, so *)
(* that a payment no one overtook has its cap subtracted.                  *)
LEMMA StartKeeps == ASSUME TInv, NEW a \in Actors, PayStart(a) PROVE TInv'
<1> DEFINE s == Held(a)
<1>1. /\ s \in Sweeps /\ payer \in [Actors -> PayerRow] /\ payer[a].pc = "pay" /\ ~At(a, "idle")
      /\ pay[s] = "PREPARED" \/ (pay[s] = "FAILED" /\ backend = "phoenixd")
      /\ net[s] = "none" /\ slipped \in BOOLEAN
      /\ UNCHANGED <<backend, rcpt, sweep, owner, slipped>>
      /\ ~sweep[s].fenced /\ sweep[s].status # "none" /\ payer[a].cap \in Nat /\ payer[a].cap > 0
  BY DEF TInv, TreasuryTypeOK, ActorsKnow, Held, At, PayerRow, PayStart, Startable
<1>2. CASE /\ owner[s] = "none" /\ ~sweep[s].expired
           /\ \E d \in Debits(a) : /\ wallet >= d /\ wallet' = wallet - d
                                   /\ debit' = [debit EXCEPT ![s] = d]
           /\ net' = [net EXCEPT ![s] = "inflight"] /\ pay' = [pay EXCEPT ![s] = "PREPARED"]
           /\ raced' = IF Overtaken(a) THEN raced \cup {s} ELSE raced
           /\ Go(a, "await")
  <2>1. PICK d \in Debits(a) : wallet >= d /\ wallet' = wallet - d
                               /\ debit' = [debit EXCEPT ![s] = d]
    BY <1>2
  <2>2. d \in Nat /\ d <= payer[a].cap
    BY <1>1 DEF Debits
  <2>3. /\ payer' \in [Actors -> PayerRow] /\ payer'[a].pc = "await"
        /\ payer'[a].s = s /\ payer'[a].cap = payer[a].cap
        /\ \A b \in Actors \ {a} : payer'[b] = payer[b]
    BY <1>1, <1>2, GoWrites DEF Held
  <2>4. /\ pay'[s] = "PREPARED" /\ net'[s] = "inflight" /\ debit'[s] = d
        /\ \A t \in Sweeps \ {s} : pay'[t] = pay[t] /\ net'[t] = net[t] /\ debit'[t] = debit[t]
        /\ raced \in SUBSET raced' /\ raced' \in SUBSET (raced \cup {s})
    BY <1>1, <1>2, <2>1 DEF TInv, TreasuryTypeOK
  <2>5. TreasuryTypeOK'
    BY <1>1, <1>2, <2>1, <2>2, <2>3, <2>4 DEF TInv, TreasuryTypeOK, PayerRow
  <2>6. RowsTellTruth'
    BY <1>1, <2>4 DEF TInv, RowsTellTruth, Live
  <2>7. Overtaken(a) => s \in raced'
    BY <1>2
  <2>8. CapHeld'
    <3>1. s \notin raced' => CapCounts(s) /\ d <= sweep[s].cap
      BY <1>1, <2>2, <2>7 DEF Overtaken, CapCounts, TInv, TreasuryTypeOK
    <3>2. raced' # {} => slipped
      <4> SUFFICES ASSUME ~slipped PROVE raced' = {}
        OBVIOUS
      <4>1. Unslipped
        BY DEF TInv, NotYet
      <4>2. pay[s] = "PREPARED"
        BY <1>1, <1>2, <4>1 DEF Unslipped
      <4>3. sweep[s].status # "FAILED" /\ sweep[s].cap = payer[a].cap
        BY <1>1, <4>1, <4>2 DEF Unslipped, Held
      <4>4. \A b \in Actors : ~(At(b, "park") /\ Held(b) = s)
        BY <4>1, <4>2 DEF Unslipped
      <4>5. ~Overtaken(a)
        BY <4>3, <4>4 DEF Overtaken
      <4> QED
        BY <1>2, <4>1, <4>5 DEF Unslipped
    <3>3. \A t \in Sweeps \ raced' : Live(t)' => CapCounts(t)' /\ debit'[t] <= sweep'[t].cap
      <4> SUFFICES ASSUME NEW t \in Sweeps \ raced', Live(t)'
                   PROVE  CapCounts(t)' /\ debit'[t] <= sweep'[t].cap
        OBVIOUS
      <4>1. CASE t = s
        BY <1>1, <2>4, <3>1, <4>1 DEF CapCounts
      <4>2. CASE t # s
        BY <1>1, <2>4, <4>2 DEF TInv, CapHeld, CapCounts, Live
      <4> QED
        BY <4>1, <4>2
    <3>4. \A t \in raced' : Live(t)' => pay'[t] \in {"PREPARED", "SUCCEEDED"}
      BY <2>4 DEF TInv, CapHeld, Live, TreasuryTypeOK
    <3>5. \A t \in Sweeps : sweep[t].status = "SENT" => "paid" \in {net'[t], owner[t]}
      BY <1>1, <1>2, <2>4 DEF TInv, CapHeld
    <3> QED
      BY <1>1, <3>2, <3>3, <3>4, <3>5 DEF CapHeld
  <2>9. ActorsKnow'
    <3> SUFFICES ASSUME NEW b \in Actors
                 PROVE  /\ ~At(b, "idle")' => /\ ~sweep[payer'[b].s].fenced
                                              /\ sweep[payer'[b].s].status # "none"
                                              /\ payer'[b].cap > 0
                        /\ ~At(b, "idle")' /\ b # "drive" =>
                              /\ pay'[payer'[b].s] # "none"
                              /\ payer'[b].pc \notin {"status", "probe", "authorise"}
                        /\ payer'[b].pc \in {"pay", "await", "errored"}
                              => pay'[payer'[b].s] # "none"
                        /\ At(b, "sent")' => "paid" \in {net'[payer'[b].s], owner[payer'[b].s]}
                        /\ At(b, "park")' => \/ payer'[b].s \in raced'
                                          \/ net'[payer'[b].s] \notin {"inflight", "paid"}
      BY <1>1 DEF ActorsKnow, Held, Live, At
    <3>1. CASE b = a
      BY <1>1, <2>3, <2>4, <3>1 DEF At
    <3>2. CASE b # a
      <4>1. payer'[b] = payer[b] /\ payer[b].s \in Sweeps
        BY <1>1, <2>3, <3>2 DEF PayerRow
      <4>2. payer[b].pc = "park" /\ payer[b].s = s => s \in raced'
        BY <2>7, <3>2 DEF Overtaken, At, Held
      <4> QED
        BY <1>1, <2>4, <4>1, <4>2 DEF At, TInv, ActorsKnow, Held, Live
    <3> QED
      BY <3>1, <3>2
  <2>10. NotYet'
    <3> SUFFICES ASSUME ~slipped' PROVE Unslipped'
      BY DEF NotYet
    <3>1. Unslipped
      BY <1>1 DEF TInv, NotYet
    <3>2. pay[s] = "PREPARED"
      BY <1>1, <1>2, <3>1 DEF Unslipped
    <3>3. pay' = pay
      BY <1>1, <1>2, <3>2 DEF TInv, TreasuryTypeOK
    <3>4. raced' = {}
      BY <1>1, <2>8 DEF CapHeld
    <3> QED
      BY <1>1, <2>3, <3>1, <3>3, <3>4 DEF Unslipped, At, Held
  <2> QED
    BY <2>5, <2>6, <2>8, <2>9, <2>10 DEF TInv
<1>3. CASE /\ pay' = [pay EXCEPT ![s] = "FAILED"] /\ Go(a, "errored")
           /\ backend = "lnv2" \/ owner[s] # "none" \/ sweep[s].expired
           /\ UNCHANGED <<net, debit, wallet, raced>>
  <2>1. /\ payer' \in [Actors -> PayerRow] /\ payer'[a].pc = "errored"
        /\ payer'[a].s = s /\ payer'[a].cap = payer[a].cap
        /\ \A b \in Actors \ {a} : payer'[b] = payer[b]
    BY <1>1, <1>3, GoWrites DEF Held
  <2>2. pay'[s] = "FAILED" /\ \A t \in Sweeps \ {s} : pay'[t] = pay[t]
    BY <1>1, <1>3 DEF TInv, TreasuryTypeOK
  <2>3. TreasuryTypeOK'
    BY <1>1, <1>3, <2>1 DEF TInv, TreasuryTypeOK, PayerRow
  <2>4. RowsTellTruth' /\ CapHeld'
    BY <1>1, <1>3, <2>2 DEF TInv, RowsTellTruth, CapHeld, CapCounts, Live
  <2>5. ActorsKnow'
    BY <1>1, <1>3, <2>1, <2>2 DEF TInv, ActorsKnow, At, Held, Live
  <2>6. NotYet'
    <3> SUFFICES ASSUME ~slipped' PROVE Unslipped'
      BY DEF NotYet
    <3>1. Unslipped
      BY <1>1 DEF TInv, NotYet
    <3>2. backend = "phoenixd" => backend # "lnv2"
      OBVIOUS
    <3>3. \A b \in Actors \ {a} : payer[b].s \in Sweeps
      BY <1>1 DEF PayerRow
    <3> QED
      BY <1>1, <1>3, <2>1, <2>2, <3>1, <3>2, <3>3 DEF Unslipped, At, Held
  <2> QED
    BY <2>3, <2>4, <2>5, <2>6 DEF TInv
<1>4. CASE Go(a, "errored") /\ UNCHANGED <<pay, net, debit, wallet, raced>>
  BY <1>1, <1>4, ActorMoves DEF payVars
<1> QED
  BY <1>2, <1>3, <1>4 DEF PayStart

(* A payment that landed or came back is written into the key's row.       *)
LEMMA AwaitKeeps == ASSUME TInv, NEW a \in Actors, PayAwait(a) PROVE TInv'
<1> DEFINE s == Held(a)
<1>1. /\ s \in Sweeps /\ payer \in [Actors -> PayerRow] /\ payer[a].pc = "await" /\ ~At(a, "idle")
      /\ UNCHANGED <<backend, rcpt, sweep, net, debit, owner, wallet, slipped, raced>>
      /\ pay[s] # "none" /\ slipped \in BOOLEAN
  BY DEF TInv, TreasuryTypeOK, ActorsKnow, Held, At, PayerRow, PayAwait, history
<1>2. CASE Go(a, "errored") /\ UNCHANGED pay
  BY <1>1, <1>2, ActorMoves DEF payVars
<1>3. ASSUME NEW v \in {"SUCCEEDED", "FAILED"}, NEW pc \in {"sent", "errored"},
             pay' = [pay EXCEPT ![s] = v], Go(a, pc),
             v = "SUCCEEDED" => net[s] = "paid",
             pc = "sent" => net[s] = "paid",
             v = "FAILED" => net[s] = "returned" /\ backend = "lnv2"
      PROVE  TInv'
  <2>1. /\ payer' \in [Actors -> PayerRow] /\ payer'[a].pc = pc
        /\ payer'[a].s = s /\ payer'[a].cap = payer[a].cap
        /\ \A b \in Actors \ {a} : payer'[b] = payer[b]
    BY <1>1, <1>3, GoWrites DEF Held
  <2>2. pay'[s] = v /\ \A t \in Sweeps \ {s} : pay'[t] = pay[t]
    BY <1>1, <1>3 DEF TInv, TreasuryTypeOK
  <2>3. TreasuryTypeOK'
    BY <1>1, <1>3, <2>1 DEF TInv, TreasuryTypeOK, PayerRow
  <2>4. RowsTellTruth' /\ CapHeld'
    BY <1>1, <1>3, <2>2 DEF TInv, RowsTellTruth, CapHeld, CapCounts, Live, TreasuryTypeOK
  <2>5. ActorsKnow'
    BY <1>1, <1>3, <2>1, <2>2 DEF TInv, ActorsKnow, At, Held, Live
  <2>6. NotYet'
    <3> SUFFICES ASSUME ~slipped' PROVE Unslipped'
      BY DEF NotYet
    <3>1. Unslipped /\ RowsTellTruth
      BY <1>1 DEF TInv, NotYet
    <3>2. v = "SUCCEEDED" => pay[s] \in {"PREPARED", "SUCCEEDED"}
      BY <1>1, <1>3, <3>1 DEF RowsTellTruth, Live, TInv, TreasuryTypeOK
    <3>3. \A b \in Actors \ {a} : payer[b].s \in Sweeps
      BY <1>1 DEF PayerRow
    <3> QED
      BY <1>1, <1>3, <2>1, <2>2, <3>1, <3>2, <3>3 DEF Unslipped, At, Held
  <2> QED
    BY <2>3, <2>4, <2>5, <2>6 DEF TInv
<1> QED
  BY <1>2, <1>3 DEF PayAwait

(* The answers of the pay path that only move the actor.                   *)
LEMMA PayMoves ==
    ASSUME TInv, NEW a \in Actors, PayKnown(a) \/ StatusAfterError(a) PROVE TInv'
<1> DEFINE s == Held(a)
<1>1. /\ s \in Sweeps /\ ~At(a, "idle") /\ payer[a].pc \in {"pay", "errored"}
      /\ UNCHANGED <<backend, rcpt, sweep, payVars, wallet, raced>> /\ UNCHANGED slipped
      /\ pay[s] \in {"PREPARED", "SUCCEEDED", "FAILED"} /\ slipped \in BOOLEAN
      /\ pay[s] = "SUCCEEDED" => net[s] = "paid"
      /\ pay[s] = "FAILED" => ~Live(s)
  <2>1. payer[a].pc \in {"pay", "errored"}
    BY DEF At, PayKnown, StatusAfterError
  <2>2. s \in Sweeps /\ pay[s] \in {"PREPARED", "SUCCEEDED", "FAILED"} /\ slipped \in BOOLEAN
    BY <2>1 DEF TInv, TreasuryTypeOK, ActorsKnow, Held
  <2> QED
    BY <2>1, <2>2 DEF TInv, RowsTellTruth, At, PayKnown, StatusAfterError, history
<1>2. CASE PayKnown(a)
  <2>1. PICK pc \in {"await", "sent", "errored"} : Go(a, pc) /\ (pc = "sent" => net[s] = "paid")
    BY <1>1, <1>2 DEF PayKnown
  <2> QED
    BY <1>1, <2>1, ActorMoves
<1>3. CASE StatusAfterError(a)
  <2>1. PICK pc \in {"sent", "park", "idle"} :
           Go(a, pc) /\ (pc = "sent" => net[s] = "paid") /\ (pc = "park" => pay[s] = "FAILED")
    BY <1>1, <1>3 DEF StatusAfterError, Status
  <2> QED
    BY <1>1, <2>1, ActorMoves
<1> QED
  BY <1>2, <1>3

(* The two writes of a sweep's outcome.                                    *)
LEMMA CommitsKeep ==
    ASSUME TInv, NEW a \in Actors, CommitSent(a) \/ CommitFailed(a) PROVE TInv'
<1> DEFINE s == Held(a)
<1>1. /\ s \in Sweeps /\ payer \in [Actors -> PayerRow] /\ sweep \in [Sweeps -> SweepRow]
      /\ Go(a, "idle") /\ payer[a].pc \in {"sent", "park"}
      /\ UNCHANGED <<backend, rcpt, pay, net, debit, owner, wallet, slipped, raced>>
  BY DEF TInv, TreasuryTypeOK, SweepRow, PayerRow, Held, At, CommitSent, CommitFailed,
         payVars, history
<1>2. PICK st \in {"none", "PENDING", "SENT", "FAILED"} :
         /\ sweep' = [sweep EXCEPT ![s].status = st]
         /\ st = sweep[s].status
              \/ (st = "SENT" /\ payer[a].pc = "sent" /\ sweep[s].status \in {"PENDING", "FAILED"})
              \/ (st = "FAILED" /\ payer[a].pc = "park" /\ sweep[s].status = "PENDING")
  <2>1. sweep = [sweep EXCEPT ![s].status = sweep[s].status]
    BY <1>1 DEF SweepRow
  <2>2. sweep[s].status \in {"none", "PENDING", "SENT", "FAILED"}
    BY <1>1 DEF SweepRow
  <2>3. \/ payer[a].pc = "sent"
           /\ sweep' = IF sweep[s].status \in {"PENDING", "FAILED"}
                       THEN [sweep EXCEPT ![s].status = "SENT"] ELSE sweep
        \/ payer[a].pc = "park"
           /\ sweep' = IF sweep[s].status = "PENDING"
                       THEN [sweep EXCEPT ![s].status = "FAILED"] ELSE sweep
    BY DEF CommitSent, CommitFailed, At
  <2> QED
    BY <2>1, <2>2, <2>3, Zenon
<1>3. /\ sweep' \in [Sweeps -> SweepRow] /\ sweep'[s].status = st
      /\ sweep'[s].cap = sweep[s].cap /\ sweep'[s].fenced = sweep[s].fenced
      /\ sweep'[s].expired = sweep[s].expired
      /\ \A t \in Sweeps \ {s} : sweep'[t] = sweep[t]
  <2>1. sweep' \in [Sweeps -> SweepRow]
    BY <1>1, <1>2, RowUpdates
  <2> QED
    BY <1>1, <1>2, <2>1 DEF SweepRow
<1>4. /\ payer' \in [Actors -> PayerRow] /\ payer'[a].pc = "idle"
      /\ \A b \in Actors \ {a} : payer'[b] = payer[b]
  BY <1>1, GoWrites
<1>5. sweep[s].status # "none" /\ ~sweep[s].fenced
  BY <1>1 DEF TInv, ActorsKnow, At, Held
<1>6. st # "none"
  BY <1>2, <1>5
<1>7. TreasuryTypeOK'
  BY <1>1, <1>3, <1>4 DEF TInv, TreasuryTypeOK, SweepRow, PayerRow
<1>8. RowsTellTruth'
  BY <1>1, <1>3, <1>5 DEF TInv, RowsTellTruth, Live
<1>9. CapHeld'
  <2>1. st = "FAILED" /\ sweep[s].status # "FAILED" => s \in raced \/ ~Live(s)
    BY <1>1, <1>2 DEF TInv, ActorsKnow, At, Held
  <2>2. st = "SENT" /\ sweep[s].status # "SENT" => "paid" \in {net[s], owner[s]}
    BY <1>1, <1>2 DEF TInv, ActorsKnow, At, Held
  <2>3. \A t \in Sweeps \ raced : Live(t) => CapCounts(t)' /\ debit[t] <= sweep'[t].cap
    <3> SUFFICES ASSUME NEW t \in Sweeps \ raced, Live(t)
                 PROVE  CapCounts(t)' /\ debit[t] <= sweep'[t].cap
      OBVIOUS
    <3>1. CapCounts(t) /\ debit[t] <= sweep[t].cap
      BY DEF TInv, CapHeld
    <3>2. CASE t = s
      BY <1>2, <1>3, <2>1, <3>1, <3>2 DEF CapCounts
    <3>3. CASE t # s
      BY <1>3, <3>1, <3>3 DEF CapCounts
    <3> QED
      BY <3>2, <3>3
  <2>4. \A t \in Sweeps : sweep'[t].status = "SENT" => "paid" \in {net[t], owner[t]}
    BY <1>3, <2>2 DEF TInv, CapHeld
  <2> QED
    BY <1>1, <2>3, <2>4 DEF TInv, CapHeld, Live
<1>10. ActorsKnow'
  <2> SUFFICES ASSUME NEW b \in Actors
               PROVE  /\ ~At(b, "idle")' => /\ ~sweep'[payer'[b].s].fenced
                                            /\ sweep'[payer'[b].s].status # "none"
                                            /\ payer'[b].cap > 0
                      /\ ~At(b, "idle")' /\ b # "drive" =>
                            /\ pay[payer'[b].s] # "none"
                            /\ payer'[b].pc \notin {"status", "probe", "authorise"}
                      /\ payer'[b].pc \in {"pay", "await", "errored"} => pay[payer'[b].s] # "none"
                      /\ At(b, "sent")' => "paid" \in {net[payer'[b].s], owner[payer'[b].s]}
                      /\ At(b, "park")' => payer'[b].s \in raced \/ ~Live(payer'[b].s)
    BY <1>1 DEF ActorsKnow, Held, Live, At
  <2>1. CASE b = a
    BY <1>4, <2>1 DEF At
  <2>2. CASE b # a
    <3>1. payer'[b] = payer[b] /\ payer[b].s \in Sweeps
      BY <1>1, <1>4, <2>2 DEF PayerRow
    <3> QED
      BY <1>3, <1>5, <1>6, <3>1 DEF At, TInv, ActorsKnow, Held
  <2> QED
    BY <2>1, <2>2
<1>11. NotYet'
  <2> SUFFICES ASSUME ~slipped' PROVE Unslipped'
    BY DEF NotYet
  <2>1. Unslipped
    BY <1>1 DEF TInv, NotYet
  <2>2. payer[a].pc = "park" => pay[s] \in {"none", "FAILED"}
    BY <1>1, <2>1 DEF Unslipped, At, Held
  <2>3. \A t \in Sweeps :
          /\ pay[t] = "PREPARED" => sweep'[t].status \in {"PENDING", "SENT"}
          /\ pay[t] = "FAILED" /\ backend = "phoenixd" => owner[t] # "none" \/ sweep'[t].expired
    BY <1>2, <1>3, <2>1, <2>2 DEF Unslipped
  <2>4. pay[s] = "none" => a = "drive"
    BY <1>1 DEF TInv, ActorsKnow, At, Held
  <2>5. ASSUME NEW b \in Actors, b # a, payer[b].s = s, pay[s] = "none"
        PROVE  payer[b].pc \notin {"status", "probe", "authorise", "park"}
    BY <1>1, <2>4, <2>5 DEF TInv, ActorsKnow, At, Held
  <2>6. ASSUME NEW b \in Actors
        PROVE  /\ payer'[b].pc = "park" => pay[payer'[b].s] \in {"none", "FAILED"}
               /\ payer'[b].pc \in {"probe", "authorise"} => pay[payer'[b].s] = "none"
               /\ payer'[b].pc \in {"status", "probe", "authorise", "park"}
                    /\ pay[payer'[b].s] = "none" => sweep'[payer'[b].s].status = "PENDING"
               /\ payer'[b].pc \in {"status", "probe", "authorise", "pay"}
                    /\ pay[payer'[b].s] \in {"none", "PREPARED"}
                    => payer'[b].cap = sweep'[payer'[b].s].cap
    <3>1. CASE b = a
      BY <1>4, <3>1
    <3>2. CASE b # a
      <4>1. payer'[b] = payer[b] /\ payer[b].s \in Sweeps
        BY <1>1, <1>4, <3>2 DEF PayerRow
      <4>2. sweep'[payer[b].s].cap = sweep[payer[b].s].cap
        BY <1>3, <4>1
      <4>3. CASE payer[b].s = s
        BY <2>1, <2>5, <3>2, <4>1, <4>2, <4>3 DEF Unslipped, At, Held
      <4>4. CASE payer[b].s # s
        BY <1>3, <2>1, <4>1, <4>2, <4>4 DEF Unslipped, At, Held
      <4> QED
        BY <4>3, <4>4
    <3> QED
      BY <3>1, <3>2
  <2> QED
    BY <1>1, <2>1, <2>3, <2>6 DEF Unslipped, At, Held
<1> QED
  BY <1>7, <1>8, <1>9, <1>10, <1>11 DEF TInv

(* Steps of the books, the network, the clock, the invoice's other owner   *)
(* and the operator; the daemon's stop, which empties every actor's hand.  *)
LEMMA WorldKeeps ==
    ASSUME TInv,
           \/ Books \/ Crash \/ UNCHANGED vars
           \/ \E s \in Sweeps : \/ Resolve(s) \/ Expire(s) \/ ClearFence(s)
                                \/ OwnerPays(s) \/ CollisionEnds(s)
    PROVE  TInv'
<1> USE DEF payVars, history
<1>1. CASE Books
  <2>1. PICK r \in Receipts : Capture(r) \/ Activate(r) \/ FailToRefund(r) \/ ResumeAgain(r)
             \/ Resumed(r) \/ RefundStart(r) \/ RefundReturn(r) \/ RefundRecorded(r)
    BY <1>1 DEF Books
  <2>2. /\ \E to \in {"atrisk", "kept", "reheld", "owed", "paying", "refunded"} :
               rcpt' = [rcpt EXCEPT ![r] = to]
        /\ wallet' \in Int
        /\ UNCHANGED <<backend, sweep, pay, net, debit, owner, payer, slipped, raced>>
    BY <2>1, TreasuryAssumption DEF MoveReceipt, Capture, Activate, FailToRefund, ResumeAgain,
           Resumed, RefundStart, RefundReturn, RefundRecorded, TInv, TreasuryTypeOK
  <2>3. TreasuryTypeOK'
    BY <2>2 DEF TInv, TreasuryTypeOK
  <2>4. RowsTellTruth' /\ ActorsKnow' /\ NotYet' /\ CapHeld'
    BY <2>2 DEF TInv, RowsTellTruth, ActorsKnow, NotYet, Unslipped, CapHeld, At, Held, Live,
                CapCounts
  <2> QED
    BY <2>3, <2>4 DEF TInv
<1>2. CASE Crash
  <2>1. /\ payer' = [a \in Actors |-> NoSweep]
        /\ UNCHANGED <<backend, rcpt, sweep, pay, net, debit, owner, wallet, slipped, raced>>
    BY <1>2 DEF Crash
  <2>2. NoSweep \in PayerRow /\ NoSweep.pc = "idle"
    BY TreasuryAssumption DEF NoSweep, PayerRow
  <2>3. TreasuryTypeOK'
    BY <2>1, <2>2 DEF TInv, TreasuryTypeOK, PayerRow
  <2>4. RowsTellTruth' /\ CapHeld'
    BY <2>1 DEF TInv, RowsTellTruth, CapHeld, Live, CapCounts
  <2>5. ActorsKnow'
    BY <2>1, <2>2 DEF ActorsKnow, At
  <2>6. NotYet'
    BY <2>1, <2>2 DEF TInv, NotYet, Unslipped, At
  <2> QED
    BY <2>3, <2>4, <2>5, <2>6 DEF TInv
<1>3. ASSUME NEW s \in Sweeps, Resolve(s) PROVE TInv'
  <2>0. UNCHANGED <<backend, rcpt, sweep, pay, owner, payer, slipped, raced>>
        /\ net[s] = "inflight"
    BY <1>3 DEF Resolve
  <2>1. TreasuryTypeOK' /\ (debit'[s] = debit[s] \/ net'[s] = "returned")
        /\ net'[s] \in {"paid", "returned"}
        /\ \A t \in Sweeps \ {s} : net'[t] = net[t] /\ debit'[t] = debit[t]
    <3>1. CASE net' = [net EXCEPT ![s] = "paid"] /\ UNCHANGED <<debit, wallet>>
      BY <2>0, <3>1 DEF TInv, TreasuryTypeOK
    <3>2. CASE /\ net' = [net EXCEPT ![s] = "returned"]
               /\ wallet' = wallet + debit[s] /\ debit' = [debit EXCEPT ![s] = 0]
      BY <2>0, <3>2 DEF TInv, TreasuryTypeOK
    <3> QED
      BY <1>3, <3>1, <3>2 DEF Resolve
  <2>2. \A t \in Sweeps : (Live(t)' => Live(t)) /\ (net[t] = "paid" => net'[t] = "paid")
    BY <2>0, <2>1 DEF Live
  <2>3. RowsTellTruth'
    BY <2>0, <2>2 DEF TInv, RowsTellTruth
  <2>4. CapHeld'
    <3>1. \A t \in Sweeps \ raced : Live(t)' => debit'[t] = debit[t]
      BY <2>1 DEF Live
    <3>2. \A t \in Sweeps \ raced : Live(t)' => CapCounts(t)' /\ debit'[t] <= sweep'[t].cap
      BY <2>0, <2>2, <3>1 DEF TInv, CapHeld, CapCounts
    <3>3. \A t \in raced : Live(t)' => pay'[t] \in {"PREPARED", "SUCCEEDED"}
      BY <2>0, <2>2 DEF TInv, CapHeld, TreasuryTypeOK
    <3>4. \A t \in Sweeps : sweep'[t].status = "SENT" => "paid" \in {net'[t], owner'[t]}
      BY <2>0, <2>2 DEF TInv, CapHeld
    <3> QED
      BY <2>0, <3>2, <3>3, <3>4 DEF TInv, CapHeld
  <2>5. ActorsKnow'
    <3>1. \A a \in Actors : payer[a].s \in Sweeps
      BY DEF TInv, TreasuryTypeOK
    <3> QED
      BY <2>0, <2>2, <3>1 DEF TInv, ActorsKnow, At, Held
  <2>6. NotYet'
    BY <2>0 DEF TInv, NotYet, Unslipped, At, Held
  <2> QED
    BY <2>1, <2>3, <2>4, <2>5, <2>6 DEF TInv
<1>4. ASSUME NEW s \in Sweeps, Expire(s) \/ ClearFence(s) PROVE TInv'
  <2>0. /\ UNCHANGED <<backend, rcpt, pay, net, debit, owner, wallet, payer, slipped, raced>>
        /\ sweep \in [Sweeps -> SweepRow]
    BY <1>4 DEF Expire, ClearFence, TInv, TreasuryTypeOK, SweepRow
  <2>1. sweep' \in [Sweeps -> SweepRow]
    <3>1. payer \in [Actors -> PayerRow] /\ "drive" \in Actors
      BY DEF TInv, TreasuryTypeOK, PayerRow, Actors
    <3>2. /\ [sweep EXCEPT ![s].expired = TRUE] \in [Sweeps -> SweepRow]
          /\ [sweep EXCEPT ![s].fenced = FALSE] \in [Sweeps -> SweepRow]
      BY <2>0, <3>1, RowUpdates
    <3> QED
      BY <1>4, <3>2 DEF Expire, ClearFence
  <2>2. /\ \A t \in Sweeps : sweep'[t].status = sweep[t].status /\ sweep'[t].cap = sweep[t].cap
        /\ \A t \in Sweeps : (sweep[t].expired => sweep'[t].expired)
                             /\ (sweep'[t].fenced => sweep[t].fenced)
                             /\ (sweep[t].fenced => sweep'[t].fenced \/ ~Live(t))
    BY <1>4, <2>0 DEF Expire, ClearFence, SweepRow, Live
  <2>3. TreasuryTypeOK'
    BY <2>0, <2>1 DEF TInv, TreasuryTypeOK, SweepRow
  <2>4. RowsTellTruth'
    BY <2>0, <2>2 DEF TInv, RowsTellTruth, Live
  <2>5. CapHeld'
    BY <2>0, <2>2 DEF TInv, CapHeld, Live, CapCounts
  <2>6. \A a \in Actors : payer[a].s \in Sweeps
    BY DEF TInv, TreasuryTypeOK
  <2>7. ActorsKnow'
    BY <2>0, <2>2, <2>6 DEF TInv, ActorsKnow, At, Held, Live
  <2>8. NotYet'
    BY <2>0, <2>2, <2>6 DEF TInv, NotYet, Unslipped, At, Held
  <2> QED
    BY <2>3, <2>4, <2>5, <2>7, <2>8 DEF TInv
<1>5. ASSUME NEW s \in Sweeps, OwnerPays(s) \/ CollisionEnds(s) PROVE TInv'
  <2>0. /\ UNCHANGED <<backend, rcpt, sweep, pay, net, debit, wallet, payer, raced>>
        /\ owner' \in [Sweeps -> {"none", "live", "paid"}] /\ slipped' \in BOOLEAN
        /\ \A t \in Sweeps : owner[t] = "paid" => owner'[t] = "paid"
        /\ ~slipped' => /\ ~slipped
                        /\ backend = "phoenixd" =>
                              \A t \in Sweeps : owner[t] # "none" => owner'[t] # "none"
    <3>1. owner \in [Sweeps -> {"none", "live", "paid"}] /\ slipped \in BOOLEAN
      BY DEF TInv, TreasuryTypeOK
    <3>2. CASE OwnerPays(s)
      BY <3>1, <3>2 DEF OwnerPays
    <3>3. CASE CollisionEnds(s)
      <4>1. /\ owner[s] = "live" /\ owner' = [owner EXCEPT ![s] = "none"]
            /\ slipped' = (slipped \/ backend = "phoenixd")
            /\ UNCHANGED <<backend, rcpt, sweep, pay, net, debit, wallet, payer, raced>>
        BY <3>3 DEF CollisionEnds
      <4>2. slipped' \in BOOLEAN /\ (~slipped' => ~slipped /\ backend # "phoenixd")
        BY <3>1, <4>1, Zenon
      <4>3. /\ owner' \in [Sweeps -> {"none", "live", "paid"}]
            /\ \A t \in Sweeps : owner[t] = "paid" => owner'[t] = "paid"
        BY <3>1, <4>1
      <4> QED
        BY <4>1, <4>2, <4>3
    <3> QED
      BY <1>5, <3>2, <3>3
  <2>1. TreasuryTypeOK'
    BY <2>0 DEF TInv, TreasuryTypeOK
  <2>2. RowsTellTruth'
    BY <2>0 DEF TInv, RowsTellTruth, Live
  <2>3. CapHeld'
    <3>1. slipped => slipped'
      BY <2>0 DEF TInv, TreasuryTypeOK
    <3> QED
      BY <2>0, <3>1 DEF TInv, CapHeld, Live, CapCounts
  <2>4. \A a \in Actors : payer[a].s \in Sweeps
    BY DEF TInv, TreasuryTypeOK
  <2>5. ActorsKnow'
    BY <2>0, <2>4 DEF TInv, ActorsKnow, At, Held, Live
  <2>6. NotYet'
    BY <2>0 DEF TInv, NotYet, Unslipped, At, Held
  <2> QED
    BY <2>1, <2>2, <2>3, <2>5, <2>6 DEF TInv
<1>6. CASE UNCHANGED vars
  BY <1>6 DEF vars, TInv, TreasuryTypeOK, RowsTellTruth, ActorsKnow, NotYet, Unslipped, CapHeld,
              At, Held, Live, CapCounts
<1> QED
  BY <1>1, <1>2, <1>3, <1>4, <1>5, <1>6

(* Every step preserves the invariant.                                     *)
LEMMA TInvStep == ASSUME TInv, [Next]_vars PROVE TInv'
<1>1. ASSUME NEW s \in Sweeps, DriveLoad(s) PROVE TInv'
  <2>1. /\ "drive" \in Actors /\ payer \in [Actors -> PayerRow]
        /\ sweep[s].status = "PENDING" /\ ~sweep[s].fenced /\ sweep[s].cap \in Nat
        /\ sweep[s].cap > 0
        /\ payer' = [payer EXCEPT !["drive"] = [pc |-> "status", s |-> s, cap |-> sweep[s].cap]]
        /\ UNCHANGED <<backend, rcpt, sweep, pay, net, debit, owner, wallet, slipped, raced>>
    BY <1>1 DEF DriveLoad, Actors, TInv, TreasuryTypeOK, PayerRow, RowsTellTruth, payVars, history
  <2>2. /\ payer' \in [Actors -> PayerRow] /\ payer'["drive"].pc = "status"
        /\ payer'["drive"].s = s /\ payer'["drive"].cap = sweep[s].cap
        /\ \A b \in Actors \ {"drive"} : payer'[b] = payer[b]
    <3>1. [pc |-> "status", s |-> s, cap |-> sweep[s].cap] \in PayerRow
      BY <2>1 DEF PayerRow
    <3> QED
      BY <2>1, <3>1
  <2>3. TreasuryTypeOK'
    BY <2>1, <2>2 DEF TInv, TreasuryTypeOK, PayerRow
  <2>4. RowsTellTruth' /\ CapHeld'
    BY <2>1 DEF TInv, RowsTellTruth, CapHeld, Live, CapCounts
  <2>5. ActorsKnow'
    BY <2>1, <2>2 DEF TInv, ActorsKnow, At, Held, Live
  <2>6. NotYet'
    BY <2>1, <2>2 DEF TInv, NotYet, Unslipped, At, Held
  <2> QED
    BY <2>3, <2>4, <2>5, <2>6 DEF TInv
<1> QED
  BY <1>1, WorldKeeps, DriveMoves, AuthoriseKeeps, ExecuteKeeps, StartKeeps, AwaitKeeps, PayMoves,
     CommitsKeep DEF Next, DriveStep, PayStep

(* A sweep that is in flight or has landed keeps its cap subtracted, but   *)
(* for those sent after being given up, which takes a failed lookup or, on *)
(* phoenixd, an [8A] owner that gave up; those keep their pay row, and a   *)
(* SENT row is paid (capped_pay, recovery_status, commit_sent).            *)
THEOREM CapAlwaysHeld == Spec => []CapHeld
<1>1. TInv /\ [Next]_vars => TInv'
  BY TInvStep
<1>2. TInv => CapHeld
  BY DEF TInv
<1> QED
  BY <1>1, <1>2, TInvInit, PTL DEF Spec

-----------------------------------------------------------------------------
(* Amounts.  A sum of natural numbers over a finite set is the number of   *)
(* its units, which is what makes the fold of the surplus provable.        *)
Units(f, T) == UNION {{s} \X (1..f[s]) : s \in T}
Total(f) == Cardinality(Units(f, Sweeps))

(* Among subsets of a finite set there is a smallest: induction, with the  *)
(* set of counterexamples in the place of the property.                    *)
LEMMA SubsetMin ==
    ASSUME NEW S, IsFiniteSet(S), NEW W \in SUBSET (SUBSET S), W # {}
    PROVE  \E T \in W : \A U \in W : ~(U \subseteq T /\ U # T)
<1>1. IsWellFoundedOn(StrictSubsetOrdering(S), SUBSET S)
  BY FS_StrictSubsetOrderingWellFounded, FS_FiniteSubsetsOfFinite
<1>2. PICK T \in W : \A U \in W : <<U, T>> \notin StrictSubsetOrdering(S)
  BY <1>1, WFMin
<1> QED
  BY <1>2 DEF StrictSubsetOrdering

(* One member more adds its own units, and they are counted once.          *)
LEMMA UnitsCount ==
    ASSUME NEW f \in [Sweeps -> Nat], NEW T \in SUBSET Sweeps, NEW x \in T,
           IsFiniteSet(Units(f, T \ {x}))
    PROVE  /\ IsFiniteSet(Units(f, T))
           /\ Cardinality(Units(f, T)) = f[x] + Cardinality(Units(f, T \ {x}))
<1> DEFINE X == {x} \X (1..f[x])
           R == Units(f, T \ {x})
<1>1. f[x] \in Nat
  OBVIOUS
<1>2. IsFiniteSet(X) /\ Cardinality(X) = f[x]
  <2>1. IsFiniteSet(1..f[x]) /\ Cardinality(1..f[x]) = f[x]
    BY <1>1, FS_Interval
  <2>2. IsFiniteSet({x}) /\ Cardinality({x}) = 1
    BY FS_Singleton
  <2>3. IsFiniteSet(X) /\ Cardinality(X) = Cardinality({x}) * Cardinality(1..f[x])
    BY <2>1, <2>2, FS_Product
  <2> QED
    BY <1>1, <2>1, <2>2, <2>3
<1>3. Units(f, T) = R \cup X
  BY DEF Units
<1>4. R \cap X = {}
  BY DEF Units
<1>5. Cardinality(R) \in Nat
  BY FS_CardinalityType
<1>6. /\ IsFiniteSet(R \cup X)
      /\ Cardinality(R \cup X) = Cardinality(R) + Cardinality(X) - Cardinality(R \cap X)
  BY <1>2, FS_Union
<1>7. Cardinality(R \cap X) = 0
  BY <1>4, FS_EmptySet
<1> HIDE DEF X, R
<1> QED
  BY <1>1, <1>2, <1>3, <1>5, <1>6, <1>7 DEF R

(* A smallest set with infinitely many units would be empty.               *)
LEMMA UnitsFinite ==
    ASSUME NEW f \in [Sweeps -> Nat]
    PROVE  \A T \in SUBSET Sweeps : IsFiniteSet(Units(f, T))
<1> DEFINE W == {T \in SUBSET Sweeps : ~IsFiniteSet(Units(f, T))}
<1>1. SUFFICES ASSUME W # {} PROVE FALSE
  BY Zenon
<1>2. PICK T \in W : \A U \in W : ~(U \subseteq T /\ U # T)
  <2>1. W \in SUBSET (SUBSET Sweeps)
    OBVIOUS
  <2> HIDE DEF W
  <2> QED
    BY <1>1, <2>1, SubsetMin, TreasuryAssumption
<1>3. T # {}
  BY FS_EmptySet DEF Units
<1>4. PICK x \in T : TRUE
  BY <1>3
<1>5. IsFiniteSet(Units(f, T \ {x}))
  BY <1>2
<1> QED
  BY <1>5, UnitsCount

(* Writing one entry changes the total by the difference.                  *)
LEMMA TotalUpdate ==
    ASSUME NEW f \in [Sweeps -> Nat], NEW s \in Sweeps, NEW d \in Nat
    PROVE  /\ Total(f) \in Nat
           /\ Total([f EXCEPT ![s] = d]) = Total(f) - f[s] + d
<1> DEFINE g == [f EXCEPT ![s] = d]
           R == Sweeps \ {s}
<1>1. g \in [Sweeps -> Nat] /\ g[s] = d
  OBVIOUS
<1>2. Units(g, R) = Units(f, R)
  <2>1. \A t \in R : g[t] = f[t]
    OBVIOUS
  <2> HIDE DEF g
  <2> QED
    BY <2>1 DEF Units
<1>3. IsFiniteSet(Units(f, R)) /\ IsFiniteSet(Units(g, R)) /\ Cardinality(Units(f, R)) \in Nat
  BY <1>1, <1>2, UnitsFinite, FS_CardinalityType
<1>4. Total(f) = f[s] + Cardinality(Units(f, R))
  BY <1>3, UnitsCount DEF Total
<1>5. Total(g) = d + Cardinality(Units(g, R))
  <2> HIDE DEF g
  <2> QED
    BY <1>1, <1>3, UnitsCount DEF Total
<1> HIDE DEF g, R
<1> QED
  BY <1>1, <1>2, <1>3, <1>4, <1>5 DEF g

(* Smaller entries, smaller total.                                         *)
LEMMA TotalMono ==
    ASSUME NEW f \in [Sweeps -> Nat], NEW g \in [Sweeps -> Nat],
           \A s \in Sweeps : f[s] <= g[s]
    PROVE  Total(f) <= Total(g) /\ Total(f) \in Nat /\ Total(g) \in Nat
<1>1. Units(f, Sweeps) \in SUBSET Units(g, Sweeps)
  BY DEF Units
<1>2. IsFiniteSet(Units(g, Sweeps)) /\ IsFiniteSet(Units(f, Sweeps))
  BY UnitsFinite
<1> QED
  BY <1>1, <1>2, FS_Subset, FS_CardinalityType DEF Total

(* Nothing adds up to nothing.                                             *)
LEMMA TotalZero == Total([s \in Sweeps |-> 0]) = 0
<1>1. Units([s \in Sweeps |-> 0], Sweeps) = {}
  BY DEF Units
<1> QED
  BY <1>1, FS_EmptySet DEF Total

(* The sum the model takes is the number of units.                         *)
LEMMA SumIsCount ==
    ASSUME NEW f \in [Sweeps -> Nat], NEW S \in SUBSET Sweeps
    PROVE  SumFunctionOnSet(f, S) = Cardinality(Units(f, S))
<1> DEFINE Body(h) == [T \in SUBSET S |-> IF T = {} THEN 0
                       ELSE LET x == CHOOSE x \in T : TRUE IN f[x] + h[T \ {x}]]
           iter == CHOOSE h : h = Body(h)
           g == [T \in SUBSET S |-> Cardinality(Units(f, T))]
<1>1. SumFunctionOnSet(f, S) = iter[S]
  BY Zenon DEF SumFunctionOnSet, FoldFunctionOnSet, MapThenFoldSet
<1>2. g = Body(g)
  <2>1. ASSUME NEW T \in SUBSET S PROVE g[T] = Body(g)[T]
    <3>1. CASE T = {}
      BY <3>1, FS_EmptySet DEF Units
    <3>2. CASE T # {}
      <4> DEFINE x == CHOOSE x \in T : TRUE
      <4>1. x \in T
        BY <3>2
      <4>2. Cardinality(Units(f, T)) = f[x] + Cardinality(Units(f, T \ {x}))
        <5> HIDE DEF x
        <5>1. T \in SUBSET Sweeps /\ T \ {x} \in SUBSET Sweeps
          OBVIOUS
        <5>2. IsFiniteSet(Units(f, T \ {x}))
          BY <5>1, UnitsFinite
        <5> QED
          BY <4>1, <5>1, <5>2, UnitsCount
      <4>3. Body(g)[T] = f[x] + g[T \ {x}]
        BY <3>2
      <4> QED
        BY <4>2, <4>3
    <3> QED
      BY <3>1, <3>2
  <2> QED
    BY <2>1
<1>3. iter = Body(iter)
  <2> HIDE DEF Body, g
  <2> QED
    BY <1>2
<1>4. iter[S] = g[S]
  <2> DEFINE W == {T \in SUBSET S : iter[T] # g[T]}
  <2>1. SUFFICES ASSUME W # {} PROVE FALSE
    BY Zenon
  <2>2. PICK T \in W : \A U \in W : ~(U \subseteq T /\ U # T)
    <3>1. W \in SUBSET (SUBSET S)
      OBVIOUS
    <3>2. IsFiniteSet(S)
      BY TreasuryAssumption, FS_Subset
    <3> HIDE DEF W
    <3> QED
      BY <2>1, <3>1, <3>2, SubsetMin
  <2> DEFINE x == CHOOSE x \in T : TRUE
  <2> HIDE DEF iter, g
  <2>3. T # {}
    BY <1>2, <1>3, <2>2
  <2>4. x \in T
    BY <2>3
  <2>5. iter[T \ {x}] = g[T \ {x}]
    BY <2>2, <2>4
  <2>6. iter[T] = Body(iter)[T] /\ g[T] = Body(g)[T]
    BY <1>2, <1>3, Zenon
  <2>7. Body(iter)[T] = f[x] + iter[T \ {x}] /\ Body(g)[T] = f[x] + g[T \ {x}]
    BY <2>3
  <2> QED
    BY <2>2, <2>5, <2>6, <2>7
<1> QED
  BY <1>1, <1>4

(* What some sweeps account for, and what the others do.                   *)
LEMMA TotalSplits ==
    ASSUME NEW f \in [Sweeps -> Nat], NEW S \in SUBSET Sweeps
    PROVE  /\ Total(f) = SumFunctionOnSet(f, S) + Cardinality(Units(f, Sweeps \ S))
           /\ SumFunctionOnSet(f, S) \in Nat /\ Cardinality(Units(f, Sweeps \ S)) \in Nat
<1> DEFINE X == Units(f, S)
           Y == Units(f, Sweeps \ S)
<1>1. IsFiniteSet(X) /\ IsFiniteSet(Y)
  BY UnitsFinite
<1>2. Units(f, Sweeps) = X \cup Y
  BY DEF Units
<1>3. X \cap Y = {}
  BY DEF Units
<1>4. Cardinality(X \cap Y) = 0
  BY <1>3, FS_EmptySet
<1>5. Cardinality(X) \in Nat /\ Cardinality(Y) \in Nat
  BY <1>1, FS_CardinalityType
<1>6. SumFunctionOnSet(f, S) = Cardinality(X)
  BY SumIsCount
<1> HIDE DEF X, Y
<1>7. Cardinality(X \cup Y) = Cardinality(X) + Cardinality(Y) - Cardinality(X \cap Y)
  BY <1>1, FS_Union
<1> QED
  BY <1>2, <1>4, <1>5, <1>6, <1>7 DEF Total, Y

(* Entries that are smaller on a set, a smaller part of the total.         *)
LEMMA PartMono ==
    ASSUME NEW f \in [Sweeps -> Nat], NEW g \in [Sweeps -> Nat], NEW S \in SUBSET Sweeps,
           \A s \in S : f[s] <= g[s]
    PROVE  Cardinality(Units(f, S)) <= Total(g)
<1>1. Units(f, S) \in SUBSET Units(g, Sweeps)
  BY DEF Units
<1>2. IsFiniteSet(Units(g, Sweeps)) /\ IsFiniteSet(Units(f, S))
  BY UnitsFinite
<1> QED
  BY <1>1, <1>2, FS_Subset DEF Total

(* The counted caps as a function, and of them what may still be taken:    *)
(* by a row that is open or fenced, or by a payment of one not given up.   *)
CapFn == [s \in Sweeps |-> CapOf(s)]
DueOf(s) == IF s \notin raced /\ (sweep[s].status = "PENDING" \/ sweep[s].fenced \/ Live(s))
            THEN sweep[s].cap ELSE 0
DueFn == [s \in Sweeps |-> DueOf(s)]

(* Counted caps and dues are natural numbers, and no due exceeds its cap.  *)
LEMMA CapFnType ==
    TreasuryTypeOK => CapFn \in [Sweeps -> Nat] /\ DueFn \in [Sweeps -> Nat]
BY DEF TreasuryTypeOK, CapFn, CapOf, DueFn, DueOf

(* What is due is counted.                                                 *)
LEMMA DueIsCounted ==
    ASSUME TInv PROVE \A s \in Sweeps : DueFn[s] <= CapFn[s]
BY DEF TInv, TreasuryTypeOK, CapHeld, DueFn, DueOf, CapFn, CapOf, CapCounts

-----------------------------------------------------------------------------
(* The books against the wallet.  HeldStates are the receipts whose credit *)
(* is still in the wallet, KeptStates those that no refund can claim.      *)
HeldStates == {"atrisk", "kept", "reheld", "owed"}
KeptStates == {"kept", "reheld"}

WalletExact ==
    wallet >= 0 /\ wallet = Credit * Cardinality(In(HeldStates)) - Total(debit)
DuesCovered == Total(DueFn) <= Credit * Cardinality(In(KeptStates))
NoDebitUnpaid == \A s \in Sweeps : ~Live(s) => debit[s] = 0

MInv == WalletExact /\ DuesCovered /\ NoDebitUnpaid

(* Moving one receipt changes each count by at most that receipt.          *)
LEMMA CountMove ==
    ASSUME TreasuryTypeOK, NEW S, NEW r \in Receipts, NEW to,
           rcpt' = [rcpt EXCEPT ![r] = to]
    PROVE  /\ Cardinality(In(S)) \in Nat
           /\ Cardinality(In(S)') = Cardinality(In(S)) + (IF to \in S THEN 1 ELSE 0)
                                                      - (IF rcpt[r] \in S THEN 1 ELSE 0)
<1> DEFINE R == In(S) \ {r}
<1>1. IsFiniteSet(In(S)) /\ IsFiniteSet(R) /\ Cardinality(In(S)) \in Nat
  <2>1. In(S) \in SUBSET Receipts /\ R \in SUBSET Receipts
    BY DEF In
  <2> QED
    BY <2>1, TreasuryAssumption, FS_Subset, FS_CardinalityType
<1>2. Cardinality(R) = Cardinality(In(S)) - (IF rcpt[r] \in S THEN 1 ELSE 0)
  <2>1. r \in In(S) <=> rcpt[r] \in S
    BY DEF In
  <2>2. Cardinality(R) = IF r \in In(S) THEN Cardinality(In(S)) - 1 ELSE Cardinality(In(S))
    BY <1>1, FS_RemoveElement
  <2> QED
    BY <1>1, <2>1, <2>2
<1>3. In(S)' = IF to \in S THEN R \cup {r} ELSE R
  BY DEF In, TreasuryTypeOK
<1>4. Cardinality(R \cup {r}) = Cardinality(R) + 1
  BY <1>1, FS_AddElement
<1> HIDE DEF R
<1> QED
  BY <1>1, <1>2, <1>3, <1>4

(* Counts and totals are natural numbers.                                  *)
LEMMA MoneyTypes ==
    ASSUME TreasuryTypeOK
    PROVE  /\ Credit \in Nat
           /\ CapFn \in [Sweeps -> Nat] /\ DueFn \in [Sweeps -> Nat] /\ debit \in [Sweeps -> Nat]
           /\ Cardinality(In(HeldStates)) \in Nat /\ Cardinality(In(KeptStates)) \in Nat
           /\ Total(CapFn) \in Nat /\ Total(DueFn) \in Nat /\ Total(debit) \in Nat
<1>1. In(HeldStates) \in SUBSET Receipts /\ In(KeptStates) \in SUBSET Receipts
  BY DEF In
<1>2. CapFn \in [Sweeps -> Nat] /\ DueFn \in [Sweeps -> Nat] /\ debit \in [Sweeps -> Nat]
  BY CapFnType DEF TreasuryTypeOK
<1>3. Total(CapFn) \in Nat /\ Total(DueFn) \in Nat /\ Total(debit) \in Nat
  BY <1>2, TotalMono
<1> QED
  BY <1>1, <1>2, <1>3, TreasuryAssumption, FS_Subset, FS_CardinalityType

(* Steps that move no receipt and make nothing more due.                   *)
LEMMA DuesShrink ==
    ASSUME TInv, TInv', MInv, UNCHANGED rcpt, \A s \in Sweeps : DueOf(s)' <= DueOf(s)
    PROVE  DuesCovered' /\ In(HeldStates)' = In(HeldStates)
<1>1. In(HeldStates)' = In(HeldStates) /\ In(KeptStates)' = In(KeptStates)
  BY DEF In
<1>2. DueFn \in [Sweeps -> Nat] /\ DueFn' \in [Sweeps -> Nat]
  BY DEF TInv, TreasuryTypeOK, DueFn, DueOf
<1>3. \A s \in Sweeps : DueFn'[s] <= DueFn[s]
  BY DEF DueFn
<1>4. Total(DueFn') <= Total(DueFn) /\ Total(DueFn') \in Nat /\ Total(DueFn) \in Nat
  BY <1>2, <1>3, TotalMono
<1>5. Credit * Cardinality(In(KeptStates)) \in Nat
  BY MoneyTypes DEF TInv
<1> QED
  BY <1>1, <1>4, <1>5 DEF MInv, DuesCovered

(* Steps that leave the payments and the wallet alone as well.             *)
LEMMA MInvRows ==
    ASSUME TInv, TInv', MInv, UNCHANGED <<rcpt, net, debit, wallet>>,
           \A s \in Sweeps : DueOf(s)' <= DueOf(s)
    PROVE  MInv'
<1>1. DuesCovered' /\ In(HeldStates)' = In(HeldStates)
  BY DuesShrink
<1>2. NoDebitUnpaid'
  BY DEF MInv, NoDebitUnpaid, Live
<1> QED
  BY <1>1, <1>2 DEF MInv, WalletExact

(* Fresh books are empty; an import's one receipt covers its one cap.      *)
LEMMA MInvInit == Init => MInv
<1> SUFFICES ASSUME Init PROVE MInv
  OBVIOUS
<1> DEFINE zero == [s \in Sweeps |-> 0]
<1>0. raced = {}
  BY DEF Init
<1>1. Total(zero) = 0 /\ zero \in [Sweeps -> Nat]
  BY TotalZero
<1>2. CASE FreshBooks
  <2>1. In(HeldStates) = {} /\ In(KeptStates) = {}
    BY <1>2 DEF FreshBooks, In, HeldStates, KeptStates
  <2>2. DueFn = zero /\ debit = zero /\ wallet = 0
    BY <1>2 DEF FreshBooks, DueFn, DueOf, Live, NoRow
  <2> QED
    BY <1>1, <2>1, <2>2, FS_EmptySet, TreasuryAssumption
       DEF MInv, WalletExact, DuesCovered, NoDebitUnpaid
<1>3. CASE LegacyImport
  <2>1. PICK s \in Sweeps, r \in Receipts, c \in Caps, st \in {"PENDING", "FAILED"},
             n \in {"none", "inflight", "paid"} :
        /\ c <= Credit
        /\ sweep = [x \in Sweeps |-> IF x = s
              THEN [status |-> st, cap |-> c, fenced |-> TRUE, expired |-> FALSE]
              ELSE NoRow]
        /\ rcpt = [x \in Receipts |-> IF x = r THEN "kept" ELSE "none"]
        /\ net = [x \in Sweeps |-> IF x = s THEN n ELSE "none"]
        /\ debit = [x \in Sweeps |-> IF x = s /\ n # "none" THEN c ELSE 0]
        /\ wallet = Credit - (IF n # "none" THEN c ELSE 0)
    BY <1>3 DEF LegacyImport
  <2> DEFINE d == IF n # "none" THEN c ELSE 0
  <2>2. c \in Nat /\ d \in Nat /\ d <= c /\ Credit \in Nat
    BY TreasuryAssumption
  <2>3. In(HeldStates) = {r} /\ In(KeptStates) = {r}
    BY <2>1 DEF In, HeldStates, KeptStates
  <2>4. Cardinality({r}) = 1
    BY FS_Singleton
  <2>5. DueFn = [zero EXCEPT ![s] = c] /\ debit = [zero EXCEPT ![s] = d]
    BY <1>0, <2>1 DEF DueFn, DueOf, Live, NoRow
  <2>6. zero[s] = 0
    OBVIOUS
  <2> HIDE DEF zero, d
  <2>7. Total(DueFn) = c /\ Total(debit) = d
    <3>1. \A x \in Nat : Total([zero EXCEPT ![s] = x]) = Total(zero) - zero[s] + x
      BY <1>1, TotalUpdate
    <3>2. Total([zero EXCEPT ![s] = c]) = 0 - 0 + c /\ Total([zero EXCEPT ![s] = d]) = 0 - 0 + d
      BY <1>1, <2>2, <2>6, <3>1
    <3> QED
      BY <2>2, <2>5, <3>2
  <2>8. NoDebitUnpaid
    BY <2>1 DEF NoDebitUnpaid, Live
  <2> QED
    BY <2>1, <2>2, <2>3, <2>4, <2>7, <2>8 DEF MInv, WalletExact, DuesCovered, d
<1> QED
  BY <1>2, <1>3 DEF Init

(* The gate: what it lets through, kept receipts cover.                    *)
LEMMA GateCovers ==
    ASSUME TreasuryTypeOK, NEW c \in Nat \ {0}, QuoteAllows(c)
    PROVE  Total(CapFn) + c <= Credit * Cardinality(In(KeptStates))
<1> DEFINE A == Cardinality(Receipts \ In({"none"}))
           L == In({"owed", "paying", "atrisk", "reheld"})
           P == In({"refunded"})
           K == In(KeptStates)
           D == Total(CapFn)
<1>1. \A S : In(S) \in SUBSET Receipts
  BY DEF In
<1>2. IsFiniteSet(L) /\ IsFiniteSet(P) /\ IsFiniteSet(K) /\ IsFiniteSet(Receipts \ In({"none"}))
  <2>1. Receipts \ In({"none"}) \in SUBSET Receipts
    OBVIOUS
  <2> QED
    BY <1>1, <2>1, TreasuryAssumption, FS_Subset
<1>3. Cardinality(L) \in Nat /\ Cardinality(P) \in Nat /\ Cardinality(K) \in Nat /\ A \in Nat
  BY <1>2, FS_CardinalityType
<1>4. A <= Cardinality(K) + Cardinality(L) + Cardinality(P)
  <2>1. Receipts \ In({"none"}) \in SUBSET ((K \cup L) \cup P)
    BY DEF In, KeptStates, TreasuryTypeOK
  <2>2. /\ IsFiniteSet(K \cup L) /\ Cardinality(K \cap L) \in Nat
        /\ Cardinality(K \cup L) = Cardinality(K) + Cardinality(L) - Cardinality(K \cap L)
    BY <1>2, FS_Union, FS_Intersection, FS_CardinalityType
  <2>3. /\ IsFiniteSet((K \cup L) \cup P) /\ Cardinality((K \cup L) \cap P) \in Nat
        /\ Cardinality((K \cup L) \cup P)
              = Cardinality(K \cup L) + Cardinality(P) - Cardinality((K \cup L) \cap P)
    BY <1>2, <2>2, FS_Union, FS_Intersection, FS_CardinalityType
  <2>4. A <= Cardinality((K \cup L) \cup P)
    BY <2>1, <2>3, FS_Subset
  <2> HIDE DEF K, L, P, A
  <2> QED
    BY <1>3, <2>2, <2>3, <2>4
<1>5. D \in Nat
  BY CapFnType, TotalMono
<1>6. SweepCaps(Sweeps \ {}) = D
  <2>1. Sweeps \ {} = Sweeps
    OBVIOUS
  <2> QED
    <3>1. CapFn \in [Sweeps -> Nat] /\ Sweeps \in SUBSET Sweeps
      BY CapFnType
    <3>2. SumFunctionOnSet(CapFn, Sweeps) = Cardinality(Units(CapFn, Sweeps))
      BY <3>1, SumIsCount
    <3> QED
      BY <2>1, <3>2 DEF SweepCaps, CapFn, Total
<1>7. Credit * A - Gross * Cardinality(L) - (Gross * Cardinality(P) + D) >= c
  <2>1. SatSub(SatSub(Credit * A, Gross * Cardinality(L)), Gross * Cardinality(P) + D) >= c
    <3>1. PaidOut({}) = Gross * Cardinality(P) + D
      BY <1>6 DEF PaidOut
    <3>2. Earned = Credit * A /\ Reserved = Gross * Cardinality(L)
      BY DEF Earned, Reserved
    <3>3. SatSub(SatSub(Earned, Reserved), PaidOut({})) >= c
      BY DEF QuoteAllows, Surplus
    <3> QED
      BY <3>1, <3>2, <3>3
  <2> DEFINE e == Credit * A
             l == Gross * Cardinality(L)
             p == Gross * Cardinality(P)
  <2>2. e \in Nat /\ l \in Nat /\ p \in Nat
    BY <1>3, TreasuryAssumption
  <2>3. SatSub(SatSub(e, l), p + D) >= c
    BY <2>1
  <2> HIDE DEF e, l, p, D
  <2>4. e - l - (p + D) >= c
    BY <2>2, <2>3, <1>5 DEF SatSub
  <2> QED
    BY <2>4 DEF e, l, p
<1> DEFINE a == A
           k == Cardinality(K)
           l == Cardinality(L)
           p == Cardinality(P)
<1>8. /\ a \in Nat /\ k \in Nat /\ l \in Nat /\ p \in Nat /\ a <= k + l + p
      /\ Credit * a - Gross * l - (Gross * p + D) >= c
  BY <1>3, <1>4, <1>7
<1> HIDE DEF A, K, L, P, D, a, k, l, p
<1>9. Credit \in Nat /\ Gross \in Nat /\ Credit <= Gross
  BY TreasuryAssumption
<1>10. Credit * a <= Credit * (k + l + p)
  BY <1>8, <1>9
<1>11. Credit * (k + l + p) = Credit * k + Credit * l + Credit * p
  BY <1>8, <1>9
<1>12. Credit * l <= Gross * l /\ Credit * p <= Gross * p
  BY <1>8, <1>9
<1>13. D + c <= Credit * k
  <2> DEFINE ca == Credit * a
             ck == Credit * k
             cl == Credit * l
             cp == Credit * p
             gl == Gross * l
             gp == Gross * p
  <2>1. ca \in Int /\ ck \in Int /\ cl \in Int /\ cp \in Int /\ gl \in Int /\ gp \in Int
    BY <1>8, <1>9
  <2>2. ca <= ck + cl + cp /\ cl <= gl /\ cp <= gp /\ ca - gl - (gp + D) >= c
    BY <1>8, <1>10, <1>11, <1>12
  <2> HIDE DEF ca, ck, cl, cp, gl, gp
  <2>3. D + c <= ck
    BY <1>5, <2>1, <2>2
  <2> QED
    BY <2>3 DEF ck
<1> QED
  BY <1>13 DEF D, k, K

(* A receipt moves at its credit.                                          *)
LEMMA BooksMoney == ASSUME TInv, TInv', MInv, Books PROVE MInv'
<1>0. TreasuryTypeOK /\ Credit \in Nat /\ Total(debit) \in Nat /\ wallet \in Int
      /\ Cardinality(In(HeldStates)) \in Nat /\ Cardinality(In(KeptStates)) \in Nat
      /\ Total(DueFn) \in Nat
  BY MoneyTypes DEF TInv, TreasuryTypeOK
<1>1. PICK r \in Receipts : Capture(r) \/ Activate(r) \/ FailToRefund(r) \/ ResumeAgain(r)
           \/ Resumed(r) \/ RefundStart(r) \/ RefundReturn(r) \/ RefundRecorded(r)
  BY DEF Books
<1>2. PICK to \in {"atrisk", "kept", "reheld", "owed", "paying", "refunded"}, d \in Int :
           /\ rcpt' = [rcpt EXCEPT ![r] = to] /\ wallet' = wallet + d
           /\ rcpt[r] \in KeptStates => to \in KeptStates
           /\ d = Credit * ((IF to \in HeldStates THEN 1 ELSE 0)
                              - (IF rcpt[r] \in HeldStates THEN 1 ELSE 0))
           /\ wallet' >= 0
           /\ UNCHANGED <<sweep, net, debit, raced>>
  <2>1. wallet >= 0
    BY DEF MInv, WalletExact
  <2> QED
    BY <1>0, <1>1, <2>1 DEF MoveReceipt, Capture, Activate, FailToRefund, ResumeAgain, Resumed,
          RefundStart, RefundReturn, RefundRecorded, KeptStates, HeldStates, payVars, history
<1>3. \A S : Cardinality(In(S)') = Cardinality(In(S)) + (IF to \in S THEN 1 ELSE 0)
                                                    - (IF rcpt[r] \in S THEN 1 ELSE 0)
  BY <1>0, <1>2, CountMove
<1>4. DueFn' = DueFn /\ NoDebitUnpaid'
  BY <1>2 DEF DueFn, DueOf, MInv, NoDebitUnpaid, Live
<1>5. DuesCovered'
  <2> DEFINE k == Cardinality(In(KeptStates))
             m == Cardinality(In(KeptStates)')
  <2>1. k \in Nat /\ m \in Nat /\ k <= m
    BY <1>0, <1>2, <1>3
  <2>2. Total(DueFn) <= Credit * k
    BY DEF MInv, DuesCovered
  <2> HIDE DEF k, m
  <2>3. Credit * k <= Credit * m /\ Credit * k \in Nat /\ Credit * m \in Nat
    BY <1>0, <2>1
  <2>4. Total(DueFn) <= Credit * m
    BY <1>0, <2>2, <2>3
  <2> QED
    BY <1>4, <2>4 DEF DuesCovered, m
<1>6. WalletExact'
  <2> DEFINE h == Cardinality(In(HeldStates))
             i == (IF to \in HeldStates THEN 1 ELSE 0)
                    - (IF rcpt[r] \in HeldStates THEN 1 ELSE 0)
  <2>1. Cardinality(In(HeldStates)') = h + i /\ i \in Int /\ h \in Nat
    BY <1>0, <1>3
  <2>2. wallet = Credit * h - Total(debit) /\ wallet' = wallet + Credit * i /\ wallet' >= 0
    BY <1>2 DEF MInv, WalletExact
  <2> HIDE DEF h, i
  <2>3. Credit * (h + i) = Credit * h + Credit * i /\ Credit * h \in Int /\ Credit * i \in Int
    BY <1>0, <2>1
  <2>4. wallet' = Credit * (h + i) - Total(debit)
    BY <1>0, <2>2, <2>3
  <2> QED
    BY <1>2, <2>1, <2>2, <2>4 DEF WalletExact
<1> QED
  BY <1>4, <1>5, <1>6 DEF MInv

(* A cap is only counted anew by the gate, which leaves out none.          *)
LEMMA ExecuteMoney ==
    ASSUME TInv, TInv', MInv, NEW m \in Commands, NEW s \in Sweeps, NEW c \in Caps,
           Execute(m, s, c)
    PROVE  MInv'
<1> DEFINE x == IF s \in raced THEN 0 ELSE c
<1>1. /\ ~sweep[s].fenced /\ sweep[s].status \notin {"SENT", "PENDING"} /\ QuoteAllows(c)
      /\ sweep' = [sweep EXCEPT ![s].status = "PENDING", ![s].cap = c]
      /\ UNCHANGED <<rcpt, net, debit, wallet, raced>>
  BY DEF Execute, GateRefuses, history
<1>2. c \in Nat \ {0} /\ x \in Nat /\ x <= c
  BY TreasuryAssumption
<1>3. TreasuryTypeOK /\ TreasuryTypeOK'
  BY DEF TInv
<1>4. Total(CapFn) + c <= Credit * Cardinality(In(KeptStates))
  BY <1>1, <1>2, <1>3, GateCovers
<1>5. Total(DueFn) <= Total(CapFn) /\ Total(DueFn) \in Nat /\ Total(CapFn) \in Nat
  BY <1>3, CapFnType, DueIsCounted, TotalMono
<1>6. s \in raced \/ ~Live(s)
  BY <1>1 DEF TInv, CapHeld, CapCounts
<1>7. DueFn[s] = 0
  BY <1>1, <1>6 DEF DueFn, DueOf
<1>8. DueFn' = [DueFn EXCEPT ![s] = x]
  <2>1. \A t \in Sweeps : DueOf(t)' = IF t = s THEN x ELSE DueOf(t)
    BY <1>1, <1>3 DEF DueOf, Live, TreasuryTypeOK
  <2> QED
    BY <2>1 DEF DueFn
<1> HIDE DEF x
<1>9. Total(DueFn') = Total(DueFn) - 0 + x
  BY <1>2, <1>3, <1>7, <1>8, CapFnType, TotalUpdate
<1>10. In(HeldStates)' = In(HeldStates) /\ In(KeptStates)' = In(KeptStates)
  BY <1>1 DEF In
<1>11. Credit * Cardinality(In(KeptStates)) \in Int
  BY <1>3, MoneyTypes
<1>12. DuesCovered'
  BY <1>2, <1>4, <1>5, <1>9, <1>10, <1>11 DEF DuesCovered
<1>13. WalletExact' /\ NoDebitUnpaid'
  BY <1>1, <1>10 DEF MInv, WalletExact, NoDebitUnpaid, Live
<1> QED
  BY <1>12, <1>13 DEF MInv

(* A payment moves at its debit, and is due before it starts.              *)
LEMMA StartMoney ==
    ASSUME TInv, TInv', MInv, NEW a \in Actors, PayStart(a) PROVE MInv'
<1> DEFINE s == Held(a)
<1>0. /\ TreasuryTypeOK /\ s \in Sweeps /\ debit \in [Sweeps -> Nat] /\ wallet \in Int
      /\ Total(debit) \in Nat /\ Credit * Cardinality(In(HeldStates)) \in Int
      /\ payer[a].cap \in Nat /\ payer[a].cap > 0 /\ net[s] = "none"
      /\ UNCHANGED <<rcpt, sweep, owner>>
  <2>1. Total(debit) \in Nat /\ Credit * Cardinality(In(HeldStates)) \in Int
    BY MoneyTypes DEF TInv
  <2> QED
    BY <2>1 DEF PayStart, Startable, TInv, TreasuryTypeOK, ActorsKnow, Held, At
<1>1. CASE /\ owner[s] = "none" /\ ~sweep[s].expired
           /\ \E d \in Debits(a) : /\ wallet >= d /\ wallet' = wallet - d
                                   /\ debit' = [debit EXCEPT ![s] = d]
           /\ net' = [net EXCEPT ![s] = "inflight"] /\ pay' = [pay EXCEPT ![s] = "PREPARED"]
           /\ raced' = IF Overtaken(a) THEN raced \cup {s} ELSE raced
           /\ Go(a, "await")
  <2>1. PICK d \in Debits(a) : wallet >= d /\ wallet' = wallet - d
                               /\ debit' = [debit EXCEPT ![s] = d]
    BY <1>1
  <2>2. d \in Nat
    BY <1>0 DEF Debits
  <2>3. debit[s] = 0
    BY <1>0 DEF MInv, NoDebitUnpaid, Live
  <2>4. Total(debit') = Total(debit) - 0 + d
    BY <1>0, <2>1, <2>2, <2>3, TotalUpdate
  <2>5. s \in raced' \/ sweep[s].status = "PENDING"
    <3>1. sweep[s].status # "SENT"
      BY <1>0, <1>1 DEF TInv, CapHeld
    <3>2. sweep[s].status # "none"
      <4>1. payer[a].pc = "pay"
        BY DEF PayStart, At
      <4> QED
        BY <4>1 DEF TInv, ActorsKnow, At, Held
    <3>3. sweep[s].status = "FAILED" => s \in raced'
      BY <1>1 DEF Overtaken
    <3> QED
      BY <1>0, <3>1, <3>2, <3>3 DEF TreasuryTypeOK
  <2>6. \A t \in Sweeps : DueOf(t)' <= DueOf(t)
    <3> SUFFICES ASSUME NEW t \in Sweeps PROVE DueOf(t)' <= DueOf(t)
      OBVIOUS
    <3>1. sweep[t].cap \in Nat /\ raced \in SUBSET raced'
      BY <1>0, <1>1 DEF TreasuryTypeOK
    <3>2. CASE t = s
      BY <1>0, <2>5, <3>1, <3>2 DEF DueOf
    <3>3. CASE t # s
      <4>1. net'[t] = net[t]
        BY <1>0, <1>1, <3>3 DEF TreasuryTypeOK
      <4> QED
        BY <1>0, <3>1, <4>1 DEF DueOf, Live
    <3> QED
      BY <3>2, <3>3
  <2>7. DuesCovered' /\ In(HeldStates)' = In(HeldStates)
    BY <1>0, <2>6, DuesShrink
  <2>8. NoDebitUnpaid'
    BY <1>0, <1>1, <2>1 DEF MInv, NoDebitUnpaid, Live, TreasuryTypeOK
  <2>9. WalletExact'
    BY <1>0, <2>1, <2>2, <2>4, <2>7 DEF MInv, WalletExact
  <2> QED
    BY <2>7, <2>8, <2>9 DEF MInv
<1>2. CASE UNCHANGED <<net, debit, wallet, raced>>
  <2>1. \A t \in Sweeps : DueOf(t)' = DueOf(t) /\ DueOf(t) \in Nat
    BY <1>0, <1>2 DEF DueOf, Live, TreasuryTypeOK
  <2>2. \A t \in Sweeps : DueOf(t)' <= DueOf(t)
    BY <2>1
  <2> QED
    BY <1>0, <1>2, <2>2, MInvRows
<1> QED
  BY <1>1, <1>2 DEF PayStart

(* A payment that comes back brings its debit.                             *)
LEMMA ResolveMoney ==
    ASSUME TInv, TInv', MInv, NEW s \in Sweeps, Resolve(s) PROVE MInv'
<1>0. /\ TreasuryTypeOK /\ debit \in [Sweeps -> Nat] /\ wallet \in Int
      /\ Total(debit) \in Nat /\ Credit * Cardinality(In(HeldStates)) \in Int
      /\ net[s] = "inflight" /\ UNCHANGED <<rcpt, sweep, raced>>
  <2>1. Total(debit) \in Nat /\ Credit * Cardinality(In(HeldStates)) \in Int
    BY MoneyTypes DEF TInv
  <2> QED
    BY <2>1 DEF Resolve, TInv, TreasuryTypeOK, history
<1>1. \A t \in Sweeps : DueOf(t)' <= DueOf(t)
  <2>1. \A t \in Sweeps : Live(t)' => Live(t)
    BY <1>0 DEF Resolve, Live, TreasuryTypeOK
  <2> QED
    BY <1>0, <2>1 DEF DueOf, TreasuryTypeOK
<1>2. DuesCovered' /\ In(HeldStates)' = In(HeldStates)
  BY <1>0, <1>1, DuesShrink
<1>3. CASE net' = [net EXCEPT ![s] = "paid"] /\ UNCHANGED <<debit, wallet>>
  <2>1. NoDebitUnpaid'
    BY <1>0, <1>3 DEF MInv, NoDebitUnpaid, Live, TreasuryTypeOK
  <2> QED
    BY <1>2, <1>3, <2>1 DEF MInv, WalletExact
<1>4. CASE /\ net' = [net EXCEPT ![s] = "returned"]
           /\ wallet' = wallet + debit[s] /\ debit' = [debit EXCEPT ![s] = 0]
  <2>1. Total(debit') = Total(debit) - debit[s] + 0 /\ debit[s] \in Nat
    BY <1>0, <1>4, TotalUpdate
  <2>2. NoDebitUnpaid'
    BY <1>0, <1>4 DEF MInv, NoDebitUnpaid, Live, TreasuryTypeOK
  <2>3. WalletExact'
    BY <1>0, <1>2, <1>4, <2>1 DEF MInv, WalletExact
  <2> QED
    BY <1>2, <2>2, <2>3 DEF MInv
<1> QED
  BY <1>3, <1>4 DEF Resolve

(* Every step preserves the exact wallet and the cover of the dues.        *)
LEMMA MInvStep == ASSUME TInv, TInv', MInv, [Next]_vars PROVE MInv'
<1>0. TreasuryTypeOK
  BY DEF TInv
<1>1. ASSUME NEW a \in Actors, CommitSent(a) \/ CommitFailed(a) PROVE MInv'
  <2>1. \A t \in Sweeps :
           /\ sweep'[t].cap = sweep[t].cap /\ sweep'[t].fenced = sweep[t].fenced
           /\ sweep'[t].status = "PENDING" => sweep[t].status = "PENDING"
    <3>1. \/ sweep' = sweep \/ sweep' = [sweep EXCEPT ![Held(a)].status = "SENT"]
          \/ sweep' = [sweep EXCEPT ![Held(a)].status = "FAILED"]
      BY <1>1 DEF CommitSent, CommitFailed
    <3> QED
      BY <1>0, <3>1 DEF TreasuryTypeOK
  <2>2. UNCHANGED <<rcpt, net, debit, wallet, raced>> /\ \A t \in Sweeps : sweep[t].cap \in Nat
    BY <1>0, <1>1 DEF CommitSent, CommitFailed, TreasuryTypeOK, payVars, history
  <2>3. \A t \in Sweeps : DueOf(t)' <= DueOf(t)
    BY <2>1, <2>2 DEF DueOf, Live
  <2> QED
    BY <2>2, <2>3, MInvRows
<1>2. ASSUME NEW s \in Sweeps, Expire(s) \/ ClearFence(s) PROVE MInv'
  <2>1. \A t \in Sweeps :
           /\ sweep'[t].cap = sweep[t].cap /\ sweep'[t].status = sweep[t].status
           /\ sweep'[t].fenced => sweep[t].fenced
    BY <1>0, <1>2 DEF Expire, ClearFence, TreasuryTypeOK
  <2>2. UNCHANGED <<rcpt, net, debit, wallet, raced>> /\ \A t \in Sweeps : sweep[t].cap \in Nat
    BY <1>0, <1>2 DEF Expire, ClearFence, TreasuryTypeOK, payVars, history
  <2>3. \A t \in Sweeps : DueOf(t)' <= DueOf(t)
    BY <2>1, <2>2 DEF DueOf, Live
  <2> QED
    BY <2>2, <2>3, MInvRows
<1>3. CASE \/ DriveStep \/ Crash \/ UNCHANGED vars
           \/ \E a \in Actors : PayKnown(a) \/ PayAwait(a) \/ StatusAfterError(a)
           \/ \E s \in Sweeps : OwnerPays(s) \/ CollisionEnds(s)
  <2>1. UNCHANGED <<rcpt, sweep, net, debit, wallet, raced>>
    BY <1>3 DEF DriveStep, DriveLoad, DriveStatus, ResolveOrPark, AuthoriseSend, Crash,
                vars, PayKnown, PayAwait, StatusAfterError, OwnerPays, CollisionEnds,
                payVars, history
  <2>2. \A t \in Sweeps : DueOf(t)' = DueOf(t) /\ DueOf(t) \in Nat
    BY <1>0, <2>1 DEF DueOf, Live, TreasuryTypeOK
  <2>3. \A t \in Sweeps : DueOf(t)' <= DueOf(t)
    BY <2>2
  <2> QED
    BY <2>1, <2>3, MInvRows
<1> QED
  BY <1>1, <1>2, <1>3, BooksMoney, ExecuteMoney, StartMoney, ResolveMoney DEF Next, PayStep

-----------------------------------------------------------------------------
(* What MInv says at one instant: refunds are covered, the books a floor,  *)
(* each short of what the sweeps took that were sent after being given up. *)
LEMMA MInvSettles == TInv /\ MInv => Solvent /\ BooksAreFloor
<1> SUFFICES ASSUME TInv, MInv PROVE Solvent /\ BooksAreFloor
  OBVIOUS
<1> DEFINE H == In(HeldStates)
           K == In(KeptStates)
           O == In({"atrisk", "owed"})
           G == In({"paying", "refunded"})
           C == Receipts \ In({"none"})
           h == Cardinality(H)
           k == Cardinality(K)
           o == Cardinality(O)
           g == Cardinality(G)
           D == Total(debit)
           E == Total(CapFn)
           late == SumFunctionOnSet(debit, raced)
           F == {s \in raced : debit[s] > CapOf(s)}
           free == SumFunctionOnSet(debit, F)
<1>1. TreasuryTypeOK /\ Credit \in Nat
  BY TreasuryAssumption DEF TInv
<1>2. IsFiniteSet(H) /\ IsFiniteSet(K) /\ IsFiniteSet(O) /\ IsFiniteSet(G)
  <2>1. \A S : In(S) \in SUBSET Receipts
    BY DEF In
  <2> QED
    BY <2>1, TreasuryAssumption, FS_Subset
<1>3. h \in Nat /\ k \in Nat /\ o \in Nat /\ g \in Nat
  BY <1>2, FS_CardinalityType
<1>4. h = k + o
  <2>1. H = K \cup O /\ K \cap O = {}
    BY DEF In, HeldStates, KeptStates
  <2>2. Cardinality(K \cup O) = k + o - Cardinality(K \cap O)
    BY <1>2, FS_Union
  <2>3. Cardinality(K \cap O) = 0
    BY <2>1, FS_EmptySet
  <2> HIDE DEF H, K, O
  <2> QED
    BY <1>3, <2>1, <2>2, <2>3
<1>5. Cardinality(C) = h + g
  <2>1. C = H \cup G /\ H \cap G = {}
    BY <1>1 DEF In, HeldStates, TreasuryTypeOK
  <2>2. Cardinality(H \cup G) = h + g - Cardinality(H \cap G)
    BY <1>2, FS_Union
  <2>3. Cardinality(H \cap G) = 0
    BY <2>1, FS_EmptySet
  <2> HIDE DEF H, G, C
  <2> QED
    BY <1>3, <2>1, <2>2, <2>3
<1>6. /\ D \in Nat /\ E \in Nat /\ late \in Nat /\ free \in Nat
      /\ D - late <= Total(DueFn) /\ Total(DueFn) \in Nat /\ D - free <= E
  <2>1. /\ CapFn \in [Sweeps -> Nat] /\ DueFn \in [Sweeps -> Nat] /\ debit \in [Sweeps -> Nat]
        /\ raced \in SUBSET Sweeps /\ F \in SUBSET Sweeps
    BY <1>1, CapFnType DEF TreasuryTypeOK
  <2>2. \A s \in Sweeps \ raced : debit[s] <= DueFn[s]
    <3> SUFFICES ASSUME NEW s \in Sweeps \ raced PROVE debit[s] <= DueFn[s]
      OBVIOUS
    <3>1. debit[s] \in Nat /\ DueFn[s] \in Nat
      BY <2>1
    <3>2. CASE Live(s)
      BY <3>1, <3>2 DEF TInv, CapHeld, DueFn, DueOf
    <3>3. CASE ~Live(s)
      BY <3>1, <3>3 DEF MInv, NoDebitUnpaid
    <3> QED
      BY <3>2, <3>3
  <2>3. \A s \in Sweeps \ F : debit[s] <= CapFn[s]
    <3> SUFFICES ASSUME NEW s \in Sweeps \ F PROVE debit[s] <= CapFn[s]
      OBVIOUS
    <3>1. debit[s] \in Nat /\ DueFn[s] \in Nat /\ CapFn[s] \in Nat /\ CapFn[s] = CapOf(s)
      BY <2>1 DEF CapFn
    <3>2. CASE s \in raced
      BY <3>1, <3>2
    <3>3. CASE s \notin raced
      BY <2>2, <3>1, <3>3, DueIsCounted
    <3> QED
      BY <3>2, <3>3
  <2> HIDE DEF F
  <2>4. /\ D = late + Cardinality(Units(debit, Sweeps \ raced)) /\ late \in Nat
        /\ Cardinality(Units(debit, Sweeps \ raced)) \in Nat
    BY <2>1, TotalSplits
  <2>5. /\ D = free + Cardinality(Units(debit, Sweeps \ F)) /\ free \in Nat
        /\ Cardinality(Units(debit, Sweeps \ F)) \in Nat
    BY <2>1, TotalSplits
  <2>6. Cardinality(Units(debit, Sweeps \ raced)) <= Total(DueFn)
    <3>1. Sweeps \ raced \in SUBSET Sweeps
      OBVIOUS
    <3> QED
      BY <2>1, <2>2, <3>1, PartMono
  <2>7. Cardinality(Units(debit, Sweeps \ F)) <= Total(CapFn)
    <3>1. Sweeps \ F \in SUBSET Sweeps
      OBVIOUS
    <3> QED
      BY <2>1, <2>3, <3>1, PartMono
  <2>8. Total(DueFn) \in Nat /\ Total(CapFn) \in Nat /\ Total(debit) \in Nat
    BY <1>1, MoneyTypes
  <2> QED
    BY <2>4, <2>5, <2>6, <2>7, <2>8
<1>7. wallet = Credit * h - D /\ Total(DueFn) <= Credit * k /\ wallet >= 0
  BY DEF MInv, WalletExact, DuesCovered
<1>8. LedgerBase = SatSub(Credit * Cardinality(C), E)
  <2>1. SweepCaps(Sweeps) = E
    <3>1. CapFn \in [Sweeps -> Nat] /\ Sweeps \in SUBSET Sweeps
      BY <1>1, CapFnType
    <3>2. SumFunctionOnSet(CapFn, Sweeps) = Cardinality(Units(CapFn, Sweeps))
      BY <3>1, SumIsCount
    <3> QED
      BY <3>2 DEF SweepCaps, CapFn, Total
  <2> QED
    BY <2>1 DEF LedgerBase, Earned
<1>9. Expected = SatSub(LedgerBase, Credit * g)
  <2>1. {r \in RefundRows : Committed(r)} = G
    BY DEF RefundRows, Committed, In
  <2> QED
    BY <2>1 DEF Expected, ExpectedOf
<1>10. /\ Solvent <=> wallet + late >= Credit * o
       /\ BooksAreFloor <=> wallet + free >= Expected
  BY DEF Solvent, BooksAreFloor
<1> HIDE DEF h, k, o, g, D, E, C, late, free, F
<1> DEFINE ch == Credit * h
           ck == Credit * k
           co == Credit * o
           cg == Credit * g
<1>11. /\ ch \in Nat /\ ck \in Nat /\ co \in Nat /\ cg \in Nat
       /\ ch = ck + co /\ Credit * (h + g) = ch + cg
  <2>1. Credit * (k + o) = Credit * k + Credit * o /\ Credit * (h + g) = Credit * h + Credit * g
    BY <1>1, <1>3
  <2> QED
    BY <1>1, <1>3, <1>4, <2>1
<1>12. /\ wallet = ch - D /\ Total(DueFn) <= ck /\ LedgerBase = SatSub(ch + cg, E)
       /\ Expected = SatSub(LedgerBase, cg) /\ (Solvent <=> wallet + late >= co)
  BY <1>5, <1>7, <1>8, <1>9, <1>10, <1>11
<1> HIDE DEF ch, ck, co, cg
<1>13. wallet + late >= co
  BY <1>6, <1>11, <1>12
<1>14. wallet + free >= Expected
  BY <1>6, <1>7, <1>11, <1>12 DEF SatSub
<1> QED
  BY <1>10, <1>12, <1>13, <1>14

(* Both invariants, always.                                                *)
LEMMA MoneyInductive == Spec => [](TInv /\ MInv)
<1>1. TInv /\ MInv /\ [Next]_vars => TInv' /\ MInv'
  BY TInvStep, MInvStep
<1> QED
  BY <1>1, TInvInit, MInvInit, PTL DEF Spec

(* The wallet always covers every receipt at risk and every refund that is *)
(* not yet started, short of what the sweeps took that were sent after     *)
(* being given up (gate_and_write, read_surplus).                          *)
THEOREM AlwaysSolvent == Spec => []Solvent
BY MoneyInductive, MInvSettles, PTL

(* expected_msat is a lower bound of the wallet at every instant, but for  *)
(* the payments whose row does not say so yet.                             *)
THEOREM BooksAlwaysFloor == Spec => []BooksAreFloor
BY MoneyInductive, MInvSettles, PTL
=============================================================================
