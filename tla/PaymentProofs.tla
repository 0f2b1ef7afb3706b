--------------------------- MODULE PaymentProofs ----------------------------
(***************************************************************************)
(* The payment backends and the refund's way out: their inductive          *)
(* invariants, and the theorems of EdgeSpec that rest on them.             *)
(***************************************************************************)
EXTENDS MCEdge, FiniteSetTheorems, TLAPS

-----------------------------------------------------------------------------
(* lnv2, the receive side.                                                 *)

(* The states of an operation, of its row, and what a task may find.       *)
OpStates == {"none", "pending", "claiming", "claimed", "failed", "expired"}
RowStates == {"none", "OPEN", "PAID", "PAID_UNRECOVERED", "CANCELED"}
Found == {"none", "PAID", "PAID_UNRECOVERED", "CANCELED"}
LnTaskRecs == [op : Mints, live : BOOLEAN, watch : Nat, found : Found, at : Int]

(* The types of the receive side of lnv2.                                  *)
LnTypes ==
    /\ lnOp \in [Mints -> [st : OpStates, expires : Int]]
    /\ lnShown \subseteq Mints
    /\ lnRow \in [op : Mints \cup {NoMint}, status : RowStates, expires : Int, settled : Int]
    /\ lnRow.status # "none" => lnRow.op \in Mints
    /\ lnMinted \in Mints \cup {NoMint} /\ lnHook \in Mints \cup {NoMint}
    /\ lnNow \in Int /\ lnWatch \in Nat /\ lnStreams \in Nat
    /\ lnTasks \subseteq LnTaskRecs /\ lnListed \in Mints \cup {NoMint}

(* A shown operation that can still be, or was, paid has the row; the row  *)
(* of an operation is given up only once the federation expired it.        *)
RowFollowsOp ==
    /\ \A o \in lnShown :
          /\ lnOp[o].st # "none"
          /\ lnOp[o].st # "expired" =>
                lnRow.op = o /\ lnRow.status \in {"OPEN", "PAID", "PAID_UNRECOVERED"}
    /\ lnMinted # NoMint => lnOp[lnMinted].st # "none" /\ lnRow.status \in {"none", "CANCELED"}

(* What a task found is what the federation decided.                       *)
FoundIsSo == \A t \in lnTasks : t.found = "CANCELED" => lnOp[t.op].st = "expired"

(* A running daemon has a task for an OPEN row, or is about to spawn it.   *)
OpenIsWatched ==
    lnRow.status = "OPEN" /\ lnWatch # NoMint =>
        \/ lnHook = lnRow.op \/ \E t \in lnTasks : t.op = lnRow.op /\ t.watch = lnWatch
        \/ lnPhase = "list" \/ (lnPhase = "spawn" /\ lnListed = lnRow.op)

(* The inductive invariant of the receive side of lnv2.                    *)
LnInv == LnTypes /\ RowFollowsOp /\ FoundIsSo /\ OpenIsWatched

(* Nothing issued yet.                                                     *)
LEMMA LnInvInit == LnInit => LnInv
<1> SUFFICES ASSUME LnInit PROVE LnInv
  OBVIOUS
<1>1. LnTypes
  BY DEF LnInit, LnTypes, NoLnRow, NoMint, Unstamped, OpStates, RowStates
<1>2. lnRow.status = "none"
  BY DEF LnInit, NoLnRow
<1> QED
  BY <1>1, <1>2 DEF LnInit, LnInv, RowFollowsOp, FoundIsSo, OpenIsWatched

(* What was paid has the row, and an OPEN row its task.                    *)
LEMMA LnInvWatches == LnInv => PaidOpIsWatched
BY DEF LnInv, PaidOpIsWatched, RowFollowsOp, OpenIsWatched, LightningPaid, Closed

(* Every step of issuance, tasks, deciders and federation keeps it.        *)
LEMMA LnInvStep == LnInv /\ [LnNext]_lnVars => LnInv'
<1> SUFFICES ASSUME LnInv, [LnNext]_lnVars PROVE LnInv'
  OBVIOUS
<1> USE DEF LnInv, watchVars
<1>0. /\ LnExpiry \in Nat /\ NoMint \notin Mints /\ NoMint = 0
      /\ lnShown \subseteq Mints
  BY Lnv2ReceiveAssumption DEF NoMint, Mints, LnTypes
<1>1. CASE UNCHANGED <<lnOp, lnShown, lnRow, lnMinted, lnHook, lnTasks, lnWatch, lnStreams, lnPhase, lnListed, lnNow>>
  <2>1. LnTypes'
    BY <1>1 DEF LnTypes
  <2> QED
    BY <1>1, <2>1 DEF RowFollowsOp, FoundIsSo, OpenIsWatched
<1>2. CASE IssueInvoice
  <2>1. PICK o \in Mints :
         /\ lnOp[o].st = "none" /\ lnMinted' = o
         /\ lnOp' = [lnOp EXCEPT ![o] = [st |-> "pending", expires |-> lnNow + LnExpiry]]
    BY <1>2 DEF IssueInvoice
  <2>2. /\ lnRow.status \in {"none", "CANCELED"}
        /\ UNCHANGED <<lnShown, lnRow, lnHook, lnTasks, lnWatch, lnStreams, lnPhase, lnListed, lnNow>>
    BY <1>2 DEF IssueInvoice, lnBooks
  <2>3. /\ lnOp' \in [Mints -> [st : OpStates, expires : Int]] /\ lnOp'[o].st = "pending"
        /\ \A p \in Mints : p # o => lnOp'[p] = lnOp[p]
    BY <1>0, <2>1 DEF LnTypes, OpStates
  <2>4. LnTypes'
    BY <2>1, <2>2, <2>3 DEF LnTypes
  <2>5. RowFollowsOp'
    BY <1>0, <2>1, <2>2, <2>3 DEF RowFollowsOp
  <2>6. FoundIsSo'
    BY <2>1, <2>2, <2>3 DEF FoundIsSo, LnTypes, LnTaskRecs
  <2> QED
    BY <2>2, <2>4, <2>5, <2>6 DEF OpenIsWatched
<1>3. CASE CommitIssued
  <2>1. /\ lnMinted \in Mints /\ lnRow.status \in {"none", "CANCELED"}
        /\ lnOp[lnMinted].st # "none" /\ lnOp[lnMinted].expires \in Int
    BY <1>3 DEF CommitIssued, LnTypes, RowFollowsOp
  <2>2. /\ lnRow' = [op |-> lnMinted, status |-> "OPEN",
                     expires |-> lnOp[lnMinted].expires, settled |-> Unstamped]
        /\ lnShown' = lnShown \cup {lnMinted} /\ lnHook' = lnMinted /\ lnMinted' = NoMint
        /\ UNCHANGED <<lnOp, lnTasks, lnWatch, lnStreams, lnPhase, lnListed, lnNow>>
    BY <1>3 DEF CommitIssued
  <2>3. /\ lnRow' \in [op : Mints \cup {NoMint}, status : RowStates, expires : Int, settled : Int]
        /\ lnRow'.op = lnMinted /\ lnRow'.status = "OPEN"
    BY <2>1, <2>2 DEF RowStates, Unstamped
  <2>4. LnTypes'
    BY <2>1, <2>2, <2>3 DEF LnTypes
  <2>5. \A o \in lnShown : lnOp[o].st = "expired"
    BY <2>1 DEF RowFollowsOp
  <2>6. RowFollowsOp'
    BY <2>1, <2>2, <2>3, <2>5 DEF RowFollowsOp
  <2> QED
    BY <2>2, <2>3, <2>4, <2>6 DEF FoundIsSo, OpenIsWatched
<1>4. CASE DropIssued
  <2>1. /\ lnMinted' = NoMint
        /\ UNCHANGED <<lnOp, lnShown, lnRow, lnHook, lnTasks, lnWatch, lnStreams, lnPhase, lnListed, lnNow>>
    BY <1>4 DEF DropIssued, lnBooks
  <2>2. LnTypes'
    BY <2>1 DEF LnTypes
  <2> QED
    BY <2>1, <2>2 DEF RowFollowsOp, FoundIsSo, OpenIsWatched
<1>5. CASE SpawnLive
  <2> DEFINE n == LnTask(lnHook, TRUE, lnWatch)
  <2>1. /\ lnHook \in Mints /\ lnHook' = NoMint /\ lnTasks' = lnTasks \cup {n}
        /\ UNCHANGED <<lnOp, lnShown, lnRow, lnMinted, lnWatch, lnStreams, lnPhase, lnListed, lnNow>>
    BY <1>5 DEF SpawnLive, lnBooks, LnTypes
  <2>2. n \in LnTaskRecs /\ n.op = lnHook /\ n.watch = lnWatch /\ n.found = "none"
    BY <2>1 DEF LnTask, LnTaskRecs, Found, LnTypes, Unstamped
  <2> HIDE DEF n
  <2>3. LnTypes'
    BY <2>1, <2>2 DEF LnTypes
  <2>4. FoundIsSo'
    BY <2>1, <2>2 DEF FoundIsSo
  <2>5. OpenIsWatched'
    BY <2>1, <2>2 DEF OpenIsWatched
  <2> QED
    BY <2>1, <2>3, <2>4, <2>5 DEF RowFollowsOp
<1>6. ASSUME NEW t \in lnTasks, ReceiveTerminal(t) \/ StreamError(t) \/ PersistFails(t)
      PROVE  LnInv'
  <2>1. UNCHANGED <<lnOp, lnShown, lnRow, lnMinted, lnHook, lnWatch, lnStreams, lnPhase, lnListed, lnNow>>
    BY <1>6 DEF ReceiveTerminal, StreamError, PersistFails, lnBooks
  <2>2. t \in LnTaskRecs
    BY DEF LnTypes
  <2>3. \/ lnTasks' = lnTasks \ {t} /\ t.watch # lnWatch
        \/ \E n \in LnTaskRecs : /\ lnTasks' = (lnTasks \ {t}) \cup {n}
                                 /\ n.op = t.op /\ n.watch = t.watch
                                 /\ n.found = "CANCELED" => lnOp[t.op].st = "expired"
    <3>1. CASE PersistFails(t)
      BY <3>1 DEF PersistFails, Closed
    <3>2. CASE StreamError(t)
      <4> DEFINE n == [t EXCEPT !.live = FALSE]
      <4>1. /\ t.found = "none"
            /\ lnTasks' = (lnTasks \ {t}) \cup (IF Closed(t) THEN {} ELSE {n})
        BY <3>2 DEF StreamError
      <4>2. n \in LnTaskRecs /\ n.op = t.op /\ n.watch = t.watch /\ n.found = "none"
        BY <2>2, <4>1 DEF LnTaskRecs
      <4> HIDE DEF n
      <4> QED
        BY <4>1, <4>2 DEF Closed
    <3>3. CASE ReceiveTerminal(t)
      <4> DEFINE F == CASE lnOp[t.op].st = "claimed" -> {"PAID", "PAID_UNRECOVERED"}
                  [] lnOp[t.op].st = "failed" -> {"PAID_UNRECOVERED"}
                  [] lnOp[t.op].st = "expired" -> {"CANCELED"}
                  [] OTHER -> {}
      <4>1. PICK f \in F : lnTasks' = (lnTasks \ {t}) \cup
             {[t EXCEPT !.found = f,
                        !.at = IF f = "PAID" /\ t.live THEN lnNow ELSE Unstamped]}
        BY <3>3 DEF ReceiveTerminal
      <4>2. f \in Found /\ (f = "CANCELED" => lnOp[t.op].st = "expired")
        <5>1. lnOp[t.op].st \in {"claimed", "failed", "expired"}
          OBVIOUS
        <5> QED
          BY <5>1 DEF Found
      <4> DEFINE a == IF f = "PAID" /\ t.live THEN lnNow ELSE Unstamped
                 n == [t EXCEPT !.found = f, !.at = a]
      <4>3. a \in Int
        BY DEF Unstamped, LnTypes
      <4> HIDE DEF a
      <4>4. n \in LnTaskRecs /\ n.op = t.op /\ n.watch = t.watch /\ n.found = f
        BY <2>2, <4>2, <4>3 DEF LnTaskRecs
      <4>5. lnTasks' = (lnTasks \ {t}) \cup {n}
        BY <4>1 DEF a
      <4> HIDE DEF n
      <4> QED
        BY <4>2, <4>4, <4>5
    <3> QED
      BY <1>6, <3>1, <3>2, <3>3
  <2>4. LnTypes'
    BY <2>1, <2>3 DEF LnTypes
  <2>5. FoundIsSo'
    BY <2>1, <2>3 DEF FoundIsSo
  <2>6. OpenIsWatched'
    BY <2>1, <2>3 DEF OpenIsWatched
  <2> QED
    BY <2>1, <2>4, <2>5, <2>6 DEF RowFollowsOp
<1>7. ASSUME NEW t \in lnTasks, PersistTerminal(t) PROVE LnInv'
  <2>1. /\ t.found # "none" /\ lnRow' = Marked(t) /\ lnTasks' = lnTasks \ {t}
        /\ UNCHANGED <<lnOp, lnShown, lnMinted, lnHook, lnWatch, lnStreams, lnPhase, lnListed, lnNow>>
    BY <1>7 DEF PersistTerminal
  <2>2. t \in LnTaskRecs
    BY DEF LnTypes
  <2>3. t.found \in {"PAID", "PAID_UNRECOVERED", "CANCELED"} /\ t.op \in Mints /\ t.at \in Int
        /\ (t.found = "CANCELED" => lnOp[t.op].st = "expired")
    BY <2>1, <2>2 DEF LnTaskRecs, Found, FoundIsSo
  <2>4. CASE lnRow.op = t.op /\ lnRow.status = "OPEN"
    <3> DEFINE a == IF t.at # Unstamped THEN t.at ELSE lnRow.settled
    <3>1. a \in Int
      BY <2>3 DEF LnTypes
    <3>2. lnRow' = [lnRow EXCEPT !.status = t.found, !.settled = a]
      BY <2>1, <2>4 DEF Marked
    <3> HIDE DEF a
    <3>3. /\ lnRow' \in [op : Mints \cup {NoMint}, status : RowStates, expires : Int, settled : Int]
          /\ lnRow'.op = t.op /\ lnRow'.status = t.found
      BY <2>3, <2>4, <3>1, <3>2 DEF LnTypes, RowStates
    <3>4. LnTypes'
      BY <2>1, <2>3, <3>3 DEF LnTypes
    <3>5. RowFollowsOp'
      BY <2>1, <2>3, <2>4, <3>3 DEF RowFollowsOp
    <3> QED
      BY <2>1, <2>3, <3>3, <3>4, <3>5 DEF FoundIsSo, OpenIsWatched
  <2>5. CASE ~(lnRow.op = t.op /\ lnRow.status = "OPEN")
    <3>1. lnRow' = lnRow
      BY <2>1, <2>5 DEF Marked
    <3>2. LnTypes'
      BY <2>1, <3>1 DEF LnTypes
    <3>3. OpenIsWatched'
      BY <2>1, <2>5, <3>1 DEF OpenIsWatched
    <3> QED
      BY <2>1, <3>1, <3>2, <3>3 DEF FoundIsSo, RowFollowsOp
  <2> QED
    BY <2>4, <2>5
<1>8. CASE Watch \/ WatchLists
  <2>1. /\ lnStreams' \in Nat /\ lnWatch' \in Nat /\ lnListed' \in Mints \cup {NoMint}
        /\ lnWatch' = NoMint => lnWatch = NoMint
        /\ UNCHANGED <<lnOp, lnShown, lnRow, lnMinted, lnHook, lnTasks, lnNow>>
    BY <1>8 DEF Watch, WatchLists, lnBooks, LnTypes, NoMint
  <2>2. LnTypes'
    BY <2>1 DEF LnTypes
  <2>3. OpenIsWatched'
    BY <1>8, <2>1 DEF Watch, WatchLists, OpenIsWatched
  <2> QED
    BY <2>1, <2>2, <2>3 DEF RowFollowsOp, FoundIsSo
<1>15. CASE WatchSpawns
  <2> DEFINE n == LnTask(lnListed, FALSE, lnWatch)
  <2>1. /\ lnPhase = "spawn" /\ lnListed' = NoMint
        /\ lnTasks' = lnTasks \cup (IF lnListed # NoMint THEN {n} ELSE {})
        /\ UNCHANGED <<lnOp, lnShown, lnRow, lnMinted, lnHook, lnNow, lnWatch, lnStreams>>
    BY <1>15 DEF WatchSpawns, lnBooks
  <2>2. /\ lnListed # NoMint => n \in LnTaskRecs
        /\ n.op = lnListed /\ n.watch = lnWatch /\ n.found = "none"
    BY DEF LnTask, LnTaskRecs, Found, LnTypes, Unstamped
  <2> HIDE DEF n
  <2>3. LnTypes'
    BY <2>1, <2>2 DEF LnTypes
  <2>4. FoundIsSo'
    BY <2>1, <2>2 DEF FoundIsSo
  <2>5. lnRow.status = "OPEN" => lnRow.op # NoMint
    BY <1>0 DEF LnTypes
  <2>6. OpenIsWatched'
    BY <2>1, <2>2, <2>5 DEF OpenIsWatched
  <2> QED
    BY <2>1, <2>3, <2>4, <2>6 DEF RowFollowsOp
<1>9. CASE CaptureStream \/ LnCatchUp \/ ExpireLookup \/ ExpireWrite
  BY <1>1, <1>9 DEF CaptureStream, LnCatchUp, ExpireLookup, ExpireWrite, lnBooks, lnMem
<1>10. CASE ReapIndex
  <2>1. /\ lnRow.status = "CANCELED" /\ lnRow' = NoLnRow
        /\ UNCHANGED <<lnOp, lnShown, lnMinted, lnHook, lnTasks, lnWatch, lnStreams, lnPhase, lnListed, lnNow>>
    BY <1>10 DEF ReapIndex, ReapableIndex, lnMem
  <2>2. /\ lnRow'.status = "none"
        /\ lnRow' \in [op : Mints \cup {NoMint}, status : RowStates, expires : Int, settled : Int]
    BY <2>1 DEF NoLnRow, RowStates, Unstamped
  <2>3. LnTypes'
    BY <2>1, <2>2 DEF LnTypes
  <2>4. \A o \in lnShown : lnOp[o].st = "expired"
    BY <2>1 DEF RowFollowsOp
  <2>5. RowFollowsOp'
    BY <2>1, <2>2, <2>4 DEF RowFollowsOp
  <2> QED
    BY <2>1, <2>2, <2>3, <2>5 DEF FoundIsSo, OpenIsWatched
<1>11. CASE LnPays \/ LnOperation
  <2>1. UNCHANGED <<lnShown, lnRow, lnMinted, lnHook, lnTasks, lnWatch, lnStreams, lnPhase, lnListed, lnNow>>
    BY <1>11 DEF LnPays, LnOperation, lnBooks, lnMem
  <2>2. PICK o \in Mints, s \in {"claiming", "claimed", "failed", "expired"} :
          /\ lnOp' = [lnOp EXCEPT ![o].st = s] /\ lnOp[o].st \in {"pending", "claiming"}
    BY <1>0, <1>11 DEF LnPays, LnOperation
  <2>3. /\ lnOp' \in [Mints -> [st : OpStates, expires : Int]] /\ lnOp'[o].st = s
        /\ \A p \in Mints : p # o => lnOp'[p] = lnOp[p]
    BY <2>2 DEF LnTypes, OpStates
  <2>4. LnTypes'
    BY <2>1, <2>3 DEF LnTypes
  <2>5. RowFollowsOp'
    BY <1>0, <2>1, <2>2, <2>3 DEF RowFollowsOp, LnTypes
  <2>6. FoundIsSo'
    BY <2>1, <2>2, <2>3 DEF FoundIsSo, LnTypes, LnTaskRecs
  <2> QED
    BY <2>1, <2>4, <2>5, <2>6 DEF OpenIsWatched
<1>12. CASE LnTick
  <2>1. /\ lnNow' = lnNow + 1
        /\ UNCHANGED <<lnOp, lnShown, lnRow, lnMinted, lnHook, lnTasks, lnWatch, lnStreams, lnPhase, lnListed>>
    BY <1>12 DEF LnTick, lnBooks, lnMem
  <2>2. LnTypes'
    BY <2>1 DEF LnTypes
  <2> QED
    BY <2>1, <2>2 DEF RowFollowsOp, FoundIsSo, OpenIsWatched
<1>13. CASE LnCrash
  <2>1. /\ lnWatch' = NoMint /\ lnMinted' = NoMint /\ lnHook' = NoMint /\ lnTasks' = {}
        /\ lnListed' = NoMint
        /\ UNCHANGED <<lnOp, lnShown, lnRow, lnStreams, lnNow>>
    BY <1>13 DEF LnCrash, lnBooks
  <2>2. LnTypes'
    BY <1>0, <2>1 DEF LnTypes
  <2> QED
    BY <2>1, <2>2 DEF RowFollowsOp, FoundIsSo, OpenIsWatched
<1>14. CASE UNCHANGED lnVars
  BY <1>1, <1>14 DEF lnVars, lnBooks, lnMem
<1> QED
  BY <1>2, <1>3, <1>4, <1>5, <1>6, <1>7, <1>8, <1>9, <1>10, <1>11, <1>12, <1>13, <1>14, <1>15 DEF LnNext

-----------------------------------------------------------------------------
(* phoenixd, the receive side.                                             *)

(* A hash with a phoenixd_invoice row; phoenixd's record of one.           *)
Indexed(h) == phIndex[h] # Never
NodeRecs == [st : {"none", "open", "paid"}, expires : Nat, at : Nat \cup {Never}]

(* The types of the receive side of phoenixd.                              *)
PhTypes ==
    /\ phNode \in [Hashes -> NodeRecs]
    /\ phIndex \in [Hashes -> Nat \cup {Never}]
    /\ phCached \in Hashes \cup {NoHash}
    /\ phBook \in [hash : Hashes \cup {NoHash}, status : {"none", "OPEN", "EXPIRED", "PAID"},
                   expires : Nat, settled : Nat \cup {Never}]
    /\ phBook.status = "none" => phBook.settled = Never
    /\ phBook.status # "none" => phBook.hash \in Hashes
    /\ phIssue \in [pc : {"idle", "commit"}, hash : Hashes \cup {NoHash}, expires : Nat]
    /\ phIssue.pc = "commit" => phIssue.hash \in Hashes
    /\ phRetired \subseteq Hashes /\ phChan \subseteq Hashes
    /\ phRefused \in [Hashes -> Nat \cup {Never}]
    /\ phNow \in Nat /\ phCrashed \in Nat

(* phoenixd can be paid for one hash only, and the rows of the other ones  *)
(* are of dead invoices.                                                   *)
OneRecoverable ==
    /\ \A g, h \in Recoverable : g = h
    /\ \A h \in Hashes : Indexed(h) /\ h # phCached => NodeExpired(h)
    /\ \A h \in Hashes : Indexed(h) => phNode[h].st # "none" /\ phBook.status # "none"
    /\ \A h \in Hashes : PaidAt(h) => Indexed(h) /\ phNode[h].at # Never
    /\ phCached # NoHash => phIndex[phCached] # Never

(* The issuance in flight: an unknown hash replaces dead ones, a known one *)
(* never loses time.                                                       *)
IssueExtends ==
    phIssue.pc = "commit" =>
       /\ phNode[phIssue.hash].st # "none"
       /\ Indexed(phIssue.hash) =>
             phIssue.hash = phCached /\ phIssue.expires >= phIndex[phIssue.hash]
       /\ ~Indexed(phIssue.hash) => \A h \in Hashes : Indexed(h) => NodeExpired(h)

(* The poll lets go of a hash that is dead, on its way, or booked.         *)
RetiredIsDone ==
    /\ \A h \in phChan : PaidAt(h)
    /\ \A h \in phRetired :
          h \in phChan \/ NodeExpired(h) \/ phBook.status = "PAID" \/ phBook.settled # Never
    /\ phCredit => phChan = {} /\ \A h \in phRetired : NodeExpired(h)

(* The poll has looked for the last time while the row was in its window.  *)
WindowOver(h) ==
    \/ phIndex[h] + PollGrace < phNow
    \/ phIndex[h] + PollGrace = phNow /\ phPolled

(* A refusal is of a paid hash; one whose poll window is over, or ends     *)
(* with a tick already polled, was told.                                   *)
RefusedIsTold ==
    /\ ~phUp => phCrashed > 0
    /\ \A h \in Hashes : phRefused[h] # Never => PaidAt(h) /\ phRefused[h] <= phNow
    /\ \A h \in Hashes :
          phCredit /\ phRefused[h] # Never /\ phCrashed = 0 /\ WindowOver(h) => phAlerted

(* The inductive invariant of the receive side of phoenixd.                *)
PhInv == PhTypes /\ OneRecoverable /\ IssueExtends /\ RetiredIsDone /\ RefusedIsTold

(* Nothing issued yet.                                                     *)
LEMMA PhInvInit == PhInit => PhInv
<1> SUFFICES ASSUME PhInit PROVE PhInv
  OBVIOUS
<1>1. PhTypes
  BY DEF PhInit, PhTypes, NodeRecs, NoPhBook, NoIssue, NoHash, Never
<1>2. \A h \in Hashes : ~Indexed(h) /\ phNode[h].st = "none" /\ phRefused[h] = Never
  BY DEF PhInit, Indexed
<1>3. OneRecoverable
  BY <1>2 DEF PhInit, OneRecoverable, Recoverable, PaidAt, Payable
<1>4. IssueExtends
  BY DEF PhInit, IssueExtends, NoIssue
<1>5. RetiredIsDone
  BY DEF PhInit, RetiredIsDone
<1>6. RefusedIsTold
  BY <1>2 DEF PhInit, RefusedIsTold
<1> QED
  BY <1>1, <1>3, <1>4, <1>5, <1>6 DEF PhInv

(* What the backend promises of its receipts.                              *)
LEMMA PhInvTells == PhInv => OnePayable /\ PaidLateIsPolled /\ HeldIsAlerted
<1> SUFFICES ASSUME PhInv PROVE OnePayable /\ PaidLateIsPolled /\ HeldIsAlerted
  OBVIOUS
<1>1. OnePayable
  <2>1. CASE Recoverable = {}
    BY <2>1, FS_EmptySet DEF OnePayable
  <2>2. CASE Recoverable # {}
    <3>1. PICK x \in Recoverable : TRUE
      BY <2>2
    <3>2. Recoverable = {x}
      BY <3>1 DEF PhInv, OneRecoverable
    <3> QED
      BY <3>2, FS_Singleton DEF OnePayable
  <2> QED
    BY <2>1, <2>2
<1>2. PaidLateIsPolled
  BY DEF PhInv, RetiredIsDone, PaidLateIsPolled, NodeExpired, PaidAt
<1>3. HeldIsAlerted
  <2> SUFFICES ASSUME NEW h \in Hashes, phCredit, phRefused[h] # Never, phCrashed = 0,
                      phIndex[h] < phNow - PollGrace
               PROVE  phAlerted
    BY DEF HeldIsAlerted
  <2>1. phIndex[h] \in Int /\ phNow \in Int /\ PollGrace \in Int
    BY PhoenixdReceiveAssumption DEF PhInv, PhTypes, Never
  <2>2. phIndex[h] + PollGrace < phNow
    BY <2>1
  <2>3. WindowOver(h)
    BY <2>2 DEF WindowOver
  <2> QED
    BY <2>3, Zenon DEF PhInv, RefusedIsTold
<1> QED
  BY <1>1, <1>2, <1>3

(* Nothing the invariant speaks of but the clock moves on: a dead invoice  *)
(* stays dead, and no invoice becomes payable.                             *)
LEMMA TimePasses ==
  ASSUME PhTypes, phNow' \in Nat, phNow' >= phNow, UNCHANGED phNode
  PROVE  \A h \in Hashes : /\ PaidAt(h)' <=> PaidAt(h)
                           /\ Payable(h)' => Payable(h)
                           /\ NodeExpired(h) => NodeExpired(h)'
<1> TAKE h \in Hashes
<1>1. phNode[h].expires \in Nat /\ phNow \in Nat
  BY DEF PhTypes, NodeRecs
<1> QED
  BY <1>1 DEF PaidAt, Payable, NodeExpired

(* A new invoice, or a payment: the other hashes are as they were.         *)
LEMMA OtherHashes ==
  ASSUME UNCHANGED phNow, NEW h \in Hashes, \A g \in Hashes : g # h => phNode'[g] = phNode[g]
  PROVE  \A g \in Hashes : g # h => /\ PaidAt(g)' <=> PaidAt(g)
                                    /\ Payable(g)' <=> Payable(g)
                                    /\ NodeExpired(g)' <=> NodeExpired(g)
BY DEF PaidAt, Payable, NodeExpired

(* Issuance: the hash handed to the commit.                                *)
LEMMA PhInvResolve == PhInv /\ ResolveInvoice => PhInv'
<1> SUFFICES ASSUME PhInv, ResolveInvoice PROVE PhInv'
  OBVIOUS
<1> USE DEF PhInv
<1>0. PhExpiry \in Nat \ {0} /\ NoHash \notin Hashes /\ Never \notin Nat /\ phNow \in Nat
  BY PhoenixdReceiveAssumption DEF NoHash, Hashes, Never, PhTypes
<1>1. UNCHANGED <<phCredit, phIndex, phCached, phBook, phRefused, phAlerted, phRetired, phChan,
                  phPolled, phUp, phNow, phCrashed>>
  BY DEF ResolveInvoice, phRows, phTime
<1>2. \A h \in Hashes : Indexed(h)' <=> Indexed(h)
  BY <1>1 DEF Indexed
<1>3. ASSUME UNCHANGED phNode, NEW h \in Hashes, NEW e \in Nat, Hand(h, e),
             phNode[h].st # "none",
             Indexed(h) => h = phCached /\ e >= phIndex[h],
             ~Indexed(h) => \A g \in Hashes : Indexed(g) => NodeExpired(g)
      PROVE  PhInv'
  <2>1. /\ phIssue' \in [pc : {"idle", "commit"}, hash : Hashes \cup {NoHash}, expires : Nat]
        /\ phIssue'.pc = "commit" /\ phIssue'.hash = h /\ phIssue'.expires = e
    BY <1>3 DEF Hand
  <2>2. \A g \in Hashes : /\ PaidAt(g)' <=> PaidAt(g)
                          /\ Payable(g)' <=> Payable(g)
                          /\ NodeExpired(g)' <=> NodeExpired(g)
    BY <1>1, <1>3 DEF PaidAt, Payable, NodeExpired
  <2>3. PhTypes'
    BY <1>1, <1>3, <2>1 DEF PhTypes
  <2>4. OneRecoverable'
    BY <1>1, <1>2, <1>3, <2>2 DEF OneRecoverable, Recoverable
  <2>5. IssueExtends'
    BY <1>1, <1>2, <1>3, <2>1, <2>2 DEF IssueExtends
  <2>6. RetiredIsDone'
    BY <1>1, <2>2 DEF RetiredIsDone, PhTypes
  <2>7. RefusedIsTold'
    BY <1>1, <2>2 DEF RefusedIsTold, WindowOver
  <2> QED
    BY <2>3, <2>4, <2>5, <2>6, <2>7
<1>4. CASE ReuseCached /\ UNCHANGED phNode
  <2> DEFINE e == IF PaidAt(phCached) \/ phNow < phIndex[phCached] THEN phIndex[phCached]
                  ELSE phNow + PhExpiry
  <2>1. phCached \in Hashes /\ Hand(phCached, e)
    BY <1>4 DEF ReuseCached, PhTypes
  <2>2. Indexed(phCached) /\ phNode[phCached].st # "none"
    BY <1>0, <2>1 DEF OneRecoverable, Indexed
  <2>3. phIndex[phCached] \in Nat
    BY <2>1, <2>2 DEF PhTypes, Indexed
  <2>4. e \in Nat /\ e >= phIndex[phCached]
    BY <1>0, <2>3
  <2> HIDE DEF e
  <2> QED
    BY <1>3, <1>4, <2>1, <2>2, <2>4
<1>5. ASSUME CachedIsDead PROVE \A g \in Hashes : Indexed(g) => NodeExpired(g)
  BY <1>0, <1>5 DEF CachedIsDead, OneRecoverable
<1>6. CASE RecoverOrphan /\ UNCHANGED phNode
  <2>1. PICK h \in Recoverable :
          Hand(h, IF PaidAt(h) THEN phNode[h].expires ELSE phNow + PhExpiry)
    BY <1>6 DEF RecoverOrphan
  <2> DEFINE e == IF PaidAt(h) THEN phNode[h].expires ELSE phNow + PhExpiry
  <2>2. h \in Hashes /\ (PaidAt(h) \/ Payable(h)) /\ CachedIsDead
    BY <1>6 DEF Recoverable, RecoverOrphan
  <2>3. e \in Nat
    BY <1>0, <2>2 DEF PhTypes, NodeRecs
  <2>4. phNode[h].st # "none" /\ ~NodeExpired(h)
    BY <2>2 DEF PaidAt, Payable, NodeExpired
  <2>5. ~Indexed(h)
    BY <1>5, <2>2, <2>4
  <2> HIDE DEF e
  <2>6. Hand(h, e)
    BY <2>1 DEF e
  <2> QED
    BY <1>3, <1>5, <1>6, <2>2, <2>3, <2>4, <2>5, <2>6
<1>7. CASE CreateInvoice
  <2>1. PICK h \in Hashes, skew \in {0, 1} :
         /\ phNode[h].st = "none"
         /\ phNode' = [phNode EXCEPT ![h] =
                          [st |-> "open", expires |-> phNow + PhExpiry + skew, at |-> Never]]
         /\ Hand(h, phNow + PhExpiry)
    BY <1>7 DEF CreateInvoice
  <2>2. CachedIsDead /\ Recoverable = {}
    BY <1>7 DEF CreateInvoice, NothingReusable
  <2>3. /\ phIssue' \in [pc : {"idle", "commit"}, hash : Hashes \cup {NoHash}, expires : Nat]
        /\ phIssue'.pc = "commit" /\ phIssue'.hash = h
    BY <1>0, <2>1 DEF Hand
  <2>4. /\ phNode' \in [Hashes -> NodeRecs] /\ phNode'[h].st = "open"
        /\ \A g \in Hashes : g # h => phNode'[g] = phNode[g]
    BY <1>0, <2>1 DEF PhTypes, NodeRecs
  <2>5. \A g \in Hashes : g # h => /\ PaidAt(g)' <=> PaidAt(g)
                                   /\ Payable(g)' <=> Payable(g)
                                   /\ NodeExpired(g)' <=> NodeExpired(g)
    BY <1>1, <2>4, OtherHashes
  <2>6. ~PaidAt(h) /\ ~PaidAt(h)' /\ ~NodeExpired(h) /\ ~Indexed(h)
    BY <2>1, <2>4 DEF PaidAt, NodeExpired, OneRecoverable
  <2>7. PhTypes'
    BY <1>1, <2>3, <2>4 DEF PhTypes
  <2>8. OneRecoverable'
    <3>1. \A g \in Recoverable' : g = h
      BY <2>2, <2>5 DEF Recoverable
    <3> QED
      BY <1>0, <1>1, <1>2, <2>4, <2>5, <2>6, <3>1 DEF OneRecoverable
  <2>9. IssueExtends'
    BY <1>2, <1>5, <2>2, <2>3, <2>4, <2>5, <2>6 DEF IssueExtends
  <2>10. RetiredIsDone'
    BY <1>1, <2>5, <2>6 DEF RetiredIsDone, PhTypes
  <2>11. RefusedIsTold'
    BY <1>1, <2>5, <2>6 DEF RefusedIsTold, WindowOver
  <2> QED
    BY <2>7, <2>8, <2>9, <2>10, <2>11
<1> QED
  BY <1>4, <1>6, <1>7 DEF ResolveInvoice

(* The commit beside the books: a window is never shortened.               *)
LEMMA PhInvCommit == PhInv /\ CommitInvoice => PhInv'
<1> SUFFICES ASSUME PhInv, CommitInvoice PROVE PhInv'
  OBVIOUS
<1> USE DEF PhInv
<1> DEFINE h == phIssue.hash
           e == phIssue.expires
<1>0. /\ NoHash \notin Hashes /\ Never \notin Nat /\ Never \in Int
      /\ PollGrace \in Nat /\ phNow \in Nat
  BY PhoenixdReceiveAssumption DEF NoHash, Hashes, Never, PhTypes
<1>1. /\ phIssue.pc = "commit" /\ h \in Hashes /\ e \in Nat
      /\ phIndex' = [phIndex EXCEPT ![h] = e]
      /\ phCached' = IF phIndex[h] = Never THEN h ELSE phCached
      /\ phBook' = PhRefreshed(h, e)
      /\ phIssue' = NoIssue
      /\ UNCHANGED <<phNode, phCredit, phRefused, phAlerted, phRetired, phChan, phPolled, phUp,
                     phNow, phCrashed>>
  BY DEF CommitInvoice, phTime, PhTypes
<1>2. \A g \in Hashes : /\ PaidAt(g)' <=> PaidAt(g)
                        /\ Payable(g)' <=> Payable(g)
                        /\ NodeExpired(g)' <=> NodeExpired(g)
  BY <1>1 DEF PaidAt, Payable, NodeExpired
<1> HIDE DEF h, e
<1>3. /\ phIndex' \in [Hashes -> Nat \cup {Never}] /\ phIndex'[h] = e
      /\ \A g \in Hashes : g # h => phIndex'[g] = phIndex[g]
      /\ \A g \in Hashes : Indexed(g)' <=> (g = h \/ Indexed(g))
  BY <1>0, <1>1 DEF PhTypes, Indexed
<1>4. /\ phBook' \in [hash : Hashes \cup {NoHash}, status : {"none", "OPEN", "EXPIRED", "PAID"},
                   expires : Nat, settled : Nat \cup {Never}]
      /\ phBook'.status # "none" /\ phBook'.hash \in Hashes
      /\ phBook.status = "PAID" => phBook'.status = "PAID"
      /\ phBook.settled # Never => phBook'.settled # Never
  <2>1. CASE phBook.status = "none"
    <3>1. phBook' = [hash |-> h, status |-> "OPEN", expires |-> e, settled |-> Never]
      BY <1>1, <2>1 DEF PhRefreshed
    <3> QED
      BY <1>1, <2>1, <3>1 DEF PhTypes
  <2>2. CASE phBook.status \notin {"none", "PAID"} /\ phBook.settled = Never
    <3>1. phBook' = [phBook EXCEPT !.hash = h, !.expires = e,
                          !.status = IF @ = "EXPIRED" THEN "OPEN" ELSE @]
      BY <1>1, <2>2 DEF PhRefreshed
    <3> QED
      BY <1>1, <2>2, <3>1 DEF PhTypes
  <2>3. CASE phBook.status # "none" /\ ~(phBook.status # "PAID" /\ phBook.settled = Never)
    <3>1. phBook' = phBook
      BY <1>1, <2>3 DEF PhRefreshed
    <3> QED
      BY <2>3, <3>1 DEF PhTypes
  <2> QED
    BY <2>1, <2>2, <2>3
<1>5. PhTypes'
  <2>1. phIssue'.pc = "idle"
        /\ phIssue' \in [pc : {"idle", "commit"}, hash : Hashes \cup {NoHash}, expires : Nat]
    BY <1>1 DEF NoIssue
  <2> QED
    BY <1>1, <1>3, <1>4, <2>1 DEF PhTypes
<1>6. /\ phNode[h].st # "none"
      /\ Indexed(h) => h = phCached /\ e >= phIndex[h]
      /\ ~Indexed(h) => \A g \in Hashes : Indexed(g) => NodeExpired(g)
  BY <1>1 DEF IssueExtends, h, e
<1>7. OneRecoverable'
  <2>1. phCached' = IF Indexed(h) THEN phCached ELSE h
    BY <1>1 DEF Indexed
  <2>2. \A g \in Hashes : Indexed(g)' /\ g # phCached' => NodeExpired(g)'
    BY <1>2, <1>3, <1>6, <2>1 DEF OneRecoverable
  <2>3. phCached' # NoHash => phIndex'[phCached'] # Never
    BY <1>0, <1>1, <1>3, <2>1 DEF OneRecoverable, PhTypes
  <2> QED
    BY <1>1, <1>2, <1>3, <1>4, <1>6, <2>2, <2>3 DEF OneRecoverable, Recoverable
<1>8. IssueExtends'
  BY <1>1 DEF IssueExtends, NoIssue
<1>9. RetiredIsDone'
  BY <1>1, <1>2, <1>4 DEF RetiredIsDone, PhTypes
<1>10. RefusedIsTold'
  <2>1. ASSUME NEW g \in Hashes, WindowOver(g)', Indexed(g) PROVE WindowOver(g)
    <3>1. phIndex[g] \in Nat /\ phIndex'[g] \in Nat /\ phIndex[g] <= phIndex'[g]
      BY <1>1, <1>3, <1>6, <2>1 DEF PhTypes, Indexed
    <3>2. \/ phIndex'[g] + PollGrace < phNow
          \/ phIndex'[g] + PollGrace = phNow /\ phPolled
      BY <1>1, <2>1 DEF WindowOver
    <3>3. \/ phIndex[g] + PollGrace < phNow
          \/ phIndex[g] + PollGrace = phNow /\ phPolled
      BY <1>0, <3>1, <3>2
    <3> QED
      BY <3>3 DEF WindowOver
  <2>2. \A g \in Hashes : phRefused[g] # Never => Indexed(g)
    BY DEF RefusedIsTold, OneRecoverable
  <2> QED
    BY <1>1, <1>2, <2>1, <2>2 DEF RefusedIsTold
<1> QED
  BY <1>5, <1>7, <1>8, <1>9, <1>10

(* The poll: what it retires is dead or sent, and it tells of a receipt it *)
(* refuses on the last look.                                               *)
LEMMA PhInvPoll == PhInv /\ Poll => PhInv'
<1> SUFFICES ASSUME PhInv, Poll PROVE PhInv'
  OBVIOUS
<1> USE DEF PhInv
<1>0. /\ Never \notin Nat /\ Never \in Int /\ phNow \in Nat
      /\ PollGrace \in Nat /\ RefusalAlert \in Nat
  BY PhoenixdReceiveAssumption DEF Never, PhTypes
<1> DEFINE rows == Pollable \ phRetired
           due == {h \in rows : PaidAt(h)}
           sent == IF Unbacked THEN {} ELSE due
<1>1. /\ phPolled' /\ phChan' = phChan \cup sent
      /\ phRetired' = phRetired \cup sent \cup {h \in rows \ due : RetiredUnpaid(h)}
      /\ IF due # {} /\ Unbacked THEN \E h \in due : Refuse(h)
         ELSE UNCHANGED <<phRefused, phAlerted>>
      /\ UNCHANGED <<phNode, phCredit, phIndex, phCached, phBook, phIssue, phUp, phNow, phCrashed>>
  BY DEF Poll, phTime
<1>2. \A g \in Hashes : /\ PaidAt(g)' <=> PaidAt(g)
                        /\ Payable(g)' <=> Payable(g)
                        /\ NodeExpired(g)' <=> NodeExpired(g)
                        /\ Indexed(g)' <=> Indexed(g)
  BY <1>1 DEF PaidAt, Payable, NodeExpired, Indexed
<1>3. rows \subseteq Hashes /\ sent \subseteq due /\ (phCredit => sent = {})
  BY DEF Pollable, Unbacked
<1>4. phRetired' \subseteq Hashes /\ phChan' \subseteq Hashes
  BY <1>1, <1>3 DEF PhTypes
<1>5. OneRecoverable'
  BY <1>1, <1>2 DEF OneRecoverable, Recoverable
<1>6. IssueExtends'
  <2>1. phIssue.pc = "commit" => (Indexed(phIssue.hash)' <=> Indexed(phIssue.hash))
    BY <1>1 DEF Indexed
  <2> QED
    BY <1>1, <1>2, <2>1 DEF IssueExtends, PhTypes
<1>7. RetiredIsDone'
  <2>1. \A h \in phChan' : h \in phChan \/ PaidAt(h)
    BY <1>1, <1>3
  <2>2. \A h \in phRetired' : h \in phRetired \/ h \in sent \/ NodeExpired(h)
    BY <1>1 DEF RetiredUnpaid
  <2>3. sent \subseteq phChan' /\ phChan \subseteq phChan'
    BY <1>1
  <2>4. phCredit => phChan' = {}
    BY <1>1, <1>3 DEF RetiredIsDone
  <2> HIDE DEF sent, due, rows
  <2> QED
    BY <1>1, <1>2, <1>3, <1>4, <2>1, <2>2, <2>3, <2>4 DEF RetiredIsDone
<1>8. PhTypes' /\ RefusedIsTold'
  <2>1. CASE due # {} /\ Unbacked
    <3>1. PICK h \in due : Refuse(h)
      BY <1>1, <2>1
    <3> DEFINE first == IF phRefused[h] = Never THEN phNow ELSE phRefused[h]
    <3>2. /\ phRefused' = [phRefused EXCEPT ![h] = first]
          /\ phAlerted' = (phAlerted \/ AlertDue(h, first))
      BY <3>1 DEF Refuse
    <3>3. h \in Hashes /\ PaidAt(h) /\ phIndex[h] \in Nat /\ phIndex[h] >= phNow - PollGrace
      BY <1>0 DEF Pollable, PhTypes
    <3>4. first \in Nat /\ first <= phNow
      BY <1>0, <3>3 DEF PhTypes, RefusedIsTold
    <3> HIDE DEF first
    <3>5. /\ phRefused' \in [Hashes -> Nat \cup {Never}] /\ phRefused'[h] = first
          /\ \A g \in Hashes : g # h => phRefused'[g] = phRefused[g]
      BY <3>2, <3>3, <3>4 DEF PhTypes
    <3>6. \A g \in Hashes : PaidAt(g) => g = h
      BY <3>3 DEF OneRecoverable, Recoverable
    <3>7. \A g \in Hashes : phRefused'[g] # Never => g = h
      BY <3>5, <3>6 DEF RefusedIsTold
    <3>8. WindowOver(h)' => AlertDue(h, first)
      <4> SUFFICES ASSUME WindowOver(h)' PROVE AlertDue(h, first)
        OBVIOUS
      <4>1. phIndex[h] + PollGrace < phNow \/ phIndex[h] + PollGrace = phNow
        BY <1>1 DEF WindowOver
      <4> QED
        BY <1>0, <3>3, <3>4, <4>1 DEF AlertDue
    <3>9. \A g \in Hashes : phRefused'[g] # Never /\ WindowOver(g)' => phAlerted'
      BY <3>2, <3>7, <3>8
    <3>10. PhTypes'
      BY <1>1, <1>4, <3>5 DEF PhTypes
    <3>11. RefusedIsTold'
      BY <1>1, <1>2, <3>3, <3>4, <3>5, <3>7, <3>9 DEF RefusedIsTold
    <3> QED
      BY <3>10, <3>11
  <2>2. CASE ~(due # {} /\ Unbacked)
    <3>1. UNCHANGED <<phRefused, phAlerted>>
      BY <1>1, <2>2
    <3>2. ASSUME NEW g \in Hashes, phCredit, phRefused[g] # Never, WindowOver(g)'
          PROVE  WindowOver(g)
      <4>1. PaidAt(g) /\ Indexed(g)
        BY <3>2 DEF RefusedIsTold, OneRecoverable
      <4>2. g \notin phRetired
        BY <3>2, <4>1 DEF RetiredIsDone, PaidAt, NodeExpired
      <4>3. g \notin due
        BY <2>2, <3>2 DEF Unbacked
      <4>4. ~(phIndex[g] >= phNow - PollGrace)
        BY <4>1, <4>2, <4>3 DEF Pollable, Indexed
      <4>5. phIndex[g] \in Nat
        BY <4>1 DEF PhTypes, Indexed
      <4>6. phIndex[g] + PollGrace < phNow
        BY <1>0, <4>4, <4>5
      <4> QED
        BY <4>6 DEF WindowOver
    <3>3. PhTypes'
      BY <1>1, <1>4, <3>1 DEF PhTypes
    <3>4. RefusedIsTold'
      <4> HIDE DEF due, rows, sent
      <4> QED
        BY <1>1, <1>2, <3>1, <3>2 DEF RefusedIsTold
    <3> QED
      BY <3>3, <3>4
  <2> QED
    BY <2>1, <2>2
<1> QED
  BY <1>5, <1>6, <1>7, <1>8

(* A capture leaves the row booked or stamped.                             *)
LEMMA PhBooked ==
  ASSUME PhTypes, phBook.status # "none", NEW at \in Nat \cup {Never}, at # Never
  PROVE  /\ PhCaptured(at) \in [hash : Hashes \cup {NoHash},
                                status : {"none", "OPEN", "EXPIRED", "PAID"},
                                expires : Nat, settled : Nat \cup {Never}]
         /\ PhCaptured(at).status # "none" /\ PhCaptured(at).hash = phBook.hash
         /\ PhCaptured(at).status = "PAID" \/ PhCaptured(at).settled # Never
<1>1. CASE phBook.status = "OPEN"
  BY <1>1 DEF PhTypes, PhCaptured
<1>2. CASE phBook.status = "EXPIRED" /\ phBook.settled = Never
  BY <1>2 DEF PhTypes, PhCaptured
<1>3. CASE phBook.status # "OPEN" /\ ~(phBook.status = "EXPIRED" /\ phBook.settled = Never)
  <2>1. PhCaptured(at) = phBook
    BY <1>3 DEF PhCaptured
  <2> QED
    BY <1>3, <2>1 DEF PhTypes
<1> QED
  BY <1>1, <1>2, <1>3

(* Only the books move: a capture off the stream or by the catch-up, and   *)
(* an expiry.                                                              *)
LEMMA PhInvBooks ==
  ASSUME PhInv, NEW C \in SUBSET phChan, phChan' = C,
         UNCHANGED <<phNode, phCredit, phIndex, phCached, phRefused, phAlerted, phIssue, phRetired,
                     phPolled, phUp, phNow, phCrashed>>,
         phBook' \in [hash : Hashes \cup {NoHash}, status : {"none", "OPEN", "EXPIRED", "PAID"},
                     expires : Nat, settled : Nat \cup {Never}],
         phBook'.status # "none", phBook'.hash = phBook.hash, phBook.status # "none",
         \/ ~phCredit /\ (phBook'.status = "PAID" \/ phBook'.settled # Never)
         \/ /\ C = phChan /\ phBook'.settled = phBook.settled
            /\ phBook.status = "PAID" => phBook'.status = "PAID"
  PROVE  PhInv'
<1> USE DEF PhInv
<1>1. \A g \in Hashes : /\ PaidAt(g)' <=> PaidAt(g)
                        /\ Payable(g)' <=> Payable(g)
                        /\ NodeExpired(g)' <=> NodeExpired(g)
                        /\ Indexed(g)' <=> Indexed(g)
                        /\ WindowOver(g)' <=> WindowOver(g)
  BY DEF PaidAt, Payable, NodeExpired, Indexed, WindowOver
<1>2. PhTypes'
  BY DEF PhTypes
<1>3. OneRecoverable'
  BY <1>1 DEF OneRecoverable, Recoverable
<1>4. IssueExtends'
  BY <1>1 DEF IssueExtends, PhTypes
<1>5. RetiredIsDone'
  BY <1>1 DEF RetiredIsDone, PhTypes
<1>6. RefusedIsTold'
  BY <1>1 DEF RefusedIsTold
<1> QED
  BY <1>2, <1>3, <1>4, <1>5, <1>6

(* The deciders: stream, catch-up and expiry.                              *)
LEMMA PhInvDecide == PhInv /\ (PhCaptureStream \/ PhCatchUp \/ PhExpire) => PhInv'
<1> SUFFICES ASSUME PhInv, PhCaptureStream \/ PhCatchUp \/ PhExpire PROVE PhInv'
  OBVIOUS
<1> DEFINE Books == [hash : Hashes \cup {NoHash}, status : {"none", "OPEN", "EXPIRED", "PAID"},
                     expires : Nat, settled : Nat \cup {Never}]
<1>0. /\ Never \notin Nat /\ Never \in Int /\ phNow \in Nat
      /\ PollGrace \in Nat /\ RefusalAlert \in Nat
  BY PhoenixdReceiveAssumption DEF Never, PhInv, PhTypes
<1>1. \A h \in Hashes : PaidAt(h) =>
        /\ phNode[h].at \in Nat \cup {Never} /\ phNode[h].at # Never
        /\ phBook.status # "none"
  BY DEF PhInv, OneRecoverable, PhTypes, NodeRecs
<1>2. CASE PhCaptureStream
  <2>1. PICK h \in phChan : phChan' = phChan \ {h} /\ phBook' = PhCaptured(phNode[h].at)
    BY <1>2 DEF PhCaptureStream
  <2>2. UNCHANGED <<phNode, phCredit, phIndex, phCached, phRefused, phAlerted, phIssue, phRetired,
                    phPolled, phUp, phNow, phCrashed>>
    BY <1>2 DEF PhCaptureStream, phTime
  <2>3. h \in Hashes /\ PaidAt(h) /\ ~phCredit
    BY DEF PhInv, PhTypes, RetiredIsDone
  <2>4. /\ phBook' \in Books /\ phBook'.status # "none" /\ phBook'.hash = phBook.hash
        /\ phBook'.status = "PAID" \/ phBook'.settled # Never
    BY <1>1, <2>1, <2>3, PhBooked DEF PhInv
  <2>5. phBook.status # "none"
    BY <1>1, <2>3
  <2>6. phChan' \in SUBSET phChan
    BY <2>1
  <2> QED
    BY <2>2, <2>3, <2>4, <2>5, <2>6, PhInvBooks
<1>3. CASE PhExpire
  <2>1. /\ phBook.status = "OPEN" /\ phBook' = [phBook EXCEPT !.status = "EXPIRED"]
        /\ UNCHANGED <<phNode, phCredit, phIndex, phCached, phRefused, phAlerted, phIssue,
                       phRetired, phChan, phPolled, phUp, phNow, phCrashed>>
    BY <1>3 DEF PhExpire, phMem, phTime
  <2>2. /\ phBook' \in Books /\ phBook'.status = "EXPIRED" /\ phBook'.hash = phBook.hash
        /\ phBook'.settled = phBook.settled
    BY <2>1 DEF PhInv, PhTypes
  <2> QED
    BY <2>1, <2>2, PhInvBooks
<1>4. CASE PhCatchUp /\ ~phCredit
  <2> DEFINE h == phBook.hash
  <2>1. /\ phBook.status = "OPEN" /\ PaidAt(h) /\ h \in Hashes
        /\ phBook' = PhCaptured(phNode[h].at)
        /\ UNCHANGED <<phNode, phCredit, phIndex, phCached, phRefused, phAlerted, phIssue,
                       phRetired, phChan, phPolled, phUp, phNow, phCrashed>>
    BY <1>4 DEF PhCatchUp, phMem, phTime, Unbacked, PhInv, PhTypes
  <2> HIDE DEF h
  <2>2. /\ phBook' \in Books /\ phBook'.status # "none" /\ phBook'.hash = phBook.hash
        /\ phBook'.status = "PAID" \/ phBook'.settled # Never
    BY <1>1, <2>1, PhBooked DEF PhInv
  <2> QED
    BY <1>4, <2>1, <2>2, PhInvBooks
<1>5. CASE PhCatchUp /\ phCredit
  <2> DEFINE h == phBook.hash
             first == IF phRefused[h] = Never THEN phNow ELSE phRefused[h]
  <2>1. /\ PaidAt(h) /\ h \in Hashes
        /\ phRefused' = [phRefused EXCEPT ![h] = first]
        /\ phAlerted' = (phAlerted \/ AlertDue(h, first))
        /\ UNCHANGED <<phNode, phCredit, phIndex, phCached, phBook, phIssue,
                       phRetired, phChan, phPolled, phUp, phNow, phCrashed>>
    BY <1>5 DEF PhCatchUp, phMem, phTime, Unbacked, Refuse, PhInv, PhTypes
  <2> HIDE DEF h
  <2>2. \A g \in Hashes : /\ PaidAt(g)' <=> PaidAt(g)
                          /\ Payable(g)' <=> Payable(g)
                          /\ NodeExpired(g)' <=> NodeExpired(g)
                          /\ Indexed(g)' <=> Indexed(g)
                          /\ WindowOver(g)' <=> WindowOver(g)
    BY <2>1 DEF PaidAt, Payable, NodeExpired, Indexed, WindowOver
  <2>3. first \in Nat /\ first <= phNow
    BY <1>0, <2>1 DEF PhInv, PhTypes, RefusedIsTold
  <2> HIDE DEF first
  <2>4. /\ phRefused' \in [Hashes -> Nat \cup {Never}] /\ phRefused'[h] = first
        /\ \A g \in Hashes : g # h => phRefused'[g] = phRefused[g]
    BY <2>1, <2>3 DEF PhInv, PhTypes
  <2>5. \A g \in Hashes : phRefused'[g] # Never => g = h
    BY <2>1, <2>4 DEF PhInv, RefusedIsTold, OneRecoverable, Recoverable
  <2>6. WindowOver(h) => AlertDue(h, first)
    <3> SUFFICES ASSUME WindowOver(h) PROVE AlertDue(h, first)
      OBVIOUS
    <3>1. phIndex[h] + PollGrace < phNow \/ phIndex[h] + PollGrace = phNow
      BY DEF WindowOver
    <3>2. phIndex[h] \in Int
      BY <1>0, <2>1 DEF PhInv, PhTypes
    <3> QED
      BY <1>0, <2>3, <3>1, <3>2 DEF AlertDue
  <2>7. \A g \in Hashes : phRefused'[g] # Never /\ WindowOver(g)' => phAlerted'
    BY <2>1, <2>2, <2>5, <2>6
  <2>8. PhTypes'
    BY <2>1, <2>4 DEF PhInv, PhTypes
  <2>9. OneRecoverable'
    BY <2>1, <2>2 DEF PhInv, OneRecoverable, Recoverable
  <2>10. IssueExtends'
    BY <2>1, <2>2 DEF PhInv, PhTypes, IssueExtends
  <2>11. RetiredIsDone'
    BY <2>1, <2>2 DEF PhInv, RetiredIsDone, PhTypes
  <2>12. RefusedIsTold'
    BY <2>1, <2>2, <2>3, <2>4, <2>5, <2>7 DEF PhInv, RefusedIsTold
  <2> QED
    BY <2>8, <2>9, <2>10, <2>11, <2>12 DEF PhInv
<1> QED
  BY <1>2, <1>3, <1>4, <1>5

(* The buyer pays the one payable invoice.                                 *)
LEMMA PhInvPays == PhInv /\ PhPays => PhInv'
<1> SUFFICES ASSUME PhInv, PhPays PROVE PhInv'
  OBVIOUS
<1> USE DEF PhInv
<1>1. PICK h \in Hashes : /\ phIndex[h] # Never /\ Payable(h)
                         /\ phNode' = [phNode EXCEPT ![h].st = "paid", ![h].at = phNow]
  BY DEF PhPays
<1>2. UNCHANGED <<phCredit, phIndex, phCached, phBook, phRefused, phAlerted, phIssue, phRetired,
                  phChan, phPolled, phUp, phNow, phCrashed>>
  BY DEF PhPays, phRows, phMem, phTime
<1>3. /\ phNode' \in [Hashes -> NodeRecs] /\ phNode'[h].st = "paid" /\ phNode'[h].at # Never
      /\ \A g \in Hashes : g # h => phNode'[g] = phNode[g]
  <2> DEFINE r == [[phNode[h] EXCEPT !.st = "paid"] EXCEPT !.at = phNow]
  <2>1. phNode' = [phNode EXCEPT ![h] = r]
    BY <1>1 DEF PhTypes
  <2>2. phNow \in Nat /\ phNode[h] \in NodeRecs /\ Never \notin Nat
    BY DEF PhTypes, Never
  <2>3. r \in NodeRecs /\ r.st = "paid" /\ r.at # Never
    BY <2>2 DEF NodeRecs
  <2> HIDE DEF r
  <2> QED
    BY <2>1, <2>3 DEF PhTypes
<1>4. \A g \in Hashes : g # h => /\ PaidAt(g)' <=> PaidAt(g)
                                 /\ Payable(g)' <=> Payable(g)
                                 /\ NodeExpired(g)' <=> NodeExpired(g)
  BY <1>2, <1>3, OtherHashes
<1>5. PaidAt(h)' /\ ~NodeExpired(h) /\ phNode[h].st = "open" /\ Indexed(h)
  BY <1>1, <1>3 DEF PaidAt, NodeExpired, Payable, Indexed
<1>6. \A g \in Hashes : /\ Indexed(g)' <=> Indexed(g)
                        /\ WindowOver(g)' <=> WindowOver(g)
  BY <1>2 DEF Indexed, WindowOver
<1>7. PhTypes'
  BY <1>2, <1>3 DEF PhTypes
<1>8. OneRecoverable'
  <2>1. h \in Recoverable
    BY <1>1 DEF Recoverable
  <2>2. \A g \in Recoverable' : g = h
    BY <1>4, <2>1 DEF Recoverable, OneRecoverable
  <2> QED
    BY <1>2, <1>3, <1>4, <1>5, <1>6, <2>2 DEF OneRecoverable
<1>9. IssueExtends'
  BY <1>2, <1>3, <1>4, <1>5, <1>6 DEF IssueExtends, PhTypes
<1>10. RetiredIsDone'
  BY <1>2, <1>4, <1>5 DEF RetiredIsDone, PhTypes
<1>11. RefusedIsTold'
  BY <1>2, <1>4, <1>5, <1>6 DEF RefusedIsTold
<1> QED
  BY <1>7, <1>8, <1>9, <1>10, <1>11

(* The wallet, the clock and a crash.                                      *)
LEMMA PhInvAround ==
  PhInv /\ (CreditClears \/ PhTick \/ PhCrash \/ PhRestart \/ UNCHANGED phVars) => PhInv'
<1> SUFFICES ASSUME PhInv, CreditClears \/ PhTick \/ PhCrash \/ PhRestart \/ UNCHANGED phVars
             PROVE  PhInv'
  OBVIOUS
<1> USE DEF PhInv
<1>1. UNCHANGED <<phNode, phIndex, phCached, phBook, phRefused, phAlerted>>
  BY DEF CreditClears, PhTick, PhCrash, PhRestart, phVars, phRows
<1>2. phNow' \in Nat /\ phNow' >= phNow
  BY DEF CreditClears, PhTick, PhCrash, PhRestart, phVars, phTime, PhTypes
<1>3. /\ phIssue' = phIssue \/ phIssue' = NoIssue
      /\ \/ phRetired' = {} /\ phChan' = {}
         \/ UNCHANGED <<phRetired, phChan>>
  BY DEF CreditClears, PhTick, PhCrash, PhRestart, phVars, phMem
<1>4. \A h \in Hashes : /\ PaidAt(h)' <=> PaidAt(h)
                        /\ Payable(h)' => Payable(h)
                        /\ NodeExpired(h) => NodeExpired(h)'
                        /\ Indexed(h)' <=> Indexed(h)
  BY <1>1, <1>2, TimePasses DEF Indexed
<1>5. phCrashed' \in Nat
  BY DEF CreditClears, PhTick, PhCrash, PhRestart, phVars, phTime, PhTypes
<1>6. NoIssue \in [pc : {"idle", "commit"}, hash : Hashes \cup {NoHash}, expires : Nat]
      /\ NoIssue.pc = "idle"
  BY DEF NoIssue
<1>7. PhTypes'
  BY <1>1, <1>2, <1>3, <1>5, <1>6 DEF PhTypes
<1>8. OneRecoverable'
  BY <1>1, <1>4 DEF OneRecoverable, Recoverable
<1>9. IssueExtends'
  BY <1>1, <1>3, <1>4, <1>6 DEF IssueExtends, PhTypes
<1>10. RetiredIsDone'
  <2>1. phCredit' => phCredit
    BY DEF CreditClears, PhTick, PhCrash, PhRestart, phVars
  <2> QED
    BY <1>1, <1>3, <1>4, <2>1 DEF RetiredIsDone, PhTypes
<1>11. ASSUME ~phUp' => phCrashed' > 0,
              \A h \in Hashes : phCredit' /\ phCrashed' = 0 /\ WindowOver(h)' =>
                                    phCredit /\ phCrashed = 0 /\ WindowOver(h)
       PROVE  RefusedIsTold'
  <2>1. \A h \in Hashes : phRefused[h] # Never => phRefused[h] <= phNow'
    BY <1>2 DEF RefusedIsTold, PhTypes
  <2> QED
    BY <1>1, <1>4, <1>11, <2>1 DEF RefusedIsTold
<1>12. RefusedIsTold'
  <2>1. CASE PhTick
    <3>1. /\ phUp => phPolled
          /\ phNow' = phNow + 1 /\ UNCHANGED <<phCredit, phUp, phCrashed>>
      BY <2>1 DEF PhTick
    <3>2. ~phPolled'
      BY <2>1 DEF PhTick
    <3>3. ASSUME NEW h \in Hashes, phCrashed = 0, WindowOver(h)' PROVE WindowOver(h)
      <4>1. phPolled
        BY <3>1, <3>3 DEF RefusedIsTold, PhTypes
      <4>2. phIndex[h] + PollGrace < phNow + 1
        BY <1>1, <3>1, <3>2, <3>3 DEF WindowOver
      <4>3. phIndex[h] \in Int /\ PollGrace \in Int /\ phNow \in Int
        BY PhoenixdReceiveAssumption DEF PhTypes, Never
      <4>4. phIndex[h] + PollGrace < phNow \/ phIndex[h] + PollGrace = phNow
        <5>1. \A i, j, n \in Int : i + j < n + 1 => i + j < n \/ i + j = n
          OBVIOUS
        <5> QED
          BY <4>2, <4>3, <5>1, Zenon
      <4> QED
        BY <4>1, <4>4 DEF WindowOver
    <3>4. ~phUp' => phCrashed' > 0
      BY <3>1 DEF RefusedIsTold
    <3> QED
      BY <1>11, <3>1, <3>3, <3>4
  <2>2. CASE PhCrash
    <3>1. phCrashed' = phCrashed + 1
      BY <2>2 DEF PhCrash
    <3>2. phCrashed' > 0
      BY <3>1 DEF PhTypes
    <3> QED
      BY <1>11, <3>2
  <2>3. CASE CreditClears \/ PhRestart \/ UNCHANGED phVars
    <3>1. UNCHANGED <<phNow, phPolled, phCrashed>> /\ (~phUp' => ~phUp) /\ (phCredit' => phCredit)
      BY <2>3 DEF CreditClears, PhRestart, phVars, phTime, phMem
    <3>2. \A h \in Hashes : WindowOver(h)' <=> WindowOver(h)
      BY <1>1, <3>1 DEF WindowOver
    <3>3. ~phUp' => phCrashed' > 0
      BY <3>1 DEF RefusedIsTold
    <3> QED
      BY <1>11, <3>1, <3>2, <3>3
  <2> QED
    BY <2>1, <2>2, <2>3
<1> QED
  BY <1>7, <1>8, <1>9, <1>10, <1>12

(* Every step of issuance, poll, deciders and surroundings.                *)
LEMMA PhInvStep == PhInv /\ [PhNext]_phVars => PhInv'
BY PhInvResolve, PhInvCommit, PhInvPoll, PhInvDecide, PhInvPays, PhInvAround DEF PhNext

-----------------------------------------------------------------------------
(* lnv2, the pay side.                                                     *)

(* The types of the pay side of lnv2.                                      *)
LpTypes ==
    /\ lpRow \in [LnKeys -> [st : {"none", "PREPARED", "PENDING", "SUCCEEDED", "FAILED"},
                             op : {0, Sentinel}]]
    /\ lpOps \in [Attempts -> [st : {"none", "pending", "success", "refunded"},
                               by : LnKeys \cup {LnNoKey}]]
    /\ lpCall = NoCall \/ lpCall \in [key : LnKeys, pc : {"send", "fund", "bind"}]
    /\ lpAwait \subseteq [key : LnKeys, op : {0}]

(* Only the first attempt is ever used; a row that claims it owns it, and  *)
(* while it is live its key's row claims it.                               *)
OneAttempt ==
    /\ lpOps[1] = NoOp
    /\ OpLive(0) => /\ lpOps[0].by \in LnKeys
                    /\ lpRow[lpOps[0].by].st \in {"PREPARED", "PENDING", "SUCCEEDED"}
    /\ \A k \in LnKeys :
          /\ lpRow[k].st \in {"PREPARED", "PENDING", "SUCCEEDED"} => lpRow[k].op = 0
          /\ lpRow[k].st = "PENDING" => lpOps[0].st # "none" /\ lpOps[0].by = k
          /\ lpRow[k].st = "SUCCEEDED" => lpOps[0].st = "success" /\ lpOps[0].by = k

(* What the call under pay_start_lock knows: nothing was funded until it   *)
(* funds, and then the operation is its own.                               *)
LpCallKnows ==
    lpCall # NoCall =>
        /\ lpRow[lpCall.key].st = "PREPARED"
        /\ lpCall.pc \in {"send", "fund"} => lpOps[0].st = "none"
        /\ lpCall.pc = "bind" => lpOps[0].st # "none" /\ lpOps[0].by = lpCall.key

(* A wait is on its own key's operation, whose row is bound or final.      *)
WaitIsOwn ==
    \A w \in lpAwait : /\ lpOps[0].st # "none" /\ lpOps[0].by = w.key
                       /\ lpRow[w.key].st \in {"PENDING", "SUCCEEDED", "FAILED"}

(* The inductive invariant of the pay side of lnv2.                        *)
Lnv2RowInv == LpTypes /\ OneAttempt /\ LpCallKnows /\ WaitIsOwn

(* No row and no operation.                                                *)
LEMMA Lnv2RowInvInit == LpInit => Lnv2RowInv
BY DEF LpInit, Lnv2RowInv, LpTypes, OneAttempt, LpCallKnows, WaitIsOwn, NoLpRow, NoOp, OpLive,
   Attempts

(* The rows tell the truth in every state of the invariant.                *)
LEMMA Lnv2RowInvTells == Lnv2RowInv => Lnv2RowIsTruth
<1>1. ASSUME Lnv2RowInv PROVE Lnv2RowIsTruth
  <2>1. \A a \in Attempts : lpOps[a] = [st |-> lpOps[a].st, by |-> lpOps[a].by]
    BY <1>1 DEF Lnv2RowInv, LpTypes
  <2>2. lpOps[1].st = "none" /\ 0 \in Attempts /\ \A a \in Attempts : a = 0 \/ a = 1
    BY <1>1 DEF Lnv2RowInv, OneAttempt, NoOp, Attempts
  <2>3. ASSUME NEW k \in LnKeys, lpRow[k].st = "SUCCEEDED"
        PROVE  lpOps[0] = [st |-> "success", by |-> k]
    BY <1>1, <2>1, <2>2, <2>3 DEF Lnv2RowInv, OneAttempt
  <2> QED
    BY <1>1, <2>2, <2>3 DEF Lnv2RowInv, OneAttempt, Lnv2RowIsTruth, OpLive
<1> QED
  BY <1>1

(* A row step: only row k changes, to r, and no operation.                 *)
LEMMA RowStep ==
  ASSUME Lnv2RowInv, NEW k \in LnKeys, NEW st \in {"PENDING", "SUCCEEDED", "FAILED", "PREPARED"},
         NEW op \in {0, Sentinel}, SetRow(k, st, op), UNCHANGED lpOps,
         st # "FAILED" => op = 0,
         st \in {"PENDING", "SUCCEEDED"} => lpOps[0].st # "none" /\ lpOps[0].by = k,
         st = "SUCCEEDED" => lpOps[0].st = "success",
         st = "FAILED" => ~(OpLive(0) /\ lpOps[0].by = k)
  PROVE  /\ OneAttempt'
         /\ lpRow' \in [LnKeys -> [st : {"none", "PREPARED", "PENDING", "SUCCEEDED", "FAILED"},
                                   op : {0, Sentinel}]]
         /\ lpRow'[k].st = st /\ \A j \in LnKeys \ {k} : lpRow'[j] = lpRow[j]
<1>1. /\ lpRow' \in [LnKeys -> [st : {"none", "PREPARED", "PENDING", "SUCCEEDED", "FAILED"},
                                op : {0, Sentinel}]]
      /\ lpRow'[k] = [st |-> st, op |-> op] /\ \A j \in LnKeys \ {k} : lpRow'[j] = lpRow[j]
  BY DEF SetRow, Lnv2RowInv, LpTypes
<1> QED
  BY <1>1 DEF Lnv2RowInv, OneAttempt, OpLive

(* Every step keeps the rows true.                                         *)
LEMMA Lnv2RowInvStep == Lnv2RowInv /\ [LpNext]_lpVars => Lnv2RowInv'
<1> SUFFICES ASSUME Lnv2RowInv, [LpNext]_lpVars PROVE Lnv2RowInv'
  OBVIOUS
<1>0. LnNoKey \notin LnKeys
  BY Lnv2PayAssumption
<1>1. CASE UNCHANGED <<lpRow, lpOps, lpCall, lpAwait>>
  BY <1>1 DEF Lnv2RowInv, LpTypes, OneAttempt, LpCallKnows, WaitIsOwn, OpLive
<1>2. CASE LpCrash
  BY <1>2 DEF LpCrash, Lnv2RowInv, LpTypes, OneAttempt, LpCallKnows, WaitIsOwn, OpLive
<1>3. ASSUME NEW k \in LnKeys, LpPrepare(k) PROVE Lnv2RowInv'
  <2>1. /\ lpRow[k].st = "none" /\ UNCHANGED <<lpOps, lpCall, lpAwait>> /\ lpCall = NoCall
        /\ SetRow(k, "FAILED", Sentinel) \/ SetRow(k, "PREPARED", 0)
    BY <1>3 DEF LpPrepare
  <2>2. ~(OpLive(0) /\ lpOps[0].by = k)
    BY <2>1 DEF Lnv2RowInv, OneAttempt
  <2>3. /\ OneAttempt'
        /\ lpRow' \in [LnKeys -> [st : {"none", "PREPARED", "PENDING", "SUCCEEDED", "FAILED"},
                                  op : {0, Sentinel}]]
        /\ \A j \in LnKeys \ {k} : lpRow'[j] = lpRow[j]
    BY <2>1, <2>2, RowStep
  <2>4. WaitIsOwn'
    BY <2>1, <2>3 DEF Lnv2RowInv, LpTypes, WaitIsOwn
  <2> QED
    BY <2>1, <2>3, <2>4 DEF Lnv2RowInv, LpTypes, LpCallKnows
<1>4. ASSUME NEW k \in LnKeys, Lnv2PayInner(k) PROVE Lnv2RowInv'
  <2>0. lpCall = NoCall /\ UNCHANGED lpOps
    BY <1>4 DEF Lnv2PayInner
  <2>1. CASE /\ lpRow[k].st = "PENDING"
             /\ lpAwait' = lpAwait \cup {[key |-> k, op |-> lpRow[k].op]}
             /\ UNCHANGED <<lpRow, lpCall>>
    <3>1. lpRow[k].op = 0 /\ lpOps[0].st # "none" /\ lpOps[0].by = k
      BY <2>1 DEF Lnv2RowInv, OneAttempt
    <3>2. lpAwait' \subseteq [key : LnKeys, op : {0}] /\ WaitIsOwn'
      BY <2>0, <2>1, <3>1 DEF Lnv2RowInv, LpTypes, WaitIsOwn
    <3> QED
      BY <2>0, <2>1, <3>2 DEF Lnv2RowInv, LpTypes, OneAttempt, LpCallKnows, OpLive
  <2>2. CASE /\ lpRow[k].st = "PREPARED" /\ lpOps[0].st = "none"
             /\ lpCall' = [key |-> k, pc |-> "send"]
             /\ UNCHANGED <<lpRow, lpAwait>>
    BY <2>0, <2>2 DEF Lnv2RowInv, LpTypes, OneAttempt, LpCallKnows, WaitIsOwn, OpLive
  <2>3. CASE /\ lpRow[k].st = "PREPARED" /\ lpOps[0].st # "none" /\ lpOps[0].by = k
             /\ SetRow(k, "PENDING", 0)
             /\ lpAwait' = lpAwait \cup {[key |-> k, op |-> 0]}
             /\ UNCHANGED lpCall
    <3>1. /\ OneAttempt' /\ lpRow'[k].st = "PENDING"
          /\ lpRow' \in [LnKeys -> [st : {"none", "PREPARED", "PENDING", "SUCCEEDED", "FAILED"},
                                    op : {0, Sentinel}]]
          /\ \A j \in LnKeys \ {k} : lpRow'[j] = lpRow[j]
      BY <2>0, <2>3, RowStep
    <3>2. WaitIsOwn'
      BY <2>0, <2>3, <3>1 DEF Lnv2RowInv, LpTypes, WaitIsOwn
    <3> QED
      BY <2>0, <2>3, <3>1, <3>2 DEF Lnv2RowInv, LpTypes, LpCallKnows
  <2>4. CASE /\ lpRow[k].st = "PREPARED" /\ lpOps[0].st # "none" /\ lpOps[0].by # k
             /\ SetRow(k, "FAILED", Sentinel)
             /\ UNCHANGED <<lpCall, lpAwait>>
    <3>1. /\ OneAttempt' /\ lpRow'[k].st = "FAILED"
          /\ lpRow' \in [LnKeys -> [st : {"none", "PREPARED", "PENDING", "SUCCEEDED", "FAILED"},
                                    op : {0, Sentinel}]]
          /\ \A j \in LnKeys \ {k} : lpRow'[j] = lpRow[j]
      BY <2>0, <2>4, RowStep
    <3>2. WaitIsOwn'
      BY <2>0, <2>4, <3>1 DEF Lnv2RowInv, LpTypes, WaitIsOwn
    <3> QED
      BY <2>0, <2>4, <3>1, <3>2 DEF Lnv2RowInv, LpTypes, LpCallKnows
  <2> QED
    BY <1>4, <2>1, <2>2, <2>3, <2>4 DEF Lnv2PayInner, PayByStatus
<1>5. ASSUME NEW k \in LnKeys, StartSend(k) \/ Fund(k), lpRow' # lpRow PROVE Lnv2RowInv'
  <2>1. /\ lpCall.key = k /\ lpCall.pc \in {"send", "fund"} /\ lpCall # NoCall
        /\ SetRow(k, "FAILED", 0) /\ lpCall' = NoCall /\ UNCHANGED <<lpOps, lpAwait>>
    BY <1>0, <1>5 DEF StartSend, Fund, NoCall
  <2>2. lpOps[0].st = "none" /\ lpAwait = {}
    BY <2>1 DEF Lnv2RowInv, LpCallKnows, WaitIsOwn
  <2>3. /\ OneAttempt'
        /\ lpRow' \in [LnKeys -> [st : {"none", "PREPARED", "PENDING", "SUCCEEDED", "FAILED"},
                                  op : {0, Sentinel}]]
    BY <2>1, <2>2, RowStep DEF OpLive
  <2> QED
    BY <2>1, <2>2, <2>3 DEF Lnv2RowInv, LpTypes, LpCallKnows, WaitIsOwn
<1>6. ASSUME NEW k \in LnKeys, StartSend(k), lpRow' = lpRow PROVE Lnv2RowInv'
  <2>1. /\ lpCall = [key |-> k, pc |-> "send"] /\ UNCHANGED <<lpRow, lpOps, lpAwait>>
        /\ lpCall' \in {NoCall, [key |-> k, pc |-> "fund"]}
    BY <1>6 DEF StartSend
  <2>2. lpOps[0].st = "none" /\ lpRow[k].st = "PREPARED"
    BY <1>0, <2>1 DEF Lnv2RowInv, LpCallKnows, NoCall
  <2> QED
    BY <2>1, <2>2 DEF Lnv2RowInv, LpTypes, OneAttempt, LpCallKnows, WaitIsOwn, OpLive
<1>7. ASSUME NEW k \in LnKeys, Fund(k), lpRow' = lpRow PROVE Lnv2RowInv'
  <2>1. /\ lpCall = [key |-> k, pc |-> "fund"] /\ UNCHANGED <<lpRow, lpAwait>>
        /\ \/ /\ lpOps' = [lpOps EXCEPT ![NextAttempt] = [st |-> "pending", by |-> k]]
              /\ lpCall' = [key |-> k, pc |-> "bind"]
           \/ lpCall' = NoCall /\ UNCHANGED lpOps
    BY <1>7 DEF Fund
  <2>2. lpOps[0].st = "none" /\ lpRow[k].st = "PREPARED" /\ NextAttempt = 0 /\ lpAwait = {}
    BY <1>0, <2>1 DEF Lnv2RowInv, LpCallKnows, NoCall, NextAttempt, WaitIsOwn
  <2>3. CASE lpCall' = NoCall /\ UNCHANGED lpOps
    BY <2>1, <2>2, <2>3 DEF Lnv2RowInv, LpTypes, OneAttempt, LpCallKnows, WaitIsOwn, OpLive
  <2>4. CASE /\ lpOps' = [lpOps EXCEPT ![0] = [st |-> "pending", by |-> k]]
             /\ lpCall' = [key |-> k, pc |-> "bind"]
    <3>1. /\ lpOps' \in [Attempts -> [st : {"none", "pending", "success", "refunded"},
                                      by : LnKeys \cup {LnNoKey}]]
          /\ lpOps'[0] = [st |-> "pending", by |-> k] /\ lpOps'[1] = lpOps[1]
      BY <2>4 DEF Lnv2RowInv, LpTypes, Attempts
    <3>2. \A j \in LnKeys : lpRow[j].st \notin {"PENDING", "SUCCEEDED"}
      BY <2>2 DEF Lnv2RowInv, OneAttempt
    <3>3. OneAttempt'
      BY <2>1, <2>2, <3>1, <3>2 DEF Lnv2RowInv, OneAttempt, OpLive
    <3> QED
      BY <2>1, <2>2, <2>4, <3>1, <3>3 DEF Lnv2RowInv, LpTypes, LpCallKnows, WaitIsOwn
  <2> QED
    BY <2>1, <2>2, <2>3, <2>4
<1>8. ASSUME NEW k \in LnKeys, BindOp(k) PROVE Lnv2RowInv'
  <2>1. /\ lpCall = [key |-> k, pc |-> "bind"] /\ UNCHANGED lpOps
        /\ SetRow(k, "PENDING", 0) /\ lpAwait' = lpAwait \cup {[key |-> k, op |-> 0]}
        /\ lpCall' = NoCall
    BY <1>8 DEF BindOp, Lnv2RowInv, OneAttempt, NoOp
  <2>2. lpOps[0].st # "none" /\ lpOps[0].by = k /\ lpRow[k].st = "PREPARED"
    BY <1>0, <2>1 DEF Lnv2RowInv, LpCallKnows, NoCall
  <2>3. /\ OneAttempt' /\ lpRow'[k].st = "PENDING"
        /\ lpRow' \in [LnKeys -> [st : {"none", "PREPARED", "PENDING", "SUCCEEDED", "FAILED"},
                                  op : {0, Sentinel}]]
        /\ \A j \in LnKeys \ {k} : lpRow'[j] = lpRow[j]
    BY <2>1, <2>2, RowStep
  <2>4. WaitIsOwn'
    BY <2>1, <2>2, <2>3 DEF Lnv2RowInv, LpTypes, WaitIsOwn
  <2> QED
    BY <2>1, <2>3, <2>4 DEF Lnv2RowInv, LpTypes, LpCallKnows
<1>9. CASE AwaitFinal
  <2>1. PICK w \in lpAwait :
          /\ lpAwait' = lpAwait \ {w}
          /\ IF lpRow[w.key].op = w.op /\ lpRow[w.key].st # "none"
             THEN SetRow(w.key, Awaited(w), w.op) ELSE UNCHANGED lpRow
    BY <1>9 DEF AwaitFinal
  <2>2. UNCHANGED <<lpOps, lpCall>>
    BY <1>9 DEF AwaitFinal
  <2>3. /\ w.key \in LnKeys /\ w.op = 0 /\ lpOps[0].st # "none" /\ lpOps[0].by = w.key
        /\ lpRow[w.key].st \in {"PENDING", "SUCCEEDED", "FAILED"}
    BY DEF Lnv2RowInv, LpTypes, WaitIsOwn
  <2>4. CASE UNCHANGED lpRow
    BY <2>1, <2>2, <2>4 DEF Lnv2RowInv, LpTypes, OneAttempt, LpCallKnows, WaitIsOwn, OpLive
  <2>5. CASE SetRow(w.key, Awaited(w), 0)
    <3>1. /\ Awaited(w) \in {"PENDING", "SUCCEEDED", "FAILED"}
          /\ Awaited(w) = "SUCCEEDED" => lpOps[0].st = "success"
          /\ Awaited(w) = "FAILED" => ~OpLive(0)
      <4>1. /\ lpRow[w.key].st = "SUCCEEDED" => lpOps[0].st = "success"
            /\ lpRow[w.key].st = "FAILED" => ~OpLive(0)
        BY <2>3 DEF Lnv2RowInv, OneAttempt
      <4>2. Awaited(w) = IF lpOps[0].st = "success" THEN "SUCCEEDED"
                         ELSE IF lpOps[0].st = "refunded" THEN "FAILED" ELSE lpRow[w.key].st
        BY <2>3 DEF Awaited
      <4> QED
        BY <2>3, <4>1, <4>2 DEF OpLive
    <3>2. /\ OneAttempt' /\ lpRow'[w.key].st = Awaited(w)
          /\ lpRow' \in [LnKeys -> [st : {"none", "PREPARED", "PENDING", "SUCCEEDED", "FAILED"},
                                    op : {0, Sentinel}]]
          /\ \A j \in LnKeys \ {w.key} : lpRow'[j] = lpRow[j]
      BY <2>2, <2>3, <2>5, <3>1, RowStep
    <3>3. WaitIsOwn'
      BY <2>1, <2>2, <3>1, <3>2 DEF Lnv2RowInv, LpTypes, WaitIsOwn
    <3>4. LpCallKnows'
      BY <2>2, <2>3, <3>2 DEF Lnv2RowInv, LpTypes, LpCallKnows, NoCall
    <3> QED
      BY <2>1, <2>2, <3>2, <3>3, <3>4 DEF Lnv2RowInv, LpTypes
  <2> QED
    BY <2>1, <2>3, <2>4, <2>5
<1>10. ASSUME NEW k \in LnKeys, ReapPay(k) PROVE Lnv2RowInv'
  <2>1. /\ lpRow[k].st = "FAILED" /\ lpCall.key # k /\ UNCHANGED <<lpOps, lpCall, lpAwait>>
        /\ \A w \in lpAwait : w.key # k
        /\ lpRow' \in [LnKeys -> [st : {"none", "PREPARED", "PENDING", "SUCCEEDED", "FAILED"},
                                  op : {0, Sentinel}]]
        /\ lpRow'[k] = NoLpRow /\ \A j \in LnKeys \ {k} : lpRow'[j] = lpRow[j]
    BY <1>10 DEF ReapPay, Lnv2RowInv, LpTypes, NoLpRow
  <2>2. OneAttempt'
    BY <2>1 DEF Lnv2RowInv, OneAttempt, OpLive, NoLpRow
  <2>3. WaitIsOwn' /\ LpCallKnows'
    BY <2>1 DEF Lnv2RowInv, LpTypes, WaitIsOwn, LpCallKnows
  <2> QED
    BY <2>1, <2>2, <2>3 DEF Lnv2RowInv, LpTypes
<1>11. CASE OpResolves
  <2>1. PICK a \in Attempts, s \in {"success", "refunded"} :
          lpOps[a].st = "pending" /\ lpOps' = [lpOps EXCEPT ![a].st = s]
    BY <1>11 DEF OpResolves
  <2>2. /\ UNCHANGED <<lpRow, lpCall, lpAwait>> /\ a = 0
        /\ lpOps' \in [Attempts -> [st : {"none", "pending", "success", "refunded"},
                                    by : LnKeys \cup {LnNoKey}]]
        /\ lpOps'[0].st = s /\ lpOps'[0].by = lpOps[0].by /\ lpOps'[1] = lpOps[1]
    BY <1>11, <2>1 DEF OpResolves, Lnv2RowInv, LpTypes, OneAttempt, NoOp, Attempts
  <2>3. \A j \in LnKeys : lpRow[j].st # "SUCCEEDED"
    BY <2>1, <2>2 DEF Lnv2RowInv, OneAttempt
  <2>4. OneAttempt'
    BY <2>1, <2>2, <2>3 DEF Lnv2RowInv, OneAttempt, OpLive
  <2>5. WaitIsOwn' /\ LpCallKnows'
    BY <2>1, <2>2 DEF Lnv2RowInv, WaitIsOwn, LpCallKnows
  <2> QED
    BY <2>2, <2>4, <2>5 DEF Lnv2RowInv, LpTypes
<1> QED
  BY <1>1, <1>2, <1>3, <1>4, <1>5, <1>6, <1>7, <1>8, <1>9, <1>10, <1>11
  DEF LpNext, lpVars, GatewayChanges, LpRestart

-----------------------------------------------------------------------------
(* phoenixd, the pay side.                                                 *)

(* The steps of a pay call.                                                *)
Busy == {"probe", "start", "post", "await"}

(* The types of the pay side of phoenixd.                                  *)
PayTypes ==
    /\ ppRow \in [PayKeys -> [st : {"none", "PREPARED", "SUCCEEDED", "FAILED"},
                              node : Wallets \cup {NoWallet}]]
    /\ ppOut \in [Wallets -> [st : {"none", "flying", "paid", "failed"},
                              by : PayKeys \cup {NoKey}]]
    /\ ppWire \subseteq [key : PayKeys, node : Wallets]
    /\ ppPay = PayIdle \/ (ppPay \in [key : PayKeys, pc : Busy] /\ ppUp)
    /\ ppWallet \in Wallets /\ ppUp \in BOOLEAN

(* One key at most holds the hash, and a record of the wallet that is live *)
(* is that key's, at the wallet its row names.                             *)
HeldByOne ==
    /\ \A j, k \in PayKeys :
          ppRow[j].st \in {"PREPARED", "SUCCEEDED"} /\ ppRow[k].st \in {"PREPARED", "SUCCEEDED"}
             => j = k
    /\ \A n \in Wallets : Live(n) =>
          /\ ppOut[n].by \in PayKeys
          /\ ppRow[ppOut[n].by].st \in {"PREPARED", "SUCCEEDED"}
          /\ ppRow[ppOut[n].by].node = n

(* What the call under pay_start_lock knows.                               *)
CallKnows ==
    \A k \in PayKeys :
       /\ PayAt(k, "probe") => ppRow[k].st = "PREPARED"
       /\ PayAt(k, "start") => /\ ppRow[k].st \in {"PREPARED", "FAILED"}
                               /\ \A n \in Wallets : Live(n) => ppOut[n].by # k
       /\ PayAt(k, "post") \/ PayAt(k, "await") =>
             ppRow[k] = [st |-> "PREPARED", node |-> ppWallet]

(* A request on the wire is the running call's.                            *)
WireIsCalls == \A w \in ppWire : PayAt(w.key, "await") /\ w.node = ppWallet

(* The inductive invariant of the pay side of phoenixd: a row that says    *)
(* paid has its record.                                                    *)
PayRowInv ==
    /\ PayTypes /\ HeldByOne /\ CallKnows /\ WireIsCalls
    /\ \A k \in PayKeys : ppRow[k].st = "SUCCEEDED" =>
          \E n \in Wallets : ppOut[n].st = "paid" /\ ppOut[n].by = k

(* No row, no record, no call.                                             *)
LEMMA PayRowInvInit == PayInit => PayRowInv
BY PhoenixdPayAssumption DEF PayInit, PayRowInv, PayTypes, HeldByOne, CallKnows, WireIsCalls,
   NoPayRow, NoRecord, PayIdle, Live, PayAt

(* The rows tell the truth in every state of the invariant.                *)
LEMMA PayRowInvTells == PayRowInv => PayRowIsTruth
<1> SUFFICES ASSUME PayRowInv PROVE PayRowIsTruth
  OBVIOUS
<1>1. ASSUME NEW k \in PayKeys, ppRow[k].st = "SUCCEEDED"
      PROVE  \E n \in Wallets : ppOut[n] = [st |-> "paid", by |-> k]
  <2>1. PICK n \in Wallets : ppOut[n].st = "paid" /\ ppOut[n].by = k
    BY <1>1 DEF PayRowInv
  <2>2. ppOut[n] = [st |-> "paid", by |-> k]
    BY <2>1 DEF PayRowInv, PayTypes
  <2> QED
    BY <2>2
<1>2. ASSUME NEW k \in PayKeys, ppRow[k].st = "FAILED"
      PROVE  /\ \A n \in Wallets : Live(n) => ppOut[n].by # k
             /\ \A w \in ppWire : w.key # k
  BY <1>2 DEF PayRowInv, HeldByOne, CallKnows, WireIsCalls, PayTypes
<1>3. \A m, n \in Wallets : Live(m) /\ Live(n) => m = n
  BY DEF PayRowInv, HeldByOne
<1> QED
  BY <1>1, <1>2, <1>3 DEF PayRowIsTruth

(* The lock has one holder at one place.                                   *)
LEMMA PayAtOne ==
  ASSUME NEW j, NEW k, NEW p, NEW q, PayAt(j, p), PayAt(k, q)
  PROVE  j = k /\ p = q
BY DEF PayAt

(* Every step keeps the rows true.                                         *)
LEMMA PayRowInvStep == PayRowInv /\ [PayNext]_ppVars => PayRowInv'
<1> SUFFICES ASSUME PayRowInv, [PayNext]_ppVars PROVE PayRowInv'
  OBVIOUS
<1> DEFINE RowType == [st : {"none", "PREPARED", "SUCCEEDED", "FAILED"},
                       node : Wallets \cup {NoWallet}]
           Holds(k) == ppRow[k].st \in {"PREPARED", "SUCCEEDED"}
<1>0. NoWallet \notin Wallets /\ NoKey \notin PayKeys
  BY PhoenixdPayAssumption
<1>1. CASE UNCHANGED <<ppRow, ppOut, ppWire, ppPay, ppWallet, ppUp>>
  BY <1>1 DEF PayRowInv, PayTypes, HeldByOne, CallKnows, WireIsCalls, Live, PayAt
<1>2. CASE PayCrash \/ PayRestart
  <2>1. /\ UNCHANGED <<ppRow, ppOut>> /\ ppPay' = PayIdle /\ ppWire' = {}
        /\ ppWallet' \in Wallets /\ ppUp' \in BOOLEAN
    <3>1. ~ppUp => ppPay = PayIdle
      BY DEF PayRowInv, PayTypes
    <3>2. ASSUME ppPay = PayIdle PROVE ppWire = {}
      <4>1. ppPay.pc # "await"
        BY <3>2 DEF PayIdle
      <4>2. \A w \in ppWire : ppPay.pc = "await"
        BY DEF PayRowInv, WireIsCalls, PayAt
      <4> QED
        BY <4>1, <4>2
    <3>3. ppWallet \in Wallets
      BY DEF PayRowInv, PayTypes
    <3> QED
      BY <1>2, <3>1, <3>2, <3>3 DEF PayCrash, PayRestart
  <2>2. \A k \in PayKeys, pc \in Busy : ~PayAt(k, pc)'
    BY <1>0, <2>1 DEF PayAt, PayIdle
  <2> QED
    BY <2>1, <2>2 DEF PayRowInv, PayTypes, HeldByOne, CallKnows, WireIsCalls, Live, Busy
<1>3. ASSUME NEW k \in PayKeys, NEW r \in RowType,
             ppRow' = [ppRow EXCEPT ![k] = r], UNCHANGED <<ppOut, ppWire, ppWallet, ppUp>>,
             ppWire = {},
             r.st # "none", ppRow[k].st # "SUCCEEDED",
             ppPay' = PayIdle \/ (ppPay' = [key |-> k, pc |-> "post"] /\ ppUp),
             ppPay' # PayIdle => r = [st |-> "PREPARED", node |-> ppWallet],
             r.st \in {"PREPARED", "SUCCEEDED"} => \A j \in PayKeys \ {k} : ~Holds(j),
             \A n \in Wallets : Live(n) /\ ppOut[n].by = k =>
                r.st \in {"PREPARED", "SUCCEEDED"} /\ r.node = n,
             r.st = "SUCCEEDED" => \E n \in Wallets : ppOut[n].st = "paid" /\ ppOut[n].by = k
      PROVE  PayRowInv'
  <2>1. /\ ppRow'[k] = r /\ \A j \in PayKeys \ {k} : ppRow'[j] = ppRow[j]
        /\ ppRow' \in [PayKeys -> RowType]
    BY <1>3 DEF PayRowInv, PayTypes
  <2>2. PayTypes'
    BY <1>3, <2>1 DEF PayRowInv, PayTypes, Busy
  <2>3. HeldByOne'
    <3>1. \A n \in Wallets : Live(n)' <=> Live(n)
      BY <1>3 DEF Live
    <3> QED
      BY <1>3, <2>1, <3>1 DEF PayRowInv, HeldByOne
  <2>4. CallKnows'
    BY <1>0, <1>3, <2>1 DEF CallKnows, PayAt, PayIdle
  <2> QED
    BY <1>3, <2>1, <2>2, <2>3, <2>4 DEF PayRowInv, WireIsCalls
<1>4. ASSUME NEW k \in PayKeys, PhPreparePay(k) PROVE PayRowInv'
  <2>1. /\ ppPay = PayIdle /\ ppPay' = PayIdle /\ UNCHANGED <<ppOut, ppWire, ppWallet, ppUp>>
        /\ ppRow[k].st \in {"none", "FAILED"} /\ ppWire = {}
        /\ IF Collides(k) THEN UpsertFailed(k) ELSE UpsertPrepared(k, ppWallet)
    BY <1>0, <1>4 DEF PhPreparePay, ppEnv, PayRowInv, PayTypes, WireIsCalls, PayAt, PayIdle
  <2>2. \A n \in Wallets : Live(n) => ppOut[n].by # k
    BY <2>1 DEF PayRowInv, HeldByOne
  <2>3. CASE Collides(k)
    <3>1. ppRow' = [ppRow EXCEPT ![k] = [ppRow[k] EXCEPT !.st = "FAILED"]]
      BY <2>1, <2>3 DEF UpsertFailed
    <3>2. /\ [ppRow[k] EXCEPT !.st = "FAILED"] \in RowType
          /\ [ppRow[k] EXCEPT !.st = "FAILED"].st = "FAILED"
      BY DEF PayRowInv, PayTypes
    <3> QED
      BY <1>3, <2>1, <2>2, <3>1, <3>2
  <2>4. CASE ~Collides(k)
    <3> DEFINE r == [st |-> "PREPARED", node |-> ppWallet]
    <3>1. ppRow' = [ppRow EXCEPT ![k] = r]
      BY <2>1, <2>4 DEF UpsertPrepared
    <3>2. \A j \in PayKeys \ {k} : ~Holds(j)
      BY <2>4 DEF Collides
    <3>3. r \in RowType /\ r.st = "PREPARED"
      BY DEF PayRowInv, PayTypes
    <3> HIDE DEF r
    <3> QED
      BY <1>3, <2>1, <2>2, <3>1, <3>2, <3>3
  <2> QED
    BY <2>3, <2>4
<1>5. ASSUME NEW k \in PayKeys, PayInner(k) PROVE PayRowInv'
  <2>1. /\ ppPay = PayIdle /\ UNCHANGED <<ppRow, ppOut, ppWire, ppWallet, ppUp>> /\ ppUp
        /\ \/ ppRow[k].st = "PREPARED" /\ ppPay' = [key |-> k, pc |-> "probe"]
           \/ ppRow[k].st = "FAILED" /\ ppPay' = [key |-> k, pc |-> "start"]
    BY <1>5 DEF PayInner, ppEnv, Goto
  <2>2. ppWire = {}
    BY <1>0, <2>1 DEF PayRowInv, PayTypes, WireIsCalls, PayAt, PayIdle
  <2>3. ppRow[k].st = "FAILED" => \A n \in Wallets : Live(n) => ppOut[n].by # k
    BY DEF PayRowInv, HeldByOne
  <2>4. PayTypes' /\ HeldByOne' /\ WireIsCalls'
    BY <2>1, <2>2 DEF PayRowInv, PayTypes, HeldByOne, WireIsCalls, Live, Busy
  <2>5. CallKnows'
    BY <2>1, <2>3 DEF CallKnows, PayAt, Live
  <2> QED
    BY <2>1, <2>4, <2>5 DEF PayRowInv
<1>6. ASSUME NEW k \in PayKeys, PayAt(k, "probe") \/ PayAt(k, "await"),
             UNCHANGED <<ppOut, ppWallet, ppUp>>, ppWire' = {}, ppPay' = PayIdle,
             \/ UNCHANGED ppRow
             \/ /\ ppOut[ppWallet].st = "paid"
                /\ ppRow' = [ppRow EXCEPT ![k].st = "SUCCEEDED"]
      PROVE  PayRowInv'
  <2>0. ppWallet \in Wallets /\ ppRow[k].st = "PREPARED" /\ ppRow[k] \in RowType
    BY <1>6 DEF PayRowInv, PayTypes, CallKnows
  <2>1. CASE UNCHANGED ppRow
    <3>1. \A j \in PayKeys, pc \in Busy : ~PayAt(j, pc)'
      BY <1>0, <1>6 DEF PayAt, PayIdle
    <3> QED
      BY <1>6, <2>1, <3>1 DEF PayRowInv, PayTypes, HeldByOne, CallKnows, WireIsCalls, Live, Busy
  <2>2. CASE ppOut[ppWallet].st = "paid" /\ ppRow' = [ppRow EXCEPT ![k].st = "SUCCEEDED"]
    <3>1. ppOut[ppWallet].by = k
      BY <2>0, <2>2 DEF PayRowInv, HeldByOne, Live
    <3>2. /\ ppRow'[k].st = "SUCCEEDED" /\ ppRow'[k].node = ppRow[k].node
          /\ \A j \in PayKeys \ {k} : ppRow'[j] = ppRow[j]
          /\ ppRow' \in [PayKeys -> RowType]
      BY <2>0, <2>2 DEF PayRowInv, PayTypes
    <3>3. \A j \in PayKeys, pc \in Busy : ~PayAt(j, pc)'
      BY <1>0, <1>6 DEF PayAt, PayIdle
    <3>4. HeldByOne'
      <4>1. \A n \in Wallets : Live(n)' <=> Live(n)
        BY <1>6 DEF Live
      <4> QED
        BY <1>6, <2>0, <3>2, <4>1 DEF PayRowInv, HeldByOne
    <3>5. PayTypes' /\ CallKnows' /\ WireIsCalls'
      BY <1>6, <3>2, <3>3 DEF PayRowInv, PayTypes, CallKnows, WireIsCalls, Busy
    <3>6. \A j \in PayKeys : ppRow'[j].st = "SUCCEEDED" =>
             \E n \in Wallets : ppOut'[n].st = "paid" /\ ppOut'[n].by = j
      BY <1>6, <2>0, <2>2, <3>1, <3>2 DEF PayRowInv
    <3> QED
      BY <3>4, <3>5, <3>6 DEF PayRowInv
  <2> QED
    BY <1>6, <2>1, <2>2
<1>7. ASSUME NEW k \in PayKeys, PayProbe(k) PROVE PayRowInv'
  <2>1. /\ PayAt(k, "probe") /\ UNCHANGED <<ppOut, ppWire, ppWallet, ppUp>>
        /\ Probed(k) \/ (ppPay' = PayIdle /\ UNCHANGED ppRow)
    BY <1>7 DEF PayProbe, ppEnv
  <2>2. ppWire = {} /\ ppUp /\ ppRow[k].st = "PREPARED" /\ ppWallet \in Wallets
    <3>1. ppWire = {}
      BY <2>1, PayAtOne DEF PayRowInv, WireIsCalls
    <3>2. ppUp
      BY <1>0, <2>1 DEF PayRowInv, PayTypes, PayAt, PayIdle
    <3> QED
      BY <2>1, <3>1, <3>2 DEF PayRowInv, PayTypes, CallKnows
  <2>3. CASE ppPay' = PayIdle
    <3>1. \/ UNCHANGED ppRow
          \/ ppOut[ppWallet].st = "paid" /\ ppRow' = [ppRow EXCEPT ![k].st = "SUCCEEDED"]
      BY <2>1 DEF Probed
    <3> QED
      BY <1>6, <2>1, <2>2, <2>3, <3>1
  <2>4. CASE ppPay' # PayIdle
    <3>1. /\ ppOut[ppWallet].st = "none" /\ ppRow[k].node = ppWallet /\ UNCHANGED ppRow
          /\ ppPay' = [key |-> k, pc |-> "start"]
      BY <2>1, <2>4 DEF Probed, Goto
    <3>2. \A n \in Wallets : Live(n) => ppOut[n].by # k
      BY <3>1 DEF PayRowInv, HeldByOne, Live
    <3>3. PayTypes' /\ HeldByOne' /\ WireIsCalls'
      BY <2>1, <2>2, <3>1 DEF PayRowInv, PayTypes, HeldByOne, WireIsCalls, Live, Busy
    <3>4. CallKnows'
      BY <2>1, <2>2, <3>1, <3>2 DEF CallKnows, PayAt, Live
    <3> QED
      BY <2>1, <3>1, <3>3, <3>4 DEF PayRowInv
  <2> QED
    BY <2>3, <2>4
<1>8. ASSUME NEW k \in PayKeys, StartPay(k) PROVE PayRowInv'
  <2>1. PayAt(k, "start") /\ UNCHANGED <<ppOut, ppWire, ppWallet, ppUp>>
    BY <1>8 DEF StartPay, ppEnv
  <2>2. /\ ppWire = {} /\ ppUp /\ ppRow[k].st \in {"PREPARED", "FAILED"} /\ ppWallet \in Wallets
        /\ \A n \in Wallets : Live(n) => ppOut[n].by # k
    <3>1. ppWire = {}
      BY <2>1, PayAtOne DEF PayRowInv, WireIsCalls
    <3>2. ppUp
      BY <1>0, <2>1 DEF PayRowInv, PayTypes, PayAt, PayIdle
    <3> QED
      BY <2>1, <3>1, <3>2 DEF PayRowInv, PayTypes, CallKnows
  <2>3. CASE UpsertFailed(k) /\ ppPay' = PayIdle
    <3>1. ppRow' = [ppRow EXCEPT ![k] = [ppRow[k] EXCEPT !.st = "FAILED"]]
      BY <2>2, <2>3 DEF UpsertFailed
    <3>2. /\ [ppRow[k] EXCEPT !.st = "FAILED"] \in RowType
          /\ [ppRow[k] EXCEPT !.st = "FAILED"].st = "FAILED"
      BY DEF PayRowInv, PayTypes
    <3> QED
      BY <1>3, <2>1, <2>2, <2>3, <3>1, <3>2
  <2>4. CASE ~Refuses(k) /\ UpsertPrepared(k, ppWallet) /\ Goto(k, "post")
    <3>1. ppRow' = [ppRow EXCEPT ![k] = [st |-> "PREPARED", node |-> ppWallet]]
      BY <2>2, <2>4 DEF UpsertPrepared
    <3>2. \A j \in PayKeys \ {k} : ~Holds(j)
      BY <2>4 DEF Refuses, Collides
    <3>3. [st |-> "PREPARED", node |-> ppWallet] \in RowType
      BY <2>2
    <3>4. ppPay' = [key |-> k, pc |-> "post"]
      BY <2>4 DEF Goto
    <3> QED
      BY <1>3, <2>1, <2>2, <3>1, <3>2, <3>3, <3>4
  <2>5. CASE ppPay' = PayIdle /\ UNCHANGED ppRow
    <3>1. \A j \in PayKeys, pc \in Busy : ~PayAt(j, pc)'
      BY <1>0, <2>5 DEF PayAt, PayIdle
    <3> QED
      BY <2>1, <2>2, <2>5, <3>1
      DEF PayRowInv, PayTypes, HeldByOne, CallKnows, WireIsCalls, Live, Busy
  <2> QED
    BY <1>8, <2>3, <2>4, <2>5 DEF StartPay
<1>9. ASSUME NEW k \in PayKeys, PostPay(k) PROVE PayRowInv'
  <2>1. /\ PayAt(k, "post") /\ UNCHANGED <<ppRow, ppOut, ppWallet, ppUp>>
        /\ ppWire' = ppWire \cup {[key |-> k, node |-> ppWallet]}
        /\ ppPay' = [key |-> k, pc |-> "await"]
    BY <1>9 DEF PostPay, ppEnv, Goto
  <2>2. /\ ppWire = {} /\ ppUp /\ ppRow[k] = [st |-> "PREPARED", node |-> ppWallet]
        /\ ppWallet \in Wallets
    <3>1. ppWire = {}
      BY <2>1, PayAtOne DEF PayRowInv, WireIsCalls
    <3>2. ppUp
      BY <1>0, <2>1 DEF PayRowInv, PayTypes, PayAt, PayIdle
    <3> QED
      BY <2>1, <3>1, <3>2 DEF PayRowInv, PayTypes, CallKnows
  <2>3. PayTypes' /\ HeldByOne'
    BY <2>1, <2>2 DEF PayRowInv, PayTypes, HeldByOne, Live, Busy
  <2>4. CallKnows' /\ WireIsCalls'
    BY <2>1, <2>2 DEF CallKnows, WireIsCalls, PayAt
  <2> QED
    BY <2>1, <2>3, <2>4 DEF PayRowInv
<1>10. ASSUME NEW k \in PayKeys, PayAnswer(k) PROVE PayRowInv'
  BY <1>6, <1>10 DEF PayAnswer, Answered, ppEnv
<1>11. CASE PostArrives
  <2>1. PICK w \in ppWire :
          /\ ppWire' = ppWire \ {w}
          /\ ppOut' = IF ppExpired \/ Live(w.node) THEN ppOut
                      ELSE [ppOut EXCEPT ![w.node] = [st |-> "flying", by |-> w.key]]
    BY <1>11 DEF PostArrives
  <2>2. UNCHANGED <<ppRow, ppPay, ppWallet, ppUp>>
    BY <1>11 DEF PostArrives, ppEnv
  <2>3. /\ w.key \in PayKeys /\ w.node = ppWallet /\ ppWallet \in Wallets /\ PayAt(w.key, "await")
        /\ ppRow[w.key] = [st |-> "PREPARED", node |-> ppWallet]
    BY DEF PayRowInv, PayTypes, WireIsCalls, CallKnows
  <2>4. CASE UNCHANGED ppOut
    BY <2>1, <2>2, <2>4 DEF PayRowInv, PayTypes, HeldByOne, CallKnows, WireIsCalls, Live, PayAt
  <2>5. CASE /\ ~Live(ppWallet)
             /\ ppOut' = [ppOut EXCEPT ![ppWallet] = [st |-> "flying", by |-> w.key]]
    <3>1. /\ ppOut'[ppWallet].st = "flying" /\ ppOut'[ppWallet].by = w.key
          /\ \A n \in Wallets \ {ppWallet} : ppOut'[n] = ppOut[n]
      BY <2>3, <2>5 DEF PayRowInv, PayTypes
    <3>2. PayTypes'
      BY <2>1, <2>2, <2>3, <2>5 DEF PayRowInv, PayTypes
    <3>3. HeldByOne'
      BY <2>2, <2>3, <3>1 DEF PayRowInv, HeldByOne, Live
    <3>4. CallKnows' /\ WireIsCalls'
      <4>1. \A j \in PayKeys, pc \in Busy : PayAt(j, pc)' => j = w.key /\ pc = "await"
        BY <2>2, <2>3 DEF PayAt
      <4> QED
        BY <2>1, <2>2, <2>3, <4>1 DEF PayRowInv, CallKnows, WireIsCalls, PayAt, Busy
    <3>5. \A j \in PayKeys : ppRow'[j].st = "SUCCEEDED" =>
             \E n \in Wallets : ppOut'[n].st = "paid" /\ ppOut'[n].by = j
      BY <2>2, <2>5, <3>1 DEF PayRowInv, Live
    <3> QED
      BY <3>2, <3>3, <3>4, <3>5 DEF PayRowInv
  <2> QED
    BY <2>1, <2>3, <2>4, <2>5
<1>12. CASE WalletResolves
  <2>1. PICK m \in Wallets, s \in {"paid", "failed"} :
          ppOut[m].st = "flying" /\ ppOut' = [ppOut EXCEPT ![m].st = s]
    BY <1>12 DEF WalletResolves
  <2>2. /\ UNCHANGED <<ppRow, ppWire, ppPay, ppWallet, ppUp>>
        /\ ppOut'[m].st = s /\ ppOut'[m].by = ppOut[m].by
        /\ \A n \in Wallets \ {m} : ppOut'[n] = ppOut[n]
    BY <1>12, <2>1 DEF WalletResolves, ppEnv, PayRowInv, PayTypes
  <2>3. PayTypes'
    BY <2>1, <2>2 DEF PayRowInv, PayTypes
  <2>4. HeldByOne' /\ \A n \in Wallets : Live(n)' => Live(n) /\ ppOut'[n].by = ppOut[n].by
    BY <2>1, <2>2 DEF PayRowInv, HeldByOne, Live
  <2>5. CallKnows' /\ WireIsCalls'
    BY <2>2, <2>4 DEF PayRowInv, CallKnows, WireIsCalls, PayAt
  <2>6. \A j \in PayKeys : ppRow'[j].st = "SUCCEEDED" =>
             \E n \in Wallets : ppOut'[n].st = "paid" /\ ppOut'[n].by = j
    BY <2>1, <2>2 DEF PayRowInv
  <2> QED
    BY <2>3, <2>4, <2>5, <2>6 DEF PayRowInv
<1> QED
  BY <1>1, <1>2, <1>4, <1>5, <1>7, <1>8, <1>9, <1>10, <1>11, <1>12
  DEF PayNext, ppVars, ppEnv, DestinationExpires

-----------------------------------------------------------------------------
(* What a refund pays out.                                                 *)

(* The search keeps an affordable payout below it and only unaffordable    *)
(* ones above it; the walk keeps the unaffordable ones above it.           *)
QuoteInv ==
    /\ rqKind \in {"lnv2", "phoenixd"}
    /\ rqDefault \in Schedule /\ rqMinimum \in Schedule
    /\ rqGross \in Nat /\ rqDusty \in Nat
    /\ rqLo \in Nat /\ rqHi \in Nat /\ rqNet \in Nat
    /\ rqPc \in {"search", "walk", "quoted"}
    /\ rqPc = "search" =>
          /\ rqLo <= rqHi /\ rqHi <= rqGross /\ Fits(rqLo)
          /\ \A n \in Nat : rqHi < n /\ n <= rqGross => ~Fits(n)
    /\ rqPc = "walk" =>
          /\ rqKind = "lnv2"
          /\ \A n \in Nat : rqNet < n /\ n <= rqGross => Outlay(n) > rqGross * MsatPerSat
    /\ NetIsLargest

(* Division by a positive number is monotone.                              *)
LEMMA DivMonotone ==
  ASSUME NEW a \in Nat, NEW b \in Nat, NEW d \in Nat \ {0}, a <= b
  PROVE  a \div d \in Nat /\ b \div d \in Nat /\ a \div d <= b \div d
OBVIOUS

(* Multiplication by a natural number is monotone.                         *)
LEMMA TimesMonotone ==
  ASSUME NEW a \in Nat, NEW b \in Nat, NEW c \in Nat, a <= b
  PROVE  a * c \in Nat /\ b * c \in Nat /\ a * c <= b * c
OBVIOUS

(* The fee of a schedule grows with the payout, on either backend.         *)
LEMMA FeeMonotone ==
  ASSUME NEW s \in Schedule, NEW a \in Nat, NEW b \in Nat, a <= b
  PROVE  FeeMsat(s, a) \in Nat /\ FeeMsat(s, b) \in Nat /\ FeeMsat(s, a) <= FeeMsat(s, b)
<1>1. PpmScale \in Nat \ {0} /\ s.base \in Nat /\ s.ppm \in Nat
  BY RefundQuoteAssumption DEF Schedule
<1> DEFINE x == a * s.ppm  y == b * s.ppm  p == PpmScale - 1
<1>2. x \in Nat /\ y \in Nat /\ x <= y /\ p \in Nat
  BY <1>1, TimesMonotone
<1>3. FeeMsat(s, a) = IF rqKind = "lnv2" THEN s.base + x \div PpmScale
                      ELSE s.base + (x + p) \div PpmScale
  BY <1>1, <1>2 DEF FeeMsat
<1>4. FeeMsat(s, b) = IF rqKind = "lnv2" THEN s.base + y \div PpmScale
                      ELSE s.base + (y + p) \div PpmScale
  BY <1>1, <1>2 DEF FeeMsat
<1> HIDE DEF x, y, p
<1>5. x \div PpmScale \in Nat /\ y \div PpmScale \in Nat /\ x \div PpmScale <= y \div PpmScale
  BY <1>1, <1>2, DivMonotone
<1>6. /\ (x + p) \div PpmScale \in Nat /\ (y + p) \div PpmScale \in Nat
      /\ (x + p) \div PpmScale <= (y + p) \div PpmScale
  BY <1>1, <1>2, DivMonotone
<1> QED
  BY <1>1, <1>3, <1>4, <1>5, <1>6

(* So does the larger of the two fees.                                     *)
LEMMA WorstFeeMonotone ==
  ASSUME rqDefault \in Schedule, rqMinimum \in Schedule, NEW a \in Nat, NEW b \in Nat, a <= b
  PROVE  WorstFee(a) \in Nat /\ WorstFee(b) \in Nat /\ WorstFee(a) <= WorstFee(b)
BY FeeMonotone DEF WorstFee

(* A payout below an affordable one is affordable: the search may halve.   *)
LEMMA FitsMonotone ==
  ASSUME rqDefault \in Schedule, rqMinimum \in Schedule, rqGross \in Nat,
         NEW m \in Nat, NEW n \in Nat, m <= n, Fits(n)
  PROVE  Fits(m)
<1>0. MsatPerSat \in Nat
  BY RefundQuoteAssumption
<1> DEFINE x == m * MsatPerSat  y == n * MsatPerSat  g == rqGross * MsatPerSat
<1>1. x \in Nat /\ y \in Nat /\ x <= y /\ g \in Nat
  BY <1>0, TimesMonotone
<1>2. Fits(m) <=> m = 0 \/ x + WorstFee(x) <= g
  BY DEF Fits
<1>3. n = 0 \/ y + WorstFee(y) <= g
  BY DEF Fits
<1> HIDE DEF x, y, g
<1>4. WorstFee(x) \in Nat /\ WorstFee(y) \in Nat /\ WorstFee(x) <= WorstFee(y)
  BY <1>1, WorstFeeMonotone
<1> QED
  BY <1>1, <1>2, <1>3, <1>4

(* What the search bounds is never above the real debit, and is the debit  *)
(* on phoenixd.                                                            *)
LEMMA OutlayBounds ==
  ASSUME rqDefault \in Schedule, rqMinimum \in Schedule, rqGross \in Nat, rqDusty \in Nat,
         rqKind \in {"lnv2", "phoenixd"}, NEW n \in Nat
  PROVE  /\ ~Fits(n) => Outlay(n) > rqGross * MsatPerSat
         /\ rqKind = "phoenixd" /\ Fits(n) => Outlay(n) <= rqGross * MsatPerSat
         /\ Outlay(0) <= rqGross * MsatPerSat
         /\ Outlay(n) \in Nat
<1>0. MsatPerSat \in Nat
  BY RefundQuoteAssumption
<1> DEFINE y == n * MsatPerSat  g == rqGross * MsatPerSat
           d == FeeMsat(rqDefault, y)  m == FeeMsat(rqMinimum, y)
<1>1. y \in Nat /\ g \in Nat
  BY <1>0, TimesMonotone
<1>2. d \in Nat /\ m \in Nat
  BY <1>1, FeeMonotone
<1>3. WorstFee(y) = IF rqKind = "phoenixd" \/ d >= m THEN d ELSE m
  BY DEF WorstFee
<1>4. Fits(n) <=> n = 0 \/ y + WorstFee(y) <= g
  BY DEF Fits
<1>5. Outlay(n) = IF n = 0 THEN 0
                  ELSE IF rqKind = "phoenixd" THEN y + WorstFee(y)
                  ELSE IF DebitOf(y + d) >= DebitOf(y + m) THEN DebitOf(y + d)
                  ELSE DebitOf(y + m)
  BY DEF Outlay
<1>6. Outlay(0) = 0
  BY DEF Outlay
<1> HIDE DEF y, g, d, m
<1>7. \A c \in Nat : DebitOf(c) \in Nat /\ DebitOf(c) >= c
  BY DEF DebitOf
<1>8. /\ DebitOf(y + d) \in Nat /\ DebitOf(y + d) >= y + d
      /\ DebitOf(y + m) \in Nat /\ DebitOf(y + m) >= y + m
  BY <1>1, <1>2, <1>7
<1>9. ~Fits(n) => Outlay(n) > g
  BY <1>1, <1>2, <1>3, <1>4, <1>5, <1>8
<1>10. rqKind = "phoenixd" /\ Fits(n) => Outlay(n) <= g
  BY <1>1, <1>2, <1>3, <1>4, <1>5
<1>11. Outlay(n) \in Nat
  BY <1>1, <1>2, <1>3, <1>5, <1>8
<1> QED
  BY <1>1, <1>6, <1>9, <1>10, <1>11 DEF g

(* The whole gross is the interval.                                        *)
LEMMA QuoteInvInit == QuoteInit => QuoteInv
<1> SUFFICES ASSUME QuoteInit PROVE QuoteInv
  OBVIOUS
<1>1. rqGross \in Nat /\ rqGross * MsatPerSat \in Nat
  BY RefundQuoteAssumption, TimesMonotone DEF QuoteInit
<1>2. rqDusty \in Nat
  BY <1>1 DEF QuoteInit
<1> QED
  BY <1>1, <1>2 DEF QuoteInit, QuoteInv, Fits, NetIsLargest

(* Every step of the search and of the walk keeps the answer inside.       *)
LEMMA QuoteInvStep == QuoteInv /\ [QuoteNext]_rqVars => QuoteInv'
<1> SUFFICES ASSUME QuoteInv, [QuoteNext]_rqVars PROVE QuoteInv'
  OBVIOUS
<1>0. /\ UNCHANGED <<rqKind, rqDefault, rqMinimum, rqDusty, rqGross>>
      /\ MsatPerSat \in Nat
  BY RefundQuoteAssumption DEF rqVars, rqPrice, QuoteNext, SearchStep, SearchEnds, WalkDown
<1>1. /\ \A n \in Nat : Fits(n)' <=> Fits(n)
      /\ \A n \in Nat : Outlay(n)' = Outlay(n)
  BY <1>0 DEF Fits, Outlay, WorstFee, FeeMsat, DebitOf
<1>2. CASE UNCHANGED rqVars
  BY <1>0, <1>1, <1>2 DEF rqVars, QuoteInv, NetIsLargest
<1>3. CASE SearchStep
  <2>1. /\ rqPc = "search" /\ rqPc' = "search" /\ rqNet' = rqNet /\ rqLo < rqHi
        /\ IF Fits(Mid) THEN rqLo' = Mid /\ rqHi' = rqHi ELSE rqHi' = Mid - 1 /\ rqLo' = rqLo
    BY <1>3 DEF SearchStep
  <2>2. Mid \in Nat /\ rqLo < Mid /\ Mid <= rqHi
    BY <2>1 DEF QuoteInv, Mid
  <2>3. CASE Fits(Mid)
    BY <1>0, <1>1, <2>1, <2>2, <2>3 DEF QuoteInv, NetIsLargest
  <2>4. CASE ~Fits(Mid)
    <3>1. \A n \in Nat : Mid <= n /\ n <= rqGross => ~Fits(n)
      BY <2>2, <2>4, FitsMonotone DEF QuoteInv
    <3>2. \A n \in Nat : Mid - 1 < n /\ n <= rqGross => ~Fits(n)
      BY <2>2, <3>1
    <3> QED
      BY <1>0, <1>1, <2>1, <2>2, <2>4, <3>2 DEF QuoteInv, NetIsLargest
  <2> QED
    BY <2>3, <2>4
<1>4. CASE SearchEnds
  <2>1. /\ rqPc = "search" /\ rqLo = rqHi /\ rqNet' = rqLo /\ UNCHANGED <<rqLo, rqHi>>
        /\ rqPc' = IF rqKind = "lnv2" THEN "walk" ELSE "quoted"
    BY <1>4 DEF SearchEnds
  <2>2. \A n \in Nat : rqLo < n /\ n <= rqGross => Outlay(n) > rqGross * MsatPerSat
    BY <2>1, OutlayBounds DEF QuoteInv
  <2>3. rqKind = "phoenixd" => Outlay(rqLo) <= rqGross * MsatPerSat
    BY <2>1, OutlayBounds DEF QuoteInv
  <2>4. \A n \in (rqLo + 1) .. rqGross : n \in Nat /\ rqLo < n /\ n <= rqGross
    BY DEF QuoteInv
  <2>5. Outlay(rqLo)' = Outlay(rqLo)
    BY <1>0, <2>1 DEF Outlay, WorstFee, FeeMsat, DebitOf
  <2>6. NetIsLargest'
    BY <1>0, <1>1, <2>1, <2>2, <2>3, <2>4 DEF NetIsLargest, QuoteInv
  <2> QED
    BY <1>0, <1>1, <2>1, <2>2, <2>6 DEF QuoteInv
<1>5. CASE WalkDown
  <2> DEFINE g == rqGross * MsatPerSat
  <2>1. /\ rqPc = "walk" /\ UNCHANGED <<rqLo, rqHi>>
        /\ IF Outlay(rqNet) <= g \/ rqNet = 0
           THEN rqPc' = "quoted" /\ rqNet' = rqNet ELSE rqNet' = rqNet - 1 /\ rqPc' = rqPc
    BY <1>5 DEF WalkDown
  <2>2. \A n \in Nat : rqNet < n /\ n <= rqGross => Outlay(n) > g
    BY <2>1 DEF QuoteInv
  <2>3. CASE Outlay(rqNet) <= g \/ rqNet = 0
    <3>1. Outlay(rqNet) <= g
      BY <2>3, OutlayBounds DEF QuoteInv
    <3>2. \A n \in (rqNet + 1) .. rqGross : n \in Nat /\ rqNet < n /\ n <= rqGross
      BY DEF QuoteInv
    <3>3. NetIsLargest'
      BY <1>0, <1>1, <2>1, <2>2, <2>3, <3>1, <3>2 DEF NetIsLargest, QuoteInv
    <3> QED
      BY <1>0, <2>1, <2>3, <3>3 DEF QuoteInv
  <2>4. CASE ~(Outlay(rqNet) <= g \/ rqNet = 0)
    <3>1. Outlay(rqNet) \in Nat /\ g \in Nat
      BY <1>0, OutlayBounds, TimesMonotone DEF QuoteInv
    <3>2. \A n \in Nat : rqNet - 1 < n /\ n <= rqGross => Outlay(n) > g
      BY <2>2, <2>4, <3>1 DEF QuoteInv
    <3> QED
      BY <1>0, <1>1, <2>1, <2>4, <3>2 DEF QuoteInv, NetIsLargest
  <2> QED
    BY <2>3, <2>4
<1> QED
  BY <1>2, <1>3, <1>4, <1>5 DEF QuoteNext

-----------------------------------------------------------------------------
(* The destination of a refund.                                            *)

(* A call is cut at its deadline, and only vetted addresses are pinned.    *)
ResolverInv ==
    /\ rvClock \in Nat /\ rvStarted \in Nat
    /\ rvPinned \subseteq {"public"} /\ rvContacted \subseteq {"public"}
    /\ InCall => rvClock <= rvStarted + Deadline
    /\ ResolvedIsPayable

(* No call has started.                                                    *)
LEMMA ResolverInvInit == ResolverInit => ResolverInv
BY ResolverAssumption DEF ResolverInit, ResolverInv, InCall, ResolvedIsPayable

(* Every step of a resolution keeps it payable.                            *)
LEMMA ResolverInvStep == ResolverInv /\ [ResolverNext]_rvVars => ResolverInv'
<1> SUFFICES ASSUME ResolverInv, [ResolverNext]_rvVars PROVE ResolverInv'
  OBVIOUS
<1>0. Deadline \in Nat /\ MinTtl \in Nat /\ Deadline < MinTtl
  BY ResolverAssumption
<1>1. CASE UNCHANGED rvVars
  BY <1>1 DEF rvVars, callVars, ResolverInv, InCall, ResolvedIsPayable
<1>2. CASE rvPc' = "parked" \/ rvPc' = "idle"
  <2>1. rvClock' \in Nat /\ rvStarted' = rvStarted /\ rvPinned' = rvPinned
        /\ (rvContacted' = rvContacted \/ rvContacted' \subseteq {"public"})
    BY <1>1, <1>2 DEF rvVars, ResolverNext, StartResolve, VetUrl, Connect, Redirected,
       ResolveRefused, Failed, MetaAnswered, CallbackAnswered, DeadlinePassed, RvTick, StructuralFault,
       Transient,
       Fetch, callVars, ResolverInv, InCall
  <2> QED
    BY <1>2, <2>1 DEF ResolverInv, InCall, ResolvedIsPayable
<1>3. CASE rvPc' \notin {"parked", "idle"}
  <2>1. CASE StartResolve
    BY <1>0, <1>3, <2>1 DEF StartResolve, StructuralFault, Fetch, callVars, ResolverInv, InCall,
       ResolvedIsPayable
  <2>2. CASE VetUrl
    <3>1. /\ rvPc = "vet" /\ UNCHANGED <<rvClock, rvStarted, rvContacted>>
          /\ rvPc' = "connect" /\ rvPinned' \subseteq {"public"}
      BY <1>3, <2>2 DEF VetUrl, StructuralFault, Transient
    <3> QED
      BY <3>1 DEF ResolverInv, InCall, ResolvedIsPayable
  <2>3. CASE Connect
    BY <1>3, <2>3 DEF Connect, callVars, ResolverInv, InCall, ResolvedIsPayable
  <2>4. CASE Redirected
    BY <1>3, <2>4 DEF Redirected, StructuralFault, ResolverInv, InCall, ResolvedIsPayable
  <2>5. CASE MetaAnswered
    <3>1. /\ rvPc = "answer" /\ UNCHANGED <<rvClock, rvStarted, rvContacted>>
          /\ rvPc' = "vet" /\ rvPinned' = {}
      BY <1>3, <2>5 DEF MetaAnswered, StructuralFault, Fetch
    <3> QED
      BY <3>1 DEF ResolverInv, InCall, ResolvedIsPayable
  <2>6. CASE CallbackAnswered
    <3>1. PICK bolt \in [amount : Amounts, hash : Metadatas, expiry : 0 .. (RvLastTick + MinTtl)] :
             /\ ~InvoiceIsWrong(bolt) /\ ~InvoiceIsShort(bolt)
             /\ rvInvoice' = bolt /\ rvPc' = "resolved" /\ UNCHANGED callVars
      BY <1>3, <2>6 DEF CallbackAnswered, StructuralFault, Transient
    <3>2. /\ rvPc = "answer" /\ UNCHANGED <<rvClock, rvForm, rvContacted>>
          /\ UNCHANGED <<rvStarted, rvPinned, rvMeta>>
      BY <2>6, <3>1 DEF CallbackAnswered, callVars
    <3>3. /\ bolt.amount = Owed /\ bolt.hash = rvMeta.metadata
          /\ ~(bolt.expiry < rvStarted + MinTtl) /\ bolt.expiry \in Int
      BY <3>1, ResolverAssumption DEF InvoiceIsWrong, InvoiceIsShort
    <3>4. rvClock <= rvStarted + Deadline /\ rvClock \in Nat /\ rvStarted \in Nat
      BY <3>2 DEF ResolverInv, InCall
    <3>5. rvClock < bolt.expiry
      BY <1>0, <3>3, <3>4
    <3> QED
      BY <3>1, <3>2, <3>3, <3>5 DEF ResolverInv, InCall, ResolvedIsPayable
  <2>7. CASE RvTick
    BY <1>0, <1>3, <2>7 DEF RvTick, callVars, ResolverInv, InCall, ResolvedIsPayable
  <2>8. CASE ResolveRefused \/ Failed \/ DeadlinePassed
    BY <1>3, <2>8 DEF ResolveRefused, Failed, DeadlinePassed, StructuralFault, Transient
  <2> QED
    BY <1>1, <2>1, <2>2, <2>3, <2>4, <2>5, <2>6, <2>7, <2>8 DEF ResolverNext
<1> QED
  BY <1>2, <1>3

-----------------------------------------------------------------------------
(* Each step of the composition is one of a backend, or leaves it alone.   *)
LEMMA EdgePayments ==
    [EdgeNext]_edgeVars =>
        /\ [LnNext]_lnVars
        /\ [PhNext]_phVars
        /\ [LpNext]_lpVars
        /\ [PayNext]_ppVars
        /\ [QuoteNext]_rqVars
        /\ [ResolverNext]_rvVars
BY DEF EdgeNext, Rest, edgeVars

(* What a buyer paid is followed until it is booked, for any number of     *)
(* invoices, crashes and streams (lnv2_backend.rs spawn_receive_task,      *)
(* phoenixd_backend.rs resolve_invoice, poll_settlements_once).            *)
THEOREM ReceiptsAlwaysFollowed == EdgeSpec => []ReceiptsAreFollowed
<1>1. EdgeInit => LnInv
  BY LnInvInit DEF EdgeInit
<1>2. LnInv /\ [EdgeNext]_edgeVars => LnInv'
  BY EdgePayments, LnInvStep
<1>3. EdgeInit => PhInv
  BY PhInvInit DEF EdgeInit
<1>4. PhInv /\ [EdgeNext]_edgeVars => PhInv'
  BY EdgePayments, PhInvStep
<1>5. LnInv /\ PhInv => ReceiptsAreFollowed
  BY LnInvWatches, PhInvTells DEF ReceiptsAreFollowed
<1> QED
  BY <1>1, <1>2, <1>3, <1>4, <1>5, PTL DEF EdgeSpec

(* A terminal pay row says what became of the money, for any keys, wallets *)
(* and gateways (phoenixd_backend.rs pay_inner, lnv2_backend.rs pay_inner).*)
THEOREM PayRowsAlwaysTruth == EdgeSpec => []PayRowsAreTruth
<1>1. EdgeInit => PayRowInv
  BY PayRowInvInit DEF EdgeInit
<1>2. PayRowInv /\ [EdgeNext]_edgeVars => PayRowInv'
  BY EdgePayments, PayRowInvStep
<1>3. EdgeInit => Lnv2RowInv
  BY Lnv2RowInvInit DEF EdgeInit
<1>4. Lnv2RowInv /\ [EdgeNext]_edgeVars => Lnv2RowInv'
  BY EdgePayments, Lnv2RowInvStep
<1>5. PayRowInv /\ Lnv2RowInv => PayRowsAreTruth
  BY PayRowInvTells, Lnv2RowInvTells DEF PayRowsAreTruth
<1> QED
  BY <1>1, <1>2, <1>3, <1>4, <1>5, PTL DEF EdgeSpec

(* The refund is the largest the receipt affords under any fee schedule,   *)
(* and goes to a destination that asks for exactly that (refund_net_sat of *)
(* either backend, refund_resolver.rs resolve).                            *)
THEOREM RefundsAlwaysExact == EdgeSpec => []RefundIsExact
<1>1. EdgeInit => QuoteInv
  BY QuoteInvInit DEF EdgeInit
<1>2. QuoteInv /\ [EdgeNext]_edgeVars => QuoteInv'
  BY EdgePayments, QuoteInvStep
<1>3. EdgeInit => ResolverInv
  BY ResolverInvInit DEF EdgeInit
<1>4. ResolverInv /\ [EdgeNext]_edgeVars => ResolverInv'
  BY EdgePayments, ResolverInvStep
<1>5. QuoteInv /\ ResolverInv => RefundIsExact
  BY DEF QuoteInv, ResolverInv, RefundIsExact
<1> QED
  BY <1>1, <1>2, <1>3, <1>4, <1>5, PTL DEF EdgeSpec
=============================================================================
