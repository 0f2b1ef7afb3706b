----------------------------- MODULE Lnv2Receive -----------------------------
(***************************************************************************)
(* lnv2_backend.rs, the receive side: one external id of a renewal, the    *)
(* correlation row lnv2_invoice beside the invoice of the books, and the   *)
(* tasks that await the terminal state of the federation's operation.      *)
(* lookup_settlement_by_ref reads the correlation row, never the           *)
(* federation, so what the books learn of a payment is what a task wrote.  *)
(* The catch-up (supervisor.rs) and the expiry (reconcile.rs) are the      *)
(* deciders that ask it.                                                   *)
(***************************************************************************)
EXTENDS Integers, FiniteSets

CONSTANTS
    MaxMints,        \* bound: receive operations minted
    LnExpiry,        \* lifetime of an invoice
    IndexRetention,  \* INVOICE_INDEX_RETENTION_SECS
    LnLastTick,      \* bound: the clock
    LnCrashes,       \* bound: crashes
    MaxWatches       \* bound: settlement streams opened

ASSUME Lnv2ReceiveAssumption ==
    /\ {MaxMints, LnExpiry, MaxWatches} \subseteq Nat \ {0}
    /\ {IndexRetention, LnLastTick, LnCrashes} \subseteq Nat

Mints == 1..MaxMints
NoMint == 0
Unstamped == -1

VARIABLES
    lnOp,      \* the federation's operations, with their expiry
    lnShown,   \* the mints whose invoice was committed, and so shown
    lnRow,     \* the lnv2_invoice row
    lnBook,    \* the invoice row of the books
    lnMinted,  \* issue_invoice: minted under the create lease, uncommitted
    lnHook,    \* committed, its watcher not spawned yet
    lnTasks,   \* the running receive tasks
    lnChan,    \* settlements pushed and not captured
    lnWatch,   \* which settlement stream is open; NoMint: the daemon is down
    lnStreams, \* streams opened so far
    lnPhase,   \* watch(): "idle", about to "list" the OPEN rows, or to "spawn"
    lnListed,  \* ... what it listed
    lnExpire,  \* the expiry: the id it looked up as not Paid
    lnNow,
    lnCrashed

lnBooks == <<lnRow, lnBook, lnShown>>
watchVars == <<lnWatch, lnStreams, lnPhase, lnListed>>
lnMem == <<lnMinted, lnHook, lnTasks, lnChan, watchVars, lnExpire>>
lnVars == <<lnOp, lnNow, lnCrashed, lnBooks, lnMem>>

NoLnRow == [op |-> NoMint, status |-> "none", expires |-> 0, settled |-> Unstamped]
NoBook == [id |-> NoMint, status |-> "none", expires |-> 0, settled |-> Unstamped]

(* Paid over Lightning: what follows is the federation's own claim.        *)
LightningPaid(o) == lnOp[o].st \in {"claiming", "claimed", "failed"}

LnInit ==
    /\ lnOp = [o \in Mints |-> [st |-> "none", expires |-> 0]]
    /\ lnShown = {}
    /\ lnRow = NoLnRow
    /\ lnBook = NoBook
    /\ lnMinted = NoMint /\ lnHook = NoMint
    /\ lnTasks = {} /\ lnChan = {}
    /\ lnWatch = 1 /\ lnStreams = 1 /\ lnPhase = "idle" /\ lnListed = NoMint
    /\ lnExpire = NoMint
    /\ lnNow = 0 /\ lnCrashed = 0

-----------------------------------------------------------------------------
(* issue_invoice.                                                          *)

(* A row that is not CANCELED is reused; otherwise mint a fresh operation  *)
(* (receive draws a fresh tweak each time) under the create lease.         *)
IssueInvoice ==
    /\ lnWatch # NoMint
    /\ lnMinted = NoMint /\ lnHook = NoMint
    /\ lnRow.status \in {"none", "CANCELED"}
    /\ \E o \in Mints :
         /\ lnOp[o].st = "none" /\ \A p \in 1..(o - 1) : lnOp[p].st # "none"
         /\ lnOp' = [lnOp EXCEPT ![o] = [st |-> "pending", expires |-> lnNow + LnExpiry]]
         /\ lnMinted' = o
    /\ UNCHANGED <<lnNow, lnCrashed, lnBooks, lnHook, lnTasks, lnChan, watchVars, lnExpire>>

(* upsert_renewal_invoice: refresh a row nothing was booked against.       *)
RefreshedBook(o) ==
    CASE lnBook.status = "none" ->
           [id |-> o, status |-> "OPEN", expires |-> lnOp[o].expires, settled |-> Unstamped]
      [] lnBook.status \notin {"none", "PAID"} /\ lnBook.settled = Unstamped ->
           [lnBook EXCEPT !.id = o, !.expires = lnOp[o].expires,
                          !.status = IF @ = "EXPIRED" THEN "OPEN" ELSE @]
      [] OTHER -> lnBook

(* The caller's commit: idx_insert beside the row of the books.            *)
CommitIssued ==
    /\ lnMinted # NoMint
    /\ lnRow' = [op |-> lnMinted, status |-> "OPEN",
                 expires |-> lnOp[lnMinted].expires, settled |-> Unstamped]
    /\ lnBook' = RefreshedBook(lnMinted)
    /\ lnShown' = lnShown \cup {lnMinted}
    /\ lnHook' = lnMinted
    /\ lnMinted' = NoMint
    /\ UNCHANGED <<lnOp, lnNow, lnCrashed, lnTasks, lnChan, watchVars, lnExpire>>

(* The commit fails: an orphan nobody holds the invoice of.                *)
DropIssued ==
    /\ lnMinted # NoMint
    /\ lnMinted' = NoMint
    /\ UNCHANGED <<lnOp, lnNow, lnCrashed, lnBooks, lnHook, lnTasks, lnChan, watchVars, lnExpire>>

LnTask(o, live, w) == [op |-> o, live |-> live, watch |-> w, found |-> "none", at |-> Unstamped]

(* The hook runs in the store actor after the commit, with the sender      *)
(* registered at that moment.                                              *)
SpawnLive ==
    /\ lnHook # NoMint
    /\ lnTasks' = lnTasks \cup {LnTask(lnHook, TRUE, lnWatch)}
    /\ lnHook' = NoMint
    /\ UNCHANGED <<lnOp, lnNow, lnCrashed, lnBooks, lnMinted, lnChan, watchVars, lnExpire>>

-----------------------------------------------------------------------------
(* spawn_receive_task.                                                     *)

Closed(t) == t.watch # lnWatch

(* A Claimed whose credit cannot be decoded, and a mint Failure, are       *)
(* liabilities.  Only a task that never lost its stream stamps the time.   *)
ReceiveTerminal(t) ==
    /\ t.found = "none"
    /\ \E f \in CASE lnOp[t.op].st = "claimed" -> {"PAID", "PAID_UNRECOVERED"}
                  [] lnOp[t.op].st = "failed" -> {"PAID_UNRECOVERED"}
                  [] lnOp[t.op].st = "expired" -> {"CANCELED"}
                  [] OTHER -> {} :
         lnTasks' = (lnTasks \ {t}) \cup
             {[t EXCEPT !.found = f,
                        !.at = IF f = "PAID" /\ t.live THEN lnNow ELSE Unstamped]}
    /\ UNCHANGED <<lnOp, lnNow, lnCrashed, lnBooks, lnMinted, lnHook, lnChan, watchVars, lnExpire>>

(* Mutant: a failed subscription ends its task.                            *)
StreamErrorGivesUp(t) ==
    /\ t.found = "none"
    /\ lnTasks' = lnTasks \ {t}
    /\ UNCHANGED <<lnOp, lnNow, lnCrashed, lnBooks, lnMinted, lnHook, lnChan, watchVars, lnExpire>>

(* The subscription errs: stop if the watcher is gone, else subscribe      *)
(* again, no longer live.                                                  *)
StreamError(t) ==
    /\ t.found = "none"
    /\ lnTasks' = (lnTasks \ {t}) \cup
           (IF Closed(t) THEN {} ELSE {[t EXCEPT !.live = FALSE]})
    /\ UNCHANGED <<lnOp, lnNow, lnCrashed, lnBooks, lnMinted, lnHook, lnChan, watchVars, lnExpire>>

(* idx_mark_paid, idx_mark_canceled, idx_mark_paid_unrecovered: a CAS on   *)
(* the operation and OPEN.                                                 *)
Marked(t) ==
    IF lnRow.op = t.op /\ lnRow.status = "OPEN"
    THEN [lnRow EXCEPT !.status = t.found, !.settled = IF t.at # Unstamped THEN t.at ELSE @]
    ELSE lnRow

(* persist_receive_terminal, then the push of a live settlement.           *)
PersistTerminal(t) ==
    /\ t.found # "none"
    /\ lnRow' = Marked(t)
    /\ lnChan' = lnChan \cup
           (IF t.at # Unstamped /\ ~Closed(t) THEN {[op |-> t.op, at |-> t.at]} ELSE {})
    /\ lnTasks' = lnTasks \ {t}
    /\ UNCHANGED <<lnOp, lnNow, lnCrashed, lnBook, lnShown, lnMinted, lnHook, watchVars, lnExpire>>

(* The write fails: retried, unless the watcher is gone.                   *)
PersistFails(t) ==
    /\ t.found # "none"
    /\ Closed(t)
    /\ lnTasks' = lnTasks \ {t}
    /\ UNCHANGED <<lnOp, lnNow, lnCrashed, lnBooks, lnMinted, lnHook, lnChan, watchVars, lnExpire>>

(* watch(): register a new stream.  A restarted settlement loop leaves the *)
(* old tasks running; if the list below fails it comes back here.          *)
Watch ==
    /\ lnStreams < MaxWatches
    /\ lnStreams' = lnStreams + 1
    /\ lnWatch' = lnStreams'
    /\ lnPhase' = "list" /\ lnListed' = NoMint
    /\ lnChan' = {}
    /\ UNCHANGED <<lnOp, lnNow, lnCrashed, lnBooks, lnMinted, lnHook, lnTasks, lnExpire>>

(* ... then read the OPEN rows ...                                         *)
WatchLists ==
    /\ lnPhase = "list" /\ lnPhase' = "spawn"
    /\ lnListed' = IF lnRow.status = "OPEN" THEN lnRow.op ELSE NoMint
    /\ UNCHANGED <<lnOp, lnNow, lnCrashed, lnBooks, lnMinted, lnHook, lnTasks, lnChan, lnWatch,
                   lnStreams, lnExpire>>

(* ... and subscribe each again, for recovery.                             *)
WatchSpawns ==
    /\ lnPhase = "spawn" /\ lnPhase' = "idle" /\ lnListed' = NoMint
    /\ lnTasks' = lnTasks \cup
           (IF lnListed # NoMint THEN {LnTask(lnListed, FALSE, lnWatch)} ELSE {})
    /\ UNCHANGED <<lnOp, lnNow, lnCrashed, lnBooks, lnMinted, lnHook, lnChan, lnWatch, lnStreams,
                   lnExpire>>

-----------------------------------------------------------------------------
(* The deciders.                                                           *)

(* classify_indexed_settlement and lookup_settlement_by_ref.               *)
Lookup(id) ==
    IF lnRow.status = "none" THEN "error"
    ELSE IF lnRow.op # id THEN "Expired"
    ELSE CASE lnRow.status = "PAID" -> "Paid"
           [] lnRow.status = "PAID_UNRECOVERED" -> "error"
           [] OTHER -> IF lnNow >= lnRow.expires THEN "Expired" ELSE "Open"

(* capture_txn by invoice status: an OPEN row is booked; a terminal one    *)
(* is stamped and refunded, once.                                          *)
Captured(at) ==
    CASE lnBook.status = "OPEN" -> [lnBook EXCEPT !.status = "PAID", !.settled = at]
      [] lnBook.status = "EXPIRED" /\ lnBook.settled = Unstamped ->
           [lnBook EXCEPT !.settled = at]
      [] OTHER -> lnBook

CaptureStream ==
    /\ lnWatch # NoMint /\ lnPhase = "idle"
    /\ \E s \in lnChan :
         /\ lnChan' = lnChan \ {s}
         /\ lnBook' = Captured(s.at)
    /\ UNCHANGED <<lnOp, lnNow, lnCrashed, lnRow, lnShown, lnMinted, lnHook, lnTasks, watchVars, lnExpire>>

(* settlement_catch_up: OPEN rows the backend reports Paid.                *)
LnCatchUp ==
    /\ lnWatch # NoMint
    /\ lnBook.status = "OPEN" /\ Lookup(lnBook.id) = "Paid"
    /\ lnBook' = Captured(IF lnRow.settled # Unstamped THEN lnRow.settled
                          ELSE IF lnNow >= lnBook.expires THEN lnBook.expires - 1 ELSE lnNow)
    /\ UNCHANGED <<lnOp, lnNow, lnCrashed, lnRow, lnShown, lnMem>>

(* expire_open_renewals: a due row the backend does not report Paid ...    *)
ExpireLookup ==
    /\ lnWatch # NoMint /\ lnExpire = NoMint
    /\ lnBook.status = "OPEN" /\ lnBook.expires <= lnNow
    /\ Lookup(lnBook.id) \in {"Open", "Expired"}
    /\ lnExpire' = lnBook.id
    /\ UNCHANGED <<lnOp, lnNow, lnCrashed, lnBooks, lnMinted, lnHook, lnTasks, lnChan, watchVars>>

(* ... is expired if it is still the OPEN row that was looked up.          *)
ExpireWrite ==
    /\ lnExpire # NoMint
    /\ lnBook' = IF lnBook.id = lnExpire /\ lnBook.status = "OPEN"
                 THEN [lnBook EXCEPT !.status = "EXPIRED"] ELSE lnBook
    /\ lnExpire' = NoMint
    /\ UNCHANGED <<lnOp, lnNow, lnCrashed, lnRow, lnShown, lnMinted, lnHook, lnTasks, lnChan, watchVars>>

(* gc_lnv2_invoice_index: only a CANCELED row, long past its expiry.       *)
ReapableIndex == lnRow.status = "CANCELED" /\ lnRow.expires < lnNow - IndexRetention

ReapIndex ==
    /\ lnWatch # NoMint
    /\ ReapableIndex
    /\ lnRow' = NoLnRow
    /\ UNCHANGED <<lnOp, lnNow, lnCrashed, lnBook, lnShown, lnMem>>

-----------------------------------------------------------------------------
(* The federation and the buyer, the clock, a crash.                       *)

LnPays ==
    /\ \E o \in lnShown :
         /\ lnOp[o].st = "pending" /\ lnNow < lnOp[o].expires
         /\ lnOp' = [lnOp EXCEPT ![o].st = "claiming"]
    /\ UNCHANGED <<lnNow, lnCrashed, lnBooks, lnMem>>

LnOperation ==
    /\ \E o \in Mints :
         \/ /\ lnOp[o].st = "claiming"
            /\ \E s \in {"claimed", "failed"} : lnOp' = [lnOp EXCEPT ![o].st = s]
         \/ /\ lnOp[o].st = "pending" /\ lnNow >= lnOp[o].expires
            /\ lnOp' = [lnOp EXCEPT ![o].st = "expired"]
    /\ UNCHANGED <<lnNow, lnCrashed, lnBooks, lnMem>>

LnTick ==
    /\ lnNow < LnLastTick
    /\ lnNow' = lnNow + 1
    /\ UNCHANGED <<lnOp, lnCrashed, lnBooks, lnMem>>

LnCrash ==
    /\ lnWatch # NoMint /\ lnCrashed < LnCrashes
    /\ lnCrashed' = lnCrashed + 1
    /\ lnWatch' = NoMint
    /\ lnMinted' = NoMint /\ lnHook' = NoMint /\ lnExpire' = NoMint
    /\ lnTasks' = {} /\ lnChan' = {}
    /\ lnPhase' = "idle" /\ lnListed' = NoMint
    /\ UNCHANGED <<lnOp, lnNow, lnBooks, lnStreams>>

LnNext ==
    \/ IssueInvoice \/ CommitIssued \/ DropIssued \/ SpawnLive
    \/ \E t \in lnTasks :
         ReceiveTerminal(t) \/ StreamError(t) \/ PersistTerminal(t) \/ PersistFails(t)
    \/ Watch \/ WatchLists \/ WatchSpawns
    \/ CaptureStream \/ LnCatchUp \/ ExpireLookup \/ ExpireWrite \/ ReapIndex
    \/ LnPays \/ LnOperation \/ LnTick \/ LnCrash

LnSpec == LnInit /\ [][LnNext]_lnVars

-----------------------------------------------------------------------------
(* A payment the buyer made is never lost to the backend: the operation    *)
(* keeps its correlation row, and while the daemon runs a row still OPEN   *)
(* has a task that will write its terminal, or a hook or a watch() on the  *)
(* way that will start one.  A stream blip, a restarted    *)
(* settlement loop, a crash between the commit and the hook, a failed      *)
(* write, a replaced invoice and the reaper are what could break it.       *)
PaidOpIsWatched ==
    \A o \in lnShown :
        LightningPaid(o) =>
            /\ lnRow.op = o
            /\ lnRow.status \in {"OPEN", "PAID", "PAID_UNRECOVERED"}
            /\ (lnRow.status = "OPEN" /\ lnWatch # NoMint) =>
                  \/ lnHook = o
                  \/ \E t \in lnTasks : t.op = o /\ ~Closed(t)
                  \/ lnPhase = "list" \/ (lnPhase = "spawn" /\ lnListed = o)

(* "a later-paid invoice" is not stranded (spawn_receive_task): what the   *)
(* backend holds as PAID is booked, refunded, on its way in the stream, or *)
(* still OPEN in the books, where the catch-up finds it.                   *)
PaidIsNotStranded ==
    (lnRow.status = "PAID" /\ lnWatch # NoMint) =>
        \/ lnBook.status = "OPEN"
        \/ lnBook.settled # Unstamped
        \/ \E s \in lnChan : s.op = lnRow.op
=============================================================================
