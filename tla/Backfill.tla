------------------------------ MODULE Backfill ------------------------------
(***************************************************************************)
(* nostr_engine.rs, how the daemon gets what a relay retains.              *)
(* fetch_inbound_backlog_from_relay walks the backlog, newest first, one   *)
(* page at a time.  The relay cuts every page at a limit of its own that   *)
(* the daemon cannot read; wrap timestamps are randomized and may          *)
(* coincide.  The long-lived subscription of one relay is the second half: *)
(* the relay may end it (CLOSED) at any time, a recovery task per relay    *)
(* backs off and subscribes again, and a lagging notification stream drops *)
(* messages, CLOSED ones too, and has its own recovery.                    *)
(***************************************************************************)
EXTENDS Naturals, Sequences, FiniteSets, FiniteSetsExt

CONSTANTS
    Events,          \* what the relay retains
    Seconds,         \* created_at of an event
    Clamps,          \* page limits a relay may impose
    PageLimit,       \* the limit the daemon asks for
    MaxPages         \* INBOUND_BACKFILL_MAX_PAGES

ASSUME BackfillAssumption ==
    /\ IsFiniteSet(Events) /\ Seconds \subseteq Nat /\ Clamps \subseteq Nat \ {0}
    /\ PageLimit \in Nat \ {0} /\ MaxPages \in Nat \ {0}

VARIABLES
    created,         \* created_at of each retained event
    broken,          \* events the daemon cannot deserialize
    clamp,           \* this relay's page limit
    reconciles,      \* this relay answers negentropy
    until,           \* the cursor: {} before the first page, else one second
    queued,          \* events handed to the inbox
    observed,        \* the largest page so far
    page,            \* pages fetched
    walk             \* "paging", "stalled", "done", or why it gave up

relayVars == <<created, broken, clamp, reconciles>>
walkVars == <<until, queued, observed, page, walk>>
backfillVars == <<relayVars, walkVars>>

BackfillInit ==
    /\ created \in [Events -> Seconds] /\ broken \in SUBSET Events
    /\ clamp \in Clamps /\ reconciles \in BOOLEAN
    /\ until = {} /\ queued = {} /\ observed = 0 /\ page = 0 /\ walk = "paging"

-----------------------------------------------------------------------------
AtOrBefore(cursor) == {e \in Events : \A s \in cursor : created[e] <= s}

(* The relay answers with the newest events below the cursor, as many as   *)
(* it allows; which of several of one second, is its choice.               *)
IsPage(P, cursor) ==
    LET S == AtOrBefore(cursor) IN
    /\ P \subseteq S
    /\ Cardinality(P) = Min({Cardinality(S), Min({clamp, PageLimit})})
    /\ \A e \in P, f \in S \ P : created[e] >= created[f]

Oldest(P) == Min({created[e] : e \in P \ broken})

(* Mutant: a page shorter than the request ends the walk.                  *)
AfterPageTrusting(P) ==
    IF Cardinality(P) < PageLimit THEN "done" ELSE "paging"

(* What a page means: nothing left; no timestamp to go on from; an older   *)
(* second to go on from; or a second the cursor cannot cross, which is the *)
(* whole tail only if the page is shorter than the relay's pages can be.   *)
AfterPage(P) ==
    CASE P = {} -> "done"
      [] P # {} /\ P \subseteq broken -> "unreadable"
      [] P \ broken # {} /\ (until = {} \/ \A s \in until : Oldest(P) < s) -> "paging"
      [] OTHER -> IF Cardinality(P) < Max({observed, Cardinality(P)}) THEN "done" ELSE "stalled"

FetchPage ==
    /\ walk = "paging" /\ page < MaxPages
    /\ \E P \in SUBSET Events :
        /\ IsPage(P, until)
        /\ queued' = queued \union (P \ broken)
        /\ observed' = Max({observed, Cardinality(P)})
        /\ walk' = AfterPage(P)
        /\ until' = IF walk' = "paging" /\ P \ broken # {} THEN {Oldest(P)} ELSE until
    /\ page' = page + 1 /\ UNCHANGED relayVars

PageCap ==
    /\ walk = "paging" /\ page = MaxPages /\ walk' = "capped"
    /\ UNCHANGED <<relayVars, until, queued, observed, page>>

(* The exact ids the relay holds and this walk has not queued, fetched by  *)
(* id; a relay without negentropy leaves the walk with what it has.        *)
Reconcile ==
    /\ walk = "stalled" /\ walk' = "done"
    /\ queued' = IF reconciles THEN Events \ broken ELSE queued
    /\ UNCHANGED <<relayVars, until, observed, page>>

BackfillNext == FetchPage \/ PageCap \/ Reconcile

-----------------------------------------------------------------------------
(* A second so crowded that its events, and unreadable ones that give the  *)
(* cursor nothing to go by, fill a page.                                   *)
Crowded(s) ==
    Cardinality({e \in Events : created[e] = s \/ (e \in broken /\ created[e] < s)})
        >= Min({clamp, PageLimit})

(* A finished walk has queued every readable event: newer garbage cannot   *)
(* bury an older request, except at or below a second that holds a page's  *)
(* worth of events, on a relay without negentropy.  Nothing is lost above   *)
(* that second, and nothing at all on a relay that reconciles              *)
(* (nostr_engine.rs fetch_inbound_backlog_from_relay).                     *)
NothingBuried ==
    walk = "done" =>
        \A e \in Events \ (broken \union queued) :
            ~reconciles /\ \E s \in Seconds : Crowded(s) /\ created[e] <= s

-----------------------------------------------------------------------------
(* The long-lived subscription.                                            *)

CONSTANTS
    MaxChan,         \* bound: notifications not yet read
    MaxAttempts,     \* bound: the backoff exponent stops growing here
    MaxLags          \* bound: lag recoveries at a time

ASSUME ResubscribeAssumption ==
    MaxChan \in Nat \ {0} /\ MaxAttempts \in Nat /\ MaxLags \in Nat

VARIABLES
    live,            \* the relay serves the subscription
    chan,            \* the notification stream of this relay
    closed,          \* ClosedResubscribe: attempts, pending, retry
    recovery,        \* the recovery task
    lag,             \* lag-recovery tasks still to subscribe
    failed           \* history: the last attempt to bring it back gave up

subVars == <<live, chan, closed, recovery, lag, failed>>

ResubscribeInit ==
    /\ live = TRUE /\ chan = <<>>
    /\ closed = [attempts |-> 0, pending |-> FALSE, retry |-> FALSE]
    /\ recovery = "none" /\ lag = 0 /\ failed = FALSE

Counted(n) == IF n < MaxAttempts THEN n + 1 ELSE n

-----------------------------------------------------------------------------
(* The relay: ends the subscription, or delivers under it.                 *)
RelayCloses ==
    /\ live /\ Len(chan) < MaxChan
    /\ live' = FALSE /\ chan' = Append(chan, "CLOSED") /\ failed' = FALSE
    /\ UNCHANGED <<closed, recovery, lag>>

RelayDelivers ==
    /\ live /\ Len(chan) < MaxChan
    /\ chan' = Append(chan, "EVENT")
    /\ UNCHANGED <<live, closed, recovery, lag, failed>>

(* schedule_closed_resubscribe: one recovery at a time; a closure during   *)
(* one is remembered.                                                      *)
OnClosed ==
    /\ chan # <<>> /\ Head(chan) = "CLOSED" /\ chan' = Tail(chan)
    /\ IF closed.pending
       THEN closed' = [closed EXCEPT !.retry = TRUE] /\ UNCHANGED <<recovery, failed>>
       ELSE /\ closed' = [attempts |-> Counted(closed.attempts), pending |-> TRUE, retry |-> FALSE]
            /\ recovery' = "backoff" /\ failed' = FALSE
    /\ UNCHANGED <<live, lag>>

(* reset_closed_resubscribe, on EVENT or EOSE.                             *)
OnEvent ==
    /\ chan # <<>> /\ Head(chan) \in {"EVENT", "EOSE"} /\ chan' = Tail(chan)
    /\ closed' = [closed EXCEPT !.attempts = 0, !.retry = FALSE]
    /\ UNCHANGED <<live, recovery, lag, failed>>

(* The broadcast buffer overflows: unread notifications are gone, and the  *)
(* backlog is fetched and every relay subscribed again.                    *)
Lagged ==
    /\ chan # <<>> /\ lag < MaxLags
    /\ chan' = <<>> /\ lag' = lag + 1 /\ failed' = FALSE
    /\ UNCHANGED <<live, closed, recovery>>

(* subscribe_inbound_with_retry: a REQ under the stable id, answered by    *)
(* EOSE; or every attempt fails.                                           *)
Subscribe(ok) ==
    /\ ok => Len(chan) < MaxChan
    /\ live' = (ok \/ live) /\ failed' = ~live'
    /\ chan' = IF ok THEN Append(chan, "EOSE") ELSE chan

LagResubscribes(ok) ==
    /\ lag > 0 /\ Subscribe(ok) /\ lag' = lag - 1
    /\ UNCHANGED <<closed, recovery>>

RecoverySubscribes(ok) ==
    /\ recovery = "backoff" /\ Subscribe(ok)
    /\ recovery' = IF ok THEN "healthy" ELSE "unhealthy"
    /\ UNCHANGED <<closed, lag>>

(* Mutant: a closure that came during the recovery is forgotten.           *)
FinishRecoveryForgets ==
    /\ recovery \in {"healthy", "unhealthy"}
    /\ closed' = [closed EXCEPT !.pending = FALSE, !.retry = FALSE]
    /\ recovery' = "none" /\ UNCHANGED <<live, chan, lag, failed>>

(* finish_closed_resubscribe: go round again for a closure that came       *)
(* during the recovery, else free the slot.                                *)
FinishRecovery ==
    /\ recovery \in {"healthy", "unhealthy"}
    /\ IF closed.retry
       THEN /\ closed' = [attempts |-> Counted(closed.attempts), pending |-> TRUE, retry |-> FALSE]
            /\ recovery' = "backoff" /\ failed' = FALSE
       ELSE /\ closed' = [closed EXCEPT !.pending = FALSE,
                                        !.attempts = IF recovery = "healthy" THEN 0 ELSE @]
            /\ recovery' = "none" /\ UNCHANGED failed
    /\ UNCHANGED <<live, chan, lag>>

ResubscribeNext ==
    \/ RelayCloses \/ RelayDelivers \/ OnClosed \/ OnEvent \/ Lagged
    \/ \E ok \in BOOLEAN : LagResubscribes(ok) \/ RecoverySubscribes(ok)
    \/ FinishRecovery

-----------------------------------------------------------------------------
(* A subscription its relay has ended is on its way back: the closure is   *)
(* still to be read, or a recovery that will subscribe again is pending,   *)
(* unless the last attempt failed on every try, which the code leaves to   *)
(* the next CLOSED, lag or reconnect (nostr_engine.rs run_inbound).        *)
ClosedIsRecovered ==
    ~live => \/ \E i \in DOMAIN chan : chan[i] = "CLOSED"
             \/ recovery = "backoff" \/ (closed.pending /\ closed.retry)
             \/ lag > 0 \/ failed
=============================================================================
