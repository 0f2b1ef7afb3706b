----------------------------- MODULE Supervisor -----------------------------
(***************************************************************************)
(* supervisor.rs: the daemon's loops, each restarted with a backoff when   *)
(* its task ends, the nudge between them, and the order of a graceful      *)
(* shutdown (with nostr_engine.rs's drain of accepted messages).           *)
(***************************************************************************)
EXTENDS Integers

CONSTANT MaxHandlers     \* per-wrap tasks alive at once (MAX_INBOUND_CONCURRENCY)

ASSUME HandlersAssumption == MaxHandlers \in Nat \ {0}

VARIABLES
    stage,       \* where RunningSupervisor::shutdown stands
    loops,       \* state of each supervised loop's child
    inbound,     \* state of the inbound loop's child
    handlers,    \* per-wrap tasks running
    auxiliary,   \* a backlog or resubscribe task runs
    permit,      \* the nudge's stored permit (tokio Notify)
    tickDue,     \* the maintenance interval has elapsed
    work,        \* committed money work no pass has looked at: "none", "quiet" (its
                 \* committer does not nudge) or "nudged"
    unsent,      \* a committed outbox row is not on the relays
    excused      \* a drain overran its window, or the relays refused the last send

svVars == <<stage, loops, inbound, handlers, auxiliary, permit, tickDue, work, unsent, excused>>

Loops == {"ipc", "settlement", "reconcile", "maintenance"}
Nudging == {"settlement", "reconcile"}
AtWork == {"busy", "nudge", "pass", "drain"}

SupervisorInit ==
    /\ stage = "up" /\ loops = [l \in Loops |-> "run"] /\ inbound = "run"
    /\ handlers = 0 /\ auxiliary = FALSE
    /\ permit = FALSE /\ tickDue = TRUE /\ work \in {"none", "nudged"} /\ unsent \in BOOLEAN
    /\ excused = FALSE

Stopping == stage # "up"
SetLoop(l, s) == loops' = [loops EXCEPT ![l] = s]
inboundVars == <<inbound, handlers, auxiliary>>
-----------------------------------------------------------------------------
(* The loops                                                               *)

(* One arm of the loop's select: a request, a settlement, a tick.          *)
TakesItem(l) ==
    /\ l # "maintenance" /\ loops[l] = "run" /\ stage # "down" /\ SetLoop(l, "busy")
    /\ UNCHANGED <<stage, inboundVars, permit, tickDue, work, unsent, excused>>

(* The item's transaction: a captured settlement, a reconciler decision or *)
(* an operator's command (refund-retry) leaves money work, any of them may *)
(* leave an outbox row.  The IPC loop does not nudge: its work waits for   *)
(* the interval.                                                           *)
CommitsItem(l, money, row) ==
    /\ loops[l] = "busy"
    /\ SetLoop(l, IF l \in Nudging THEN "nudge" ELSE "run")
    /\ work' = CASE money /\ l \in Nudging -> "nudged"
                 [] money /\ l \notin Nudging /\ work = "none" -> "quiet"
                 [] OTHER -> work
    /\ unsent' = (unsent \/ row)
    /\ UNCHANGED <<stage, inboundVars, permit, tickDue, excused>>

(* Mutant: notify_waiters, which wakes a loop that waits and stores no     *)
(* permit for one that does not.                                           *)
NotifyWaiters == loops["maintenance"] = "run"

(* notify_one stores a permit when nobody waits.                           *)
NotifyOne == TRUE

Nudge(l) ==
    /\ loops[l] = "nudge" /\ SetLoop(l, "run") /\ permit' = (permit \/ NotifyOne)
    /\ UNCHANGED <<stage, inboundVars, tickDue, work, unsent, excused>>

(* run_maintenance_loop: a tick or the nudge starts a pass.                *)
PassBegins ==
    /\ loops["maintenance"] = "run" /\ stage # "down"
    /\ \/ tickDue /\ tickDue' = FALSE /\ UNCHANGED permit
       \/ permit /\ permit' = FALSE /\ UNCHANGED tickDue
    /\ SetLoop("maintenance", "pass")
    /\ UNCHANGED <<stage, inboundVars, work, unsent, excused>>

(* maintenance_pass: the drivers, an error of one never stopping the next. *)
PassDrives(row) ==
    /\ loops["maintenance"] = "pass" /\ SetLoop("maintenance", "drain")
    /\ work' = "none" /\ unsent' = (unsent \/ row)
    /\ UNCHANGED <<stage, inboundVars, permit, tickDue, excused>>

PassDrains(sends) ==
    /\ loops["maintenance"] = "drain" /\ SetLoop("maintenance", "run")
    /\ unsent' = (unsent /\ ~sends)
    /\ UNCHANGED <<stage, inboundVars, permit, tickDue, work, excused>>

IntervalElapses ==
    /\ stage = "up" /\ ~tickDue /\ loops["maintenance"] # "off" /\ tickDue' = TRUE
    /\ UNCHANGED <<stage, loops, inboundVars, permit, work, unsent, excused>>

(* supervise: a child that ends by an error or a panic is restarted after  *)
(* the backoff; a fresh maintenance loop's interval ticks at once.         *)
ChildEnds(l) ==
    /\ loops[l] \in {"run", "busy", "pass", "drain"} /\ stage # "down" /\ SetLoop(l, "off")
    /\ tickDue' = (tickDue /\ l # "maintenance")
    /\ UNCHANGED <<stage, inboundVars, permit, work, unsent, excused>>

ChildRestarts(l) ==
    /\ loops[l] = "off" /\ ~Stopping /\ SetLoop(l, "run")
    /\ tickDue' = (tickDue \/ l = "maintenance")
    /\ UNCHANGED <<stage, inboundVars, permit, work, unsent, excused>>

(* On the shutdown signal a loop at its select returns, one in its backoff *)
(* is not restarted, one at work finishes or is aborted after              *)
(* SHUTDOWN_DRAIN.                                                         *)
LoopStops(l) ==
    /\ Stopping /\ stage # "down" /\ loops[l] \in {"run", "off"} /\ SetLoop(l, "stopped")
    /\ UNCHANGED <<stage, inboundVars, permit, tickDue, work, unsent, excused>>

LoopAborted(l) ==
    /\ Stopping /\ stage # "down" /\ loops[l] \in AtWork /\ SetLoop(l, "stopped")
    /\ excused' = TRUE
    /\ UNCHANGED <<stage, inboundVars, permit, tickDue, work, unsent>>
-----------------------------------------------------------------------------
(* The inbound loop and its tasks                                          *)

outsideInbound == <<stage, loops, permit, tickDue, work, excused>>

(* The accept loop, or a backlog task it left behind, spawns a handler.    *)
Accepts ==
    /\ inbound = "run" \/ auxiliary
    /\ handlers < MaxHandlers /\ handlers' = handlers + 1
    /\ UNCHANGED <<outsideInbound, inbound, auxiliary, unsent>>

FetchesBacklog ==
    /\ inbound = "run" /\ auxiliary' = TRUE
    /\ UNCHANGED <<outsideInbound, inbound, handlers, unsent>>

BacklogEnds ==
    /\ auxiliary /\ auxiliary' = FALSE
    /\ UNCHANGED <<outsideInbound, inbound, handlers, unsent>>

HandlerEnds(row) ==
    /\ handlers > 0 /\ stage # "down" /\ handlers' = handlers - 1 /\ unsent' = (unsent \/ row)
    /\ UNCHANGED <<outsideInbound, inbound, auxiliary>>

(* The accept loop ends; the tasks it spawned do not.                      *)
InboundEnds ==
    /\ inbound = "run" /\ inbound' = "off"
    /\ UNCHANGED <<outsideInbound, handlers, auxiliary, unsent>>

InboundRestarts ==
    /\ inbound = "off" /\ ~Stopping /\ inbound' = "run"
    /\ UNCHANGED <<outsideInbound, handlers, auxiliary, unsent>>

(* drain_running_inbound: no more accepting, auxiliary tasks aborted.      *)
DrainRunning ==
    /\ Stopping /\ inbound = "run" /\ inbound' = "draining" /\ auxiliary' = FALSE
    /\ UNCHANGED <<outsideInbound, handlers, unsent>>

(* Mutant: a shutdown that meets the loop in its backoff just returns.     *)
StoppedDrainSkipped == "stopped"

(* drain_stopped_inbound: the same drain when the loop is already gone.    *)
StoppedDrain == "draining"

DrainStopped ==
    /\ Stopping /\ inbound = "off" /\ inbound' = StoppedDrain /\ auxiliary' = FALSE
    /\ UNCHANGED <<outsideInbound, handlers, unsent>>

(* drain_per_wrap_until: every accepted handler finishes, or the           *)
(* stragglers are aborted at the deadline.                                 *)
Drained ==
    /\ inbound = "draining" /\ handlers = 0 /\ inbound' = "stopped"
    /\ UNCHANGED <<outsideInbound, handlers, auxiliary, unsent>>

DrainTimesOut ==
    /\ inbound = "draining" /\ handlers > 0 /\ inbound' = "stopped" /\ handlers' = 0
    /\ excused' = TRUE
    /\ UNCHANGED <<stage, loops, permit, tickDue, work, auxiliary, unsent>>
-----------------------------------------------------------------------------
(* RunningSupervisor::shutdown                                             *)

Signal ==
    /\ stage = "up" /\ stage' = "inbound"
    /\ UNCHANGED <<loops, inboundVars, permit, tickDue, work, unsent, excused>>

InboundJoined ==
    /\ stage = "inbound" /\ inbound = "stopped" /\ stage' = "join"
    /\ UNCHANGED <<loops, inboundVars, permit, tickDue, work, unsent, excused>>

(* SHUTDOWN_GRACE overrun: the wrapper is aborted, its handlers live on.   *)
InboundGraceEnds ==
    /\ stage = "inbound" /\ inbound = "draining" /\ inbound' = "stopped" /\ stage' = "join"
    /\ excused' = TRUE
    /\ UNCHANGED <<loops, handlers, auxiliary, permit, tickDue, work, unsent>>

LoopsJoined ==
    /\ stage = "join" /\ \A l \in Loops : loops[l] = "stopped"
    /\ stage' = "outbox"
    /\ UNCHANGED <<loops, inboundVars, permit, tickDue, work, unsent, excused>>

(* The last drain_once, then the process exits.                            *)
FinalDrain(sends) ==
    /\ stage = "outbox" /\ stage' = "down"
    /\ unsent' = (unsent /\ ~sends) /\ excused' = (excused \/ ~sends)
    /\ UNCHANGED <<loops, inboundVars, permit, tickDue, work>>

SupervisorNext ==
    \/ \E l \in Loops :
          \/ TakesItem(l) \/ ChildEnds(l) \/ ChildRestarts(l) \/ LoopStops(l) \/ LoopAborted(l)
          \/ Nudge(l)
          \/ \E money, row \in BOOLEAN : CommitsItem(l, money, row)
    \/ PassBegins \/ IntervalElapses
    \/ \E b \in BOOLEAN : PassDrives(b) \/ PassDrains(b) \/ HandlerEnds(b) \/ FinalDrain(b)
    \/ Accepts \/ FetchesBacklog \/ BacklogEnds \/ InboundEnds \/ InboundRestarts
    \/ DrainRunning \/ DrainStopped \/ Drained \/ DrainTimesOut
    \/ Signal \/ InboundJoined \/ InboundGraceEnds \/ LoopsJoined
-----------------------------------------------------------------------------
(* A graceful shutdown in which no drain overran and the relays took the   *)
(* last send leaves neither a half-run handler nor an unsent outbox row,   *)
(* whatever each loop was doing, backing off included, when it began.      *)
NothingLeftUnsent == stage = "down" /\ ~excused => handlers = 0 /\ ~unsent

(* Money work that no maintenance pass has looked at is about to be looked *)
(* at: the loop is on its way to a pass, or holds a permit or a tick, or   *)
(* its committer is about to nudge; no interleaving of capture, pass and   *)
(* restart loses the wake-up.  What a command committed over IPC is not    *)
(* nudged and waits for the interval.                                      *)
NudgeKept ==
    work = "nudged" /\ stage = "up" =>
        \/ permit \/ tickDue
        \/ loops["maintenance"] \in {"pass", "off"}
        \/ \E l \in Nudging : loops[l] = "nudge"
=============================================================================
