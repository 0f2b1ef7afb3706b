------------------------------- MODULE Alerts --------------------------------
(***************************************************************************)
(* alerts.rs AlertDispatcher: an operator alert for a recurring condition, *)
(* reported by several tasks, with a cooldown kept in memory.  And the     *)
(* reporter that keeps its own latch instead (relay_status.rs,             *)
(* supervisor.rs refresh_relay_status): the relay pool, sampled by every   *)
(* maintenance pass, and the one alert per blackout.                       *)
(***************************************************************************)
EXTENDS Integers

CONSTANTS
    Reporters,       \* tasks that may report the same (kind, subject)
    AlertCooldown,   \* ALERT_COOLDOWN_S, in ticks
    LastTick         \* bound: the clock stops here

ASSUME AlertsAssumption == AlertCooldown \in Nat \ {0} /\ LastTick \in Nat

VARIABLES
    tick,            \* clock
    lastSent,        \* AlertDispatcher::last_sent of the subject, {} or one tick
    reporter,        \* where each dispatch stands
    fired            \* history: ticks at which this process enqueued the alert

alertVars == <<tick, lastSent, reporter, fired>>

NoDispatch == [pc |-> "idle", now |-> 0]

AlertsInit ==
    /\ tick = 0 /\ lastSent = {} /\ fired = {}
    /\ reporter = [r \in Reporters |-> NoDispatch]

(* dispatch: the clock is read first, then the lock of the map is held     *)
(* from the cooldown check to the stamp.                                   *)
DispatchStart(r) ==
    /\ reporter[r].pc = "idle" /\ reporter' = [reporter EXCEPT ![r] = [pc |-> "waiting", now |-> tick]]
    /\ UNCHANGED <<tick, lastSent, fired>>

(* Mutant: the lock is not held across the enqueue.                        *)
DispatchFreeUnheld == TRUE

DispatchFree == \A r \in Reporters : reporter[r].pc # "enqueue"

Cooling(now) == \E t \in lastSent : now - t < AlertCooldown

DispatchCheck(r) ==
    /\ DispatchFree /\ reporter[r].pc = "waiting"
    /\ reporter' = [reporter EXCEPT ![r] = IF Cooling(@.now) THEN NoDispatch ELSE [@ EXCEPT !.pc = "enqueue"]]
    /\ UNCHANGED <<tick, lastSent, fired>>

(* Committed under an id that carries its second, then stamped; a failed   *)
(* enqueue stamps nothing.                                                 *)
DispatchCommit(r, writes) ==
    /\ reporter[r].pc = "enqueue" /\ reporter' = [reporter EXCEPT ![r] = NoDispatch]
    /\ fired' = IF writes THEN fired \cup {reporter[r].now} ELSE fired
    /\ lastSent' = IF writes THEN {reporter[r].now} ELSE lastSent
    /\ UNCHANGED <<tick>>

AlertsTick ==
    /\ tick < LastTick /\ tick' = tick + 1 /\ UNCHANGED <<lastSent, reporter, fired>>

(* The stamps are memory: a restart may alert again.                       *)
AlertsRestart ==
    /\ lastSent' = {} /\ fired' = {} /\ reporter' = [r \in Reporters |-> NoDispatch]
    /\ UNCHANGED tick

AlertsNext ==
    \/ \E r \in Reporters : DispatchStart(r) \/ DispatchCheck(r) \/ \E ok \in BOOLEAN : DispatchCommit(r, ok)
    \/ AlertsTick \/ AlertsRestart

-----------------------------------------------------------------------------
(* A recurring condition alerts at most once per cooldown of a process,    *)
(* whoever reports it and however the reports overlap (alerts.rs dispatch).*)
AlertsSpaced ==
    /\ \A s, t \in fired : s < t => t - s >= AlertCooldown
    /\ fired # {} => \E t \in lastSent : \A s \in fired : s <= t

-----------------------------------------------------------------------------
CONSTANTS
    Relays,           \* configured relays
    BlackoutAlert,    \* RELAY_BLACKOUT_ALERT_S, in ticks
    RwLastTick        \* bound: the clock stops here

ASSUME BlackoutAssumption == BlackoutAlert \in Nat \ {0} /\ RwLastTick \in Nat

VARIABLES
    rwTick,      \* clock
    connected,   \* relays the pool is connected to
    monitor,     \* RelayBlackoutMonitor: onset ({} or one tick) and fired
    cell,        \* RelayStatusCell: the relays last seen connected
    blackouts,   \* onsets an alert was enqueued for, with how often
    dark         \* history: ticks of the uninterrupted run of dark samples

rwVars == <<rwTick, connected, monitor, cell, blackouts, dark>>

Rearmed == [onset |-> {}, fired |-> FALSE]
NoDark == [first |-> -1, last |-> -1, heard |-> FALSE]

RelayWatchInit ==
    /\ rwTick = 0 /\ connected = {} /\ monitor = Rearmed
    /\ cell = {} /\ blackouts = [t \in 0 .. RwLastTick |-> 0] /\ dark = NoDark

RwTicks ==
    /\ rwTick < RwLastTick /\ rwTick' = rwTick + 1
    /\ UNCHANGED <<connected, monitor, cell, blackouts, dark>>

(* The pool connects and disconnects between samples.                      *)
PoolChanges(now) ==
    /\ connected' = now /\ UNCHANGED <<rwTick, monitor, cell, blackouts, dark>>

AllDisconnected == Relays # {} /\ connected = {}

(* onset_due: the onset is kept from the first dark sample; the alert is   *)
(* due from BlackoutAlert on, until one is confirmed.                      *)
OnsetOf == IF monitor.onset = {} THEN rwTick ELSE CHOOSE t \in monitor.onset : TRUE
OnsetDue == AllDisconnected /\ ~monitor.fired /\ rwTick - OnsetOf >= BlackoutAlert

(* Mutant: the onset is stamped fired before the enqueue is known.         *)
MarkFiredAnyway(enqueued) == TRUE

(* mark_fired only once the alert is in the outbox.                        *)
MarkFired(enqueued) == enqueued

(* refresh_relay_status in one pass: the alert's subject carries the onset,*)
(* so the dispatcher's cooldown never silences another blackout.           *)
PassSamplesDark(enqueued) ==
    /\ AllDisconnected
    /\ monitor' = [onset |-> {OnsetOf}, fired |-> monitor.fired \/ (OnsetDue /\ MarkFired(enqueued))]
    /\ blackouts' = IF OnsetDue /\ enqueued THEN [blackouts EXCEPT ![OnsetOf] = @ + 1] ELSE blackouts
    /\ dark' = [first |-> IF dark.first < 0 THEN rwTick ELSE dark.first, last |-> rwTick,
                heard |-> enqueued]
    /\ cell' = connected /\ UNCHANGED <<rwTick, connected>>

PassSamplesLight ==
    /\ ~AllDisconnected /\ monitor' = Rearmed /\ dark' = NoDark /\ cell' = connected
    /\ UNCHANGED <<rwTick, connected, blackouts>>

(* The maintenance loop is restarted: the monitor is its own.              *)
WatchRestarts ==
    /\ monitor' = Rearmed /\ dark' = NoDark /\ blackouts' = [t \in 0 .. RwLastTick |-> 0]
    /\ UNCHANGED <<rwTick, connected, cell>>

RelayWatchNext ==
    \/ RwTicks \/ PassSamplesLight \/ WatchRestarts
    \/ \E now \in SUBSET Relays : PoolChanges(now)
    \/ \E enqueued \in BOOLEAN : PassSamplesDark(enqueued)

-----------------------------------------------------------------------------
(* Passes that saw the whole pool dark from one tick to another at least   *)
(* BlackoutAlert later have enqueued one alert for that blackout once an   *)
(* enqueue could succeed, although earlier ones failed, and never two.     *)
BlackoutToldOnce ==
    /\ \A t \in DOMAIN blackouts : blackouts[t] <= 1
    /\ dark.heard /\ dark.last - dark.first >= BlackoutAlert => blackouts[dark.first] = 1
=============================================================================
