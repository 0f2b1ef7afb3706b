------------------------------- MODULE Listing -------------------------------
(***************************************************************************)
(* listing.rs and preflight.rs: the one durable listing row, the operator  *)
(* commands publish and withdraw, the boot republish, and the relay that   *)
(* serves the 30402.  A publish takes its snapshot under the TRANSITION    *)
(* lock, probes its dependencies with the lock released, and applies only  *)
(* if nothing moved meanwhile.  An event is named by its second, 0 is NULL.*)
(***************************************************************************)
EXTENDS Naturals

CONSTANTS
    Commands,        \* operator connections, each running one command at a time
    LastSecond,      \* bound: the wall clock stops here
    MaxEpoch         \* bound: withdrawals of one process

ASSUME ListingAssumption == LastSecond \in Nat /\ MaxEpoch \in Nat

VARIABLES
    lrow,            \* the durable row: state (NONE: no row), event
    epoch,           \* Store::listing_withdraw_epoch (process memory)
    deletedAt,       \* NostrEngine::last_listing_deletion (process memory)
    booting,         \* where republish_on_boot stands; commands wait for it
    command,         \* command[c]: where its handler stands
    served,          \* the 30402 the relays serve
    relayDeleted,    \* the second of the deletion the relays retain
    second,          \* wall clock
    told             \* history: a withdraw was answered, no publish begun since

relaySide == <<served, relayDeleted, second>>
listingVars == <<lrow, epoch, deletedAt, booting, command, told, relaySide>>

NoCommand == [pc |-> "idle", state |-> "NONE", epoch |-> 0, accept |-> FALSE, event |-> 0]

(* Relays outlive a data directory: a fresh one may meet an old listing.   *)
ListingInit ==
    /\ lrow = [state |-> "NONE", event |-> 0]
    /\ epoch = 0 /\ deletedAt = 0 /\ relayDeleted = 0 /\ second = 2 /\ told = FALSE
    /\ booting = "upsert" /\ command = [c \in Commands |-> NoCommand] /\ served \in {0, 1}

(* TRANSITION is held from the gate of a publish, or from a withdraw's     *)
(* start, to the end of its relay leg.                                     *)
Unlocked == booting = "done" /\ \A c \in Commands : command[c].pc \in {"idle", "probing"}

CommandAt(c, r) == command' = [command EXCEPT ![c] = r]

-----------------------------------------------------------------------------
(* Preflight: what each check makes of the answer its dependency gives.    *)
Backends == {"fedimint", "phoenixd", "mock"}

Pass == {}
Structural == {"structural"}
Reachability == {"reachability"}

(* gateway_check, federation_check: not ready, an error and a timeout read *)
(* alike.                                                                  *)
ReadyCheck(answer) == IF answer = "ready" THEN Pass ELSE Reachability

Lnv2Check(probe) ==
    CASE probe \in {"Healthy", "NotApplicable"} -> Pass
      [] probe = "ModuleAbsent" -> Structural
      [] OTHER -> Reachability

PhoenixdCheck(probe) ==
    CASE probe = "Ready" -> Pass
      [] probe \in {"AuthRejected", "VersionMismatch"} -> Structural
      [] OTHER -> Reachability

(* provider_token_check: only a transport error or an unexpected status is *)
(* somebody else's.                                                        *)
TokenCheck(required, token, status) ==
    IF ~required \/ (token = "wellFormed" /\ status = "2xx") THEN Pass
    ELSE IF token \in {"blank", "malformed"} \/ status = "401or403" THEN Structural
    ELSE Reachability

RecipeCheck(hook) == IF hook = "rejects" THEN Structural ELSE Pass

MoneyChecks(backend) ==
    IF backend = "phoenixd"
    THEN {PhoenixdCheck(p) : p \in {"Ready", "AuthRejected", "VersionMismatch", "Unreachable"}}
    ELSE {ReadyCheck(g) \cup ReadyCheck(f) \cup Lnv2Check(p) :
            g \in {"ready", "down"}, f \in {"ready", "down"},
            p \in IF backend = "mock" THEN {"NotApplicable"}
                  ELSE {"Healthy", "ModuleAbsent", "GatewayAbsent"}}

(* preflight_checks: the classes of the failures of one report.            *)
Reports ==
    {money \cup TokenCheck(req, tok, st) \cup RecipeCheck(hook) :
        money \in UNION {MoneyChecks(b) : b \in Backends},
        req \in BOOLEAN, tok \in {"blank", "malformed", "wellFormed"},
        st \in {"2xx", "401or403", "other"}, hook \in {"absent", "accepts", "rejects"}}

-----------------------------------------------------------------------------
(* The relay leg of publishing (publish_event, publish_listing): wait out  *)
(* our own deletion's second, then the relays take the event unless they   *)
(* retain a deletion as young.  A timeout may hide an acceptance.          *)
Broadcast(accepted) ==
    /\ second > deletedAt
    /\ accepted => second > relayDeleted
    /\ served' = IF accepted THEN second ELSE served

(* Boot: upsert_row leaves a state alone and is born UNPUBLISHED; then the *)
(* 30402 goes out again only for an ACTIVE row.                            *)
BootUpsert ==
    /\ booting = "upsert"
    /\ lrow' = IF lrow.state = "NONE" THEN [state |-> "UNPUBLISHED", event |-> 0] ELSE lrow
    /\ booting' = IF lrow.state = "ACTIVE" THEN "broadcast" ELSE "done"
    /\ UNCHANGED <<epoch, deletedAt, command, told, relaySide>>

BootBroadcast(accepted, recorded) ==
    /\ booting = "broadcast" /\ Broadcast(accepted) /\ (recorded => accepted)
    /\ lrow' = IF recorded THEN [lrow EXCEPT !.event = second] ELSE lrow
    /\ booting' = "done"
    /\ UNCHANGED <<epoch, deletedAt, command, relayDeleted, second, told>>

(* publish, before its probes: the snapshot.                               *)
TakeSnapshot(c, accept) ==
    /\ Unlocked /\ command[c].pc = "idle"
    /\ CommandAt(c, [pc |-> "probing", state |-> lrow.state, epoch |-> epoch,
                accept |-> accept, event |-> 0])
    /\ told' = FALSE
    /\ UNCHANGED <<lrow, epoch, deletedAt, booting, relaySide>>

(* Mutant: the compare-and-swap looks at the row alone.                    *)
MovedRowOnly(c) == command[c].state # lrow.state

(* The compare-and-swap of publish_gated.                                  *)
Moved(c) == command[c].state # lrow.state \/ command[c].epoch # epoch

Refused(c, report) ==
    "structural" \in report \/ ("reachability" \in report /\ ~command[c].accept)

(* Mutant: going ACTIVE keeps the id of the deleted event.                 *)
ActivatedKeepsEvent == [lrow EXCEPT !.state = "ACTIVE"]

(* set_state(ACTIVE, clear_event_id).                                      *)
Activated == IF lrow.state = "ACTIVE" THEN lrow ELSE [state |-> "ACTIVE", event |-> 0]

(* publish_gated up to the relay leg: superseded, blocked, a failed write, *)
(* or committed with the lock kept.                                        *)
PublishGate(c, report, writes) ==
    /\ Unlocked /\ command[c].pc = "probing"
    /\ IF Moved(c) \/ Refused(c, report) \/ ~writes
       THEN CommandAt(c, NoCommand) /\ UNCHANGED lrow
       ELSE CommandAt(c, [command[c] EXCEPT !.pc = "broadcast"]) /\ lrow' = Activated
    /\ UNCHANGED <<epoch, deletedAt, booting, told, relaySide>>

(* A reported acceptance is recorded next; a failure or a timeout ends it. *)
PublishBroadcast(c, accepted, reported) ==
    /\ command[c].pc = "broadcast" /\ Broadcast(accepted) /\ (reported => accepted)
    /\ CommandAt(c, IF reported THEN [command[c] EXCEPT !.pc = "record", !.event = second]
               ELSE NoCommand)
    /\ UNCHANGED <<lrow, epoch, deletedAt, booting, relayDeleted, second, told>>

RecordEvent(c, writes) ==
    /\ command[c].pc = "record" /\ CommandAt(c, NoCommand)
    /\ lrow' = IF writes THEN [lrow EXCEPT !.event = command[c].event] ELSE lrow
    /\ UNCHANGED <<epoch, deletedAt, booting, told, relaySide>>

(* withdraw up to the relay leg: count the attempt, and take an ACTIVE row *)
(* down; a failed write ends the command with an error.                    *)
Withdraw(c, writes) ==
    /\ Unlocked /\ command[c].pc = "idle" /\ epoch < MaxEpoch
    /\ epoch' = epoch + 1
    /\ IF lrow.state = "ACTIVE" /\ ~writes
       THEN UNCHANGED <<lrow, command>>
       ELSE /\ lrow' = IF lrow.state = "ACTIVE" THEN [lrow EXCEPT !.state = "WITHDRAWN"] ELSE lrow
            /\ CommandAt(c, [NoCommand EXCEPT !.pc = "retract"])
    /\ UNCHANGED <<deletedAt, booting, told, relaySide>>

(* retract_listing: remember the deletion's second, then ask the relays;   *)
(* the operator is answered whatever they say.                             *)
Retract(c, delivered) ==
    /\ command[c].pc = "retract" /\ CommandAt(c, NoCommand)
    /\ deletedAt' = second /\ told' = TRUE
    /\ relayDeleted' = IF delivered THEN second ELSE relayDeleted
    /\ served' = IF delivered THEN 0 ELSE served
    /\ UNCHANGED <<lrow, epoch, booting, second>>

(* The process dies and the next one boots: its memory is gone.            *)
ListingRestart ==
    /\ booting' = "upsert" /\ command' = [c \in Commands |-> NoCommand]
    /\ epoch' = 0 /\ deletedAt' = 0
    /\ UNCHANGED <<lrow, told, relaySide>>

SecondPasses ==
    /\ second < LastSecond /\ second' = second + 1
    /\ UNCHANGED <<lrow, epoch, deletedAt, booting, command, told, served, relayDeleted>>

ListingNext ==
    \/ BootUpsert \/ ListingRestart \/ SecondPasses
    \/ \E a, b \in BOOLEAN : BootBroadcast(a, b)
    \/ \E c \in Commands, ok \in BOOLEAN :
          \/ TakeSnapshot(c, ok) \/ Withdraw(c, ok) \/ Retract(c, ok) \/ RecordEvent(c, ok)
          \/ \E report \in Reports : PublishGate(c, report, ok)
          \/ \E reported \in BOOLEAN : PublishBroadcast(c, ok, reported)

-----------------------------------------------------------------------------
(* Once the operator has been answered that the listing is down, it stays  *)
(* down until a publish that began afterwards: a publish that was out      *)
(* probing never brings it back up, not even when the withdraw had nothing *)
(* to write (listing.rs PublishSnapshot, publish_gated, withdraw).         *)
ToldNotLive == told => lrow.state # "ACTIVE"

(* An ACTIVE row that carries an event id is one buyers can find: live and *)
(* discoverable is never confused with live but held by no relay           *)
(* (listing.rs publish_gated, set_state, publish_event).                   *)
EventIdIsServed == lrow.state = "ACTIVE" /\ lrow.event # 0 => served # 0

(* What the operator is told of the listing is so: withdrawn stays         *)
(* withdrawn, and an ACTIVE row with an event id is one buyers can find.   *)
ListingIsTrue == ToldNotLive /\ EventIdIsServed
=============================================================================
