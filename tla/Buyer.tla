-------------------------------- MODULE Buyer --------------------------------
(***************************************************************************)
(* clients/core client.rs over clients/{cli,web} relay.rs: a buyer's agent *)
(* that wants one thing (an operation, an order, ...) and calls the client *)
(* until it is answered.  The relay stores and replays gift wraps, late,   *)
(* repeatedly and in any order; strangers write to the buyer too.          *)
(* The operator is seen from outside: it refuses a request it will not     *)
(* serve without keeping a row, and serves one id at most once             *)
(* (OpDispatch, Inbox, Intake).                                            *)
(***************************************************************************)
EXTENDS Naturals, FiniteSets

CONSTANTS
    BuyerTimeout,   \* --timeout, the deadline of an exchange
    PinnedGrace,    \* PINNED_GRACE
    MaxTries,       \* bound: calls the agent makes
    ByLastTick      \* bound: the clock

ASSUME BuyerAssumption ==
    /\ BuyerTimeout \in Nat /\ PinnedGrace \in Nat /\ PinnedGrace < BuyerTimeout
    /\ MaxTries \in Nat \ {0} /\ ByLastTick \in Nat

Tries == 1..MaxTries
Rids == 1..MaxTries                 \* request ids, fresh ones counted up
Verbs == {"op", "renew", "order", "delivery", "cancel"}
Pinnable == {"op", "renew", "order"}    \* the verbs that take --request-id

(* What a reply says: it serves the request, or refuses it row-free.       *)
Message(from, rid, says) == [from |-> from, rid |-> rid, says |-> says]
Nothing == [from |-> "nobody", rid |-> 0, says |-> "nothing"]

VARIABLES
    byKind,     \* what the agent wants
    byPins,     \* the agent passes --request-id (the web client cannot)
    byClock, byTry, byRid,
    byCall,     \* the exchange under way: pc, start, deadline, held reply
    byAnswer,   \* what the last call returned: a message, or "timeout"
    byWire,     \* gift wraps to the buyer, stored by the relay
    byAsked,    \* requests published and not yet taken up, by id
    byServed,   \* the operator's row of an id: "none", "running", "done"
    byServes,   \* whether the operator would serve the request now
    byStale     \* a refusal was handed out at the end of an exchange, while
                \* a request of the same id was under way

byVars == <<byKind, byPins, byClock, byTry, byRid, byCall, byAnswer, byWire, byAsked,
            byServed, byServes, byStale>>
operatorVars == <<byAsked, byServed, byServes>>
agentVars == <<byKind, byPins, byTry, byRid>>

Idle0 == [pc |-> "idle", start |-> 0, deadline |-> 0, held |-> Nothing]

BuyerInit ==
    /\ byKind \in Verbs /\ byPins \in IF byKind \in Pinnable THEN BOOLEAN ELSE {FALSE}
    /\ byClock = 0 /\ byTry = 0 /\ byRid = 0
    /\ byCall = Idle0 /\ byAnswer = Nothing
    /\ byWire = {Message("stranger", 1, "served"), Message("operator", 1, "garbled")}
    /\ byAsked = [r \in Rids |-> 0] /\ byServed = [r \in Rids |-> "none"]
    /\ byServes \in BOOLEAN /\ byStale = FALSE

-----------------------------------------------------------------------------
TimedOut == Message("nobody", byRid, "timeout")

(* BuyerError: a timeout and a transport error are worth retrying as is.   *)
Retryable(answer) == answer.says = "timeout"

(* The agent's next call: what is retryable goes out under the pinned id,  *)
(* after anything definite a fresh one is minted.  exchange_preferred      *)
(* subscribes before it publishes.                                         *)
StartCall ==
    /\ byCall.pc = "idle" /\ byTry < MaxTries
    /\ byAnswer.says \notin {"served", "sent"}
    /\ byTry' = byTry + 1
    /\ byRid' = IF byPins /\ Retryable(byAnswer) THEN byRid ELSE byRid + 1
    /\ byCall' = [pc |-> "publish", start |-> byClock, deadline |-> byClock + BuyerTimeout,
                  held |-> Nothing]
    /\ UNCHANGED <<byKind, byPins, byClock, byAnswer, byWire, operatorVars, byStale>>

(* publish: without an OK it is an error, whether or not the relay took    *)
(* it.  cancel waits for no reply.                                         *)
PublishWrap ==
    /\ byCall.pc = "publish"
    /\ \/ /\ byAsked' = [byAsked EXCEPT ![byRid] = @ + 1]
          /\ IF byKind = "cancel"
             THEN byCall' = Idle0 /\ byAnswer' = Message("relay", byRid, "sent")
             ELSE byCall' = [byCall EXCEPT !.pc = "read"] /\ UNCHANGED byAnswer
       \/ /\ byCall' = Idle0 /\ byAnswer' = TimedOut
          /\ byAsked' \in {byAsked, [byAsked EXCEPT ![byRid] = @ + 1]}
    /\ UNCHANGED <<agentVars, byClock, byWire, byServed, byServes, byStale>>

(* The matchers rate a reply of the operator's: create_order takes any     *)
(* reply to its id; a row-free refusal of a renewal or an operation may be *)
(* superseded; await_provision goes by the subscription alone.             *)
OrderRating(msg) == IF msg.rid = byRid THEN "preferred" ELSE "ignore"
RenewRating(msg) ==
    IF msg.rid # byRid THEN "ignore"
    ELSE IF msg.says = "served" THEN "preferred" ELSE "acceptable"
OpRating(msg) ==
    IF msg.rid # byRid THEN "ignore"
    ELSE IF msg.says = "refused" THEN "acceptable" ELSE "preferred"
DeliveryRating(msg) == IF msg.says = "served" THEN "preferred" ELSE "ignore"

(* gift_unwrap: what is no private DM of a readable message is skipped.    *)
Unwraps(msg) == msg.says # "garbled"

Rating(msg) ==
    IF msg.from # "operator" \/ ~Unwraps(msg) THEN "ignore"
    ELSE CASE byKind = "order" -> OrderRating(msg)
           [] byKind = "renew" -> RenewRating(msg)
           [] byKind = "op" -> OpRating(msg)
           [] OTHER -> DeliveryRating(msg)

(* Mutant: an operation waits for a better reply no longer than a renewal. *)
GraceWindow == byClock + PinnedGrace

(* PinnedGrace: how long an acceptable reply is held.                      *)
Grace == IF byKind = "op" THEN byCall.deadline ELSE byClock + PinnedGrace

Returns(msg) == byCall' = Idle0 /\ byAnswer' = msg

(* exchange_preferred: one gift wrap off the stream.                       *)
ReadWrap ==
    /\ byCall.pc = "read" /\ byClock < byCall.deadline
    /\ \E msg \in byWire :
         CASE Rating(msg) = "ignore" -> UNCHANGED <<byCall, byAnswer>>
           [] Rating(msg) # "ignore" /\ (Rating(msg) = "preferred" \/ ~byPins) -> Returns(msg)
           [] OTHER ->
                /\ byCall.held = Nothing
                /\ byCall' = [byCall EXCEPT !.held = msg,
                                !.deadline = IF Grace < @ THEN Grace ELSE @]
                /\ UNCHANGED byAnswer
    /\ UNCHANGED <<agentVars, byClock, byWire, operatorVars, byStale>>

UnderWay(r) == byAsked[r] > 0 \/ byServed[r] # "none"

(* The deadline passes or the stream ends (NostrStream Closed,             *)
(* BrowserGiftWrapStream): the held reply, else a timeout.                 *)
StreamEnds(whole) ==
    /\ byCall.pc = "read"
    /\ Returns(IF byCall.held = Nothing THEN TimedOut ELSE byCall.held)
    /\ byStale' = (byStale \/ (whole /\ byCall.held # Nothing /\ UnderWay(byRid)))
    /\ UNCHANGED <<agentVars, byClock, byWire, operatorVars>>

DeadlineEnds ==
    /\ byClock >= byCall.deadline
    /\ StreamEnds(byClock >= byCall.start + BuyerTimeout)
StreamCloses == StreamEnds(TRUE)

-----------------------------------------------------------------------------
(* The operator takes a request up: a row answers again, a request it will *)
(* not serve is refused and leaves none, another is served.                *)
OperatorTakes(r) ==
    /\ byAsked[r] > 0
    /\ byAsked' = [byAsked EXCEPT ![r] = @ - 1]
    /\ CASE byServed[r] = "done" ->
              byWire' = byWire \cup {Message("operator", r, "served")} /\ UNCHANGED byServed
         [] byServed[r] = "running" -> UNCHANGED <<byWire, byServed>>
         [] byServed[r] = "none" /\ ~byServes ->
              byWire' = byWire \cup {Message("operator", r, "refused")} /\ UNCHANGED byServed
         [] OTHER -> byServed' = [byServed EXCEPT ![r] = "running"] /\ UNCHANGED byWire
    /\ UNCHANGED <<agentVars, byClock, byCall, byAnswer, byServes, byStale>>

OperatorAnswers(r) ==
    /\ byServed[r] = "running"
    /\ byServed' = [byServed EXCEPT ![r] = "done"]
    /\ byWire' = byWire \cup {Message("operator", r, "served")}
    /\ UNCHANGED <<agentVars, byClock, byCall, byAnswer, byAsked, byServes, byStale>>

(* The subscription becomes active, or stops being so.                     *)
OperatorTurns ==
    /\ byServes' = ~byServes
    /\ UNCHANGED <<agentVars, byClock, byCall, byAnswer, byWire, byAsked, byServed, byStale>>

ByTick ==
    /\ byClock < ByLastTick
    /\ byCall.pc = "read" => byClock < byCall.deadline
    /\ byClock' = byClock + 1
    /\ UNCHANGED <<agentVars, byCall, byAnswer, byWire, operatorVars, byStale>>

BuyerNext ==
    \/ StartCall \/ PublishWrap \/ ReadWrap \/ DeadlineEnds \/ StreamCloses
    \/ \E r \in Rids : OperatorTakes(r) \/ OperatorAnswers(r)
    \/ OperatorTurns \/ ByTick

-----------------------------------------------------------------------------
(* An agent that retries a timeout under the id it pinned, and only a      *)
(* definite answer under a fresh one, has its operation run twice only if  *)
(* a stale refusal was handed to it at the very end of an exchange (the    *)
(* residual the client documents): never because a replayed refusal        *)
(* outran the live reply; and every answer it acts on is the operator's,   *)
(* to the id of that call.                                                 *)
AgentRunsOnce ==
    /\ (byKind = "op" /\ byPins /\ ~byStale) =>
         Cardinality({r \in Rids : byServed[r] # "none"}) <= 1
    /\ byAnswer.says \in {"served", "refused"} =>
         byAnswer.from = "operator" /\ (byCall.pc = "idle" /\ byKind # "delivery" => byAnswer.rid = byRid)
=============================================================================
