------------------------------- MODULE MCEdge -------------------------------
(***************************************************************************)
(* The services that face the outside: relays, buyers and payment          *)
(* backends.  They share no state in these models, so an instance picks    *)
(* the one that runs and leaves the others at rest: TLC explores the sum   *)
(* of their state spaces, not the product.                                 *)
(***************************************************************************)
EXTENDS Messaging, Backfill, Outbox, Listing, Alerts, Buyer,
        Lnv2Receive, PhoenixdReceive, Lnv2Pay, PhoenixdPay, RefundQuote, Resolver, TLC

CONSTANTS w1, w2, w3, rid, t1, t2     \* Messaging: wraps, request key, tasks

VARIABLE part                         \* the service that runs

MCWraps == {w1, w2, w3}
MCRequests == {w1, w2}
MCKeyOf == (w1 :> rid) @@ (w2 :> rid)
MCTasks == {t1, t2}
\* Tasks are interchangeable, and so are the copies of one request.
Sym == {p @@ q : p \in Permutations(MCTasks), q \in Permutations(MCRequests)}

Parts == {"messaging", "backfill", "resubscribe", "outbox", "listing", "alerts", "watch", "buyer",
          "lnv2_receive", "phoenixd_receive", "lnv2_pay", "phoenixd_pay", "quote", "resolver"}

\* What does not run is at one of its initial states.
AtRest ==
    /\ IF part = "backfill" THEN TRUE
       ELSE /\ broken = {} /\ reconciles = FALSE /\ clamp = PageLimit
            /\ created = [e \in Events |-> 1]
    /\ IF part = "listing" THEN TRUE ELSE served = 0
    /\ IF part = "buyer" THEN TRUE
       ELSE byKind = "order" /\ byPins = FALSE /\ byServes = FALSE
    /\ IF part = "phoenixd_receive" THEN TRUE ELSE phCredit = FALSE
    /\ IF part = "lnv2_pay" THEN TRUE ELSE lpGateway = [g \in Gateways |-> 0] /\ lpOwes = {}
    /\ IF part = "phoenixd_pay" THEN TRUE
       ELSE /\ ppCapOk = [k \in PayKeys |-> TRUE]
            /\ ppWallet = CHOOSE w \in Wallets : TRUE
    /\ IF part = "quote" THEN TRUE
       ELSE /\ rqKind = "lnv2" /\ rqGross = 0 /\ rqDusty = 0
            /\ rqDefault = CHOOSE s \in Schedule : TRUE
            /\ rqMinimum = rqDefault
    /\ IF part = "resolver" THEN TRUE ELSE rvForm = "bolt12"

EdgeInit ==
    /\ part \in Parts /\ AtRest
    /\ Init /\ BackfillInit /\ ResubscribeInit /\ OutboxInit /\ ListingInit /\ AlertsInit
    /\ RelayWatchInit /\ BuyerInit /\ LnInit /\ PhInit /\ LpInit /\ PayInit /\ QuoteInit
    /\ ResolverInit

\* Whatever does not run keeps its state.
Rest ==
    /\ UNCHANGED part
    /\ IF part = "messaging" THEN TRUE ELSE UNCHANGED vars
    /\ IF part = "backfill" THEN TRUE ELSE UNCHANGED backfillVars
    /\ IF part = "resubscribe" THEN TRUE ELSE UNCHANGED subVars
    /\ IF part = "outbox" THEN TRUE ELSE UNCHANGED outboxVars
    /\ IF part = "listing" THEN TRUE ELSE UNCHANGED listingVars
    /\ IF part = "alerts" THEN TRUE ELSE UNCHANGED alertVars
    /\ IF part = "watch" THEN TRUE ELSE UNCHANGED rwVars
    /\ IF part = "buyer" THEN TRUE ELSE UNCHANGED byVars
    /\ IF part = "lnv2_receive" THEN TRUE ELSE UNCHANGED lnVars
    /\ IF part = "phoenixd_receive" THEN TRUE ELSE UNCHANGED phVars
    /\ IF part = "lnv2_pay" THEN TRUE ELSE UNCHANGED lpVars
    /\ IF part = "phoenixd_pay" THEN TRUE ELSE UNCHANGED ppVars
    /\ IF part = "quote" THEN TRUE ELSE UNCHANGED rqVars
    /\ IF part = "resolver" THEN TRUE ELSE UNCHANGED rvVars

EdgeNext ==
    \/ part = "messaging" /\ Next /\ Rest
    \/ part = "backfill" /\ BackfillNext /\ Rest
    \/ part = "resubscribe" /\ ResubscribeNext /\ Rest
    \/ part = "outbox" /\ OutboxNext /\ Rest
    \/ part = "listing" /\ ListingNext /\ Rest
    \/ part = "alerts" /\ AlertsNext /\ Rest
    \/ part = "watch" /\ RelayWatchNext /\ Rest
    \/ part = "buyer" /\ BuyerNext /\ Rest
    \/ part = "lnv2_receive" /\ LnNext /\ Rest
    \/ part = "phoenixd_receive" /\ PhNext /\ Rest
    \/ part = "lnv2_pay" /\ LpNext /\ Rest
    \/ part = "phoenixd_pay" /\ PayNext /\ Rest
    \/ part = "quote" /\ QuoteNext /\ Rest
    \/ part = "resolver" /\ ResolverNext /\ Rest

edgeVars == <<part, vars, backfillVars, subVars, outboxVars, listingVars, alertVars, rwVars,
              byVars, lnVars, phVars, lpVars, ppVars, rqVars, rvVars>>

\* Of a task, what its step still reads; of the histories, what a property
\* can still be broken by.  Two states with one view have the same futures.
TaskView(t) ==
    LET reads == [w |-> PCs \ {"free", "forged"}, on |-> {"wait"},
                  out |-> {"commit", "publish", "reply"}, at |-> {"reply"}]
        held(f) == IF task[t].pc \in reads[f] THEN task[t][f] ELSE "any"
    IN  <<task[t].pc, held("w"), held("on"), held("out"),
          IF task[t].out = "refused" THEN "any" ELSE held("at")>>
MessagingView ==
    <<mode, now, stops, inv, registry, jobs,
      [t \in Tasks |-> TaskView(t)],
      IF mode = "down" THEN "any" ELSE <<negative, tokens>>,
      [w \in DOMAIN seen |-> IF w \in FreshSeen THEN seen[w] ELSE "stale"],
      [k \in Keys |-> ToSet(runs[k]) \intersect (now - CacheWindow)..now],
      {x[1] : x \in answers}, {x \in answers : x[2] # "refused"},
      HookRunsOnce>>

\* States are told apart by the service that runs: the others never move.
Moving ==
    CASE part = "messaging" -> <<part, MessagingView>>
      [] part = "backfill" -> <<part, backfillVars>>
      [] part = "resubscribe" -> <<part, subVars>>
      [] part = "outbox" -> <<part, outboxVars>>
      [] part = "listing" -> <<part, listingVars>>
      [] part = "alerts" -> <<part, alertVars>>
      [] part = "watch" -> <<part, rwVars>>
      [] part = "buyer" -> <<part, byVars>>
      [] part = "lnv2_receive" -> <<part, lnVars>>
      [] part = "phoenixd_receive" -> <<part, phVars>>
      [] part = "lnv2_pay" -> <<part, lpVars>>
      [] part = "phoenixd_pay" -> <<part, ppVars>>
      [] part = "quote" -> <<part, rqVars>>
      [] part = "resolver" -> <<part, rvVars>>

EdgeSpec == EdgeInit /\ [][EdgeNext]_edgeVars

-----------------------------------------------------------------------------
(* No inbound message is lost between the relay and the handler: a backlog *)
(* walk buries none under a clamped page, and a subscription a relay       *)
(* CLOSED comes back with the backlog it missed (nostr_engine.rs           *)
(* fetch_inbound_backlog_from_relay, finish_closed_resubscribe).           *)
InboundIsComplete == NothingBuried /\ ClosedIsRecovered

(* The operator hears each condition once: two reporters of one subject    *)
(* keep the cooldown, and a blackout of all relays is told exactly once    *)
(* although the enqueue may fail (alerts.rs dispatch, supervisor.rs        *)
(* refresh_relay_status).                                                  *)
AlertsAreHeardOnce == AlertsSpaced /\ BlackoutToldOnce

(* What a buyer paid is followed until it is booked, on either backend: a  *)
(* federation operation keeps its row and its task; phoenixd has at most   *)
(* one payable invoice of a purchase, polls a late payment until the grace *)
(* is over, and alerts on one it may not book (lnv2_backend.rs             *)
(* spawn_receive_task; phoenixd_backend.rs resolve_invoice,                *)
(* poll_settlements_once).                                                 *)
ReceiptsAreFollowed == PaidOpIsWatched /\ OnePayable /\ PaidLateIsPolled /\ HeldIsAlerted

(* A terminal pay row says what became of the money, on either backend,    *)
(* whatever was cut short, repointed or answered ambiguously               *)
(* (phoenixd_backend.rs pay_inner, lnv2_backend.rs pay_inner).             *)
PayRowsAreTruth == PayRowIsTruth /\ Lnv2RowIsTruth

(* The refund that goes out is the largest the receipt affords, and the    *)
(* destination it resolves to asks for exactly that and was reached        *)
(* without touching a private host (refund_net_sat of either backend,      *)
(* refund_resolver.rs resolve).                                            *)
RefundIsExact == NetIsLargest /\ ResolvedIsPayable
=============================================================================
