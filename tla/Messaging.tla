------------------------------ MODULE Messaging ------------------------------
(***************************************************************************)
(* The path of a buyer's op.request through the daemon: relays, inbound    *)
(* transport, operation dispatch, reply; with the bounded shutdown drain   *)
(* and crashes.                                                            *)
(***************************************************************************)
EXTENDS OpDispatch

Init ==
    /\ mode = "up" /\ task = [t \in Tasks |-> Idle]
    /\ negative = <<>> /\ tokens = Burst /\ seen = <<>>
    /\ inv = [k \in Keys |-> NoInv] /\ registry = [k \in Keys |-> NoOwner] /\ jobs = {}
    /\ runs = [k \in Keys |-> <<>>]
    /\ answers = {} /\ now = 0 /\ stops = 0

Quiet == \A t \in Tasks : At(t, "free")

(* Days pass only between messages: a task lives for minutes at most.      *)
Tick ==
    /\ Quiet /\ jobs = {} /\ now < MaxTime /\ now' = now + 1
    /\ UNCHANGED <<inboxVars, opVars, task, answers, stops>>

-----------------------------------------------------------------------------
(* Shutdown: the accept loop stops, accepted tasks get a deadline, what is *)
(* left is aborted; the store still carries out what was queued.           *)
Drain ==
    /\ mode = "up" /\ stops < MaxCrashes /\ mode' = "draining" /\ stops' = stops + 1
    /\ UNCHANGED <<negative, tokens, seen, opVars, task, answers, now>>

DrainTimesOut ==
    /\ mode = "draining" /\ ~Quiet /\ mode' = "aborting"
    /\ task' = [t \in Tasks |-> Idle] /\ registry' = [k \in Keys |-> NoOwner]
    /\ UNCHANGED <<negative, tokens, seen, inv, jobs, runs, answers, now, stops>>

Stopped ==
    /\ \/ mode = "draining" /\ Quiet
       \/ mode = "aborting"
    /\ jobs = {} /\ mode' = "down"
    /\ UNCHANGED <<negative, tokens, seen, opVars, task, answers, now, stops>>

Crash ==
    /\ mode # "down" /\ stops < MaxCrashes /\ mode' = "down" /\ stops' = stops + 1
    /\ task' = [t \in Tasks |-> Idle] /\ registry' = [k \in Keys |-> NoOwner] /\ jobs' = {}
    /\ UNCHANGED <<negative, tokens, seen, inv, runs, answers, now>>

(* Boot recovery runs before the inbound loop; a store error in it is      *)
(* logged and the daemon comes up with the stale rows.                     *)
Restart(recovers) ==
    /\ mode = "down" /\ mode' = "up"
    /\ inv' = IF recovers THEN Recovered ELSE inv
    /\ negative' = <<>> /\ tokens' = Burst
    /\ UNCHANGED <<seen, registry, jobs, runs, task, answers, now, stops>>

-----------------------------------------------------------------------------
Step(t) ==
    \/ RejectForged(t) \/ Claimed(t) \/ IsSeen(t) \/ NotRoutable(t) \/ RateLimit(t)
    \/ ClaimResend(t) \/ ClaimRunning(t) \/ ClaimRefused(t) \/ ClaimWon(t)
    \/ Register(t) \/ RefuseOp(t) \/ RunHook(t)
    \/ \E out \in {"ok", "failed"} : HookReturns(t, out)
    \/ Publish(t) \/ OwnerFails(t)
    \/ Attach(t) \/ Reread(t) \/ Defer(t)
    \/ \E accepted \in BOOLEAN : Replied(t, accepted)
    \/ \E stored \in BOOLEAN : MarkSeen(t, stored)

StoreStep == \E k \in Keys, out \in {"ok", "failed"} : CommitTerminal(k, out)

Deliveries == \E t \in Tasks, w \in Wraps, forged \in BOOLEAN : Deliver(t, w, forged)

Next ==
    \/ Deliveries
    \/ \E t \in Tasks : Step(t)
    \/ StoreStep \/ Refill \/ Prune \/ Tick
    \/ Drain \/ DrainTimesOut \/ Stopped \/ Crash
    \/ \E recovers \in BOOLEAN : Restart(recovers)

Spec == Init /\ [][Next]_vars

-----------------------------------------------------------------------------
PCs == {"free", "spawned", "forged", "lookup", "route", "claim", "register", "run", "hook",
        "commit", "publish", "attach", "wait", "reread", "defer", "reply", "mark"}
Outs == Terminal \union {"none", "refused"}

MessagingTypeOK ==
    /\ mode \in {"up", "draining", "aborting", "down"}
    /\ task \in [Tasks -> [pc : PCs, w : Wraps \union {"none"}, on : Tasks \union {"none"},
                       out : Outs, at : 0..MaxTime]]
    /\ ToSet(negative) \subseteq Wraps /\ Len(negative) <= CacheCap
    /\ tokens \in 0..Burst /\ DOMAIN seen \subseteq Wraps
    /\ inv \in [Keys -> [state : {"none", "RUNNING", "terminal"}, result : Terminal \union {"none"},
                         at : 0..MaxTime]]
    /\ registry \in [Keys -> Tasks \union {NoOwner}]
    /\ now \in 0..MaxTime

(* The hook of a request runs once in any span of the cache's retention,   *)
(* however often and however late the request is delivered and whatever    *)
(* crashes: it runs again only when its row, finished longer ago than      *)
(* that, was pruned (op_dispatch.rs run_owned, store.rs                    *)
(* prune_idempotency_caches).                                              *)
HookRunsOnce ==
    \A k \in Keys : \A i, j \in DOMAIN runs[k] : i < j => runs[k][i] + CacheWindow < runs[k][j]

(* Two different answers a relay accepted for a request, refusals that     *)
(* left no row aside, come from rows further apart than the retention, and *)
(* a row still kept holds each younger one (op_dispatch.rs                 *)
(* InflightOutcome::NoTerminal never becomes a reply).                     *)
AnswersAgree ==
    \A k \in Keys : \A a, b \in {x \in answers : x[1] = k /\ x[2] # "refused"} :
        /\ a = b \/ a[3] + CacheWindow < b[3] \/ b[3] + CacheWindow < a[3]
        /\ inv[k].state # "none" => inv[k].result = a[2] \/ a[3] + CacheWindow < inv[k].at

(* A wrap is suppressed for good only when its request was answered: the   *)
(* transport loses no request it failed, dropped or deferred               *)
(* (nostr_engine.rs process_inbound).                                      *)
SeenIsAnswered == \A w \in DOMAIN seen : \E a \in answers : a[1] = KeyOf[w]

(* The negative cache never holds a wrap a buyer's request came in, not    *)
(* even after a forged copy with the same id was delivered first.          *)
NoRequestCached == ToSet(negative) \intersect Requests = {}

(* A copy that waits for a running operation waits for a live owner of its *)
(* own request, still registered, that has to answer it or defer it: no    *)
(* waiter is left behind by an owner that failed (op_dispatch.rs           *)
(* InflightGuard).                                                         *)
WaiterHasOwner ==
    \A t \in Tasks : At(t, "wait") =>
        LET o == task[t].on IN
        /\ task[o].pc \in {"run", "hook", "commit", "publish"}
        /\ Key(o) = Key(t) /\ registry[Key(t)] = o

(* Every copy of a request ends with the one answer: no two answers differ,*)
(* none is suppressed unanswered, and no copy waits for an owner that is   *)
(* gone (op_dispatch.rs dispatch, nostr_engine.rs process_inbound).        *)
OneAnswer == AnswersAgree /\ SeenIsAnswered /\ WaiterHasOwner
=============================================================================
