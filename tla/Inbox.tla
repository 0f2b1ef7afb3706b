-------------------------------- MODULE Inbox --------------------------------
(***************************************************************************)
(* nostr_engine.rs, inbound side: every gift wrap a relay delivers is      *)
(* verified, claimed in memory, looked up in seen_message, decrypted,      *)
(* rate limited, routed and only then marked seen.  Wraps arrive from      *)
(* several relays, from live subscriptions and from backlog fetches, in    *)
(* any order and any number of times; a restart forgets everything but the *)
(* store.                                                                  *)
(***************************************************************************)
EXTENDS Naturals, Sequences, FiniteSets, SequencesExt

CONSTANTS
    Wraps,           \* gift wraps on the relays, by outer event id
    Requests,        \* wraps that carry an op.request
    KeyOf,           \* (sender, request id) of each of them
    Tasks,           \* permits of the inbound semaphore, one spawned task each
    CacheCap,        \* capacity of the negative cache
    Burst,           \* capacity of a sender's token bucket
    SeenWindow,      \* seen_message retention
    CacheWindow,     \* op_invocation retention
    MaxTime,         \* bound: the clock stops here
    MaxCrashes       \* bound: crashes and shutdowns

Keys == {KeyOf[w] : w \in Requests}

ASSUME InboxAssumption ==
    /\ IsFiniteSet(Wraps) /\ Requests \subseteq Wraps
    /\ DOMAIN KeyOf = Requests /\ IsFiniteSet(Tasks) /\ Tasks # {}
    /\ CacheCap \in Nat \ {0} /\ Burst \in Nat \ {0}
    /\ SeenWindow \in Nat /\ CacheWindow \in Nat /\ MaxTime \in Nat /\ MaxCrashes \in Nat
    \* The two-window design: a cached result outlives the transport's
    \* dedupe row.
    /\ SeenWindow <= CacheWindow

VARIABLES
    mode,            \* "up", "draining", "aborting", "down"
    task,            \* what each spawned task is doing
    negative,        \* the negative cache, oldest first
    tokens,          \* the sender's bucket
    seen,            \* seen_message: wrap -> when it was marked
    inv,             \* op_invocation rows
    registry,        \* the in-flight registry: the task that owns a key
    jobs,            \* terminal commits queued at the store actor
    runs,            \* history: when the hook of each key ran
    answers,         \* history: op.results relays accepted: key, result, its row's time
    now,
    stops

inboxVars == <<mode, negative, tokens, seen>>
opVars == <<inv, registry, jobs, runs>>
vars == <<inboxVars, opVars, task, answers, now, stops>>

Idle == [pc |-> "free", w |-> "none", on |-> "none", out |-> "none", at |-> 0]

At(t, pc) == task[t].pc = pc
Wrap(t) == task[t].w
Key(t) == KeyOf[Wrap(t)]
To(t, pc) == task' = [task EXCEPT ![t].pc = pc]
ToWith(t, pc, out) ==
    task' = [task EXCEPT ![t].pc = pc, ![t].out = out, ![t].at = inv[Key(t)].at]

(* The task returns: its permit and its in-flight claim are dropped.       *)
Finish(t) == task' = [task EXCEPT ![t] = Idle]

(* The in-flight set: wraps some task has claimed and not dropped.         *)
InFlight == {Wrap(t) : t \in {u \in Tasks : task[u].pc \notin {"free", "spawned", "forged"}}}

-----------------------------------------------------------------------------
(* queue_inbound_event: a copy of a wrap, possibly one with a forged       *)
(* signature, takes a permit and gets a task.  The subscription has no     *)
(* since and no limit: a relay may send a wrap again however old it is.    *)
Deliver(t, w, forged) ==
    /\ mode = "up" /\ At(t, "free")
    /\ task' = [task EXCEPT ![t] = [Idle EXCEPT !.pc = IF forged THEN "forged" ELSE "spawned",
                                                !.w = w]]
    /\ UNCHANGED <<inboxVars, opVars, answers, now, stops>>

(* A copy that does not verify is dropped before its id means anything.    *)
RejectForged(t) ==
    /\ At(t, "forged") /\ Finish(t)
    /\ UNCHANGED <<inboxVars, opVars, answers, now, stops>>

(* A verified copy claims its id, unless another task holds it, or the id  *)
(* is known to be of no use.                                               *)
Claimed(t) ==
    /\ At(t, "spawned")
    /\ IF Wrap(t) \in InFlight \/ Wrap(t) \in ToSet(negative) THEN Finish(t) ELSE To(t, "lookup")
    /\ UNCHANGED <<inboxVars, opVars, answers, now, stops>>

IsSeen(t) ==
    /\ At(t, "lookup")
    /\ IF Wrap(t) \in DOMAIN seen THEN Finish(t) ELSE To(t, "route")
    /\ UNCHANGED <<inboxVars, opVars, answers, now, stops>>

(* NegativeCache::insert: idempotent, the oldest entry gives way.          *)
Noted(w) ==
    IF w \in ToSet(negative) THEN negative
    ELSE LET grown == Append(negative, w)
         IN  IF Len(grown) > CacheCap THEN Tail(grown) ELSE grown

(* gift_unwrap fails, or yields a message no buyer sends.                  *)
NotRoutable(t) ==
    /\ At(t, "route") /\ Wrap(t) \notin Requests
    /\ negative' = Noted(Wrap(t)) /\ Finish(t)
    /\ UNCHANGED <<mode, tokens, seen, opVars, answers, now, stops>>

(* InboundRateLimiter::check: one token, or the wrap is dropped unseen.    *)
RateLimit(t) ==
    /\ At(t, "route") /\ Wrap(t) \in Requests
    /\ IF tokens = 0 THEN Finish(t) /\ UNCHANGED tokens
                     ELSE To(t, "claim") /\ tokens' = tokens - 1
    /\ UNCHANGED <<mode, negative, seen, opVars, answers, now, stops>>

(* Time refills the bucket; eviction from the LRU makes it a full new one. *)
Refill ==
    /\ mode = "up" /\ tokens < Burst
    /\ tokens' \in {tokens + 1, Burst}
    /\ UNCHANGED <<mode, negative, seen, opVars, task, answers, now, stops>>

-----------------------------------------------------------------------------
(* A reply as it leaves, with the time of the row it was read from.        *)
Reply(t) == <<Key(t), task[t].out, task[t].at>>

(* send_wrap: the reply counts once some relay accepted it; otherwise the  *)
(* handler fails and the wrap stays unseen.                                *)
Replied(t, accepted) ==
    /\ At(t, "reply")
    /\ IF accepted THEN To(t, "mark") ELSE Finish(t)
    /\ answers' = IF accepted THEN answers \union {Reply(t)} ELSE answers
    /\ UNCHANGED <<inboxVars, opVars, now, stops>>

(* mark_seen: prune by receipt time, then insert, in one transaction.      *)
FreshSeen == {w \in DOMAIN seen : seen[w] + SeenWindow >= now}
MarkSeen(t, stored) ==
    /\ At(t, "mark") /\ Finish(t)
    /\ seen' = IF ~stored THEN seen
               ELSE [w \in FreshSeen \union {Wrap(t)} |-> IF w \in FreshSeen THEN seen[w] ELSE now]
    /\ UNCHANGED <<mode, negative, tokens, opVars, answers, now, stops>>
=============================================================================
