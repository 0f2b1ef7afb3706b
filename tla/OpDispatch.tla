----------------------------- MODULE OpDispatch -----------------------------
(***************************************************************************)
(* op_dispatch.rs: a management operation runs its hook at most once per   *)
(* (sender, request id), and every copy of the request is answered with    *)
(* the one committed result.  The owner of a request is the task that      *)
(* inserted its RUNNING row; later copies resend, attach to the owner      *)
(* through the in-flight registry, or defer.                               *)
(***************************************************************************)
EXTENDS Inbox

NoOwner == "nobody"

(* The registry's empty entry is no task.                                  *)
ASSUME OpDispatchAssumption == NoOwner \notin Tasks

Terminal == {"ok", "failed", "interrupted"}
NoInv == [state |-> "none", result |-> "none", at |-> 0]

(* The owner's guard goes: whoever waits is told the outcome, or to defer. *)
Wake(t, pc, out) ==
    [u \in Tasks |-> IF task[u].pc = "wait" /\ task[u].on = t
                     THEN [task[u] EXCEPT !.pc = pc, !.out = out, !.at = inv[Key(t)].at]
                     ELSE task[u]]
Unregister(t) == [k \in Keys |-> IF registry[k] = t THEN NoOwner ELSE registry[k]]

-----------------------------------------------------------------------------
(* lookup_existing: what a stored row tells a copy of its request.         *)
Existing(t) == inv[Key(t)].state

(* claim, in one transaction: a cached result wins before any check.       *)
ClaimResend(t) ==
    /\ At(t, "claim") /\ Existing(t) = "terminal"
    /\ ToWith(t, "reply", inv[Key(t)].result)
    /\ UNCHANGED <<inboxVars, opVars, answers, now, stops>>

ClaimRunning(t) ==
    /\ At(t, "claim") /\ Existing(t) = "RUNNING" /\ To(t, "attach")
    /\ UNCHANGED <<inboxVars, opVars, answers, now, stops>>

(* Malformed id, unknown or foreign subscription, or one that is not       *)
(* ACTIVE, as it may be at any moment: refused with an answer that leaves  *)
(* no row.                                                                 *)
ClaimRefused(t) ==
    /\ At(t, "claim") /\ Existing(t) = "none"
    /\ ToWith(t, "reply", "refused")
    /\ UNCHANGED <<inboxVars, opVars, answers, now, stops>>

ClaimWon(t) ==
    /\ At(t, "claim") /\ Existing(t) = "none"
    /\ inv' = [inv EXCEPT ![Key(t)] = [state |-> "RUNNING", result |-> "none", at |-> now]]
    /\ To(t, "register")
    /\ UNCHANGED <<inboxVars, registry, jobs, runs, answers, now, stops>>

(* InflightGuard::register, after the claim's commit.                      *)
Register(t) ==
    /\ At(t, "register") /\ To(t, "run")
    /\ registry' = [registry EXCEPT ![Key(t)] = t]
    /\ UNCHANGED <<inboxVars, inv, jobs, runs, answers, now, stops>>

(* run_owned: an unknown operation or bad parameters fail without a hook;  *)
(* the hook itself succeeds, fails or times out.                           *)
RefuseOp(t) ==
    /\ At(t, "run") /\ ToWith(t, "commit", "failed")
    /\ jobs' = jobs \union {<<Key(t), "failed">>}
    /\ UNCHANGED <<inboxVars, inv, registry, runs, answers, now, stops>>

RunHook(t) ==
    /\ At(t, "run") /\ To(t, "hook")
    /\ runs' = [runs EXCEPT ![Key(t)] = Append(@, now)]
    /\ UNCHANGED <<inboxVars, inv, registry, jobs, answers, now, stops>>

HookReturns(t, out) ==
    /\ At(t, "hook") /\ ToWith(t, "commit", out)
    /\ jobs' = jobs \union {<<Key(t), out>>}
    /\ UNCHANGED <<inboxVars, inv, registry, runs, answers, now, stops>>

(* commit_terminal, run by the store actor whether or not the owner still  *)
(* waits for it; guarded on RUNNING.                                       *)
CommitTerminal(k, out) ==
    /\ <<k, out>> \in jobs /\ jobs' = jobs \ {<<k, out>>}
    /\ inv' = IF inv[k].state = "RUNNING"
              THEN [inv EXCEPT ![k] = [state |-> "terminal", result |-> out, at |-> now]]
              ELSE inv
    /\ task' = [u \in Tasks |-> IF task[u].pc = "commit" /\ Key(u) = k /\ inv[k].state = "RUNNING"
                                THEN [task[u] EXCEPT !.pc = "publish"] ELSE task[u]]
    /\ UNCHANGED <<inboxVars, registry, runs, answers, now, stops>>

(* InflightGuard::publish: waiters get the committed result, the entry     *)
(* goes, and only then the owner replies.                                  *)
Publish(t) ==
    /\ At(t, "publish")
    /\ task' = [Wake(t, "reply", task[t].out) EXCEPT ![t].pc = "reply",
                                                     ![t].at = inv[Key(t)].at]
    /\ registry' = Unregister(t)
    /\ UNCHANGED <<inboxVars, inv, jobs, runs, answers, now, stops>>

(* Mutant: the failing owner tells its waiters the operation was lost.     *)
OwnerFailsInterrupted(t) ==
    /\ At(t, "run") \/ At(t, "commit")
    /\ task' = [Wake(t, "reply", "interrupted") EXCEPT ![t] = Idle]
    /\ registry' = Unregister(t)
    /\ jobs' \in {jobs, {j \in jobs : j[1] # Key(t)}}
    /\ UNCHANGED <<inboxVars, inv, runs, answers, now, stops>>

(* A store error, or a cancelled or panicking owner: the guard's Drop.     *)
(* Waiters defer; a commit already queued may still be carried out.        *)
OwnerFails(t) ==
    /\ At(t, "run") \/ At(t, "commit")
    /\ task' = [Wake(t, "defer", "none") EXCEPT ![t] = Idle]
    /\ registry' = Unregister(t)
    /\ jobs' \in {jobs, {j \in jobs : j[1] # Key(t)}}
    /\ UNCHANGED <<inboxVars, inv, runs, answers, now, stops>>

-----------------------------------------------------------------------------
(* attach_or_defer: wait for a registered owner, or read the row again.    *)
Attach(t) ==
    /\ At(t, "attach")
    /\ task' = [task EXCEPT ![t] =
          IF registry[Key(t)] = NoOwner THEN [@ EXCEPT !.pc = "reread"]
          ELSE [@ EXCEPT !.pc = "wait", !.on = registry[Key(t)]]]
    /\ UNCHANGED <<inboxVars, opVars, answers, now, stops>>

(* reread_existing: a result committed meanwhile is served, else defer.    *)
Reread(t) ==
    /\ At(t, "reread")
    /\ IF Existing(t) = "terminal" THEN ToWith(t, "reply", inv[Key(t)].result) ELSE Finish(t)
    /\ UNCHANGED <<inboxVars, opVars, answers, now, stops>>

Defer(t) ==
    /\ At(t, "defer") /\ Finish(t)
    /\ UNCHANGED <<inboxVars, opVars, answers, now, stops>>

-----------------------------------------------------------------------------
(* recover_interrupted_ops: a RUNNING row at boot has no owner.            *)
Recovered ==
    [k \in Keys |-> IF inv[k].state = "RUNNING"
        THEN [state |-> "terminal", result |-> "interrupted", at |-> now] ELSE inv[k]]

(* Mutant: the cache is pruned on the transport's shorter window.          *)
PrunedSoon == [k \in Keys |-> IF inv[k].state = "terminal" /\ inv[k].at + SeenWindow < now
                              THEN NoInv ELSE inv[k]]

(* prune_idempotency_caches: finished rows past their window, never a      *)
(* RUNNING claim.                                                          *)
Pruned == [k \in Keys |-> IF inv[k].state = "terminal" /\ inv[k].at + CacheWindow < now
                          THEN NoInv ELSE inv[k]]
Prune ==
    /\ mode = "up" /\ inv' = Pruned /\ inv' # inv
    /\ UNCHANGED <<inboxVars, registry, jobs, runs, task, answers, now, stops>>
=============================================================================
