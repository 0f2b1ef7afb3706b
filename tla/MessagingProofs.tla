-------------------------- MODULE MessagingProofs --------------------------
(***************************************************************************)
(* Messaging, proved for every set of wraps, tasks and request keys: the   *)
(* hook of a request runs once in any span of the cache's retention, and   *)
(* every copy of the request ends with the one answer.  Relays may deliver *)
(* a wrap again at any time.  The inductive invariant GInv says which task *)
(* owns a request, what its row and the queued commit say meanwhile, how   *)
(* old whatever was forgotten is, and that registry, waiters and replies   *)
(* point back to that owner or to its row.                                 *)
(***************************************************************************)
EXTENDS Messaging, TLAPS

OwnerPCs == {"register", "run", "hook", "commit", "publish"}
Owns(t) == task[t].pc \in OwnerPCs
OnRequest == {"claim", "attach", "wait", "reread", "defer", "reply", "mark"} \union OwnerPCs
Entered == {"run", "hook", "commit", "publish"}
TaskRec == [pc : PCs, w : Wraps \union {"none"}, on : Tasks \union {"none"}, out : Outs,
            at : Nat]
InvRow == [state : {"none", "RUNNING", "terminal"}, result : Terminal \union {"none"}, at : Nat]

(* The part of the type invariant the argument needs.                      *)
Typed ==
    /\ mode \in {"up", "draining", "aborting", "down"} /\ now \in Nat
    /\ task \in [Tasks -> TaskRec] /\ inv \in [Keys -> InvRow]
    /\ registry \in [Keys -> Tasks \union {NoOwner}] /\ runs \in [Keys -> Seq(Nat)]
    /\ jobs \subseteq Keys \X {"ok", "failed"} /\ answers \subseteq Keys \X Outs \X Nat
    /\ \A k \in Keys : inv[k].at <= now

(* Tasks exist only while the daemon takes or drains wraps; past the       *)
(* routing step a task works on an op.request.                             *)
TasksPlaced ==
    \A t \in Tasks :
        /\ task[t].pc \in OnRequest => Wrap(t) \in Requests
        /\ task[t].pc # "free" => Wrap(t) \in Wraps /\ mode \in {"up", "draining"}

(* A request has at most one owner.                                        *)
OneOwner == \A t, u \in Tasks : Owns(t) /\ Owns(u) /\ Key(t) = Key(u) => t = u

(* Until its commit an owner's row is RUNNING, and what it queued is its   *)
(* own outcome; once told of the commit, the row holds that outcome.       *)
OwnerRow ==
    \A t \in Tasks :
        /\ task[t].pc \in {"register", "run", "hook"} =>
              inv[Key(t)].state = "RUNNING" /\ \A out \in Outs : <<Key(t), out>> \notin jobs
        /\ At(t, "commit") => inv[Key(t)].state = "RUNNING" /\ <<Key(t), task[t].out>> \in jobs
        /\ At(t, "publish") =>
              inv[Key(t)].state = "terminal" /\ inv[Key(t)].result = task[t].out

(* One commit at most is queued for a request, and the row still waits for *)
(* it; nothing is queued when the daemon is down.                          *)
JobsAreOwn ==
    /\ \A k \in Keys : \A a, b \in Outs : <<k, a>> \in jobs /\ <<k, b>> \in jobs => a = b
    /\ \A k \in Keys : \A a \in Outs : <<k, a>> \in jobs => inv[k].state = "RUNNING"
    /\ mode = "down" => jobs = {}

(* An owner's row is of the day: a task lives for minutes.                 *)
OwnersFresh == \A t \in Tasks : Owns(t) => inv[Key(t)].at = now

(* A request without a row ran longer ago than rows are retained, one with *)
(* a row no later than that row, and its owner is the first in that span.  *)
RunsPast ==
    \A k \in Keys : \A i \in DOMAIN runs[k] :
        /\ inv[k].state = "none" => runs[k][i] + CacheWindow < now
        /\ inv[k].state # "none" => runs[k][i] <= inv[k].at
RunsAhead ==
    \A t \in Tasks : task[t].pc \in {"register", "run"} =>
        \A i \in DOMAIN runs[Key(t)] : runs[Key(t)][i] + CacheWindow < now

(* The registry names the owner, from registration to publication.         *)
Registered ==
    /\ \A t \in Tasks : task[t].pc \in Entered => registry[Key(t)] = t
    /\ \A k \in Keys : registry[k] # NoOwner =>
          task[registry[k]].pc \in Entered /\ Key(registry[k]) = k

(* What a task is about to say, or a relay has accepted, of a request: a   *)
(* result, and the time of the row it came from.                           *)
IsGiven(k, r, a) ==
    \/ <<k, r, a>> \in answers
    \/ \E t \in Tasks : /\ task[t].pc \in {"reply", "mark"}
                        /\ Key(t) = k /\ task[t].out = r /\ task[t].at = a

(* The row says just that, or it is of a later span, or was pruned.        *)
InRow(k, r, a) == inv[k].state = "terminal" /\ inv[k].result = r /\ inv[k].at = a
Told(k, r, a) ==
    \/ InRow(k, r, a)
    \/ inv[k].state # "none" /\ a + CacheWindow < inv[k].at
    \/ inv[k].state = "none" /\ a + CacheWindow < now

Results == Outs \ {"refused"}
GivenTold == \A k \in Keys, r \in Results, a \in Nat : IsGiven(k, r, a) => Told(k, r, a)

(* Results of one request agree, or lie further apart than the retention.  *)
Agree(r, a, q, b) == (r = q /\ a = b) \/ a + CacheWindow < b \/ b + CacheWindow < a
GivenAgree ==
    \A k \in Keys, r \in Results, a \in Nat, q \in Results, b \in Nat :
        IsGiven(k, r, a) /\ IsGiven(k, q, b) => Agree(r, a, q, b)

(* Only an answered wrap is about to be marked seen.                       *)
MarksAnswered == \A t \in Tasks : At(t, "mark") => \E a \in answers : a[1] = Key(t)

(* A waiter waits for the registered owner of its request.                 *)
Waiters == \A t \in Tasks : At(t, "wait") =>
              task[t].on \in Tasks /\ registry[Key(t)] = task[t].on

GInv ==
    /\ Typed /\ TasksPlaced /\ OneOwner /\ OwnerRow /\ OwnersFresh /\ JobsAreOwn
    /\ HookRunsOnce /\ RunsPast /\ RunsAhead /\ Registered
    /\ GivenTold /\ GivenAgree /\ MarksAnswered /\ SeenIsAnswered /\ Waiters

(* What is given after a step was given before it or is in the row now,    *)
(* and nothing given before is belied by the step.                         *)
LEMMA GivenMoves ==
    ASSUME GInv, Typed',
           \A k \in Keys, r \in Results, a \in Nat : Told(k, r, a) => Told(k, r, a)',
           \A k \in Keys, r \in Results, a \in Nat :
              IsGiven(k, r, a)' => IsGiven(k, r, a) \/ InRow(k, r, a)'
    PROVE  GivenTold' /\ GivenAgree'
<1>1. \A k \in Keys, r \in Results, a \in Nat : IsGiven(k, r, a)' => Told(k, r, a)'
  BY DEF GInv, GivenTold, Told
<1>2. ASSUME NEW k \in Keys, NEW r \in Results, NEW a \in Nat, NEW q \in Results, NEW b \in Nat,
             IsGiven(k, r, a)', InRow(k, q, b)'
      PROVE  Agree(r, a, q, b)
  <2>1. Told(k, r, a)'
    BY <1>1, <1>2
  <2> QED
    BY <1>2, <2>1 DEF Told, InRow, Agree
<1>3. ASSUME NEW k \in Keys, NEW r \in Results, NEW a \in Nat, NEW q \in Results, NEW b \in Nat,
             IsGiven(k, r, a)', IsGiven(k, q, b)'
      PROVE  Agree(r, a, q, b)
  <2>1. CASE IsGiven(k, r, a) /\ IsGiven(k, q, b)
    BY <2>1 DEF GInv, GivenAgree
  <2>2. CASE InRow(k, q, b)'
    BY <1>2, <1>3, <2>2
  <2>3. CASE InRow(k, r, a)'
    <3>1. Agree(q, b, r, a)
      BY <1>2, <1>3, <2>3
    <3> QED
      BY <3>1 DEF Agree
  <2> QED
    BY <1>3, <2>1, <2>2, <2>3
<1>4. GivenTold'
  BY <1>1 DEF GivenTold
<1>5. GivenAgree'
  BY <1>3 DEF GivenAgree
<1> QED
  BY <1>4, <1>5

(* As long as rows and time stand still, what was told stays told.         *)
LEMMA ToldStays ==
    ASSUME UNCHANGED <<inv, now>>
    PROVE  /\ \A k \in Keys, r \in Results, a \in Nat : Told(k, r, a) => Told(k, r, a)'
           /\ \A k \in Keys, r \in Results, a \in Nat : InRow(k, r, a) => InRow(k, r, a)'
BY DEF Told, InRow

(* What one task's move makes given.                                       *)
LEMMA GivenByMove ==
    ASSUME GInv, Typed', NEW t \in Tasks, NEW r \in TaskRec, task' = [task EXCEPT ![t] = r],
           UNCHANGED <<inv, now, answers>>,
           r.pc \in {"reply", "mark"} /\ r.out # "refused" => InRow(KeyOf[r.w], r.out, r.at)
    PROVE  GivenTold' /\ GivenAgree'
<1>1. task'[t] = r /\ \A u \in Tasks : u # t => task'[u] = task[u]
  BY DEF GInv, Typed
<1>2. ASSUME NEW k \in Keys, NEW q \in Results, NEW a \in Nat, IsGiven(k, q, a)'
      PROVE  IsGiven(k, q, a) \/ InRow(k, q, a)'
  <2>1. CASE <<k, q, a>> \in answers'
    BY <2>1 DEF IsGiven
  <2>2. CASE <<k, q, a>> \notin answers'
    <3>1. PICK u \in Tasks : /\ task'[u].pc \in {"reply", "mark"} /\ KeyOf[task'[u].w] = k
                             /\ task'[u].out = q /\ task'[u].at = a
      BY <1>2, <2>2 DEF IsGiven, Key, Wrap
    <3>2. CASE u = t
      <4>1. InRow(k, q, a)
        BY <1>1, <3>1, <3>2 DEF Results
      <4> QED
        BY <4>1 DEF InRow
    <3>3. CASE u # t
      BY <1>1, <3>1, <3>3 DEF IsGiven, Key, Wrap
    <3> QED
      BY <3>2, <3>3
  <2> QED
    BY <2>1, <2>2
<1> QED
  BY <1>2, ToldStays, GivenMoves

(* A task that owns nothing before and after its step leaves the facts on  *)
(* owners, rows and the registry alone.                                    *)
LEMMA CalmMove ==
    ASSUME GInv, NEW t \in Tasks, NEW r \in TaskRec,
           task' = [task EXCEPT ![t] = r], UNCHANGED <<inv, registry, jobs, runs, now, mode>>,
           ~Owns(t), r.pc \notin OwnerPCs,
           r.pc = "wait" => r.on \in Tasks /\ registry[KeyOf[r.w]] = r.on,
           r.pc \in OnRequest => r.w \in Requests,
           r.pc # "free" => r.w \in Wraps /\ mode \in {"up", "draining"}
    PROVE  /\ task' \in [Tasks -> TaskRec] /\ TasksPlaced' /\ OneOwner' /\ OwnerRow'
           /\ OwnersFresh' /\ JobsAreOwn' /\ HookRunsOnce' /\ RunsPast' /\ RunsAhead'
           /\ Registered' /\ Waiters'
<1> USE DEF At, Wrap, Key, Owns
<1>1. task'[t] = r /\ \A u \in Tasks : u # t => task'[u] = task[u]
  BY DEF GInv, Typed
<1>2. task' \in [Tasks -> TaskRec]
  BY DEF GInv, Typed
<1>3. TasksPlaced'
  BY <1>1 DEF GInv, TasksPlaced
<1>4. OneOwner'
  BY <1>1 DEF GInv, OneOwner
<1>5. OwnerRow'
  BY <1>1 DEF GInv, OwnerRow, OwnerPCs
<1>6. JobsAreOwn'
  BY DEF GInv, JobsAreOwn
<1>7. OwnersFresh' /\ RunsAhead'
  BY <1>1 DEF GInv, OwnersFresh, RunsAhead, OwnerPCs
<1>8. Registered'
  BY <1>1, OpDispatchAssumption DEF GInv, Registered, OwnerPCs, Entered, Typed
<1>9. HookRunsOnce' /\ RunsPast'
  BY DEF GInv, HookRunsOnce, RunsPast
<1>10. Waiters'
  BY <1>1 DEF GInv, Waiters
<1> QED
  BY <1>2, <1>3, <1>4, <1>5, <1>6, <1>7, <1>8, <1>9, <1>10

(* Requests have keys.                                                     *)
LEMMA KeyType == \A w \in Requests : KeyOf[w] \in Keys
BY DEF Keys

(* A free permit is a task record.                                         *)
LEMMA IdleType == Idle \in TaskRec
BY DEF Idle, TaskRec, PCs, Outs

(* Such a step preserves the invariant, when nothing is answered by it.    *)
LEMMA QuietMove ==
    ASSUME GInv, NEW t \in Tasks, NEW r \in TaskRec,
           task' = [task EXCEPT ![t] = r],
           UNCHANGED <<inv, registry, jobs, runs, now, mode, answers, seen>>,
           ~Owns(t), r.pc \notin OwnerPCs, r.pc # "mark",
           r.pc = "wait" => r.on \in Tasks /\ registry[KeyOf[r.w]] = r.on,
           r.pc \in OnRequest => r.w \in Requests,
           r.pc # "free" => r.w \in Wraps /\ mode \in {"up", "draining"},
           r.pc = "reply" /\ r.out # "refused" =>
              InRow(KeyOf[r.w], r.out, r.at)
    PROVE  GInv'
<1>1. /\ task' \in [Tasks -> TaskRec] /\ TasksPlaced' /\ OneOwner' /\ OwnerRow'
      /\ OwnersFresh' /\ JobsAreOwn' /\ HookRunsOnce' /\ RunsPast' /\ RunsAhead'
      /\ Registered' /\ Waiters'
  BY CalmMove
<1>2. task'[t] = r /\ \A u \in Tasks : u # t => task'[u] = task[u]
  BY DEF GInv, Typed
<1>3. Typed'
  BY <1>1 DEF GInv, Typed
<1>4. GivenTold' /\ GivenAgree'
  BY <1>3, GivenByMove
<1>5. MarksAnswered'
  BY <1>2 DEF GInv, MarksAnswered, At, Key, Wrap
<1>6. SeenIsAnswered'
  BY DEF GInv, SeenIsAnswered
<1> QED
  BY <1>1, <1>3, <1>4, <1>5, <1>6 DEF GInv

(* The steps of the transport, and of a copy that owns nothing.            *)
LEMMA TransportSteps ==
    ASSUME GInv, NEW t \in Tasks,
           \/ \E w \in Wraps, forged \in BOOLEAN : Deliver(t, w, forged)
           \/ RejectForged(t) \/ Claimed(t) \/ IsSeen(t) \/ NotRoutable(t) \/ RateLimit(t)
           \/ ClaimResend(t) \/ ClaimRunning(t) \/ ClaimRefused(t)
           \/ Attach(t) \/ Reread(t) \/ Defer(t)
    PROVE  GInv'
<1> USE DEF At, Wrap, Key, To, ToWith, Finish, Owns, OwnerPCs, inboxVars, opVars, Existing
<1>1. task[t] \in TaskRec /\ Idle \in TaskRec /\ TasksPlaced
  BY IdleType DEF GInv, Typed
<1>2. ASSUME ~Owns(t), task' = [task EXCEPT ![t] = Idle],
             UNCHANGED <<inv, registry, jobs, runs, now, mode, answers, seen>>
      PROVE  GInv'
  BY <1>1, <1>2, QuietMove DEF Idle, OnRequest
<1>3. ASSUME NEW w \in Wraps, NEW forged \in BOOLEAN, Deliver(t, w, forged) PROVE GInv'
  <2> DEFINE r == [Idle EXCEPT !.pc = IF forged THEN "forged" ELSE "spawned", !.w = w]
  <2>1. /\ r \in TaskRec /\ r.pc \in {"forged", "spawned"} /\ r.w = w
    BY DEF Idle, TaskRec, PCs, Outs
  <2>2. /\ task' = [task EXCEPT ![t] = r] /\ mode = "up"
        /\ task[t].pc = "free"
        /\ UNCHANGED <<inv, registry, jobs, runs, now, mode, answers, seen>>
    BY <1>3 DEF Deliver
  <2> HIDE DEF r
  <2> QED
    BY <2>1, <2>2, QuietMove DEF OnRequest
<1>4. ASSUME NEW pc \in {"lookup", "route", "claim", "attach", "reread"},
             task' = [task EXCEPT ![t].pc = pc], task[t].pc \notin OwnerPCs \union {"free"},
             task[t].pc \in OnRequest \/ pc \notin OnRequest \/ task[t].w \in Requests,
             UNCHANGED <<inv, registry, jobs, runs, now, mode, answers, seen>>
      PROVE  GInv'
  <2> DEFINE r == [task[t] EXCEPT !.pc = pc]
  <2>1. task' = [task EXCEPT ![t] = r]
    BY <1>4
  <2>2. r \in TaskRec /\ r.pc = pc /\ r.w = task[t].w
    BY <1>1 DEF TaskRec, PCs
  <2>3. r.w \in Wraps /\ mode \in {"up", "draining"}
    BY <1>1, <1>4, <2>2 DEF TasksPlaced
  <2>4. r.pc \in OnRequest => r.w \in Requests
    BY <1>1, <1>4, <2>2 DEF TasksPlaced
  <2> HIDE DEF r
  <2> QED
    BY <1>4, <2>1, <2>2, <2>3, <2>4, QuietMove
<1>5. ASSUME NEW out \in Outs, task[t].pc \in {"claim", "reread"},
             ToWith(t, "reply", out),
             out = "refused" \/ (inv[Key(t)].state = "terminal" /\ inv[Key(t)].result = out),
             UNCHANGED <<inv, registry, jobs, runs, now, mode, answers, seen>>
      PROVE  GInv'
  <2> DEFINE r == [task[t] EXCEPT !.pc = "reply", !.out = out, !.at = inv[Key(t)].at]
  <2>1. task' = [task EXCEPT ![t] = r]
    BY <1>5
  <2>4. inv[Key(t)].at \in Nat
    BY <1>1, <1>5, KeyType DEF TasksPlaced, OnRequest, GInv, Typed, InvRow
  <2>2. /\ r \in TaskRec /\ r.pc = "reply" /\ r.w = task[t].w /\ r.out = out
        /\ r.at = inv[Key(t)].at
    BY <1>1, <2>4 DEF TaskRec, PCs
  <2>3. r.w \in Wraps /\ mode \in {"up", "draining"} /\ r.w \in Requests
    BY <1>1, <1>5, <2>2 DEF TasksPlaced, OnRequest
  <2> HIDE DEF r
  <2> QED
    BY <1>5, <2>1, <2>2, <2>3, QuietMove DEF InRow
<1>6. CASE RejectForged(t) \/ NotRoutable(t) \/ Defer(t)
  BY <1>2, <1>6 DEF RejectForged, NotRoutable, Defer
<1>7. CASE Claimed(t)
  BY <1>2, <1>4, <1>7 DEF Claimed, OnRequest
<1>8. CASE IsSeen(t)
  BY <1>2, <1>4, <1>8 DEF IsSeen, OnRequest
<1>9. CASE RateLimit(t)
  BY <1>2, <1>4, <1>9 DEF RateLimit
<1>10. CASE ClaimRunning(t)
  BY <1>4, <1>10 DEF ClaimRunning, OnRequest
<1>11. CASE ClaimRefused(t)
  BY <1>5, <1>11 DEF ClaimRefused, Outs
<1>12. ASSUME task[t].pc \in {"claim", "reread"}, inv[Key(t)].state = "terminal"
       PROVE  inv[Key(t)].result \in Outs
  <2>1. Key(t) \in Keys
    BY <1>1, <1>12, KeyType DEF TasksPlaced, OnRequest
  <2> QED
    BY <2>1 DEF GInv, Typed, InvRow, Outs
<1>13. CASE ClaimResend(t)
  BY <1>5, <1>12, <1>13 DEF ClaimResend
<1>14. CASE Reread(t)
  BY <1>2, <1>5, <1>12, <1>14 DEF Reread
<1>15. CASE Attach(t)
  <2>1. CASE registry[Key(t)] = NoOwner
    <3>1. task' = [task EXCEPT ![t].pc = "reread"]
      BY <1>1, <1>15, <2>1 DEF Attach
    <3> QED
      BY <1>4, <1>15, <3>1 DEF Attach, OnRequest
  <2>2. CASE registry[Key(t)] # NoOwner
    <3> DEFINE r == [task[t] EXCEPT !.pc = "wait", !.on = registry[Key(t)]]
    <3>1. task' = [task EXCEPT ![t] = r] /\ task[t].pc = "attach"
      BY <1>15, <2>2 DEF Attach
    <3>2. /\ Wrap(t) \in Requests /\ Wrap(t) \in Wraps 
          /\ mode \in {"up", "draining"}
      BY <1>1, <3>1 DEF TasksPlaced, OnRequest
    <3>3. registry[Key(t)] \in Tasks
      BY <2>2, <3>2, KeyType DEF GInv, Typed
    <3>4. r \in TaskRec /\ r.pc = "wait" /\ r.w = task[t].w /\ r.on = registry[Key(t)]
      BY <1>1, <3>3 DEF TaskRec, PCs
    <3>5. UNCHANGED <<inv, registry, jobs, runs, now, mode, answers, seen>>
      BY <1>15 DEF Attach
    <3> HIDE DEF r
    <3> QED
      BY <3>1, <3>2, <3>3, <3>4, <3>5, QuietMove
  <2> QED
    BY <2>1, <2>2
<1> QED
  BY <1>3, <1>6, <1>7, <1>8, <1>9, <1>10, <1>11, <1>13, <1>14, <1>15

(* A reply that a relay accepted is the row's result, as every earlier one *)
(* was; only then is the wrap marked.                                      *)
LEMMA ReplySteps ==
    ASSUME GInv, NEW t \in Tasks,
           \/ \E accepted \in BOOLEAN : Replied(t, accepted)
           \/ \E stored \in BOOLEAN : MarkSeen(t, stored)
    PROVE  GInv'
<1> USE DEF At, Wrap, Key, To, Finish, Owns, OwnerPCs, inboxVars, opVars
<1>1. task[t] \in TaskRec /\ Idle \in TaskRec /\ TasksPlaced
  BY IdleType DEF GInv, Typed
<1>2. CASE Replied(t, TRUE)
  <2> DEFINE r == [task[t] EXCEPT !.pc = "mark"]
             k == Key(t)
             o == task[t].out
             a == task[t].at
  <2>1. /\ task' = [task EXCEPT ![t] = r] /\ task[t].pc = "reply"
        /\ answers' = answers \union {<<k, o, a>>}
        /\ UNCHANGED <<inv, registry, jobs, runs, now, mode, seen>>
    BY <1>2 DEF Replied, Reply
  <2>2. /\ Wrap(t) \in Requests /\ Wrap(t) \in Wraps
        /\ mode \in {"up", "draining"} /\ k \in Keys /\ o \in Outs /\ a \in Nat
    BY <1>1, <2>1, KeyType DEF TasksPlaced, OnRequest, TaskRec
  <2>3. r \in TaskRec /\ r.pc = "mark" /\ r.w = task[t].w /\ r.out = o /\ r.at = a
    BY <1>1 DEF TaskRec, PCs
  <2>4. IsGiven(k, o, a)
    BY <2>1 DEF IsGiven
  <2> HIDE DEF r, k, o, a
  <2>5. /\ task' \in [Tasks -> TaskRec] /\ TasksPlaced' /\ OneOwner' /\ OwnerRow'
        /\ OwnersFresh' /\ JobsAreOwn' /\ HookRunsOnce' /\ RunsPast' /\ RunsAhead'
        /\ Registered' /\ Waiters'
    BY <2>1, <2>2, <2>3, CalmMove
  <2>6. Typed'
    BY <2>1, <2>2, <2>5 DEF GInv, Typed
  <2>7. GivenTold' /\ GivenAgree'
    <3>1. ASSUME NEW l \in Keys, NEW q \in Results, NEW b \in Nat, IsGiven(l, q, b)'
          PROVE  IsGiven(l, q, b)
      <4>1. CASE <<l, q, b>> \in answers'
        BY <2>1, <2>4, <4>1 DEF IsGiven
      <4>2. CASE <<l, q, b>> \notin answers'
        <5>1. PICK u \in Tasks : /\ task'[u].pc \in {"reply", "mark"} /\ KeyOf[task'[u].w] = l
                                 /\ task'[u].out = q /\ task'[u].at = b
          BY <3>1, <4>2 DEF IsGiven
        <5>2. task[u].pc \in {"reply", "mark"} /\ Key(u) = l /\ task[u].out = q /\ task[u].at = b
          <6>1. CASE u = t
            BY <1>1, <2>1, <2>3, <5>1, <6>1 DEF GInv, Typed, o, a
          <6>2. CASE u # t
            BY <2>1, <5>1, <6>2 DEF GInv, Typed
          <6> QED
            BY <6>1, <6>2
        <5> QED
          BY <5>2 DEF IsGiven
      <4> QED
        BY <4>1, <4>2
    <3> QED
      BY <2>1, <2>6, <3>1, ToldStays, GivenMoves
  <2>8. SeenIsAnswered'
    BY <2>1 DEF GInv, SeenIsAnswered
  <2>9. MarksAnswered'
    <3>1. task'[t] = r /\ \A u \in Tasks : u # t => task'[u] = task[u]
      BY <2>1 DEF GInv, Typed
    <3>2. KeyOf[r.w] = k
      BY <2>3 DEF k
    <3>3. <<k, o, a>> \in answers' /\ <<k, o, a>>[1] = k /\ answers \subseteq answers'
      BY <2>1
    <3>4. ASSUME NEW u \in Tasks, task'[u].pc = "mark"
          PROVE  \E x \in answers' : x[1] = KeyOf[task'[u].w]
      <4>1. CASE u = t
        BY <3>1, <3>2, <3>3, <4>1
      <4>2. CASE u # t
        BY <3>1, <3>3, <3>4, <4>2 DEF GInv, MarksAnswered
      <4> QED
        BY <4>1, <4>2
    <3> QED
      BY <3>4 DEF MarksAnswered
  <2> QED
    BY <2>5, <2>6, <2>7, <2>8, <2>9 DEF GInv
<1>3. CASE Replied(t, FALSE)
  <2>1. /\ task' = [task EXCEPT ![t] = Idle] /\ task[t].pc = "reply"
        /\ UNCHANGED <<inv, registry, jobs, runs, now, mode, answers, seen>>
    BY <1>3 DEF Replied
  <2> QED
    BY <1>1, <2>1, QuietMove DEF Idle, OnRequest
<1>4. ASSUME NEW stored \in BOOLEAN, MarkSeen(t, stored) PROVE GInv'
  <2>1. /\ task' = [task EXCEPT ![t] = Idle] /\ task[t].pc = "mark"
        /\ UNCHANGED <<inv, registry, jobs, runs, now, mode, answers>>
    BY <1>4 DEF MarkSeen
  <2>2. DOMAIN seen' \subseteq DOMAIN seen \union {Wrap(t)}
    BY <1>4 DEF MarkSeen, FreshSeen
  <2>3. /\ task' \in [Tasks -> TaskRec] /\ TasksPlaced' /\ OneOwner' /\ OwnerRow'
        /\ OwnersFresh' /\ JobsAreOwn' /\ HookRunsOnce' /\ RunsPast' /\ RunsAhead'
        /\ Registered' /\ Waiters'
    BY <1>1, <2>1, CalmMove DEF Idle, OnRequest
  <2>4. SeenIsAnswered'
    BY <2>1, <2>2 DEF GInv, SeenIsAnswered, MarksAnswered
  <2>5. Typed'
    BY <2>1, <2>3 DEF GInv, Typed
  <2>7. GivenTold' /\ GivenAgree'
    BY <1>1, <2>1, <2>5, GivenByMove DEF Idle
  <2>6. MarksAnswered'
    BY <2>1 DEF GInv, Typed, MarksAnswered, Idle
  <2> QED
    BY <2>3, <2>4, <2>5, <2>6, <2>7 DEF GInv
<1> QED
  BY <1>2, <1>3, <1>4

(* What one owner's step leaves of the other tasks' facts.                 *)
LEMMA OwnerFrame ==
    ASSUME GInv, NEW t \in Tasks, NEW r \in TaskRec, task' = [task EXCEPT ![t] = r],
           UNCHANGED <<now, mode, answers, seen>>, r.w = task[t].w,
           task[t].pc \in OnRequest, r.pc \in OwnerPCs
    PROVE  /\ task' \in [Tasks -> TaskRec] /\ TasksPlaced' /\ MarksAnswered' /\ SeenIsAnswered'
           /\ task'[t] = r /\ \A u \in Tasks : u # t => task'[u] = task[u]
           /\ Key(t) \in Keys /\ mode \in {"up", "draining"}
<1> USE DEF At, Wrap, Key, Owns
<1>1. /\ task' \in [Tasks -> TaskRec]
      /\ task'[t] = r /\ \A u \in Tasks : u # t => task'[u] = task[u]
  BY DEF GInv, Typed
<1>2. /\ task[t].w \in Requests /\ task[t].w \in Wraps
      /\ mode \in {"up", "draining"}
  BY DEF GInv, TasksPlaced, OnRequest, OwnerPCs
<1>3. TasksPlaced'
  BY <1>1, <1>2 DEF GInv, TasksPlaced
<1>4. MarksAnswered' /\ SeenIsAnswered'
  BY <1>1 DEF GInv, MarksAnswered, SeenIsAnswered, OwnerPCs
<1> QED
  BY <1>1, <1>2, <1>3, <1>4, KeyType

(* The claim: no row was there, so nobody owns, ran or answered the key.   *)
LEMMA ClaimWonStep == ASSUME GInv, NEW t \in Tasks, ClaimWon(t) PROVE GInv'
<1> USE DEF At, Wrap, Key, Owns
<1> DEFINE r == [task[t] EXCEPT !.pc = "register"]
           k == Key(t)
<1>1. /\ task' = [task EXCEPT ![t] = r] /\ task[t].pc = "claim" /\ inv[k].state = "none"
      /\ inv' = [inv EXCEPT ![k] = [state |-> "RUNNING", result |-> "none", at |-> now]]
      /\ UNCHANGED <<registry, jobs, runs, now, mode, answers, seen>>
  BY DEF ClaimWon, To, Existing, inboxVars
<1>2. r \in TaskRec /\ r.pc = "register" /\ r.w = task[t].w /\ task[t].pc \in OnRequest
  BY <1>1 DEF GInv, Typed, TaskRec, PCs, OnRequest
<1> HIDE DEF r
<1>3. /\ task' \in [Tasks -> TaskRec] /\ TasksPlaced' /\ MarksAnswered' /\ SeenIsAnswered'
      /\ task'[t] = r /\ (\A u \in Tasks : u # t => task'[u] = task[u])
      /\ k \in Keys /\ mode \in {"up", "draining"}
  BY <1>1, <1>2, OwnerFrame DEF OwnerPCs
<1>4. KeyOf[r.w] = k
  BY <1>2
<1> HIDE DEF k
<1>5. inv'[k].state = "RUNNING" /\ \A l \in Keys : l # k => inv'[l] = inv[l]
  BY <1>1, <1>3 DEF GInv, Typed
<1>6. Typed'
  <2>1. [state |-> "RUNNING", result |-> "none", at |-> now] \in InvRow
    BY DEF GInv, Typed, InvRow
  <2>2. inv' \in [Keys -> InvRow]
    BY <1>1, <2>1 DEF GInv, Typed
  <2> QED
    BY <1>1, <1>3, <2>2 DEF GInv, Typed
<1>7. \A u \in Tasks : u # t /\ Owns(u) => Key(u) # k
  BY <1>1 DEF GInv, OwnerRow, OwnerPCs, k
<1>8. OneOwner'
  BY <1>3, <1>4, <1>7 DEF GInv, OneOwner
<1>9. \A out \in Outs : <<k, out>> \notin jobs
  BY <1>1, <1>3 DEF GInv, JobsAreOwn
<1>10. \A u \in Tasks : u # t /\ task[u].pc \in OnRequest => Key(u) \in Keys
  BY KeyType DEF GInv, TasksPlaced
<1>11. OwnerRow'
  <2>1. ASSUME NEW u \in Tasks, u # t, task[u].pc \in OwnerPCs PROVE inv'[Key(u)] = inv[Key(u)]
    BY <1>5, <1>7, <1>10, <2>1 DEF OnRequest
  <2> QED
    BY <1>1, <1>2, <1>3, <1>4, <1>5, <1>9, <2>1 DEF GInv, OwnerRow, OwnerPCs
<1>12. JobsAreOwn'
  BY <1>1, <1>5, <1>9 DEF GInv, JobsAreOwn
<1>13. HookRunsOnce' /\ RunsPast' /\ RunsAhead'
  <2>1. \A i \in DOMAIN runs[k] : runs[k][i] + CacheWindow < now
    BY <1>1, <1>3 DEF GInv, RunsPast
  <2>2. inv'[k].at = now /\ runs \in [Keys -> Seq(Nat)] /\ now \in Nat /\ CacheWindow \in Nat
    BY <1>1, <1>3, InboxAssumption DEF GInv, Typed
  <2>3. \A i \in DOMAIN runs[k] : runs[k][i] \in Nat
    BY <1>3, <2>2
  <2>4. RunsPast'
    BY <1>1, <1>5, <2>1, <2>2, <2>3 DEF GInv, RunsPast
  <2>5. RunsAhead'
    BY <1>1, <1>2, <1>3, <1>4, <2>1 DEF GInv, RunsAhead
  <2>6. HookRunsOnce'
    BY <1>1 DEF GInv, HookRunsOnce
  <2> QED
    BY <2>4, <2>5, <2>6
<1>18. OwnersFresh'
  <2>1. ASSUME NEW u \in Tasks, task'[u].pc \in OwnerPCs PROVE inv'[KeyOf[task'[u].w]].at = now
    <3>1. CASE u = t
      BY <1>1, <1>3, <1>4, <3>1 DEF GInv, Typed
    <3>2. CASE u # t
      <4>1. Key(u) # k /\ Key(u) \in Keys /\ task'[u] = task[u]
        BY <1>3, <1>7, <1>10, <2>1, <3>2 DEF OwnerPCs, OnRequest
      <4> QED
        BY <1>5, <2>1, <4>1 DEF GInv, OwnersFresh
    <3> QED
      BY <3>1, <3>2
  <2> QED
    BY <1>1, <2>1 DEF OwnersFresh
<1>14. Registered'
  BY <1>1, <1>2, <1>3, OpDispatchAssumption DEF GInv, Registered, Typed, Entered
<1>15. GivenTold' /\ GivenAgree'
  <2>1. ASSUME NEW l \in Keys, NEW q \in Results, NEW b \in Nat, Told(l, q, b)
        PROVE  Told(l, q, b)'
    <3>1. CASE l = k
      <4>1. b + CacheWindow < now /\ inv'[k].at = now /\ inv'[k].state = "RUNNING"
        BY <1>1, <1>3, <2>1, <3>1 DEF Told, InRow, GInv, Typed
      <4> QED
        BY <3>1, <4>1 DEF Told
    <3>2. CASE l # k
      BY <1>1, <1>5, <2>1, <3>2 DEF Told, InRow
    <3> QED
      BY <3>1, <3>2
  <2>2. ASSUME NEW l \in Keys, NEW q \in Results, NEW b \in Nat, IsGiven(l, q, b)'
        PROVE  IsGiven(l, q, b)
    BY <1>1, <1>2, <1>3, <2>2 DEF IsGiven
  <2> QED
    BY <1>6, <2>1, <2>2, GivenMoves
<1>17. Waiters'
  BY <1>1, <1>2, <1>3 DEF GInv, Waiters
<1> QED
  BY <1>3, <1>6, <1>8, <1>11, <1>12, <1>13, <1>14, <1>15, <1>17, <1>18 DEF GInv

(* The owner registers, refuses, runs its hook, or queues the result.      *)
LEMMA OwnerSteps ==
    ASSUME GInv, NEW t \in Tasks,
           \/ Register(t) \/ RefuseOp(t) \/ RunHook(t)
           \/ \E out \in {"ok", "failed"} : HookReturns(t, out)
    PROVE  GInv'
<1> USE DEF At, Wrap, Key, Owns
<1> DEFINE k == Key(t)
<1>1. ASSUME NEW pc \in Entered, NEW out \in Outs, NEW at \in Nat,
             task[t].pc \in {"register", "run", "hook"},
             task' = [task EXCEPT ![t] = [task[t] EXCEPT !.pc = pc, !.out = out, !.at = at]],
             UNCHANGED <<inv, now, mode, answers, seen>>,
             registry' = [registry EXCEPT ![k] = t],
             \/ pc \in {"run", "hook"} /\ jobs' = jobs
             \/ pc = "commit" /\ out \in {"ok", "failed"} /\ jobs' = jobs \union {<<k, out>>},
             \/ runs' = runs /\ (pc = "run" => task[t].pc = "register")
             \/ pc = "hook" /\ task[t].pc = "run" /\ runs' = [runs EXCEPT ![k] = Append(@, now)]
      PROVE  GInv'
  <2> DEFINE r == [task[t] EXCEPT !.pc = pc, !.out = out, !.at = at]
  <2>1. /\ r \in TaskRec /\ r.pc = pc /\ r.w = task[t].w /\ r.out = out
        /\ task[t].pc \in OnRequest
    BY <1>1 DEF GInv, Typed, TaskRec, Entered, PCs, OnRequest, OwnerPCs
  <2> HIDE DEF r
  <2>2. /\ task' \in [Tasks -> TaskRec] /\ TasksPlaced' /\ MarksAnswered' /\ SeenIsAnswered'
        /\ task'[t] = r /\ (\A u \in Tasks : u # t => task'[u] = task[u])
        /\ k \in Keys /\ mode \in {"up", "draining"}
    BY <1>1, <2>1, OwnerFrame DEF OwnerPCs, Entered, r
  <2>3. KeyOf[r.w] = k
    BY <2>1
  <2>4. inv[k].state = "RUNNING" /\ \A o \in Outs : <<k, o>> \notin jobs
    BY <1>1 DEF GInv, OwnerRow
  <2>5. \A u \in Tasks : u # t /\ Owns(u) => Key(u) # k
    BY <1>1 DEF GInv, OneOwner, OwnerPCs
  <2> HIDE DEF k
  <2>6. registry'[k] = t /\ \A l \in Keys : l # k => registry'[l] = registry[l]
    BY <1>1, <2>2 DEF GInv, Typed
  <2>7. \A u \in Tasks : task[u].pc \in OnRequest => Key(u) \in Keys
    BY KeyType DEF GInv, TasksPlaced
  <2>8. Typed'
    <3>1. registry' \in [Keys -> Tasks \union {NoOwner}]
      BY <1>1, <2>2 DEF GInv, Typed
    <3>3. runs' \in [Keys -> Seq(Nat)]
      <4>1. PICK old \in Seq(Nat) : old = runs[k]
        BY <2>2 DEF GInv, Typed
      <4>2. Append(old, now) \in Seq(Nat)
        BY DEF GInv, Typed
      <4> QED
        BY <1>1, <2>2, <4>1, <4>2 DEF GInv, Typed
    <3>2. jobs' \subseteq Keys \X {"ok", "failed"}
      BY <1>1, <2>2 DEF GInv, Typed
    <3> QED
      BY <1>1, <2>2, <3>1, <3>2, <3>3 DEF GInv, Typed
  <2>9. OneOwner'
    BY <2>2, <2>3, <2>5 DEF GInv, OneOwner
  <2>10. OwnerRow'
    <3>1. \A u \in Tasks : u # t /\ Owns(u) =>
             \A o \in Outs : <<Key(u), o>> \in jobs' <=> <<Key(u), o>> \in jobs
      BY <1>1, <2>5
    <3> QED
      BY <1>1, <2>1, <2>2, <2>3, <2>4, <3>1 DEF GInv, OwnerRow, OwnerPCs, Entered, Typed, TaskRec
  <2>11. JobsAreOwn'
    BY <1>1, <2>2, <2>4 DEF GInv, JobsAreOwn
  <2>12. HookRunsOnce' /\ RunsPast' /\ RunsAhead'
    <3>1. /\ runs \in [Keys -> Seq(Nat)] /\ now \in Nat /\ CacheWindow \in Nat
          /\ inv[k].at = now
      BY <1>1, InboxAssumption DEF GInv, Typed, OwnersFresh, OwnerPCs, k
    <3>2. \A l \in Keys : l # k => runs'[l] = runs[l]
      BY <1>1, <2>2, <3>1
    <3>3. CASE runs' = runs
      <4>1. HookRunsOnce' /\ RunsPast'
        BY <1>1, <3>3 DEF GInv, HookRunsOnce, RunsPast
      <4>2. ASSUME NEW u \in Tasks, task'[u].pc \in {"register", "run"},
                   NEW i \in DOMAIN runs[KeyOf[task'[u].w]]
            PROVE  runs[KeyOf[task'[u].w]][i] + CacheWindow < now
        <5>1. CASE u = t
          BY <1>1, <2>1, <2>2, <3>3, <4>2, <5>1 DEF GInv, RunsAhead, Entered
        <5>2. CASE u # t
          BY <2>2, <4>2, <5>2 DEF GInv, RunsAhead
        <5> QED
          BY <5>1, <5>2
      <4>3. RunsAhead'
        BY <1>1, <3>3, <4>2 DEF RunsAhead
      <4> QED
        BY <4>1, <4>3
    <3>4. CASE runs' # runs
      <4>1. pc = "hook" /\ task[t].pc = "run" /\ runs' = [runs EXCEPT ![k] = Append(@, now)]
        BY <1>1, <3>4
      <4>2. PICK old \in Seq(Nat) : old = runs[k]
        BY <2>2, <3>1
      <4>3. runs'[k] = Append(old, now)
        BY <2>2, <3>1, <4>1, <4>2
      <4>4. \A i \in DOMAIN old : old[i] + CacheWindow < now /\ old[i] \in Nat
        <5>1. \A i \in DOMAIN old : old[i] + CacheWindow < now
          BY <4>1, <4>2 DEF GInv, RunsAhead, k
        <5> QED
          BY <5>1
      <4>5. /\ DOMAIN Append(old, now) = 1..Len(old) + 1 /\ DOMAIN old = 1..Len(old)
            /\ \A i \in 1..Len(old) : Append(old, now)[i] = old[i]
            /\ Append(old, now)[Len(old) + 1] = now /\ Len(old) \in Nat
        BY <3>1
      <4>6. ASSUME NEW i \in DOMAIN Append(old, now), NEW j \in DOMAIN Append(old, now), i < j
            PROVE  Append(old, now)[i] + CacheWindow < Append(old, now)[j]
        <5>1. i \in 1..Len(old) /\ Append(old, now)[i] = old[i] /\ old[i] + CacheWindow < now
          BY <4>4, <4>5, <4>6
        <5>2. CASE j = Len(old) + 1
          BY <4>5, <5>1, <5>2
        <5>3. CASE j \in 1..Len(old)
          BY <2>2, <4>2, <4>5, <4>6, <5>1, <5>3 DEF GInv, HookRunsOnce
        <5> QED
          BY <4>5, <5>2, <5>3
      <4>7. HookRunsOnce'
        BY <3>2, <4>3, <4>6 DEF GInv, HookRunsOnce
      <4>8. \A i \in DOMAIN Append(old, now) : Append(old, now)[i] <= now
        <5>1. SUFFICES ASSUME NEW i \in DOMAIN Append(old, now) PROVE Append(old, now)[i] <= now
          OBVIOUS
        <5>2. CASE i = Len(old) + 1
          BY <3>1, <4>5, <5>2
        <5>3. CASE i \in 1..Len(old)
          <6>1. Append(old, now)[i] = old[i] /\ old[i] \in Nat /\ old[i] + CacheWindow < now
            BY <4>4, <4>5, <5>3
          <6> QED
            BY <3>1, <6>1
        <5> QED
          BY <4>5, <5>2, <5>3
      <4>9. RunsPast'
        <5>1. ASSUME NEW l \in Keys, NEW i \in DOMAIN runs'[l]
              PROVE  /\ inv[l].state = "none" => runs'[l][i] + CacheWindow < now
                     /\ inv[l].state # "none" => runs'[l][i] <= inv[l].at
          <6>1. CASE l = k
            BY <2>4, <3>1, <4>3, <4>8, <5>1, <6>1
          <6>2. CASE l # k
            BY <3>2, <5>1, <6>2 DEF GInv, RunsPast
          <6> QED
            BY <6>1, <6>2
        <5> QED
          BY <1>1, <5>1 DEF RunsPast
      <4>10. RunsAhead'
        <5>1. ASSUME NEW u \in Tasks, task'[u].pc \in {"register", "run"}
              PROVE  /\ u # t /\ task'[u] = task[u]
                     /\ runs'[KeyOf[task'[u].w]] = runs[KeyOf[task[u].w]]
          BY <1>1, <2>1, <2>2, <2>5, <2>7, <3>2, <4>1, <5>1 DEF OwnerPCs, OnRequest
        <5> QED
          BY <1>1, <5>1 DEF GInv, RunsAhead
      <4> QED
        BY <4>7, <4>9, <4>10
    <3> QED
      BY <3>3, <3>4
  <2>13. Registered'
    <3>1. \A u \in Tasks : u # t /\ task[u].pc \in Entered => Key(u) # k /\ Key(u) \in Keys
      BY <2>5, <2>7 DEF OwnerPCs, Entered, OnRequest
    <3>2. \A u \in Tasks : task'[u].pc \in Entered => registry'[Key(u)'] = u
      BY <2>2, <2>3, <2>6, <3>1 DEF GInv, Registered
    <3>3. ASSUME NEW l \in Keys, registry'[l] # NoOwner
          PROVE  task'[registry'[l]].pc \in Entered /\ KeyOf[task'[registry'[l]].w] = l
      <4>1. CASE l = k
        BY <1>1, <2>1, <2>2, <2>3, <2>6, <4>1
      <4>2. CASE l # k
        <5>1. registry'[l] = registry[l] /\ registry[l] \in Tasks
          BY <2>6, <3>3, <4>2 DEF GInv, Typed
        <5>2. task[registry[l]].pc \in Entered /\ Key(registry[l]) = l
          BY <3>3, <5>1 DEF GInv, Registered
        <5>3. registry[l] # t
          BY <4>2, <5>2 DEF k
        <5> QED
          BY <2>2, <5>1, <5>2, <5>3
      <4> QED
        BY <4>1, <4>2
    <3> QED
      BY <3>2, <3>3 DEF Registered
  <2>14. GivenTold' /\ GivenAgree'
    <3>1. task' = [task EXCEPT ![t] = r]
      BY <1>1 DEF r
    <3> QED
      BY <1>1, <2>1, <2>8, <3>1, GivenByMove DEF Entered
  <2>15. OwnersFresh'
    <3>1. ASSUME NEW u \in Tasks, task'[u].pc \in OwnerPCs PROVE inv[KeyOf[task'[u].w]].at = now
      <4>1. CASE u = t
        BY <1>1, <2>1, <2>2, <4>1 DEF GInv, OwnersFresh, OwnerPCs
      <4>2. CASE u # t
        BY <2>2, <3>1, <4>2 DEF GInv, OwnersFresh
      <4> QED
        BY <4>1, <4>2
    <3> QED
      BY <1>1, <3>1 DEF OwnersFresh
  <2>16. Waiters'
    <3>1. ASSUME NEW u \in Tasks, task'[u].pc = "wait"
          PROVE  registry'[Key(u)'] = task'[u].on /\ task'[u].on \in Tasks
      <4>1. u # t /\ task'[u] = task[u] /\ task[u].pc = "wait"
        BY <1>1, <2>1, <2>2, <3>1 DEF Entered
      <4>2. Key(u) \in Keys /\ registry[Key(u)] = task[u].on /\ task[u].on \in Tasks
        BY <2>7, <4>1 DEF OnRequest, GInv, Waiters
      <4>3. Key(u) = k => task[u].on = t
        <5>1. SUFFICES ASSUME Key(u) = k PROVE task[u].on = t
          OBVIOUS
        <5>2. registry[k] \in Tasks /\ registry[k] # NoOwner
          BY <4>2, <5>1, OpDispatchAssumption
        <5>3. task[registry[k]].pc \in Entered /\ Key(registry[k]) = k
          BY <2>2, <5>2 DEF GInv, Registered
        <5> QED
          BY <2>5, <4>2, <5>1, <5>2, <5>3 DEF Entered, OwnerPCs
      <4> QED
        BY <2>6, <4>1, <4>2, <4>3
    <3> QED
      BY <3>1 DEF Waiters
  <2> QED
    BY <2>2, <2>8, <2>9, <2>10, <2>11, <2>12, <2>13, <2>14, <2>15, <2>16 DEF GInv
<1>2. /\ task \in [Tasks -> TaskRec] /\ registry \in [Keys -> Tasks \union {NoOwner}]
      /\ task[t].pc \in {"run", "hook"} => registry = [registry EXCEPT ![k] = t]
      /\ task[t].out \in Outs /\ task[t].at \in Nat
  <2>1. task[t].pc \in {"run", "hook"} => registry[k] = t /\ k \in Keys
    BY KeyType DEF GInv, Registered, TasksPlaced, OnRequest, OwnerPCs, Entered
  <2> QED
    BY <2>1 DEF GInv, Typed, TaskRec
<1> HIDE DEF k
<1>3. CASE Register(t)
  <2>1. /\ task' = [task EXCEPT ![t] = [task[t] EXCEPT !.pc = "run", !.out = task[t].out,
                                                    !.at = task[t].at]]
        /\ registry' = [registry EXCEPT ![k] = t] /\ task[t].pc = "register"
        /\ UNCHANGED <<inv, jobs, runs, now, mode, answers, seen>>
    BY <1>2, <1>3 DEF Register, To, inboxVars, k, TaskRec
  <2> QED
    BY <1>1, <1>2, <2>1 DEF Entered
<1>4. CASE RunHook(t)
  <2>1. /\ task' = [task EXCEPT ![t] = [task[t] EXCEPT !.pc = "hook", !.out = task[t].out,
                                                    !.at = task[t].at]]
        /\ runs' = [runs EXCEPT ![k] = Append(@, now)] /\ task[t].pc = "run"
        /\ UNCHANGED <<inv, registry, jobs, now, mode, answers, seen>>
    BY <1>2, <1>4 DEF RunHook, To, inboxVars, k, TaskRec
  <2> QED
    BY <1>1, <1>2, <2>1 DEF Entered
<1>5. ASSUME NEW out \in {"ok", "failed"}, task[t].pc \in {"run", "hook"},
             ToWith(t, "commit", out), jobs' = jobs \union {<<k, out>>},
             UNCHANGED <<inv, registry, runs, now, mode, answers, seen>>
      PROVE  GInv'
  <2>1. task' = [task EXCEPT ![t] = [task[t] EXCEPT !.pc = "commit", !.out = out,
                                                    !.at = inv[k].at]]
    BY <1>2, <1>5 DEF ToWith, k
  <2>2. inv[k].at \in Nat
    BY <1>5, KeyType DEF GInv, Typed, TasksPlaced, OnRequest, OwnerPCs, InvRow, k
  <2> QED
    BY <1>1, <1>2, <1>5, <2>1, <2>2 DEF Entered, Outs, Terminal
<1>6. CASE RefuseOp(t)
  BY <1>5, <1>6 DEF RefuseOp, inboxVars, k
<1>7. ASSUME NEW out \in {"ok", "failed"}, HookReturns(t, out) PROVE GInv'
  BY <1>5, <1>7 DEF HookReturns, inboxVars, k
<1> QED
  BY <1>3, <1>4, <1>6, <1>7

(* The store carries out a queued commit.  The row is still RUNNING, and   *)
(* whoever owns it waits for exactly this result.                          *)
LEMMA CommitStep ==
    ASSUME GInv, NEW k \in Keys, NEW out \in {"ok", "failed"}, CommitTerminal(k, out)
    PROVE  GInv'
<1> USE DEF At, Wrap, Key, Owns
<1>1. /\ <<k, out>> \in jobs /\ jobs' = jobs \ {<<k, out>>} /\ inv[k].state = "RUNNING"
      /\ UNCHANGED <<registry, runs, now, mode, answers, seen>> /\ out \in Outs
  BY DEF CommitTerminal, inboxVars, GInv, JobsAreOwn, Outs, Terminal
<1>2. /\ inv' = [inv EXCEPT ![k] = [state |-> "terminal", result |-> out, at |-> now]]
      /\ task' = [u \in Tasks |-> IF task[u].pc = "commit" /\ Key(u) = k
                                  THEN [task[u] EXCEPT !.pc = "publish"] ELSE task[u]]
  BY <1>1 DEF CommitTerminal
<1>3. /\ inv'[k].state = "terminal" /\ inv'[k].result = out /\ inv'[k].at = now
      /\ \A l \in Keys : l # k => inv'[l] = inv[l]
      /\ inv' \in [Keys -> InvRow]
  <2>1. [state |-> "terminal", result |-> out, at |-> now] \in InvRow
    BY DEF GInv, Typed, InvRow, Terminal
  <2> QED
    BY <1>2, <2>1 DEF GInv, Typed
<1>4. task' \in [Tasks -> TaskRec]
  <2>1. ASSUME NEW u \in Tasks
        PROVE  [task[u] EXCEPT !.pc = "publish"] \in TaskRec /\ task[u] \in TaskRec
    BY DEF GInv, Typed, TaskRec, PCs
  <2> QED
    BY <1>2, <2>1
<1>5. ASSUME NEW u \in Tasks
      PROVE  /\ task'[u].w = task[u].w /\ task'[u].out = task[u].out /\ task'[u].on = task[u].on
             /\ task'[u].at = task[u].at
             /\ \/ task'[u].pc = task[u].pc /\ ~(task[u].pc = "commit" /\ Key(u) = k)
                \/ task[u].pc = "commit" /\ Key(u) = k /\ task'[u].pc = "publish"
  <2>1. task[u] \in TaskRec
    BY DEF GInv, Typed
  <2> QED
    BY <1>2, <2>1 DEF TaskRec
<1>6. \A u \in Tasks : task[u].pc \in OnRequest => Key(u) \in Keys
  BY KeyType DEF GInv, TasksPlaced
<1>7. \A u \in Tasks : Owns(u) /\ Key(u) = k => task[u].pc = "commit" /\ task[u].out = out
  <2>1. \A u \in Tasks : Owns(u) /\ Key(u) = k => task[u].pc = "commit"
    BY <1>1 DEF GInv, OwnerRow, OwnerPCs
  <2>2. \A u \in Tasks : task[u].out \in Outs
    BY DEF GInv, Typed, TaskRec
  <2> QED
    BY <1>1, <2>1, <2>2 DEF GInv, OwnerRow, JobsAreOwn
<1>8. \A a \in Outs : <<k, a>> \notin jobs'
  BY <1>1 DEF GInv, JobsAreOwn
<1>9. Typed'
  <2>1. ASSUME NEW l \in Keys PROVE inv'[l].at <= now
    <3>1. now \in Nat /\ inv[l].at <= now
      BY DEF GInv, Typed
    <3>2. CASE l = k
      BY <1>3, <3>1, <3>2
    <3>3. CASE l # k
      BY <1>3, <3>1, <3>3
    <3> QED
      BY <3>2, <3>3
  <2> QED
    BY <1>1, <1>3, <1>4, <2>1 DEF GInv, Typed
<1>10. TasksPlaced'
  BY <1>1, <1>5 DEF GInv, TasksPlaced, OnRequest, OwnerPCs
<1>11. \A u \in Tasks : task'[u].pc \in OwnerPCs <=> task[u].pc \in OwnerPCs
  BY <1>5 DEF OwnerPCs
<1>12. OneOwner'
  BY <1>5, <1>11 DEF GInv, OneOwner
<1>13. OwnerRow'
  <2>1. ASSUME NEW u \in Tasks, Owns(u), Key(u) # k
        PROVE  /\ task'[u].pc = task[u].pc /\ inv'[Key(u)] = inv[Key(u)]
               /\ \A a \in Outs : <<Key(u), a>> \in jobs' <=> <<Key(u), a>> \in jobs
    BY <1>1, <1>3, <1>5, <1>6, <2>1 DEF OnRequest
  <2>2. ASSUME NEW u \in Tasks, Owns(u), Key(u) = k
        PROVE  task'[u].pc = "publish" /\ task'[u].out = out /\ KeyOf[task'[u].w] = k
    BY <1>5, <1>7, <2>2
  <2>3. \A u \in Tasks : task[u].out \in Outs
    BY DEF GInv, Typed, TaskRec
  <2> QED
    BY <1>3, <1>5, <1>11, <2>1, <2>2, <2>3 DEF GInv, OwnerRow, OwnerPCs
<1>14. JobsAreOwn'
  BY <1>1, <1>3, <1>8 DEF GInv, JobsAreOwn
<1>15. HookRunsOnce' /\ RunsPast' /\ RunsAhead'
  <2>1. ASSUME NEW l \in Keys, NEW i \in DOMAIN runs[l]
        PROVE  /\ inv'[l].state = "none" => runs[l][i] + CacheWindow < now
               /\ inv'[l].state # "none" => runs[l][i] <= inv'[l].at
    <3>1. CASE l = k
      <4>1. PICK x \in Nat : x = runs[l][i]
        <5>1. runs[l] \in Seq(Nat)
          BY DEF GInv, Typed
        <5> QED
          BY <2>1, <5>1
      <4>2. x <= inv[k].at /\ inv[k].at <= now /\ inv[k].at \in Nat /\ now \in Nat
        BY <1>1, <2>1, <3>1, <4>1 DEF GInv, RunsPast, Typed, InvRow
      <4> QED
        BY <1>3, <3>1, <4>1, <4>2
    <3>2. CASE l # k
      BY <1>3, <2>1, <3>2 DEF GInv, RunsPast
    <3> QED
      BY <3>1, <3>2
  <2>2. RunsPast'
    BY <1>1, <2>1 DEF RunsPast
  <2>3. RunsAhead'
    BY <1>1, <1>5 DEF GInv, RunsAhead
  <2>4. HookRunsOnce'
    BY <1>1 DEF GInv, HookRunsOnce
  <2> QED
    BY <2>2, <2>3, <2>4
<1>18. OwnersFresh'
  <2>1. ASSUME NEW u \in Tasks, task'[u].pc \in OwnerPCs PROVE inv'[KeyOf[task'[u].w]].at = now
    <3>1. Owns(u) /\ Key(u) \in Keys /\ KeyOf[task'[u].w] = Key(u)
      BY <1>5, <1>6, <1>11, <2>1 DEF OwnerPCs, OnRequest
    <3> QED
      BY <1>3, <3>1 DEF GInv, OwnersFresh
  <2> QED
    BY <1>1, <2>1 DEF OwnersFresh
<1>16. Registered'
  <2>1. \A u \in Tasks : task'[u].pc \in Entered <=> task[u].pc \in Entered
    BY <1>5 DEF Entered
  <2>2. \A l \in Keys : registry[l] # NoOwner => registry[l] \in Tasks
    BY DEF GInv, Typed
  <2> QED
    BY <1>1, <1>5, <2>1, <2>2 DEF GInv, Registered
<1>17. GivenTold' /\ GivenAgree'
  <2>1. ASSUME NEW l \in Keys, NEW q \in Results, NEW b \in Nat, Told(l, q, b)
        PROVE  Told(l, q, b)'
    <3>1. CASE l = k
      <4>1. b + CacheWindow < inv[k].at /\ inv[k].at <= now /\ inv[k].at \in Nat
        BY <1>1, <2>1, <3>1 DEF Told, InRow, GInv, Typed, InvRow
      <4>2. b + CacheWindow < now
        BY <4>1, InboxAssumption DEF GInv, Typed
      <4> QED
        BY <1>3, <3>1, <4>2 DEF Told
    <3>2. CASE l # k
      BY <1>1, <1>3, <2>1, <3>2 DEF Told, InRow
    <3> QED
      BY <3>1, <3>2
  <2>2. ASSUME NEW l \in Keys, NEW q \in Results, NEW b \in Nat, IsGiven(l, q, b)'
        PROVE  IsGiven(l, q, b)
    BY <1>1, <1>5, <2>2 DEF IsGiven
  <2> QED
    BY <1>9, <2>1, <2>2, GivenMoves
<1>19. MarksAnswered' /\ SeenIsAnswered'
  BY <1>1, <1>5 DEF GInv, MarksAnswered, SeenIsAnswered
<1>20. Waiters'
  BY <1>1, <1>5 DEF GInv, Waiters
<1> QED
  BY <1>9, <1>10, <1>12, <1>13, <1>14, <1>15, <1>16, <1>17, <1>18, <1>19, <1>20 DEF GInv

(* An owner leaves, with a committed result or without one: its waiters    *)
(* leave the registry with it.                                             *)
LEMMA OwnerLeaves ==
    ASSUME GInv, NEW t \in Tasks, task[t].pc \in Entered,
           NEW pc \in {"reply", "defer"}, NEW out \in Outs, NEW r \in TaskRec,
           task' = [u \in Tasks |-> IF u = t THEN r ELSE Wake(t, pc, out)[u]],
           \/ r.pc = "free"
           \/ r.pc = "reply" /\ r.w = task[t].w /\ r.out = out
              /\ r.at = inv[Key(t)].at /\ pc = "reply",
           pc = "reply" => inv[Key(t)].state = "terminal" /\ inv[Key(t)].result = out,
           registry' = Unregister(t), jobs' \subseteq jobs,
           \A j \in jobs : j[1] # Key(t) => j \in jobs',
           UNCHANGED <<inv, runs, now, mode, answers, seen>>
    PROVE  GInv'
<1> USE DEF At, Wrap, Key, Owns
<1> DEFINE k == Key(t)
<1>1. /\ k \in Keys /\ registry[k] = t /\ task[t].w \in Requests /\ task[t].w \in Wraps
      /\ mode \in {"up", "draining"}
  BY KeyType DEF GInv, TasksPlaced, Registered, OnRequest, OwnerPCs, Entered
<1>2. /\ task'[t] = r
      /\ \A u \in Tasks : u # t /\ task[u].pc = "wait" /\ task[u].on = t =>
            task'[u] = [task[u] EXCEPT !.pc = pc, !.out = out, !.at = inv[k].at]
      /\ \A u \in Tasks : u # t /\ ~(task[u].pc = "wait" /\ task[u].on = t) => task'[u] = task[u]
  BY DEF Wake
<1>3. ASSUME NEW u \in Tasks
      PROVE  /\ [task[u] EXCEPT !.pc = pc, !.out = out, !.at = inv[k].at] \in TaskRec
             /\ task[u] \in TaskRec
             /\ [task[u] EXCEPT !.pc = pc, !.out = out, !.at = inv[k].at].w = task[u].w
             /\ [task[u] EXCEPT !.pc = pc, !.out = out, !.at = inv[k].at].pc = pc
             /\ [task[u] EXCEPT !.pc = pc, !.out = out, !.at = inv[k].at].out = out
             /\ [task[u] EXCEPT !.pc = pc, !.out = out, !.at = inv[k].at].at = inv[k].at
  <2>1. inv[k].at \in Nat /\ task[u] \in TaskRec
    BY <1>1 DEF GInv, Typed, InvRow
  <2>2. PICK x \in Nat : x = inv[k].at
    BY <2>1
  <2>3. /\ [task[u] EXCEPT !.pc = pc, !.out = out, !.at = x] \in TaskRec
        /\ [task[u] EXCEPT !.pc = pc, !.out = out, !.at = x].w = task[u].w
        /\ [task[u] EXCEPT !.pc = pc, !.out = out, !.at = x].pc = pc
        /\ [task[u] EXCEPT !.pc = pc, !.out = out, !.at = x].out = out
        /\ [task[u] EXCEPT !.pc = pc, !.out = out, !.at = x].at = x
    BY <2>1 DEF TaskRec, PCs
  <2> QED
    BY <2>1, <2>2, <2>3
<1>4. \A u \in Tasks : u # t /\ task[u].pc = "wait" /\ task[u].on = t =>
         /\ task'[u].w = task[u].w /\ task'[u].pc = pc /\ task'[u].out = out
         /\ task'[u].at = inv[k].at
         /\ Key(u) = k /\ task[u].w \in Requests
  <2>1. ASSUME NEW u \in Tasks, u # t, task[u].pc = "wait", task[u].on = t
        PROVE  Key(u) = k /\ task[u].w \in Requests
    <3>1. task[u].w \in Requests /\ Key(u) \in Keys /\ registry[Key(u)] = t
      BY <2>1, KeyType DEF GInv, TasksPlaced, OnRequest, Waiters
    <3> QED
      BY <3>1, OpDispatchAssumption DEF GInv, Registered
  <2> QED
    BY <1>2, <1>3, <2>1
<1>5. task' \in [Tasks -> TaskRec]
  <2>1. \A u \in Tasks : task'[u] \in TaskRec
    BY <1>2, <1>3
  <2> QED
    BY <2>1
<1>6. /\ registry'[k] = NoOwner
      /\ \A l \in Keys : l # k => registry'[l] = registry[l]
      /\ registry' \in [Keys -> Tasks \union {NoOwner}]
  <2>1. \A l \in Keys : registry[l] = t => l = k
    BY OpDispatchAssumption DEF GInv, Registered
  <2> QED
    BY <1>1, <2>1 DEF Unregister, GInv, Typed
<1>7. \A u \in Tasks : u # t /\ Owns(u) => Key(u) # k
  BY DEF GInv, OneOwner, Entered, OwnerPCs
<1>8. \A u \in Tasks : task[u].pc \in OnRequest => Key(u) \in Keys
  BY KeyType DEF GInv, TasksPlaced
<1> HIDE DEF k
<1>9. \A u \in Tasks : task'[u].pc \in OwnerPCs =>
         u # t /\ task'[u] = task[u] /\ Owns(u) /\ Key(u) # k /\ Key(u) \in Keys
  BY <1>2, <1>4, <1>7, <1>8 DEF OwnerPCs, OnRequest
<1>10. Typed'
  BY <1>5, <1>6 DEF GInv, Typed
<1>11. TasksPlaced'
  <2>1. \A u \in Tasks : task'[u].pc \in OnRequest => task'[u].w \in Requests
    BY <1>1, <1>2, <1>4 DEF GInv, TasksPlaced, OnRequest, OwnerPCs
  <2>2. ASSUME NEW u \in Tasks, task'[u].pc # "free" PROVE task'[u].w \in Wraps
    <3>1. Requests \subseteq Wraps
      BY InboxAssumption
    <3>2. CASE u = t
      BY <1>1, <1>2, <2>2, <3>2
    <3>3. CASE u # t /\ task[u].pc = "wait" /\ task[u].on = t
      BY <1>4, <3>1, <3>3
    <3>4. CASE u # t /\ ~(task[u].pc = "wait" /\ task[u].on = t)
      BY <1>2, <2>2, <3>4 DEF GInv, TasksPlaced
    <3> QED
      BY <3>2, <3>3, <3>4
  <2> QED
    BY <1>1, <2>1, <2>2 DEF TasksPlaced
<1>12. OneOwner'
  BY <1>9 DEF GInv, OneOwner
<1>13. OwnerRow'
  <2>1. \A u \in Tasks : Key(u) # k =>
           \A o \in Outs : <<Key(u), o>> \in jobs' <=> <<Key(u), o>> \in jobs
    BY DEF k
  <2>2. \A u \in Tasks : task[u].out \in Outs
    BY <1>3 DEF TaskRec
  <2> QED
    BY <1>9, <2>1, <2>2 DEF GInv, OwnerRow, OwnerPCs
<1>14. JobsAreOwn'
  BY DEF GInv, JobsAreOwn
<1>15. HookRunsOnce' /\ RunsPast' /\ RunsAhead' /\ OwnersFresh'
  <2>1. HookRunsOnce' /\ RunsPast'
    BY DEF GInv, HookRunsOnce, RunsPast
  <2>2. RunsAhead' /\ OwnersFresh'
    BY <1>9 DEF GInv, RunsAhead, OwnersFresh, OwnerPCs
  <2> QED
    BY <2>1, <2>2
<1>16. Registered'
  <2>1. \A u \in Tasks : task'[u].pc \in Entered => registry'[KeyOf[task'[u].w]] = u
    BY <1>6, <1>9 DEF GInv, Registered, Entered, OwnerPCs
  <2>2. ASSUME NEW l \in Keys, registry'[l] # NoOwner
        PROVE  task'[registry'[l]].pc \in Entered /\ KeyOf[task'[registry'[l]].w] = l
    <3>1. l # k /\ registry'[l] = registry[l] /\ registry[l] \in Tasks
      BY <1>6, <2>2 DEF GInv, Typed
    <3>2. task[registry[l]].pc \in Entered /\ Key(registry[l]) = l
      BY <2>2, <3>1 DEF GInv, Registered
    <3>3. registry[l] # t
      BY <3>1, <3>2 DEF k
    <3>4. task'[registry[l]] = task[registry[l]]
      BY <1>2, <3>1, <3>2, <3>3 DEF Entered
    <3> QED
      BY <3>1, <3>2, <3>4
  <2> QED
    BY <2>1, <2>2 DEF Registered
<1>17. SeenIsAnswered'
  BY DEF GInv, SeenIsAnswered
<1>18. GivenTold' /\ GivenAgree'
  <2>1. pc = "reply" => InRow(k, out, inv[k].at)
    BY DEF k, InRow
  <2>2. ASSUME NEW l \in Keys, NEW q \in Results, NEW b \in Nat, NEW u \in Tasks,
               task'[u].pc \in {"reply", "mark"}, KeyOf[task'[u].w] = l,
               task'[u].out = q, task'[u].at = b
        PROVE  IsGiven(l, q, b) \/ InRow(l, q, b)
    <3>1. CASE u = t
      BY <1>2, <2>1, <2>2, <3>1 DEF k
    <3>2. CASE u # t /\ task[u].pc = "wait" /\ task[u].on = t
      <4>1. l = k /\ q = out /\ b = inv[k].at /\ pc = "reply"
        BY <1>4, <2>2, <3>2
      <4> QED
        BY <2>1, <4>1
    <3>3. CASE u # t /\ ~(task[u].pc = "wait" /\ task[u].on = t)
      BY <1>2, <2>2, <3>3 DEF IsGiven
    <3> QED
      BY <3>1, <3>2, <3>3
  <2>3. ASSUME NEW l \in Keys, NEW q \in Results, NEW b \in Nat, IsGiven(l, q, b)'
        PROVE  IsGiven(l, q, b) \/ InRow(l, q, b)'
    <3>1. CASE <<l, q, b>> \in answers'
      BY <3>1 DEF IsGiven
    <3>2. CASE <<l, q, b>> \notin answers'
      <4>1. IsGiven(l, q, b) \/ InRow(l, q, b)
        BY <2>2, <2>3, <3>2 DEF IsGiven
      <4> QED
        BY <4>1 DEF InRow
    <3> QED
      BY <3>1, <3>2
  <2> QED
    BY <1>10, <2>3, ToldStays, GivenMoves
<1>19. MarksAnswered'
  <2>1. \A u \in Tasks : task'[u].pc = "mark" => u # t /\ task'[u] = task[u]
    BY <1>2, <1>4
  <2> QED
    BY <2>1 DEF GInv, MarksAnswered
<1>20. Waiters'
  <2>1. ASSUME NEW u \in Tasks, task'[u].pc = "wait"
        PROVE  task'[u].on \in Tasks /\ registry'[KeyOf[task'[u].w]] = task'[u].on
    <3>1. u # t /\ task[u].pc = "wait" /\ task[u].on # t /\ task'[u] = task[u]
      BY <1>2, <1>4, <2>1
    <3>2. task[u].on \in Tasks /\ registry[Key(u)] = task[u].on /\ Key(u) \in Keys
      BY <1>8, <3>1 DEF GInv, Waiters, OnRequest
    <3> QED
      BY <1>1, <1>6, <3>1, <3>2
  <2> QED
    BY <2>1 DEF Waiters
<1> QED
  BY <1>10, <1>11, <1>12, <1>13, <1>14, <1>15, <1>16, <1>17, <1>18, <1>19, <1>20 DEF GInv

(* An owner publishes its committed result, or fails.                      *)
LEMMA LeaveSteps == ASSUME GInv, NEW t \in Tasks, Publish(t) \/ OwnerFails(t) PROVE GInv'
<1> USE DEF At, Wrap, Key
<1>1. task[t] \in TaskRec /\ Idle \in TaskRec
  BY IdleType DEF GInv, Typed
<1>2. CASE Publish(t)
  <2> DEFINE r == [task[t] EXCEPT !.pc = "reply", !.at = inv[Key(t)].at]
             out == task[t].out
  <2>5. inv[Key(t)].at \in Nat
    BY <1>2, KeyType DEF Publish, GInv, Typed, InvRow, TasksPlaced, OnRequest, OwnerPCs
  <2>1. /\ r \in TaskRec /\ r.pc = "reply" /\ r.w = task[t].w /\ r.out = out /\ out \in Outs
        /\ r.at = inv[Key(t)].at
    BY <1>1, <2>5 DEF TaskRec, PCs
  <2>2. /\ task[t].pc = "publish" /\ registry' = Unregister(t)
        /\ UNCHANGED <<inv, jobs, runs, now, mode, answers, seen>>
    BY <1>2 DEF Publish, inboxVars
  <2>3. task' = [u \in Tasks |-> IF u = t THEN r ELSE Wake(t, "reply", out)[u]]
    BY <1>2, <2>2 DEF Publish, Wake
  <2>4. inv[Key(t)].state = "terminal" /\ inv[Key(t)].result = out
    BY <2>2 DEF GInv, OwnerRow
  <2> HIDE DEF r, out
  <2> QED
    BY <2>1, <2>2, <2>3, <2>4, OwnerLeaves DEF Entered
<1>3. CASE OwnerFails(t)
  <2>1. /\ task[t].pc \in {"run", "commit"} /\ registry' = Unregister(t) /\ jobs' \subseteq jobs
        /\ \A j \in jobs : j[1] # Key(t) => j \in jobs'
        /\ UNCHANGED <<inv, runs, now, mode, answers, seen>>
    BY <1>3 DEF OwnerFails, inboxVars
  <2>2. task' = [u \in Tasks |-> IF u = t THEN Idle ELSE Wake(t, "defer", "none")[u]]
    BY <1>3 DEF OwnerFails, Wake
  <2> QED
    BY <1>1, <2>1, <2>2, OwnerLeaves DEF Entered, Idle, Outs
<1> QED
  BY <1>2, <1>3

(* What holds of the tasks and the registry when nobody is at work.        *)
LEMMA AllFree ==
    ASSUME GInv, \A u \in Tasks : task'[u].pc = "free", \A l \in Keys : registry'[l] = NoOwner,
           answers' = answers
    PROVE  /\ TasksPlaced' /\ OneOwner' /\ OwnerRow' /\ OwnersFresh' /\ RunsAhead' /\ Registered'
           /\ MarksAnswered' /\ Waiters'
           /\ \A k \in Keys, r \in Results, a \in Nat : IsGiven(k, r, a)' => IsGiven(k, r, a)
<1>1. /\ TasksPlaced' /\ OneOwner' /\ OwnerRow' /\ OwnersFresh' /\ RunsAhead' /\ Registered'
      /\ MarksAnswered' /\ Waiters'
  BY DEF At, Owns, OwnerPCs, OnRequest, Entered, TasksPlaced, OneOwner, OwnerRow, OwnersFresh,
         RunsAhead, Registered, MarksAnswered, Waiters
<1>2. \A k \in Keys, r \in Results, a \in Nat : IsGiven(k, r, a)' => IsGiven(k, r, a)
  BY DEF IsGiven
<1> QED
  BY <1>1, <1>2

(* A row is forgotten no sooner than the retention after it was finished,  *)
(* and no owner has such a row.                                            *)
LEMMA PruneStep == ASSUME GInv, Prune PROVE GInv'
<1> USE DEF At, Wrap, Key, Owns
<1>1. now \in Nat /\ CacheWindow \in Nat
  BY InboxAssumption DEF GInv, Typed
<1>2. NoInv \in InvRow /\ NoInv.state = "none" /\ NoInv.at = 0
  BY DEF NoInv, InvRow
<1>3. /\ inv' = Pruned
      /\ UNCHANGED <<mode, registry, jobs, runs, task, answers, seen, now>>
  BY DEF Prune, inboxVars
<1>4. ASSUME NEW l \in Keys
      PROVE  /\ inv'[l] \in InvRow /\ inv[l] \in InvRow /\ inv'[l].at <= now
             /\ \/ inv'[l] = inv[l]
                \/ /\ inv[l].state = "terminal" /\ inv'[l].state = "none"
                   /\ inv[l].at + CacheWindow < now /\ inv[l].at \in Nat
  <2>1. inv[l] \in InvRow /\ inv[l].at <= now /\ inv[l].at \in Nat
    BY DEF GInv, Typed, InvRow
  <2>2. inv'[l] = IF inv[l].state = "terminal" /\ inv[l].at + CacheWindow < now
                  THEN NoInv ELSE inv[l]
    BY <1>3 DEF Pruned
  <2> QED
    BY <1>1, <1>2, <2>1, <2>2
<1>5. inv' \in [Keys -> InvRow]
  BY <1>3, <1>4 DEF Pruned
<1>6. Typed'
  BY <1>3, <1>4, <1>5 DEF GInv, Typed
<1>7. \A u \in Tasks : Owns(u) => Key(u) \in Keys /\ inv'[Key(u)] = inv[Key(u)]
  <2>1. ASSUME NEW u \in Tasks, Owns(u) PROVE Key(u) \in Keys /\ inv[Key(u)].at = now
    BY <2>1, KeyType DEF GInv, TasksPlaced, OnRequest, OwnerPCs, OwnersFresh
  <2> QED
    BY <1>1, <1>4, <2>1
<1>8. TasksPlaced' /\ OneOwner' /\ Registered' /\ HookRunsOnce' /\ RunsAhead'
  BY <1>3 DEF GInv, TasksPlaced, OneOwner, Registered, HookRunsOnce, RunsAhead
<1>9. OwnerRow'
  BY <1>3, <1>7 DEF GInv, OwnerRow, OwnerPCs
<1>10. OwnersFresh'
  BY <1>3, <1>7 DEF GInv, OwnersFresh
<1>11. JobsAreOwn'
  BY <1>3, <1>4 DEF GInv, JobsAreOwn
<1>12. RunsPast'
  <2>1. ASSUME NEW l \in Keys, NEW i \in DOMAIN runs[l]
        PROVE  /\ inv'[l].state = "none" => runs[l][i] + CacheWindow < now
               /\ inv'[l].state # "none" => runs[l][i] <= inv'[l].at
    <3>1. PICK x \in Nat : x = runs[l][i]
      <4>1. runs[l] \in Seq(Nat)
        BY DEF GInv, Typed
      <4> QED
        BY <2>1, <4>1
    <3>2. /\ inv[l].state = "none" => x + CacheWindow < now
          /\ inv[l].state # "none" => x <= inv[l].at
      BY <2>1, <3>1 DEF GInv, RunsPast
    <3> QED
      BY <1>1, <1>4, <3>1, <3>2
  <2> QED
    BY <1>3, <2>1 DEF RunsPast
<1>13. GivenTold' /\ GivenAgree'
  <2>1. ASSUME NEW l \in Keys, NEW q \in Results, NEW b \in Nat, Told(l, q, b)
        PROVE  Told(l, q, b)'
    <3>1. CASE inv'[l] = inv[l]
      BY <1>3, <2>1, <3>1 DEF Told, InRow
    <3>2. CASE inv'[l] # inv[l]
      <4>1. b <= inv[l].at /\ inv'[l].state = "none" /\ inv[l].at + CacheWindow < now
        BY <1>1, <1>4, <2>1, <3>2 DEF Told, InRow
      <4>2. b + CacheWindow < now
        BY <1>1, <1>4, <3>2, <4>1
      <4> QED
        BY <1>3, <4>1, <4>2 DEF Told
    <3> QED
      BY <3>1, <3>2
  <2>2. \A k \in Keys, r \in Results, a \in Nat : IsGiven(k, r, a)' => IsGiven(k, r, a)
    BY <1>3 DEF IsGiven
  <2> QED
    BY <1>6, <2>1, <2>2, GivenMoves
<1>14. MarksAnswered' /\ SeenIsAnswered' /\ Waiters'
  BY <1>3 DEF GInv, MarksAnswered, SeenIsAnswered, Waiters
<1> QED
  BY <1>6, <1>8, <1>9, <1>10, <1>11, <1>12, <1>13, <1>14 DEF GInv

(* The other steps of the daemon as a whole.                               *)
LEMMA SystemSteps ==
    ASSUME GInv, Refill \/ Tick \/ Drain \/ DrainTimesOut \/ Stopped \/ Crash
                 \/ \E recovers \in BOOLEAN : Restart(recovers)
    PROVE  GInv'
<1> USE DEF inboxVars, opVars
<1>1. now \in Nat /\ CacheWindow \in Nat
  BY InboxAssumption DEF GInv, Typed
<1>2. ASSUME \A u \in Tasks : task[u].pc = "free" PROVE \A l \in Keys : registry[l] = NoOwner
  BY <1>2 DEF GInv, Registered, Typed, Entered
<1>3. CASE Refill \/ Drain
  <2>1. /\ UNCHANGED <<task, inv, registry, jobs, runs, now, answers, seen>>
        /\ mode' = mode \/ (mode = "up" /\ mode' = "draining")
    BY <1>3 DEF Refill, Drain
  <2>2. Typed' /\ TasksPlaced' /\ JobsAreOwn'
    BY <2>1 DEF GInv, Typed, TasksPlaced, JobsAreOwn, Wrap
  <2>3. OneOwner' /\ OwnerRow' /\ OwnersFresh' /\ Registered'
    BY <2>1 DEF GInv, OneOwner, OwnerRow, OwnersFresh, Registered, Owns, Key, Wrap, At
  <2>4. HookRunsOnce' /\ RunsPast' /\ RunsAhead'
    BY <2>1 DEF GInv, HookRunsOnce, RunsPast, RunsAhead, Key, Wrap
  <2>5. MarksAnswered' /\ SeenIsAnswered' /\ Waiters'
    BY <2>1 DEF GInv, MarksAnswered, SeenIsAnswered, Waiters, Key, Wrap, At
  <2>6. GivenTold' /\ GivenAgree'
    <3>1. \A k \in Keys, r \in Results, a \in Nat : IsGiven(k, r, a)' => IsGiven(k, r, a)
      BY <2>1 DEF IsGiven, Key, Wrap
    <3> QED
      BY <2>1, <2>2, <3>1, ToldStays, GivenMoves
  <2> QED
    BY <2>2, <2>3, <2>4, <2>5, <2>6 DEF GInv
<1>4. ASSUME \A u \in Tasks : task'[u].pc = "free", \A l \in Keys : registry'[l] = NoOwner,
             task' \in [Tasks -> TaskRec], registry' \in [Keys -> Tasks \union {NoOwner}],
             jobs' \subseteq jobs, mode' = "down" => jobs' = {},
             mode' \in {"up", "draining", "aborting", "down"},
             now' \in {now, now + 1}, UNCHANGED <<inv, runs, answers, seen>>
      PROVE  GInv'
  <2>1. /\ TasksPlaced' /\ OneOwner' /\ OwnerRow' /\ OwnersFresh' /\ RunsAhead' /\ Registered'
        /\ MarksAnswered' /\ Waiters'
        /\ \A k \in Keys, r \in Results, a \in Nat : IsGiven(k, r, a)' => IsGiven(k, r, a)
    BY <1>4, AllFree
  <2>2. Typed'
    <3>1. now' \in Nat /\ now <= now'
      BY <1>1, <1>4
    <3>2. \A k \in Keys : inv[k].at <= now'
      <4>1. \A k \in Keys : inv[k].at \in Nat /\ inv[k].at <= now
        BY DEF GInv, Typed, InvRow
      <4> QED
        BY <1>1, <3>1, <4>1
    <3> QED
      BY <1>4, <3>1, <3>2 DEF GInv, Typed
  <2>3. JobsAreOwn'
    BY <1>4 DEF GInv, JobsAreOwn
  <2>4. RunsPast'
    <3>1. ASSUME NEW l \in Keys, NEW i \in DOMAIN runs[l], inv[l].state = "none"
          PROVE  runs[l][i] + CacheWindow < now'
      <4>1. PICK x \in Nat : x = runs[l][i]
        <5>1. runs[l] \in Seq(Nat)
          BY DEF GInv, Typed
        <5> QED
          BY <3>1, <5>1
      <4>2. x + CacheWindow < now
        BY <3>1, <4>1 DEF GInv, RunsPast
      <4> QED
        BY <1>1, <1>4, <4>1, <4>2
    <3> QED
      BY <1>4, <3>1 DEF GInv, RunsPast
  <2>5. HookRunsOnce' /\ SeenIsAnswered'
    BY <1>4 DEF GInv, HookRunsOnce, SeenIsAnswered
  <2>6. GivenTold' /\ GivenAgree'
    <3>1. \A k \in Keys, r \in Results, a \in Nat : Told(k, r, a) => Told(k, r, a)'
      BY <1>1, <1>4 DEF Told, InRow
    <3> QED
      BY <2>1, <2>2, <3>1, GivenMoves
  <2> QED
    BY <2>1, <2>2, <2>3, <2>4, <2>5, <2>6 DEF GInv
<1>5. CASE Tick
  <2>1. \A u \in Tasks : task[u].pc = "free"
    BY <1>5 DEF Tick, Quiet, At
  <2>2. /\ UNCHANGED <<mode, inv, registry, jobs, runs, task, answers, seen>> /\ now' = now + 1
    BY <1>5 DEF Tick
  <2> QED
    BY <1>2, <1>4, <2>1, <2>2 DEF GInv, Typed, JobsAreOwn
<1>6. CASE DrainTimesOut \/ Crash
  <2>1. /\ task' = [t \in Tasks |-> Idle] /\ registry' = [k \in Keys |-> NoOwner]
        /\ jobs' \subseteq jobs /\ (mode' = "down" => jobs' = {}) /\ mode' \in {"aborting", "down"}
        /\ UNCHANGED <<inv, runs, answers, seen, now>>
    BY <1>6 DEF DrainTimesOut, Crash
  <2>2. \A u \in Tasks : task'[u].pc = "free"
    BY <2>1 DEF Idle
  <2> QED
    BY <1>4, <2>1, <2>2, IdleType
<1>7. CASE Stopped
  <2>1. \A u \in Tasks : task[u].pc = "free"
    BY <1>7 DEF Stopped, Quiet, At, GInv, TasksPlaced
  <2>2. /\ UNCHANGED <<inv, registry, jobs, runs, task, answers, seen, now>>
        /\ mode' = "down" /\ jobs = {}
    BY <1>7 DEF Stopped
  <2> QED
    BY <1>2, <1>4, <2>1, <2>2 DEF GInv, Typed
<1>8. ASSUME NEW recovers \in BOOLEAN, Restart(recovers) PROVE GInv'
  <2>1. /\ inv' = inv \/ inv' = Recovered
        /\ mode = "down" /\ mode' = "up"
        /\ UNCHANGED <<registry, jobs, runs, task, answers, seen, now>>
    BY <1>8 DEF Restart
  <2>2. jobs = {} /\ \A u \in Tasks : task[u].pc = "free"
    BY <2>1 DEF GInv, JobsAreOwn, TasksPlaced
  <2>3. ASSUME NEW l \in Keys
        PROVE  /\ inv'[l] \in InvRow /\ inv[l].at \in Nat /\ inv[l].at <= now
               /\ \/ inv'[l] = inv[l]
                  \/ /\ inv[l].state = "RUNNING" /\ inv'[l].state = "terminal"
                     /\ inv'[l].at = now
    <3>1. [state |-> "terminal", result |-> "interrupted", at |-> now] \in InvRow
      BY <1>1 DEF InvRow, Terminal
    <3>2. inv[l] \in InvRow /\ inv[l].at \in Nat /\ inv[l].at <= now
      BY DEF GInv, Typed, InvRow
    <3> QED
      BY <2>1, <3>1, <3>2 DEF Recovered
  <2>4. inv' \in [Keys -> InvRow]
    BY <2>1, <2>3 DEF Recovered, GInv, Typed
  <2>5. /\ TasksPlaced' /\ OneOwner' /\ OwnerRow' /\ OwnersFresh' /\ RunsAhead' /\ Registered'
        /\ MarksAnswered' /\ Waiters'
        /\ \A k \in Keys, r \in Results, a \in Nat : IsGiven(k, r, a)' => IsGiven(k, r, a)
    BY <1>2, <2>1, <2>2, AllFree
  <2>6. Typed'
    <3>1. \A l \in Keys : inv'[l].at <= now
      BY <1>1, <2>3
    <3> QED
      BY <2>1, <2>4, <3>1 DEF GInv, Typed
  <2>7. JobsAreOwn'
    BY <2>1, <2>2 DEF JobsAreOwn
  <2>8. RunsPast'
    <3>1. ASSUME NEW l \in Keys, NEW i \in DOMAIN runs[l]
          PROVE  /\ inv'[l].state = "none" => runs[l][i] + CacheWindow < now
                 /\ inv'[l].state # "none" => runs[l][i] <= inv'[l].at
      <4>1. PICK x \in Nat : x = runs[l][i]
        <5>1. runs[l] \in Seq(Nat)
          BY DEF GInv, Typed
        <5> QED
          BY <3>1, <5>1
      <4>2. /\ inv[l].state = "none" => x + CacheWindow < now
            /\ inv[l].state # "none" => x <= inv[l].at
        BY <3>1, <4>1 DEF GInv, RunsPast
      <4> QED
        BY <1>1, <2>3, <4>1, <4>2
    <3> QED
      BY <2>1, <3>1 DEF RunsPast
  <2>9. HookRunsOnce' /\ SeenIsAnswered'
    BY <2>1 DEF GInv, HookRunsOnce, SeenIsAnswered
  <2>10. GivenTold' /\ GivenAgree'
    <3>1. ASSUME NEW l \in Keys, NEW q \in Results, NEW b \in Nat, Told(l, q, b)
          PROVE  Told(l, q, b)'
      <4>1. CASE inv'[l] = inv[l]
        BY <2>1, <3>1, <4>1 DEF Told, InRow
      <4>2. CASE inv'[l] # inv[l]
        <5>1. b + CacheWindow < inv[l].at
          BY <2>3, <3>1, <4>2 DEF Told, InRow
        <5>2. b + CacheWindow < now
          BY <1>1, <2>3, <5>1
        <5> QED
          BY <2>3, <4>2, <5>2 DEF Told
      <4> QED
        BY <4>1, <4>2
    <3> QED
      BY <2>5, <2>6, <3>1, GivenMoves
  <2> QED
    BY <2>5, <2>6, <2>7, <2>8, <2>9, <2>10 DEF GInv
<1> QED
  BY <1>3, <1>5, <1>6, <1>7, <1>8

(* The daemon starts with no task, no row and no answer.                   *)
LEMMA GInvInit == Init => GInv
<1> SUFFICES ASSUME Init PROVE GInv
  OBVIOUS
<1>1. /\ mode = "up" /\ task = [t \in Tasks |-> Idle] /\ seen = <<>> /\ jobs = {} /\ answers = {}
      /\ inv = [k \in Keys |-> NoInv] /\ registry = [k \in Keys |-> NoOwner] /\ now = 0
      /\ runs = [k \in Keys |-> <<>>]
  BY DEF Init
<1>2. NoInv \in InvRow /\ NoInv.state = "none" /\ NoInv.at = 0 /\ Idle.pc = "free"
  BY DEF NoInv, InvRow, Idle
<1>3. Typed
  BY <1>1, <1>2, IdleType DEF Typed
<1>4. \A u \in Tasks : task[u].pc = "free"
  BY <1>1, <1>2
<1>5. /\ TasksPlaced /\ OneOwner /\ OwnerRow /\ OwnersFresh /\ RunsAhead /\ Registered
      /\ MarksAnswered /\ Waiters
  BY <1>1, <1>4 DEF At, Owns, OwnerPCs, OnRequest, Entered, TasksPlaced, OneOwner, OwnerRow,
                    OwnersFresh, RunsAhead, Registered, MarksAnswered, Waiters
<1>6. JobsAreOwn /\ HookRunsOnce /\ RunsPast
  BY <1>1 DEF JobsAreOwn, HookRunsOnce, RunsPast
<1>7. GivenTold /\ GivenAgree
  BY <1>1, <1>4 DEF GivenTold, GivenAgree, IsGiven
<1>8. SeenIsAnswered
  <2>1. DOMAIN seen = {}
    BY <1>1
  <2> QED
    BY <2>1 DEF SeenIsAnswered
<1> QED
  BY <1>3, <1>5, <1>6, <1>7, <1>8 DEF GInv

(* Every step preserves the invariant.                                     *)
LEMMA GInvStep == GInv /\ [Next]_vars => GInv'
<1>1. ASSUME GInv, UNCHANGED vars PROVE GInv'
  <2>1. UNCHANGED <<mode, task, inv, registry, jobs, runs, now, answers, seen>>
    BY <1>1 DEF vars, inboxVars, opVars
  <2>2. Typed' /\ TasksPlaced' /\ JobsAreOwn'
    BY <1>1, <2>1 DEF GInv, Typed, TasksPlaced, JobsAreOwn, Wrap
  <2>3. OneOwner' /\ OwnerRow' /\ OwnersFresh' /\ Registered'
    BY <1>1, <2>1 DEF GInv, OneOwner, OwnerRow, OwnersFresh, Registered, Owns, Key, Wrap, At
  <2>4. HookRunsOnce' /\ RunsPast' /\ RunsAhead' /\ MarksAnswered' /\ SeenIsAnswered' /\ Waiters'
    BY <1>1, <2>1 DEF GInv, HookRunsOnce, RunsPast, RunsAhead, MarksAnswered, SeenIsAnswered,
                      Waiters, Key, Wrap, At
  <2>5. GivenTold' /\ GivenAgree'
    <3>1. \A k \in Keys, r \in Results, a \in Nat : IsGiven(k, r, a)' => IsGiven(k, r, a)
      BY <2>1 DEF IsGiven, Key, Wrap
    <3> QED
      BY <1>1, <2>1, <2>2, <3>1, ToldStays, GivenMoves
  <2> QED
    BY <2>2, <2>3, <2>4, <2>5 DEF GInv
<1>2. ASSUME GInv, Next PROVE GInv'
  <2>1. CASE Deliveries
    BY <1>2, <2>1, TransportSteps DEF Deliveries
  <2>2. ASSUME NEW t \in Tasks, Step(t) PROVE GInv'
    BY <1>2, <2>2, TransportSteps, ReplySteps, ClaimWonStep, OwnerSteps, LeaveSteps DEF Step
  <2>3. CASE StoreStep
    BY <1>2, <2>3, CommitStep DEF StoreStep
  <2> QED
    BY <1>2, <2>1, <2>2, <2>3, PruneStep, SystemSteps DEF Next
<1> QED
  BY <1>1, <1>2

(* The inductive invariant holds throughout.                               *)
LEMMA GInvHolds == Spec => []GInv
BY GInvInit, GInvStep, PTL DEF Spec

(* run_owned starts the hook of a (sender, request id) once in any span of *)
(* the retention: in every interleaving of copies, however late relays     *)
(* deliver them, across aborted drains, crashes and boots with or without  *)
(* recovery, and after marks are pruned.                                   *)
THEOREM OneRunPerRequest == Spec => []HookRunsOnce
<1>1. GInv => HookRunsOnce
  BY DEF GInv
<1> QED
  BY <1>1, GInvHolds, PTL

(* Every copy of a request that is answered within the retention of its row*)
(* gets the one committed result, a wrap is marked seen only when answered,*)
(* and no copy waits for an owner that is gone (dispatch, InflightGuard,   *)
(* process_inbound).                                                       *)
THEOREM CopiesGetOneAnswer == Spec => []OneAnswer
<1>1. ASSUME GInv PROVE AnswersAgree
  <2>1. SUFFICES ASSUME NEW k \in Keys,
                        NEW a \in {x \in answers : x[1] = k /\ x[2] # "refused"},
                        NEW b \in {x \in answers : x[1] = k /\ x[2] # "refused"}
                 PROVE  /\ a = b \/ a[3] + CacheWindow < b[3] \/ b[3] + CacheWindow < a[3]
                        /\ inv[k].state # "none" =>
                              inv[k].result = a[2] \/ a[3] + CacheWindow < inv[k].at
    BY DEF AnswersAgree
  <2>2. /\ a = <<k, a[2], a[3]>> /\ b = <<k, b[2], b[3]>>
        /\ a[2] \in Results /\ b[2] \in Results /\ a[3] \in Nat /\ b[3] \in Nat
    BY <1>1, <2>1 DEF GInv, Typed, Results
  <2>3. IsGiven(k, a[2], a[3]) /\ IsGiven(k, b[2], b[3])
    BY <2>1, <2>2 DEF IsGiven
  <2>4. Told(k, a[2], a[3]) /\ Agree(a[2], a[3], b[2], b[3])
    BY <1>1, <2>2, <2>3 DEF GInv, GivenTold, GivenAgree
  <2> QED
    BY <2>2, <2>4 DEF Told, InRow, Agree
<1>2. ASSUME GInv PROVE WaiterHasOwner
  <2>1. SUFFICES ASSUME NEW t \in Tasks, At(t, "wait")
                 PROVE  /\ task[task[t].on].pc \in {"run", "hook", "commit", "publish"}
                        /\ Key(task[t].on) = Key(t) /\ registry[Key(t)] = task[t].on
    BY DEF WaiterHasOwner
  <2>2. task[t].on \in Tasks /\ registry[Key(t)] = task[t].on /\ Key(t) \in Keys
    BY <1>2, <2>1, KeyType DEF GInv, Waiters, TasksPlaced, OnRequest, At, Key, Wrap
  <2> QED
    BY <1>2, <2>2, OpDispatchAssumption DEF GInv, Registered, Entered
<1>3. GInv => OneAnswer
  BY <1>1, <1>2 DEF GInv, OneAnswer
<1> QED
  BY <1>3, GInvHolds, PTL
=============================================================================
