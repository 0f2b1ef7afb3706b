---------------------------- MODULE HookRunner ----------------------------
(***************************************************************************)
(* Recipe loading (daemon/src/recipe.rs, main.rs load_operator_recipe) and *)
(* the hook runner (daemon/src/runner.rs): one run of a hook as a child    *)
(* process in a process group of its own, from the choice of the recipe to *)
(* the verdict run_hook returns.                                           *)
(*                                                                         *)
(* The hook is a leader (the process the daemon spawns) and at most one    *)
(* descendant it forks; the descendant inherits the output pipes until it  *)
(* redirects them.  Processes that leave the group (setsid) and a kill -9  *)
(* of the daemon itself are outside the runner's reach and not modelled.   *)
(* A SIGKILL takes effect at once: a process that has been sent one makes  *)
(* no further step.                                                        *)
(***************************************************************************)
EXTENDS Integers, Sequences, FiniteSets

CONSTANTS
    HookTimeout,    \* ticks of DEFAULT_TIMEOUT
    ReapBound,      \* ticks of the two bounded 5 s waits for the leader
    MaxSpawns       \* spawn attempts on ETXTBSY/EAGAIN

ASSUME HookAssumption ==
    /\ HookTimeout \in Nat \ {0}
    /\ ReapBound \in Nat \ {0}
    /\ MaxSpawns \in Nat \ {0}

VARIABLES
    shelf,      \* the recipe directories, by service id order
    served,     \* the recipe the daemon serves, or NoRecipe
    leader,     \* the hook's own process
    child,      \* the process it forked, if any
    output,     \* what the group has written on the two pipes
    feed,       \* the detached task that writes the hook's stdin
    hookRun,    \* where run_hook stands
    spawns,     \* spawn attempts so far
    waited,     \* ticks in the current bounded wait
    total,      \* ticks since the spawn
    hookVerdict,    \* what run_hook returned
    hookCut         \* the group was killed by the runner

hrVars == <<shelf, served, leader, child, output, feed, hookRun,
            spawns, waited, total, hookVerdict, hookCut>>

procVars == <<leader, child, output, feed>>

(***************************************************************************)
(* Recipes.  A recipe is described by what validate() tells apart; the     *)
(* shelf holds a good recipe and recipes one edit away from it.            *)
(***************************************************************************)
LifecycleHooks == {"provision", "suspend", "resume", "destroy", "healthcheck"}

MaxEnvNames == 2

(* MAX_PARAMS and MAX_OPERATIONS of the wire format. *)
MaxListed == 2

DaemonEnv == {"PATH", "HOME", "DO_TOKEN", "LNRENT_MNEMONIC"}

BaseHookEnv == {"PATH", "HOME", "LANG", "LC_ALL", "TZ", "TMPDIR"}

GoodOp == [name |-> 0, kind |-> "request", hook |-> "bare",
           executable |-> TRUE, insideOps |-> TRUE, params |-> 0]

GoodRecipe ==
    [named |-> TRUE, hooks |-> LifecycleHooks, backend |-> "cloud",
     isolation |-> "vm", tier |-> "1", os |-> {"debian"},
     ops |-> <<GoodOp>>, params |-> 1, env |-> {"DO_TOKEN"}]

NoRecipe == [GoodRecipe EXCEPT !.named = FALSE, !.hooks = {}]

Edited ==
    {[GoodRecipe EXCEPT !.named = FALSE],
     [GoodRecipe EXCEPT !.hooks = @ \ {"destroy"}],
     [GoodRecipe EXCEPT !.backend = "unknown"],
     [GoodRecipe EXCEPT !.isolation = "unknown"],
     [GoodRecipe EXCEPT !.tier = "3"],
     [GoodRecipe EXCEPT !.os = {}],
     [GoodRecipe EXCEPT !.os = {"debian", "plan9"}],
     [GoodRecipe EXCEPT !.params = MaxListed + 1],
     [GoodRecipe EXCEPT !.ops = [i \in 1..MaxListed + 1 |-> [GoodOp EXCEPT !.name = i]]],
     [GoodRecipe EXCEPT !.ops = <<GoodOp, GoodOp>>],
     [GoodRecipe EXCEPT !.env = {"DO_TOKEN", "LNRENT_MNEMONIC"}],
     [GoodRecipe EXCEPT !.env = {"lower"}],
     [GoodRecipe EXCEPT !.env = {"DO_TOKEN", "A", "B"}]}
    \cup {[GoodRecipe EXCEPT !.ops = <<op>>] :
            op \in {[GoodOp EXCEPT !.kind = "unknown"],
                    [GoodOp EXCEPT !.hook = "path"],
                    [GoodOp EXCEPT !.executable = FALSE],
                    [GoodOp EXCEPT !.insideOps = FALSE],
                    [GoodOp EXCEPT !.params = MaxListed + 1],
                    [GoodOp EXCEPT !.kind = "interactive", !.executable = FALSE]}}

OpIsValid(op) ==
    /\ op.kind \in {"request", "interactive"}
    /\ op.hook = "bare"
    /\ (op.kind = "request") => (op.executable /\ op.insideOps)

NameIsForwardable(n) == n \notin {"lower", "LNRENT_MNEMONIC"}

(* What a 30402 listing can carry of the recipe. *)
FitsListing(r) ==
    /\ r.params <= MaxListed
    /\ Len(r.ops) <= MaxListed
    /\ \A i \in DOMAIN r.ops : r.ops[i].params <= MaxListed

Validated(r) ==
    /\ r.named
    /\ LifecycleHooks \subseteq r.hooks
    /\ r.backend \in {"host", "incus", "libvirt", "proxmox", "cloud"}
    /\ r.isolation \in {"none", "container", "vm"}
    /\ r.tier \in {"0", "1", "1.5", "2"}
    /\ r.os # {} /\ r.os \subseteq {"nixos", "debian"}
    /\ \A i, j \in DOMAIN r.ops : (r.ops[i].name = r.ops[j].name) => (i = j)
    /\ \A i \in DOMAIN r.ops : OpIsValid(r.ops[i])
    /\ FitsListing(r)
    /\ Cardinality(r.env) <= MaxEnvNames
    /\ \A n \in r.env : NameIsForwardable(n)

(* load_operator_recipe: the valid recipe of the lowest id, or a refusal to start. *)
LoadRecipe ==
    /\ hookRun = "boot"
    /\ LET valid == {i \in DOMAIN shelf : Validated(shelf[i])} IN
       \/ /\ valid = {}
          /\ hookRun' = "refused"
          /\ UNCHANGED served
       \/ \E i \in valid :
            /\ \A j \in valid : i <= j
            /\ served' = shelf[i]
            /\ hookRun' = "spawning"
    /\ UNCHANGED <<shelf, procVars, spawns, waited, total, hookVerdict, hookCut>>

HookEnv(r) == (BaseHookEnv \cup r.env) \cap DaemonEnv

(***************************************************************************)
(* The hook's processes: everything a shell script can do.                 *)
(***************************************************************************)
LeaderAlive == leader \in {"open", "closed"}

ChildAlive == child \in {"attached", "detached"}

AtEof == leader # "open" /\ child # "attached"

runnerVars == <<shelf, served, hookRun, spawns, waited, total, hookVerdict, hookCut>>

HookForks ==
    /\ leader = "open" /\ child = "none"
    /\ child' = "attached"
    /\ UNCHANGED <<leader, output, feed, runnerVars>>

ChildMoves ==
    /\ ChildAlive
    /\ child' \in (IF child = "attached" THEN {"detached", "gone"} ELSE {"gone"})
    /\ UNCHANGED <<leader, output, feed, runnerVars>>

HookWrites ==
    /\ leader = "open" \/ child = "attached"
    /\ output # "over"
    /\ output' \in {"json", "junk", "over"}
    /\ UNCHANGED <<leader, child, feed, runnerVars>>

HookClosesOutput ==
    /\ leader = "open"
    /\ leader' = "closed"
    /\ UNCHANGED <<child, output, feed, runnerVars>>

HookExits ==
    /\ LeaderAlive
    /\ leader' \in {"exit0", "exit1"}
    /\ UNCHANGED <<child, output, feed, runnerVars>>

(* The stdin feed ends when the hook drains it or nobody is left to read it. *)
FeedEnds ==
    /\ feed = "writing"
    /\ feed' = "over"
    /\ UNCHANGED <<leader, child, output, runnerVars>>

(***************************************************************************)
(* run_hook.                                                               *)
(***************************************************************************)
(* killpg: every process still in the group dies. *)
KillGroup ==
    /\ leader' = IF LeaderAlive THEN "killed" ELSE leader
    /\ child' = IF ChildAlive THEN "gone" ELSE child
    /\ hookCut' = (hookCut \/ LeaderAlive \/ ChildAlive)

Return(v) ==
    /\ hookRun' = "done"
    /\ hookVerdict' = v

SpawnHook ==
    /\ hookRun = "spawning"
    /\ \/ /\ leader' = "open"
          /\ feed' = "writing"
          /\ hookRun' = "reading"
          /\ spawns' = spawns + 1
          /\ UNCHANGED hookVerdict
       \/ /\ spawns < MaxSpawns           \* ETXTBSY, EAGAIN
          /\ spawns' = spawns + 1
          /\ UNCHANGED <<leader, feed, hookRun, hookVerdict>>
       \/ /\ Return("unspawned")          \* ENOENT, EACCES, or out of attempts
          /\ UNCHANGED <<leader, feed, spawns>>
    /\ UNCHANGED <<shelf, served, child, output, waited, total, hookCut>>

(* read_capped: a breach on either pipe fails at once. *)
OverCap == output = "over"

(* The timeout is over the reads alone. *)
ReadsFail ==
    /\ hookRun = "reading"
    /\ OverCap \/ waited = HookTimeout
    /\ KillGroup
    /\ hookRun' = "reaping"
    /\ waited' = 0
    /\ hookVerdict' = IF OverCap THEN "capped" ELSE "timed_out"
    /\ UNCHANGED <<shelf, served, output, feed, spawns, total>>

ReadsEnd ==
    /\ hookRun = "reading"
    /\ AtEof /\ ~OverCap
    /\ feed' = "over"
    /\ hookRun' = "waiting"
    /\ waited' = 0
    /\ UNCHANGED <<shelf, served, leader, child, output, spawns, total, hookVerdict, hookCut>>

(* The bounded reap after a group kill; only then is the guard disarmed, so a drop on the way kills again. *)
Reaps ==
    /\ hookRun = "reaping"
    /\ leader' = "reaped"
    /\ hookRun' = "done"
    /\ UNCHANGED <<shelf, served, child, output, feed, spawns, waited, total, hookVerdict, hookCut>>

WaitRunsOut ==
    /\ hookRun = "waiting"
    /\ waited = ReapBound /\ LeaderAlive
    /\ KillGroup
    /\ hookRun' = "reaping"
    /\ waited' = 0
    /\ hookVerdict' = "no_exit"
    /\ UNCHANGED <<shelf, served, output, feed, spawns, total>>

Success == leader = "exit0" /\ output = "json"

(* The mutant: the guard disarmed as soon as the leader is reaped. *)
WaitEndsDisarmed ==
    /\ hookRun = "waiting"
    /\ leader \in {"exit0", "exit1"}
    /\ Return(IF Success THEN "ok" ELSE "failed")
    /\ leader' = "reaped"
    /\ UNCHANGED <<shelf, served, child, output, feed, spawns, waited, total, hookCut>>

(* The leader's status: success disarms the guard and leaves what the hook *)
(* left running; a failure returns through the guard's Drop, which kills   *)
(* the survivors of the group.                                             *)
WaitEnds ==
    /\ hookRun = "waiting"
    /\ leader \in {"exit0", "exit1"}
    /\ IF Success
       THEN /\ Return("ok")
            /\ leader' = "reaped"
            /\ UNCHANGED <<child, hookCut>>
       ELSE /\ Return("failed")
            /\ leader' = "reaped"
            /\ child' = IF ChildAlive THEN "gone" ELSE child
            /\ hookCut' = (hookCut \/ ChildAlive)
    /\ UNCHANGED <<shelf, served, output, feed, spawns, waited, total>>

(* wait() itself fails, or the caller drops the future (shutdown, also     *)
(* between two spawn attempts): the still armed guard kills the group.     *)
Abandoned ==
    /\ \/ hookRun \in {"spawning", "reading", "reaping"} /\ Return("dropped")
       \/ hookRun = "waiting" /\ Return("dropped")
       \/ hookRun = "waiting" /\ Return("wait_error")
    /\ KillGroup
    /\ UNCHANGED <<shelf, served, output, feed, spawns, waited, total>>

(* Time passes only while no timer of the runner is due. *)
HookTick ==
    /\ \/ hookRun = "reading" /\ waited < HookTimeout
       \/ hookRun = "waiting" /\ waited < ReapBound /\ LeaderAlive
       \/ hookRun = "reaping" /\ waited < ReapBound
    /\ waited' = waited + 1
    /\ total' = total + 1
    /\ UNCHANGED <<shelf, served, procVars, hookRun, spawns, hookVerdict, hookCut>>

HookInit ==
    /\ shelf \in {<<r, s>> : r \in Edited \cup {GoodRecipe}, s \in {GoodRecipe, NoRecipe}}
    /\ served = NoRecipe
    /\ leader = "none" /\ child = "none" /\ output = "none" /\ feed = "none"
    /\ hookRun = "boot" /\ spawns = 0
    /\ waited = 0 /\ total = 0 /\ hookVerdict = "none" /\ hookCut = FALSE

HookNext ==
    \/ LoadRecipe \/ SpawnHook
    \/ HookForks \/ ChildMoves \/ HookWrites \/ HookClosesOutput \/ HookExits \/ FeedEnds
    \/ ReadsEnd \/ ReadsFail \/ WaitEnds \/ WaitRunsOut \/ Reaps \/ Abandoned
    \/ HookTick

(***************************************************************************)
(* A hook never outlives the verdict on it: when run_hook has answered     *)
(* with a failure, or was dropped, no process of the hook's group is still *)
(* running (a curl creating a billed box would otherwise finish after the  *)
(* refund), and when it answered with success nothing the hook left        *)
(* running was killed.  A hook that never reads its stdin cannot hold the  *)
(* answer back past its timeout and the two bounded waits, and what runs   *)
(* gets no variable of the daemon's LNRENT* namespace.                     *)
(***************************************************************************)
HookIsContained ==
    /\ (hookRun = "done" /\ hookVerdict # "ok") => ~LeaderAlive /\ ~ChildAlive
    /\ (hookVerdict = "ok") => ~hookCut
    /\ total <= HookTimeout + 2 * ReapBound
    /\ LeaderAlive => "LNRENT_MNEMONIC" \notin HookEnv(served)
=============================================================================
