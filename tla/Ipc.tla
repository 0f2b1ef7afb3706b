---------------------------------- MODULE Ipc ----------------------------------
(***************************************************************************)
(* ipc.rs: the operator's socket.  One request per connection, read within *)
(* a deadline; a graceful shutdown drains the handlers inside a window the *)
(* supervisor then closes by force.                                        *)
(***************************************************************************)
EXTENDS Integers

CONSTANTS
    Peers,           \* connections
    ReadDeadline,    \* REQUEST_READ_DEADLINE_PROD, in ticks
    WriteBound,      \* TIMED_OUT_REPLY_WRITE_BOUND
    TxnBound,        \* longest a local transaction takes
    DrainWindow,     \* SHUTDOWN_DRAIN
    IpcLastTick      \* bound: the clock stops here

(* The idle path's budget is a compile-time assertion of ipc.rs; the       *)
(* answered path's is its comment on fast local transactions.              *)
ASSUME IpcAssumption ==
    /\ {ReadDeadline, WriteBound, TxnBound, DrainWindow, IpcLastTick} \subseteq Nat
    /\ ReadDeadline + WriteBound < DrainWindow /\ ReadDeadline + TxnBound < DrainWindow

VARIABLES
    ipcTick,     \* clock
    serving,     \* serve_with_shutdown: where it stands
    sock,        \* what the socket path names
    peer,        \* each connection's handler: stage, request, tick the stage began
    token,       \* the read-only handlers' shutdown token
    signalled,   \* {} or the tick of the shutdown signal
    unheard,     \* history: a committed fast command was killed before its reply
    pinned,      \* history: what held the drain past its window
    cut          \* history: a committed command was killed outside a shutdown

ipcVars == <<ipcTick, serving, sock, peer, token, signalled, unheard, pinned, cut>>

ReadOnly == {"Status", "Money", "Preflight"}     \* commit nothing; the last two wait on the network
FastMutating == {"RefundRetry", "AdminSuspend"}  \* one local transaction
SlowMutating == {"Sweep", "ListingPublish"}      \* wait on the network before and after their commit
IsMutating(r) == r \in FastMutating \cup SlowMutating

NoConn == [at |-> "none", req |-> "none", since |-> 0]

IpcInit ==
    /\ ipcTick = 0 /\ serving = "starting" /\ sock \in {"none", "ours", "unsafe"}
    /\ peer = [p \in Peers |-> NoConn] /\ token = FALSE /\ signalled = {}
    /\ unheard = FALSE /\ pinned = {} /\ cut = FALSE

Enter(p, at, r) == peer' = [peer EXCEPT ![p] = [at |-> at, req |-> r, since |-> ipcTick]]
HandlerAt(p, at) == peer[p].at = at /\ serving \in {"accept", "drain"}
Bystanders == <<ipcTick, serving, sock, token, signalled, unheard, pinned, cut>>
-----------------------------------------------------------------------------
(* bind_owner_only: an unsafe entry at the path is unlinked, then the      *)
(* 0600 socket staged in a private directory is renamed over it.           *)
EvictUnsafe ==
    /\ serving = "starting" /\ sock = "unsafe" /\ sock' = "none"
    /\ UNCHANGED <<ipcTick, serving, peer, token, signalled, unheard, pinned, cut>>

BindStaged ==
    /\ serving = "starting" /\ sock # "unsafe" /\ signalled = {}
    /\ sock' = "served" /\ serving' = "accept"
    /\ UNCHANGED <<ipcTick, peer, token, signalled, unheard, pinned, cut>>

(* A peer of the daemon's own uid, or root; any other is dropped unread.   *)
PeerAllowed(uid) == uid \in {"daemon", "root"}

Connects(p, uid) ==
    /\ serving = "accept" /\ sock = "served" /\ peer[p].at = "none" /\ PeerAllowed(uid)
    /\ Enter(p, "reading", "none") /\ UNCHANGED Bystanders

(* handle_conn: the request line, or the deadline and a bounded reply.     *)
Requests(p, r) ==
    /\ HandlerAt(p, "reading") /\ Enter(p, "dispatch", r) /\ UNCHANGED Bystanders

ReadExpires(p) == ipcTick - peer[p].since = ReadDeadline

ReadTimesOut(p) ==
    /\ HandlerAt(p, "reading") /\ ReadExpires(p)
    /\ Enter(p, "timedout", "none") /\ UNCHANGED Bystanders

(* dispatch: a mutating command commits, a fast one at once, a slow one    *)
(* after its quote or its probes; a slow one then awaits its payment or    *)
(* relay before it answers.                                                *)
Commits(p) ==
    /\ HandlerAt(p, "dispatch") /\ IsMutating(peer[p].req)
    /\ Enter(p, "committed", peer[p].req) /\ UNCHANGED Bystanders

DispatchEnds(p) ==
    /\ \/ HandlerAt(p, "committed")
       \/ HandlerAt(p, "dispatch") /\ ~IsMutating(peer[p].req)
    /\ Enter(p, "writing", peer[p].req) /\ UNCHANGED Bystanders

(* Mutant: a read-only command is awaited like the others.                 *)
CancellableNever(p) == FALSE

(* A read-only command selects on the token; a mutating one never does.    *)
Cancellable(p) == ~IsMutating(peer[p].req)

Cancelled(p) ==
    /\ HandlerAt(p, "dispatch") /\ token /\ Cancellable(p)
    /\ Enter(p, "writing", peer[p].req) /\ UNCHANGED Bystanders

(* The reply is written and the connection closes.                         *)
Answered(p) ==
    /\ HandlerAt(p, "writing") \/ HandlerAt(p, "timedout")
    /\ peer' = [peer EXCEPT ![p] = NoConn] /\ UNCHANGED Bystanders

(* accept() fails (no file descriptor is left): serve returns the error,   *)
(* its JoinSet is dropped with every handler, and supervise restarts it.   *)
AcceptFails ==
    /\ serving = "accept" /\ serving' = "starting" /\ sock' = "ours"
    /\ cut' = (cut \/ \E p \in Peers : peer[p].at = "committed")
    /\ peer' = [p \in Peers |-> NoConn]
    /\ UNCHANGED <<ipcTick, token, signalled, unheard, pinned>>

(* Shutdown: the path is removed, the token cancelled, handlers awaited.   *)
SignalIpc ==
    /\ signalled = {} /\ signalled' = {ipcTick}
    /\ serving' = IF serving = "starting" THEN "stopped" ELSE serving
    /\ UNCHANGED <<ipcTick, sock, peer, token, unheard, pinned, cut>>

ServeSeesSignal ==
    /\ serving = "accept" /\ signalled # {} /\ serving' = "drain"
    /\ sock' = "none" /\ token' = TRUE
    /\ UNCHANGED <<ipcTick, peer, signalled, unheard, pinned, cut>>

DrainDone ==
    /\ serving = "drain" /\ (\A p \in Peers : peer[p].at = "none") /\ serving' = "stopped"
    /\ UNCHANGED <<ipcTick, sock, peer, token, signalled, unheard, pinned, cut>>

(* supervise: the window is over, the task and its handlers are aborted.   *)
WindowOver == serving = "drain" /\ \E t \in signalled : ipcTick = t + DrainWindow

DrainAborted ==
    /\ WindowOver /\ serving' = "stopped"
    /\ unheard' = \E p \in Peers : peer[p].at = "committed" /\ peer[p].req \in FastMutating
    /\ pinned' = {peer[p].req : p \in {q \in Peers : peer[q].at # "none"}}
    /\ peer' = [p \in Peers |-> NoConn]
    /\ UNCHANGED <<ipcTick, sock, token, signalled, cut>>

(* Time passes only where the code lets it: up to a bounded stage's bound, *)
(* and without bound for a read-only command nobody cancelled and for a    *)
(* slow one, which waits on the network before its commit and after it.    *)
(* A reply that fits the socket's buffer is written at once.               *)
Stays(p) ==
    LET spent == ipcTick - peer[p].since
    IN  CASE peer[p].at = "none"      -> TRUE
          [] peer[p].at = "reading"   -> ~ReadExpires(p)
          [] peer[p].at = "timedout"  -> spent < WriteBound
          [] peer[p].at = "dispatch"  ->
               /\ peer[p].req \in FastMutating => spent < TxnBound
               /\ ~(token /\ Cancellable(p))
          [] peer[p].at = "committed" -> peer[p].req \in SlowMutating
          [] OTHER                    -> FALSE

IpcTicks ==
    /\ ipcTick < IpcLastTick /\ ipcTick' = ipcTick + 1
    /\ ~WindowOver /\ (serving = "accept" => signalled = {})
    /\ serving \in {"accept", "drain"} => \A p \in Peers : Stays(p)
    /\ UNCHANGED <<serving, sock, peer, token, signalled, unheard, pinned, cut>>

IpcNext ==
    \/ EvictUnsafe \/ BindStaged \/ SignalIpc \/ ServeSeesSignal \/ DrainDone \/ DrainAborted
    \/ AcceptFails
    \/ IpcTicks
    \/ \E p \in Peers :
          \/ \E uid \in {"daemon", "root", "other"} : Connects(p, uid)
          \/ \E r \in ReadOnly \cup FastMutating \cup SlowMutating : Requests(p, r)
          \/ ReadTimesOut(p) \/ Commits(p) \/ DispatchEnds(p) \/ Cancelled(p) \/ Answered(p)
-----------------------------------------------------------------------------
(* The drain is cut short only by a command that waits on a payment or a   *)
(* relay: no idle connection, late request or slow read   *)
(* outlasts the window, so no other committed command loses its reply.     *)
DrainHeldBySlowOnly ==
    /\ pinned # {} => pinned \cap SlowMutating # {}
    /\ ~unheard

(* A mutating command is never cancelled (handle_conn's comment).          *)
MutationNeverCut == ~cut
=============================================================================
