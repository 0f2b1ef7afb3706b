------------------------------ MODULE Resolver ------------------------------
(***************************************************************************)
(* refund_resolver.rs: turning a buyer's refund destination into a bolt11  *)
(* at refund time, as refund.rs resolve_dest calls it.  The buyer's        *)
(* endpoint, its DNS and the redirects are free to answer anything, and    *)
(* time passes while they do; the whole call is cut at RESOLUTION_DEADLINE.*)
(* A destination is told apart by its form only; an address is public or   *)
(* not (check_ip), a URL by its scheme and host.                           *)
(***************************************************************************)
EXTENDS Integers, FiniteSets

CONSTANTS
    Owed,               \* the net amount to refund
    Amounts,            \* amounts an endpoint may name
    Metadatas,          \* metadata strings an endpoint may serve
    MaxRedirects,       \* MAX_REDIRECTS
    MinTtl,             \* MIN_BOLT11_TTL_S
    Deadline,           \* RESOLUTION_DEADLINE
    RvLastTick          \* bound: the clock

ASSUME ResolverAssumption ==
    /\ Owed \in Amounts /\ Amounts \subseteq Nat
    /\ MaxRedirects \in Nat /\ RvLastTick \in Nat
    /\ Deadline \in Nat /\ MinTtl \in Nat /\ Deadline < MinTtl

Forms == {"bolt11", "address", "lnurl", "bolt12", "malformed"}
Hosts == {"name", "localhost", "publicIp", "privateIp", "none"}
Urls == [scheme : {"https", "other"}, host : Hosts]
AddressUrl == [scheme |-> "https", host |-> "name"]
NoMeta == [tag |-> FALSE, min |-> 0, max |-> 0, metadata |-> "none", callback |-> AddressUrl]
NoInvoice == [amount |-> 0, hash |-> "none", expiry |-> 0]

VARIABLES
    rvClock,
    rvForm,         \* the form of the stored refund_dest
    rvPc,           \* where the call is
    rvStarted,      \* `now`, read when the drive took the row up
    rvUrl, rvHops,  \* the URL to fetch next, and the redirects followed
    rvPinned,       \* the addresses the host was vetted to have
    rvMeta,         \* the LNURL-pay response, once fetched
    rvStage,        \* which document is being fetched
    rvInvoice,      \* the bolt11 the call returned
    rvContacted     \* every address ever connected to

callVars == <<rvStarted, rvUrl, rvHops, rvPinned, rvMeta, rvStage>>
rvVars == <<rvClock, rvForm, rvPc, callVars, rvInvoice, rvContacted>>

ResolverInit ==
    /\ rvClock = 0 /\ rvForm \in Forms /\ rvPc = "idle" /\ rvStarted = 0
    /\ rvUrl = AddressUrl /\ rvHops = 0 /\ rvPinned = {}
    /\ rvMeta = NoMeta /\ rvStage = "meta"
    /\ rvInvoice = NoInvoice /\ rvContacted = {}

-----------------------------------------------------------------------------
(* PlanError: a structural failure parks the refund, a transient one       *)
(* leaves it for the next drive.                                           *)
StructuralFault == rvPc' = "parked" /\ UNCHANGED <<callVars, rvInvoice>>
Transient == rvPc' = "idle" /\ UNCHANGED <<callVars, rvInvoice>>

Fetch(url, stage) ==
    /\ rvUrl' = url /\ rvStage' = stage /\ rvHops' = 0 /\ rvPinned' = {}
    /\ rvPc' = "vet"

(* resolve: detect_form decides (parse_ln_address, decode_lnurl); a bolt11 *)
(* is its own answer, whatever it says.                                    *)
StartResolve ==
    /\ rvPc = "idle"
    /\ CASE rvForm \in {"bolt12", "malformed"} -> StructuralFault
         [] rvForm = "bolt11" ->
              /\ rvPc' = "resolved"
              /\ UNCHANGED <<callVars, rvInvoice>>
         [] OTHER ->
              /\ rvStarted' = rvClock /\ rvMeta' = NoMeta
              /\ \E url \in IF rvForm = "address" THEN {AddressUrl} ELSE Urls : Fetch(url, "meta")
              /\ UNCHANGED rvInvoice
    /\ UNCHANGED <<rvClock, rvForm, rvContacted>>

(* validate_url, at every hop.                                             *)
UrlIsValid(url) == url.scheme = "https" /\ url.host \notin {"localhost", "none"}

(* validated_addrs: every address of the host passes check_ip, and those   *)
(* are the ones the client is pinned to.                                   *)
VetUrl ==
    /\ rvPc = "vet"
    /\ IF ~UrlIsValid(rvUrl) THEN StructuralFault
       ELSE \E addrs \in CASE rvUrl.host = "publicIp" -> {{"public"}}
                           [] rvUrl.host = "privateIp" -> {{"private"}}
                           [] OTHER -> SUBSET {"public", "private"} :
              CASE addrs = {} -> Transient
                [] "private" \in addrs -> StructuralFault
                [] OTHER -> /\ rvPinned' = addrs /\ rvPc' = "connect"
                            /\ UNCHANGED <<rvStarted, rvUrl, rvHops, rvMeta, rvStage, rvInvoice>>
    /\ UNCHANGED <<rvClock, rvForm, rvContacted>>

(* Mutant: the connection looks the host up for itself.                    *)
ConnectByName ==
    /\ rvPc = "connect" /\ rvPc' = "answer"
    /\ \E a \in IF rvUrl.host = "name" THEN {"public", "private"} ELSE rvPinned :
         rvContacted' = rvContacted \cup {a}
    /\ UNCHANGED <<rvClock, rvForm, callVars, rvInvoice>>

(* resolve_to_addrs: the client of this one request.                       *)
Connect ==
    /\ rvPc = "connect" /\ rvPc' = "answer"
    /\ \E a \in rvPinned : rvContacted' = rvContacted \cup {a}
    /\ UNCHANGED <<rvClock, rvForm, callVars, rvInvoice>>

(* get_json: a redirect is a new URL to vet, a few times (redirect_target).*)
Redirected ==
    /\ rvPc = "answer"
    /\ IF rvHops + 1 > MaxRedirects THEN StructuralFault
       ELSE \/ StructuralFault                   \* no Location, or none that joins
            \/ /\ rvHops' = rvHops + 1 /\ rvPc' = "vet" /\ rvPinned' = {}
               /\ \E url \in Urls : rvUrl' = url
               /\ UNCHANGED <<rvStarted, rvMeta, rvStage, rvInvoice>>
    /\ UNCHANGED <<rvClock, rvForm, rvContacted>>

(* classify_http_status and the LUD-06 error envelope are structural but   *)
(* for 408, 429 and 5xx; a timeout, a body over MAX_BODY_BYTES             *)
(* (read_body_capped) and JSON that does not parse are transient.          *)
ResolveRefused == rvPc = "answer" /\ StructuralFault /\ UNCHANGED <<rvClock, rvForm, rvContacted>>
Failed == rvPc = "answer" /\ Transient  /\ UNCHANGED <<rvClock, rvForm, rvContacted>>

(* resolve: the LNURL-pay response, and the callback for exactly the net   *)
(* amount owed.                                                            *)
MetaAnswered ==
    /\ rvPc = "answer" /\ rvStage = "meta"
    /\ \E tag \in BOOLEAN, min, max \in Amounts, md \in Metadatas, cb \in Urls :
         IF ~tag \/ Owed < min \/ Owed > max THEN StructuralFault
         ELSE /\ Fetch(cb, "callback")
              /\ rvMeta' = [tag |-> tag, min |-> min, max |-> max, metadata |-> md,
                            callback |-> cb]
              /\ UNCHANGED <<rvStarted, rvInvoice>>
    /\ UNCHANGED <<rvClock, rvForm, rvContacted>>

(* validate_invoice.                                                       *)
InvoiceIsWrong(inv) == inv.amount # Owed \/ inv.hash # rvMeta.metadata
InvoiceIsShort(inv) == inv.expiry < rvStarted + MinTtl

CallbackAnswered ==
    /\ rvPc = "answer" /\ rvStage = "callback"
    /\ \E inv \in [amount : Amounts, hash : Metadatas, expiry : 0..(RvLastTick + MinTtl)] :
         CASE InvoiceIsWrong(inv) -> StructuralFault
           [] ~InvoiceIsWrong(inv) /\ InvoiceIsShort(inv) -> Transient
           [] OTHER -> rvInvoice' = inv /\ rvPc' = "resolved" /\ UNCHANGED callVars
    /\ UNCHANGED <<rvClock, rvForm, rvContacted>>

InCall == rvPc \in {"vet", "connect", "answer"}

(* resolve_dest: the deadline over the whole call.                         *)
DeadlinePassed ==
    /\ InCall /\ rvClock >= rvStarted + Deadline
    /\ Transient
    /\ UNCHANGED <<rvClock, rvForm, rvContacted>>

(* Time passes; a call never runs past its deadline, and what it returned  *)
(* is persisted (persist_resolution) and paid at once.                     *)
RvTick ==
    /\ rvClock < RvLastTick /\ rvPc # "resolved"
    /\ InCall => rvClock < rvStarted + Deadline
    /\ rvClock' = rvClock + 1
    /\ UNCHANGED <<rvForm, rvPc, callVars, rvInvoice, rvContacted>>

ResolverNext ==
    \/ StartResolve \/ VetUrl \/ Connect \/ Redirected \/ ResolveRefused \/ Failed
    \/ MetaAnswered \/ CallbackAnswered \/ DeadlinePassed \/ RvTick

-----------------------------------------------------------------------------
(* An invoice a resolution returns pays exactly what is owed, commits to   *)
(* the metadata served in that same resolution, and has not expired by     *)
(* then, however slow the endpoint was and however old `now` had become;   *)
(* and nothing was ever fetched from an address that was not vetted.       *)
ResolvedIsPayable ==
    /\ (rvPc = "resolved" /\ rvForm # "bolt11") =>
         /\ rvInvoice.amount = Owed
         /\ rvInvoice.hash = rvMeta.metadata
         /\ rvClock < rvInvoice.expiry
    /\ "private" \notin rvContacted
=============================================================================
