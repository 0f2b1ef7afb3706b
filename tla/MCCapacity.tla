----------------------------- MODULE MCCapacity -----------------------------
EXTENDS Capacity, TLC
CONSTANTS o1, o2, o3, h1, h2
MCOrders == {o1, o2, o3}
MCSenderOf == (o1 :> "alice") @@ (o2 :> "alice") @@ (o3 :> "bob")
MCHandlers == {h1, h2}
\* Handlers are interchangeable, and so are the two orders of one sender.
Sym == {p @@ q : p \in Permutations(MCHandlers), q \in Permutations({o1, o2})}

\* What a step or a property can still tell apart: how far an expiry is past
\* no longer matters, nor does the course of an order that is over, nor the
\* lapsed hold of a request that is refused.  Two states with one view have
\* the same futures.
Until(t) == IF t > now THEN t ELSE now
Over(o) == sub[o] \in {"EXPIRED", "TERMINATED", "REFUNDED"}
Refused(o) ==
    /\ cached[o] = "error" /\ sub[o] = "none"
    /\ \A h \in Handlers : o \notin handler[h].order
HoldView(o) ==
    IF resv[o] = "HELD" \/ \E h \in Handlers : Minting(h, o)
    THEN <<resv[o], Until(expires_at[o]), order_invoice[o]>> ELSE <<resv[o]>>
OrderView(o) ==
    IF Refused(o) THEN <<"refused", o \in cut \/ resv[o] # "HELD", IF Live(o) THEN HoldView(o) ELSE <<>> >>
    ELSE <<cached[o], IF Over(o) THEN "over" ELSE sub[o], HoldView(o),
           IF sub[o] = "PENDING" THEN <<Until(invoice_expiry[o]), o \in paid>> ELSE <<>>,
           o \in cut /\ cached[o] # "invoice" /\ resv[o] # "RELEASED">>
View == <<now, listing, [o \in Orders |-> OrderView(o)], handler, minted, revived, faults>>
=============================================================================
