----------------------------- MODULE RefundQuote -----------------------------
(***************************************************************************)
(* The price of a payout (lnv2_backend.rs, phoenixd_backend.rs): the       *)
(* largest whole-sat payout whose total debit still fits the gross, found  *)
(* by a binary search over the advertised fee and, for lnv2, a walk down   *)
(* from there, because the federation's own fees are not monotone in the   *)
(* amount.  Amounts under fees are in msat and never overflow (u128).      *)
(***************************************************************************)
EXTENDS Integers

CONSTANTS
    MsatPerSat,   \* 1000
    PpmScale,     \* 1_000_000
    MaxGross,     \* bound: gross receipts, in sat
    Bases, Ppms   \* advertised base fees (msat) and rates

ASSUME RefundQuoteAssumption ==
    /\ {MsatPerSat, PpmScale} \subseteq Nat \ {0}
    /\ MaxGross \in Nat
    /\ Bases \subseteq Nat /\ Ppms \subseteq Nat

Schedule == [base : Bases, ppm : Ppms]

VARIABLES
    rqKind,     \* "lnv2" or "phoenixd"
    rqDefault,  \* the gateway's lightning-swap schedule; phoenixd's only one
    rqMinimum,  \* the gateway's direct-swap schedule
    rqDusty,    \* the contract whose notes cost an extra consensus fee
    rqGross,
    rqLo, rqHi, \* the search interval
    rqPc,
    rqNet       \* the quote

rqPrice == <<rqKind, rqDefault, rqMinimum, rqDusty>>
rqVars == <<rqPrice, rqGross, rqLo, rqHi, rqPc, rqNet>>

-----------------------------------------------------------------------------
(* lnv2_fee_msat rounds the proportional part down, as fedimint does;      *)
(* FeeSchedule::fee_msat reserves it rounded up.                           *)
FeeMsat(s, pay) ==
    IF rqKind = "lnv2" THEN s.base + (pay * s.ppm) \div PpmScale
    ELSE s.base + (pay * s.ppm + PpmScale - 1) \div PpmScale

(* lnv2_worst_fee_msat: which schedule applies is unknown until the        *)
(* destination is.                                                         *)
WorstFee(pay) ==
    LET d == FeeMsat(rqDefault, pay)
        m == FeeMsat(rqMinimum, pay)
    IN  IF rqKind = "phoenixd" \/ d >= m THEN d ELSE m

(* The closure `valid`, or `fits`, of the search.                          *)
Fits(n) == n = 0 \/ n * MsatPerSat + WorstFee(n * MsatPerSat) <= rqGross * MsatPerSat

(* outlay_for_contract_msat (external): the notes spent and the change     *)
(* add a fee that depends on the contract and is not monotone.             *)
DebitOf(contract) == contract + (IF contract = rqDusty THEN 1 ELSE 0)

(* outgoing_outlay_msat: the larger debit of the two contracts; phoenixd's *)
(* outlay is payout and fee.                                               *)
Outlay(n) ==
    LET pay == n * MsatPerSat
        a == DebitOf(pay + FeeMsat(rqDefault, pay))
        b == DebitOf(pay + FeeMsat(rqMinimum, pay))
    IN  IF n = 0 THEN 0
        ELSE IF rqKind = "phoenixd" THEN pay + WorstFee(pay)
        ELSE IF a >= b THEN a ELSE b

QuoteInit ==
    /\ rqKind \in {"lnv2", "phoenixd"}
    /\ rqDefault \in Schedule
    /\ rqMinimum \in IF rqKind = "lnv2" THEN Schedule ELSE {rqDefault}
    /\ rqGross \in 0..MaxGross
    /\ rqDusty \in 0..(rqGross * MsatPerSat)
    /\ rqLo = 0 /\ rqHi = rqGross
    /\ rqPc = "search"
    /\ rqNet = 0

-----------------------------------------------------------------------------
(* The upper middle: a lower one would not make progress.                  *)
Mid == rqHi - (rqHi - rqLo) \div 2

SearchStep ==
    /\ rqPc = "search" /\ rqLo < rqHi
    /\ IF Fits(Mid) THEN rqLo' = Mid /\ UNCHANGED rqHi
       ELSE rqHi' = Mid - 1 /\ UNCHANGED rqLo
    /\ UNCHANGED <<rqPrice, rqGross, rqPc, rqNet>>

(* Mutant: the federation's fees are taken to be monotone like the rest.   *)
SearchEndsQuoted ==
    /\ rqPc = "search" /\ rqLo = rqHi
    /\ rqNet' = rqLo
    /\ rqPc' = "quoted"
    /\ UNCHANGED <<rqPrice, rqGross, rqLo, rqHi>>

(* phoenixd's net_payout_sat returns here; lnv2's walks down.              *)
SearchEnds ==
    /\ rqPc = "search" /\ rqLo = rqHi
    /\ rqNet' = rqLo
    /\ rqPc' = IF rqKind = "lnv2" THEN "walk" ELSE "quoted"
    /\ UNCHANGED <<rqPrice, rqGross, rqLo, rqHi>>

WalkDown ==
    /\ rqPc = "walk"
    /\ IF Outlay(rqNet) <= rqGross * MsatPerSat \/ rqNet = 0
       THEN rqPc' = "quoted" /\ UNCHANGED rqNet
       ELSE rqNet' = rqNet - 1 /\ UNCHANGED rqPc
    /\ UNCHANGED <<rqPrice, rqGross, rqLo, rqHi>>

QuoteNext == SearchStep \/ SearchEnds \/ WalkDown

-----------------------------------------------------------------------------
(* The quote is exact: it fits the gross, and no larger payout up to the   *)
(* gross would, so a refund neither overspends what was received nor       *)
(* leaves the buyer a sat short, although the search runs on a bound of    *)
(* the real debit and the real debit is not monotone.                      *)
NetIsLargest ==
    (rqPc = "quoted") =>
        /\ Outlay(rqNet) <= rqGross * MsatPerSat
        /\ \A n \in (rqNet + 1)..rqGross : Outlay(n) > rqGross * MsatPerSat
=============================================================================
