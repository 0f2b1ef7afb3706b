------------------------------ MODULE Bootstrap ------------------------------
(***************************************************************************)
(* config.rs: what a start of lnrentd is configured with, and what its     *)
(* bootstrap makes durable in the data directory.                          *)
(*                                                                         *)
(* load_raw_config reads the configuration from flags, environment, a      *)
(* document named by a flag or LNRENT_CONFIG, and stdin, and merges them   *)
(* field by field, the earlier source first.  A document may also put the  *)
(* phoenixd fields in a [phoenixd] block.  Fields merge independently, so  *)
(* each behaviour follows one of the three kinds: a text, the opt-in to    *)
(* phoenixd, and the three-part fee schedule.                              *)
(*                                                                         *)
(* bootstrap writes the operator row, fedimint.json and the seed, three    *)
(* files in that order, each after what can be refused was refused; a      *)
(* crash may fall between any two.  Boots are the processes that may start *)
(* at once; OneOperator needs them to follow one another, and nothing but  *)
(* the operator sees to that: `lnrentd bootstrap` takes no lock.           *)
(***************************************************************************)
EXTENDS Integers, FiniteSets, Sequences

CONSTANTS
    Boots,            \* processes that may bootstrap the data dir
    Seeds, NoSeed,
    Invites, NoInvite,
    BootCrashes       \* bound: crashes and failed writes

Corrupt == "corrupt"            \* fedimint.json is there and does not parse

ASSUME BootstrapAssumption ==
    /\ NoSeed \notin Seeds /\ NoInvite \notin Invites
    /\ Corrupt \notin Invites \cup {NoInvite}
    /\ BootCrashes \in Nat

-----------------------------------------------------------------------------
(* The configuration of one start: load_raw_config and the resolution.     *)

Kinds == {"text", "optIn", "fees"}
Layers == <<"flags", "env", "file", "stdin">>
Documents == {"file", "stdin"}
FeeParts == {"version", "base", "ppm"}

Unset == "unset"
Nowhere == <<>>
Blank == "blank"                \* present, and empty once trimmed

VARIABLES
    csKind,     \* the field this behaviour follows
    csGiven,    \* what each source said: its flat field and its block's
    csNext,     \* the source read next
    csMerged,   \* what the sources read so far merge to
    csOutcome   \* "reading", "loaded", "refused" or "ready"

csVars == <<csKind, csGiven, csNext, csMerged, csOutcome>>

(* A field at a place, and the place a merged value came from: values at   *)
(* different places are taken as different.  A schedule is the parts set.  *)
NoValue == IF csKind = "fees" THEN {} ELSE Unset
Said(l) ==
    IF csKind = "fees" THEN IF l \in Documents THEN SUBSET FeeParts ELSE {{}}
    ELSE IF csKind = "text" THEN {Unset, Blank, "set"}
    ELSE {Unset} \cup (IF l = "flags" THEN {} ELSE {"yes", "no"})
                 \cup (IF l = "env" THEN {Blank, "garbage"} ELSE {})
SaidInBlock(l) == IF l \in Documents THEN Said(l) ELSE {NoValue}

ConfigInit ==
    /\ csKind \in Kinds
    /\ csGiven = [l \in {"flags", "env", "file", "stdin"} |->
                    [flat |-> NoValue, block |-> NoValue]]
    /\ csNext = 1
    /\ csMerged = [p \in FeeParts |-> [from |-> Nowhere, is |-> Unset]]
    /\ csOutcome = "reading"

-----------------------------------------------------------------------------
(* non_empty, sanitize_secret_string and the env parsers: blank is unset.  *)
NonBlank(v) == IF v = Blank THEN Unset ELSE v

(* A place's words as a value of each part; a text and the opt-in are kept *)
(* under every part alike.                                                 *)
AsParts(place, v) ==
    [p \in FeeParts |->
        IF csKind = "fees"
        THEN [from |-> IF p \in v THEN place ELSE Nowhere,
              is |-> IF p \in v THEN "set" ELSE Unset]
        ELSE [from |-> IF NonBlank(v) = Unset THEN Nowhere ELSE place,
              is |-> NonBlank(v)]]

Mentions(m) == \E p \in FeeParts : m[p].is # Unset

(* Mutant: the schedule merges part by part like any other field.          *)
OverlayByPart(high, low) ==
    [p \in FeeParts |-> IF high[p].is # Unset THEN high[p] ELSE low[p]]

(* overlay, overlay_secret_string and overlay_fee_schedule: a higher       *)
(* source that mentions any part of the schedule owns it.                  *)
Overlay(high, low) == IF Mentions(high) THEN high ELSE low

(* sanitized: the [phoenixd] block is folded under the flat fields.        *)
Sanitized(l, given) == Overlay(AsParts(<<l, "flat">>, given.flat),
                               AsParts(<<l, "block">>, given.block))

(* raw_config_from_env, parse_raw_config_doc: an opt-in that is no boolean *)
(* and a document that does not parse refuse the start.                    *)
ReadSource ==
    /\ csOutcome = "reading" /\ csNext <= Len(Layers)
    /\ LET l == Layers[csNext]
       IN  \E flat \in Said(l), block \in SaidInBlock(l) :
             LET garbage == csKind = "optIn" /\ flat = "garbage" IN
             /\ csGiven' = [csGiven EXCEPT ![l] = [flat |-> flat, block |-> block]]
             /\ csMerged' = IF garbage THEN csMerged
                            ELSE Overlay(csMerged, Sanitized(l, csGiven'[l]))
             /\ csOutcome' = IF garbage THEN "refused" ELSE "reading"
    /\ csNext' = csNext + 1
    /\ UNCHANGED csKind

DocumentUnreadable ==
    /\ csOutcome = "reading" /\ csNext <= Len(Layers) /\ Layers[csNext] \in Documents
    /\ csOutcome' = "refused"
    /\ UNCHANGED <<csKind, csGiven, csNext, csMerged>>

(* A partial schedule cannot bound an outbound fee.                        *)
WholeSchedule(m) ==
    \/ \A p \in FeeParts : m[p].is # Unset
    \/ \A p \in FeeParts : m[p].is = Unset

(* supplied_phoenixd_config, for an operator who selected phoenixd: an     *)
(* opt-in other than true, a missing text and a partial schedule refuse.   *)
Resolve ==
    /\ csOutcome = "reading" /\ csNext > Len(Layers)
    /\ csOutcome' = IF CASE csKind = "optIn" -> csMerged["version"].is = "yes"
                         [] csKind = "text" -> csMerged["version"].is # Unset
                         [] OTHER -> WholeSchedule(csMerged)
                    THEN "ready" ELSE "refused"
    /\ UNCHANGED <<csKind, csGiven, csNext, csMerged>>

ConfigNext == ReadSource \/ DocumentUnreadable \/ Resolve

-----------------------------------------------------------------------------
(* The places a value may stand, the stronger first.                       *)
Places == <<<<"flags", "flat">>, <<"env", "flat">>, <<"file", "flat">>,
            <<"file", "block">>, <<"stdin", "flat">>, <<"stdin", "block">>>>
Stated(i) ==
    LET v == IF Places[i][2] = "flat" THEN csGiven[Places[i][1]].flat
             ELSE csGiven[Places[i][1]].block
    IN  IF csKind = "fees" THEN v # {} ELSE NonBlank(v) # Unset

(* What phoenixd is used with was stated at one place, the strongest that  *)
(* says anything of the field: a blank never hides a weaker source, and a  *)
(* fee schedule (which bounds every refund's outlay) is never assembled    *)
(* from two places or completed from a weaker one.                         *)
OnePlaceDecides ==
    csOutcome = "ready" =>
        \A p \in FeeParts :
            \/ csMerged[p].from = Nowhere /\ \A i \in DOMAIN Places : ~Stated(i)
            \/ \E i \in DOMAIN Places :
                 /\ Stated(i) /\ csMerged[p].from = Places[i]
                 /\ \A j \in 1..(i - 1) : ~Stated(j)

-----------------------------------------------------------------------------
(* The durable state: bootstrap.                                           *)

Backends == {"mock", "fedimint", "phoenixd"}

(* The merged RawConfig, as far as it decides: a blank field is unset;     *)
(* `creds` is the opt-in with url and password of phoenixd.                *)
RawConfig ==
    [seed : Seeds \cup {NoSeed}, backend : Backends \cup {"unset"},
     invite : Invites \cup {NoInvite}, creds : BOOLEAN, relays : {"unset", "supplied"}]

VARIABLES
    bsRow,      \* the operator row: identity, payment_backend and relays
    bsFile,     \* fedimint.json
    bsSeed,     \* the seed file
    bsBoot,     \* per process: where it is
    bsCameUp,   \* every daemon that ever came up here
    bsCrashed

bsDisk == <<bsRow, bsFile, bsSeed>>
bsVars == <<bsDisk, bsBoot, bsCameUp, bsCrashed>>

NoOperator == [id |-> NoSeed, backend |-> "unset", relays |-> "unset"]
Unbooted == [pc |-> "idle", raw |-> [seed |-> NoSeed, backend |-> "unset",
                                     invite |-> NoInvite, creds |-> FALSE,
                                     relays |-> "unset"],
             id |-> NoSeed, backend |-> "unset", before |-> <<>>]

BootInit ==
    /\ bsRow = NoOperator
    /\ bsFile = NoInvite
    /\ bsSeed = NoSeed
    /\ bsBoot = [b \in Boots |-> Unbooted]
    /\ bsCameUp = {}
    /\ bsCrashed = 0

BootAt(b, pc) == bsBoot[b].pc = pc
BootTo(b, pc) == bsBoot' = [bsBoot EXCEPT ![b].pc = pc]

-----------------------------------------------------------------------------
(* resolve_config: an unset backend is the mock default.                   *)
Resolved(raw) == IF raw.backend = "unset" THEN "mock" ELSE raw.backend

(* validate_fedimint_config_available, and the reconcile against a stored  *)
(* invite: a corrupt file is refused, not overwritten.                     *)
InviteAvailable(raw) ==
    IF raw.invite # NoInvite THEN bsFile \in {NoInvite, raw.invite}
    ELSE bsFile \in Invites

(* resolve_seed: the persisted seed is authoritative.                      *)
SeedOf(raw) == IF bsSeed # NoSeed THEN bsSeed ELSE raw.seed
SeedAccepted(raw) ==
    IF bsSeed # NoSeed THEN raw.seed \in {NoSeed, bsSeed} ELSE raw.seed # NoSeed

(* Mutant: an inherited backend is validated when it is used.              *)
InheritedUnchecked(raw) == TRUE

(* validate_inherited_{fedimint,phoenixd}_config_before_store: a backend   *)
(* omitted now and stored before needs its configuration all the same.     *)
InheritedIsUsable(raw) ==
    (raw.backend = "unset" /\ bsRow.id = SeedOf(raw)) =>
        /\ bsRow.backend = "fedimint" => InviteAvailable(raw)
        /\ bsRow.backend = "phoenixd" => raw.creds

(* Everything bootstrap checks before it writes.                           *)
PreflightPasses(raw) ==
    /\ raw.backend = "phoenixd" => raw.creds
    /\ raw.backend = "fedimint" => InviteAvailable(raw)
    /\ SeedAccepted(raw)
    /\ InheritedIsUsable(raw)

StartBoot(b) ==
    /\ BootAt(b, "idle")
    /\ \E raw \in RawConfig :
         bsBoot' = [bsBoot EXCEPT ![b] =
             [Unbooted EXCEPT !.pc = IF PreflightPasses(raw) THEN "row" ELSE "refused",
                              !.raw = raw, !.id = SeedOf(raw), !.before = bsDisk]]
    /\ UNCHANGED <<bsDisk, bsCameUp, bsCrashed>>

(* Mutant: an omitted backend is the default.                              *)
BackendOfDefault(raw) == Resolved(raw)

(* The backend the row ends up with: inherited when omitted.               *)
BackendOf(raw) ==
    IF raw.backend = "unset" /\ bsRow # NoOperator THEN bsRow.backend ELSE Resolved(raw)

(* persist_operator_row, one transaction: another identity and an explicit *)
(* change of backend are conflicts; relays not supplied are kept.          *)
PersistRow(b) ==
    /\ BootAt(b, "row")
    /\ LET raw == bsBoot[b].raw
           conflict == /\ bsRow # NoOperator
                       /\ \/ bsRow.id # bsBoot[b].id
                          \/ raw.backend \notin {"unset", bsRow.backend}
       IN  IF conflict THEN BootTo(b, "refused") /\ UNCHANGED bsRow
           ELSE /\ bsRow' = [id |-> bsBoot[b].id, backend |-> BackendOf(raw),
                             relays |-> IF raw.relays = "unset" THEN bsRow.relays
                                        ELSE raw.relays]
                /\ bsBoot' = [bsBoot EXCEPT ![b].pc = "invite", ![b].backend = BackendOf(raw)]
    /\ UNCHANGED <<bsFile, bsSeed, bsCameUp, bsCrashed>>

(* resolve_durable_fedimint_config: write_fedimint_config reads what is    *)
(* there ... (and supplied_phoenixd_config is asked once more).            *)
ReadInvite(b) ==
    /\ BootAt(b, "invite")
    /\ LET raw == bsBoot[b].raw
       IN  BootTo(b, CASE bsBoot[b].backend = "mock" -> "seed"
                       [] bsBoot[b].backend = "phoenixd" ->
                            IF raw.creds THEN "seed" ELSE "refused"
                       [] bsBoot[b].backend = "fedimint" ->
                            IF ~InviteAvailable(raw) THEN "refused"
                            ELSE IF bsFile = NoInvite THEN "putInvite" ELSE "seed")
    /\ UNCHANGED <<bsDisk, bsCameUp, bsCrashed>>

(* ... and write_secret_file_atomic renames the staged file over it.       *)
PutInvite(b) ==
    /\ BootAt(b, "putInvite")
    /\ bsFile' = bsBoot[b].raw.invite
    /\ BootTo(b, "seed")
    /\ UNCHANGED <<bsRow, bsSeed, bsCameUp, bsCrashed>>

(* write_seed, only on a first bootstrap: never over another seed.         *)
PutSeed(b) ==
    /\ BootAt(b, "seed")
    /\ IF bsSeed \in {NoSeed, bsBoot[b].id}
       THEN bsSeed' = bsBoot[b].id /\ BootTo(b, "done")
       ELSE BootTo(b, "refused") /\ UNCHANGED bsSeed
    /\ UNCHANGED <<bsRow, bsFile, bsCameUp, bsCrashed>>

(* run_daemon goes on: the money backend is built from what bootstrap      *)
(* returned.                                                               *)
ComeUp(b) ==
    /\ BootAt(b, "done")
    /\ bsCameUp' = bsCameUp \cup
           {[id |-> bsBoot[b].id, backend |-> bsBoot[b].backend,
             invite |-> IF bsBoot[b].backend # "fedimint" THEN NoInvite
                        ELSE IF bsBoot[b].raw.invite # NoInvite THEN bsBoot[b].raw.invite
                        ELSE bsFile]}
    /\ bsBoot' = [bsBoot EXCEPT ![b] = Unbooted]
    /\ UNCHANGED <<bsDisk, bsCrashed>>

(* A refused start exits, a finished tool exits.                           *)
BootExits(b) ==
    /\ bsBoot[b].pc \in {"refused", "done"}
    /\ bsBoot' = [bsBoot EXCEPT ![b] = Unbooted]
    /\ UNCHANGED <<bsDisk, bsCameUp, bsCrashed>>

(* A crash, or a write that fails: what was renamed or committed stays.    *)
BootCrash(b) ==
    /\ bsBoot[b].pc \notin {"idle", "refused"} /\ bsCrashed < BootCrashes
    /\ bsCrashed' = bsCrashed + 1
    /\ bsBoot' = [bsBoot EXCEPT ![b] = Unbooted]
    /\ UNCHANGED <<bsDisk, bsCameUp>>

(* The operator edits fedimint.json and spoils it.                         *)
SpoilInvite ==
    /\ \A b \in Boots : BootAt(b, "idle")
    /\ bsFile \in Invites /\ bsFile' = Corrupt
    /\ UNCHANGED <<bsRow, bsSeed, bsBoot, bsCameUp, bsCrashed>>

BootNext ==
    \/ \E b \in Boots :
         \/ StartBoot(b) \/ PersistRow(b) \/ ReadInvite(b) \/ PutInvite(b) \/ PutSeed(b)
         \/ ComeUp(b) \/ BootExits(b) \/ BootCrash(b)
    \/ SpoilInvite

-----------------------------------------------------------------------------
(* Every daemon that ever came up in a data directory was the same         *)
(* operator on the same money backend and in the same federation, whatever *)
(* the later starts were configured with and wherever the earlier ones     *)
(* crashed: another answer would leave ecash or books behind.              *)
OneOperator == \A u, v \in bsCameUp : u = v

(* A start that was refused left the data directory as it found it: no     *)
(* half-made operator pins what a corrected retry may choose.              *)
RefusedIsClean ==
    \A b \in Boots : BootAt(b, "refused") => bsBoot[b].before = bsDisk
=============================================================================
