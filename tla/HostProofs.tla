----------------------------- MODULE HostProofs -----------------------------
(***************************************************************************)
(* Proofs about the services on the operator's machine (MCHost), each by   *)
(* an inductive invariant of its own module, then put together: whichever  *)
(* runs, the others keep their state.                                      *)
(***************************************************************************)
EXTENDS MCHost, FiniteSetTheorems, WellFoundedInduction, TLAPS

-----------------------------------------------------------------------------
(* Bootstrap.                                                              *)

(* What the three files of a data directory may hold.                      *)
Rows == [id : Seeds \cup {NoSeed}, backend : Backends \cup {"unset"}, relays : {"unset", "supplied"}]
Files == Invites \cup {NoInvite, Corrupt}
Disks == {<<r, f, s>> : r \in Rows, f \in Files, s \in Seeds \cup {NoSeed}}

(* A process that bootstraps.                                              *)
Process ==
    [pc : {"idle", "refused", "row", "invite", "putInvite", "seed", "done"}, raw : RawConfig,
     id : Seeds \cup {NoSeed}, backend : Backends \cup {"unset"}, before : {<<>>} \cup Disks]

(* The types of the directory and of the processes.                        *)
BootTypes ==
    /\ bsRow \in Rows /\ bsFile \in Files /\ bsSeed \in Seeds \cup {NoSeed}
    /\ bsBoot \in [Boots -> Process]
    /\ bsRow = NoOperator \/ (bsRow.id \in Seeds /\ bsRow.backend \in Backends)

(* The daemons that came up are the operator of the row, in the federation *)
(* of the file unless the operator spoilt it.                              *)
CameUpAsRow ==
    \A u \in bsCameUp :
        /\ u = [id |-> u.id, backend |-> u.backend, invite |-> u.invite]
        /\ \A v \in bsCameUp : v.invite = u.invite
        /\ bsRow # NoOperator /\ u.id = bsRow.id /\ u.backend = bsRow.backend
        /\ u.backend # "fedimint" => u.invite = NoInvite
        /\ u.backend = "fedimint" => u.invite \in Invites /\ bsFile \in {u.invite, Corrupt}

(* A start that passed the preflight holds the seed of the directory.      *)
HoldsSeed(b) ==
    bsBoot[b].pc \in {"row", "invite", "putInvite", "seed", "done"} =>
        bsBoot[b].id \in Seeds /\ bsSeed \in {NoSeed, bsBoot[b].id}

(* What the preflight established is still so when the row is written, and *)
(* what the row says is what the start goes on with.                       *)
PreflightStands(b) ==
    /\ bsBoot[b].pc = "row" =>
          /\ PreflightPasses(bsBoot[b].raw) /\ bsBoot[b].id = SeedOf(bsBoot[b].raw)
    /\ bsBoot[b].pc \in {"row", "refused"} => bsBoot[b].before = bsDisk
    /\ bsBoot[b].pc \in {"invite", "putInvite", "seed", "done"} =>
          bsRow # NoOperator /\ bsRow.id = bsBoot[b].id /\ bsRow.backend = bsBoot[b].backend

(* The invite is settled before the seed is written.                       *)
InviteSettled(b) ==
    /\ bsBoot[b].pc = "invite" =>
          /\ bsBoot[b].backend = "fedimint" => InviteAvailable(bsBoot[b].raw)
          /\ bsBoot[b].backend = "phoenixd" => bsBoot[b].raw.creds = TRUE
    /\ bsBoot[b].pc = "putInvite" =>
          /\ bsFile = NoInvite /\ bsBoot[b].raw.invite \in Invites
          /\ bsBoot[b].backend = "fedimint"
    /\ bsBoot[b].pc \in {"seed", "done"} /\ bsBoot[b].backend = "fedimint" =>
          bsFile \in Invites /\ bsBoot[b].raw.invite \in {NoInvite, bsFile}

(* The inductive invariant of the bootstrap.                               *)
BootInv ==
    /\ BootTypes /\ CameUpAsRow
    /\ \A b \in Boots : HoldsSeed(b) /\ PreflightStands(b) /\ InviteSettled(b)

(* The empty values are of their types.                                    *)
LEMMA Empties ==
    /\ NoOperator \in Rows /\ Unbooted \in Process
    /\ Unbooted.pc = "idle" /\ NoOperator.id = NoSeed
BY DEF NoOperator, Rows, Unbooted, Process, RawConfig

(* An empty directory has no operator.                                     *)
LEMMA BootInvInit == BootInit => BootInv
BY Empties DEF BootInit, BootInv, BootTypes, Files, CameUpAsRow, HoldsSeed, PreflightStands, InviteSettled

(* A process that goes idle leaves nothing to hold.                        *)
LEMMA Idles ==
    ASSUME BootInv, NEW b \in Boots, Boots = {b},
           bsBoot' = [bsBoot EXCEPT ![b] = Unbooted],
           UNCHANGED bsDisk, CameUpAsRow'
    PROVE  BootInv'
<1>1. bsBoot'[b].pc = "idle" /\ BootTypes'
  BY Empties DEF BootInv, BootTypes, bsDisk
<1> QED
  BY <1>1 DEF BootInv, HoldsSeed, PreflightStands, InviteSettled

(* Every step of a start, its crash and the operator's edit keep the       *)
(* invariant, if starts follow one another.                                *)
LEMMA BootInvStep ==
    ASSUME NEW b, Boots = {b}, BootInv, [BootNext]_bsVars
    PROVE  BootInv'
<1>0. BootTypes /\ CameUpAsRow /\ HoldsSeed(b) /\ PreflightStands(b) /\ InviteSettled(b)
  BY DEF BootInv
<1>p. b \in Boots /\ bsBoot[b] \in Process
  BY <1>0 DEF BootTypes
<1>f. /\ bsBoot[b].raw \in RawConfig /\ bsBoot[b].raw.invite \in Invites \cup {NoInvite}
      /\ bsBoot[b].raw.backend \in Backends \cup {"unset"} /\ bsBoot[b].raw.creds \in BOOLEAN
      /\ bsBoot[b].id \in Seeds \cup {NoSeed} /\ bsBoot[b].backend \in Backends \cup {"unset"}
      /\ bsBoot[b].raw.relays \in {"unset", "supplied"}
  BY <1>p DEF Process, RawConfig
<1>1. CASE StartBoot(b)
  <2>1. PICK raw \in RawConfig :
          bsBoot' = [bsBoot EXCEPT ![b] =
             [Unbooted EXCEPT !.pc = IF PreflightPasses(raw) THEN "row" ELSE "refused",
                              !.raw = raw, !.id = SeedOf(raw), !.before = bsDisk]]
    BY <1>1 DEF StartBoot
  <2>2. UNCHANGED <<bsRow, bsFile, bsSeed, bsCameUp>>
    BY <1>1 DEF StartBoot, bsDisk
  <2> DEFINE r == bsBoot'[b]
  <2>3. /\ r.pc = IF PreflightPasses(raw) THEN "row" ELSE "refused"
        /\ r.raw = raw /\ r.id = SeedOf(raw) /\ r.before = bsDisk
    BY <1>0, <1>p, <2>1 DEF BootTypes, Unbooted, Process
  <2>4. SeedOf(raw) \in Seeds \cup {NoSeed} /\ bsDisk \in Disks
    BY <1>0 DEF BootTypes, SeedOf, RawConfig, bsDisk, Disks
  <2>5. r \in Process
    <3>1. r = [pc |-> IF PreflightPasses(raw) THEN "row" ELSE "refused", raw |-> raw,
               id |-> SeedOf(raw), backend |-> "unset", before |-> bsDisk]
      BY <1>0, <1>p, <2>1 DEF BootTypes, Unbooted
    <3> QED
      BY <2>4, <3>1 DEF Process
  <2>6. bsBoot' \in [Boots -> Process]
    <3>1. bsBoot' = [bsBoot EXCEPT ![b] = r]
      BY <1>0, <1>p, <2>1 DEF BootTypes
    <3> HIDE DEF r
    <3> QED
      BY <1>0, <2>5, <3>1 DEF BootTypes
  <2>7. BootTypes' /\ CameUpAsRow'
    BY <1>0, <2>2, <2>6 DEF BootTypes, CameUpAsRow
  <2> HIDE DEF r
  <2>8. HoldsSeed(b)'
    <3>1. PreflightPasses(raw) => SeedOf(raw) \in Seeds /\ bsSeed \in {NoSeed, SeedOf(raw)}
      BY <1>0 DEF PreflightPasses, SeedAccepted, SeedOf, BootTypes, RawConfig
    <3> QED
      BY <2>2, <2>3, <3>1 DEF HoldsSeed, r
  <2>9. PreflightStands(b)'
    <3>1. (PreflightPasses(raw) <=> PreflightPasses(raw)') /\ SeedOf(raw) = SeedOf(raw)'
          /\ bsDisk = bsDisk'
      BY <2>2 DEF PreflightPasses, SeedOf, bsDisk, InviteAvailable, SeedAccepted, InheritedIsUsable
    <3> QED
      BY <2>3, <3>1 DEF PreflightStands, r
  <2>10. InviteSettled(b)'
    BY <2>3 DEF InviteSettled, r
  <2> QED
    BY <2>7, <2>8, <2>9, <2>10 DEF BootInv
<1>2. CASE PersistRow(b)
  <2> DEFINE raw == bsBoot[b].raw
             conflict == /\ bsRow # NoOperator
                         /\ \/ bsRow.id # bsBoot[b].id
                            \/ raw.backend \notin {"unset", bsRow.backend}
  <2>1. /\ bsBoot[b].pc = "row" /\ UNCHANGED <<bsFile, bsSeed, bsCameUp>>
        /\ \/ /\ conflict
              /\ bsBoot' = [bsBoot EXCEPT ![b].pc = "refused"] /\ UNCHANGED bsRow
           \/ /\ ~conflict
              /\ bsRow' = [id |-> bsBoot[b].id, backend |-> BackendOf(raw),
                           relays |-> IF raw.relays = "unset" THEN bsRow.relays ELSE raw.relays]
              /\ bsBoot' = [bsBoot EXCEPT ![b].pc = "invite", ![b].backend = BackendOf(raw)]
    BY <1>2 DEF PersistRow, BootAt, BootTo
  <2>2. /\ PreflightPasses(raw) /\ bsBoot[b].id = SeedOf(raw) /\ bsBoot[b].before = bsDisk
        /\ bsBoot[b].id \in Seeds /\ bsSeed \in {NoSeed, bsBoot[b].id}
    BY <1>0, <2>1 DEF PreflightStands, HoldsSeed
  <2>3. CASE conflict
    <3>1. bsBoot' = [bsBoot EXCEPT ![b].pc = "refused"] /\ UNCHANGED <<bsRow, bsFile, bsSeed, bsCameUp>>
      BY <2>1, <2>3
    <3>2. bsBoot'[b].pc = "refused" /\ bsBoot'[b].before = bsDisk /\ bsBoot' \in [Boots -> Process]
      BY <1>0, <1>p, <2>2, <3>1 DEF BootTypes, Process
    <3>3. BootTypes' /\ CameUpAsRow'
      BY <1>0, <3>1, <3>2 DEF BootTypes, CameUpAsRow
    <3>4. HoldsSeed(b)' /\ PreflightStands(b)' /\ InviteSettled(b)'
      BY <3>1, <3>2 DEF HoldsSeed, PreflightStands, InviteSettled, bsDisk
    <3> QED
      BY <3>3, <3>4 DEF BootInv
  <2>4. CASE ~conflict
    <3> DEFINE k == BackendOf(raw)
    <3>1. /\ bsRow' = [id |-> bsBoot[b].id, backend |-> k,
                       relays |-> IF raw.relays = "unset" THEN bsRow.relays ELSE raw.relays]
          /\ bsBoot' = [[bsBoot EXCEPT ![b].pc = "invite"] EXCEPT ![b].backend = k]
      BY <1>0, <1>p, <2>1, <2>4 DEF BootTypes
    <3>2. /\ k \in Backends
          /\ k = "fedimint" => InviteAvailable(raw)
          /\ k = "phoenixd" => raw.creds = TRUE
          /\ bsRow # NoOperator => bsRow.id = bsBoot[b].id /\ bsRow.backend = k
      <4>1. CASE bsRow = NoOperator
        BY <1>f, <2>2, <4>1 DEF BackendOf, Resolved, Backends, PreflightPasses
      <4>2. CASE bsRow # NoOperator /\ raw.backend = "unset"
        <5>1. bsRow.id = bsBoot[b].id
          BY <2>4, <4>2
        <5>2. InheritedIsUsable(raw)
          BY <2>2 DEF PreflightPasses
        <5>3. k = bsRow.backend /\ k \in Backends
          BY <1>0, <4>2 DEF BackendOf, BootTypes
        <5> QED
          BY <1>f, <2>2, <4>2, <5>1, <5>2, <5>3 DEF InheritedIsUsable
      <4>3. CASE bsRow # NoOperator /\ raw.backend # "unset"
        BY <1>f, <2>2, <2>4, <4>3 DEF BackendOf, Resolved, Backends, PreflightPasses
      <4> QED
        BY <4>1, <4>2, <4>3
    <3>k. bsRow.relays \in {"unset", "supplied"}
      BY <1>0 DEF BootTypes, Rows
    <3> HIDE DEF k
    <3>3. /\ bsRow' \in Rows /\ bsRow'.id = bsBoot[b].id /\ bsRow'.backend = k
          /\ bsRow' # NoOperator
      BY <1>f, <2>2, <3>1, <3>2, <3>k, Empties, BootstrapAssumption DEF Rows
    <3>4. /\ bsBoot' \in [Boots -> Process] /\ bsBoot'[b].pc = "invite" /\ bsBoot'[b].backend = k
          /\ bsBoot'[b].raw = raw /\ bsBoot'[b].id = bsBoot[b].id
      BY <1>0, <1>p, <3>1, <3>2 DEF BootTypes, Process
    <3>5. UNCHANGED <<bsFile, bsSeed, bsCameUp>>
      BY <2>1
    <3>6. BootTypes'
      BY <1>0, <2>2, <3>2, <3>3, <3>4, <3>5 DEF BootTypes
    <3>7. CameUpAsRow'
      BY <1>0, <3>2, <3>3, <3>5 DEF CameUpAsRow
    <3>8. HoldsSeed(b)' /\ PreflightStands(b)'
      BY <2>2, <3>3, <3>4, <3>5 DEF HoldsSeed, PreflightStands
    <3>9. InviteSettled(b)'
      BY <3>2, <3>4, <3>5 DEF InviteSettled, InviteAvailable
    <3> QED
      BY <3>6, <3>7, <3>8, <3>9 DEF BootInv
  <2> QED
    BY <2>3, <2>4
<1>3. CASE ReadInvite(b)
  <2> DEFINE raw == bsBoot[b].raw
             next == CASE bsBoot[b].backend = "mock" -> "seed"
                       [] bsBoot[b].backend = "phoenixd" ->
                            IF raw.creds THEN "seed" ELSE "refused"
                       [] bsBoot[b].backend = "fedimint" ->
                            IF ~InviteAvailable(raw) THEN "refused"
                            ELSE IF bsFile = NoInvite THEN "putInvite" ELSE "seed"
  <2>1. /\ bsBoot[b].pc = "invite" /\ UNCHANGED <<bsRow, bsFile, bsSeed, bsCameUp>>
        /\ bsBoot' = [bsBoot EXCEPT ![b].pc = next]
    BY <1>3 DEF ReadInvite, BootAt, BootTo, bsDisk
  <2>2. /\ bsBoot[b].backend = "fedimint" => InviteAvailable(raw)
        /\ bsBoot[b].backend = "phoenixd" => raw.creds = TRUE
        /\ bsRow # NoOperator /\ bsRow.id = bsBoot[b].id /\ bsRow.backend = bsBoot[b].backend
        /\ bsBoot[b].id \in Seeds /\ bsSeed \in {NoSeed, bsBoot[b].id}
    BY <1>0, <2>1 DEF InviteSettled, PreflightStands, HoldsSeed
  <2>3. bsBoot[b].backend \in {"mock", "fedimint", "phoenixd"}
    BY <1>0, <2>2 DEF BootTypes, Backends
  <2>4. \/ next = "seed" /\ bsBoot[b].backend # "fedimint"
        \/ /\ next = "putInvite" /\ bsBoot[b].backend = "fedimint" /\ bsFile = NoInvite
           /\ raw.invite \in Invites
        \/ /\ next = "seed" /\ bsBoot[b].backend = "fedimint" /\ bsFile \in Invites
           /\ raw.invite \in {NoInvite, bsFile}
    <3>1. CASE bsBoot[b].backend = "mock"
      BY <3>1
    <3>2. CASE bsBoot[b].backend = "phoenixd"
      BY <2>2, <3>2
    <3>3. CASE bsBoot[b].backend = "fedimint"
      <4>1. InviteAvailable(raw)
        BY <2>2, <3>3
      <4>2. next = IF bsFile = NoInvite THEN "putInvite" ELSE "seed"
        BY <3>3, <4>1
      <4> QED
        BY <1>f, <3>3, <4>1, <4>2, BootstrapAssumption DEF InviteAvailable
    <3> QED
      BY <2>3, <3>1, <3>2, <3>3
  <2> HIDE DEF next
  <2>5. /\ bsBoot' \in [Boots -> Process] /\ bsBoot'[b].pc = next
        /\ bsBoot'[b].raw = raw /\ bsBoot'[b].id = bsBoot[b].id
        /\ bsBoot'[b].backend = bsBoot[b].backend
    BY <1>0, <1>p, <2>1, <2>4 DEF BootTypes, Process
  <2>6. BootTypes' /\ CameUpAsRow'
    BY <1>0, <2>1, <2>5 DEF BootTypes, CameUpAsRow
  <2>7. HoldsSeed(b)' /\ PreflightStands(b)'
    BY <2>1, <2>2, <2>4, <2>5 DEF HoldsSeed, PreflightStands
  <2>8. InviteSettled(b)'
    BY <2>1, <2>4, <2>5 DEF InviteSettled
  <2> QED
    BY <2>6, <2>7, <2>8 DEF BootInv
<1>4. CASE PutInvite(b)
  <2>1. /\ bsBoot[b].pc = "putInvite" /\ bsFile' = bsBoot[b].raw.invite
        /\ bsBoot' = [bsBoot EXCEPT ![b].pc = "seed"] /\ UNCHANGED <<bsRow, bsSeed, bsCameUp>>
    BY <1>4 DEF PutInvite, BootAt, BootTo
  <2>2. /\ bsFile = NoInvite /\ bsBoot[b].raw.invite \in Invites
        /\ bsBoot[b].backend = "fedimint"
        /\ bsRow # NoOperator /\ bsRow.id = bsBoot[b].id /\ bsRow.backend = bsBoot[b].backend
        /\ bsBoot[b].id \in Seeds /\ bsSeed \in {NoSeed, bsBoot[b].id}
    BY <1>0, <2>1 DEF InviteSettled, PreflightStands, HoldsSeed
  <2>3. /\ bsBoot' \in [Boots -> Process] /\ bsBoot'[b].pc = "seed"
        /\ bsBoot'[b].raw = bsBoot[b].raw /\ bsBoot'[b].id = bsBoot[b].id
        /\ bsBoot'[b].backend = bsBoot[b].backend
    BY <1>0, <1>p, <2>1 DEF BootTypes, Process
  <2>4. BootTypes'
    BY <1>0, <2>1, <2>2, <2>3 DEF BootTypes, Files
  <2>5. bsCameUp = {}
    BY <1>0, <2>2, BootstrapAssumption DEF CameUpAsRow
  <2>6. CameUpAsRow'
    BY <2>1, <2>5 DEF CameUpAsRow
  <2>7. HoldsSeed(b)' /\ PreflightStands(b)' /\ InviteSettled(b)'
    BY <2>1, <2>2, <2>3 DEF HoldsSeed, PreflightStands, InviteSettled
  <2> QED
    BY <2>4, <2>6, <2>7 DEF BootInv
<1>5. CASE PutSeed(b)
  <2>1. bsBoot[b].pc = "seed" /\ UNCHANGED <<bsRow, bsFile, bsCameUp>>
    BY <1>5 DEF PutSeed, BootAt
  <2>2. /\ bsRow # NoOperator /\ bsRow.id = bsBoot[b].id /\ bsRow.backend = bsBoot[b].backend
        /\ bsBoot[b].id \in Seeds /\ bsSeed \in {NoSeed, bsBoot[b].id}
        /\ bsBoot[b].backend = "fedimint" =>
              bsFile \in Invites /\ bsBoot[b].raw.invite \in {NoInvite, bsFile}
    BY <1>0, <2>1 DEF InviteSettled, PreflightStands, HoldsSeed
  <2>3. bsSeed' = bsBoot[b].id /\ bsBoot' = [bsBoot EXCEPT ![b].pc = "done"]
    BY <1>5, <2>2 DEF PutSeed, BootTo
  <2>4. /\ bsBoot' \in [Boots -> Process] /\ bsBoot'[b].pc = "done"
        /\ bsBoot'[b].raw = bsBoot[b].raw /\ bsBoot'[b].id = bsBoot[b].id
        /\ bsBoot'[b].backend = bsBoot[b].backend
    BY <1>0, <1>p, <2>3 DEF BootTypes, Process
  <2>5. BootTypes' /\ CameUpAsRow'
    BY <1>0, <2>1, <2>2, <2>3, <2>4 DEF BootTypes, CameUpAsRow
  <2>6. HoldsSeed(b)' /\ PreflightStands(b)' /\ InviteSettled(b)'
    BY <2>1, <2>2, <2>3, <2>4 DEF HoldsSeed, PreflightStands, InviteSettled
  <2> QED
    BY <2>5, <2>6 DEF BootInv
<1>6. CASE ComeUp(b)
  <2> DEFINE i == IF bsBoot[b].backend # "fedimint" THEN NoInvite
                  ELSE IF bsBoot[b].raw.invite # NoInvite THEN bsBoot[b].raw.invite ELSE bsFile
             u == [id |-> bsBoot[b].id, backend |-> bsBoot[b].backend, invite |-> i]
  <2>1. /\ bsBoot[b].pc = "done" /\ UNCHANGED bsDisk
        /\ bsCameUp' = bsCameUp \cup {u}
        /\ bsBoot' = [bsBoot EXCEPT ![b] = Unbooted]
    BY <1>6 DEF ComeUp, BootAt
  <2>2. /\ bsRow # NoOperator /\ bsRow.id = bsBoot[b].id /\ bsRow.backend = bsBoot[b].backend
        /\ bsBoot[b].backend = "fedimint" =>
              bsFile \in Invites /\ bsBoot[b].raw.invite \in {NoInvite, bsFile}
    BY <1>0, <2>1 DEF InviteSettled, PreflightStands
  <2>3. /\ bsBoot[b].backend # "fedimint" => i = NoInvite
        /\ bsBoot[b].backend = "fedimint" => i \in Invites /\ bsFile = i
    BY <2>2
  <2> HIDE DEF i
  <2>4. CameUpAsRow'
    BY <1>0, <2>1, <2>2, <2>3, BootstrapAssumption DEF CameUpAsRow, bsDisk
  <2> QED
    BY <1>p, <2>1, <2>4, Idles
<1>7. CASE BootExits(b) \/ BootCrash(b)
  <2>1. /\ bsBoot' = [bsBoot EXCEPT ![b] = Unbooted]
        /\ UNCHANGED bsDisk /\ UNCHANGED bsCameUp
    BY <1>7 DEF BootExits, BootCrash
  <2>2. CameUpAsRow'
    BY <1>0, <2>1 DEF CameUpAsRow, bsDisk
  <2> QED
    BY <1>p, <2>1, <2>2, Idles
<1>8. CASE SpoilInvite
  <2>1. /\ bsBoot[b].pc = "idle" /\ bsFile \in Invites /\ bsFile' = Corrupt
        /\ UNCHANGED <<bsRow, bsSeed, bsBoot, bsCameUp>>
    BY <1>8, <1>p DEF SpoilInvite, BootAt
  <2>2. BootTypes' /\ CameUpAsRow'
    BY <1>0, <2>1 DEF BootTypes, CameUpAsRow, Files
  <2>3. HoldsSeed(b)' /\ PreflightStands(b)' /\ InviteSettled(b)'
    BY <2>1 DEF HoldsSeed, PreflightStands, InviteSettled
  <2> QED
    BY <2>2, <2>3 DEF BootInv
<1>9. CASE UNCHANGED bsVars
  <2>1. UNCHANGED <<bsRow, bsFile, bsSeed, bsBoot, bsCameUp>>
    BY <1>9 DEF bsVars, bsDisk
  <2>2. BootTypes' /\ CameUpAsRow'
    BY <1>0, <2>1 DEF BootTypes, CameUpAsRow
  <2>3. HoldsSeed(b)' /\ PreflightStands(b)' /\ InviteSettled(b)'
    BY <1>0, <2>1 DEF HoldsSeed, PreflightStands, InviteSettled, PreflightPasses, SeedOf, bsDisk,
       InviteAvailable, SeedAccepted, InheritedIsUsable
  <2> QED
    BY <2>2, <2>3 DEF BootInv
<1> QED
  BY <1>1, <1>2, <1>3, <1>4, <1>5, <1>6, <1>7, <1>8, <1>9 DEF BootNext

(* The invariant says that there is one operator and a refused start is    *)
(* clean.                                                                  *)
LEMMA BootInvHolds == BootInv => OneOperator /\ RefusedIsClean
<1> SUFFICES ASSUME BootInv PROVE OneOperator /\ RefusedIsClean
  OBVIOUS
<1>1. RefusedIsClean
  BY DEF BootInv, PreflightStands, RefusedIsClean, BootAt
<1>2. OneOperator
  <2> SUFFICES ASSUME NEW u \in bsCameUp, NEW v \in bsCameUp PROVE u = v
    BY DEF OneOperator
  <2>1. u.id = v.id /\ u.backend = v.backend /\ u.invite = v.invite
    BY BootstrapAssumption DEF BootInv, CameUpAsRow
  <2> QED
    BY <2>1 DEF BootInv, CameUpAsRow
<1> QED
  BY <1>1, <1>2

-----------------------------------------------------------------------------
(* Configuration sources.                                                  *)

(* What a place says: a value that is neither absent nor blank.            *)
Says(v) == IF csKind = "fees" THEN v # {} ELSE NonBlank(v) # Unset

(* What a field at one place may hold, the value there, and no field set.  *)
Values == IF csKind = "fees" THEN SUBSET FeeParts
          ELSE {Unset, Blank, "set", "yes", "no", "garbage"}
ValueAt(i) == IF Places[i][2] = "flat" THEN csGiven[Places[i][1]].flat
              ELSE csGiven[Places[i][1]].block
NothingSet == [p \in FeeParts |-> [from |-> Nowhere, is |-> Unset]]

(* The places read once the next source is the n-th, and the flat place of *)
(* the n-th source.                                                        *)
PlacesRead == <<0, 1, 2, 4, 6>>
FlatPlace == <<1, 2, 3, 5>>

(* The merged value is the one of the strongest place read that says       *)
(* anything, whole; if none does it is absent.                             *)
StrongestOf(k) ==
    \/ csMerged = NothingSet /\ \A i \in 1..k : ~Stated(i)
    \/ \E i \in 1..k :
          /\ Stated(i) /\ \A j \in 1..(i - 1) : ~Stated(j)
          /\ csMerged = AsParts(Places[i], ValueAt(i))

(* The inductive invariant of the configuration sources.                   *)
ConfigInv ==
    /\ csKind \in Kinds /\ csNext \in 1..5
    /\ DOMAIN csGiven = {"flags", "env", "file", "stdin"}
    /\ \A i \in 1..6 : ValueAt(i) \in Values
    /\ csOutcome # "refused" => StrongestOf(PlacesRead[csNext])
    /\ csOutcome = "ready" => OnePlaceDecides

(* A start reads nothing first.                                            *)
LEMMA ConfigInvInit == ConfigInit => ConfigInv
<1> SUFFICES ASSUME ConfigInit PROVE ConfigInv
  OBVIOUS
<1>1. /\ csKind \in Kinds /\ csNext = 1 /\ csMerged = NothingSet /\ csOutcome = "reading"
      /\ csGiven = [l \in {"flags", "env", "file", "stdin"} |->
                      [flat |-> NoValue, block |-> NoValue]]
  BY DEF ConfigInit, NothingSet
<1>2. \A i \in 1..6 : Places[i][1] \in {"flags", "env", "file", "stdin"}
  BY DEF Places
<1>3. NoValue \in Values
  BY DEF NoValue, Values, Unset
<1>4. \A i \in 1..6 : ValueAt(i) = NoValue
  BY <1>1, <1>2 DEF ValueAt
<1>5. StrongestOf(PlacesRead[csNext])
  BY <1>1 DEF StrongestOf, PlacesRead
<1> QED
  BY <1>1, <1>3, <1>4, <1>5 DEF ConfigInv

(* A place is mentioned exactly when it says something, and contributes    *)
(* nothing when it does not.                                               *)
LEMMA SaidIsMentioned ==
    ASSUME csKind \in Kinds, NEW place, NEW v \in Values
    PROVE  /\ Mentions(AsParts(place, v)) <=> Says(v)
           /\ ~Says(v) => AsParts(place, v) = NothingSet
<1>1. CASE csKind = "fees"
  <2>1. AsParts(place, v) = [p \in FeeParts |-> [from |-> IF p \in v THEN place ELSE Nowhere,
                                                is |-> IF p \in v THEN "set" ELSE Unset]]
    BY <1>1 DEF AsParts
  <2>2. v \subseteq FeeParts
    BY <1>1 DEF Values
  <2>3. \A p \in FeeParts : AsParts(place, v)[p].is # Unset <=> p \in v
    BY <2>1 DEF Unset
  <2>4. Mentions(AsParts(place, v)) <=> Says(v)
    BY <1>1, <2>2, <2>3 DEF Mentions, Says
  <2>5. ~Says(v) => AsParts(place, v) = NothingSet
    BY <1>1, <2>1 DEF Says, NothingSet
  <2> QED
    BY <2>4, <2>5
<1>2. CASE csKind # "fees"
  <2>1. AsParts(place, v) = [p \in FeeParts |->
                               [from |-> IF NonBlank(v) = Unset THEN Nowhere ELSE place,
                                is |-> NonBlank(v)]]
    BY <1>2 DEF AsParts
  <2>2. \A p \in FeeParts : AsParts(place, v)[p].is = NonBlank(v)
    BY <2>1
  <2>3. Mentions(AsParts(place, v)) <=> Says(v)
    BY <1>2, <2>2 DEF Mentions, Says, FeeParts
  <2>4. ~Says(v) => AsParts(place, v) = NothingSet
    BY <1>2, <2>1 DEF Says, NothingSet
  <2> QED
    BY <2>3, <2>4
<1> QED
  BY <1>1, <1>2

(* What is stated at a place is what the value there says.                 *)
LEMMA StatedSays == \A i \in 1..6 : Stated(i) <=> Says(ValueAt(i))
BY DEF Stated, Says, ValueAt

(* The places of the n-th source follow those of the sources before it.    *)
LEMMA PlacesInOrder ==
    ASSUME NEW n \in 1..4
    PROVE  /\ PlacesRead[n] = FlatPlace[n] - 1 /\ FlatPlace[n] \in 1..6
           /\ PlacesRead[n] \in 0..6 /\ PlacesRead[n + 1] \in 0..6
           /\ Places[FlatPlace[n]] = <<Layers[n], "flat">>
           /\ \A i \in 1..PlacesRead[n] : Places[i][1] # Layers[n]
           /\ \/ /\ Layers[n] \in Documents
                 /\ PlacesRead[n + 1] = FlatPlace[n] + 1
                 /\ Places[FlatPlace[n] + 1] = <<Layers[n], "block">>
              \/ Layers[n] \notin Documents /\ PlacesRead[n + 1] = FlatPlace[n]
           /\ Layers[n] \in {"flags", "env", "file", "stdin"}
<1>1. CASE n = 1
  BY <1>1 DEF PlacesRead, FlatPlace, Places, Layers, Documents
<1>2. CASE n = 2
  BY <1>2 DEF PlacesRead, FlatPlace, Places, Layers, Documents
<1>3. CASE n = 3
  BY <1>3 DEF PlacesRead, FlatPlace, Places, Layers, Documents
<1>4. CASE n = 4
  BY <1>4 DEF PlacesRead, FlatPlace, Places, Layers, Documents
<1> QED
  BY <1>1, <1>2, <1>3, <1>4

(* What a source may say is a value of the field.                          *)
LEMMA SaidIsAValue ==
    ASSUME csKind \in Kinds, NEW l
    PROVE  Said(l) \subseteq Values /\ SaidInBlock(l) \subseteq Values
BY DEF Kinds, Said, SaidInBlock, Values, NoValue, Unset, Blank

(* The strongest value stands while sources and merge do.                  *)
LEMMA StrongestStays ==
    ASSUME UNCHANGED <<csKind, csGiven, csMerged>>, NEW k \in 0..6, StrongestOf(k)
    PROVE  StrongestOf(k)'
<1>1. \A i \in 1..6 : (Stated(i)' <=> Stated(i)) /\ ValueAt(i)' = ValueAt(i)
  BY DEF Stated, ValueAt
<1>2. \A place, v : AsParts(place, v)' = AsParts(place, v)
  BY DEF AsParts
<1>3. CASE csMerged = NothingSet /\ \A i \in 1..k : ~Stated(i)
  <2>1. \A i \in 1..k : i \in 1..6
    OBVIOUS
  <2> QED
    BY <1>1, <1>3, <2>1 DEF StrongestOf, NothingSet
<1>4. ASSUME NEW i \in 1..k, Stated(i), \A j \in 1..(i - 1) : ~Stated(j),
             csMerged = AsParts(Places[i], ValueAt(i))
      PROVE  StrongestOf(k)'
  <2>1. i \in 1..6 /\ \A j \in 1..(i - 1) : j \in 1..6
    BY <1>4
  <2>2. Stated(i)' /\ \A j \in 1..(i - 1) : ~Stated(j)'
    BY <1>1, <1>4, <2>1
  <2>3. csMerged' = AsParts(Places[i], ValueAt(i))'
    BY <1>1, <1>2, <1>4, <2>1
  <2> QED
    BY <2>2, <2>3 DEF StrongestOf
<1> QED
  BY <1>3, <1>4 DEF StrongestOf

(* Reading a source keeps the strongest value: what was merged stays, and  *)
(* otherwise the source's flat field counts before its block.              *)
LEMMA ReadKeepsStrongest ==
    ASSUME ConfigInv, ReadSource PROVE ConfigInv'
<1>n. PICK n \in 1..4 : n = csNext
  <2>1. Len(Layers) = 4
    BY DEF Layers
  <2> QED
    BY <2>1 DEF ConfigInv, ReadSource
<1> DEFINE l == Layers[n]
<1>0. /\ csKind \in Kinds /\ csKind' = csKind /\ csNext = n /\ csNext' = n + 1
      /\ csOutcome = "reading" /\ csOutcome' \in {"reading", "refused"}
      /\ DOMAIN csGiven = {"flags", "env", "file", "stdin"}
      /\ \A i \in 1..6 : ValueAt(i) \in Values
      /\ StrongestOf(PlacesRead[n])
  BY <1>n DEF ConfigInv, ReadSource
<1>1. PICK flat \in Said(l), block \in SaidInBlock(l) :
        LET garbage == csKind = "optIn" /\ flat = "garbage" IN
        /\ csGiven' = [csGiven EXCEPT ![l] = [flat |-> flat, block |-> block]]
        /\ csMerged' = IF garbage THEN csMerged ELSE Overlay(csMerged, Sanitized(l, csGiven'[l]))
        /\ csOutcome' = IF garbage THEN "refused" ELSE "reading"
  BY <1>n DEF ReadSource
<1>p. /\ PlacesRead[n] = FlatPlace[n] - 1 /\ FlatPlace[n] \in 1..6
      /\ PlacesRead[n] \in 0..6 /\ PlacesRead[n + 1] \in 0..6
      /\ Places[FlatPlace[n]] = <<l, "flat">>
      /\ \A i \in 1..PlacesRead[n] : Places[i][1] # l
      /\ \/ /\ l \in Documents
            /\ PlacesRead[n + 1] = FlatPlace[n] + 1
            /\ Places[FlatPlace[n] + 1] = <<l, "block">>
         \/ l \notin Documents /\ PlacesRead[n + 1] = FlatPlace[n]
      /\ l \in {"flags", "env", "file", "stdin"}
  BY <1>0, PlacesInOrder
<1>2. /\ DOMAIN csGiven' = {"flags", "env", "file", "stdin"}
      /\ csGiven'[l].flat = flat /\ csGiven'[l].block = block
      /\ \A m \in {"flags", "env", "file", "stdin"} \ {l} : csGiven'[m] = csGiven[m]
  BY <1>0, <1>1, <1>p
<1>3. flat \in Values /\ block \in Values
  BY <1>0, <1>1, <1>2, SaidIsAValue
<1>v. Values' = Values /\ \A i \in 1..6 : Stated(i)' <=> Says(ValueAt(i)')
  BY <1>0, StatedSays DEF Values, Stated, Says, ValueAt
<1>4. \A i \in 1..6 : Places[i][1] \in {"flags", "env", "file", "stdin"}
  BY DEF Places
<1>5. /\ ValueAt(FlatPlace[n])' = flat
      /\ \A i \in 1..6 : Places[i][1] # l => ValueAt(i)' = ValueAt(i)
      /\ \A i \in 1..6 : ValueAt(i)' \in {flat, block, ValueAt(i)}
      /\ l \in Documents => ValueAt(FlatPlace[n] + 1)' = block
  <2>1. \A i \in 1..6 : ValueAt(i)' = IF Places[i][2] = "flat" THEN csGiven'[Places[i][1]].flat
                                                            ELSE csGiven'[Places[i][1]].block
    BY DEF ValueAt
  <2>2. \A i \in 1..6 : Places[i][1] # l => csGiven'[Places[i][1]] = csGiven[Places[i][1]]
    BY <1>2, <1>4
  <2>3. \A i \in 1..6 : Places[i][1] # l => ValueAt(i)' = ValueAt(i)
    BY <2>1, <2>2 DEF ValueAt
  <2>4. \A i \in 1..6 : Places[i][1] = l => ValueAt(i)' \in {flat, block}
    BY <1>2, <2>1
  <2>5. ValueAt(FlatPlace[n])' = flat
    <3>1. Places[FlatPlace[n]][1] = l /\ Places[FlatPlace[n]][2] = "flat"
      BY <1>p
    <3> QED
      BY <1>p, <1>2, <2>1, <3>1
  <2>6. l \in Documents => ValueAt(FlatPlace[n] + 1)' = block
    <3> SUFFICES ASSUME l \in Documents PROVE ValueAt(FlatPlace[n] + 1)' = block
      OBVIOUS
    <3>1. /\ FlatPlace[n] + 1 \in 1..6
          /\ Places[FlatPlace[n] + 1][1] = l /\ Places[FlatPlace[n] + 1][2] = "block"
      BY <1>p
    <3>2. Places[FlatPlace[n] + 1][2] # "flat"
      BY <3>1
    <3> QED
      BY <1>2, <2>1, <3>1, <3>2
  <2> QED
    BY <2>3, <2>4, <2>5, <2>6
<1>6. \A i \in 1..6 : ValueAt(i)' \in Values'
  BY <1>0, <1>3, <1>5, <1>v
<1>7. CASE csOutcome' = "refused"
  BY <1>0, <1>2, <1>6, <1>7 DEF ConfigInv
<1>8. CASE csOutcome' # "refused"
  <2>1. csMerged' = IF Mentions(csMerged) THEN csMerged
                    ELSE IF Says(flat) THEN AsParts(<<l, "flat">>, flat)
                    ELSE AsParts(<<l, "block">>, block)
    <3>1. csMerged' = Overlay(csMerged, Sanitized(l, csGiven'[l]))
      BY <1>1, <1>8
    <3>2. Mentions(AsParts(<<l, "flat">>, flat)) <=> Says(flat)
      BY <1>0, <1>3, SaidIsMentioned
    <3> QED
      BY <1>2, <3>1, <3>2 DEF Overlay, Sanitized
  <2>a. \A place, v : AsParts(place, v)' = AsParts(place, v)
    BY <1>0 DEF AsParts
  <2>2. StrongestOf(PlacesRead[n + 1])'
    <3>1. CASE csMerged # NothingSet
      <4>1. PICK i \in 1..PlacesRead[n] :
              /\ Stated(i) /\ \A j \in 1..(i - 1) : ~Stated(j)
              /\ csMerged = AsParts(Places[i], ValueAt(i))
        BY <1>0, <3>1 DEF StrongestOf
      <4>2. i \in 1..6 /\ Mentions(csMerged)
        BY <1>0, <1>p, <4>1, StatedSays, SaidIsMentioned
      <4>3. \A j \in 1..i : j \in 1..6 /\ j \in 1..PlacesRead[n] /\ ValueAt(j)' = ValueAt(j)
        BY <1>p, <1>5, <4>1
      <4>4. \A j \in 1..i : Stated(j)' <=> Stated(j)
        BY <1>v, <4>3, StatedSays
      <4>5. i \in 1..PlacesRead[n + 1] /\ i \in 1..i /\ \A j \in 1..(i - 1) : j \in 1..i
        BY <1>p, <4>1
      <4>6. csMerged' = AsParts(Places[i], ValueAt(i))'
        BY <2>1, <2>a, <4>1, <4>2, <4>3, <4>5 DEF Places
      <4> QED
        BY <4>1, <4>4, <4>5, <4>6 DEF StrongestOf
    <3>2. CASE csMerged = NothingSet
      <4>1. ~Mentions(csMerged)
        BY <3>2 DEF Mentions, NothingSet
      <4>2. \A j \in 1..PlacesRead[n] : ~Stated(j)
        <5>1. CASE \A i \in 1..PlacesRead[n] : ~Stated(i)
          BY <5>1
        <5>2. ASSUME NEW i \in 1..PlacesRead[n], Stated(i),
                     csMerged = AsParts(Places[i], ValueAt(i))
              PROVE  FALSE
          BY <1>0, <1>p, <4>1, <5>2, StatedSays, SaidIsMentioned
        <5> QED
          BY <1>0, <5>1, <5>2 DEF StrongestOf
      <4>3. \A j \in 1..PlacesRead[n] : ~Stated(j)'
        <5>1. \A j \in 1..PlacesRead[n] : j \in 1..6 /\ ValueAt(j)' = ValueAt(j)
          BY <1>p, <1>5
        <5> QED
          BY <1>v, <4>2, <5>1, StatedSays
      <4>4. CASE Says(flat)
        <5>1. /\ FlatPlace[n] \in 1..PlacesRead[n + 1]
              /\ \A j \in 1..(FlatPlace[n] - 1) : j \in 1..PlacesRead[n]
          BY <1>p
        <5>2. Stated(FlatPlace[n])'
          BY <1>p, <1>v, <1>5, <4>4
        <5>3. csMerged' = AsParts(Places[FlatPlace[n]], ValueAt(FlatPlace[n]))'
          BY <1>p, <1>5, <2>1, <2>a, <4>1, <4>4 DEF Places
        <5> QED
          BY <4>3, <5>1, <5>2, <5>3 DEF StrongestOf
      <4>5. CASE ~Says(flat) /\ Says(block) /\ l \in Documents
        <5>0. PICK i \in 1..6 : i = FlatPlace[n] + 1
          BY <1>p, <4>5
        <5>1. /\ i \in 1..PlacesRead[n + 1] /\ ValueAt(i)' = block
              /\ \A j \in 1..(i - 1) : j \in 1..PlacesRead[n] \/ j = FlatPlace[n]
              /\ Places[i] = <<l, "block">>
          BY <1>p, <1>5, <4>5, <5>0
        <5>2. Stated(i)' /\ ~Stated(FlatPlace[n])'
          BY <1>p, <1>v, <1>5, <4>5, <5>1
        <5>3. csMerged' = AsParts(Places[i], ValueAt(i))'
          BY <2>1, <2>a, <4>1, <4>5, <5>1 DEF Places
        <5>4. \A j \in 1..(i - 1) : ~Stated(j)'
          BY <4>3, <5>1, <5>2
        <5> QED
          BY <5>1, <5>2, <5>3, <5>4 DEF StrongestOf
      <4>6. CASE ~Says(flat) /\ (Says(block) => l \notin Documents)
        <5>1. ~Says(block)
          BY <1>1, <1>2, <4>6 DEF SaidInBlock, NoValue, Says, NonBlank, Blank, Unset
        <5>2. csMerged' = NothingSet
          BY <1>0, <1>3, <2>1, <4>1, <4>6, <5>1, SaidIsMentioned
        <5>3. \A j \in 1..PlacesRead[n + 1] : ~Stated(j)'
          <6>1. \A j \in 1..PlacesRead[n + 1] :
                  \/ j \in 1..PlacesRead[n] \/ j = FlatPlace[n]
                  \/ l \in Documents /\ j = FlatPlace[n] + 1 /\ j \in 1..6
            BY <1>p
          <6>2. ~Stated(FlatPlace[n])'
            BY <1>p, <1>v, <1>5, <4>6
          <6>3. l \in Documents /\ FlatPlace[n] + 1 \in 1..6 => ~Stated(FlatPlace[n] + 1)'
            BY <1>p, <1>v, <1>5, <5>1
          <6> QED
            BY <4>3, <6>1, <6>2, <6>3
        <5> QED
          BY <5>2, <5>3 DEF StrongestOf, NothingSet
      <4> QED
        BY <4>4, <4>5, <4>6
    <3> QED
      BY <3>1, <3>2
  <2> QED
    BY <1>0, <1>2, <1>6, <2>2 DEF ConfigInv
<1> QED
  BY <1>7, <1>8

(* A start goes on with what one place says: a text and an opt-in are      *)
(* there, and a schedule that is not whole is refused.                     *)
LEMMA ResolveTakesOnePlace ==
    ASSUME ConfigInv, Resolve PROVE ConfigInv'
<1>0. /\ csKind \in Kinds /\ csNext = 5 /\ csOutcome = "reading"
      /\ UNCHANGED <<csKind, csGiven, csNext, csMerged>>
      /\ \A i \in 1..6 : ValueAt(i) \in Values
      /\ csOutcome' \in {"ready", "refused"}
      /\ StrongestOf(6)
  <2>1. Len(Layers) = 4 /\ PlacesRead[5] = 6
    BY DEF Layers, PlacesRead
  <2> QED
    BY <2>1 DEF ConfigInv, Resolve
<1>d. DOMAIN Places = 1..6
  BY DEF Places
<1>1. ASSUME csOutcome' = "ready", NEW p \in FeeParts
      PROVE  \/ csMerged[p].from = Nowhere /\ \A i \in 1..6 : ~Stated(i)
             \/ \E i \in 1..6 :
                  /\ Stated(i) /\ csMerged[p].from = Places[i]
                  /\ \A j \in 1..(i - 1) : ~Stated(j)
  <2>1. CASE csMerged = NothingSet /\ \A i \in 1..6 : ~Stated(i)
    BY <2>1 DEF NothingSet
  <2>2. CASE \E i \in 1..6 :
          /\ Stated(i) /\ \A j \in 1..(i - 1) : ~Stated(j)
          /\ csMerged = AsParts(Places[i], ValueAt(i))
    <3>1. PICK i \in 1..6 :
            /\ Stated(i) /\ \A j \in 1..(i - 1) : ~Stated(j)
            /\ csMerged = AsParts(Places[i], ValueAt(i))
      BY <2>2
    <3>2. Says(ValueAt(i)) /\ ValueAt(i) \in Values /\ Mentions(csMerged)
      BY <1>0, <3>1, StatedSays, SaidIsMentioned
    <3>3. csMerged[p].from = Places[i]
      <4>1. CASE csKind = "fees"
        <5>1. WholeSchedule(csMerged)
          BY <1>0, <1>1, <4>1 DEF Resolve
        <5>2. csMerged[p].is # Unset
          BY <3>2, <5>1 DEF WholeSchedule, Mentions
        <5>3. csMerged = [q \in FeeParts |->
                 [from |-> IF q \in ValueAt(i) THEN Places[i] ELSE Nowhere,
                  is |-> IF q \in ValueAt(i) THEN "set" ELSE Unset]]
          BY <3>1, <4>1 DEF AsParts
        <5> QED
          BY <5>2, <5>3
      <4>2. CASE csKind # "fees"
        <5>1. csMerged = [q \in FeeParts |->
                 [from |-> IF NonBlank(ValueAt(i)) = Unset THEN Nowhere ELSE Places[i],
                  is |-> NonBlank(ValueAt(i))]]
          BY <3>1, <4>2 DEF AsParts
        <5> QED
          BY <3>2, <4>2, <5>1 DEF Says
      <4> QED
        BY <4>1, <4>2
    <3> QED
      BY <3>1, <3>3
  <2> QED
    BY <1>0, <2>1, <2>2 DEF StrongestOf
<1>2. StrongestOf(6)'
  BY <1>0, StrongestStays
<1>3. csOutcome' = "ready" => OnePlaceDecides'
  <2>1. \A i \in 1..6 : Stated(i)' <=> Stated(i)
    BY <1>0 DEF Stated
  <2> QED
    <3>1. \A i \in DOMAIN Places : (Stated(i)' <=> Stated(i))
              /\ \A j \in 1..(i - 1) : j \in 1..6 /\ (Stated(j)' <=> Stated(j))
      BY <1>d, <2>1
    <3> SUFFICES ASSUME csOutcome' = "ready", NEW p \in FeeParts
                 PROVE  \/ csMerged'[p].from = Nowhere /\ \A i \in DOMAIN Places : ~Stated(i)'
                        \/ \E i \in DOMAIN Places :
                             /\ Stated(i)' /\ csMerged'[p].from = Places[i]
                             /\ \A j \in 1..(i - 1) : ~Stated(j)'
      BY DEF OnePlaceDecides
    <3>2. \/ csMerged[p].from = Nowhere /\ \A i \in 1..6 : ~Stated(i)
          \/ \E i \in 1..6 :
               /\ Stated(i) /\ csMerged[p].from = Places[i]
               /\ \A j \in 1..(i - 1) : ~Stated(j)
      BY <1>1
    <3> QED
      BY <1>0, <1>d, <3>1, <3>2
<1>4. PlacesRead[csNext'] = 6 /\ Values' = Values /\ \A i \in 1..6 : ValueAt(i)' = ValueAt(i)
  BY <1>0 DEF PlacesRead, ValueAt, Values
<1>5. StrongestOf(PlacesRead[csNext])'
  BY <1>2, <1>4
<1> QED
  BY <1>0, <1>3, <1>4, <1>5 DEF ConfigInv

(* Every step of a start keeps the invariant.                              *)
LEMMA ConfigInvStep == ConfigInv /\ [ConfigNext]_csVars => ConfigInv'
<1> SUFFICES ASSUME ConfigInv, [ConfigNext]_csVars PROVE ConfigInv'
  OBVIOUS
<1>1. CASE ReadSource
  BY <1>1, ReadKeepsStrongest
<1>2. CASE DocumentUnreadable
  <2>1. csOutcome' = "refused" /\ UNCHANGED <<csKind, csGiven, csNext>>
    BY <1>2 DEF DocumentUnreadable
  <2> QED
    BY <2>1 DEF ConfigInv, ValueAt, Values
<1>3. CASE Resolve
  BY <1>3, ResolveTakesOnePlace
<1>4. CASE UNCHANGED csVars
  <2>1. UNCHANGED <<csKind, csGiven, csNext, csMerged, csOutcome>>
    BY <1>4 DEF csVars
  <2>2. OnePlaceDecides' <=> OnePlaceDecides
    BY <2>1 DEF OnePlaceDecides, Stated
  <2>3. \A k \in 0..6 : StrongestOf(k) => StrongestOf(k)'
    BY <2>1, StrongestStays
  <2>4. PlacesRead[csNext] \in 0..6 /\ csNext' = csNext
    BY <2>1 DEF ConfigInv, PlacesRead
  <2>5. Values' = Values /\ \A i \in 1..6 : ValueAt(i)' = ValueAt(i)
    BY <2>1 DEF Values, ValueAt
  <2>6. StrongestOf(PlacesRead[csNext]) => StrongestOf(PlacesRead[csNext])'
    BY <2>3, <2>4
  <2> QED
    BY <2>1, <2>2, <2>5, <2>6 DEF ConfigInv
<1> QED
  BY <1>1, <1>2, <1>3, <1>4 DEF ConfigNext

(* The invariant contains the property.                                    *)
LEMMA ConfigInvDecides == ConfigInv => OnePlaceDecides
BY DEF ConfigInv, OnePlaceDecides

-----------------------------------------------------------------------------
(* The data directory.                                                     *)

(* What lstat can find at a component.                                     *)
Entry == [kind : {"absent", "dir", "link", "file"},
          owner : {"none", "us", "root", "overflow", "other"},
          open : BOOLEAN, sticky : BOOLEAN]

(* The types of the path and of the walk over it.                          *)
DirTypes ==
    /\ ddPath \in [Components -> Entry]
    /\ ddToHarden \subseteq Components
    /\ ddPc \in {"vet", "look", "create", "rescan", "harden", "ready", "refused"}

(* A component other users of the host can neither replace nor write       *)
(* another's entries below.                                                *)
Safe(i) ==
    /\ ddPath[i].kind = "dir" /\ OwnerIsSafe(ddPath[i].owner)
    /\ ddPath[i].open = TRUE /\ i # Leaf => ddPath[i].sticky = TRUE

(* The second scan finds every component made and safe, and they stay so.  *)
VettedStays ==
    /\ ddPc = "rescan" => \A i \in Components : Present(i)
    /\ ddPc \in {"harden", "ready"} => \A i \in Components : Safe(i)

(* The leaf is private once everything this start made is hardened: either *)
(* it was there and fit, or it is among what is hardened.                  *)
LeafIsPrivate ==
    /\ ddPc \in {"create", "rescan"} => ddPreexisted = TRUE \/ Leaf \in ddToHarden
    /\ ddPc = "harden" => ddPreexisted = TRUE \/ Leaf \in ddToHarden \/ ddPath[Leaf].open = FALSE
    /\ ddPc = "ready" => ddPath[Leaf].open = FALSE

(* The inductive invariant of the data directory.                          *)
DirInv ==
    DirTypes /\ VettedStays /\ LeafIsPrivate /\ \A c \in ddChmods : OwnerIsSafe(c.owner)

(* The leaf is a component.                                                *)
LEMMA LeafIsComponent == Leaf \in Components /\ Components \subseteq Nat
BY DepthAssumption DEF Leaf, Components

(* A set of natural numbers has a least one: among the intervals 0..m that *)
(* end in it, one has no other inside.                                     *)
LEMMA LeastExists ==
  ASSUME NEW T, T \subseteq Nat, T # {}
  PROVE  \E x \in T : \A y \in T : x <= y
<1>1. PICK n \in T : TRUE
  OBVIOUS
<1>2. n \in Nat
  OBVIOUS
<1> DEFINE S == 0..n
           W == {U \in SUBSET S : \E m \in T : U = 0..m}
<1>3. IsFiniteSet(S)
  BY <1>2, FS_Interval
<1>4. W \in SUBSET (SUBSET S) /\ S \in W
  OBVIOUS
<1>5. IsWellFoundedOn(StrictSubsetOrdering(S), SUBSET S)
  BY <1>3, FS_StrictSubsetOrderingWellFounded, FS_FiniteSubsetsOfFinite
<1>6. PICK V \in W : \A U \in W : <<U, V>> \notin StrictSubsetOrdering(S)
  <2> HIDE DEF W, S
  <2> QED
    BY <1>4, <1>5, WFMin
<1>7. \A U \in W : ~(U \subseteq V /\ U # V)
  BY <1>6 DEF StrictSubsetOrdering
<1>8. PICK x \in T : V = 0..x
  OBVIOUS
<1>9. x \in Nat /\ V \in SUBSET S
  OBVIOUS
<1>10. \A y \in T : x <= y
  <2> SUFFICES ASSUME NEW y \in T, ~(x <= y) PROVE FALSE
    OBVIOUS
  <2>1. y \in Nat /\ y < x
    BY <1>9
  <2>2. 0..y \subseteq V /\ x \in V /\ x \notin 0..y
    BY <1>8, <1>9, <2>1
  <2>3. 0..y \in W
    BY <1>9, <2>2
  <2> HIDE DEF W, S
  <2> QED
    BY <1>7, <2>2, <2>3
<1> QED
  BY <1>10

(* Nothing has been vetted at the start.                                   *)
LEMMA DirInvInit == DirInit => DirInv
<1> SUFFICES ASSUME DirInit PROVE DirInv
  OBVIOUS
<1>1. Absent \in Entry
  BY DEF Absent, Entry
<1>2. [kind : {"dir"}, owner : {"us", "root", "overflow", "other"},
       open : BOOLEAN, sticky : BOOLEAN] \subseteq Entry
  BY DEF Entry
<1>3. ddPath \in [Components -> Entry]
  BY <1>1, <1>2 DEF DirInit
<1> QED
  BY <1>3 DEF DirInit, DirInv, DirTypes, VettedStays, LeafIsPrivate

(* Every step of the walk and every entry another user makes keeps the     *)
(* invariant.                                                              *)
LEMMA DirInvStep == DirInv /\ [DirNext]_ddVars => DirInv'
<1> SUFFICES ASSUME DirInv, [DirNext]_ddVars PROVE DirInv'
  OBVIOUS
<1>0. DirTypes /\ VettedStays /\ LeafIsPrivate /\ \A c \in ddChmods : OwnerIsSafe(c.owner)
  BY DEF DirInv
<1>l. Leaf \in Components /\ Components \subseteq Nat
  BY LeafIsComponent
<1>1. CASE Vet
  BY <1>0, <1>1 DEF Vet, DirInv, DirTypes, VettedStays, LeafIsPrivate
<1>2. CASE Look
  BY <1>0, <1>l, <1>2 DEF Look, DirInv, DirTypes, VettedStays, LeafIsPrivate
<1>3. CASE Create
  <2>1. OurDir \in Entry /\ OurDir.kind = "dir"
    BY DEF OurDir, Made, Entry
  <2>2. \/ ddPc' = "refused" /\ UNCHANGED ddPath
        \/ /\ ddPc' = "rescan"
           /\ ddPath' = [i \in Components |-> IF Present(i) THEN ddPath[i] ELSE OurDir]
    BY <1>3 DEF Create
  <2>3. UNCHANGED <<ddPreexisted, ddToHarden, ddChmods>> /\ ddPc = "create"
    BY <1>3 DEF Create
  <2>4. DirTypes'
    BY <1>0, <2>1, <2>2, <2>3 DEF DirTypes
  <2>5. VettedStays'
    BY <2>1, <2>2 DEF VettedStays, Present
  <2>6. LeafIsPrivate'
    BY <1>0, <2>2, <2>3 DEF LeafIsPrivate
  <2> QED
    BY <1>0, <2>3, <2>4, <2>5, <2>6 DEF DirInv
<1>4. CASE Rescan
  <2>1. UNCHANGED <<ddPath, ddPreexisted, ddToHarden, ddChmods>>
    BY <1>4 DEF Rescan
  <2>2. \/ ddPc' = "refused"
        \/ ddPc' = "harden" /\ ComponentsAreSafe
    BY <1>4 DEF Rescan
  <2>3. ComponentsAreSafe => \A i \in Components : Safe(i)
    BY <1>0, <1>4 DEF ComponentsAreSafe, Rescan, VettedStays, Safe, ComponentHazard, DirTypes, Entry
  <2>4. VettedStays'
    BY <2>1, <2>2, <2>3 DEF VettedStays, Safe
  <2>5. LeafIsPrivate'
    BY <1>0, <1>4, <2>1, <2>2 DEF LeafIsPrivate, Rescan
  <2> QED
    BY <1>0, <2>1, <2>2, <2>4, <2>5 DEF DirInv, DirTypes
<1>5. CASE Harden
  <2> DEFINE i == CHOOSE i \in ddToHarden : \A j \in ddToHarden : i <= j
  <2>1. i \in ddToHarden
    <3>1. \E x \in ddToHarden : \A y \in ddToHarden : x <= y
      BY <1>0, <1>l, <1>5, LeastExists DEF Harden, DirTypes
    <3> QED
      BY <3>1
  <2>2. \/ ddPc' = "refused" /\ UNCHANGED <<ddPath, ddToHarden, ddChmods>>
        \/ /\ ddChmods' = ddChmods \cup {[owner |-> ddPath[i].owner, at |-> i]}
           /\ ddPath' = [ddPath EXCEPT ![i].open = FALSE, ![i].sticky = FALSE]
           /\ ddToHarden' = ddToHarden \ {i}
           /\ UNCHANGED ddPc
    BY <1>5 DEF Harden
  <2>3. UNCHANGED ddPreexisted /\ ddPc = "harden"
    BY <1>5 DEF Harden
  <2> HIDE DEF i
  <2>4. CASE ddPc' = "refused" /\ UNCHANGED <<ddPath, ddToHarden, ddChmods>>
    BY <1>0, <2>3, <2>4 DEF DirInv, DirTypes, VettedStays, LeafIsPrivate
  <2>5. CASE /\ ddChmods' = ddChmods \cup {[owner |-> ddPath[i].owner, at |-> i]}
             /\ ddPath' = [ddPath EXCEPT ![i].open = FALSE, ![i].sticky = FALSE]
             /\ ddToHarden' = ddToHarden \ {i}
             /\ UNCHANGED ddPc
    <3>1. i \in Components /\ ddPath[i] \in Entry
      BY <1>0, <2>1 DEF DirTypes
    <3>2. /\ ddPath' \in [Components -> Entry]
          /\ ddPath'[i].kind = ddPath[i].kind /\ ddPath'[i].owner = ddPath[i].owner
          /\ ddPath'[i].open = FALSE
          /\ \A j \in Components \ {i} : ddPath'[j] = ddPath[j]
      BY <1>0, <2>5, <3>1 DEF DirTypes, Entry
    <3>3. DirTypes'
      BY <1>0, <2>5, <3>2 DEF DirTypes
    <3>4. \A j \in Components : Safe(j)
      BY <1>0, <2>3 DEF VettedStays
    <3>5. \A j \in Components : Safe(j)'
      <4> SUFFICES ASSUME NEW j \in Components PROVE Safe(j)'
        OBVIOUS
      <4>1. CASE j = i
        BY <3>2, <3>4, <4>1 DEF Safe
      <4>2. CASE j # i
        BY <3>2, <3>4, <4>2 DEF Safe
      <4> QED
        BY <4>1, <4>2
    <3>6. VettedStays'
      BY <2>3, <2>5, <3>5 DEF VettedStays
    <3>7. LeafIsPrivate'
      BY <1>0, <1>l, <2>3, <2>5, <3>2 DEF LeafIsPrivate
    <3>8. \A c \in ddChmods' : OwnerIsSafe(c.owner)
      BY <1>0, <2>5, <3>1, <3>4 DEF Safe
    <3> QED
      BY <3>3, <3>6, <3>7, <3>8 DEF DirInv
  <2> QED
    BY <2>2, <2>4, <2>5
<1>6. CASE Accept
  <2>1. UNCHANGED <<ddPath, ddPreexisted, ddToHarden, ddChmods>> /\ ddPc = "harden" /\ ddToHarden = {}
    BY <1>6 DEF Accept
  <2>2. ddPc' \in {"ready", "refused"}
    BY <1>6 DEF Accept
  <2>3. ddPc' = "ready" /\ ddPreexisted = TRUE => ~ddPath[Leaf].open
    BY <1>6 DEF Accept, PreexistingIsFit
  <2>4. ddPath[Leaf].open \in BOOLEAN
    BY <1>0, <1>l DEF DirTypes, Entry
  <2>5. LeafIsPrivate'
    BY <1>0, <2>1, <2>2, <2>3, <2>4 DEF LeafIsPrivate
  <2> QED
    BY <1>0, <2>1, <2>2, <2>5 DEF DirInv, DirTypes, VettedStays, Safe
<1>7. CASE OtherUser
  <2>0. PICK i \in Components \ {1}, what \in {"dir", "link", "file"}, open \in BOOLEAN :
          /\ IF Present(i) THEN OtherMayRemove(i) ELSE Present(i - 1) /\ OtherMayWrite(i - 1)
          /\ ddPath' = [ddPath EXCEPT ![i] = Made(what, "other", open /\ what = "dir", FALSE)]
    BY <1>7 DEF OtherUser
  <2>1. UNCHANGED <<ddPc, ddPreexisted, ddToHarden, ddChmods>>
    BY <1>7 DEF OtherUser
  <2>2. Made(what, "other", open /\ what = "dir", FALSE) \in Entry
    BY DEF Made, Entry
  <2>3. Made(what, "other", open /\ what = "dir", FALSE).kind # "absent"
    BY DEF Made
  <2>4. DirTypes'
    BY <1>0, <2>0, <2>1, <2>2 DEF DirTypes
  <2>5. i - 1 \in Components /\ i - 1 # Leaf
    BY DepthAssumption DEF Components, Leaf
  <2>6. ddPc \notin {"harden", "ready"}
    <3> SUFFICES ASSUME \A j \in Components : Safe(j) PROVE FALSE
      BY <1>0 DEF VettedStays
    <3>1. Safe(i) /\ Safe(i - 1)
      BY <2>5
    <3>2. Present(i) /\ OtherMayRemove(i)
      BY <2>0, <3>1 DEF Safe, Present
    <3>3. ddPath[i - 1].owner # "other" /\ ddPath[i].owner # "other"
      BY <3>1 DEF Safe, OwnerIsSafe
    <3>4. ddPath[i - 1].open /\ ~ddPath[i - 1].sticky
      BY <3>2, <3>3 DEF OtherMayRemove, OtherMayWrite
    <3>5. ddPath[i - 1].open \in BOOLEAN /\ ddPath[i - 1].sticky \in BOOLEAN
      BY <1>0, <2>5 DEF DirTypes, Entry
    <3> QED
      BY <2>5, <3>1, <3>4, <3>5 DEF Safe
  <2>7. VettedStays'
    BY <1>0, <2>0, <2>1, <2>3, <2>6 DEF VettedStays, Present, DirTypes
  <2>8. LeafIsPrivate'
    BY <1>0, <2>1, <2>6 DEF LeafIsPrivate
  <2> QED
    BY <1>0, <2>1, <2>4, <2>7, <2>8 DEF DirInv
<1>8. CASE UNCHANGED ddVars
  BY <1>0, <1>8 DEF ddVars, DirInv, DirTypes, VettedStays, LeafIsPrivate, Safe, Present
<1> QED
  BY <1>1, <1>2, <1>3, <1>4, <1>5, <1>6, <1>7, <1>8 DEF DirNext

(* The invariant says that the accepted directory is private.              *)
LEMMA DirInvPrivate == DirInv => DirIsPrivate
BY DEF DirInv, VettedStays, LeafIsPrivate, Safe, DirIsPrivate

-----------------------------------------------------------------------------
(* Backup and restore.                                                     *)

(* What can hold of an instant, of the tools and of the filesystem.        *)
WorldTypes ==
    /\ bkWorld.has \subseteq Optional
    /\ bkWorld.refs = TRUE /\ bkWorld.marker = FALSE => "px" \in bkWorld.has
    /\ bkWorld.oldBuild = TRUE => bkWorld.marker = FALSE /\ bkWorld.encrypted = FALSE
    /\ {bkWorld.marker, bkWorld.refs, bkWorld.oldBuild, bkWorld.encrypted, bkWorld.exchange}
          \subseteq BOOLEAN

(* The parts of a complete backup.                                         *)
Promised == {a \in Artifacts : Restorable[a] # 0}

(* Books that reference phoenixd are restored with their map.              *)
Usable == bkWorld.refs = TRUE /\ bkWorld.marker = FALSE => Restorable["px"] = 1

(* A set the daemon may find in the place of its data directory.           *)
WholeSet(d) ==
    /\ d \in {NoSet, Fresh, Full, SetOf(1, bkWorld.has), Restorable}
    /\ d["db"] = 1 /\ bkWorld.refs = TRUE /\ bkWorld.marker = FALSE => d["px"] = 1

(* The backup holds every part, in the clear or in the bundle.             *)
Complete ==
    \A a \in Artifacts :
        /\ bkWorld.encrypted = TRUE => bkDest.age[a] = Restorable[a] /\ bkDest.files[a] = 0
        /\ bkWorld.encrypted = FALSE => bkDest.files[a] = Restorable[a] /\ bkDest.age[a] = 0

(* A backup in progress has copied the first parts of the directory as it  *)
(* stood.                                                                  *)
CopiedSoFar ==
    /\ bkPc \in {"tree", "roots", "sync", "manifest", "syncManifest"} =>
          bkDir \in {SetOf(1, bkWorld.has), Restorable}
    /\ bkPc \in {"tree", "roots"} =>
          bkWorld.encrypted = FALSE /\ \A a \in Artifacts : bkDest.age[a] = 0
    /\ bkPc = "tree" =>
          \A a \in Artifacts : bkDest.files[a] = IF a = "db" THEN Restorable[a] ELSE 0
    /\ bkPc = "roots" =>
          \A a \in Artifacts : bkDest.files[a] = IF a \in {"db", "fed"} THEN Restorable[a] ELSE 0
    /\ bkPc \in {"tree", "roots", "sync", "manifest"} => bkDest.manifest.written = FALSE
    /\ bkPc \in {"sync", "manifest"} => Complete
    /\ bkPc = "manifest" => Artifacts \cup {"age"} \subseteq bkDest.synced

(* A manifest that is there describes a backup that is whole and durable.  *)
ManifestIsTrue ==
    bkDest.manifest.written # FALSE =>
        /\ Complete /\ Artifacts \cup {"age"} \subseteq bkDest.synced
        /\ bkDest.manifest.has = Promised /\ bkDest.manifest.encrypted = bkWorld.encrypted
        /\ bkDest.manifest.selfContained = bkWorld.marker
        /\ bkDest.manifest.px <=> "px" \in Promised

(* A restore stages exactly the promised set, and only one it may restore. *)
StagedIsPromised ==
    /\ bkPc = "stage" =>
          bkDest.manifest.written # FALSE /\ (bkWorld.encrypted = FALSE => Usable)
    /\ bkPc \in {"swap", "moveIn"} => bkStage = Restorable /\ Usable

(* A directory that could be taken for a first boot's has the old set      *)
(* beside it, at the bottom of what was moved aside.                       *)
OldSetAside ==
    /\ bkAside \in Seq([Artifacts -> 0..3])
    /\ \A i \in 1..Len(bkAside) : WholeSet(bkAside[i]) /\ bkAside[i] # NoSet
    /\ bkDied = FALSE /\ bkAside # << >> => bkAside[1] # Fresh
    /\ bkDied = FALSE /\ bkDir \in {NoSet, Fresh} => bkWorld.exchange = FALSE /\ bkAside # << >>
    /\ bkPc = "moveIn" => bkAside # << >>
    /\ bkPc = "dropAside" => bkDir \notin {NoSet, Fresh} /\ bkAside # << >>

(* The inductive invariant of backup and restore.                          *)
BackupInv ==
    /\ WorldTypes /\ WholeSet(bkDir)
    /\ bkDest = [files |-> bkDest.files, age |-> bkDest.age, manifest |-> bkDest.manifest,
                 synced |-> bkDest.synced]
    /\ bkDied \in BOOLEAN
    /\ CopiedSoFar /\ ManifestIsTrue /\ StagedIsPromised /\ OldSetAside

(* The sets by artifact.                                                   *)
LEMMA SetsByPart ==
    ASSUME WorldTypes
    PROVE  /\ \A a \in Artifacts : NoSet[a] = 0
           /\ NoSet["db"] = 0 /\ Fresh["db"] = 3 /\ Full["db"] = 2 /\ "db" \in Artifacts
           /\ SetOf(1, bkWorld.has)["db"] = 1 /\ Restorable["db"] = 1
           /\ \A a \in Artifacts \ {"px"} : Restorable[a] = SetOf(1, bkWorld.has)[a]
           /\ Restorable["px"] = IF CapturesPx THEN SetOf(1, bkWorld.has)["px"] ELSE 0
           /\ SetOf(1, bkWorld.has)["px"] = IF "px" \in bkWorld.has THEN 1 ELSE 0
           /\ Restorable \in [Artifacts -> 0..3] /\ SetOf(1, bkWorld.has) \in [Artifacts -> 0..3]
           /\ NoSet \in [Artifacts -> 0..3] /\ Fresh \in [Artifacts -> 0..3]
           /\ Full \in [Artifacts -> 0..3]
           /\ "px" \in Artifacts
BY DEF WorldTypes, NoSet, Fresh, Full, SetOf, Restorable, Artifacts, Optional

(* Nothing has been backed up at the start.                                *)
LEMMA BackupInvInit == BackupInit => BackupInv
<1> SUFFICES ASSUME BackupInit PROVE BackupInv
  OBVIOUS
<1>1. WorldTypes
  BY DEF BackupInit, WorldTypes
<1>2. WholeSet(bkDir)
  BY <1>1, SetsByPart DEF BackupInit, WholeSet, WorldTypes
<1>3. bkDir \notin {NoSet, Fresh}
  BY <1>1, SetsByPart DEF BackupInit
<1>4. EmptyDest.manifest.written = FALSE
  BY DEF EmptyDest, NoManifest
<1>5. bkDest = [files |-> bkDest.files, age |-> bkDest.age, manifest |-> bkDest.manifest,
                 synced |-> bkDest.synced]
  BY DEF BackupInit, EmptyDest
<1>6. OldSetAside
  BY <1>3 DEF BackupInit, OldSetAside
<1> QED
  BY <1>1, <1>2, <1>4, <1>5, <1>6 DEF BackupInit, BackupInv, CopiedSoFar, ManifestIsTrue, StagedIsPromised

(* A step that leaves the world alone leaves alone what is defined of it.  *)
LEMMA WorldStays ==
    ASSUME WorldTypes, UNCHANGED bkWorld
    PROVE  /\ WorldTypes' /\ Restorable' = Restorable /\ (Usable' <=> Usable)
           /\ Promised' = Promised
           /\ \A d : WholeSet(d)' <=> WholeSet(d)
<1>1. Restorable' = Restorable
  BY DEF Restorable, SetOf, CapturesPx
<1>2. WorldTypes'
  BY DEF WorldTypes
<1>3. \A d : WholeSet(d)' <=> WholeSet(d)
  BY <1>1 DEF WholeSet, SetOf
<1> QED
  BY <1>1, <1>2, <1>3 DEF Usable, Promised

(* A database the manifest describes is one that may be restored.          *)
LEMMA AcceptedIsUsable ==
    ASSUME WorldTypes, ManifestIsTrue, bkDest.manifest.written # FALSE,
           StateDbAccepted(bkDest.manifest)
    PROVE  Usable
<1>1. CASE bkWorld.marker = TRUE \/ bkWorld.refs = FALSE
  BY <1>1 DEF Usable
<1>2. CASE bkWorld.marker = FALSE /\ bkWorld.refs = TRUE
  <2>1. FormatVersion(bkDest.manifest.selfContained, bkDest.manifest.px) # 1
    BY <1>2 DEF StateDbAccepted
  <2>2. bkDest.manifest.selfContained = FALSE
    BY <1>2 DEF ManifestIsTrue
  <2>3. "px" \in Promised
    BY <2>1, <2>2 DEF FormatVersion, ManifestIsTrue
  <2>4. Restorable["px"] # 0
    BY <2>3 DEF Promised
  <2> QED
    BY <2>4, SetsByPart DEF Usable
<1> QED
  BY <1>1, <1>2 DEF WorldTypes

(* Front drops the last of a sequence and keeps the others.                *)
LEMMA FrontIsPrefix ==
    ASSUME NEW S, NEW s \in Seq(S), s # << >>
    PROVE  /\ Front(s) \in Seq(S) /\ Len(Front(s)) = Len(s) - 1
           /\ \A i \in 1..Len(Front(s)) : i \in 1..Len(s) /\ Front(s)[i] = s[i]
           /\ Len(s) \in 1..Len(s) /\ Last(s) = s[Len(s)]
           /\ Front(s) = << >> => Len(s) = 1
           /\ Front(s) # << >> => 1 \in 1..Len(Front(s))
<1>1. Len(s) \in Nat /\ Len(s) > 0
  OBVIOUS
<1>2. Front(s) = SubSeq(s, 1, Len(s) - 1)
  BY DEF Front
<1>3. Len(s) - 1 \in Nat /\ 1 \in 1..Len(s) /\ Len(s) \in 1..Len(s)
  BY <1>1
<1>4. Front(s) \in Seq(S) /\ Len(Front(s)) = Len(s) - 1
  <2> DEFINE n == Len(s) - 1
  <2>1. n \in 0..Len(s)
    BY <1>1, <1>3
  <2> HIDE DEF n
  <2>2. SubSeq(s, 1, n) \in Seq(S) /\ Len(SubSeq(s, 1, n)) = n
    BY <2>1
  <2> QED
    BY <1>2, <2>1, <2>2, Zenon DEF n
<1>5. \A i \in 1..Len(Front(s)) : i \in 1..Len(s) /\ Front(s)[i] = s[i]
  BY <1>1, <1>2, <1>3, <1>4
<1>6. Front(s) = << >> => Len(s) = 1
  BY <1>1, <1>4
<1>7. Front(s) # << >> => 1 \in 1..Len(Front(s))
  BY <1>1, <1>4
<1> QED
  BY <1>3, <1>4, <1>5, <1>6, <1>7 DEF Last

(* Every step of a backup, a restore, the daemon and the machine keeps the *)
(* invariant.                                                              *)
LEMMA BackupInvStep == BackupInv /\ [BackupNext]_bkVars => BackupInv'
<1> SUFFICES ASSUME BackupInv, [BackupNext]_bkVars PROVE BackupInv'
  OBVIOUS
<1>0. /\ WorldTypes /\ WholeSet(bkDir) /\ bkDied \in BOOLEAN
      /\ CopiedSoFar /\ ManifestIsTrue /\ StagedIsPromised /\ OldSetAside
  BY DEF BackupInv
<1>d. bkDest = [files |-> bkDest.files, age |-> bkDest.age, manifest |-> bkDest.manifest,
                 synced |-> bkDest.synced]
  BY DEF BackupInv
<1>s. /\ \A a \in Artifacts : NoSet[a] = 0
      /\ NoSet["db"] = 0 /\ Fresh["db"] = 3 /\ Full["db"] = 2 /\ "db" \in Artifacts
      /\ SetOf(1, bkWorld.has)["db"] = 1 /\ Restorable["db"] = 1
      /\ \A a \in Artifacts \ {"px"} : Restorable[a] = SetOf(1, bkWorld.has)[a]
      /\ Restorable["px"] = IF CapturesPx THEN SetOf(1, bkWorld.has)["px"] ELSE 0
      /\ Restorable \in [Artifacts -> 0..3] /\ SetOf(1, bkWorld.has) \in [Artifacts -> 0..3]
      /\ "px" \in Artifacts
  BY <1>0, SetsByPart
<1>w. /\ UNCHANGED bkWorld
      /\ WorldTypes' /\ Restorable' = Restorable /\ (Usable' <=> Usable)
      /\ Promised' = Promised
      /\ \A d : WholeSet(d)' <=> WholeSet(d)
  <2>1. UNCHANGED bkWorld
    BY DEF BackupNext, bkVars, BackupDb, BackupTree, BackupRoots, BackupBundle, BackupSync,
       BackupManifest, BackupDone, DaemonRuns, DiskDies, FirstBoot, RestoreStart, RestoreStage,
       RestoreFails, SwapIn, SwapExchange, DropOld, MoveAside, MoveIn, MoveInFails, PowerLoss
  <2> QED
    BY <1>0, <2>1, WorldStays
<1>e. /\ EmptyDest.manifest.written = FALSE /\ EmptyDest.files = NoSet /\ EmptyDest.age = NoSet
      /\ EmptyDest = [files |-> EmptyDest.files, age |-> EmptyDest.age,
                      manifest |-> EmptyDest.manifest, synced |-> EmptyDest.synced]
  BY DEF EmptyDest, NoManifest
<1>k. /\ WholeSet(NoSet) /\ WholeSet(Fresh) /\ WholeSet(Full)
      /\ Usable => WholeSet(Restorable)
  BY <1>s DEF WholeSet, Usable
<1>1. CASE BackupDb
  <2>1. /\ bkPc = "idle" /\ bkDir["db"] = 1 /\ bkWorld.encrypted = FALSE /\ bkPc' = "tree"
        /\ UNCHANGED <<bkDir, bkStage, bkAside, bkDied>>
        /\ bkDest' = [EmptyDest EXCEPT !.files =
                        [a \in Artifacts |-> IF a \in {"db"} THEN bkDir[a] ELSE EmptyDest.files[a]]]
    BY <1>0, <1>1 DEF BackupDb, BackupStarts, CopiedTo, bkFs, WorldTypes
  <2>2. bkDir \in {SetOf(1, bkWorld.has), Restorable}
    BY <1>0, <1>s, <2>1 DEF WholeSet
  <2>3. /\ bkDest'.age = NoSet /\ bkDest'.manifest.written = FALSE
        /\ bkDest'.files =
             [a \in Artifacts |-> IF a \in {"db"} THEN bkDir[a] ELSE EmptyDest.files[a]]
        /\ bkDest' = [files |-> bkDest'.files, age |-> bkDest'.age,
                      manifest |-> bkDest'.manifest, synced |-> bkDest'.synced]
    BY <1>e, <2>1
  <2>4. \A a \in Artifacts : bkDest'.files[a] = IF a = "db" THEN Restorable[a] ELSE 0
    BY <1>s, <1>e, <2>2, <2>3
  <2>5. CopiedSoFar'
    BY <1>s, <1>w, <2>1, <2>2, <2>3, <2>4 DEF CopiedSoFar
  <2>6. ManifestIsTrue' /\ StagedIsPromised' /\ OldSetAside'
    BY <1>0, <1>w, <2>1, <2>3 DEF ManifestIsTrue, StagedIsPromised, OldSetAside
  <2> QED
    BY <1>0, <1>w, <2>1, <2>3, <2>5, <2>6 DEF BackupInv
<1>2. CASE BackupTree
  <2>1. /\ bkPc = "tree" /\ bkPc' = "roots"
        /\ UNCHANGED <<bkDir, bkStage, bkAside, bkDied>>
        /\ bkDest' = [bkDest EXCEPT !.files =
                        [a \in Artifacts |-> IF a \in {"fed"} THEN bkDir[a] ELSE bkDest.files[a]]]
    BY <1>2 DEF BackupTree, CopiedTo, bkFs
  <2>2. bkDir \in {SetOf(1, bkWorld.has), Restorable}
    BY <1>0, <2>1 DEF CopiedSoFar
  <2>3. /\ bkDest'.age = bkDest.age /\ bkDest'.manifest = bkDest.manifest
        /\ bkDest'.files =
             [a \in Artifacts |-> IF a \in {"fed"} THEN bkDir[a] ELSE bkDest.files[a]]
        /\ bkDest' = [files |-> bkDest'.files, age |-> bkDest'.age,
                      manifest |-> bkDest'.manifest, synced |-> bkDest'.synced]
    BY <1>d, <2>1
  <2>4. \A a \in Artifacts : bkDest'.files[a] = IF a \in {"db", "fed"} THEN Restorable[a] ELSE 0
    BY <1>0, <1>s, <2>1, <2>2, <2>3 DEF CopiedSoFar
  <2>5. CopiedSoFar'
    BY <1>0, <1>s, <1>w, <2>1, <2>2, <2>3, <2>4 DEF CopiedSoFar
  <2>6. ManifestIsTrue' /\ StagedIsPromised' /\ OldSetAside'
    BY <1>0, <1>w, <2>1, <2>3 DEF CopiedSoFar, ManifestIsTrue, StagedIsPromised, OldSetAside
  <2> QED
    BY <1>0, <1>w, <2>1, <2>3, <2>5, <2>6 DEF BackupInv
<1>3. CASE BackupRoots
  <2> DEFINE as == {"seed", "config"} \cup IF CapturesPx THEN {"px"} ELSE {}
  <2>1. /\ bkPc = "roots" /\ bkPc' = "sync"
        /\ UNCHANGED <<bkDir, bkStage, bkAside, bkDied>>
        /\ bkDest' = [bkDest EXCEPT !.files =
                        [a \in Artifacts |-> IF a \in as THEN bkDir[a] ELSE bkDest.files[a]]]
    BY <1>3 DEF BackupRoots, CopiedTo, bkFs
  <2>2. bkDir \in {SetOf(1, bkWorld.has), Restorable}
    BY <1>0, <2>1 DEF CopiedSoFar
  <2>3. /\ bkDest'.age = bkDest.age /\ bkDest'.manifest = bkDest.manifest
        /\ bkDest'.files =
             [a \in Artifacts |-> IF a \in as THEN bkDir[a] ELSE bkDest.files[a]]
        /\ bkDest' = [files |-> bkDest'.files, age |-> bkDest'.age,
                      manifest |-> bkDest'.manifest, synced |-> bkDest'.synced]
    BY <1>d, <2>1
  <2>4. \A a \in Artifacts : bkDest'.files[a] = Restorable[a]
    <3>1. \A a \in Artifacts : bkDest.files[a] = IF a \in {"db", "fed"} THEN Restorable[a] ELSE 0
      BY <1>0, <2>1 DEF CopiedSoFar
    <3>2. \A a \in Artifacts : a \in {"db", "fed", "seed", "config", "px"}
      BY DEF Artifacts, Optional
    <3>3. \A a \in as : bkDir[a] = Restorable[a]
      BY <1>s, <2>2 DEF Artifacts, Optional
    <3>4. \A a \in Artifacts \ as : a \in {"db", "fed"} \/ (a = "px" /\ Restorable[a] = 0)
      BY <1>s, <3>2
    <3> QED
      BY <2>3, <3>1, <3>3, <3>4
  <2>5. CopiedSoFar'
    BY <1>0, <1>s, <1>w, <2>1, <2>2, <2>3, <2>4 DEF CopiedSoFar, Complete
  <2>6. ManifestIsTrue' /\ StagedIsPromised' /\ OldSetAside'
    BY <1>0, <1>w, <2>1, <2>3 DEF CopiedSoFar, ManifestIsTrue, StagedIsPromised, OldSetAside
  <2> QED
    BY <1>0, <1>w, <2>1, <2>3, <2>5, <2>6 DEF BackupInv
<1>4. CASE BackupBundle
  <2>1. /\ bkPc = "idle" /\ bkDir["db"] = 1 /\ bkWorld.encrypted = TRUE /\ bkPc' = "sync"
        /\ UNCHANGED <<bkDir, bkStage, bkAside, bkDied>>
        /\ bkDest' = [EmptyDest EXCEPT !.age = Bundled]
    BY <1>0, <1>4 DEF BackupBundle, BackupStarts, bkFs, WorldTypes
  <2>2. bkDir \in {SetOf(1, bkWorld.has), Restorable}
    BY <1>0, <1>s, <2>1 DEF WholeSet
  <2>3. /\ bkDest'.age = Bundled /\ bkDest'.files = NoSet /\ bkDest'.manifest.written = FALSE
        /\ bkDest' = [files |-> bkDest'.files, age |-> bkDest'.age,
                      manifest |-> bkDest'.manifest, synced |-> bkDest'.synced]
    BY <1>e, <2>1
  <2>4. \A a \in Artifacts : bkDest'.age[a] = Restorable[a] /\ bkDest'.files[a] = 0
    BY <1>s, <2>2, <2>3 DEF Bundled
  <2>5. CopiedSoFar'
    BY <1>s, <1>w, <2>1, <2>2, <2>3, <2>4 DEF CopiedSoFar, Complete
  <2>6. ManifestIsTrue' /\ StagedIsPromised' /\ OldSetAside'
    BY <1>0, <1>w, <2>1, <2>3 DEF ManifestIsTrue, StagedIsPromised, OldSetAside
  <2> QED
    BY <1>0, <1>w, <2>1, <2>3, <2>5, <2>6 DEF BackupInv
<1>5. CASE BackupSync
  <2>1. /\ bkPc = "sync" /\ bkPc' = "manifest"
        /\ UNCHANGED <<bkDir, bkStage, bkAside, bkDied>>
        /\ bkDest' = [bkDest EXCEPT !.synced = Artifacts \cup {"age"}]
    BY <1>5 DEF BackupSync, bkFs
  <2>3. /\ bkDest'.age = bkDest.age /\ bkDest'.files = bkDest.files
        /\ bkDest'.manifest = bkDest.manifest /\ bkDest'.synced = Artifacts \cup {"age"}
        /\ bkDest' = [files |-> bkDest'.files, age |-> bkDest'.age,
                      manifest |-> bkDest'.manifest, synced |-> bkDest'.synced]
    BY <1>d, <2>1
  <2>5. CopiedSoFar'
    BY <1>0, <1>w, <2>1, <2>3 DEF CopiedSoFar, Complete
  <2>6. ManifestIsTrue' /\ StagedIsPromised' /\ OldSetAside'
    BY <1>0, <1>w, <2>1, <2>3 DEF CopiedSoFar, ManifestIsTrue, StagedIsPromised, OldSetAside
  <2> QED
    BY <1>0, <1>w, <2>1, <2>3, <2>5, <2>6 DEF BackupInv
<1>6. CASE BackupManifest
  <2> DEFINE m == [written |-> TRUE, px |-> "px" \in InBackup, selfContained |-> bkWorld.marker,
                   encrypted |-> bkWorld.encrypted, has |-> InBackup]
  <2>1. /\ bkPc = "manifest" /\ bkPc' = "syncManifest"
        /\ UNCHANGED <<bkDir, bkStage, bkAside, bkDied>>
        /\ bkDest' = [bkDest EXCEPT !.manifest = m]
    BY <1>6 DEF BackupManifest, bkFs
  <2>2. InBackup = Promised
    BY <1>0, <1>s, <2>1 DEF CopiedSoFar, Complete, InBackup, Promised, WorldTypes
  <2>m. /\ m.has = Promised /\ m.encrypted = bkWorld.encrypted /\ m.selfContained = bkWorld.marker
        /\ m.px <=> "px" \in Promised
    BY <2>2
  <2> HIDE DEF m
  <2>3. /\ bkDest'.age = bkDest.age /\ bkDest'.files = bkDest.files
        /\ bkDest'.manifest = m /\ bkDest'.synced = bkDest.synced
        /\ bkDest' = [files |-> bkDest'.files, age |-> bkDest'.age,
                      manifest |-> bkDest'.manifest, synced |-> bkDest'.synced]
    BY <1>d, <2>1
  <2>4. Complete'
    BY <1>0, <1>w, <2>1, <2>3 DEF CopiedSoFar, Complete
  <2>5. CopiedSoFar'
    BY <1>0, <1>w, <2>1 DEF CopiedSoFar
  <2>6. ManifestIsTrue'
    BY <1>0, <1>w, <2>1, <2>m, <2>3, <2>4 DEF CopiedSoFar, ManifestIsTrue
  <2>7. StagedIsPromised' /\ OldSetAside'
    BY <1>0, <1>w, <2>1 DEF StagedIsPromised, OldSetAside
  <2> QED
    BY <1>0, <1>w, <2>1, <2>3, <2>5, <2>6, <2>7 DEF BackupInv
<1>7. CASE BackupDone
  <2>1. /\ bkPc = "syncManifest" /\ bkPc' = "idle"
        /\ UNCHANGED <<bkDir, bkStage, bkAside, bkDied>>
        /\ bkDest' = [bkDest EXCEPT !.synced = bkDest.synced \cup {"manifest"}]
    BY <1>7 DEF BackupDone, bkFs
  <2>3. /\ bkDest'.age = bkDest.age /\ bkDest'.files = bkDest.files
        /\ bkDest'.manifest = bkDest.manifest /\ bkDest'.synced = bkDest.synced \cup {"manifest"}
        /\ bkDest' = [files |-> bkDest'.files, age |-> bkDest'.age,
                      manifest |-> bkDest'.manifest, synced |-> bkDest'.synced]
    BY <1>d, <2>1
  <2>5. CopiedSoFar'
    BY <2>1 DEF CopiedSoFar
  <2>6. ManifestIsTrue'
    BY <1>0, <1>w, <2>3 DEF ManifestIsTrue, Complete
  <2>7. StagedIsPromised' /\ OldSetAside'
    BY <1>0, <1>w, <2>1 DEF StagedIsPromised, OldSetAside
  <2> QED
    BY <1>0, <1>w, <2>1, <2>3, <2>5, <2>6, <2>7 DEF BackupInv
<1>8. CASE DaemonRuns \/ DiskDies \/ FirstBoot
  <2>1. UNCHANGED <<bkStage, bkAside, bkDest, bkPc>>
    BY <1>8 DEF DaemonRuns, DiskDies, FirstBoot
  <2>2. \/ bkPc = "idle" /\ bkDir' = Full /\ UNCHANGED bkDied
        \/ bkPc = "idle" /\ bkDir' = NoSet /\ bkDied' = TRUE
        \/ bkDir = NoSet /\ bkDir' = Fresh /\ UNCHANGED bkDied
    BY <1>8 DEF DaemonRuns, DiskDies, FirstBoot
  <2>3. WholeSet(bkDir') /\ bkDied' \in BOOLEAN
    BY <1>0, <1>k, <2>2
  <2>4. CopiedSoFar'
    BY <1>0, <1>s, <1>w, <2>1, <2>2 DEF CopiedSoFar, Complete
  <2>5. ManifestIsTrue' /\ StagedIsPromised'
    BY <1>0, <1>w, <2>1 DEF ManifestIsTrue, StagedIsPromised, Complete
  <2>6. OldSetAside'
    BY <1>0, <1>s, <1>w, <2>1, <2>2 DEF OldSetAside
  <2> QED
    BY <1>d, <1>w, <2>1, <2>3, <2>4, <2>5, <2>6 DEF BackupInv
<1>9. CASE RestoreStart
  <2>1. UNCHANGED <<bkDir, bkStage, bkAside, bkDest, bkDied>> /\ bkPc' = "stage"
    BY <1>9 DEF RestoreStart, bkFs
  <2>2. /\ bkDest.manifest.written # FALSE
        /\ bkDest.manifest.encrypted \/ StateDbAccepted(bkDest.manifest)
    BY <1>9 DEF RestoreStart, RestoreAccepts
  <2>3. bkWorld.encrypted = FALSE => Usable
    BY <1>0, <2>2, AcceptedIsUsable DEF ManifestIsTrue
  <2>4. CopiedSoFar' /\ ManifestIsTrue' /\ StagedIsPromised' /\ OldSetAside'
    BY <1>0, <1>w, <2>1, <2>2, <2>3 DEF CopiedSoFar, ManifestIsTrue, StagedIsPromised, OldSetAside,
       Complete
  <2> QED
    BY <1>0, <1>d, <1>w, <2>1, <2>4 DEF BackupInv
<1>10. CASE RestoreStage
  <2>1. /\ UNCHANGED <<bkDir, bkAside, bkDest, bkDied>> /\ bkPc = "stage" /\ bkPc' = "swap"
        /\ bkStage' = [a \in Artifacts |-> IF a \in bkDest.manifest.has THEN Found[a] ELSE 0]
        /\ bkDest.manifest.encrypted => StateDbAccepted(bkDest.manifest)
    BY <1>10 DEF RestoreStage, StagedIsWhole
  <2>2. /\ bkDest.manifest.written # FALSE /\ Complete
        /\ bkDest.manifest.has = Promised /\ bkDest.manifest.encrypted = bkWorld.encrypted
    BY <1>0, <2>1 DEF StagedIsPromised, ManifestIsTrue
  <2>3. Usable
    BY <1>0, <2>1, <2>2, AcceptedIsUsable DEF StagedIsPromised, WorldTypes
  <2>4. \A a \in Artifacts : Found[a] = Restorable[a]
    BY <1>0, <2>2 DEF Found, Complete, WorldTypes
  <2>5. bkStage' = Restorable
    BY <1>s, <2>1, <2>2, <2>4 DEF Promised
  <2>6. CopiedSoFar' /\ ManifestIsTrue' /\ StagedIsPromised' /\ OldSetAside'
    BY <1>0, <1>w, <2>1, <2>3, <2>5 DEF CopiedSoFar, ManifestIsTrue, StagedIsPromised, OldSetAside,
       Complete
  <2> QED
    BY <1>0, <1>d, <1>w, <2>1, <2>6 DEF BackupInv
<1>11. CASE RestoreFails
  <2>1. UNCHANGED <<bkDir, bkStage, bkAside, bkDest, bkDied>> /\ bkPc' = "idle"
    BY <1>11 DEF RestoreFails, bkFs
  <2>2. CopiedSoFar' /\ ManifestIsTrue' /\ StagedIsPromised' /\ OldSetAside'
    BY <1>0, <1>w, <2>1 DEF CopiedSoFar, ManifestIsTrue, StagedIsPromised, OldSetAside, Complete
  <2> QED
    BY <1>0, <1>d, <1>w, <2>1, <2>2 DEF BackupInv
<1>12. CASE SwapIn \/ SwapExchange
  <2>1. /\ bkPc = "swap" /\ bkDir' = bkStage /\ UNCHANGED <<bkAside, bkDest, bkDied>>
        /\ bkPc' \in {"idle", "drop"}
    BY <1>12 DEF SwapIn, SwapExchange
  <2>2. bkDir' = Restorable /\ WholeSet(bkDir') /\ bkDir' \notin {NoSet, Fresh}
    BY <1>0, <1>s, <1>k, <2>1 DEF StagedIsPromised
  <2>3. CopiedSoFar' /\ ManifestIsTrue' /\ StagedIsPromised' /\ OldSetAside'
    BY <1>0, <1>w, <2>1, <2>2 DEF CopiedSoFar, ManifestIsTrue, StagedIsPromised, OldSetAside, Complete
  <2> QED
    BY <1>0, <1>d, <1>w, <2>1, <2>2, <2>3 DEF BackupInv
<1>13. CASE DropOld
  <2>1. /\ bkPc \in {"drop", "dropAside"} /\ bkPc' = "idle" /\ UNCHANGED <<bkDir, bkDest, bkDied>>
        /\ bkAside' = IF bkPc = "dropAside" THEN Front(bkAside) ELSE bkAside
    BY <1>13 DEF DropOld
  <2>2. OldSetAside'
    <3>1. CASE bkPc = "drop"
      BY <1>0, <1>w, <2>1, <3>1 DEF OldSetAside
    <3>2. CASE bkPc = "dropAside"
      <4>1. bkAside # << >> /\ bkAside' = Front(bkAside) /\ bkDir \notin {NoSet, Fresh}
        BY <1>0, <2>1, <3>2 DEF OldSetAside
      <4>2. /\ bkAside' \in Seq([Artifacts -> 0..3]) /\ Len(bkAside') = Len(bkAside) - 1
            /\ \A i \in 1..Len(bkAside') : i \in 1..Len(bkAside) /\ bkAside'[i] = bkAside[i]
        BY <1>0, <4>1, FrontIsPrefix DEF OldSetAside
      <4>3. bkAside' # << >> => 1 \in 1..Len(bkAside')
        BY <4>2
      <4> QED
        BY <1>0, <1>w, <2>1, <4>1, <4>2, <4>3 DEF OldSetAside
    <3> QED
      BY <2>1, <3>1, <3>2
  <2>3. CopiedSoFar' /\ ManifestIsTrue' /\ StagedIsPromised'
    BY <1>0, <1>w, <2>1 DEF CopiedSoFar, ManifestIsTrue, StagedIsPromised, Complete
  <2> QED
    BY <1>0, <1>d, <1>w, <2>1, <2>2, <2>3 DEF BackupInv
<1>14. CASE MoveAside
  <2>1. /\ bkPc = "swap" /\ bkPc' = "moveIn" /\ bkDir # NoSet /\ bkWorld.exchange = FALSE
        /\ bkAside' = Append(bkAside, bkDir) /\ bkDir' = NoSet
        /\ UNCHANGED <<bkStage, bkDest, bkDied>>
    BY <1>0, <1>14 DEF MoveAside, CanExchange, WorldTypes
  <2>2. bkDir \in [Artifacts -> 0..3]
    BY <1>0, SetsByPart DEF WholeSet
  <2>3. /\ bkAside' \in Seq([Artifacts -> 0..3]) /\ bkAside' # << >>
        /\ Len(bkAside') = Len(bkAside) + 1
        /\ \A i \in 1..Len(bkAside) : bkAside'[i] = bkAside[i]
        /\ bkAside'[Len(bkAside) + 1] = bkDir
    BY <1>0, <2>1, <2>2 DEF OldSetAside
  <2>4. \A i \in 1..Len(bkAside') : WholeSet(bkAside'[i]) /\ bkAside'[i] # NoSet
    BY <1>0, <2>1, <2>3 DEF OldSetAside
  <2>5. bkDied = FALSE => bkAside'[1] # Fresh
    <3>1. CASE bkAside = << >>
      BY <1>0, <2>3, <3>1 DEF OldSetAside
    <3>2. CASE bkAside # << >>
      <4>1. 1 \in 1..Len(bkAside)
        BY <1>0, <3>2 DEF OldSetAside
      <4> QED
        BY <1>0, <2>3, <3>2, <4>1 DEF OldSetAside
    <3> QED
      BY <3>1, <3>2
  <2>6. OldSetAside'
    BY <1>w, <2>1, <2>3, <2>4, <2>5 DEF OldSetAside
  <2>7. CopiedSoFar' /\ ManifestIsTrue' /\ StagedIsPromised'
    BY <1>0, <1>w, <2>1 DEF CopiedSoFar, ManifestIsTrue, StagedIsPromised, Complete
  <2> QED
    BY <1>0, <1>d, <1>k, <1>w, <2>1, <2>6, <2>7 DEF BackupInv
<1>15. CASE MoveIn
  <2>1. /\ bkPc = "moveIn" /\ UNCHANGED <<bkAside, bkDest, bkDied>>
        /\ \/ bkDir' = bkStage /\ bkPc' = "dropAside"
           \/ UNCHANGED bkDir /\ bkPc' = "idle"
    BY <1>15 DEF MoveIn
  <2>2. bkStage = Restorable /\ Usable /\ bkAside # << >>
    BY <1>0, <2>1 DEF StagedIsPromised, OldSetAside
  <2>3. WholeSet(bkDir') /\ (bkPc' = "dropAside" => bkDir' \notin {NoSet, Fresh})
    BY <1>0, <1>s, <1>k, <2>1, <2>2
  <2>4. OldSetAside'
    BY <1>0, <1>w, <2>1, <2>2, <2>3 DEF OldSetAside
  <2>5. CopiedSoFar' /\ ManifestIsTrue' /\ StagedIsPromised'
    BY <1>0, <1>w, <2>1 DEF CopiedSoFar, ManifestIsTrue, StagedIsPromised, Complete
  <2> QED
    BY <1>0, <1>d, <1>w, <2>1, <2>3, <2>4, <2>5 DEF BackupInv
<1>16. CASE MoveInFails
  <2>1. /\ bkPc = "moveIn" /\ bkPc' = "idle" /\ bkDir = NoSet /\ UNCHANGED <<bkDest, bkDied>>
        /\ bkDir' = Last(bkAside) /\ bkAside' = Front(bkAside)
    BY <1>16 DEF MoveInFails
  <2>2. bkAside # << >>
    BY <1>0, <2>1 DEF OldSetAside
  <2>3. /\ bkAside' \in Seq([Artifacts -> 0..3]) /\ Len(bkAside') = Len(bkAside) - 1
        /\ \A i \in 1..Len(bkAside') : i \in 1..Len(bkAside) /\ bkAside'[i] = bkAside[i]
        /\ Len(bkAside) \in 1..Len(bkAside) /\ bkDir' = bkAside[Len(bkAside)]
        /\ bkAside' = << >> => Len(bkAside) = 1
        /\ bkAside' # << >> => 1 \in 1..Len(bkAside')
    <3>1. bkAside \in Seq([Artifacts -> 0..3])
      BY <1>0 DEF OldSetAside
    <3> QED
      BY <2>1, <2>2, <3>1, FrontIsPrefix
  <2>4. WholeSet(bkDir') /\ bkDir' # NoSet
    BY <1>0, <2>3 DEF OldSetAside
  <2>5. bkDied = FALSE /\ bkDir' = Fresh => bkAside' # << >> /\ bkWorld.exchange = FALSE
    BY <1>0, <2>1, <2>2, <2>3 DEF OldSetAside
  <2>6. OldSetAside'
    BY <1>0, <1>w, <2>1, <2>2, <2>3, <2>4, <2>5 DEF OldSetAside
  <2>7. CopiedSoFar' /\ ManifestIsTrue' /\ StagedIsPromised'
    BY <1>0, <1>w, <2>1 DEF CopiedSoFar, ManifestIsTrue, StagedIsPromised, Complete
  <2> QED
    BY <1>0, <1>d, <1>w, <2>1, <2>4, <2>6, <2>7 DEF BackupInv
<1>17. CASE PowerLoss
  <2>0. PICK gone \in SUBSET ((Artifacts \cup {"age", "manifest"}) \ bkDest.synced) :
         bkDest' = [bkDest EXCEPT
             !.files = [a \in Artifacts |-> IF a \in gone THEN 0 ELSE bkDest.files[a]],
             !.age = IF "age" \in gone THEN NoSet ELSE bkDest.age,
             !.manifest = IF "manifest" \in gone THEN NoManifest ELSE bkDest.manifest]
    BY <1>17 DEF PowerLoss
  <2>1. bkPc' = "idle" /\ UNCHANGED <<bkDir, bkStage, bkAside, bkDied>>
    BY <1>17 DEF PowerLoss, bkFs
  <2>2. /\ bkDest'.files = [a \in Artifacts |-> IF a \in gone THEN 0 ELSE bkDest.files[a]]
        /\ bkDest'.age = (IF "age" \in gone THEN NoSet ELSE bkDest.age)
        /\ bkDest'.manifest = (IF "manifest" \in gone THEN NoManifest ELSE bkDest.manifest)
        /\ bkDest'.synced = bkDest.synced
        /\ bkDest' = [files |-> bkDest'.files, age |-> bkDest'.age,
                      manifest |-> bkDest'.manifest, synced |-> bkDest'.synced]
    BY <1>d, <2>0
  <2>3. ManifestIsTrue'
    <3>1. CASE bkDest'.manifest.written = FALSE
      BY <3>1 DEF ManifestIsTrue
    <3>2. CASE bkDest'.manifest.written # FALSE
      <4>0. NoManifest.written = FALSE
        BY DEF NoManifest
      <4>1. bkDest'.manifest = bkDest.manifest
        BY <2>2, <3>2, <4>0, Zenon
      <4>2. "age" \notin gone /\ \A a \in Artifacts : a \notin gone
        BY <1>0, <3>2, <4>1 DEF ManifestIsTrue
      <4>3. bkDest'.age = bkDest.age /\ \A a \in Artifacts : bkDest'.files[a] = bkDest.files[a]
        BY <2>2, <4>2
      <4> QED
        BY <1>0, <1>w, <2>2, <3>2, <4>1, <4>3 DEF ManifestIsTrue, Complete
    <3> QED
      BY <3>1, <3>2
  <2>4. CopiedSoFar' /\ StagedIsPromised' /\ OldSetAside'
    BY <1>0, <1>w, <2>1 DEF CopiedSoFar, StagedIsPromised, OldSetAside
  <2> QED
    BY <1>0, <1>w, <2>1, <2>2, <2>3, <2>4 DEF BackupInv
<1>18. CASE UNCHANGED bkVars
  <2>1. UNCHANGED <<bkDir, bkStage, bkAside, bkDest, bkPc, bkDied>>
    BY <1>18 DEF bkVars, bkFs
  <2>2. CopiedSoFar' /\ ManifestIsTrue' /\ StagedIsPromised' /\ OldSetAside'
    BY <1>0, <1>w, <2>1 DEF CopiedSoFar, ManifestIsTrue, StagedIsPromised, OldSetAside, Complete
  <2> QED
    BY <1>0, <1>d, <1>w, <2>1, <2>2 DEF BackupInv
<1> QED
  BY <1>1, <1>2, <1>3, <1>4, <1>5, <1>6, <1>7, <1>8, <1>9, <1>10, <1>11, <1>12, <1>13, <1>14,
     <1>15, <1>16, <1>17, <1>18 DEF BackupNext

(* The invariant says that the directory is whole and never a first boot.  *)
LEMMA BackupInvWhole == BackupInv => DirIsWhole /\ NeverFirstBoot
BY DEF BackupInv, WholeSet, WorldTypes, OldSetAside, DirIsWhole, NeverFirstBoot

-----------------------------------------------------------------------------
(* Migrations.                                                             *)

(* A schema a release or this binary can have committed: what its version  *)
(* promises is there.                                                      *)
WholeSchema(d) ==
    /\ d = [version |-> d.version, items |-> d.items] /\ d.version \in 0..13
    /\ d.version <= 12 => ItemsAt(d.version) \subseteq d.items
    /\ d.version = 13 => ItemsAt(12) \subseteq d.items

(* The inductive invariant of the opens: a transaction is one migration    *)
(* ahead of the file at most, and a store is opened at a version that has  *)
(* every table.                                                            *)
MigrationsInv ==
    /\ WholeSchema(disk)
    /\ txn = NoTxn \/ (WholeSchema(txn) /\ disk.version < 12
                         /\ txn.version \in {disk.version, disk.version + 1})
    /\ refusal # "schema"
    /\ opening = "open" => disk.version >= 12 /\ BackendTables \subseteq disk.items

(* There are twelve migrations.                                            *)
LEMMA TwelveMigrations == SCHEMA_VERSION = 12
BY DEF SCHEMA_VERSION, MIGRATIONS

(* Every database an earlier release left holds what its version promises. *)
LEMMA MigrationsInvInit == MigrationsInit => MigrationsInv
<1> SUFFICES ASSUME MigrationsInit PROVE MigrationsInv
  OBVIOUS
<1>1. txn = NoTxn /\ opening = "closed" /\ refusal = "none"
  BY DEF MigrationsInit
<1>2. WholeSchema(disk)
  <2>1. CASE disk = NoSchema
    BY <2>1 DEF NoSchema, WholeSchema, ItemsAt
  <2>2. CASE disk \in Left
    <3>1. PICK l : /\ l[3] \in 0..SCHEMA_VERSION
                   /\ disk = [version |-> l[3],
                              items |-> BaseOf(l[1], l[2]) \cup ItemsAt(l[3]) \cup l[4]]
      BY <2>2 DEF Left
    <3>2. /\ disk.version \in 0..12 /\ ItemsAt(disk.version) \subseteq disk.items
          /\ disk = [version |-> disk.version, items |-> disk.items]
      BY <3>1, TwelveMigrations
    <3> QED
      BY <3>2 DEF WholeSchema
  <2>3. CASE disk = [version |-> SCHEMA_VERSION + 1,
                     items |-> ItemsAt(SCHEMA_VERSION) \cup {"later"}]
    BY <2>3, TwelveMigrations DEF WholeSchema
  <2> QED
    BY <2>1, <2>2, <2>3 DEF MigrationsInit
<1> QED
  BY <1>1, <1>2 DEF MigrationsInv

(* A batch that meets no duplicate column leaves all of its items, and a   *)
(* batch cut short keeps what was there.                                   *)
LEMMA BatchAdds ==
    ASSUME NEW stmts, NEW have
    PROVE  /\ have \subseteq AfterBatch(stmts, have)
           /\ ~BatchFails(stmts, have) => Items(stmts) \subseteq AfterBatch(stmts, have)
<1>1. have \subseteq AfterBatch(stmts, have)
  BY DEF AfterBatch
<1>2. ASSUME ~BatchFails(stmts, have), NEW i \in DOMAIN stmts
      PROVE  stmts[i].item \in AfterBatch(stmts, have)
  <2>1. FirstDuplicate(stmts, have) = {}
    BY <1>2 DEF BatchFails
  <2>2. i \in {k \in DOMAIN stmts : \A f \in FirstDuplicate(stmts, have) : k < f}
    BY <2>1
  <2> QED
    BY <2>2 DEF AfterBatch
<1> QED
  BY <1>1, <1>2 DEF Items

(* Only three migrations add columns to a table.                           *)
LEMMA FewAlter ==
    ASSUME NEW c \in (0..11) \ {2, 3, 10}
    PROVE  \A i \in DOMAIN MIGRATIONS[c + 1] : MIGRATIONS[c + 1][i].alter = FALSE
<1>1. CASE c = 0
  BY <1>1 DEF CreateItem, MIGRATIONS, SCHEMA
<1>2. CASE c = 1
  BY <1>2 DEF CreateItem, MIGRATIONS, M2_SEEN_MESSAGE
<1>3. CASE c = 4
  BY <1>3 DEF CreateItem, MIGRATIONS, M5_IDEMPOTENCY_CACHE_INDEXES
<1>4. CASE c = 5
  BY <1>4 DEF CreateItem, MIGRATIONS, M6_EVENT_LOG_INDEXES
<1>5. CASE c = 6
  BY <1>5 DEF CreateItem, MIGRATIONS, M7_TEARDOWN_FAILURE
<1>6. CASE c = 7
  BY <1>6 DEF CreateItem, MIGRATIONS, M8_SWEEP_ATTEMPT
<1>7. CASE c = 8
  BY <1>7 DEF CreateItem, MIGRATIONS, M9_TERMINAL_ROW_REAPER_INDEXES
<1>8. CASE c = 9
  BY <1>8 DEF CreateItem, MIGRATIONS, M10_CLEAR_STALE_DEADLINE_CURSORS
<1>9. CASE c = 11
  BY <1>9 DEF CreateItem, MIGRATIONS, M12_ADR0022_FENCE_AND_MARKER
<1>10. c \in {0, 1, 4, 5, 6, 7, 8, 9, 11}
  OBVIOUS
<1> QED
  BY <1>10, <1>1, <1>2, <1>3, <1>4, <1>5, <1>6, <1>7, <1>8, <1>9

(* A migration succeeds on whatever it finds and leaves all of its items:  *)
(* the self-heals cover every duplicate a cut upgrade can have left.       *)
LEMMA MigratesWhateverIsThere ==
    ASSUME NEW c \in 0..11, NEW have
    PROVE  /\ Migrated1(c, have).ok
           /\ have \subseteq Migrated1(c, have).items
           /\ Items(MIGRATIONS[c + 1]) \subseteq Migrated1(c, have).items
           /\ c = 11 => FenceColumns \subseteq Migrated1(c, have).items
<1> DEFINE stmts == MIGRATIONS[c + 1]
<1>1. CASE c = 2
  <2>1. stmts = <<AddColumn("suspend_not_before")>>
    BY <1>1 DEF MIGRATIONS, M3_SUSPEND_NOT_BEFORE
  <2>2. /\ Items(stmts) = {"suspend_not_before"}
        /\ "suspend_not_before" \notin have => ~BatchFails(stmts, have)
    BY <2>1 DEF Items, AddColumn, BatchFails, FirstDuplicate
  <2>3. CASE "suspend_not_before" \in have
    BY <1>1, <2>2, <2>3 DEF Migrated1
  <2>4. CASE "suspend_not_before" \notin have
    <3>1. Migrated1(c, have) = [ok |-> TRUE, items |-> AfterBatch(stmts, have)]
      BY <1>1, <2>2, <2>4 DEF Migrated1
    <3> QED
      BY <1>1, <2>2, <2>4, <3>1, BatchAdds
  <2> QED
    BY <2>3, <2>4
<1>2. CASE c = 3
  <2>1. stmts = <<AddColumn("resolved_bolt11"), AddColumn("resolved_expiry"),
                  AddColumn("resolution_gen")>>
    BY <1>2 DEF MIGRATIONS, M4_REFUND_RESOLUTION
  <2>2. Items(stmts) \subseteq ResolverColumns
    BY <2>1 DEF Items, AddColumn, ResolverColumns
  <2>3. CASE BatchFails(stmts, have)
    <3>1. Migrated1(c, have) = [ok |-> TRUE, items |-> AfterBatch(stmts, have) \cup ResolverColumns]
      <4>1. Migrated1(c, have) = [ok |-> HealableAt(c), items |-> Heals(c, AfterBatch(stmts, have))]
        BY <1>2, <2>3 DEF Migrated1
      <4>2. HealableAt(c) = TRUE /\ \A h : Heals(c, h) = h \cup ResolverColumns
        BY <1>2 DEF HealableAt, Heals
      <4> QED
        BY <4>1, <4>2
    <3> QED
      BY <1>2, <2>2, <3>1, BatchAdds
  <2>4. CASE ~BatchFails(stmts, have)
    <3>1. Migrated1(c, have) = [ok |-> TRUE, items |-> AfterBatch(stmts, have)]
      BY <1>2, <2>4 DEF Migrated1
    <3> QED
      BY <1>2, <2>4, <3>1, BatchAdds
  <2> QED
    BY <2>3, <2>4
<1>3. CASE c = 10
  <2>1. stmts = <<AddColumn("received_msat")>>
    BY <1>3 DEF MIGRATIONS, M11_INVOICE_RECEIVED_MSAT
  <2>2. /\ Items(stmts) = {"received_msat"}
        /\ BatchFails(stmts, have) => "received_msat" \in have
    BY <2>1 DEF Items, AddColumn, BatchFails, FirstDuplicate
  <2>3. CASE BatchFails(stmts, have)
    <3>1. Migrated1(c, have) = [ok |-> TRUE, items |-> AfterBatch(stmts, have)]
      <4>1. Migrated1(c, have) = [ok |-> HealableAt(c), items |-> Heals(c, AfterBatch(stmts, have))]
        BY <1>3, <2>3 DEF Migrated1
      <4>2. HealableAt(c) = TRUE /\ \A h : Heals(c, h) = h
        BY <1>3 DEF HealableAt, Heals
      <4> QED
        BY <4>1, <4>2
    <3> QED
      BY <1>3, <2>2, <2>3, <3>1, BatchAdds
  <2>4. CASE ~BatchFails(stmts, have)
    <3>1. Migrated1(c, have) = [ok |-> TRUE, items |-> AfterBatch(stmts, have)]
      BY <1>3, <2>4 DEF Migrated1
    <3> QED
      BY <1>3, <2>4, <3>1, BatchAdds
  <2> QED
    BY <2>3, <2>4
<1>4. CASE c \notin {2, 3, 10}
  <2> DEFINE start == have \cup (CASE c = 11 -> FenceColumns
                                   [] c = 0 /\ "base" \notin have -> BaseColumns
                                   [] OTHER -> {})
  <2>1. \A i \in DOMAIN stmts : stmts[i].alter = FALSE
    BY <1>4, FewAlter
  <2>2. ~BatchFails(stmts, start)
    BY <2>1, Zenon DEF BatchFails, FirstDuplicate
  <2>3. Migrated1(c, have) = [ok |-> TRUE, items |-> AfterBatch(stmts, start)]
    BY <1>4, <2>2 DEF Migrated1
  <2>4. have \subseteq start /\ (c = 11 => FenceColumns \subseteq start)
    OBVIOUS
  <2> HIDE DEF start
  <2>5. start \subseteq AfterBatch(stmts, start) /\ Items(stmts) \subseteq AfterBatch(stmts, start)
    BY <2>2, BatchAdds
  <2> QED
    BY <2>3, <2>4, <2>5
<1> QED
  BY <1>1, <1>2, <1>3, <1>4

(* The next version promises what the last one did and its migration adds. *)
LEMMA NextItems ==
    ASSUME NEW v \in 0..11, NEW items,
           ItemsAt(v) \subseteq items, Items(MIGRATIONS[v + 1]) \subseteq items,
           v = 11 => FenceColumns \subseteq items
    PROVE  ItemsAt(v + 1) \subseteq items
<1>1. "base" \in items
  <2>1. CASE v = 0
    <3>1. "base" \in Items(MIGRATIONS[1])
      <4>1. MIGRATIONS[1] = SCHEMA
        BY DEF MIGRATIONS
      <4>2. 1 \in DOMAIN SCHEMA /\ SCHEMA[1].item = "base"
        BY DEF SCHEMA, CreateItem
      <4> QED
        BY <4>1, <4>2 DEF Items
    <3> QED
      BY <2>1, <3>1
  <2>2. CASE v # 0
    BY <2>2 DEF ItemsAt
  <2> QED
    BY <2>1, <2>2
<1>2. ASSUME NEW i \in 2..(v + 1) PROVE Items(MIGRATIONS[i]) \subseteq items
  <2>1. CASE i = v + 1
    BY <2>1
  <2>2. CASE i \in 2..v
    BY <2>2 DEF ItemsAt
  <2> QED
    BY <1>2, <2>1, <2>2
<1>3. v + 1 >= 12 => FenceColumns \subseteq items
  OBVIOUS
<1> DEFINE start == IF v + 1 = 0 THEN {} ELSE {"base"}
           added == UNION {Items(MIGRATIONS[i]) : i \in 2..(v + 1)}
           fence == IF v + 1 >= 12 THEN FenceColumns ELSE {}
<1>4. ItemsAt(v + 1) = start \cup added \cup fence
  BY DEF ItemsAt
<1>5. start \subseteq items /\ added \subseteq items /\ fence \subseteq items
  BY <1>1, <1>2, <1>3
<1> HIDE DEF start, added, fence
<1> QED
  BY <1>4, <1>5

(* Every step of an open keeps the invariant.                              *)
LEMMA MigrationsInvStep == MigrationsInv /\ [MigrationsNext]_mgVars => MigrationsInv'
<1> SUFFICES ASSUME MigrationsInv, [MigrationsNext]_mgVars PROVE MigrationsInv'
  OBVIOUS
<1>0. /\ WholeSchema(disk) /\ refusal # "schema"
      /\ txn = NoTxn \/ (WholeSchema(txn) /\ disk.version < 12
                           /\ txn.version \in {disk.version, disk.version + 1})
      /\ opening = "open" => disk.version >= 12 /\ BackendTables \subseteq disk.items
  BY DEF MigrationsInv
<1>1. CASE OpenFile \/ QuickCheck \/ StepFails \/ Killed
  <2>1. /\ disk' = disk /\ opening' # "open" /\ refusal' \in {refusal, "empty", "corrupt", "io"}
        /\ txn' \in {txn, NoTxn}
    BY <1>1 DEF OpenFile, QuickCheck, StepFails, Killed, FailOpen
  <2> QED
    BY <1>0, <2>1 DEF MigrationsInv
<1>2. CASE BeginMigration
  <2>1. disk.version < 12 /\ txn' = disk /\ UNCHANGED <<disk, opening, refusal>>
    BY <1>2, TwelveMigrations DEF BeginMigration
  <2> QED
    BY <1>0, <2>1 DEF MigrationsInv
<1>3. CASE ApplyMigration
  <2>1. /\ txn # NoTxn /\ txn.version = disk.version /\ disk' = disk
        /\ opening = "migrating"
    BY <1>3 DEF ApplyMigration
  <2>2. disk.version \in 0..11 /\ ItemsAt(disk.version) \subseteq txn.items
    BY <1>0, <2>1 DEF WholeSchema
  <2> DEFINE m == Migrated1(disk.version, txn.items)
  <2>3. /\ m.ok /\ txn.items \subseteq m.items
        /\ Items(MIGRATIONS[disk.version + 1]) \subseteq m.items
        /\ disk.version = 11 => FenceColumns \subseteq m.items
    BY <2>2, MigratesWhateverIsThere
  <2>4. /\ txn' = [version |-> disk.version + 1, items |-> m.items]
        /\ opening' = opening /\ refusal' = refusal
    BY <1>3, <2>3 DEF ApplyMigration
  <2> HIDE DEF m
  <2>5. ItemsAt(disk.version + 1) \subseteq m.items
    <3>1. ItemsAt(disk.version) \subseteq m.items
      BY <2>2, <2>3
    <3> QED
      BY <2>2, <2>3, <3>1, NextItems
  <2>6. WholeSchema(txn')
    BY <2>2, <2>4, <2>5 DEF WholeSchema
  <2> QED
    BY <1>0, <2>1, <2>2, <2>4, <2>6 DEF MigrationsInv
<1>4. CASE CommitMigration
  <2>1. /\ txn # NoTxn /\ disk' = txn /\ txn' = NoTxn /\ opening = "migrating"
        /\ UNCHANGED <<opening, refusal>>
    BY <1>4 DEF CommitMigration
  <2> QED
    BY <1>0, <2>1 DEF MigrationsInv
<1>5. CASE ApplyBackendSchemas
  <2>1. /\ txn = NoTxn /\ disk.version >= 12 /\ UNCHANGED <<txn, refusal>>
        /\ disk' = [disk EXCEPT !.items = disk.items \cup BackendTables]
    BY <1>5, TwelveMigrations DEF ApplyBackendSchemas
  <2>2. /\ disk'.version = disk.version /\ disk'.items = disk.items \cup BackendTables
        /\ disk' = [version |-> disk'.version, items |-> disk'.items]
    BY <1>0, <2>1 DEF WholeSchema
  <2>3. WholeSchema(disk')
    BY <1>0, <2>2 DEF WholeSchema
  <2> QED
    BY <1>0, <2>1, <2>2, <2>3 DEF MigrationsInv
<1>6. CASE StartAgain
  <2>1. opening' = "closed" /\ refusal' = "none" /\ UNCHANGED <<disk, txn>>
    BY <1>6 DEF StartAgain
  <2> QED
    BY <1>0, <2>1 DEF MigrationsInv
<1>7. CASE UNCHANGED mgVars
  <2>1. UNCHANGED <<disk, txn, opening, refusal>>
    BY <1>7 DEF mgVars
  <2> QED
    BY <1>0, <2>1 DEF MigrationsInv
<1> QED
  BY <1>1, <1>2, <1>3, <1>4, <1>5, <1>6, <1>7 DEF MigrationsNext

(* The invariant contains the property.                                    *)
LEMMA MigrationsInvWhole == MigrationsInv => VersionIsWhole
<1> SUFFICES ASSUME MigrationsInv PROVE VersionIsWhole
  OBVIOUS
<1>1. WholeSchema(disk) /\ refusal # "schema"
      /\ (opening = "open" => disk.version >= 12 /\ BackendTables \subseteq disk.items)
  BY DEF MigrationsInv
<1>2. disk.version \in 0..13 /\ (disk.version >= 12 => ItemsAt(12) \subseteq disk.items)
      /\ (disk.version <= 12 => ItemsAt(disk.version) \subseteq disk.items)
  BY <1>1 DEF WholeSchema
<1> QED
  BY <1>1, <1>2, TwelveMigrations DEF VersionIsWhole

-----------------------------------------------------------------------------
(* The supervisor.                                                         *)

(* The types of loops, tasks and flags.                                    *)
SupervisorTypes ==
    /\ loops \in [Loops -> {"run", "busy", "nudge", "pass", "drain", "off", "stopped"}]
    /\ handlers \in Nat
    /\ stage \in {"up", "inbound", "join", "outbox", "down"}
    /\ inbound \in {"run", "off", "draining", "stopped"}

(* Past the inbound drain nothing accepts, and what was accepted is done   *)
(* unless a window was overrun.                                            *)
InboundIsDrained ==
    /\ inbound \in {"draining", "stopped"} => auxiliary = FALSE
    /\ stage \in {"join", "outbox", "down"} => inbound = "stopped"
    /\ inbound = "stopped" => handlers = 0 \/ excused = TRUE

(* Past the join no loop runs, and the last drain has sent everything or   *)
(* is excused.                                                             *)
LoopsAreJoined ==
    /\ stage \in {"outbox", "down"} => \A l \in Loops : loops[l] = "stopped"
    /\ stage = "down" => unsent = FALSE \/ excused = TRUE

(* Work nobody looked at is about to be looked at.                         *)
WakeUpKept ==
    work = "nudged" /\ stage = "up" =>
        \/ permit = TRUE \/ tickDue = TRUE
        \/ loops["maintenance"] \in {"pass", "off"}
        \/ \E l \in Nudging : loops[l] = "nudge"

(* The inductive invariant of the supervisor.                              *)
SupervisorInv == SupervisorTypes /\ InboundIsDrained /\ LoopsAreJoined /\ WakeUpKept

(* The daemon comes up with a tick due.                                    *)
LEMMA SupervisorInvInit == SupervisorInit => SupervisorInv
BY DEF SupervisorInit, SupervisorInv, SupervisorTypes, InboundIsDrained, LoopsAreJoined, WakeUpKept

(* Every step of a loop, a handler or the shutdown keeps the invariant.    *)
LEMMA SupervisorInvStep == SupervisorInv /\ [SupervisorNext]_svVars => SupervisorInv'
<1> SUFFICES ASSUME SupervisorInv, [SupervisorNext]_svVars PROVE SupervisorInv'
  OBVIOUS
<1>0. "maintenance" \in Loops /\ Nudging \subseteq Loops /\ "maintenance" \notin Nudging
  BY DEF Loops, Nudging
<1> USE <1>0 DEF SupervisorInv, SupervisorTypes, InboundIsDrained, LoopsAreJoined, WakeUpKept,
        SetLoop, inboundVars, Stopping, outsideInbound
<1>1. ASSUME NEW l \in Loops, TakesItem(l) PROVE SupervisorInv'
  BY <1>1 DEF TakesItem
<1>2. ASSUME NEW l \in Loops, ChildEnds(l) PROVE SupervisorInv'
  BY <1>2 DEF ChildEnds
<1>3. ASSUME NEW l \in Loops, ChildRestarts(l) PROVE SupervisorInv'
  BY <1>3 DEF ChildRestarts
<1>4. ASSUME NEW l \in Loops, LoopStops(l) PROVE SupervisorInv'
  BY <1>4 DEF LoopStops
<1>5. ASSUME NEW l \in Loops, LoopAborted(l) PROVE SupervisorInv'
  BY <1>5 DEF LoopAborted
<1>6. ASSUME NEW l \in Loops, Nudge(l) PROVE SupervisorInv'
  BY <1>6 DEF Nudge, NotifyOne
<1>7. ASSUME NEW l \in Loops, NEW money \in BOOLEAN, NEW row \in BOOLEAN, CommitsItem(l, money, row)
      PROVE  SupervisorInv'
  BY <1>7 DEF CommitsItem
<1>8. CASE PassBegins
  BY <1>8 DEF PassBegins
<1>9. CASE IntervalElapses
  BY <1>9 DEF IntervalElapses
<1>10. ASSUME NEW b \in BOOLEAN, PassDrives(b) PROVE SupervisorInv'
  BY <1>10 DEF PassDrives
<1>11. ASSUME NEW b \in BOOLEAN, PassDrains(b) PROVE SupervisorInv'
  BY <1>11 DEF PassDrains
<1>12. ASSUME NEW b \in BOOLEAN, HandlerEnds(b) PROVE SupervisorInv'
  <2>1. UNCHANGED <<stage, loops, inbound, auxiliary, permit, tickDue, work, excused>>
    BY <1>12 DEF HandlerEnds
  <2>2. handlers # 0 /\ handlers' \in Nat /\ stage # "down"
    BY <1>12 DEF HandlerEnds
  <2>3. SupervisorTypes' /\ InboundIsDrained'
    BY <2>1, <2>2
  <2>4. LoopsAreJoined' /\ WakeUpKept'
    BY <2>1, <2>2
  <2> QED
    BY <2>3, <2>4
<1>13. ASSUME NEW b \in BOOLEAN, FinalDrain(b) PROVE SupervisorInv'
  BY <1>13 DEF FinalDrain
<1>14. CASE Accepts \/ FetchesBacklog \/ BacklogEnds
  <2>1. UNCHANGED <<stage, loops, inbound, permit, tickDue, work, unsent, excused>>
    BY <1>14 DEF Accepts, FetchesBacklog, BacklogEnds
  <2>2. inbound \in {"draining", "stopped"} => UNCHANGED handlers /\ auxiliary' = FALSE
    BY <1>14 DEF Accepts, FetchesBacklog, BacklogEnds
  <2>3. handlers' \in Nat
    BY <1>14 DEF Accepts, FetchesBacklog, BacklogEnds
  <2>4. SupervisorTypes' /\ InboundIsDrained'
    BY <2>1, <2>2, <2>3
  <2>5. LoopsAreJoined' /\ WakeUpKept'
    BY <2>1
  <2> QED
    BY <2>4, <2>5
<1>15. CASE InboundEnds \/ InboundRestarts \/ DrainRunning \/ DrainStopped
  BY <1>15 DEF InboundEnds, InboundRestarts, DrainRunning, DrainStopped, StoppedDrain
<1>16. CASE Drained
  BY <1>16 DEF Drained
<1>19. CASE DrainTimesOut
  BY <1>19 DEF DrainTimesOut
<1>20. CASE Signal
  BY <1>20 DEF Signal
<1>17. CASE InboundJoined \/ InboundGraceEnds \/ LoopsJoined
  BY <1>17 DEF InboundJoined, InboundGraceEnds, LoopsJoined
<1>18. CASE UNCHANGED svVars
  BY <1>18 DEF svVars
<1> QED
  BY <1>1, <1>2, <1>3, <1>4, <1>5, <1>6, <1>7, <1>8, <1>9, <1>10, <1>11, <1>12, <1>13, <1>14,
     <1>15, <1>16, <1>17, <1>18, <1>19, <1>20 DEF SupervisorNext

(* The invariant says that nothing is left unsent and no nudge is lost.    *)
LEMMA SupervisorInvDrains == SupervisorInv => NothingLeftUnsent /\ NudgeKept
BY DEF SupervisorInv, SupervisorTypes, InboundIsDrained, LoopsAreJoined, WakeUpKept, NothingLeftUnsent,
   NudgeKept

-----------------------------------------------------------------------------
(* The operator's socket.                                                  *)

(* The types of the clock, the signal and the connections.                 *)
IpcTypes ==
    /\ ipcTick \in Nat
    /\ serving \in {"starting", "accept", "drain", "stopped"}
    /\ signalled \subseteq Nat
    /\ \A t \in signalled : t <= ipcTick
    /\ peer \in [Peers -> [at : {"none", "reading", "timedout", "dispatch", "committed", "writing"},
                           req : {"none"} \cup ReadOnly \cup FastMutating \cup SlowMutating,
                           since : Nat]]
    /\ \A p \in Peers : peer[p].since <= ipcTick

(* One signal, which the serving loop sees before the clock moves on.      *)
OneSignal ==
    /\ \A t, u \in signalled : t = u
    /\ serving = "accept" => \A t \in signalled : ipcTick = t
    /\ serving = "drain" => token = TRUE

(* A connection has a handler only while the loop serves or drains.        *)
ServedOnly == serving \in {"starting", "stopped"} => \A p \in Peers : peer[p].at = "none"

(* Each bounded stage is within its bound.                                 *)
StagesAreBounded ==
    \A p \in Peers :
        /\ peer[p].at = "reading" => ipcTick <= peer[p].since + ReadDeadline
        /\ peer[p].at = "timedout" => ipcTick <= peer[p].since + WriteBound
        /\ peer[p].at = "dispatch" /\ peer[p].req \in FastMutating => ipcTick <= peer[p].since + TxnBound

(* What is left in the drain started early enough to be over in its        *)
(* window, but for a slow mutating command.                                *)
StartedInTime ==
    serving = "drain" =>
      \A t \in signalled, p \in Peers :
        /\ peer[p].at = "reading" => peer[p].since <= t
        /\ peer[p].at \in {"timedout", "dispatch"} => peer[p].since <= t + ReadDeadline
        /\ peer[p].at = "dispatch" /\ ~IsMutating(peer[p].req) => ipcTick <= t + ReadDeadline
        /\ peer[p].at \in {"committed", "writing"} /\ peer[p].req \notin SlowMutating =>
              ipcTick <= t + ReadDeadline + TxnBound

(* What held a drain past its window is on record.                         *)
HeldBySlow == (pinned # {} => pinned \cap SlowMutating # {}) /\ unheard = FALSE

(* The inductive invariant of the socket.                                  *)
IpcInv == IpcTypes /\ OneSignal /\ ServedOnly /\ StagesAreBounded /\ StartedInTime /\ HeldBySlow

(* The bounds are natural numbers.                                         *)
LEMMA IpcBounds ==
    /\ ReadDeadline \in Nat /\ WriteBound \in Nat /\ TxnBound \in Nat /\ DrainWindow \in Nat
    /\ ReadDeadline + WriteBound < DrainWindow /\ ReadDeadline + TxnBound < DrainWindow
BY IpcAssumption

(* No connection is open at the start.                                     *)
LEMMA IpcInvInit == IpcInit => IpcInv
BY IpcBounds DEF IpcInit, IpcInv, IpcTypes, OneSignal, ServedOnly, StagesAreBounded, StartedInTime,
   HeldBySlow, NoConn

(* Entering a stage sets the connection's record and starts its clock.     *)
LEMMA Entered ==
    ASSUME NEW p \in Peers, IpcTypes,
           NEW at \in {"none", "reading", "timedout", "dispatch", "committed", "writing"},
           NEW r \in {"none"} \cup ReadOnly \cup FastMutating \cup SlowMutating,
           Enter(p, at, r), UNCHANGED Bystanders
    PROVE  /\ IpcTypes'
           /\ peer'[p].at = at /\ peer'[p].req = r /\ peer'[p].since = ipcTick
           /\ \A q \in Peers \ {p} : peer'[q] = peer[q]
BY DEF Enter, IpcTypes, Bystanders

(* A stage that is entered within its bounds keeps the invariant.          *)
LEMMA EnteredInTime ==
    ASSUME IpcInv, NEW p \in Peers, serving \in {"accept", "drain"},
           NEW at \in {"none", "reading", "timedout", "dispatch", "committed", "writing"},
           NEW r \in {"none"} \cup ReadOnly \cup FastMutating \cup SlowMutating,
           Enter(p, at, r), UNCHANGED Bystanders,
           serving = "drain" =>
              \A t \in signalled :
                /\ at # "reading"
                /\ at \in {"timedout", "dispatch"} => ipcTick <= t + ReadDeadline
                /\ at \in {"committed", "writing"} /\ r \notin SlowMutating =>
                      ipcTick <= t + ReadDeadline + TxnBound
    PROVE  IpcInv'
<1>0. IpcTypes /\ OneSignal /\ ServedOnly /\ StagesAreBounded /\ StartedInTime /\ HeldBySlow
  BY DEF IpcInv
<1>1. /\ IpcTypes'
      /\ peer'[p].at = at /\ peer'[p].req = r /\ peer'[p].since = ipcTick
      /\ \A q \in Peers \ {p} : peer'[q] = peer[q]
  BY <1>0, Entered
<1>2. UNCHANGED <<ipcTick, serving, sock, token, signalled, unheard, pinned, cut>>
  BY DEF Bystanders
<1>3. OneSignal' /\ ServedOnly' /\ HeldBySlow'
  BY <1>0, <1>2 DEF OneSignal, ServedOnly, HeldBySlow
<1>4. StagesAreBounded'
  BY <1>0, <1>1, <1>2, IpcBounds DEF StagesAreBounded, IpcTypes
<1>5. StartedInTime'
  <2>1. SUFFICES ASSUME serving = "drain", NEW t \in signalled, NEW q \in Peers
                 PROVE  /\ peer'[q].at = "reading" => peer'[q].since <= t
                        /\ peer'[q].at \in {"timedout", "dispatch"} => peer'[q].since <= t + ReadDeadline
                        /\ peer'[q].at = "dispatch" /\ ~IsMutating(peer'[q].req) =>
                              ipcTick <= t + ReadDeadline
                        /\ peer'[q].at \in {"committed", "writing"} /\ peer'[q].req \notin SlowMutating =>
                              ipcTick <= t + ReadDeadline + TxnBound
    BY <1>2 DEF StartedInTime
  <2>2. CASE q = p
    BY <2>1, <2>2, <1>1
  <2>3. CASE q # p
    BY <2>1, <2>3, <1>0, <1>1 DEF StartedInTime
  <2> QED
    BY <2>2, <2>3
<1> QED
  BY <1>1, <1>3, <1>4, <1>5 DEF IpcInv

(* Every step of the server, a handler or the clock keeps the invariant.   *)
LEMMA IpcInvStep == IpcInv /\ [IpcNext]_ipcVars => IpcInv'
<1> SUFFICES ASSUME IpcInv, [IpcNext]_ipcVars PROVE IpcInv'
  OBVIOUS
<1>0. IpcTypes /\ OneSignal /\ ServedOnly /\ StagesAreBounded /\ StartedInTime /\ HeldBySlow
  BY DEF IpcInv
<1>1. CASE EvictUnsafe \/ BindStaged
  BY <1>0, <1>1 DEF EvictUnsafe, BindStaged, IpcInv, IpcTypes, OneSignal, ServedOnly, StagesAreBounded,
     StartedInTime, HeldBySlow
<1>2. CASE SignalIpc
  <2>1. IpcTypes' /\ HeldBySlow' /\ StagesAreBounded'
    BY <1>0, <1>2 DEF SignalIpc, IpcTypes, HeldBySlow, StagesAreBounded
  <2>2. OneSignal' /\ ServedOnly'
    BY <1>0, <1>2 DEF SignalIpc, IpcTypes, OneSignal, ServedOnly
  <2>3. StartedInTime'
    <3>1. serving' = "drain" => serving = "drain"
      BY <1>2 DEF SignalIpc
    <3>2. signalled = {} /\ signalled' = {ipcTick} /\ UNCHANGED <<ipcTick, peer>>
      BY <1>2 DEF SignalIpc
    <3> QED
      BY <1>0, <3>1, <3>2, IpcBounds DEF StartedInTime, IpcTypes
  <2> QED
    BY <2>1, <2>2, <2>3 DEF IpcInv
<1>3. CASE ServeSeesSignal
  BY <1>0, <1>3, IpcBounds DEF ServeSeesSignal, IpcInv, IpcTypes, OneSignal, ServedOnly,
     StagesAreBounded, StartedInTime, HeldBySlow
<1>4. CASE DrainDone
  <2>1. IpcTypes' /\ StagesAreBounded' /\ HeldBySlow'
    BY <1>0, <1>4 DEF DrainDone, IpcTypes, StagesAreBounded, HeldBySlow
  <2>2. OneSignal' /\ ServedOnly' /\ StartedInTime'
    BY <1>0, <1>4 DEF DrainDone, OneSignal, ServedOnly, StartedInTime
  <2> QED
    BY <2>1, <2>2 DEF IpcInv
<1>5. CASE DrainAborted
  <2>1. PICK t \in signalled : ipcTick = t + DrainWindow
    BY <1>5 DEF DrainAborted, WindowOver
  <2>2. serving = "drain"
    BY <1>5 DEF DrainAborted, WindowOver
  <2>3. \A p \in Peers : peer[p].at # "none" => peer[p].req \in SlowMutating
    <3> SUFFICES ASSUME NEW p \in Peers, peer[p].at # "none", peer[p].req \notin SlowMutating
                 PROVE  FALSE
      OBVIOUS
    <3>1. t \in Nat /\ peer[p].since \in Nat
      BY <1>0, <2>1 DEF IpcTypes
    <3>2. CASE peer[p].at = "reading"
      BY <1>0, <2>1, <2>2, <3>1, <3>2, IpcBounds DEF StagesAreBounded, StartedInTime
    <3>3. CASE peer[p].at = "timedout"
      BY <1>0, <2>1, <2>2, <3>1, <3>3, IpcBounds DEF StagesAreBounded, StartedInTime
    <3>4. CASE peer[p].at = "dispatch"
      <4>1. peer[p].req \in FastMutating \/ ~IsMutating(peer[p].req)
        BY DEF IsMutating
      <4> QED
        BY <1>0, <2>1, <2>2, <3>1, <3>4, <4>1, IpcBounds DEF StagesAreBounded, StartedInTime
    <3>5. CASE peer[p].at \in {"committed", "writing"}
      BY <1>0, <2>1, <2>2, <3>1, <3>5, IpcBounds DEF StartedInTime
    <3> QED
      BY <1>0, <3>2, <3>3, <3>4, <3>5 DEF IpcTypes
  <2>4. FastMutating \cap SlowMutating = {}
    BY DEF FastMutating, SlowMutating
  <2>5. unheard' = FALSE
    BY <1>5, <2>3, <2>4 DEF DrainAborted
  <2>6. pinned' # {} => pinned' \cap SlowMutating # {}
    BY <1>5, <2>3 DEF DrainAborted
  <2>7. IpcTypes'
    BY <1>0, <1>5 DEF DrainAborted, IpcTypes, NoConn
  <2>8. OneSignal' /\ ServedOnly' /\ StagesAreBounded' /\ StartedInTime'
    BY <1>0, <1>5 DEF DrainAborted, OneSignal, ServedOnly, StagesAreBounded, StartedInTime, NoConn
  <2> QED
    BY <2>5, <2>6, <2>7, <2>8 DEF IpcInv, HeldBySlow
<1>6. CASE AcceptFails
  <2>1. IpcTypes'
    BY <1>0, <1>6 DEF AcceptFails, IpcTypes, NoConn
  <2>2. OneSignal' /\ ServedOnly' /\ StagesAreBounded' /\ StartedInTime' /\ HeldBySlow'
    BY <1>0, <1>6 DEF AcceptFails, OneSignal, ServedOnly, StagesAreBounded, StartedInTime, NoConn,
       HeldBySlow
  <2> QED
    BY <2>1, <2>2 DEF IpcInv
<1>7. CASE IpcTicks
  <2>0. /\ UNCHANGED <<serving, peer, token, signalled, unheard, pinned>>
        /\ ipcTick' = ipcTick + 1
        /\ serving = "accept" => signalled = {}
        /\ serving \in {"accept", "drain"} => \A p \in Peers : Stays(p)
    BY <1>7 DEF IpcTicks
  <2>1. IpcTypes'
    <3>1. ipcTick' \in Nat /\ ipcTick <= ipcTick'
      BY <1>0, <2>0 DEF IpcTypes
    <3>2. \A t \in Nat : t <= ipcTick => t <= ipcTick'
      BY <1>0, <2>0 DEF IpcTypes
    <3> QED
      BY <1>0, <2>0, <3>1, <3>2 DEF IpcTypes
  <2>2. OneSignal' /\ ServedOnly' /\ HeldBySlow'
    BY <1>0, <2>0 DEF OneSignal, ServedOnly, HeldBySlow
  <2>3. StagesAreBounded'
    <3> SUFFICES ASSUME NEW p \in Peers, peer[p].at # "none"
                 PROVE  /\ peer[p].at = "reading" => ipcTick' <= peer[p].since + ReadDeadline
                        /\ peer[p].at = "timedout" => ipcTick' <= peer[p].since + WriteBound
                        /\ peer[p].at = "dispatch" /\ peer[p].req \in FastMutating =>
                              ipcTick' <= peer[p].since + TxnBound
      BY <2>0 DEF StagesAreBounded
    <3>1. Stays(p) /\ peer[p].since \in Nat /\ ipcTick \in Nat
      BY <1>0, <2>0 DEF ServedOnly, IpcTypes
    <3>2. peer[p].at = "reading" => ipcTick' <= peer[p].since + ReadDeadline
      BY <1>0, <2>0, <3>1, IpcBounds DEF Stays, ReadExpires, StagesAreBounded
    <3>3. peer[p].at = "timedout" => ipcTick' <= peer[p].since + WriteBound
      BY <2>0, <3>1, IpcBounds DEF Stays
    <3>4. peer[p].at = "dispatch" /\ peer[p].req \in FastMutating => ipcTick' <= peer[p].since + TxnBound
      BY <2>0, <3>1, IpcBounds DEF Stays
    <3> QED
      BY <3>2, <3>3, <3>4
  <2>4. StartedInTime'
    <3> SUFFICES ASSUME serving = "drain", NEW t \in signalled, NEW p \in Peers
                 PROVE  /\ peer[p].at = "reading" => peer[p].since <= t
                        /\ peer[p].at \in {"timedout", "dispatch"} => peer[p].since <= t + ReadDeadline
                        /\ peer[p].at = "dispatch" /\ ~IsMutating(peer[p].req) =>
                              ipcTick' <= t + ReadDeadline
                        /\ peer[p].at \in {"committed", "writing"} /\ peer[p].req \notin SlowMutating =>
                              ipcTick' <= t + ReadDeadline + TxnBound
      BY <2>0 DEF StartedInTime
    <3>1. Stays(p)
      BY <2>0
    <3>2. ~(peer[p].at = "dispatch" /\ ~IsMutating(peer[p].req))
      BY <1>0, <3>1 DEF Stays, Cancellable, OneSignal
    <3>3. peer[p].at \in {"committed", "writing"} => peer[p].req \in SlowMutating
      BY <3>1 DEF Stays
    <3> QED
      BY <1>0, <3>2, <3>3 DEF StartedInTime
  <2> QED
    BY <2>1, <2>2, <2>3, <2>4 DEF IpcInv
<1>8. ASSUME NEW p \in Peers, NEW uid \in {"daemon", "root", "other"}, Connects(p, uid) PROVE IpcInv'
  BY <1>8, EnteredInTime DEF Connects
<1>9. ASSUME NEW p \in Peers, NEW r \in ReadOnly \cup FastMutating \cup SlowMutating, Requests(p, r)
      PROVE  IpcInv'
  <2>1. \A t \in signalled : t \in Nat /\ peer[p].since \in Nat /\ ipcTick \in Nat
    BY <1>0 DEF IpcTypes
  <2>2. serving = "drain" => \A t \in signalled : ipcTick <= t + ReadDeadline
    BY <1>0, <1>9, <2>1, IpcBounds DEF Requests, HandlerAt, StagesAreBounded, StartedInTime
  <2> QED
    BY <1>9, <2>2, EnteredInTime DEF Requests, HandlerAt
<1>10. ASSUME NEW p \in Peers, ReadTimesOut(p) PROVE IpcInv'
  <2>1. \A t \in signalled : t \in Nat /\ peer[p].since \in Nat /\ ipcTick \in Nat
    BY <1>0 DEF IpcTypes
  <2>2. serving = "drain" => \A t \in signalled : ipcTick <= t + ReadDeadline
    BY <1>0, <1>10, <2>1, IpcBounds DEF ReadTimesOut, HandlerAt, StagesAreBounded, StartedInTime
  <2> QED
    BY <1>10, <2>2, EnteredInTime DEF ReadTimesOut, HandlerAt
<1>11. ASSUME NEW p \in Peers, Commits(p) PROVE IpcInv'
  <2>1. \A t \in signalled : t \in Nat /\ peer[p].since \in Nat /\ ipcTick \in Nat
    BY <1>0 DEF IpcTypes
  <2>0. peer[p].req \notin SlowMutating => peer[p].req \in FastMutating
    BY <1>11 DEF Commits, IsMutating
  <2>2. serving = "drain" /\ peer[p].req \notin SlowMutating =>
           \A t \in signalled : ipcTick <= t + ReadDeadline + TxnBound
    BY <1>0, <1>11, <2>0, <2>1, IpcBounds DEF Commits, HandlerAt, StagesAreBounded, StartedInTime
  <2>3. peer[p].req \in {"none"} \cup ReadOnly \cup FastMutating \cup SlowMutating
    BY <1>0 DEF IpcTypes
  <2> QED
    BY <1>11, <2>2, <2>3, EnteredInTime DEF Commits, HandlerAt
<1>12. ASSUME NEW p \in Peers, DispatchEnds(p) \/ Cancelled(p) PROVE IpcInv'
  <2>1. \A t \in signalled : t \in Nat /\ peer[p].since \in Nat /\ ipcTick \in Nat
    BY <1>0 DEF IpcTypes
  <2>2. peer[p].req \in {"none"} \cup ReadOnly \cup FastMutating \cup SlowMutating
    BY <1>0 DEF IpcTypes
  <2>3. serving = "drain" /\ peer[p].req \notin SlowMutating =>
           \A t \in signalled : ipcTick <= t + ReadDeadline + TxnBound
    BY <1>0, <1>12, <2>1, IpcBounds DEF DispatchEnds, Cancelled, Cancellable, HandlerAt, StartedInTime
  <2>4. /\ serving \in {"accept", "drain"}
        /\ Enter(p, "writing", peer[p].req) /\ UNCHANGED Bystanders
    BY <1>12 DEF DispatchEnds, Cancelled, HandlerAt
  <2> QED
    BY <2>2, <2>3, <2>4, EnteredInTime
<1>13. ASSUME NEW p \in Peers, Answered(p) PROVE IpcInv'
  <2>1. IpcTypes'
    BY <1>0, <1>13 DEF Answered, Bystanders, IpcTypes, NoConn
  <2>2. \A q \in Peers : peer'[q] = peer[q] \/ peer'[q].at = "none"
    BY <1>0, <1>13 DEF Answered, IpcTypes, NoConn
  <2>3. UNCHANGED <<ipcTick, serving, token, signalled, unheard, pinned>>
    BY <1>13 DEF Answered, Bystanders
  <2>4. OneSignal' /\ ServedOnly' /\ StagesAreBounded' /\ HeldBySlow'
    BY <1>0, <2>2, <2>3 DEF OneSignal, ServedOnly, StagesAreBounded, HeldBySlow
  <2>5. StartedInTime'
    BY <1>0, <2>2, <2>3 DEF StartedInTime
  <2> QED
    BY <2>1, <2>4, <2>5 DEF IpcInv
<1>14. CASE UNCHANGED ipcVars
  BY <1>0, <1>14 DEF ipcVars, IpcInv, IpcTypes, OneSignal, ServedOnly, StagesAreBounded, StartedInTime,
     HeldBySlow, Stays
<1> QED
  BY <1>1, <1>2, <1>3, <1>4, <1>5, <1>6, <1>7, <1>8, <1>9, <1>10, <1>11, <1>12, <1>13, <1>14
     DEF IpcNext

(* With the invariant only a slow mutation holds the drain.                *)
LEMMA IpcInvDrains == IpcInv => DrainHeldBySlowOnly
BY DEF IpcInv, HeldBySlow, DrainHeldBySlowOnly

-----------------------------------------------------------------------------
(* Readiness.  A sum of natural numbers over a finite set is the number of *)
(* its units.                                                              *)
Units(f, T) == UNION {{e} \X (1..f[e]) : e \in T}

(* Among subsets of a finite set there is a smallest.                      *)
LEMMA SubsetMin ==
    ASSUME NEW S, IsFiniteSet(S), NEW W \in SUBSET (SUBSET S), W # {}
    PROVE  \E T \in W : \A U \in W : ~(U \subseteq T /\ U # T)
<1>1. IsWellFoundedOn(StrictSubsetOrdering(S), SUBSET S)
  BY FS_StrictSubsetOrderingWellFounded, FS_FiniteSubsetsOfFinite
<1>2. PICK T \in W : \A U \in W : <<U, T>> \notin StrictSubsetOrdering(S)
  BY <1>1, WFMin
<1> QED
  BY <1>2 DEF StrictSubsetOrdering

(* One member more adds its own units, and they are counted once.          *)
LEMMA UnitsCount ==
    ASSUME NEW f \in [Owings -> Nat], NEW T \in SUBSET Owings, NEW x \in T,
           IsFiniteSet(Units(f, T \ {x}))
    PROVE  /\ IsFiniteSet(Units(f, T))
           /\ Cardinality(Units(f, T)) = f[x] + Cardinality(Units(f, T \ {x}))
<1> DEFINE X == {x} \X (1..f[x])
           R == Units(f, T \ {x})
<1>1. f[x] \in Nat
  OBVIOUS
<1>2. IsFiniteSet(X) /\ Cardinality(X) = f[x]
  <2>1. IsFiniteSet(1..f[x]) /\ Cardinality(1..f[x]) = f[x]
    BY <1>1, FS_Interval
  <2>2. IsFiniteSet({x}) /\ Cardinality({x}) = 1
    BY FS_Singleton
  <2>3. IsFiniteSet(X) /\ Cardinality(X) = Cardinality({x}) * Cardinality(1..f[x])
    BY <2>1, <2>2, FS_Product
  <2> QED
    BY <1>1, <2>1, <2>2, <2>3
<1>3. Units(f, T) = R \cup X
  BY DEF Units
<1>4. R \cap X = {}
  BY DEF Units
<1>5. Cardinality(R) \in Nat
  BY FS_CardinalityType
<1>6. /\ IsFiniteSet(R \cup X)
      /\ Cardinality(R \cup X) = Cardinality(R) + Cardinality(X) - Cardinality(R \cap X)
  BY <1>2, FS_Union
<1>7. Cardinality(R \cap X) = 0
  BY <1>4, FS_EmptySet
<1> HIDE DEF X, R
<1> QED
  BY <1>1, <1>2, <1>3, <1>5, <1>6, <1>7 DEF R

(* A smallest set with infinitely many units would be empty.               *)
LEMMA UnitsFinite ==
    ASSUME NEW f \in [Owings -> Nat]
    PROVE  \A T \in SUBSET Owings : IsFiniteSet(Units(f, T))
<1> DEFINE W == {T \in SUBSET Owings : ~IsFiniteSet(Units(f, T))}
<1>1. SUFFICES ASSUME W # {} PROVE FALSE
  BY Zenon
<1>2. PICK T \in W : \A U \in W : ~(U \subseteq T /\ U # T)
  <2>1. W \in SUBSET (SUBSET Owings)
    OBVIOUS
  <2> HIDE DEF W
  <2> QED
    BY <1>1, <2>1, SubsetMin, ReadinessAssumption
<1>3. T # {}
  BY FS_EmptySet DEF Units
<1>4. PICK x \in T : TRUE
  BY <1>3
<1>5. IsFiniteSet(Units(f, T \ {x}))
  BY <1>2
<1> QED
  BY <1>5, UnitsCount

(* A settlement's place in the books.                                      *)
BookPlaces == {"none", "order", "orphan", "delivered", "pending", "failed", "fenced", "sent"}
Owing == [at : BookPlaces, outlay : Nat, pay : {"Unknown", "Pending", "Succeeded", "Failed"}]

(* What is required, per settlement.                                       *)
NeedOf(book) == [e \in Owings |-> IF book[e].at = "pending" THEN book[e].outlay ELSE Credit]
Owed(book) == {e \in Owings : book[e].at \in {"order", "orphan", "pending"}}

(* The fold over what is required is the number of its units.              *)
LEMMA RequiredIsCount ==
    ASSUME NEW book \in [Owings -> Owing], NEW done
    PROVE  RequiredOf(book, done) = Cardinality(Units(NeedOf(book), Owed(book) \ done))
<1> DEFINE Need(e) == IF book[e].at = "pending" THEN book[e].outlay ELSE Credit
           S == {e \in Owings : book[e].at \in {"order", "orphan", "pending"}} \ done
           Body(f) == [T \in SUBSET S |-> IF T = {} THEN 0
                       ELSE LET x == CHOOSE x \in T : TRUE IN Need(x) + f[T \ {x}]]
           iter == CHOOSE f : f = Body(f)
           g == [T \in SUBSET S |-> Cardinality(Units(NeedOf(book), T))]
<1>0. /\ S = Owed(book) \ done /\ S \in SUBSET Owings /\ IsFiniteSet(S)
      /\ NeedOf(book) \in [Owings -> Nat]
  <2>1. S \in SUBSET Owings /\ S = Owed(book) \ done
    BY DEF Owed
  <2>2. NeedOf(book) \in [Owings -> Nat]
    BY ReadinessAssumption DEF NeedOf, Owing
  <2> QED
    BY <2>1, <2>2, ReadinessAssumption, FS_Subset
<1>1. RequiredOf(book, done) = iter[S]
  BY Zenon DEF RequiredOf, MapThenSumSet, MapThenFoldSet
<1>2. g = Body(g)
  <2>1. ASSUME NEW T \in SUBSET S PROVE g[T] = Body(g)[T]
    <3>1. CASE T = {}
      BY <3>1, FS_EmptySet DEF Units
    <3>2. CASE T # {}
      <4> DEFINE x == CHOOSE x \in T : TRUE
      <4>1. x \in T
        BY <3>2
      <4>2. Cardinality(Units(NeedOf(book), T))
              = NeedOf(book)[x] + Cardinality(Units(NeedOf(book), T \ {x}))
        <5> HIDE DEF x
        <5>1. T \in SUBSET Owings /\ T \ {x} \in SUBSET Owings
          BY <1>0
        <5>2. IsFiniteSet(Units(NeedOf(book), T \ {x}))
          BY <1>0, <5>1, UnitsFinite
        <5> QED
          BY <1>0, <4>1, <5>1, <5>2, UnitsCount
      <4>3. NeedOf(book)[x] = Need(x)
        BY <1>0, <4>1 DEF NeedOf
      <4>4. Body(g)[T] = Need(x) + g[T \ {x}]
        BY <3>2
      <4> QED
        BY <4>2, <4>3, <4>4
    <3> QED
      BY <3>1, <3>2
  <2> QED
    BY <2>1
<1>3. iter = Body(iter)
  <2> HIDE DEF Body, g
  <2> QED
    BY <1>2
<1>4. iter[S] = g[S]
  <2> DEFINE W == {T \in SUBSET S : iter[T] # g[T]}
  <2>1. SUFFICES ASSUME W # {} PROVE FALSE
    BY Zenon
  <2>2. PICK T \in W : \A U \in W : ~(U \subseteq T /\ U # T)
    <3>1. W \in SUBSET (SUBSET S)
      OBVIOUS
    <3> HIDE DEF W, S
    <3> QED
      BY <1>0, <2>1, <3>1, SubsetMin
  <2> DEFINE x == CHOOSE x \in T : TRUE
  <2> HIDE DEF iter, g
  <2>3. T # {}
    BY <1>2, <1>3, <2>2
  <2>4. x \in T
    BY <2>3
  <2>5. iter[T \ {x}] = g[T \ {x}]
    BY <2>2, <2>4
  <2>6. iter[T] = Body(iter)[T] /\ g[T] = Body(g)[T]
    BY <1>2, <1>3, Zenon
  <2>7. Body(iter)[T] = Need(x) + iter[T \ {x}] /\ Body(g)[T] = Need(x) + g[T \ {x}]
    BY <2>3
  <2> QED
    BY <2>2, <2>5, <2>6, <2>7
<1> QED
  BY <1>0, <1>1, <1>4

(* What the books commit, and whether they were short, at one instant.     *)
CommittedOf(book) ==
    {e \in Owings : book[e].at \in {"sent", "fenced"}
                     \/ (book[e].at \in {"pending", "failed"}
                          /\ book[e].pay \in {"Pending", "Succeeded"})}
Seen(book) == {e \in Owings : book[e].at # "none"}
Earned(book) == {e \in Owings : book[e].at = "delivered"}
ShortOf(book, caps) ==
    HoldingsOf(Credit * Cardinality(Seen(book)), CommittedOf(book), caps)
        < RequiredOf(book, CommittedOf(book))

(* A payment started only within the credit, and a failed row has failed.  *)
PlaceIsSound(r) ==
    /\ r.pay # "Unknown" => r.outlay <= Credit
    /\ r.at = "failed" => r.pay = "Failed"

(* A report that finds the books covered, with at least what was committed *)
(* at the instant they were read taken off, and otherwise only rows whose  *)
(* payment fits their credit, read books that were covered.                *)
LEMMA CoveredThen ==
    ASSUME NEW book \in [Owings -> Owing], NEW caps \in Nat, NEW done \in SUBSET Owings,
           caps <= Credit * Cardinality(Earned(book)),
           CommittedOf(book) \subseteq done,
           \A e \in done \ CommittedOf(book) :
               book[e].at = "pending" /\ book[e].outlay <= Credit,
           SaturatingSub(SaturatingSub(Credit * Cardinality(Seen(book)), caps),
                         Credit * Cardinality(done)) >= RequiredOf(book, done)
    PROVE  ~ShortOf(book, caps)
<1> DEFINE C == CommittedOf(book)
           f == NeedOf(book)
           n == Cardinality(Seen(book))
           d == Cardinality(Earned(book))
           c == Cardinality(C)
           k == Cardinality(done \ C)
           m == Cardinality(done)
           before == Units(f, Owed(book) \ C)
           after == Units(f, Owed(book) \ done)
           room == (done \ C) \X (1..Credit)
<1>0. Credit \in Nat /\ IsFiniteSet(Owings) /\ f \in [Owings -> Nat]
  BY ReadinessAssumption DEF NeedOf, Owing
<1>1. /\ IsFiniteSet(Seen(book)) /\ IsFiniteSet(Earned(book)) /\ IsFiniteSet(C)
      /\ IsFiniteSet(done) /\ IsFiniteSet(done \ C)
      /\ n \in Nat /\ d \in Nat /\ c \in Nat /\ k \in Nat /\ m \in Nat
  <2>1. /\ Seen(book) \in SUBSET Owings /\ Earned(book) \in SUBSET Owings
        /\ C \in SUBSET Owings /\ done \ C \in SUBSET Owings
    BY DEF Seen, Earned, CommittedOf
  <2> HIDE DEF C
  <2> QED
    BY <1>0, <2>1, FS_Subset, FS_CardinalityType
<1>2. m = c + k
  <2>1. done = C \cup (done \ C) /\ C \cap (done \ C) = {}
    OBVIOUS
  <2>2. Cardinality(C \cup (done \ C)) = c + k - Cardinality(C \cap (done \ C))
    BY <1>1, FS_Union
  <2>3. Cardinality(C \cap (done \ C)) = 0
    BY <2>1, FS_EmptySet
  <2>4. m = c + k - 0
    BY <2>1, <2>2, <2>3
  <2> HIDE DEF C, c, k, m
  <2> QED
    BY <1>1, <2>4
<1>3. m + d <= n
  <2>1. done \cup Earned(book) \in SUBSET Seen(book) /\ done \cap Earned(book) = {}
    BY DEF Seen, Earned, CommittedOf
  <2>2. Cardinality(done \cup Earned(book)) = m + d - Cardinality(done \cap Earned(book))
    BY <1>1, FS_Union
  <2>3. Cardinality(done \cap Earned(book)) = 0
    BY <2>1, FS_EmptySet
  <2>4. Cardinality(done \cup Earned(book)) <= n
    BY <1>1, <2>1, FS_Subset
  <2> HIDE DEF C, m, d, n
  <2> QED
    BY <1>1, <2>2, <2>3, <2>4
<1>4. /\ Cardinality(before) <= Cardinality(after) + k * Credit
      /\ Cardinality(before) \in Nat /\ Cardinality(after) \in Nat
  <2>1. before \in SUBSET (after \cup room)
    <3> SUFFICES ASSUME NEW e \in Owed(book) \ C, NEW u \in 1..f[e], e \in done
                 PROVE  <<e, u>> \in room
      BY DEF Units
    <3>1. e \in done \ C /\ book[e].at = "pending" /\ book[e].outlay <= Credit
      OBVIOUS
    <3>2. e \in Owings /\ f[e] = book[e].outlay /\ book[e].outlay \in Nat
      BY <3>1 DEF NeedOf, Owing, Owed
    <3>3. u \in 1..Credit
      BY <1>0, <3>1, <3>2
    <3> QED
      BY <3>1, <3>3
  <2>2. IsFiniteSet(after)
    <3>1. Owed(book) \ done \in SUBSET Owings
      BY DEF Owed
    <3> QED
      BY <1>0, <3>1, UnitsFinite
  <2>3. IsFiniteSet(room) /\ Cardinality(room) = k * Credit
    <3>1. IsFiniteSet(1..Credit) /\ Cardinality(1..Credit) = Credit
      BY <1>0, FS_Interval
    <3> HIDE DEF C
    <3> QED
      BY <1>1, <3>1, FS_Product
  <2> HIDE DEF before, after, room, C, f, k
  <2>4. /\ IsFiniteSet(after \cup room)
        /\ Cardinality(after \cup room)
             = Cardinality(after) + Cardinality(room) - Cardinality(after \cap room)
    BY <2>2, <2>3, FS_Union
  <2>5. Cardinality(before) <= Cardinality(after \cup room) /\ IsFiniteSet(before)
    BY <2>1, <2>4, FS_Subset
  <2>6. /\ Cardinality(after) \in Nat /\ Cardinality(room) \in Nat
        /\ Cardinality(before) \in Nat /\ Cardinality(after \cap room) \in Nat
    <3>1. IsFiniteSet(after \cap room)
      BY <2>2, FS_Intersection
    <3> QED
      BY <2>2, <2>3, <2>5, <3>1, FS_CardinalityType
  <2> QED
    BY <2>3, <2>4, <2>5, <2>6
<1>5. /\ RequiredOf(book, C) = Cardinality(before)
      /\ RequiredOf(book, done) = Cardinality(after)
  BY RequiredIsCount
<1>6. caps <= Credit * d
      /\ SaturatingSub(SaturatingSub(Credit * n, caps), Credit * m) >= Cardinality(after)
  BY <1>5
<1>7. HoldingsOf(Credit * n, C, caps) = SaturatingSub(SaturatingSub(Credit * n, Credit * c), caps)
  BY DEF HoldingsOf
<1>8. SaturatingSub(SaturatingSub(Credit * n, Credit * c), caps) >= Cardinality(before)
  <2> HIDE DEF C, f, n, d, c, k, m, before, after, room
  <2>1. /\ Credit * n \in Nat /\ Credit * c \in Nat /\ Credit * m \in Nat
        /\ Credit * d \in Nat /\ Credit * k \in Nat
        /\ Credit * m = Credit * c + Credit * k /\ k * Credit = Credit * k
    BY <1>0, <1>1, <1>2
  <2>2. Credit * m + Credit * d <= Credit * n
    <3>1. PICK z \in Nat : n = m + d + z
      <4>1. n - (m + d) \in Nat /\ n = m + d + (n - (m + d))
        BY <1>1, <1>3
      <4> QED
        BY <4>1
    <3>2. Credit * n = Credit * m + Credit * d + Credit * z /\ Credit * z \in Nat
      BY <1>0, <1>1, <3>1
    <3> QED
      BY <2>1, <3>2
  <2> QED
    BY <1>4, <1>6, <2>1, <2>2 DEF SaturatingSub
<1> QED
  <2> HIDE DEF n, c, before
  <2>1. SaturatingSub(SaturatingSub(Credit * n, Credit * c), caps) \in Nat
    BY <1>0, <1>1 DEF SaturatingSub
  <2>2. Cardinality(before) \in Nat
    BY <1>4
  <2>3. ShortOf(book, caps)
          <=> SaturatingSub(SaturatingSub(Credit * n, Credit * c), caps) < Cardinality(before)
    BY <1>5, <1>7 DEF ShortOf, n
  <2> QED
    BY <1>8, <2>1, <2>2, <2>3

(* How a row of the books read may have moved on: its price stands, and a  *)
(* payment under way then has not failed.                                  *)
MovedOn(b, o) ==
    /\ b.at \in {"pending", "failed"} /\ o.at \in Row
    /\ b.at = "failed" => o.pay = "Failed"
    /\ b.at = "pending" => o.outlay = b.outlay
    /\ b.pay \in {"Pending", "Succeeded"} => o.pay \in {"Pending", "Succeeded"}

(* A report that may still end on a lasting shortfall holds books that     *)
(* were short when they were read, with every commitment of then taken off *)
(* or still to be observed.                                                *)
Snapshot ==
    /\ rep.book \in [Owings -> Owing] /\ rep.rows \subseteq Owings /\ rep.committed \subseteq Owings
    /\ \E caps \in Nat :
          /\ caps <= Credit * Cardinality(Earned(rep.book))
          /\ rep.sat = SaturatingSub(Credit * Cardinality(Seen(rep.book)), caps)
          /\ ShortOf(rep.book, caps)
    /\ CommittedOf(rep.book) \subseteq rep.committed \cup rep.rows
    /\ \A e \in rep.committed \ CommittedOf(rep.book) :
          rep.book[e].at = "pending" /\ rep.book[e].outlay <= Credit
    /\ \A e \in rep.rows : MovedOn(rep.book[e], owing[e])

(* The inductive invariant of the readiness report.                        *)
ReadyInv ==
    /\ owing \in [Owings -> Owing] /\ taken \in Nat /\ shortfall \in BOOLEAN
    /\ rep.pc \in {"idle", "read", "observe"}
    /\ rep = [pc |-> rep.pc, probe |-> rep.probe, sat |-> rep.sat, book |-> rep.book,
              rows |-> rep.rows, committed |-> rep.committed]
    /\ \A e \in Owings : PlaceIsSound(owing[e])
    /\ taken <= Credit * Cardinality(Earned(owing))
    /\ rep.pc = "observe" /\ shortfall = TRUE => Snapshot
    /\ rep.pc = "idle" /\ shortfall = TRUE => verdict.warning # "ready"

(* Nothing is owed and nothing is reported first.                          *)
LEMMA ReadyInvInit == ReadinessInit => ReadyInv
<1> SUFFICES ASSUME ReadinessInit PROVE ReadyInv
  OBVIOUS
<1>1. /\ owing = [e \in Owings |-> NoOwing] /\ taken = 0 /\ shortfall = FALSE
      /\ rep = NoReport
  BY DEF ReadinessInit
<1>2. owing \in [Owings -> Owing] /\ \A e \in Owings : PlaceIsSound(owing[e])
  BY <1>1 DEF NoOwing, Owing, BookPlaces, PlaceIsSound
<1>3. taken <= Credit * Cardinality(Earned(owing))
  <2>1. Earned(owing) = {}
    BY <1>1 DEF Earned, NoOwing
  <2>2. Cardinality(Earned(owing)) = 0
    BY <2>1, FS_EmptySet
  <2> QED
    BY <1>1, <2>2, ReadinessAssumption
<1>4. /\ rep.pc = "idle"
      /\ rep = [pc |-> rep.pc, probe |-> rep.probe, sat |-> rep.sat, book |-> rep.book,
                rows |-> rep.rows, committed |-> rep.committed]
  BY <1>1 DEF NoReport
<1> QED
  BY <1>1, <1>2, <1>3, <1>4 DEF ReadyInv

(* The shortfall the model tracks is that of the books and caps.           *)
LEMMA ShortIsOf == Short <=> ShortOf(owing, taken)
<1>1. Committed = CommittedOf(owing)
  BY DEF Committed, In, Row, LedgerCommits, CommittedOf
<1>2. ReceiptsIn = Credit * Cardinality(Seen(owing))
  BY DEF ReceiptsIn, Seen
<1> QED
  BY <1>1, <1>2 DEF Short, ShortOf

(* A shortfall lasts only through steps that leave the books short and in  *)
(* which no payment fails.                                                 *)
LEMMA ShortLasts ==
    ASSUME ReadyInv, Steps
    PROVE  /\ shortfall' \in BOOLEAN
           /\ shortfall' = TRUE => rep.pc # "idle" /\ shortfall = TRUE /\ ~PayFails /\ Short'
<1>1. shortfall' = (rep.pc # "idle" /\ shortfall /\ Short' /\ ~PayFails)
  BY DEF Steps
<1>2. shortfall \in BOOLEAN
  BY DEF ReadyInv
<1> HIDE DEF PayFails, Short
<1> QED
  BY <1>1, <1>2

(* What goes on meanwhile moves one settlement forward.                    *)
LEMMA BecomesKeeps ==
    ASSUME ReadyInv, NEW e \in Owings, NEW r \in Owing, Becomes(e, r), PlaceIsSound(r),
           owing[e].at = "delivered" => r.at = "delivered",
           owing[e].at \in Row =>
               /\ r.at \in Row /\ r.outlay = owing[e].outlay
               /\ owing[e].pay = "Failed" => r.pay = "Failed"
               /\ owing[e].pay = "Succeeded" => r.pay = "Succeeded"
               /\ owing[e].pay = "Pending" => r.pay # "Unknown"
    PROVE  ReadyInv'
<1>1. /\ owing' = [owing EXCEPT ![e] = r] /\ UNCHANGED <<taken, kind, rep, verdict>> /\ Steps
  BY DEF Becomes
<1>2. /\ owing \in [Owings -> Owing] /\ taken \in Nat
      /\ rep.pc \in {"idle", "read", "observe"}
      /\ \A x \in Owings : PlaceIsSound(owing[x])
      /\ taken <= Credit * Cardinality(Earned(owing))
      /\ rep.pc = "observe" /\ shortfall = TRUE => Snapshot
  BY DEF ReadyInv
<1>3. /\ owing' \in [Owings -> Owing] /\ owing'[e] = r
      /\ \A x \in Owings \ {e} : owing'[x] = owing[x]
      /\ \A x \in Owings : PlaceIsSound(owing'[x])
  BY <1>1, <1>2
<1>4. taken' <= Credit * Cardinality(Earned(owing'))
  <2>1. Earned(owing) \in SUBSET Earned(owing') /\ Earned(owing') \in SUBSET Owings
    BY <1>3 DEF Earned
  <2>2. IsFiniteSet(Earned(owing'))
    BY <2>1, ReadinessAssumption, FS_Subset
  <2> DEFINE a == Cardinality(Earned(owing))
             b == Cardinality(Earned(owing'))
  <2>3. a <= b /\ a \in Nat /\ b \in Nat
    BY <2>1, <2>2, FS_Subset, FS_CardinalityType
  <2>4. taken <= Credit * a /\ taken' = taken /\ Credit \in Nat
    BY <1>1, <1>2, ReadinessAssumption
  <2> HIDE DEF a, b
  <2>5. Credit * a <= Credit * b
    <3>1. PICK z \in Nat : b = a + z
      <4>1. b - a \in Nat /\ b = a + (b - a)
        BY <2>3
      <4> QED
        BY <4>1
    <3>2. Credit * b = Credit * a + Credit * z /\ Credit * z \in Nat
      BY <2>3, <2>4, <3>1
    <3>3. Credit * a \in Nat
      BY <2>3, <2>4
    <3> QED
      BY <3>2, <3>3
  <2>6. Credit * a \in Nat /\ Credit * b \in Nat
    BY <2>3, <2>4
  <2>7. taken' <= Credit * b
    BY <1>2, <2>4, <2>5, <2>6
  <2> QED
    BY <2>7 DEF b
<1>5. ASSUME shortfall' = TRUE, rep.pc = "observe" PROVE Snapshot'
  <2>1. shortfall = TRUE /\ ~PayFails
    BY <1>1, <1>5, ShortLasts
  <2>2. Snapshot
    BY <1>2, <1>5, <2>1
  <2>3. ~(owing[e].pay = "Pending" /\ r.pay = "Failed")
    BY <1>3, <2>1 DEF PayFails
  <2>4. ASSUME NEW x \in rep.rows PROVE MovedOn(rep.book[x], owing'[x])
    <3>1. MovedOn(rep.book[x], owing[x]) /\ x \in Owings
      BY <2>2 DEF Snapshot
    <3>2. CASE x # e
      BY <1>3, <3>1, <3>2
    <3>3. CASE x = e
      <4>1. r.pay \in {"Unknown", "Pending", "Succeeded", "Failed"}
        BY DEF Owing
      <4> QED
        BY <1>3, <2>3, <3>1, <3>3, <4>1 DEF MovedOn
    <3> QED
      BY <3>2, <3>3
  <2> QED
    BY <1>1, <2>2, <2>4 DEF Snapshot
<1>6. rep.pc = "idle" => shortfall' = FALSE
  BY <1>1, ShortLasts
<1>7. shortfall' \in BOOLEAN
  BY <1>1, ShortLasts
<1>8. rep' = [pc |-> rep'.pc, probe |-> rep'.probe, sat |-> rep'.sat, book |-> rep'.book,
              rows |-> rep'.rows, committed |-> rep'.committed]
  BY <1>1 DEF ReadyInv
<1> QED
  BY <1>1, <1>2, <1>3, <1>4, <1>5, <1>6, <1>7, <1>8 DEF ReadyInv

(* A report warns of "ready" only if the books it read cover what it       *)
(* prices.                                                                 *)
LEMMA ReadyIsCovered ==
    ASSUME NEW expected \in Nat, NEW required \in Nat, NEW blind, NEW parked,
           WarningOf(expected, required, blind, parked) = "ready"
    PROVE  expected >= required /\ blind = {}
<1>1. CASE "federation" \notin rep.probe
  BY <1>1 DEF WarningOf
<1>2. CASE "federation" \in rep.probe /\ "gateway" \notin rep.probe
  BY <1>2 DEF WarningOf
<1>3. CASE "federation" \in rep.probe /\ "gateway" \in rep.probe /\ expected < required
  BY <1>3 DEF WarningOf
<1>4. CASE "federation" \in rep.probe /\ "gateway" \in rep.probe /\ ~(expected < required)
  BY <1>4 DEF WarningOf
<1> QED
  BY <1>1, <1>2, <1>3, <1>4

(* The steps of settlements, deliveries and refunds.                       *)
LEMMA OwingStepKeeps ==
    ASSUME ReadyInv, NEW e \in Owings,
           \/ \E as \in {"order", "orphan"} : Settles(e, as)
           \/ \E o \in Outlays : OpensRefund(e, o)
           \/ \E s \in {"Succeeded", "Failed"} : PayEnds(e, s)
           \/ Delivers(e) \/ Pays(e) \/ Books(e) \/ Fences(e)
    PROVE  ReadyInv'
<1>0. /\ owing[e] \in Owing /\ PlaceIsSound(owing[e])
      /\ owing[e] = [at |-> owing[e].at, outlay |-> owing[e].outlay, pay |-> owing[e].pay]
      /\ Outlays \subseteq Nat /\ Credit \in Nat
  BY ReadinessAssumption DEF ReadyInv, Owing
<1>1. ASSUME NEW as \in {"order", "orphan"}, Settles(e, as) PROVE ReadyInv'
  <2> DEFINE r == [NoOwing EXCEPT !.at = as]
  <2>1. Becomes(e, r) /\ owing[e].at = "none"
    BY <1>1 DEF Settles
  <2>2. r \in Owing /\ r.at = as /\ r.pay = "Unknown" /\ r.outlay = 0
    BY DEF Owing, BookPlaces, NoOwing
  <2> HIDE DEF r
  <2> QED
    BY <2>1, <2>2, BecomesKeeps DEF PlaceIsSound, Row
<1>2. ASSUME NEW o \in Outlays, OpensRefund(e, o) PROVE ReadyInv'
  <2> DEFINE r == [NoOwing EXCEPT !.at = "pending", !.outlay = o]
  <2>1. Becomes(e, r) /\ owing[e].at \in {"order", "orphan"}
    BY <1>2 DEF OpensRefund
  <2>2. r \in Owing /\ r.at = "pending" /\ r.pay = "Unknown" /\ r.outlay = o
    BY <1>0 DEF Owing, BookPlaces, NoOwing
  <2> HIDE DEF r
  <2> QED
    BY <2>1, <2>2, BecomesKeeps DEF PlaceIsSound, Row
<1>3. ASSUME NEW s \in {"Succeeded", "Failed"}, PayEnds(e, s) PROVE ReadyInv'
  <2> DEFINE r == [owing[e] EXCEPT !.pay = s]
  <2>1. Becomes(e, r) /\ owing[e].pay = "Pending"
    BY <1>3 DEF PayEnds
  <2>2. r \in Owing /\ r.at = owing[e].at /\ r.pay = s /\ r.outlay = owing[e].outlay
    BY <1>0 DEF Owing
  <2>3. owing[e].at # "failed" /\ owing[e].outlay <= Credit
    BY <1>0, <2>1 DEF PlaceIsSound
  <2> HIDE DEF r
  <2> QED
    BY <2>1, <2>2, <2>3, BecomesKeeps DEF PlaceIsSound, Row
<1>4. CASE Delivers(e)
  <2> DEFINE r == [NoOwing EXCEPT !.at = "delivered"]
  <2>1. Becomes(e, r) /\ owing[e].at = "order"
    BY <1>4 DEF Delivers
  <2>2. r \in Owing /\ r.at = "delivered" /\ r.pay = "Unknown" /\ r.outlay = 0
    BY DEF Owing, BookPlaces, NoOwing
  <2> HIDE DEF r
  <2> QED
    BY <2>1, <2>2, BecomesKeeps DEF PlaceIsSound, Row
<1>5. CASE Pays(e)
  <2> DEFINE r == [owing[e] EXCEPT !.pay = "Pending"]
  <2>1. Becomes(e, r) /\ owing[e].at = "pending" /\ owing[e].pay = "Unknown"
        /\ owing[e].outlay <= Credit
    BY <1>5 DEF Pays
  <2>2. r \in Owing /\ r.at = "pending" /\ r.pay = "Pending" /\ r.outlay = owing[e].outlay
    BY <1>0, <2>1 DEF Owing
  <2> HIDE DEF r
  <2> QED
    BY <2>1, <2>2, BecomesKeeps DEF PlaceIsSound, Row
<1>6. CASE Books(e)
  <2> DEFINE r == [owing[e] EXCEPT !.at = IF owing[e].pay = "Succeeded" THEN "sent" ELSE "failed"]
  <2>1. /\ Becomes(e, r) /\ owing[e].at = "pending"
        /\ owing[e].pay \in {"Succeeded", "Failed"}
    BY <1>6 DEF Books
  <2>2. /\ r \in Owing /\ r.pay = owing[e].pay /\ r.outlay = owing[e].outlay
        /\ r.at = IF owing[e].pay = "Succeeded" THEN "sent" ELSE "failed"
    BY <1>0 DEF Owing, BookPlaces
  <2> HIDE DEF r
  <2>3. PlaceIsSound(r)
    BY <1>0, <2>1, <2>2 DEF PlaceIsSound
  <2> QED
    BY <2>1, <2>2, <2>3, BecomesKeeps DEF Row
<1>7. CASE Fences(e)
  <2> DEFINE r == [owing[e] EXCEPT !.at = "fenced"]
  <2>1. Becomes(e, r) /\ owing[e].at = "pending" /\ owing[e].pay = "Unknown"
    BY <1>7 DEF Fences
  <2>2. r \in Owing /\ r.at = "fenced" /\ r.pay = owing[e].pay /\ r.outlay = owing[e].outlay
    BY <1>0 DEF Owing, BookPlaces
  <2> HIDE DEF r
  <2> QED
    BY <2>1, <2>2, BecomesKeeps DEF PlaceIsSound, Row
<1> QED
  BY <1>1, <1>2, <1>3, <1>4, <1>5, <1>6, <1>7

(* A report that is ready while the shortfall lasts would have read        *)
(* covered books.                                                          *)
LEMMA ReportsKeeps ==
    ASSUME ReadyInv, NEW blind \in SUBSET Owings, Reports(blind) PROVE ReadyInv'
<1>1. /\ rep.pc = "observe" /\ rep.rows = {}
      /\ rep' = NoReport /\ UNCHANGED <<owing, taken, kind, shortfall>>
      /\ verdict'.warning = WarningOf(
             SaturatingSub(rep.sat, Credit * Cardinality(rep.committed)),
             RequiredOf(rep.book, rep.committed \cup blind),
             blind, BookIn({"failed", "fenced"}))
  BY DEF Reports, Ends, Classified
<1>2. shortfall = TRUE => verdict'.warning # "ready"
  <2> SUFFICES ASSUME shortfall = TRUE, verdict'.warning = "ready" PROVE FALSE
    OBVIOUS
  <2>1. Snapshot
    BY <1>1 DEF ReadyInv
  <2>2. PICK caps \in Nat :
          /\ caps <= Credit * Cardinality(Earned(rep.book))
          /\ rep.sat = SaturatingSub(Credit * Cardinality(Seen(rep.book)), caps)
          /\ ShortOf(rep.book, caps)
    BY <2>1 DEF Snapshot
  <2>3. /\ rep.book \in [Owings -> Owing] /\ rep.committed \in SUBSET Owings
        /\ CommittedOf(rep.book) \subseteq rep.committed
        /\ \A e \in rep.committed \ CommittedOf(rep.book) :
              rep.book[e].at = "pending" /\ rep.book[e].outlay <= Credit
    BY <1>1, <2>1 DEF Snapshot
  <2> DEFINE expected == SaturatingSub(rep.sat, Credit * Cardinality(rep.committed))
             required == RequiredOf(rep.book, rep.committed \cup blind)
  <2>4. expected \in Nat
    <3>1. Cardinality(Seen(rep.book)) \in Nat /\ Cardinality(rep.committed) \in Nat
      <4>1. Seen(rep.book) \in SUBSET Owings
        BY DEF Seen
      <4> QED
        BY <2>3, <4>1, ReadinessAssumption, FS_Subset, FS_CardinalityType
    <3>2. /\ Credit * Cardinality(Seen(rep.book)) \in Nat
          /\ Credit * Cardinality(rep.committed) \in Nat
      BY <3>1, ReadinessAssumption
    <3> QED
      BY <2>2, <3>2 DEF SaturatingSub
  <2>5. required \in Nat
    <3>1. required = Cardinality(Units(NeedOf(rep.book), Owed(rep.book) \ (rep.committed \cup blind)))
      BY <2>3, RequiredIsCount
    <3>2. /\ Owed(rep.book) \ (rep.committed \cup blind) \in SUBSET Owings
          /\ NeedOf(rep.book) \in [Owings -> Nat]
      BY <2>3, ReadinessAssumption DEF Owed, NeedOf, Owing
    <3> HIDE DEF required
    <3> QED
      BY <3>1, <3>2, UnitsFinite, FS_CardinalityType
  <2>6. expected >= required /\ blind = {}
    <3> HIDE DEF expected, required
    <3>1. WarningOf(expected, required, blind, BookIn({"failed", "fenced"})) = "ready"
      BY <1>1 DEF expected, required
    <3> QED
      BY <2>4, <2>5, <3>1, ReadyIsCovered
  <2>7. SaturatingSub(SaturatingSub(Credit * Cardinality(Seen(rep.book)), caps),
                      Credit * Cardinality(rep.committed)) >= RequiredOf(rep.book, rep.committed)
    <3>1. rep.committed \cup blind = rep.committed
      BY <2>6
    <3> QED
      BY <2>2, <2>6, <3>1
  <2> HIDE DEF expected, required
  <2> QED
    BY <2>2, <2>3, <2>7, CoveredThen
<1>3. /\ rep'.pc = "idle"
      /\ rep' = [pc |-> rep'.pc, probe |-> rep'.probe, sat |-> rep'.sat, book |-> rep'.book,
                rows |-> rep'.rows, committed |-> rep'.committed]
  BY <1>1 DEF NoReport
<1> QED
  BY <1>1, <1>2, <1>3 DEF ReadyInv, Earned

(* Nothing owed is no shortfall.                                           *)
LEMMA NothingOwedKeeps == ASSUME ReadyInv, ReportsNothingOwed PROVE ReadyInv'
<1>1. /\ rep.pc = "observe" /\ BookIn(Liable) = {}
      /\ rep' = NoReport /\ UNCHANGED <<owing, taken, kind, shortfall>>
  BY DEF ReportsNothingOwed, Ends
<1>2. shortfall # TRUE
  <2> SUFFICES ASSUME shortfall = TRUE PROVE FALSE
    OBVIOUS
  <2>1. Snapshot
    BY <1>1 DEF ReadyInv
  <2>2. PICK caps \in Nat : ShortOf(rep.book, caps)
    BY <2>1 DEF Snapshot
  <2>3. RequiredOf(rep.book, CommittedOf(rep.book)) = 0
    <3>1. Owed(rep.book) = {}
      BY <1>1 DEF BookIn, Liable, Owed
    <3>2. Units(NeedOf(rep.book), Owed(rep.book) \ CommittedOf(rep.book)) = {}
      BY <3>1 DEF Units
    <3>3. rep.book \in [Owings -> Owing]
      BY <2>1 DEF Snapshot
    <3> QED
      BY <3>2, <3>3, RequiredIsCount, FS_EmptySet
  <2>4. HoldingsOf(Credit * Cardinality(Seen(rep.book)), CommittedOf(rep.book), caps) \in Nat
    <3>1. Cardinality(Seen(rep.book)) \in Nat /\ Cardinality(CommittedOf(rep.book)) \in Nat
      <4>1. Seen(rep.book) \in SUBSET Owings /\ CommittedOf(rep.book) \in SUBSET Owings
        BY DEF Seen, CommittedOf
      <4> QED
        BY <4>1, ReadinessAssumption, FS_Subset, FS_CardinalityType
    <3>2. /\ Credit * Cardinality(Seen(rep.book)) \in Nat
          /\ Credit * Cardinality(CommittedOf(rep.book)) \in Nat
      BY <3>1, ReadinessAssumption
    <3> QED
      BY <3>2 DEF HoldingsOf, SaturatingSub
  <2> QED
    BY <2>2, <2>3, <2>4 DEF ShortOf
<1>3. /\ rep'.pc = "idle"
      /\ rep' = [pc |-> rep'.pc, probe |-> rep'.probe, sat |-> rep'.sat, book |-> rep'.book,
                rows |-> rep'.rows, committed |-> rep'.committed]
  BY <1>1 DEF NoReport
<1> QED
  BY <1>1, <1>2, <1>3 DEF ReadyInv, Earned

(* A sweep takes no more than what deliveries have earned.                 *)
LEMMA SweepsKeep == ASSUME ReadyInv, Sweeps PROVE ReadyInv'
<1>1. /\ taken + Credit <= Credit * Cardinality(In({"delivered"}))
      /\ taken' = taken + Credit /\ UNCHANGED <<owing, kind, rep, verdict>> /\ Steps
  BY DEF Sweeps
<1>2. In({"delivered"}) = Earned(owing) /\ Earned(owing') = Earned(owing)
  BY <1>1 DEF In, Earned
<1>3. /\ shortfall' \in BOOLEAN
      /\ shortfall' = TRUE => rep.pc # "idle" /\ shortfall = TRUE
  BY <1>1, ShortLasts
<1>4. Snapshot => Snapshot'
  BY <1>1 DEF Snapshot
<1>5. /\ taken' \in Nat /\ taken' <= Credit * Cardinality(Earned(owing'))
      /\ owing' = owing /\ rep' = rep /\ verdict' = verdict
  <2>1. taken \in Nat /\ Credit \in Nat
    BY ReadinessAssumption DEF ReadyInv
  <2> QED
    BY <1>1, <1>2, <2>1
<1> QED
  BY <1>3, <1>4, <1>5 DEF ReadyInv

(* A probe starts a report.                                                *)
LEMMA ProbeWireKeeps == ASSUME ReadyInv, NEW ok, ProbeWire(ok) PROVE ReadyInv'
<1>1. /\ rep' = [NoReport EXCEPT !.pc = "read", !.probe = ok]
      /\ shortfall' = Short /\ UNCHANGED <<owing, taken, kind>>
  BY DEF ProbeWire
<1>2. /\ rep'.pc = "read"
      /\ rep' = [pc |-> rep'.pc, probe |-> rep'.probe, sat |-> rep'.sat, book |-> rep'.book,
                rows |-> rep'.rows, committed |-> rep'.committed]
  BY <1>1 DEF NoReport
<1>3. shortfall' \in BOOLEAN
  BY <1>1 DEF Short
<1> QED
  BY <1>1, <1>2, <1>3 DEF ReadyInv, Earned

(* The books are read while they are short, or the shortfall is over.      *)
LEMMA ReadBooksKeeps == ASSUME ReadyInv, ReadBooks PROVE ReadyInv'
<1>1. /\ rep.pc = "read" /\ Steps /\ UNCHANGED <<owing, taken, kind, verdict>>
      /\ rep' = [rep EXCEPT !.pc = "observe", !.sat = SaturatingSub(ReceiptsIn, taken),
                            !.book = owing, !.rows = In({"pending", "failed"}),
                            !.committed = In({"sent", "fenced"})]
  BY DEF ReadBooks
<1>2. /\ rep'.pc = "observe" /\ rep'.sat = SaturatingSub(ReceiptsIn, taken)
      /\ rep'.book = owing /\ rep'.rows = In({"pending", "failed"})
      /\ rep'.committed = In({"sent", "fenced"})
      /\ rep' = [pc |-> rep'.pc, probe |-> rep'.probe, sat |-> rep'.sat, book |-> rep'.book,
                rows |-> rep'.rows, committed |-> rep'.committed]
  <2>1. rep = [pc |-> rep.pc, probe |-> rep.probe, sat |-> rep.sat, book |-> rep.book,
              rows |-> rep.rows, committed |-> rep.committed]
    BY DEF ReadyInv
  <2> QED
    BY <1>1, <2>1
<1>3. /\ shortfall' \in BOOLEAN
      /\ shortfall' = TRUE => shortfall = TRUE /\ Short'
  BY <1>1, ShortLasts
<1>4. /\ owing \in [Owings -> Owing] /\ taken \in Nat
      /\ \A e \in Owings : PlaceIsSound(owing[e])
      /\ taken <= Credit * Cardinality(Earned(owing))
  BY DEF ReadyInv
<1>5. ASSUME shortfall' = TRUE PROVE Snapshot'
  <2>1. ShortOf(owing, taken)
    <3>1. Short'
      BY <1>3, <1>5
    <3>2. Committed' = CommittedOf(owing) /\ ReceiptsIn' = Credit * Cardinality(Seen(owing))
      BY <1>1 DEF Committed, In, Row, LedgerCommits, CommittedOf, ReceiptsIn, Seen
    <3> QED
      BY <1>1, <3>1, <3>2 DEF Short, ShortOf
  <2>2. ReceiptsIn = Credit * Cardinality(Seen(owing))
    BY DEF ReceiptsIn, Seen
  <2>3. /\ rep'.rows \subseteq Owings /\ rep'.committed \subseteq Owings
        /\ CommittedOf(owing) \subseteq rep'.committed \cup rep'.rows
        /\ rep'.committed \subseteq CommittedOf(owing)
    BY <1>2 DEF In, CommittedOf
  <2>4. \A e \in rep'.rows : MovedOn(owing[e], owing[e])
    BY <1>2, <1>4 DEF In, MovedOn, PlaceIsSound, Row
  <2>5. \E caps \in Nat :
          /\ caps <= Credit * Cardinality(Earned(rep'.book))
          /\ rep'.sat = SaturatingSub(Credit * Cardinality(Seen(rep'.book)), caps)
          /\ ShortOf(rep'.book, caps)
    BY <1>2, <1>4, <2>1, <2>2
  <2> QED
    BY <1>1, <1>2, <1>4, <2>3, <2>4, <2>5 DEF Snapshot
<1> QED
  BY <1>1, <1>2, <1>3, <1>4, <1>5 DEF ReadyInv, Earned

(* A row is observed: what was committed when the books were read still is.*)
LEMMA ObserveRowKeeps == ASSUME ReadyInv, NEW e, ObserveRow(e) PROVE ReadyInv'
<1>1. /\ rep.pc = "observe" /\ e \in rep.rows /\ Steps
      /\ UNCHANGED <<owing, taken, kind, verdict>>
      /\ rep' = [rep EXCEPT !.rows = rep.rows \ {e},
                !.committed = IF owing[e].pay \in {"Pending", "Succeeded"}
                              THEN rep.committed \cup {e} ELSE rep.committed]
  BY DEF ObserveRow
<1>2. /\ rep'.pc = "observe" /\ rep'.sat = rep.sat /\ rep'.book = rep.book
      /\ rep'.rows = rep.rows \ {e}
      /\ rep'.committed = IF owing[e].pay \in {"Pending", "Succeeded"}
                          THEN rep.committed \cup {e} ELSE rep.committed
      /\ rep' = [pc |-> rep'.pc, probe |-> rep'.probe, sat |-> rep'.sat, book |-> rep'.book,
                rows |-> rep'.rows, committed |-> rep'.committed]
  <2>1. rep = [pc |-> rep.pc, probe |-> rep.probe, sat |-> rep.sat, book |-> rep.book,
              rows |-> rep.rows, committed |-> rep.committed]
    BY DEF ReadyInv
  <2> QED
    BY <1>1, <2>1
<1>3. /\ shortfall' \in BOOLEAN
      /\ shortfall' = TRUE => shortfall = TRUE
  BY <1>1, ShortLasts
<1>4. ASSUME shortfall' = TRUE PROVE Snapshot'
  <2>1. Snapshot
    BY <1>1, <1>3, <1>4 DEF ReadyInv
  <2>2. /\ MovedOn(rep.book[e], owing[e]) /\ e \in Owings /\ PlaceIsSound(owing[e])
        /\ rep.committed \subseteq Owings /\ rep.rows \subseteq Owings
        /\ CommittedOf(rep.book) \subseteq rep.committed \cup rep.rows
        /\ \A x \in rep.committed \ CommittedOf(rep.book) :
              rep.book[x].at = "pending" /\ rep.book[x].outlay <= Credit
    BY <1>1, <2>1 DEF Snapshot, ReadyInv
  <2>3. e \in CommittedOf(rep.book) => owing[e].pay \in {"Pending", "Succeeded"}
    BY <2>2 DEF CommittedOf, MovedOn
  <2>4. owing[e].pay \in {"Pending", "Succeeded"} =>
          rep.book[e].at = "pending" /\ rep.book[e].outlay <= Credit
    BY <2>2 DEF MovedOn, PlaceIsSound
  <2>5. /\ rep'.committed \subseteq Owings /\ rep'.rows \subseteq Owings
        /\ CommittedOf(rep.book) \subseteq rep'.committed \cup rep'.rows
        /\ \A x \in rep'.committed \ CommittedOf(rep.book) :
              rep.book[x].at = "pending" /\ rep.book[x].outlay <= Credit
    BY <1>2, <2>2, <2>3, <2>4
  <2>6. \A x \in rep'.rows : MovedOn(rep.book[x], owing[x])
    BY <1>2, <2>1 DEF Snapshot
  <2> QED
    BY <1>1, <1>2, <2>1, <2>5, <2>6 DEF Snapshot
<1> QED
  BY <1>1, <1>2, <1>3, <1>4 DEF ReadyInv, Earned

(* Every step of the books and of the report keeps the invariant.          *)
LEMMA ReadyInvStep == ReadyInv /\ [ReadinessNext]_rdVars => ReadyInv'
<1> SUFFICES ASSUME ReadyInv, [ReadinessNext]_rdVars PROVE ReadyInv'
  OBVIOUS
<1>1. ASSUME NEW e \in Owings,
             \/ \E as \in {"order", "orphan"} : Settles(e, as)
             \/ \E o \in Outlays : OpensRefund(e, o)
             \/ \E s \in {"Succeeded", "Failed"} : PayEnds(e, s)
             \/ Delivers(e) \/ Pays(e) \/ Books(e) \/ Fences(e)
      PROVE  ReadyInv'
  BY <1>1, OwingStepKeeps
<1>2. ASSUME NEW e \in Owings, ObserveRow(e) PROVE ReadyInv'
  BY <1>2, ObserveRowKeeps
<1>3. CASE Sweeps
  BY <1>3, SweepsKeep
<1>4. CASE ReadBooks
  BY <1>4, ReadBooksKeeps
<1>5. CASE ReportsNothingOwed
  BY <1>5, NothingOwedKeeps
<1>6. ASSUME NEW ok \in SUBSET Probes, ProbeWire(ok) PROVE ReadyInv'
  BY <1>6, ProbeWireKeeps
<1>7. ASSUME NEW blind \in SUBSET Owings, Reports(blind) PROVE ReadyInv'
  BY <1>7, ReportsKeeps
<1>8. CASE UNCHANGED rdVars
  BY <1>8 DEF rdVars, ReadyInv, Snapshot, Earned
<1> QED
  BY <1>1, <1>2, <1>3, <1>4, <1>5, <1>6, <1>7, <1>8, Zenon DEF ReadinessNext

(* The invariant contains the property.                                    *)
LEMMA ReadyInvHolds == ReadyInv => NeverFalselyReady
BY DEF ReadyInv, NeverFalselyReady

-----------------------------------------------------------------------------
(* The hook runner.                                                        *)

(* The types of a run's processes and clocks.                              *)
HookTypes ==
    /\ leader \in {"none", "open", "closed", "exit0", "exit1", "killed", "reaped"}
    /\ child \in {"none", "attached", "detached", "gone"}
    /\ hookRun \in {"boot", "refused", "spawning", "reading", "waiting", "reaping", "done"}
    /\ waited \in Nat /\ total \in Nat

(* Nothing runs before the spawn.                                          *)
NotSpawned ==
    hookRun \in {"boot", "refused", "spawning"} =>
        /\ leader = "none" /\ child = "none"
        /\ waited = 0 /\ total = 0 /\ hookCut = FALSE /\ hookVerdict = "none"

(* While the runner reads or waits no guard has fired and there is no      *)
(* verdict.                                                                *)
Undecided == hookRun \in {"reading", "waiting"} => hookCut = FALSE /\ hookVerdict = "none"

(* Each bounded wait adds at most its bound to the time since the spawn.   *)
WaitsAreBounded ==
    /\ hookRun = "reading" => waited <= HookTimeout /\ total <= waited
    /\ hookRun = "waiting" => waited <= ReapBound /\ total <= HookTimeout + waited
    /\ hookRun = "reaping" => waited <= ReapBound /\ total <= HookTimeout + ReapBound + waited
    /\ total <= HookTimeout + 2 * ReapBound

(* The group is dead from the kill on, and after every verdict but         *)
(* success; success found the guard unfired.                               *)
GroupIsDead ==
    /\ hookRun = "reaping" => hookVerdict # "ok"
    /\ (hookRun = "reaping" \/ (hookRun = "done" /\ hookVerdict # "ok")) =>
           ~LeaderAlive /\ ~ChildAlive
    /\ hookRun = "done" => ~LeaderAlive
    /\ hookVerdict = "ok" => hookRun = "done" /\ hookCut = FALSE

(* What is spawned is a recipe that validate() let through.                *)
ServedIsValid ==
    hookRun \notin {"boot", "refused"} => "LNRENT_MNEMONIC" \notin served.env

(* The inductive invariant of the hook runner.                             *)
HookInv ==
    HookTypes /\ NotSpawned /\ Undecided /\ WaitsAreBounded /\ GroupIsDead /\ ServedIsValid

(* Nothing has been spawned at the start.                                  *)
LEMMA HookInvInit == HookInit => HookInv
BY HookAssumption DEF HookInit, HookInv, HookTypes, NotSpawned, Undecided, WaitsAreBounded, GroupIsDead,
   ServedIsValid, LeaderAlive, ChildAlive

(* Every step of the runner and of the hook's processes keeps the          *)
(* invariant.                                                              *)
LEMMA HookInvStep == HookInv /\ [HookNext]_hrVars => HookInv'
<1> SUFFICES ASSUME HookInv, [HookNext]_hrVars PROVE HookInv'
  OBVIOUS
<1> USE HookAssumption DEF HookInv, HookTypes, NotSpawned, Undecided, WaitsAreBounded, GroupIsDead,
   ServedIsValid, LeaderAlive, ChildAlive
<1>1. CASE LoadRecipe
  <2>1. HookTypes' /\ NotSpawned' /\ Undecided' /\ WaitsAreBounded' /\ GroupIsDead'
    BY <1>1 DEF LoadRecipe, procVars
  <2>2. ServedIsValid'
    <3>1. CASE hookRun' = "refused"
      BY <3>1
    <3>2. CASE hookRun' # "refused"
      <4>1. PICK i \in DOMAIN shelf : Validated(shelf[i]) /\ served' = shelf[i]
        BY <1>1, <3>2 DEF LoadRecipe
      <4> QED
        BY <4>1 DEF Validated, NameIsForwardable
    <3> QED
      BY <3>1, <3>2
  <2> QED
    BY <2>1, <2>2
<1>2. CASE SpawnHook
  BY <1>2 DEF SpawnHook, Return
<1>3. CASE HookForks \/ ChildMoves \/ HookWrites \/ HookClosesOutput \/ HookExits \/ FeedEnds
  BY <1>3 DEF HookForks, ChildMoves, HookWrites, HookClosesOutput, HookExits, FeedEnds, runnerVars
<1>4. CASE ReadsEnd
  BY <1>4 DEF ReadsEnd
<1>5. CASE ReadsFail
  BY <1>5 DEF ReadsFail, KillGroup
<1>6. CASE WaitEnds
  BY <1>6 DEF WaitEnds, Return
<1>7. CASE WaitRunsOut
  BY <1>7 DEF WaitRunsOut, KillGroup
<1>8. CASE Reaps
  BY <1>8 DEF Reaps
<1>9. CASE Abandoned
  BY <1>9 DEF Abandoned, KillGroup, Return
<1>10. CASE HookTick
  BY <1>10 DEF HookTick, procVars
<1>11. CASE UNCHANGED hrVars
  BY <1>11 DEF hrVars
<1> QED
  BY <1>1, <1>2, <1>3, <1>4, <1>5, <1>6, <1>7, <1>8, <1>9, <1>10, <1>11 DEF HookNext

(* The invariant says that the hook is contained.                          *)
LEMMA HookInvContains == HookInv => HookIsContained
BY DEF HookInv, HookTypes, NotSpawned, WaitsAreBounded, GroupIsDead, ServedIsValid, HookIsContained,
   LeaderAlive, ChildAlive, HookEnv, BaseHookEnv

-----------------------------------------------------------------------------
(* The reaper.                                                             *)

(* The types of the rows.                                                  *)
RetentionTypes ==
    /\ invoices \in [Receipts -> [status : {"NONE", "OPEN", "PAID", "EXPIRED", "REAPED"},
                                  settled : BOOLEAN, at : Nat]]
    /\ refunds \in [Receipts -> {"none", "PENDING", "SENT"}]
    /\ booked \in SUBSET Receipts
    /\ boxUp \in BOOLEAN /\ day \in Nat

(* The books hold the receipt: as a settled invoice or as a settle-refund. *)
Kept(e) ==
    \/ invoices[e].status \notin {"NONE", "REAPED"} /\ invoices[e].settled = TRUE
    \/ \E j \in journal : j.kind = "settle_refund" /\ e \in j.exts

(* Money in the books, and money being refunded, has its receipt.          *)
MoneyIsKept ==
    /\ \A e \in booked : Kept(e)
    /\ \A e \in Receipts : refunds[e] # "none" => Kept(e)
    /\ \A e \in Receipts : invoices[e].status = "PAID" => invoices[e].settled = TRUE

(* The order is paid once, and a cleanup is owed only after it.            *)
OrderOnce ==
    /\ invoices["order"].status = "OPEN" => subRow.state = "PENDING"
    /\ subRow.state = "PROVISIONING" => invoices["order"].status = "PAID"
    /\ \A j \in journal : j.kind = "settle_refund"
                          \/ subRow.state \in {"REFUND_DUE", "REFUNDED", "NONE"}
    /\ \A j \in journal : j.kind = "provision_cleanup_pending" => j.owned = TRUE

(* A box is there only for a row that runs, or somebody still owes its     *)
(* destruction; no box is left when the row is reaped.                     *)
BoxIsOwed ==
    boxUp = TRUE =>
        \/ subRow.state \in {"PROVISIONING", "ACTIVE"}
        \/ subRow.state = "TERMINATED" /\ deadLetter = "open"
        \/ subRow.state \in {"REFUND_DUE", "REFUNDED"} /\ Unclean

(* The inductive invariant of the reaper.                                  *)
RetentionInv == RetentionTypes /\ MoneyIsKept /\ OrderOnce /\ BoxIsOwed

(* A new order has no box and no receipt.                                  *)
LEMMA RetentionInvInit == RetentionInit => RetentionInv
<1> SUFFICES ASSUME RetentionInit PROVE RetentionInv
  OBVIOUS
<1>1. /\ NoInvoice \in [status : {"NONE", "OPEN", "PAID", "EXPIRED", "REAPED"},
                        settled : BOOLEAN, at : Nat]
      /\ [NoInvoice EXCEPT !.status = "OPEN"]
            \in [status : {"NONE", "OPEN", "PAID", "EXPIRED", "REAPED"}, settled : BOOLEAN, at : Nat]
  BY DEF NoInvoice
<1>2. NoInvoice.status = "NONE" /\ [NoInvoice EXCEPT !.status = "OPEN"].status = "OPEN"
  BY DEF NoInvoice
<1>3. RetentionTypes
  BY <1>1 DEF RetentionInit, RetentionTypes
<1>4. MoneyIsKept
  BY <1>2 DEF RetentionInit, MoneyIsKept
<1>5. OrderOnce
  BY <1>2 DEF RetentionInit, OrderOnce, Receipts
<1>6. BoxIsOwed
  BY DEF RetentionInit, BoxIsOwed
<1> QED
  BY <1>3, <1>4, <1>5, <1>6 DEF RetentionInv

(* A receipt the books hold stays held when invoice rows keep what is      *)
(* settled and the settle-refund journals stay.                            *)
LEMMA KeptStays ==
    ASSUME NEW e \in Receipts, Kept(e),
           (invoices[e].status \notin {"NONE", "REAPED"} /\ invoices[e].settled = TRUE) =>
              invoices'[e].status \notin {"NONE", "REAPED"} /\ invoices'[e].settled = TRUE,
           \A j \in journal : j.kind = "settle_refund" => j \in journal'
    PROVE  Kept(e)'
BY DEF Kept

(* Every write, hook, day and reap keeps the invariant.                    *)
LEMMA RetentionInvStep == RetentionInv /\ [RetentionNext]_retentionVars => RetentionInv'
<1> SUFFICES ASSUME RetentionInv, [RetentionNext]_retentionVars PROVE RetentionInv'
  OBVIOUS
<1>0. RetentionTypes /\ MoneyIsKept /\ OrderOnce /\ BoxIsOwed
  BY DEF RetentionInv
<1>r. "order" \in Receipts /\ "renewal" \in Receipts
  BY DEF Receipts
<1>1. ASSUME NEW e \in Receipts, SettlePaid(e) PROVE RetentionInv'
  <2>1. RetentionTypes'
    BY <1>0, <1>1 DEF SettlePaid, Txn, Move, RetentionTypes
  <2>2. \A d \in Receipts : Kept(d) => Kept(d)'
    BY <1>0, <1>1, KeptStays DEF SettlePaid, RetentionTypes
  <2>3. Kept(e)'
    BY <1>0, <1>1 DEF SettlePaid, RetentionTypes, Kept
  <2>4. MoneyIsKept'
    BY <1>0, <1>1, <2>2, <2>3 DEF SettlePaid, RetentionTypes, MoneyIsKept
  <2>5. OrderOnce'
    BY <1>0, <1>1, <1>r DEF SettlePaid, RetentionTypes, OrderOnce, Move
  <2>6. BoxIsOwed'
    BY <1>0, <1>1 DEF SettlePaid, RetentionTypes, BoxIsOwed, Move, Unclean, OrderOnce
  <2> QED
    BY <2>1, <2>4, <2>5, <2>6 DEF RetentionInv
<1>2. ASSUME NEW e \in Receipts, SettleLate(e) PROVE RetentionInv'
  <2>1. RetentionTypes'
    BY <1>0, <1>2 DEF SettleLate, Txn, Journal, RetentionTypes
  <2>2. \A d \in Receipts : Kept(d) => Kept(d)'
    BY <1>0, <1>2, KeptStays DEF SettleLate, RetentionTypes, Journal
  <2>3. Kept(e)'
    <3>1. CASE refunds[e] = "none"
      <4> DEFINE r == [kind |-> "settle_refund", exts |-> {e},
                       owned |-> invoices[e].status = "EXPIRED", at |-> day]
      <4>1. r \in journal'
        BY <3>1, <1>2 DEF SettleLate, Journal
      <4>2. r.kind = "settle_refund" /\ e \in r.exts
        OBVIOUS
      <4> HIDE DEF r
      <4> QED
        BY <4>1, <4>2 DEF Kept
    <3>2. CASE refunds[e] # "none"
      BY <3>2, <1>0, <2>2 DEF MoneyIsKept
    <3> QED
      BY <3>1, <3>2
  <2>4. MoneyIsKept'
    BY <1>0, <1>2, <2>2, <2>3 DEF SettleLate, RetentionTypes, MoneyIsKept
  <2>5. OrderOnce'
    BY <1>0, <1>2, <1>r DEF SettleLate, RetentionTypes, OrderOnce, Journal
  <2>6. BoxIsOwed'
    BY <1>0, <1>2 DEF SettleLate, RetentionTypes, BoxIsOwed, Unclean, Journal
  <2> QED
    BY <2>1, <2>4, <2>5, <2>6 DEF RetentionInv
<1>3. ASSUME NEW e \in Receipts, RefundCompletes(e) PROVE RetentionInv'
  <2>1. RetentionTypes'
    BY <1>0, <1>3 DEF RefundCompletes, Txn, Move, RetentionTypes
  <2>2. \A d \in Receipts : Kept(d) => Kept(d)'
    BY <1>0, <1>3, KeptStays DEF RefundCompletes
  <2>4. MoneyIsKept'
    BY <1>0, <1>3, <2>2 DEF RefundCompletes, RetentionTypes, MoneyIsKept
  <2>5. OrderOnce'
    BY <1>0, <1>3, <1>r DEF RefundCompletes, RetentionTypes, OrderOnce, Move
  <2>6. BoxIsOwed'
    BY <1>0, <1>3 DEF RefundCompletes, RetentionTypes, BoxIsOwed, Unclean, Move
  <2> QED
    BY <2>1, <2>4, <2>5, <2>6 DEF RetentionInv
<1>4. CASE OrderExpires
  <2>1. RetentionTypes'
    BY <1>0, <1>4, <1>r DEF OrderExpires, Txn, NoInvoice, RetentionTypes
  <2>2. \A d \in Receipts : Kept(d) => Kept(d)'
    BY <1>0, <1>4, KeptStays DEF OrderExpires, NoInvoice, RetentionTypes
  <2>4. MoneyIsKept'
    BY <1>0, <1>4, <2>2 DEF OrderExpires, NoInvoice, RetentionTypes, MoneyIsKept
  <2>5. OrderOnce'
    BY <1>0, <1>4, <1>r DEF OrderExpires, NoInvoice, RetentionTypes, OrderOnce, Move
  <2>6. BoxIsOwed'
    BY <1>0, <1>4 DEF OrderExpires, RetentionTypes, BoxIsOwed, Unclean, Move
  <2> QED
    BY <2>1, <2>4, <2>5, <2>6 DEF RetentionInv
<1>9. CASE RenewalIssued
  <2>1. RetentionTypes'
    BY <1>0, <1>9, <1>r DEF RenewalIssued, Txn, NoInvoice, RetentionTypes
  <2>2. \A d \in Receipts : Kept(d) => Kept(d)'
    BY <1>0, <1>9, KeptStays DEF RenewalIssued, NoInvoice, RetentionTypes
  <2>4. MoneyIsKept'
    BY <1>0, <1>9, <2>2 DEF RenewalIssued, NoInvoice, RetentionTypes, MoneyIsKept
  <2>5. OrderOnce'
    BY <1>0, <1>9, <1>r DEF RenewalIssued, NoInvoice, RetentionTypes, OrderOnce, Move
  <2>6. BoxIsOwed'
    BY <1>0, <1>9 DEF RenewalIssued, RetentionTypes, BoxIsOwed, Unclean, Move
  <2> QED
    BY <2>1, <2>4, <2>5, <2>6 DEF RetentionInv
<1>10. CASE RenewalExpires
  <2>1. RetentionTypes'
    BY <1>0, <1>10, <1>r DEF RenewalExpires, Txn, NoInvoice, RetentionTypes
  <2>2. \A d \in Receipts : Kept(d) => Kept(d)'
    BY <1>0, <1>10, KeptStays DEF RenewalExpires, NoInvoice, RetentionTypes
  <2>4. MoneyIsKept'
    BY <1>0, <1>10, <2>2 DEF RenewalExpires, NoInvoice, RetentionTypes, MoneyIsKept
  <2>5. OrderOnce'
    BY <1>0, <1>10, <1>r DEF RenewalExpires, NoInvoice, RetentionTypes, OrderOnce, Move
  <2>6. BoxIsOwed'
    BY <1>0, <1>10 DEF RenewalExpires, RetentionTypes, BoxIsOwed, Unclean, Move
  <2> QED
    BY <2>1, <2>4, <2>5, <2>6 DEF RetentionInv
<1>5. CASE ProvisionFails
  <2>1. RetentionTypes'
    BY <1>0, <1>5, <1>r DEF ProvisionFails, Txn, Move, Journal, RetentionTypes
  <2>2. \A d \in Receipts : Kept(d) => Kept(d)'
    BY <1>0, <1>5, KeptStays DEF ProvisionFails, Journal
  <2>3. Kept("order")
    BY <1>0, <1>5, <1>r DEF ProvisionFails, Kept, OrderOnce, MoneyIsKept
  <2>4. MoneyIsKept'
    BY <1>0, <1>5, <2>2, <2>3, <1>r DEF ProvisionFails, RetentionTypes, MoneyIsKept
  <2>5. OrderOnce'
    BY <1>0, <1>5, <1>r DEF ProvisionFails, RetentionTypes, OrderOnce, Move, Journal
  <2>6. BoxIsOwed'
    <3> DEFINE r == [kind |-> "provision_cleanup_pending", exts |-> {}, owned |-> TRUE, at |-> day]
    <3>1. journal' = journal \cup {r} /\ r.kind = "provision_cleanup_pending"
      BY <1>5 DEF ProvisionFails, Journal
    <3> HIDE DEF r
    <3>2. subRow.state = "PROVISIONING" /\ subRow'.state = "REFUND_DUE"
      BY <1>5 DEF ProvisionFails, Move
    <3>3. Unclean'
      BY <1>0, <3>1, <3>2 DEF Unclean, OrderOnce
    <3> QED
      BY <3>2, <3>3 DEF BoxIsOwed
  <2> QED
    BY <2>1, <2>4, <2>5, <2>6 DEF RetentionInv
<1>6. CASE CleanupDone
  <2>1. RetentionTypes'
    BY <1>0, <1>6, <1>r DEF CleanupDone, Txn, Journal, RetentionTypes
  <2>2. \A d \in Receipts : Kept(d) => Kept(d)'
    BY <1>0, <1>6, KeptStays DEF CleanupDone, Journal
  <2>4. MoneyIsKept'
    BY <1>0, <1>6, <2>2 DEF CleanupDone, RetentionTypes, MoneyIsKept
  <2>5. OrderOnce'
    BY <1>0, <1>6 DEF CleanupDone, RetentionTypes, OrderOnce, Journal, Unclean
  <2>6. BoxIsOwed'
    BY <1>0, <1>6 DEF CleanupDone, RetentionTypes, BoxIsOwed
  <2> QED
    BY <2>1, <2>4, <2>5, <2>6 DEF RetentionInv
<1>7. CASE \/ ProvisionHook \/ Activate \/ CleanupHook \/ DestroyHook \/ Terminate \/ TeardownHook
           \/ TeardownResolved \/ MessageSent \/ DiskFails \/ Reopen \/ DayPasses
           \/ UNCHANGED retentionVars
  <2>0. UNCHANGED <<invoices, journal, refunds, booked>>
    BY <1>7 DEF ProvisionHook, Activate, CleanupHook, DestroyHook, Terminate, TeardownHook,
       TeardownResolved, MessageSent, DiskFails, Reopen, DayPasses, rowVars, retentionVars
  <2>1. RetentionTypes'
    <3>1. boxUp' = boxUp \/ boxUp' = TRUE \/ boxUp' = FALSE
      BY <1>7 DEF ProvisionHook, Activate, CleanupHook, DestroyHook, Terminate, TeardownHook,
         TeardownResolved, MessageSent, DiskFails, Reopen, DayPasses, rowVars, retentionVars
    <3>2. boxUp' \in BOOLEAN
      BY <1>0, <3>1 DEF RetentionTypes
    <3>3. day' = day \/ day' = day + 1
      BY <1>7 DEF ProvisionHook, Activate, CleanupHook, DestroyHook, Terminate, TeardownHook,
         TeardownResolved, MessageSent, DiskFails, Reopen, DayPasses, rowVars, retentionVars, Txn
    <3>4. day' \in Nat
      BY <1>0, <3>3 DEF RetentionTypes
    <3> QED
      BY <1>0, <2>0, <3>2, <3>4 DEF RetentionTypes
  <2>4. MoneyIsKept'
    BY <1>0, <2>0 DEF MoneyIsKept, Kept
  <2>5. OrderOnce'
    <3>1. CASE ProvisionHook
      BY <1>0, <2>0, <3>1 DEF ProvisionHook, rowVars, OrderOnce, Move
    <3>2. CASE Activate
      BY <1>0, <2>0, <3>2 DEF Activate, rowVars, OrderOnce, Move
    <3>3. CASE CleanupHook
      BY <1>0, <2>0, <3>3 DEF CleanupHook, rowVars, OrderOnce, Move
    <3>4. CASE DestroyHook
      BY <1>0, <2>0, <3>4 DEF DestroyHook, rowVars, OrderOnce, Move
    <3>5. CASE Terminate
      BY <1>0, <2>0, <3>5 DEF Terminate, rowVars, OrderOnce, Move
    <3>6. CASE TeardownHook
      BY <1>0, <2>0, <3>6 DEF TeardownHook, rowVars, OrderOnce, Move
    <3>7. CASE TeardownResolved
      BY <1>0, <2>0, <3>7 DEF TeardownResolved, rowVars, OrderOnce, Move
    <3>8. CASE MessageSent
      BY <1>0, <2>0, <3>8 DEF MessageSent, rowVars, OrderOnce, Move
    <3>9. CASE DiskFails
      BY <1>0, <2>0, <3>9 DEF DiskFails, rowVars, OrderOnce, Move
    <3>10. CASE Reopen
      BY <1>0, <2>0, <3>10 DEF Reopen, rowVars, OrderOnce, Move
    <3>11. CASE DayPasses
      BY <1>0, <2>0, <3>11 DEF DayPasses, rowVars, OrderOnce, Move
    <3>12. CASE UNCHANGED retentionVars
      BY <1>0, <2>0, <3>12 DEF retentionVars, rowVars, OrderOnce, Move
    <3> QED
      BY <1>7, <3>1, <3>2, <3>3, <3>4, <3>5, <3>6, <3>7, <3>8, <3>9, <3>10, <3>11, <3>12
  <2>6. BoxIsOwed'
    <3>1. CASE ProvisionHook
      BY <1>0, <2>0, <3>1 DEF ProvisionHook, rowVars, BoxIsOwed, Unclean, Move, RetentionTypes
    <3>2. CASE Activate
      BY <1>0, <2>0, <3>2 DEF Activate, rowVars, BoxIsOwed, Unclean, Move, RetentionTypes
    <3>3. CASE CleanupHook
      BY <1>0, <2>0, <3>3 DEF CleanupHook, rowVars, BoxIsOwed, Unclean, Move, RetentionTypes
    <3>4. CASE DestroyHook
      BY <1>0, <2>0, <3>4 DEF DestroyHook, rowVars, BoxIsOwed, Unclean, Move, RetentionTypes
    <3>5. CASE Terminate
      BY <1>0, <2>0, <3>5 DEF Terminate, rowVars, BoxIsOwed, Unclean, Move, RetentionTypes
    <3>6. CASE TeardownHook
      BY <1>0, <2>0, <3>6 DEF TeardownHook, rowVars, BoxIsOwed, Unclean, Move, RetentionTypes
    <3>7. CASE TeardownResolved
      BY <1>0, <2>0, <3>7 DEF TeardownResolved, rowVars, BoxIsOwed, Unclean, Move, RetentionTypes
    <3>8. CASE MessageSent
      BY <1>0, <2>0, <3>8 DEF MessageSent, rowVars, BoxIsOwed, Unclean, Move, RetentionTypes
    <3>9. CASE DiskFails
      BY <1>0, <2>0, <3>9 DEF DiskFails, rowVars, BoxIsOwed, Unclean, Move, RetentionTypes
    <3>10. CASE Reopen
      BY <1>0, <2>0, <3>10 DEF Reopen, rowVars, BoxIsOwed, Unclean, Move, RetentionTypes
    <3>11. CASE DayPasses
      BY <1>0, <2>0, <3>11 DEF DayPasses, rowVars, BoxIsOwed, Unclean, Move, RetentionTypes
    <3>12. CASE UNCHANGED retentionVars
      BY <1>0, <2>0, <3>12 DEF retentionVars, rowVars, BoxIsOwed, Unclean, Move, RetentionTypes
    <3> QED
      BY <1>7, <3>1, <3>2, <3>3, <3>4, <3>5, <3>6, <3>7, <3>8, <3>9, <3>10, <3>11, <3>12
  <2> QED
    BY <2>1, <2>4, <2>5, <2>6 DEF RetentionInv
<1>8. CASE Reap
  <2>0. /\ invoices' = [e \in Receipts |-> IF e \in ReapedInvoices
                         THEN [NoInvoice EXCEPT !.status = "REAPED"] ELSE invoices[e]]
        /\ journal' = journal \ ReapedJournal
        /\ UNCHANGED <<refunds, deadLetter, boxUp, booked, day>>
    BY <1>8 DEF Reap, Txn
  <2>a. \/ subRow' = subRow
        \/ /\ subRow' = [state |-> "NONE", at |-> 0]
           /\ OwnerReapable
           /\ \A e \in Receipts : invoices'[e].status \in {"NONE", "REAPED"}
           /\ ~\E j \in journal' : j.owned
           /\ deadLetter # "open"
    BY <1>8 DEF Reap, ReapedSub
  <2>1. RetentionTypes'
    BY <1>0, <2>0, <2>a DEF RetentionTypes, NoInvoice
  <2>2. \A d \in Receipts : Kept(d) => Kept(d)'
    BY <1>0, <2>0, KeptStays DEF RetentionTypes, ReapedInvoices, ReapedJournal
  <2>4. MoneyIsKept'
    BY <1>0, <2>0, <2>2 DEF RetentionTypes, MoneyIsKept, NoInvoice
  <2>5. OrderOnce'
    BY <1>0, <2>0, <2>a, <1>r DEF RetentionTypes, OrderOnce, NoInvoice, OwnerReapable, Terminal, ReapedInvoices
  <2>6. BoxIsOwed'
    <3>1. CASE boxUp = FALSE
      BY <3>1, <2>0 DEF BoxIsOwed
    <3>2. CASE subRow.state \in {"PROVISIONING", "ACTIVE"}
      BY <3>2, <2>a DEF BoxIsOwed, OwnerReapable, Terminal
    <3>3. CASE subRow.state = "TERMINATED" /\ deadLetter = "open"
      BY <3>3, <2>a, <2>0 DEF BoxIsOwed
    <3>4. CASE subRow.state \in {"REFUND_DUE", "REFUNDED"} /\ Unclean
      <4>1. PICK j \in journal : j.kind = "provision_cleanup_pending"
        BY <3>4 DEF Unclean
      <4>2. j \in journal'
        BY <2>0, <3>4, <4>1 DEF ReapedJournal
      <4>3. Unclean'
        BY <2>0, <3>4, <4>1, <4>2 DEF Unclean
      <4>4. subRow' = subRow
        BY <2>a, <4>1, <4>2, <1>0 DEF OrderOnce
      <4> QED
        BY <3>4, <4>3, <4>4 DEF BoxIsOwed
    <3> QED
      BY <1>0, <3>1, <3>2, <3>3, <3>4 DEF BoxIsOwed, RetentionTypes
  <2> QED
    BY <2>1, <2>4, <2>5, <2>6 DEF RetentionInv
<1> QED
  BY <1>1, <1>2, <1>3, <1>4, <1>5, <1>6, <1>7, <1>8, <1>9, <1>10 DEF RetentionNext

(* The invariant says that reaping loses nothing.                          *)
LEMMA RetentionInvKeeps == RetentionInv => ReapingLosesNothing
BY DEF RetentionInv, RetentionTypes, MoneyIsKept, Kept, BoxIsOwed, ReapingLosesNothing, ReceiptsSurvive,
   OrphansAreOwed, Terminal

-----------------------------------------------------------------------------
(* Legacy import.                                                          *)

(* What the books, the side file and the wallet may hold.                  *)
IsBooks(b) ==
    /\ b = [inv |-> b.inv, status |-> b.status, att |-> b.att, gen |-> b.gen, id |-> b.id,
            fence |-> b.fence, marker |-> b.marker]
    /\ b.inv \in Nat /\ b.gen \in 0..MaxGen /\ b.fence \in BOOLEAN
    /\ b.att \in {"none", "PENDING", "SENT", "FAILED"}
    /\ b.inv = 0 => b.status = "none" \/ b.marker = "imported"
IsFile(f) ==
    /\ f = [here |-> f.here, inv |-> f.inv, canceled |-> f.canceled, pay |-> f.pay]
    /\ f.here \in BOOLEAN /\ f.inv \in Nat /\ f.canceled \in BOOLEAN
    /\ f.pay \in [Gens -> {"none", "PREPARED", "SUCCEEDED", "FAILED"}]
IsWallet ==
    /\ liWallet = [paidIn |-> liWallet.paidIn, expired |-> liWallet.expired, sent |-> liWallet.sent]
    /\ liWallet.paidIn \in Nat /\ liWallet.sent \in [Gens -> {"none", "paid", "failed", "twice"}]

(* At most one generation of the refund was ever paid, and paid once.      *)
PaidOnce ==
    /\ \A g \in Gens : liWallet.sent[g] # "twice"
    /\ \A g, h \in Gens : liWallet.sent[g] = "paid" /\ liWallet.sent[h] = "paid" => g = h

(* Following the pay rows from a generation on finds what was paid.        *)
Finds(g) ==
    \A h \in Gens : liWallet.sent[h] = "paid" =>
        /\ h >= g /\ liFile.pay[h] \in {"PREPARED", "SUCCEEDED"}
        /\ \A k \in Gens : g <= k /\ k < h => liFile.pay[k] = "FAILED"

(* Before the upgrade the map is an invoice ahead of the books at most,    *)
(* and what was paid is what both name.                                    *)
OldInvoices ==
    /\ liBooks.inv <= liFile.inv
    /\ liWallet.paidIn # 0 =>
          /\ liWallet.paidIn = liBooks.inv /\ liBooks.inv = liFile.inv
          /\ liWallet.paidIn \notin liWallet.expired
    /\ liFile.canceled = TRUE => liFile.inv \in liWallet.expired
    /\ liBooks.status = "EXPIRED" => liBooks.inv \in liWallet.expired
    /\ liBooks.status = "PAID" => liWallet.paidIn # 0
    /\ liBooks.inv = 0 => liBooks.status = "none"
    /\ liBooks.att # "none" => liBooks.status = "PAID"
    /\ liBooks.att = "none" => liBooks.gen = 0

(* Generations before the current one have failed and later ones have not  *)
(* begun; the current row tells what was paid.                             *)
OldPayments ==
    /\ \A g \in Gens : g < liBooks.gen => liFile.pay[g] = "FAILED"
    /\ \A g \in Gens : g > liBooks.gen => liFile.pay[g] = "none" /\ liWallet.sent[g] = "none"
    /\ \A g \in Gens :
          /\ liFile.pay[g] = "FAILED" => liWallet.sent[g] = "failed"
          /\ liFile.pay[g] = "none" => liWallet.sent[g] = "none"
          /\ liWallet.sent[g] # "twice"

(* What was saved is an earlier instant of the two files.                  *)
OldSaved ==
    liSaved.file.here = TRUE =>
        /\ IsBooks(liSaved.books) /\ IsFile(liSaved.file) /\ liSaved.books.marker = "none"
        /\ liSaved.books.inv <= liFile.inv /\ liSaved.books.gen <= liBooks.gen
        /\ \A g \in Gens : liSaved.file.pay[g] = "FAILED" => liWallet.sent[g] = "failed"

(* What a boot finds before it has imported anything: the combinations of  *)
(* books, side file and wallet that the upgrade can leave.                 *)
FoundAtBoot ==
    /\ liBooks.inv = 0 => liBooks.status = "none"
    /\ liFile.here = FALSE /\ liBooks.inv = 0 => liBooks.att = "none"
    /\ liFile.here = TRUE =>
        /\ liBooks.att = "PENDING" /\ liBooks.gen # 0 /\ liFile.pay[liBooks.gen] # "none" =>
              Finds(liBooks.gen)
        /\ liWallet.paidIn # 0 /\ liBooks.inv # 0 =>
              /\ liBooks.status = "EXPIRED" => liFile.inv # 0 /\ liFile.canceled = FALSE
              /\ liFile.inv = liBooks.inv => liBooks.inv = liWallet.paidIn
              /\ liFile.inv \notin liWallet.expired /\ liBooks.inv \in liWallet.expired =>
                    liFile.inv = liWallet.paidIn

(* What a completed import leaves.                                         *)
Imported ==
    /\ liBooks.att = "PENDING" /\ liBooks.fence = FALSE =>
          Finds(IF liBooks.gen = 0 THEN 1 ELSE liBooks.gen)
    /\ liWallet.paidIn # 0 /\ liBooks.status # "none" => liBooks.inv = liWallet.paidIn

(* The inductive invariant of the import.                                  *)
LegacyInv ==
    /\ IsBooks(liBooks) /\ IsFile(liFile) /\ IsWallet /\ PaidOnce
    /\ liPhase \in {"old", "boot", "rename", "refused", "up"}
    /\ liSaved = [books |-> liSaved.books, file |-> liSaved.file] /\ liSaved.file.here \in BOOLEAN
    /\ liPhase = "old" => /\ liFile.here = TRUE /\ liBooks.marker = "none"
                          /\ OldInvoices /\ OldPayments /\ OldSaved
    /\ liPhase = "boot" /\ liBooks.marker = "none" => FoundAtBoot
    /\ liPhase \in {"rename", "up"} => liBooks.marker # "none"
    /\ liPhase \in {"boot", "rename", "up"} /\ liBooks.marker # "none" => Imported

(* Nothing is minted, owed or saved first.                                 *)
LEMMA LegacyInvInit == LegacyInit => LegacyInv
<1> SUFFICES ASSUME LegacyInit PROVE LegacyInv
  OBVIOUS
<1>1. /\ liBooks = NoBooks /\ liFile = [NoFile EXCEPT !.here = TRUE] /\ liPhase = "old"
      /\ liWallet = [paidIn |-> 0, expired |-> {}, sent |-> [g \in Gens |-> "none"]]
      /\ liSaved = [books |-> NoBooks, file |-> NoFile]
  BY DEF LegacyInit
<1>2. liFile = [here |-> TRUE, inv |-> 0, canceled |-> FALSE, pay |-> [g \in Gens |-> "none"]]
  BY <1>1 DEF NoFile
<1>b. /\ liBooks = [inv |-> 0, status |-> "none", att |-> "none", gen |-> 0, id |-> FALSE,
                  fence |-> FALSE, marker |-> "none"]
      /\ liBooks.inv = 0 /\ liBooks.status = "none" /\ liBooks.att = "none" /\ liBooks.gen = 0
      /\ liBooks.id = FALSE /\ liBooks.fence = FALSE /\ liBooks.marker = "none"
  BY <1>1 DEF NoBooks
<1>f. /\ liFile.here = TRUE /\ liFile.inv = 0 /\ liFile.canceled = FALSE
      /\ liFile.pay = [g \in Gens |-> "none"]
  BY <1>2
<1>w. /\ liWallet.paidIn = 0 /\ liWallet.expired = {}
      /\ liWallet.sent = [g \in Gens |-> "none"]
  BY <1>1
<1>m. 0 \in 0..MaxGen /\ 0 \in Nat
  BY LegacyAssumption
<1>x. IsBooks(liBooks)
  BY <1>b, <1>m DEF IsBooks
<1>y. IsFile(liFile)
  BY <1>2, <1>f, <1>m DEF IsFile
<1>z. IsWallet /\ PaidOnce
  BY <1>1, <1>w, <1>m DEF IsWallet, PaidOnce
<1>3. IsBooks(liBooks) /\ IsFile(liFile) /\ IsWallet /\ PaidOnce
  BY <1>x, <1>y, <1>z
<1>4. liFile.here = TRUE /\ liBooks.marker = "none" /\ OldInvoices
  BY <1>1, <1>2 DEF OldInvoices, NoBooks
<1>5. OldPayments
  <2>1. \A g \in Gens : g > 0 /\ ~(g < 0)
    BY LegacyAssumption DEF Gens
  <2>2. \A g \in Gens : liFile.pay[g] = "none" /\ liWallet.sent[g] = "none"
    BY <1>f, <1>w
  <2> QED
    BY <1>b, <2>1, <2>2 DEF OldPayments
<1>6. liSaved.file.here = FALSE
  BY <1>1 DEF NoFile
<1>7. OldSaved
  BY <1>6 DEF OldSaved
<1> QED
  BY <1>1, <1>3, <1>4, <1>5, <1>6, <1>7 DEF LegacyInv

(* What the invariant says while the old daemon runs.                      *)
LEMMA OldFacts ==
    ASSUME LegacyInv, liPhase = "old"
    PROVE  /\ IsBooks(liBooks) /\ IsFile(liFile) /\ IsWallet /\ PaidOnce
           /\ liSaved = [books |-> liSaved.books, file |-> liSaved.file]
           /\ liSaved.file.here \in BOOLEAN
           /\ liFile.here = TRUE /\ liBooks.marker = "none"
           /\ OldInvoices /\ OldPayments /\ OldSaved
BY DEF LegacyInv

(* What a step of the old daemon has to establish.                         *)
LEMMA OldKept ==
    ASSUME IsBooks(liBooks)', IsFile(liFile)', IsWallet', PaidOnce', liPhase' = "old",
           (liSaved = [books |-> liSaved.books, file |-> liSaved.file])',
           (liSaved.file.here \in BOOLEAN)',
           liFile'.here = TRUE, liBooks'.marker = "none",
           OldInvoices', OldPayments', OldSaved'
    PROVE  LegacyInv'
BY DEF LegacyInv

(* The old daemon mints, books and expires invoices, and the buyer pays.   *)
LEMMA OldInvoiceStep ==
    ASSUME LegacyInv, OldMint \/ OldBook \/ OldExpire \/ BuyerSettles PROVE LegacyInv'
<1>p. liPhase = "old"
  BY DEF OldMint, OldBook, OldExpire, BuyerSettles
<1>0. /\ IsBooks(liBooks) /\ IsFile(liFile) /\ IsWallet /\ PaidOnce
      /\ liSaved = [books |-> liSaved.books, file |-> liSaved.file]
      /\ liSaved.file.here \in BOOLEAN
      /\ liFile.here = TRUE /\ liBooks.marker = "none"
      /\ OldInvoices /\ OldPayments /\ OldSaved
  BY <1>p, OldFacts
<1>1. CASE OldMint
  <2>1. /\ liFile.inv = liBooks.inv /\ liBooks.att = "none" /\ liBooks.status # "PAID"
        /\ liFile.inv # 0 => liFile.inv \in liWallet.expired
        /\ liFile' = [liFile EXCEPT !.inv = liFile.inv + 1, !.canceled = FALSE]
        /\ UNCHANGED <<liBooks, liWallet, liSaved, liPhase>>
    BY <1>1 DEF OldMint
  <2>2. /\ liFile'.inv = liFile.inv + 1 /\ liFile'.canceled = FALSE /\ liFile'.here = liFile.here
        /\ liFile'.pay = liFile.pay
        /\ liFile' = [here |-> liFile'.here, inv |-> liFile'.inv, canceled |-> liFile'.canceled,
                     pay |-> liFile'.pay]
    BY <1>0, <2>1 DEF IsFile
  <2>a. liFile'.inv \in Nat
    BY <1>0, <2>2 DEF IsFile
  <2>b. liFile'.pay \in [Gens -> {"none", "PREPARED", "SUCCEEDED", "FAILED"}]
    BY <1>0, <2>2 DEF IsFile
  <2>3. IsFile(liFile)'
    BY <1>0, <2>a, <2>b, <2>2, Zenon DEF IsFile
  <2>4. OldInvoices'
    BY <1>0, <2>1, <2>2 DEF OldInvoices, IsBooks, IsFile
  <2>5. OldPayments' /\ OldSaved'
    BY <1>0, <2>1, <2>2 DEF OldPayments, OldSaved, IsFile, IsBooks
  <2> QED
    BY <1>0, <1>p, <2>1, <2>2, <2>3, <2>4, <2>5, OldKept DEF IsBooks, IsWallet, PaidOnce
<1>2. CASE OldBook
  <2>1. /\ liBooks.inv # liFile.inv
        /\ liBooks' = [liBooks EXCEPT !.inv = liFile.inv, !.status = "OPEN"]
        /\ UNCHANGED <<liFile, liWallet, liSaved, liPhase>>
    BY <1>2 DEF OldBook
  <2>2. /\ liBooks'.inv = liFile.inv /\ liBooks'.status = "OPEN" /\ liBooks'.att = liBooks.att
        /\ liBooks'.gen = liBooks.gen /\ liBooks'.id = liBooks.id
        /\ liBooks'.fence = liBooks.fence /\ liBooks'.marker = liBooks.marker
        /\ liBooks' = [inv |-> liBooks'.inv, status |-> liBooks'.status, att |-> liBooks'.att,
             gen |-> liBooks'.gen, id |-> liBooks'.id, fence |-> liBooks'.fence,
             marker |-> liBooks'.marker]
    BY <1>0, <2>1 DEF IsBooks
  <2>3. liFile.inv # 0
    BY <1>0, <2>1 DEF OldInvoices, IsBooks, IsFile
  <2>4. IsBooks(liBooks)'
    BY <1>0, <2>2, <2>3 DEF IsBooks, IsFile
  <2>5. OldInvoices'
    BY <1>0, <2>1, <2>2, <2>3 DEF OldInvoices, IsBooks, IsFile
  <2>6. OldPayments' /\ OldSaved'
    BY <1>0, <2>1, <2>2 DEF OldPayments, OldSaved
  <2> QED
    BY <1>0, <1>p, <2>1, <2>2, <2>4, <2>5, <2>6, OldKept DEF IsFile, IsWallet, PaidOnce
<1>3. CASE OldExpire
  <2>1. /\ liBooks.inv \in liWallet.expired /\ liBooks.status = "OPEN"
        /\ liBooks' = [liBooks EXCEPT !.status = "EXPIRED"]
        /\ liFile' = [liFile EXCEPT !.canceled = (liFile.inv = liBooks.inv)]
        /\ UNCHANGED <<liWallet, liSaved, liPhase>>
    BY <1>3 DEF OldExpire
  <2>2. /\ liBooks'.inv = liBooks.inv /\ liBooks'.status = "EXPIRED" /\ liBooks'.att = liBooks.att
        /\ liBooks'.gen = liBooks.gen /\ liBooks'.id = liBooks.id
        /\ liBooks'.fence = liBooks.fence /\ liBooks'.marker = liBooks.marker
        /\ liBooks' = [inv |-> liBooks'.inv, status |-> liBooks'.status, att |-> liBooks'.att,
             gen |-> liBooks'.gen, id |-> liBooks'.id, fence |-> liBooks'.fence,
             marker |-> liBooks'.marker]
    BY <1>0, <2>1 DEF IsBooks
  <2>3. /\ liFile'.inv = liFile.inv /\ liFile'.here = liFile.here /\ liFile'.pay = liFile.pay
        /\ liFile'.canceled \in BOOLEAN
        /\ liFile'.canceled = TRUE => liFile.inv = liBooks.inv
        /\ liFile' = [here |-> liFile'.here, inv |-> liFile'.inv, canceled |-> liFile'.canceled,
                     pay |-> liFile'.pay]
    BY <1>0, <2>1 DEF IsFile
  <2>4. liBooks.inv # 0
    BY <1>0, <2>1 DEF OldInvoices
  <2>5. IsBooks(liBooks)' /\ IsFile(liFile)'
    BY <1>0, <2>2, <2>3, <2>4 DEF IsBooks, IsFile
  <2>6. OldInvoices'
    BY <1>0, <2>1, <2>2, <2>3, <2>4 DEF OldInvoices
  <2>7. OldPayments' /\ OldSaved'
    BY <1>0, <2>1, <2>2, <2>3 DEF OldPayments, OldSaved
  <2>8. liFile'.here = TRUE /\ liBooks'.marker = "none" /\ liPhase' = "old"
    BY <1>0, <1>p, <2>1, <2>2, <2>3
  <2>9. /\ (liSaved = [books |-> liSaved.books, file |-> liSaved.file])'
        /\ (liSaved.file.here \in BOOLEAN)'
    BY <1>0, <2>1
  <2>10. IsWallet' /\ PaidOnce'
    BY <1>0, <2>1 DEF IsWallet, PaidOnce
  <2> QED
    BY <2>5, <2>6, <2>7, <2>8, <2>9, <2>10, OldKept, Zenon
<1>4. CASE BuyerSettles
  <2>1. /\ liFile.inv # 0 /\ liBooks.inv = liFile.inv
        /\ liWallet.paidIn = 0 /\ liFile.inv \notin liWallet.expired
        /\ \/ liWallet' = [liWallet EXCEPT !.paidIn = liFile.inv]
           \/ liWallet' = [liWallet EXCEPT !.expired = liWallet.expired \cup {liFile.inv}]
        /\ UNCHANGED <<liBooks, liFile, liSaved, liPhase>>
    BY <1>4 DEF BuyerSettles
  <2>2. /\ liWallet'.sent = liWallet.sent
        /\ \/ liWallet'.paidIn = liFile.inv /\ liWallet'.expired = liWallet.expired
           \/ liWallet'.paidIn = 0 /\ liWallet'.expired = liWallet.expired \cup {liFile.inv}
        /\ liWallet' = [paidIn |-> liWallet'.paidIn, expired |-> liWallet'.expired,
                       sent |-> liWallet'.sent]
    BY <1>0, <2>1 DEF IsWallet
  <2>3. IsWallet' /\ PaidOnce'
    BY <1>0, <2>2 DEF IsWallet, PaidOnce, IsFile
  <2>4. OldInvoices'
    BY <1>0, <2>1, <2>2 DEF OldInvoices
  <2>5. OldPayments' /\ OldSaved'
    BY <1>0, <2>1, <2>2 DEF OldPayments, OldSaved
  <2> QED
    BY <1>0, <1>p, <2>1, <2>3, <2>4, <2>5, OldKept DEF IsBooks, IsFile
<1> QED
  BY <1>1, <1>2, <1>3, <1>4

(* It books the payment as owed back, resolves, prepares, pays and records *)
(* the refund, one generation after another, and is backed up.             *)
LEMMA OldRefundStep ==
    ASSUME LegacyInv, OldRefundDue \/ OldResolve \/ OldPrepare \/ OldSend \/ OldRecord \/ SaveBoth
    PROVE  LegacyInv'
<1>p. liPhase = "old" /\ liPhase' = "old"
  BY DEF OldRefundDue, OldResolve, OldPrepare, OldSend, OldRecord, SaveBoth
<1>0. /\ IsBooks(liBooks) /\ IsFile(liFile) /\ IsWallet /\ PaidOnce
      /\ liSaved = [books |-> liSaved.books, file |-> liSaved.file]
      /\ liSaved.file.here \in BOOLEAN
      /\ liFile.here = TRUE /\ liBooks.marker = "none"
      /\ OldInvoices /\ OldPayments /\ OldSaved
  BY <1>p, OldFacts
<1>g. \A g \in Gens : g \in Nat /\ g # 0 /\ g \in 1..MaxGen
  BY LegacyAssumption DEF Gens
<1>1. CASE OldRefundDue
  <2>1. /\ liBooks.inv # 0 /\ liBooks.status = "OPEN" /\ liWallet.paidIn = liBooks.inv
        /\ liBooks' = [liBooks EXCEPT !.status = "PAID", !.att = "PENDING"]
        /\ UNCHANGED <<liFile, liWallet, liSaved, liPhase>>
    BY <1>1 DEF OldRefundDue
  <2>2. /\ liBooks'.inv = liBooks.inv /\ liBooks'.status = "PAID" /\ liBooks'.att = "PENDING"
        /\ liBooks'.gen = liBooks.gen /\ liBooks'.id = liBooks.id
        /\ liBooks'.fence = liBooks.fence /\ liBooks'.marker = liBooks.marker
        /\ liBooks' = [inv |-> liBooks'.inv, status |-> liBooks'.status, att |-> liBooks'.att,
             gen |-> liBooks'.gen, id |-> liBooks'.id, fence |-> liBooks'.fence,
             marker |-> liBooks'.marker]
    BY <1>0, <2>1 DEF IsBooks
  <2>3. IsBooks(liBooks)'
    BY <1>0, <2>1, <2>2 DEF IsBooks
  <2>4. OldInvoices'
    BY <1>0, <2>1, <2>2 DEF OldInvoices
  <2>5. OldPayments' /\ OldSaved'
    BY <1>0, <2>1, <2>2 DEF OldPayments, OldSaved
  <2>6. IsFile(liFile)' /\ IsWallet' /\ PaidOnce'
    BY <1>0, <2>1 DEF IsFile, IsWallet, PaidOnce
  <2>7. /\ liFile'.here = TRUE /\ liBooks'.marker = "none"
        /\ (liSaved = [books |-> liSaved.books, file |-> liSaved.file])'
        /\ (liSaved.file.here \in BOOLEAN)'
    BY <1>0, <2>1, <2>2
  <2> QED
    BY <1>p, <2>3, <2>4, <2>5, <2>6, <2>7, OldKept, Zenon
<1>2. CASE OldResolve
  <2>1. /\ liBooks.att = "PENDING" /\ liBooks.gen < MaxGen
        /\ liBooks.gen # 0 => liFile.pay[liBooks.gen] = "FAILED"
        /\ liBooks' = [liBooks EXCEPT !.gen = liBooks.gen + 1]
        /\ UNCHANGED <<liFile, liWallet, liSaved, liPhase>>
    BY <1>2 DEF OldResolve
  <2>2. /\ liBooks'.inv = liBooks.inv /\ liBooks'.status = liBooks.status
        /\ liBooks'.att = liBooks.att
        /\ liBooks'.gen = liBooks.gen + 1 /\ liBooks'.id = liBooks.id
        /\ liBooks'.fence = liBooks.fence /\ liBooks'.marker = liBooks.marker
        /\ liBooks' = [inv |-> liBooks'.inv, status |-> liBooks'.status, att |-> liBooks'.att,
             gen |-> liBooks'.gen, id |-> liBooks'.id, fence |-> liBooks'.fence,
             marker |-> liBooks'.marker]
    BY <1>0, <2>1 DEF IsBooks
  <2>n. liBooks.gen \in Nat /\ liBooks'.gen \in 0..MaxGen
    BY <1>0, <2>1, <2>2, LegacyAssumption DEF IsBooks
  <2>3. IsBooks(liBooks)'
    BY <1>0, <2>1, <2>2, <2>n DEF IsBooks
  <2>4. OldInvoices'
    BY <1>0, <2>1, <2>2 DEF OldInvoices
  <2>a. \A g \in Gens : g < liBooks.gen + 1 => g < liBooks.gen \/ g = liBooks.gen
    BY <1>g, <2>n
  <2>b. \A g \in Gens : g > liBooks.gen + 1 => g > liBooks.gen
    BY <1>g, <2>n
  <2>c. OldPayments'
    BY <1>0, <1>g, <2>1, <2>2, <2>a, <2>b DEF OldPayments
  <2>d. OldSaved'
    BY <1>0, <2>1, <2>2, <2>n DEF OldSaved, IsBooks
  <2>6. IsFile(liFile)' /\ IsWallet' /\ PaidOnce'
    BY <1>0, <2>1 DEF IsFile, IsWallet, PaidOnce
  <2>7. /\ liFile'.here = TRUE /\ liBooks'.marker = "none"
        /\ (liSaved = [books |-> liSaved.books, file |-> liSaved.file])'
        /\ (liSaved.file.here \in BOOLEAN)'
    BY <1>0, <2>1, <2>2
  <2> QED
    BY <1>p, <2>3, <2>4, <2>c, <2>d, <2>6, <2>7, OldKept, Zenon
<1>3. CASE OldPrepare \/ (OldRecord /\ liFile.pay[liBooks.gen] = "PREPARED")
  <2>1. PICK v \in {"PREPARED", "SUCCEEDED", "FAILED"} :
           /\ liFile' = [liFile EXCEPT !.pay = [liFile.pay EXCEPT ![liBooks.gen] = v]]
           /\ v = "FAILED" => liWallet.sent[liBooks.gen] # "paid"
           /\ v = "FAILED" => liWallet.sent[liBooks.gen] # "none"
    BY <1>3 DEF OldPrepare, OldRecord
  <2>2. liBooks.gen # 0 /\ UNCHANGED <<liBooks, liWallet, liSaved, liPhase>>
    BY <1>3 DEF OldPrepare, OldRecord
  <2>3. liBooks.gen \in Gens
    BY <1>0, <2>2 DEF IsBooks, Gens
  <2>4. /\ liFile'.here = liFile.here /\ liFile'.inv = liFile.inv
        /\ liFile'.canceled = liFile.canceled
        /\ liFile'.pay = [liFile.pay EXCEPT ![liBooks.gen] = v]
        /\ liFile' = [here |-> liFile'.here, inv |-> liFile'.inv, canceled |-> liFile'.canceled,
                     pay |-> liFile'.pay]
    BY <1>0, <2>1 DEF IsFile
  <2>5. /\ liFile'.pay \in [Gens -> {"none", "PREPARED", "SUCCEEDED", "FAILED"}]
        /\ liFile'.pay[liBooks.gen] = v
        /\ \A g \in Gens : g # liBooks.gen => liFile'.pay[g] = liFile.pay[g]
    BY <1>0, <2>3, <2>4 DEF IsFile
  <2>6. IsFile(liFile)'
    BY <1>0, <2>4, <2>5, Zenon DEF IsFile
  <2>7. OldInvoices'
    BY <1>0, <2>2, <2>4 DEF OldInvoices
  <2>8. v = "FAILED" => liWallet.sent[liBooks.gen] = "failed"
    BY <1>0, <2>1, <2>3 DEF IsWallet, PaidOnce
  <2>9. \A g \in Gens : ~(liBooks.gen < liBooks.gen) /\ ~(liBooks.gen > liBooks.gen)
    BY <2>3, <1>g
  <2>10. OldPayments'
    BY <1>0, <2>2, <2>3, <2>5, <2>8, <2>9 DEF OldPayments
  <2>11. OldSaved'
    BY <1>0, <2>2, <2>4 DEF OldSaved
  <2>12. IsBooks(liBooks)' /\ IsWallet' /\ PaidOnce'
    BY <1>0, <2>2 DEF IsBooks, IsWallet, PaidOnce
  <2>13. /\ liFile'.here = TRUE /\ liBooks'.marker = "none"
         /\ (liSaved = [books |-> liSaved.books, file |-> liSaved.file])'
         /\ (liSaved.file.here \in BOOLEAN)'
    BY <1>0, <2>2, <2>4
  <2> QED
    BY <1>p, <2>6, <2>7, <2>10, <2>11, <2>12, <2>13, OldKept, Zenon
<1>4. CASE OldSend
  <2>1. PICK outcome \in {"paid", "failed"} :
           liWallet' = [liWallet EXCEPT !.sent = [liWallet.sent EXCEPT ![liBooks.gen] = outcome]]
    BY <1>4 DEF OldSend
  <2>2. /\ liBooks.gen # 0 /\ UNCHANGED <<liBooks, liFile, liSaved, liPhase>>
        /\ liFile.pay[liBooks.gen] = "PREPARED" /\ liWallet.sent[liBooks.gen] = "none"
    BY <1>4 DEF OldSend
  <2>3. liBooks.gen \in Gens
    BY <1>0, <2>2 DEF IsBooks, Gens
  <2>4. /\ liWallet'.paidIn = liWallet.paidIn /\ liWallet'.expired = liWallet.expired
        /\ liWallet'.sent = [liWallet.sent EXCEPT ![liBooks.gen] = outcome]
        /\ liWallet' = [paidIn |-> liWallet'.paidIn, expired |-> liWallet'.expired,
                       sent |-> liWallet'.sent]
    BY <1>0, <2>1 DEF IsWallet
  <2>5. /\ liWallet'.sent \in [Gens -> {"none", "paid", "failed", "twice"}]
        /\ liWallet'.sent[liBooks.gen] = outcome
        /\ \A g \in Gens : g # liBooks.gen => liWallet'.sent[g] = liWallet.sent[g]
    BY <1>0, <2>3, <2>4 DEF IsWallet
  <2>6. IsWallet'
    BY <1>0, <2>4, <2>5 DEF IsWallet
  <2>7. \A g \in Gens : g # liBooks.gen => liWallet.sent[g] # "paid"
    <3>1. \A g \in Gens : g # liBooks.gen => g < liBooks.gen \/ g > liBooks.gen
      BY <2>3, <1>g
    <3> QED
      BY <1>0, <3>1 DEF OldPayments
  <2>8. PaidOnce'
    BY <1>0, <2>3, <2>5, <2>7 DEF PaidOnce
  <2>9. OldInvoices'
    BY <1>0, <2>2, <2>4 DEF OldInvoices
  <2>10. ~(liBooks.gen < liBooks.gen) /\ ~(liBooks.gen > liBooks.gen)
    BY <2>3, <1>g
  <2>11. OldPayments'
    BY <1>0, <2>2, <2>3, <2>5, <2>10 DEF OldPayments
  <2>12. OldSaved'
    <3>1. \A g \in Gens : liWallet.sent[g] = "failed" => liWallet'.sent[g] = "failed"
      BY <2>2, <2>5
    <3> QED
      BY <1>0, <2>2, <3>1 DEF OldSaved
  <2>13. IsBooks(liBooks)' /\ IsFile(liFile)'
    BY <1>0, <2>2
  <2>14. /\ liFile'.here = TRUE /\ liBooks'.marker = "none"
         /\ (liSaved = [books |-> liSaved.books, file |-> liSaved.file])'
         /\ (liSaved.file.here \in BOOLEAN)'
    BY <1>0, <2>2
  <2> QED
    BY <1>p, <2>6, <2>8, <2>9, <2>11, <2>12, <2>13, <2>14, OldKept, Zenon
<1>5. CASE OldRecord /\ liFile.pay[liBooks.gen] # "PREPARED"
  <2>1. /\ liBooks.att = "PENDING" /\ UNCHANGED <<liFile, liWallet, liSaved, liPhase>>
        /\ \/ liBooks' = [liBooks EXCEPT !.att = "SENT", !.id = TRUE]
           \/ liBooks' = [liBooks EXCEPT !.att = "FAILED"]
    BY <1>5 DEF OldRecord
  <2>2. /\ liBooks'.inv = liBooks.inv /\ liBooks'.status = liBooks.status
        /\ liBooks'.att \in {"SENT", "FAILED"} /\ liBooks'.gen = liBooks.gen
        /\ liBooks'.fence = liBooks.fence /\ liBooks'.marker = liBooks.marker
        /\ liBooks' = [inv |-> liBooks'.inv, status |-> liBooks'.status, att |-> liBooks'.att,
             gen |-> liBooks'.gen, id |-> liBooks'.id, fence |-> liBooks'.fence,
             marker |-> liBooks'.marker]
    BY <1>0, <2>1 DEF IsBooks
  <2>3. IsBooks(liBooks)'
    BY <1>0, <2>1, <2>2 DEF IsBooks
  <2>4. OldInvoices'
    BY <1>0, <2>1, <2>2 DEF OldInvoices
  <2>5. OldPayments' /\ OldSaved'
    BY <1>0, <2>1, <2>2 DEF OldPayments, OldSaved
  <2>6. IsFile(liFile)' /\ IsWallet' /\ PaidOnce'
    BY <1>0, <2>1 DEF IsFile, IsWallet, PaidOnce
  <2>7. /\ liFile'.here = TRUE /\ liBooks'.marker = "none"
        /\ (liSaved = [books |-> liSaved.books, file |-> liSaved.file])'
        /\ (liSaved.file.here \in BOOLEAN)'
    BY <1>0, <2>1, <2>2
  <2> QED
    BY <1>p, <2>3, <2>4, <2>5, <2>6, <2>7, OldKept, Zenon
<1>6. CASE SaveBoth
  <2>1. /\ liSaved' = [books |-> liBooks, file |-> liFile]
        /\ UNCHANGED <<liBooks, liFile, liWallet, liPhase>>
    BY <1>6 DEF SaveBoth
  <2>2. liSaved'.books = liBooks /\ liSaved'.file = liFile
    BY <2>1
  <2>3. liBooks.inv <= liFile.inv /\ liBooks.gen <= liBooks.gen
    BY <1>0 DEF OldInvoices, IsBooks
  <2>4. OldSaved'
    BY <1>0, <2>1, <2>2, <2>3 DEF OldSaved, OldPayments
  <2>5. /\ IsBooks(liBooks)' /\ IsFile(liFile)' /\ IsWallet' /\ PaidOnce'
        /\ OldInvoices' /\ OldPayments'
    BY <1>0, <2>1 DEF IsBooks, IsFile, IsWallet, PaidOnce, OldInvoices, OldPayments
  <2>6. /\ liFile'.here = TRUE /\ liBooks'.marker = "none"
        /\ (liSaved = [books |-> liSaved.books, file |-> liSaved.file])'
        /\ (liSaved.file.here \in BOOLEAN)'
    BY <1>0, <2>1, <2>2
  <2> QED
    BY <1>p, <2>4, <2>5, <2>6, OldKept, Zenon
<1> QED
  BY <1>1, <1>2, <1>3, <1>4, <1>5, <1>6

(* What was paid was paid under the generation the books are at.           *)
LEMMA PaidAtCurrent ==
    ASSUME OldPayments, IsBooks(liBooks), NEW h \in Gens, liWallet.sent[h] = "paid"
    PROVE  h = liBooks.gen /\ liFile.pay[h] # "FAILED" /\ liFile.pay[h] # "none"
<1>1. h \in Nat /\ liBooks.gen \in Nat
  BY LegacyAssumption DEF IsBooks, Gens
<1>2. ~(h < liBooks.gen) /\ ~(h > liBooks.gen)
  BY DEF OldPayments
<1>3. h = liBooks.gen
  BY <1>1, <1>2
<1> QED
  BY <1>3 DEF OldPayments

(* The upgrade finds the files of one instant, one of them older, or the   *)
(* side file lost.                                                         *)
LEMMA UpgradeStep == ASSUME LegacyInv, Upgrade PROVE LegacyInv'
<1>p. liPhase = "old" /\ liPhase' = "boot" /\ UNCHANGED <<liWallet, liSaved>>
  BY DEF Upgrade
<1>0. /\ IsBooks(liBooks) /\ IsFile(liFile) /\ IsWallet /\ PaidOnce
      /\ liSaved = [books |-> liSaved.books, file |-> liSaved.file]
      /\ liSaved.file.here \in BOOLEAN
      /\ liFile.here = TRUE /\ liBooks.marker = "none"
      /\ OldInvoices /\ OldPayments /\ OldSaved
  BY <1>p, OldFacts
<1>g. /\ \A g \in Gens : g \in Nat /\ g # 0 /\ g <= g
      /\ liBooks.gen \in Nat
  BY <1>0, LegacyAssumption DEF Gens, IsBooks
<1>i. /\ liWallet.paidIn # 0 =>
            /\ liWallet.paidIn = liBooks.inv /\ liBooks.inv = liFile.inv
            /\ liWallet.paidIn \notin liWallet.expired
            /\ liFile.canceled = FALSE /\ liBooks.status # "EXPIRED"
  <2>1. liFile.canceled \in BOOLEAN
    BY <1>0 DEF IsFile
  <2> QED
    BY <1>0, <2>1 DEF OldInvoices
<1>w. IsWallet' /\ PaidOnce' /\ (liSaved = [books |-> liSaved.books, file |-> liSaved.file])'
      /\ (liSaved.file.here \in BOOLEAN)'
  BY <1>0, <1>p DEF IsWallet, PaidOnce
<1>k. \A g, h, k \in Gens : g <= k /\ k < h /\ h = g => FALSE
  BY <1>g
<1>m. liBooks'.marker = "none"
  BY <1>0 DEF Upgrade, OldSaved
<1> SUFFICES IsBooks(liBooks)' /\ IsFile(liFile)' /\ FoundAtBoot'
  BY <1>p, <1>w, <1>m DEF LegacyInv
<1>1. CASE UNCHANGED <<liBooks, liFile>>
  <2>1. liBooks.att = "PENDING" /\ liBooks.gen # 0 /\ liFile.pay[liBooks.gen] # "none" =>
            Finds(liBooks.gen)
    <3>1. SUFFICES ASSUME NEW h \in Gens, liWallet.sent[h] = "paid"
                   PROVE  /\ h >= liBooks.gen /\ liFile.pay[h] \in {"PREPARED", "SUCCEEDED"}
                          /\ \A k \in Gens : liBooks.gen <= k /\ k < h => liFile.pay[k] = "FAILED"
      BY DEF Finds
    <3>2. h = liBooks.gen /\ liFile.pay[h] # "FAILED" /\ liFile.pay[h] # "none"
      BY <1>0, <3>1, PaidAtCurrent
    <3>3. liFile.pay[h] \in {"PREPARED", "SUCCEEDED"} /\ h >= liBooks.gen
      BY <1>0, <1>g, <3>2 DEF IsFile
    <3> QED
      BY <1>k, <3>2, <3>3
  <2>2. FoundAtBoot
    BY <1>0, <1>i, <2>1 DEF FoundAtBoot, OldInvoices
  <2> QED
    BY <1>0, <1>1, <1>p, <2>2 DEF FoundAtBoot, Finds, IsBooks, IsFile
<1>2. CASE liSaved.file.here /\ liBooks' = liSaved.books /\ UNCHANGED liFile
  <2>1. /\ IsBooks(liBooks') /\ liBooks'.marker = "none"
        /\ liBooks'.inv <= liFile.inv /\ liBooks'.gen <= liBooks.gen
    BY <1>0, <1>2 DEF OldSaved
  <2>2. PICK b : b = liBooks'
    OBVIOUS
  <2>3. b.gen # 0 => Finds(b.gen)
    <3>1. SUFFICES ASSUME NEW h \in Gens, liWallet.sent[h] = "paid", b.gen # 0
                   PROVE  /\ h >= b.gen /\ liFile.pay[h] \in {"PREPARED", "SUCCEEDED"}
                          /\ \A k \in Gens : b.gen <= k /\ k < h => liFile.pay[k] = "FAILED"
      BY DEF Finds
    <3>2. h = liBooks.gen /\ liFile.pay[h] # "FAILED" /\ liFile.pay[h] # "none"
      BY <1>0, <3>1, PaidAtCurrent
    <3>3. liFile.pay[h] \in {"PREPARED", "SUCCEEDED"}
      BY <1>0, <3>2 DEF IsFile
    <3>4. h >= b.gen
      <4>1. b.gen \in Nat /\ b.gen <= liBooks.gen
        BY <2>1, <2>2, LegacyAssumption DEF IsBooks
      <4> QED
        BY <1>g, <3>2, <4>1
    <3>5. \A k \in Gens : k < h => liFile.pay[k] = "FAILED"
      BY <1>0, <3>2 DEF OldPayments
    <3> QED
      BY <3>3, <3>4, <3>5
  <2>4. (b.inv = 0 => b.status = "none")
    BY <2>1, <2>2 DEF IsBooks
  <2>5. liWallet.paidIn # 0 /\ b.inv # 0 => liFile.inv # 0
    BY <1>i
  <2>6. FoundAtBoot'
    BY <1>0, <1>2, <1>i, <1>p, <2>2, <2>3, <2>4, <2>5 DEF FoundAtBoot, Finds
  <2> QED
    BY <1>0, <1>2, <2>1, <2>6
<1>3. CASE liSaved.file.here /\ liFile' = liSaved.file /\ UNCHANGED liBooks
  <2>1. /\ IsFile(liFile')
        /\ \A g \in Gens : liFile'.pay[g] = "FAILED" => liWallet.sent[g] = "failed"
    BY <1>0, <1>3 DEF OldSaved
  <2>2. PICK f : f = liFile'
    OBVIOUS
  <2>3. liBooks.gen # 0 /\ f.pay[liBooks.gen] # "none" => Finds(liBooks.gen)'
    <3>1. SUFFICES ASSUME NEW h \in Gens, liWallet.sent[h] = "paid", liBooks.gen # 0,
                          f.pay[liBooks.gen] # "none"
                   PROVE  /\ h >= liBooks.gen /\ f.pay[h] \in {"PREPARED", "SUCCEEDED"}
                          /\ \A k \in Gens : liBooks.gen <= k /\ k < h => f.pay[k] = "FAILED"
      BY <1>3, <1>p, <2>2 DEF Finds
    <3>2. h = liBooks.gen
      BY <1>0, <3>1, PaidAtCurrent
    <3>3. f.pay[h] # "FAILED"
      BY <2>1, <2>2, <3>1
    <3>4. f.pay[h] \in {"PREPARED", "SUCCEEDED"} /\ h >= liBooks.gen
      BY <1>g, <2>1, <2>2, <3>1, <3>2, <3>3 DEF IsFile
    <3> QED
      BY <1>k, <3>2, <3>4
  <2>4. f.here = TRUE
    BY <1>0, <1>3, <2>2
  <2>5. liBooks.inv = 0 => liBooks.status = "none"
    BY <1>0 DEF OldInvoices
  <2>6. FoundAtBoot'
    BY <1>3, <1>i, <1>p, <2>2, <2>3, <2>4, <2>5 DEF FoundAtBoot
  <2> QED
    BY <1>0, <1>3, <2>1, <2>6
<1>4. CASE liFile' = NoFile /\ UNCHANGED liBooks
  <2>1. /\ liFile' = [here |-> FALSE, inv |-> 0, canceled |-> FALSE,
                      pay |-> [g \in Gens |-> "none"]]
    BY <1>4 DEF NoFile
  <2>2. /\ liFile'.here = FALSE /\ liFile'.inv = 0 /\ liFile'.canceled = FALSE
        /\ liFile'.pay = [g \in Gens |-> "none"]
    BY <2>1
  <2>3. IsFile(liFile')
    BY <2>1, <2>2, LegacyAssumption DEF IsFile
  <2>4. liBooks.inv = 0 => liBooks.status = "none" /\ liBooks.att = "none"
    <3>1. liBooks.inv = 0 => liBooks.status = "none"
      BY <1>0 DEF OldInvoices
    <3>2. liBooks.att # "none" => liBooks.status = "PAID"
      BY <1>0 DEF OldInvoices
    <3> QED
      BY <3>1, <3>2
  <2>5. FoundAtBoot'
    BY <1>4, <2>2, <2>4 DEF FoundAtBoot
  <2> QED
    BY <1>0, <1>4, <2>3, <2>5
<1> QED
  BY <1>1, <1>2, <1>3, <1>4 DEF Upgrade

(* The import repairs, reaps or fences what the two files say, or refuses  *)
(* the boot.                                                               *)
LEMMA ImportStep == ASSUME LegacyInv, ImportPresent PROVE LegacyInv'
<1>1. /\ liPhase = "boot" /\ liFile.here = TRUE /\ liBooks.marker = "none"
      /\ UNCHANGED <<liFile, liWallet, liSaved>>
  <2>1. liFile.here /\ liFile.here \in BOOLEAN
    BY DEF ImportPresent, LegacyInv, IsFile
  <2>2. liFile.here = TRUE
    BY <2>1, Zenon
  <2> QED
    BY <2>2 DEF ImportPresent, Migrated
<1>0. /\ IsBooks(liBooks) /\ IsFile(liFile) /\ IsWallet /\ PaidOnce /\ FoundAtBoot
      /\ liSaved = [books |-> liSaved.books, file |-> liSaved.file]
      /\ liSaved.file.here \in BOOLEAN
  BY <1>1 DEF LegacyInv
<1>w. /\ IsFile(liFile)' /\ IsWallet' /\ PaidOnce'
      /\ (liSaved = [books |-> liSaved.books, file |-> liSaved.file])'
      /\ (liSaved.file.here \in BOOLEAN)'
  BY <1>0, <1>1 DEF IsWallet, PaidOnce
<1>2. PICK aged \in BOOLEAN, mapState \in ReceiveStates(liFile.inv),
           bookState \in ReceiveStates(liBooks.inv) :
        IF Receive(aged) = "refuse" \/ Pay(RowOf(liFile)) = "refuse"
              \/ (Receive(aged) = "tie" /\ ~TieBreaks(mapState, bookState))
        THEN liPhase' = "refused" /\ UNCHANGED liBooks
        ELSE /\ liPhase' = "rename"
             /\ liBooks' = ImportedBooks(Receive(aged), Pay(RowOf(liFile)))
  BY DEF ImportPresent
<1>3. CASE liPhase' = "refused" /\ UNCHANGED liBooks
  BY <1>0, <1>3, <1>w DEF LegacyInv
<1>4. CASE /\ Receive(aged) # "refuse" /\ Pay(RowOf(liFile)) # "refuse"
           /\ Receive(aged) = "tie" => TieBreaks(mapState, bookState)
           /\ liPhase' = "rename"
           /\ liBooks' = ImportedBooks(Receive(aged), Pay(RowOf(liFile)))
  <2>1. PICK r : r = Receive(aged)
    OBVIOUS
  <2>2. PICK p : p = Pay(RowOf(liFile))
    OBVIOUS
  <2>3. liBooks' = ImportedBooks(r, p)
    BY <1>4, <2>1, <2>2
  <2>4. /\ liBooks'.fence = (p = "fence") /\ liBooks'.marker = "imported"
        /\ liBooks'.att = liBooks.att /\ liBooks'.gen = liBooks.gen
        /\ r = "reap" => liBooks'.inv = 0
        /\ r = "tie" => liBooks'.inv = liFile.inv
        /\ r \notin {"reap", "tie"} =>
              liBooks'.inv = liBooks.inv /\ liBooks'.status = liBooks.status
        /\ liBooks' = [inv |-> liBooks'.inv, status |-> liBooks'.status, att |-> liBooks'.att,
             gen |-> liBooks'.gen, id |-> liBooks'.id, fence |-> liBooks'.fence,
             marker |-> liBooks'.marker]
    BY <1>0, <2>3 DEF ImportedBooks, IsBooks
  <2>5. IsBooks(liBooks)'
    <3>1. liBooks'.inv \in Nat
      BY <1>0, <2>4 DEF IsBooks, IsFile
    <3>2. liBooks'.fence \in BOOLEAN
      BY <2>4, Zenon
    <3> QED
      BY <1>0, <2>4, <3>1, <3>2 DEF IsBooks
  <2>6. liBooks.att = "PENDING" /\ liBooks'.fence = FALSE =>
            liBooks.gen # 0 /\ liFile.pay[liBooks.gen] # "none"
    <3>1. ASSUME liBooks.att = "PENDING", liBooks'.fence = FALSE PROVE RowOf(liFile) # "none"
      <4>1. p # "fence"
        BY <2>4, <3>1, Zenon
      <4>2. RowOf(liFile) = "none" => Pay(RowOf(liFile)) \in {"refuse", "fence"}
        BY <3>1 DEF Pay
      <4> QED
        BY <1>4, <2>2, <4>1, <4>2
    <3>2. RowOf(liFile) # "none" => liBooks.gen # 0 /\ liFile.pay[liBooks.gen] # "none"
      BY DEF RowOf
    <3> QED
      BY <3>1, <3>2
  <2>7. liBooks.att = "PENDING" /\ liBooks'.fence = FALSE =>
            liBooks.gen # 0 /\ Finds(liBooks.gen)
    BY <1>0, <1>1, <2>6 DEF FoundAtBoot
  <2>8. liWallet.paidIn # 0 /\ liBooks'.status # "none" => liBooks'.inv = liWallet.paidIn
    <3> SUFFICES ASSUME liWallet.paidIn # 0, liBooks'.status # "none"
                 PROVE  liBooks'.inv = liWallet.paidIn
      OBVIOUS
    <3>1. /\ liBooks.inv = 0 => liBooks.status = "none"
          /\ liBooks.inv # 0 =>
               /\ liBooks.status = "EXPIRED" => liFile.inv # 0 /\ liFile.canceled = FALSE
               /\ liFile.inv = liBooks.inv => liBooks.inv = liWallet.paidIn
               /\ liFile.inv \notin liWallet.expired /\ liBooks.inv \in liWallet.expired =>
                     liFile.inv = liWallet.paidIn
      BY <1>0, <1>1 DEF FoundAtBoot
    <3>2. liBooks.inv = 0 => r = "covered"
      BY <2>1 DEF Receive
    <3>3. liBooks.inv # 0
      BY <2>4, <3>1, <3>2
    <3>4. r # "reap"
      <4>1. r = "reap" => liBooks.status = "EXPIRED" /\ (liFile.inv = 0 \/ liFile.canceled)
        BY <2>1, <3>3 DEF Receive
      <4> QED
        BY <3>1, <3>3, <4>1
    <3>5. CASE r = "tie"
      <4>1. mapState = "Established" /\ bookState = "TerminalUnpaid"
        BY <1>4, <2>1, <3>5 DEF TieBreaks
      <4>2. liFile.inv \notin liWallet.expired /\ liBooks.inv \in liWallet.expired
        BY <4>1 DEF ReceiveStates
      <4> QED
        BY <2>4, <3>1, <3>3, <3>5, <4>2
    <3>6. CASE r # "tie"
      <4>1. liFile.inv = liBooks.inv
        BY <1>4, <2>1, <3>3, <3>4, <3>6 DEF Receive
      <4> QED
        BY <2>4, <3>1, <3>3, <3>4, <3>6, <4>1
    <3> QED
      BY <3>5, <3>6
  <2>9. Imported'
    BY <1>1, <2>4, <2>7, <2>8 DEF Imported, Finds
  <2> QED
    BY <1>4, <1>w, <2>4, <2>5, <2>9 DEF LegacyInv
<1> QED
  BY <1>2, <1>3, <1>4

(* Without its side file a boot goes on only with what the books say       *)
(* themselves, and a boot that finds its marker asks no more.              *)
LEMMA BootStep ==
    ASSUME LegacyInv, ImportAbsent \/ RenameImported \/ ImportCrash PROVE LegacyInv'
<1>0. /\ IsBooks(liBooks) /\ IsFile(liFile) /\ IsWallet /\ PaidOnce
      /\ liSaved = [books |-> liSaved.books, file |-> liSaved.file]
      /\ liSaved.file.here \in BOOLEAN
  BY DEF LegacyInv
<1>u. UNCHANGED <<liWallet, liSaved>>
  BY DEF ImportAbsent, RenameImported, ImportCrash
<1>w. /\ IsWallet' /\ PaidOnce'
      /\ (liSaved = [books |-> liSaved.books, file |-> liSaved.file])'
      /\ (liSaved.file.here \in BOOLEAN)'
  BY <1>0, <1>u DEF IsWallet, PaidOnce
<1>1. CASE ImportCrash \/ (ImportAbsent /\ Migrated)
  <2>1. /\ liBooks.marker # "none" /\ Imported /\ UNCHANGED <<liBooks, liFile>>
        /\ liPhase' \in {"boot", "up"}
    BY <1>1 DEF ImportCrash, ImportAbsent, Migrated, LegacyInv
  <2>2. Imported'
    BY <1>u, <2>1 DEF Imported, Finds
  <2> QED
    BY <1>0, <1>w, <2>1, <2>2 DEF LegacyInv
<1>2. CASE RenameImported
  <2>1. /\ liBooks.marker # "none" /\ Imported /\ liPhase' = "up" /\ UNCHANGED liBooks
        /\ liFile' = [liFile EXCEPT !.here = FALSE]
    BY <1>2 DEF RenameImported, Migrated, LegacyInv
  <2>2. /\ liFile'.here = FALSE /\ liFile'.inv = liFile.inv /\ liFile'.canceled = liFile.canceled
        /\ liFile'.pay = liFile.pay
        /\ liFile' = [here |-> liFile'.here, inv |-> liFile'.inv, canceled |-> liFile'.canceled,
                     pay |-> liFile'.pay]
    BY <1>0, <2>1 DEF IsFile
  <2>3. IsFile(liFile)'
    BY <1>0, <2>2 DEF IsFile
  <2>4. Imported'
    BY <1>u, <2>1, <2>2 DEF Imported, Finds
  <2> QED
    BY <1>0, <1>w, <2>1, <2>3, <2>4 DEF LegacyInv
<1>3. CASE ImportAbsent /\ ~Migrated /\ Correlated
  <2>1. liPhase' = "refused" /\ UNCHANGED <<liBooks, liFile>>
    BY <1>3 DEF ImportAbsent
  <2> QED
    BY <1>0, <1>w, <2>1 DEF LegacyInv
<1>4. CASE ImportAbsent /\ ~Migrated /\ ~Correlated
  <2>1. /\ liPhase' = "up" /\ UNCHANGED liFile /\ liPhase = "boot" /\ liBooks.marker = "none"
        /\ liBooks.inv = 0
        /\ \E fence \in BOOLEAN, marker \in {"parked", "fresh"} :
              liBooks' = [liBooks EXCEPT !.fence = fence, !.marker = marker]
    BY <1>4 DEF ImportAbsent, Migrated, Correlated, Unwitnessed
  <2>2. liFile.here = FALSE
    <3>1. ~liFile.here /\ liFile.here \in BOOLEAN
      BY <1>0, <1>4 DEF ImportAbsent, IsFile
    <3> QED
      BY <3>1, Zenon
  <2>3. liBooks.status = "none" /\ liBooks.att = "none"
    BY <2>1, <2>2 DEF LegacyInv, FoundAtBoot
  <2>4. PICK fence \in BOOLEAN, marker \in {"parked", "fresh"} :
            liBooks' = [liBooks EXCEPT !.fence = fence, !.marker = marker]
    BY <2>1
  <2>5. /\ liBooks'.inv = 0 /\ liBooks'.status = "none" /\ liBooks'.att = "none"
        /\ liBooks'.gen = liBooks.gen /\ liBooks'.fence = fence /\ liBooks'.marker = marker
        /\ liBooks' = [inv |-> liBooks'.inv, status |-> liBooks'.status, att |-> liBooks'.att,
             gen |-> liBooks'.gen, id |-> liBooks'.id, fence |-> liBooks'.fence,
             marker |-> liBooks'.marker]
    BY <1>0, <2>1, <2>3, <2>4 DEF IsBooks
  <2>6. IsBooks(liBooks)'
    BY <1>0, <2>5 DEF IsBooks
  <2>7. Imported'
    BY <2>5 DEF Imported
  <2> QED
    BY <1>0, <1>w, <2>1, <2>4, <2>5, <2>6, <2>7 DEF LegacyInv
<1> QED
  BY <1>1, <1>2, <1>3, <1>4

(* The refund driver pays only where following the rows found nothing      *)
(* paid.                                                                   *)
LEMMA DriveStep == ASSUME LegacyInv, DriveRefund PROVE LegacyInv'
<1>0. /\ IsBooks(liBooks) /\ IsFile(liFile) /\ IsWallet /\ PaidOnce
      /\ liSaved = [books |-> liSaved.books, file |-> liSaved.file]
      /\ liSaved.file.here \in BOOLEAN
      /\ liPhase = "up" /\ liPhase' = "up" /\ UNCHANGED liSaved
      /\ liBooks.marker # "none" /\ Imported
  BY DEF LegacyInv, DriveRefund
<1>f. liBooks.att = "PENDING" /\ liBooks.fence = FALSE
  <2>1. ~liBooks.fence /\ liBooks.fence \in BOOLEAN
    BY <1>0 DEF DriveRefund, IsBooks
  <2> QED
    BY <2>1, Zenon DEF DriveRefund
<1>1. PICK g : g = IF liBooks.gen = 0 THEN 1 ELSE liBooks.gen
  OBVIOUS
<1>2. g \in Gens /\ Finds(g)
  BY <1>0, <1>1, <1>f, LegacyAssumption DEF Imported, IsBooks, Gens
<1>g. g # 0 /\ g \in Nat /\ \A h \in Gens : h \in Nat
  BY <1>2, LegacyAssumption DEF Gens
<1>3. CASE /\ liFile.pay[g] = "FAILED" /\ g < MaxGen
           /\ liBooks' = [liBooks EXCEPT !.gen = g + 1]
           /\ UNCHANGED <<liFile, liWallet>>
  <2>1. /\ liBooks'.inv = liBooks.inv /\ liBooks'.status = liBooks.status
        /\ liBooks'.att = liBooks.att /\ liBooks'.gen = g + 1
        /\ liBooks'.fence = liBooks.fence /\ liBooks'.marker = liBooks.marker
        /\ liBooks' = [inv |-> liBooks'.inv, status |-> liBooks'.status, att |-> liBooks'.att,
             gen |-> liBooks'.gen, id |-> liBooks'.id, fence |-> liBooks'.fence,
             marker |-> liBooks'.marker]
    BY <1>0, <1>3 DEF IsBooks
  <2>2. g + 1 \in 0..MaxGen /\ g + 1 # 0
    BY <1>3, <1>g, LegacyAssumption
  <2>3. IsBooks(liBooks)'
    BY <1>0, <2>1, <2>2 DEF IsBooks
  <2>4. Finds(g + 1)
    <3>1. SUFFICES ASSUME NEW h \in Gens, liWallet.sent[h] = "paid"
                   PROVE  /\ h >= g + 1 /\ liFile.pay[h] \in {"PREPARED", "SUCCEEDED"}
                          /\ \A k \in Gens : g + 1 <= k /\ k < h => liFile.pay[k] = "FAILED"
      BY DEF Finds
    <3>2. /\ h >= g /\ liFile.pay[h] \in {"PREPARED", "SUCCEEDED"}
          /\ \A k \in Gens : g <= k /\ k < h => liFile.pay[k] = "FAILED"
      BY <1>2, <3>1 DEF Finds
    <3>3. h # g
      BY <1>3, <3>2
    <3> QED
      BY <1>g, <3>2, <3>3
  <2>5. Imported'
    <3>0. PICK n : n = g + 1
      OBVIOUS
    <3>1. liBooks'.gen = n /\ n # 0 /\ Finds(n)'
      BY <1>3, <2>1, <2>2, <2>4, <3>0 DEF Finds
    <3> QED
      BY <1>0, <1>3, <2>1, <3>1 DEF Imported
  <2>6. /\ IsFile(liFile)' /\ IsWallet' /\ PaidOnce'
        /\ (liSaved = [books |-> liSaved.books, file |-> liSaved.file])'
        /\ (liSaved.file.here \in BOOLEAN)'
    BY <1>0, <1>3 DEF IsWallet, PaidOnce
  <2> QED
    BY <1>0, <2>1, <2>3, <2>5, <2>6 DEF LegacyInv
<1>4. CASE /\ \E att \in {"FAILED", "SENT"} : liBooks' = [liBooks EXCEPT !.gen = g, !.att = att]
           /\ \/ UNCHANGED <<liFile, liWallet>>
              \/ /\ liFile.pay[g] # "FAILED" /\ liFile.pay[g] # "SUCCEEDED"
                 /\ liFile.pay[g] = "PREPARED" => liWallet.sent[g] = "none"
                 /\ liFile' = [liFile EXCEPT !.pay = [liFile.pay EXCEPT ![g] = "SUCCEEDED"]]
                 /\ liWallet' = [liWallet EXCEPT !.sent = [liWallet.sent EXCEPT ![g] =
                         IF liWallet.sent[g] = "paid" THEN "twice" ELSE "paid"]]
  <2>0. PICK att \in {"FAILED", "SENT"} : liBooks' = [liBooks EXCEPT !.gen = g, !.att = att]
    BY <1>4
  <2>1. /\ liBooks'.inv = liBooks.inv /\ liBooks'.status = liBooks.status
        /\ liBooks'.att = att /\ liBooks'.gen = g
        /\ liBooks'.fence = liBooks.fence /\ liBooks'.marker = liBooks.marker
        /\ liBooks' = [inv |-> liBooks'.inv, status |-> liBooks'.status, att |-> liBooks'.att,
             gen |-> liBooks'.gen, id |-> liBooks'.id, fence |-> liBooks'.fence,
             marker |-> liBooks'.marker]
    BY <1>0, <2>0 DEF IsBooks
  <2>2. g \in 0..MaxGen
    BY <1>2, LegacyAssumption DEF Gens
  <2>3. IsBooks(liBooks)'
    BY <1>0, <2>1, <2>2 DEF IsBooks
  <2>4. IsFile(liFile)' /\ IsWallet' /\ PaidOnce' /\ liWallet'.paidIn = liWallet.paidIn
    <3>1. CASE UNCHANGED <<liFile, liWallet>>
      BY <1>0, <3>1 DEF IsWallet, PaidOnce
    <3>2. CASE /\ liFile.pay[g] # "FAILED" /\ liFile.pay[g] # "SUCCEEDED"
               /\ liFile.pay[g] = "PREPARED" => liWallet.sent[g] = "none"
               /\ liFile' = [liFile EXCEPT !.pay = [liFile.pay EXCEPT ![g] = "SUCCEEDED"]]
               /\ liWallet' = [liWallet EXCEPT !.sent = [liWallet.sent EXCEPT ![g] =
                         IF liWallet.sent[g] = "paid" THEN "twice" ELSE "paid"]]
      <4>1. \A h \in Gens : liWallet.sent[h] # "paid"
        <5>1. SUFFICES ASSUME NEW h \in Gens, liWallet.sent[h] = "paid" PROVE FALSE
          OBVIOUS
        <5>2. /\ h >= g /\ liFile.pay[h] \in {"PREPARED", "SUCCEEDED"}
              /\ g <= g /\ g < h => liFile.pay[g] = "FAILED"
          BY <1>2, <5>1 DEF Finds
        <5>3. g = h
          BY <1>g, <3>2, <5>2
        <5> QED
          BY <3>2, <5>1, <5>2, <5>3
      <4>2. /\ liFile'.here = liFile.here /\ liFile'.inv = liFile.inv
            /\ liFile'.canceled = liFile.canceled
            /\ liFile'.pay = [liFile.pay EXCEPT ![g] = "SUCCEEDED"]
            /\ liFile' = [here |-> liFile'.here, inv |-> liFile'.inv,
                 canceled |-> liFile'.canceled, pay |-> liFile'.pay]
        BY <1>0, <3>2 DEF IsFile
      <4>3. liFile'.pay \in [Gens -> {"none", "PREPARED", "SUCCEEDED", "FAILED"}]
        BY <1>0, <4>2 DEF IsFile
      <4>4. IsFile(liFile)'
        BY <1>0, <4>2, <4>3, Zenon DEF IsFile
      <4>5. /\ liWallet'.paidIn = liWallet.paidIn /\ liWallet'.expired = liWallet.expired
            /\ liWallet'.sent = [liWallet.sent EXCEPT ![g] = "paid"]
            /\ liWallet' = [paidIn |-> liWallet'.paidIn, expired |-> liWallet'.expired,
                       sent |-> liWallet'.sent]
        BY <1>0, <1>2, <3>2, <4>1 DEF IsWallet
      <4>6. /\ liWallet'.sent \in [Gens -> {"none", "paid", "failed", "twice"}]
            /\ liWallet'.sent[g] = "paid"
            /\ \A h \in Gens : h # g => liWallet'.sent[h] = liWallet.sent[h]
        BY <1>0, <1>2, <4>5 DEF IsWallet
      <4>7. IsWallet'
        BY <1>0, <4>5, <4>6 DEF IsWallet
      <4>8. PaidOnce'
        BY <1>0, <4>1, <4>6 DEF PaidOnce
      <4> QED
        BY <4>4, <4>5, <4>7, <4>8
    <3> QED
      BY <1>4, <3>1, <3>2
  <2>5. Imported'
    BY <1>0, <2>1, <2>4 DEF Imported
  <2>6. /\ (liSaved = [books |-> liSaved.books, file |-> liSaved.file])'
        /\ (liSaved.file.here \in BOOLEAN)'
    BY <1>0
  <2> QED
    BY <1>0, <2>1, <2>3, <2>4, <2>5, <2>6 DEF LegacyInv
<1> QED
  BY <1>1, <1>3, <1>4 DEF DriveRefund

(* Every step of the import keeps its invariant.                           *)
LEMMA LegacyInvStep == LegacyInv /\ [LegacyNext]_liVars => LegacyInv'
<1>1. CASE UNCHANGED liVars
  BY <1>1 DEF LegacyInv, liVars, IsWallet, PaidOnce, OldInvoices, OldPayments, OldSaved, FoundAtBoot,
              Imported, Finds
<1> QED
  BY <1>1, OldInvoiceStep, OldRefundStep, UpgradeStep, ImportStep, BootStep, DriveStep
     DEF LegacyNext

(* With the invariant the import agrees with the wallet.                   *)
LEMMA LegacyInvAgrees == LegacyInv => ImportAgreesWithWallet
<1> SUFFICES ASSUME LegacyInv PROVE ImportAgreesWithWallet
  OBVIOUS
<1> DEFINE P == {g \in Gens : liWallet.sent[g] = "paid"}
<1>1. PaidOnce
  BY DEF LegacyInv
<1>2. Cardinality(P) <= 1
  <2>1. CASE P = {}
    BY <2>1, FS_EmptySet
  <2>2. CASE P # {}
    <3>1. PICK g : g \in P
      BY <2>2
    <3>2. P = {g}
      BY <1>1, <3>1 DEF PaidOnce
    <3> QED
      BY <3>2, FS_Singleton
  <2> QED
    BY <2>1, <2>2
<1>3. ImportNeverRepays
  BY <1>1, <1>2 DEF ImportNeverRepays, PaidOnce
<1>4. ImportNamesThePaid
  BY DEF LegacyInv, Imported, ImportNamesThePaid
<1> QED
  BY <1>3, <1>4 DEF ImportAgreesWithWallet

-----------------------------------------------------------------------------
(* The services together.                                                  *)

(* A step of the host is a step of each service or leaves it alone.        *)
LEMMA HostServices ==
    [HostNext]_hostVars =>
        /\ [BootNext]_bsVars /\ [BackupNext]_bkVars /\ [ConfigNext]_csVars /\ [DirNext]_ddVars
        /\ [MigrationsNext]_mgVars /\ [SupervisorNext]_svVars /\ [ReadinessNext]_rdVars
        /\ [IpcNext]_ipcVars /\ [HookNext]_hrVars /\ [RetentionNext]_retentionVars
        /\ [LegacyNext]_liVars
BY DEF HostNext, Rest, hostVars

(* If no two bootstraps run at once: every daemon that came up is one      *)
(* operator in one federation, a refused start leaves nothing, each field  *)
(* and the fee schedule come from one place, and a vetted directory of any *)
(* depth stays out of others' reach (config.rs bootstrap, overlay,         *)
(* create_private_dir_all).  Two bootstraps at once break it.              *)
THEOREM ConfigurationAlwaysHolds ==
    ASSUME NEW b, Boots = {b}
    PROVE  HostSpec => []ConfigurationHolds
<1>1. HostInit => BootInv
  BY BootInvInit DEF HostInit
<1>2. BootInv /\ [HostNext]_hostVars => BootInv'
  BY HostServices, BootInvStep
<1>3. HostInit => ConfigInv
  BY ConfigInvInit DEF HostInit
<1>4. ConfigInv /\ [HostNext]_hostVars => ConfigInv'
  BY HostServices, ConfigInvStep
<1>5. HostInit => DirInv
  BY DirInvInit DEF HostInit
<1>6. DirInv /\ [HostNext]_hostVars => DirInv'
  BY HostServices, DirInvStep
<1>7. BootInv /\ ConfigInv /\ DirInv => ConfigurationHolds
  BY BootInvHolds, ConfigInvDecides, DirInvPrivate DEF ConfigurationHolds
<1> QED
  BY <1>1, <1>2, <1>3, <1>4, <1>5, <1>6, <1>7, PTL DEF HostSpec

(* However often power fails and whatever is in the way, the data          *)
(* directory is one instant of the daemon and its database has the whole   *)
(* schema its version names (backup.rs restore, store.rs                   *)
(* apply_migrations).                                                      *)
THEOREM StoreAlwaysWhole == HostSpec => []StoreIsWhole
<1>1. HostInit => BackupInv
  BY BackupInvInit DEF HostInit
<1>2. BackupInv /\ [HostNext]_hostVars => BackupInv'
  BY HostServices, BackupInvStep
<1>3. HostInit => MigrationsInv
  BY MigrationsInvInit DEF HostInit
<1>4. MigrationsInv /\ [HostNext]_hostVars => MigrationsInv'
  BY HostServices, MigrationsInvStep
<1>5. BackupInv /\ MigrationsInv => StoreIsWhole
  BY BackupInvWhole, MigrationsInvWhole DEF StoreIsWhole
<1> QED
  BY <1>1, <1>2, <1>3, <1>4, <1>5, PTL DEF HostSpec

(* With any number of handlers and connections a shutdown leaves no        *)
(* accepted message unsent and no nudge lost, and only a slow mutation     *)
(* holds the socket's drain (supervisor.rs supervise, ipc.rs               *)
(* serve_with_shutdown).                                                   *)
THEOREM ShutdownAlwaysDrains == HostSpec => []ShutdownDrains
<1>1. HostInit => SupervisorInv
  BY SupervisorInvInit DEF HostInit
<1>2. SupervisorInv /\ [HostNext]_hostVars => SupervisorInv'
  BY HostServices, SupervisorInvStep
<1>3. HostInit => IpcInv
  BY IpcInvInit DEF HostInit
<1>4. IpcInv /\ [HostNext]_hostVars => IpcInv'
  BY HostServices, IpcInvStep
<1>5. SupervisorInv /\ IpcInv => ShutdownDrains
  BY SupervisorInvDrains, IpcInvDrains DEF ShutdownDrains
<1> QED
  BY <1>1, <1>2, <1>3, <1>4, <1>5, PTL DEF HostSpec

(* For every set of settlements, credit and outlays: a shortfall that      *)
(* lasts while no payment fails is never reported as covered               *)
(* (supervisor.rs refund_readiness_report).                                *)
THEOREM ReadyIsNeverFalse == HostSpec => []NeverFalselyReady
<1>1. HostInit => ReadyInv
  BY ReadyInvInit DEF HostInit
<1>2. ReadyInv /\ [HostNext]_hostVars => ReadyInv'
  BY HostServices, ReadyInvStep
<1>3. ReadyInv => NeverFalselyReady
  BY ReadyInvHolds
<1> QED
  BY <1>1, <1>2, <1>3, PTL DEF HostSpec

(* Whatever a recipe's processes do: a hook that failed or was dropped has *)
(* nothing of its group running, one that succeeded had nothing killed,    *)
(* the answer comes within its bounds, and no LNRENT* variable reaches it  *)
(* (hook.rs run_hook).                                                     *)
THEOREM HooksAlwaysContained == HostSpec => []HookIsContained
<1>1. HostInit => HookInv
  BY HookInvInit DEF HostInit
<1>2. HookInv /\ [HostNext]_hostVars => HookInv'
  BY HostServices, HookInvStep
<1>3. HookInv => HookIsContained
  BY HookInvContains
<1> QED
  BY <1>1, <1>2, <1>3, PTL DEF HostSpec

(* Whatever is reaped, no receipt, no owed refund and no box is lost with  *)
(* it, for any receipts and any window (retention.rs).                     *)
THEOREM ReapingAlwaysLossless == HostSpec => []ReapingLosesNothing
<1>1. HostInit => RetentionInv
  BY RetentionInvInit DEF HostInit
<1>2. RetentionInv /\ [HostNext]_hostVars => RetentionInv'
  BY HostServices, RetentionInvStep
<1>3. RetentionInv => ReapingLosesNothing
  BY RetentionInvKeeps
<1> QED
  BY <1>1, <1>2, <1>3, PTL DEF HostSpec

(* For any number of invoices and resolutions, and whichever file was old  *)
(* or lost: a completed import pays no refund again and names the invoice  *)
(* that was paid (legacy_import.rs).                                       *)
THEOREM ImportAlwaysAgrees == HostSpec => []ImportAgreesWithWallet
<1>1. HostInit => LegacyInv
  BY LegacyInvInit DEF HostInit
<1>2. LegacyInv /\ [HostNext]_hostVars => LegacyInv'
  BY HostServices, LegacyInvStep
<1>3. LegacyInv => ImportAgreesWithWallet
  BY LegacyInvAgrees
<1> QED
  BY <1>1, <1>2, <1>3, PTL DEF HostSpec
=============================================================================
