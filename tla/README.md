# lnrent in TLA+

lnrent rents small machines for Lightning payments. A buyer sends encrypted Nostr messages, pays an
invoice, and gets a box until what was paid runs out. One daemon (`src/daemon`) keeps the books in
sqlite, watches the payment backend, runs recipe hooks that create, suspend, resume and destroy
boxes, and sends money back when it cannot serve. This directory models the daemon, and the exchange
of the buyer's client with it, checks the models with TLC on small instances, and proves the central
facts with TLAPS for all parameters.

## 1. Inventory

| Component | State it keeps | Operations | Talks to |
|---|---|---|---|
| capture (`capture.rs`) | invoice status, subscription timers, `refund_attempt`, `renew_resume` journal | apply one settlement | settlement loop, catch-up |
| provision (`provision.rs`) | subscription, reservation, instance, cleanup journal | drive, ActiveWrite, RefundDueWrite, cleanups | hooks, maintenance loop |
| resume (`resume.rs`) | subscription, `renew_resume` batch | drive, mark_active, ResumeFailureWrite | hooks, maintenance loop |
| reconcile (`reconcile.rs`, `teardown.rs`) | `next_deadline` cursor, `suspend_not_before`, heartbeat, teardown dead letters | expiry, reminder, suspend, destroy, invoice expiry, teardown retry, downtime credit | backend lookups, hooks |
| order intake (`order_intake.rs`) | `inbound_request` cache, PENDING rows, invoices | order.request, renew.request, sub.cancel | reservations, backend |
| reservations (`reservation.rs`) | HELD/CONSUMED/RELEASED rows | reserve, consume, release, live usage | every writer of a subscription |
| refund executor (`refund.rs`) | `refund_attempt` row and generation | drive, plan, persist, authorise, pay, commit | pay side of the backends, outbox |
| sweep and ledger (`sweep.rs`, `ledger.rs`) | `sweep_attempt` | quote, execute, drive, expected balance | pay side |
| backends (`lnv2_backend.rs`, `phoenixd_backend.rs`) | receive and pay rows, receive tasks, poll state | create_invoice, lookup, watch, prepare_pay, pay, refund quote | Lightning |
| refund destination (`refund_resolver.rs`) | none | resolve | the buyer's endpoint |
| supervisor (`supervisor.rs`) | the loops, the nudge | boot recovery, loops and their restarts, shutdown, readiness | everything |
| operator IPC (`ipc.rs`) | the socket, connections | suspend, resume, refund-retry, clear-fence, listing, sweep, reports | store, sweeper, listing |
| op dispatch (`op_dispatch.rs`) | op rows, in-flight registry | claim, run, attach, recover | hooks, outbound |
| nostr engine (`nostr_engine.rs`) | seen rows, in-flight set, negative cache, rate bucket, subscriptions | inbound, backlog, resubscribe, publish | relays, handlers |
| outbox (`provision.rs`), alerts (`alerts.rs`, `relay_status.rs`) | outbox rows, cooldowns, blackout latch | drain, resend, dispatch | engine |
| listing (`listing.rs`, `preflight.rs`) | listing row, withdraw epoch | publish, withdraw, republish | engine, preflight |
| legacy import (`legacy_import.rs`) | markers, fences | import, analyse, repair | store |
| store (`store.rs`) | the sqlite file, degraded latch | transactions, prune, reap, migrate | all |
| configuration (`config.rs`) | operator row, `fedimint.json`, seed, data directory | load, bootstrap, harden | all |
| backup (`backup.rs`) | backup directory, staging | backup, restore | data directory |
| recipes and hooks (`recipe.rs`, `runner.rs`) | recipe, child process group | load, run_hook | drivers |
| clients (`clients/`) | one exchange | request, retry, match a reply | relays |
| identity, wire, entry points | | parsing, encoding | |

**What is hard.** Five loops share one subscription row: the settlement stream, the maintenance loop
(catch-up and the provision, resume and refund drivers), the reconcile loop, inbound requests, and
the operator. Each transaction is atomic (the store is one actor), but hooks take minutes and backend
calls go over the network *between* the read that decides and the guarded write that commits. The
process can die between any two steps. Settlements come late, twice or not at all. A gift wrap of the
same request may be handled twice at once. An outgoing payment may be neither confirmed nor refuted.
`PROJECT.json` lists these hazards line by line, with the properties aimed at each.

**What makes it correct.** Every receipt buys exactly one period or is refunded, never both; no row
lapses before its credited deadline or over a payment; a slot is held exactly while it is owed; a box
without a paying row is destroyed or owed a durable teardown; a refund leaves at most once; the
operator's sweeps never touch what refunds need; an operation runs once and is answered once; the
answer a buyer gets is true; a restart, a restore or an upgrade comes up as the same operator with
whole books; nothing paid stays stuck.

## 2. Modules

Money and boxes, composed:

- `Billing` declares the books of one subscription and the operators every component shares: timers,
  row upserts, the release of a hold, the backend lookup of open renewals. Each of `Capture`,
  `Provision`, `Resume`, `Reconcile` and `Intake` EXTENDS it and adds the actions of one component.
  `Lifecycle` composes them with the clock, the buyer, crashes and boot, and states the properties.
- `Capacity` is the order intake and the host's slots for several orders at once.
- `Refund` is the executor of one refund row with its backend; `PayOnce` is the abstract promise it
  implements.
- `Treasury` is the sweep and the ledger over several receipts.
- `Inbox` (transport), `OpDispatch` EXTENDS it (one management operation), `Messaging` composes them
  with relays, shutdown and crashes.

Services, one module each, with a next-state relation of its own: `Backfill`, `Outbox`, `Alerts`,
`Listing`, `Buyer`, `Lnv2Receive`, `PhoenixdReceive`, `Lnv2Pay`, `PhoenixdPay`, `RefundQuote`,
`Resolver` face the outside; `Bootstrap`, `DataDir`, `Backup`, `Migrations`, `Supervisor`, `Ipc`,
`Readiness`, `HookRunner`, `Retention`, `LegacyImport` live on the host.

`MCCapacity`, `MCEdge` and `MCHost` give model values and compose the services; where a run needs no
more than a symmetry or a stray identifier, the module itself defines it (`Treasury!Interchangeable`,
`Lifecycle!AStray`). The `*Proofs` modules hold the theorems. An operator
whose comment begins "Mutant:" is a plausible bug of the definition after it; the ones that
`PROJECT.json` does not list break single conjuncts of a composed property.

### Lifecycle: one subscription

Variables are the sqlite columns under their own names (`state`, `paid_through`,
`suspend_not_before`, `next_deadline`, `invoice`, `refund_attempt`, ...). `paid` is what the backend
knows, `box` what the provider has, and `mnt`, `rec`, `ren` say where the maintenance loop, the
reconcile loop and a renew.request handler stand between two durable steps. Correspondence:

- `CaptureTxn` is `capture_txn`: OPEN turns PAID and is routed by `ApplyPaid`; EXPIRED is refunded;
  PAID is a duplicate; an unknown id is refunded. `DeliverSettlement` calls it with the true time,
  `SettlementCatchUp` with a time recovered by `recovered_settled_at`.
- A driver is two actions: the hook (`ProvisionDrive`, `ResumeDrive`, `CompleteFailedCleanup`) and the
  write (`ActiveWrite`/`RefundDueWrite`, `MarkActive`/`ResumeFailureWrite`, `FinishFailedCleanup`).
- A reconcile tick reads the clock once (`rec.t`), picks the row's one transition (`Dispatch`), and
  walks through hook, re-check and write. `FinishTick` is the tail of the tick. The write's WHERE
  clause is `StillDue`.
- `Restart` is the downtime credit, `BootDrivesDone` the passage from the boot's drivers to its own
  reconcile tick; while booting no stream, request or operator acts.

Deliberate abstractions, each a superset of the code's behaviours or an exact merge:

- The drivers of a maintenance pass run in a fixed order in the code; here any driver with work may
  start when the loop is free.
- The row re-reads and backend lookups immediately before a hook are merged with the tick's read, and
  the expiry's lookup with its CAS: no action in between changes what they decide, except a payment,
  and a payment commutes with them.
- A backend lookup may fail whenever there is something to look up; a hook may fail at any time. The
  lookup here knows every payment, as phoenixd's does; that lnv2's may lag is `Lnv2Receive`.
- The catch-up scans rows with their timers and then looks each up; stale timers only move the
  recovered settlement time, which is a free choice between the true and the recovered one.
- `soft_date` is always `paid_through - renew_lead_s`, so it is an operator.
- A failing transaction is not modelled apart from its absence (the loop stays where it is); a failed
  *credit* transaction at boot, which the code only logs, is not modelled.
- Rows of recipes that another daemon owns and teardown back-off are left out; the garbage collection
  at the tail of a tick is in `Retention`.
- `InitActive` is the state reached by paying, capturing and provisioning at once; runs about
  renewals start there to spend their states on renewals.

### Capacity: order.request and slots

Each delivery is a handler with a program counter; `Reserve`, `OrderWrite`, `FailOrder` and `Release`
are the store transactions and `IssueInvoice` the network round trip between them. `minted` is the
`expires_at` the backend gave the invoice, no later than its hold's; `Committed` moves the hold's expiry
to it. The backend's create lease keeps other deliveries from minting between a mint and the end of its
commit. `StoreFails` is any other store call of a delivery that fails (the reserve, the refusal's cache
row, the release): the error propagates and the delivery ends; `cut` remembers the orders whose refusal
such a failure, or a crash, cut short. A committed order's
later life appears only where it moves the reservation. `Tick` does not let minting outlast the
hold's hour (`INVOICE_EXPIRY_S`); the backend's request timeouts are seconds. The daemon restarts
at once after `Crash`, which forgets the handlers; the maintenance of committed orders continues.
`ExpireOrder` and `CaptureOrder` are the transactions alone. `CHECK_DEADLOCK FALSE`: the host really
stops once every order is finished and the clock is at its bound.

### Refund: one refund row

`Load`, `PlanPayment`, `PersistResolution`, `AuthoriseSend`, `PaySend`/`PayKnown`, `PayAwait`,
`CommitSent`/`CommitPayFailure` are the steps of `process`. `pay` holds the backend's pay rows by
generation key, `net` the payments themselves. lnv2's PREPARED and PENDING rows are merged into
PREPARED; `attempts` saturates at the cap it is compared with; amounts and fees are the free choices
they lead to (dust or over the cap: park; a raised fee: resolve again). A status read is merged with
the commit that follows because only this driver changes the key's row. Another refund that owns the
same invoice appears as a FAILED row chosen in `PreparePay`. phoenixd never turns a returned payment
FAILED. `ClearFence` is guarded by what the operator is told to do: look for the payment in the
wallet's own records first. `CutOff` is a crash, or a sibling's error that drops the task.

### Treasury: sweeps and the ledger

A receipt is at risk (its buyer not yet served), kept, owed back, being refunded, or refunded; amounts are
small numbers (`Gross`, `Credit`, `Caps`). A sweep has its `sweep_attempt` row, its pay row and its
payment. The actors walk the same steps: any number of commands (`Execute`) and the maintenance loop
(`DriveLoad`), which reads the pay status, probes, re-gates, pays, awaits, re-checks after an error,
and records. A status lookup of recovery may fail (`DriveStatus`), which reads as Unknown: a key that a
command is paying is then taken for one nobody started, and may be parked under it. `owner` is another
key's live hold on the same invoice ([8A]): it pays, or gives up (`CollisionEnds`), on phoenixd also
under an open sweep. `slipped` remembers that a lookup failed or a phoenixd owner gave up, `raced` the
sweeps sent after their row had been given up; the properties say what these may cost and nothing else
may (see the disagreements). `Expected` is `expected_msat`, computed at one instant from the books.

### Messaging: inbound and operations

A task is one delivery of one wrap: claimed in flight, looked up in `seen`, decrypted, limited,
routed, dispatched, replied, marked. Two wraps carry one request key. The owner of the key inserts
the RUNNING row, registers, runs the hook, commits and publishes; copies resend the cached result,
attach, or defer. `jobs` are store transactions queued by a task that was aborted: the actor still
carries them out. Days pass (`Tick`) only between messages, and prune the cache rows. A relay may send
a wrap again however old it is (the subscription has no `since` and no `limit`): after its cache row is pruned
it runs the hook again, which is why the promise is one run in any span of `CacheWindow`
(`docs/protocol/operator-conformance.md:20` has it "within that window").

### Services that face the outside (`MCEdge`)

| Module | State and environment | Promise |
|---|---|---|
| `Backfill` | one walk over a relay's retained events with coinciding timestamps, whose page limit is unknown to it; the long-lived subscription of one relay: CLOSED, lag, recovery task | `NothingBuried`, `ClosedIsRecovered` |
| `Outbox` | outbox rows of one refund and one provisioning; a drain, a resend, refund-retry | `BuyerHearsLast` |
| `Alerts` | a cooldown shared by reporters; the relay pool sampled by the maintenance pass | `AlertsSpaced`, `BlackoutToldOnce` |
| `Listing` | the listing row, the relay's copy, two operator commands, boot republish | `ToldNotLive`, `EventIdIsServed` |
| `Buyer` | an agent with one wish over a relay that stores, replays and reorders | `AgentRunsOnce` |
| `Lnv2Receive` | one purchase, its correlation row, receive tasks, the books' invoice | `PaidOpIsWatched` |
| `PhoenixdReceive` | one purchase, phoenixd's incoming records, the poll, fee credit | `OnePayable`, `PaidLateIsPolled`, `HeldIsAlerted` |
| `Lnv2Pay` | keys sharing one invoice, pay rows, the federation client's operations | `Lnv2RowIsTruth` |
| `PhoenixdPay` | keys sharing one invoice, pay rows, the wallets the URL may point at | `PayRowIsTruth` |
| `RefundQuote` | one quote: binary search over the advertised fee, walk down | `NetIsLargest` |
| `Resolver` | one resolution: vetting, DNS answer, redirects, two HTTP answers, deadline | `ResolvedIsPayable` |

### Services on the host (`MCHost`)

| Module | State and environment | Promise |
|---|---|---|
| `Bootstrap` | four sources merged for a text, the phoenixd opt-in, the fee schedule; operator row, `fedimint.json`, seed; starts with any configuration, crashes | `OnePlaceDecides`, `OneOperator`, `RefusedIsClean` |
| `DataDir` | the path's components under other users of the host | `DirIsPrivate` |
| `Backup` | data, backup, staging and aside directories; power loss | `DirIsWhole`, `NeverFirstBoot` |
| `Migrations` | committed schema and open transaction, from every database a release left | `VersionIsWhole` |
| `Supervisor` | loops, inbound handlers, nudge permit, shutdown stages | `NothingLeftUnsent`, `NudgeKept` |
| `Ipc` | the socket file, connections, the drain window | `DrainHeldBySlowOnly` |
| `Readiness` | the report's reads while refunds and sweeps move | `NeverFalselyReady` |
| `HookRunner` | the recipe shelf; a hook's leader and descendant, pipes, stdin feed | `HookIsContained` |
| `Retention` | what the reaper may delete of one subscription; the degraded latch | `ReceiptsSurvive`, `OrphansAreOwed` |
| `LegacyImport` | side file and books of possibly different instants; the wallet | `ImportNeverRepays`, `ImportNamesThePaid` |

Three points of the host's services. `Supervisor`'s `work`
is either announced by the nudge or "quiet", as a refund-retry over IPC is, which waits for the interval.
`Ipc` bounds the stages of a mutation that never waits on the network (`FastMutating`); a sweep or a publish may
take any time before and after its commit, and a withdrawal, whose retraction is bounded, is not told apart from
them. `HookRunner`'s future may be dropped at any stage, the spawn included.

`MCEdge` and `MCHost` put these side by side: `part` is chosen at the start and never changes, the
parts that do not run stay at one initial state (`AtRest`, `Rest`), and `Moving`, the VIEW, names the state of
the part that runs. Since the parts share no variable, the reachable states are the disjoint sum of
those of the parts, and the view identifies states only when they differ in variables that never
move, and for Messaging in what can no longer matter (`MessagingView`, section 3). The run therefore checks every part's invariants over that part's whole state space. What one
part needs of another is stated where it is used: `Buyer` assumes an operator that serves an id at
most once, which is `HookRunsOnce`; `Lifecycle` assumes a catch-up that sees every payment.

## 3. Runs

| Run | Bounds | Shows | States |
|---|---|---|---|
| Lifecycle_order | period 2, lead 1, retention 1, expiry 1, clock 0..2, 1 crash, operator, a stray settlement, fairness | TypeOK, HoldFollowsState, KeptReceiptsBuyTime, NoLeakedBox, PaidIsCaptured, NeverWedged | 517 k |
| Lifecycle_renewal | period 3, lead 1, retention 1, expiry 2, clock 0..5, one renew.request, clock one ahead of the loop | the five properties of renewal against lapse | 1.2 M |
| Lifecycle_outage | period 3, lead 2, retention 1, clock 0..5, 2 crashes | CreditedOnline | 1.3 M |
| Capacity_orders | 3 orders, 2 buyers, 2 handlers, 2 slots, 1 hold per buyer, clock 0..1, 1 daemon death or failed store call | answers, holds, oversell on time | 619 k |
| Refund_pay | every destination form and backend, 3 attempts, 3 resolutions, 2 cut-offs, fairness | PaysOnce and three more | 11 k |
| Treasury_sweep | 2 receipts, 2 sweeps, 1 command beside the drive, both backends, 1 cap, any number of stops | CapHeld, Solvent, BooksAreFloor | 4.0 M |
| Edge | each service of the first table and Messaging; bounds in `Edge.cfg` | ten properties | 795 k |
| Host | each service of the second table; bounds in `Host.cfg` | seven properties | 992 k |
| Lifecycle_lead_gap, Lifecycle_admin_destroy, Capacity_oversell, Lnv2_late_claim | the smallest that shows it | a disagreement between code and documentation, see below | |

**What the properties say.** Lifecycle: `HoldFollowsState` (the slot is HELD, CONSUMED or RELEASED as the
state says), `KeptReceiptsBuyTime` (paid time is exactly what the receipts that were not refunded
bought), `NoLeakedBox`, `DestroyedNeverSilent`, `LapseOnlyWhenDue` (no suspension before the credited
end, no destruction before the retention end), `LapseSparesPaid` (no lapse over a payment the backend
knows), `CreditedOnline`. Capacity: one true answer per
order, no committed order without its hold, no hold stranded for longer than its hour. Treasury: a cap covers
its payment from the send until it lands or returns, unless the row was given up before the send, and that
takes a failed lookup or an owner that gave up; the wallet covers every receipt at risk and every refund
not started, and the books are a lower bound of the wallet, both short of no more than such sweeps took. Edge:
`HookRunsOnce` (two runs of one request are more than the cache window apart) and `OneAnswer` (all copies of
a request get one result, seen means answered, no copy waits for a task that is gone); `InboundIsComplete`; `BuyerHearsLast` (the last message a buyer has on
a terminal refund is its outcome); `ListingIsTrue`; `AlertsAreHeardOnce`; `AgentRunsOnce`;
`ReceiptsAreFollowed`; `PayRowsAreTruth`; `RefundIsExact`. Host: `ConfigurationHolds`, `StoreIsWhole`,
`ShutdownDrains`, `NeverFalselyReady`, `HookIsContained`, `ReapingLosesNothing`, `ImportAgreesWithWallet`.

**Why the bounds are enough.** `MaxTime` lets a cycle reach its reminder, its suspension and its
destruction, or an order reach its expiry; a longer clock repeats cycles whose timers are relative to
`paid_through`. `MaxSpan` lets the clock run ahead of the last heartbeat of a running daemon: 0 makes
every deadline be met on time, 1 lets each slip a tick. Two crashes are needed for the credit of one
outage to meet another; one suffices elsewhere because loops hold nothing between passes. Two
handlers are what a race needs; the third order competes for the second slot. Three
resolutions let a replaced generation be replaced again. Two receipts and two sweeps let a sweep and
a refund, or two sweeps, compete for one surplus; the owner of an invoice, a failed lookup and a stop cost
nothing to count and are not bounded. In Capacity a hold lapses at its first tick, so an invoice
lasts as long as its hold; with a hold of two ticks and a clock of two, where a backend's invoice may end before
its hold and a hold may outlive a tick, the same properties and faults were checked once by hand (3.4 M states under the view). In the services two of a kind (tasks, commands,
reporters, keys, wallets, peers) are what a race needs, and the clocks reach past each
timeout. Four events over three seconds with page limits 1 to 3 put a page
boundary inside a second and unreadable events on both sides of it. The quote is checked for every
gross up to 6 sats of 3 msat, fees with and without a base and a rate, and a dusty remainder.
Symmetry permutes handlers, tasks, copies of one request, receipts or sweeps, which no property tells
apart; no run with symmetry checks a liveness property. Two views merge states with the same futures and the
same verdicts: `MCCapacity!View` forgets how far an expiry is past, the course of an order that is over and the
lapsed hold of a refused request; `MCEdge!MessagingView` forgets what a task no longer reads, how stale a seen row is and
the hook runs too old to break `HookRunsOnce`, whose verdict it keeps. `CHECK_DEADLOCK FALSE` in Treasury, Edge and
Host: clocks and counters of faults are bounded, and a service that has done its work stops.

**Fairness** (`Lifecycle!Fairness`): the maintenance loop, its catch-up and the reconcile loop are
re-armed on intervals and every hook has a timeout, so each is weakly fair; a stopped daemon is
restarted by its supervisor. Nothing is assumed of the buyer, the clock, the requests, or the
settlement stream. A backend that answers no lookup for ever is excluded for the catch-up: the run
states what happens once it answers. (`Refund!Fairness`): the executor is driven on every pass, and
planning, authorising and the await succeed if tried for ever (strong fairness).

### Disagreements between code and documentation, shown by a run

1. **Lead after an outage** (`LeadOnline`). The boot credits the outage before it captures renewals
   paid during it. The captured renewal clears the floor and starts a cycle whose own renewal window
   may lie inside the outage; that cycle is suspended without its lead. ADR-0005 says the buyer gets
   the full lead of operator availability.
2. **Operator suspend** (`TerminateOnlyPastRetention`). `admin_transition` leaves `next_deadline`; the
   reconcile loop then destroys the suspended box at the reminder's date.
3. **Oversell after a late capture** (`NoOversell`). A hold lapses by time although its invoice is
   paid at the backend; the slot is sold again before the settlement is captured.
4. **A claim the index has not seen** (`PaidIsNotStranded`). lnv2's lookup answers from the local
   correlation row. If the receive task writes the terminal after the row's expiry, reconcile has
   expired the invoice in the books; a terminal recovered after a restart carries no settlement time
   and is not pushed, and the catch-up looks at OPEN invoices only.

### Further disagreements met while modelling

Each follows from definitions here under other constants, or is stated by a definition that no run lists.

- *Refund after a lost destroy* (`reconcile.rs:1402`). The log line "the box was torn down but the sub
  is alive (a refund will follow)" is not true if the resume driver had already made the row ACTIVE;
  only the alert of `DestroyedNeverSilent` is left.
- *Suspend after a renewal with the same cursor* (`reconcile.rs:1245`). With a credited outage,
  `suspend_not_before - paid_through` may equal `period - lead`; the renewed row's `soft_date` is then the
  old cursor, the CAS on `(state, next_deadline)` passes, and the paid row is suspended. It takes
  a lead of at least half a period and the same second; TLC finds it for `LapseOnlyWhenDue` with lead 2,
  period 3 and one crash. The comment at `reconcile.rs:1266` says the CAS "matched 0 rows".
- *A sweep's cap released under its payment* (`Treasury!CapNeverLost`, violated by the constants of
  `Treasury_sweep.cfg`). While `execute` holds a PREPARED key and has not sent, `drive` gives the row up: its status lookup
  fails (`sweep.rs:952` reads that as Unknown) and the surplus no longer covers the row; or, on phoenixd, the row is FAILED for a colliding owner who then gives up
  (`phoenixd_backend.rs:2751`). `execute` then pays. `commit_sent` (`sweep.rs:975`) corrects the row if the answer is clear;
  after an ambiguous answer, or a crash, the row stays FAILED for good while the payment lands, and its cap is
  no longer subtracted. `sweep.rs:894` says "never releasing a cap while the payment might still settle". `CapHeld`,
  `Solvent` and `BooksAreFloor` bound what it costs: such a payment keeps its pay row, so nothing is paid twice,
  and the surplus is off by no more than what it took.
- *DRIFT of the reconcile command* (`ipc.rs:847`). It reads the books, then the wallet; a payment that
  starts in between reads as DRIFT, which `ledger.rs:17` calls "a genuine loss / accounting gap".
- *The alert of a second park* (`Outbox!ParkIsAlerted`). A terminal alert has a stable id and is inserted
  ON CONFLICT DO NOTHING, so a refund parked again after refund-retry enqueues none; `refund.rs:275`:
  "a crash can never drop the alert for a park the row will never re-enter".
- *Two first bootstraps at once* (`Boots = {b1, b2}` breaks `OneOperator`). `write_fedimint_config`
  reads, then renames, and `lnrentd bootstrap` takes no lock; `config.rs:1541` "we refuse rather than overwrite".
- *Backend identity of a readiness report with nothing owed* (`supervisor.rs:1794`). The early return
  fills in the default backend; `supervisor.rs:1379`: "Identity is emitted in EVERY state".
- *An accept error* (`Ipc!MutationNeverCut`). `accepted?` (`ipc.rs:432`) returns from the serve loop and
  drops handlers in flight; `ipc.rs:550`: a mutating op "is NEVER cancelled".

## 4. Proofs

Every safety property and action property that a run checks is a theorem, for every value of the
constants that satisfies the named assumptions of the modules (timers are natural numbers, periods,
expiries and caps positive, the lead no longer than the first paid window, sets of orders, receipts
and the like finite, identifiers of a stranger not those of the daemon's own invoices). A theorem that
needs more states it as a hypothesis; these are all of them:

| Hypothesis | Theorems | Why |
|---|---|---|
| `~AdminActs` | LapsesOnlyWhenDue, LapsesSparePaid, OutagesAreCredited | operator overrides break the first (disagreement 2) |
| `Lead + 2 <= Period` | the same | with one second less, a credited outage and a renewal stamped just inside its cap put `next_deadline` back to the value the tick read, and the CAS passes over a paid row (see "Suspend after a renewal"). `capture.rs:236` calls `renew_lead_s >= period_s` degenerate; nothing validates it. The outage run has lead 2 and period 3: there TLC covers OutagesAreCredited outside the hypothesis |
| `crashes = 0` (in the invariant) | DestroyedIsReported | a crash between the hook and the write loses the alert (`reconcile.rs:1330`) |
| `Boots = {b}` | ConfigurationAlwaysHolds | two first bootstraps at once break it |

No promise is inductive alone. What is added, and why:

- `RefundProofs` (`RInv`): only the current generation can be live or landed (`OnlyCurrent`), a pay row
  tells the truth about its payment (`RowsTellTruth`), no row or payment lies beyond the current
  generation (`NoRowBeforeUse`), the executor works on the row as it stands (`DriverCurrent`), FAILED and
  SENT are true (`OutcomeTrue`). Whether a second payment may start depends on what the old
  generation's row says, which `PaysOnce` alone does not know. From it follow the message, the
  witness and, step by step, that `Refund` implements `PayOnce`.
- `LifecycleProofs`, in five layers. `IInv`: types, the hold, and `Carried`, what a component relies on
  from an earlier step of another. `BoxInv`: which loop or debt stands behind a box. `KeptInv`: a refund
  row is closed for good (`RefundsClosed`); what the kept receipts bought, with and without a resume
  batch still open, counted as the cardinality of a set that grows by one (`ReceiptsCounted`).
  `LapseInv`: the loops work on the row they read (`LoopsFollow`), the cursor is never ahead of what is
  paid (`CursorRight`), what the tick read still stands or a payment moved the cursor past it for good
  (`SnapshotFresh`), and a payment of an open renewal is younger than the read (`PaidSinceRead`).
  `CreditInv`: a running daemon was up since its heartbeat (`OnlineKnown`), cycles that restarts looked at
  are not ahead of the row (`CyclesPast`), and the seconds seen plus those left up to the floor make
  the lead, or the retention (`WindowsKept`). The credit's clamps are what `LeadCredited` and
  `RetentionCredited` are about; a failed resume goes back to the window in the journal, so that one is
  kept too.
- `CapacityProofs`. `CInv` says who owns a hold (`Truthful`, `Releasing`, `Unanswered`, `Owned`: a hold of an unfinished order
  has a delivery that will commit or release it, or its release was cut short); `NInv` that an
  order commits on a hold that is still live (`Fresh`), so only a reserve that found room makes
  anything live (`WithinBudget`). Also `HoldNeverLost`: OrderWrite's HoldLost guard is unreachable.
- `TreasuryProofs`. `TInv`: what pay rows say (`RowsTellTruth`), what each actor may still
  rely on (`ActorsKnow`), and what they may rely on until a lookup fails or a phoenixd owner gives up
  (`Unslipped`: a prepared key has an open row, an actor's ceiling is its row's); `MInv`: the wallet is exact (`WalletExact`), caps and debits are covered. A sum is the
  cardinality of a set of units, so the library's facts about finite sets apply.
- `MessagingProofs` (`GInv`): a request has at most one owner, until its commit the row is RUNNING and queued
  jobs are the owner's (`OneOwner`, `OwnerRow`, `JobsAreOwn`); registry, waiters and replies point back to
  that owner or to its row. Runs and answers carry the time of their row: what was said of a row that is gone
  lies further back than the retention (`RunsPast`, `RunsAhead`, `Told`), however often relays redeliver.
- `EdgeProofs` (outbox, alerts, listing, backfill and subscription, buyer), `PaymentProofs` (both receive
  sides, both pay sides, refund quote, resolver), `HostProofs` (the services on the host): an invariant
  of each service's own module first (`OutboxInv`, `AlertsInv`, `WatchInv`, `ListingInv`, `BackfillInv`, `SubInv`,
  `BuyerInv`; `LnInv`, `PhInv`, `Lnv2RowInv`, `PayRowInv`, `QuoteInv`, `ResolverInv`; `BootInv`, `ConfigInv`, `DirInv`, `BackupInv`,
  `MigrationsInv`, `SupervisorInv`, `IpcInv`, `ReadyInv`, `HookInv`, `RetentionInv`, `LegacyInv`), each proved for that module's
  Init and Next. `EdgeServices`, `EdgePayments` and `HostServices` then say that a step of the composition is a
  step of one service and leaves the others alone. Where an argument needs the least
  of a set of times, or a smallest set of events, it takes one from `WellFoundedInduction`.

The proofs corrected the models: arms of a CASE whose guards overlapped, assumptions on constants that
were used and not stated (`StraysAssumption`, `OpDispatchAssumption`, the finite sets), and `NeverFalselyReady`, which was false in a corner the bounds of its run did not reach (see `Readiness` below).

**Only model-checked**: the liveness properties PaidIsCaptured, NeverWedged and LandedIsRecorded, which
are beyond the prover: it treats neither fairness nor ENABLED.

## 5. Plan

In order of importance: the two lapse theorems without `~AdminActs`, for rows the operator has not
touched; `DestroyedIsReported` with crashes, for destroys that no crash interrupted; an abstract specification of a
subscription (paid for, served, refunded once) and `Lifecycle` shown to implement it.

## 6. Not modelled

Key derivation, the entry points and the CLI's rendering, the wire encoding, the clients'
presentation, range checks of single configuration fields, the read-only IPC views, the holdings
floor alert: sequential parsing, formatting or user interface. The federation, phoenixd, the relays,
sqlite, the filesystem and the provider are external and appear as what they may do.
`PROJECT.json` lists every component with its status. Limits of single models:

- Messaging: that `recover_interrupted_ops` fails at boot, which is only logged,
  is the choice of `Restart`.
- Buyer: a stale refusal handed over at the very end of an exchange is the residual the client documents.
- Listing: the memory of the last deletion is lost at a restart (the gap `nostr_engine.rs:333` records),
  so a relist in the deletion's second may be ACTIVE with no relay holding it; it then carries no event
  id, which is what `EventIdIsServed` is about.
- PhoenixdReceive: a payment in the expiry skew while the daemon is down for longer than the poll's
  grace is not followed. PhoenixdPay: a request that has not arrived when its call ends never does,
  and the wallet is swapped only while the daemon is down.
- Backup: nothing keeps a daemon from starting during a backup or restore; renames reach the disk in
  order; restoring an older instant of everything is the operator's decision.
- LegacyImport: at most one of the two files was rolled back.
- Bootstrap: starts follow one another.
- Readiness: `NeverFalselyReady` is about books that are short all through a report in which no payment
  fails. One that does fail between the report's reads lets it add credits that were never there
  together: a row read as unpaid is then paid, another read later is already failed, and the report says
  ready though the books were short at every instant. The report after it reads them afresh.
- Ipc: a reply larger than the socket buffer. HookRunner: descendants that leave the process group, a
  kill -9 of the daemon, reuse of a process-group id. Migrations: an empty file is refused, by design.
