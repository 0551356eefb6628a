# xrpl-registrar: a verification of the archive

xrpl-registrar keeps a durable archive of everything that ever happened to a
set of registered XRPL token issuances: it discovers their holders, backfills
their history from a Clio server, follows the ledger live, repairs what it
missed, and answers Clio-compatible queries from its own database. This
directory holds TLA+ modules of its core, the TLC configurations that check
them, and proofs checked by TLAPS. Paths below are relative to the repository.

## 1. The system

### Components, their state and how they interact

| Component | Source | State | Operations |
|---|---|---|---|
| Upstream (Clio, external) | used through `src/clio` | validated ledgers, `account_tx` indexes | pages of `account_tx`, `tx`, `subscribe` |
| Clio client and governor | `src/clio/client.ts`, `governor.ts` | `#inFlight`, `#waiters`, `#cooldownUntil`, `#consecutivePenalties` | `request`, `acquire`, release, `penalize`, `reward` |
| Transports, classification | `src/clio/transport.ts`, `httpTransport.ts`, `classify.ts` | the socket | send, connect, classify an error |
| Archive tables | `src/db` | `transactions`, `account_transactions`, `balance_deltas`, `coverage`, `ledgers`, `accounts`, `account_issuance`, `issuances`, `backfill_job` | idempotent inserts, the job table's statements |
| Issuer sweep, holder worker | `src/backfill` | a cursor, a high-water mark and a page in hand per runner | page, commit, checkpoint, complete, fail, stop |
| Orchestrator | `src/admin/orchestrator.ts` | none | `ingestIssuance`: enqueue, reclaim, load, sweep |
| Server | `src/server.ts` | `tracked`, `deleting`, `inScope`, `pendingHolders`, `inflightIngest` | start, resume, re-discover, register, track a holder, delete hooks, shut down |
| Live tail | `src/livetail` | subscription, fetches under way, event queue, gap tracker | receive, fetch, ingest, observe a ledger, heal a gap |
| Delta derivation, tie-out | `src/reconcile` | none | holders named by metadata, a delta per holder, sums, re-derivation, `Reconciler` |
| Read API | `src/api` | none; a client's marker | `account_tx`, `account_lines`, `gateway_balances`, `mpt_holders`, reporting, close times |
| Networked engine, migrations | `src/db/postgres.ts`, `migrate.ts` | the pool, `schema_migrations`, the advisory lock | `transaction`, `withMigrationLock`, `runMigrations` |
| Admin API and server | `src/admin` | maintenance flag, sessions | register, patch, delete, activity, coverage |

Everything runs in one Node.js process: concurrency is the interleaving of
asynchronous functions at their awaits, plus whatever the upstream and the
database do meanwhile. (On the networked engine, a second process may boot on
the same archive.) The database is the only thing that survives a restart.
Sweeps and workers page `account_tx` through the governed client and write a
page's rows, deltas, discoveries and resume marker in one transaction. The tail
writes one transaction per streamed transaction. The tail, the heals and the
workers read the server's `tracked` set live; a sweep derives for its own
issuance only. The tail starts holder jobs, fire and forget, for holders it
meets for the first time. A registration runs the sweep, then extends `tracked`
and the subscription, then heals the window the sweep left. A delete raises a
stop flag, which every page transaction polls, drains the registration and
purges.

### What is hard

* **Resume.** A crash or an upstream failure anywhere in a sweep or a holder
  job; a resume must neither skip nor lose anything (rows, links, deltas,
  discoveries), and a coverage row must never claim what is not stored.
* **Shared jobs.** `reclaimStale` returns jobs to `pending` while somebody may
  be running them, and sweeps are not claimed at all: two runners may page one
  job, with different cursors, overwriting each other's marker.
* **Shared state read across awaits.** `tracked` filters a page before its
  transaction and derives inside it; the stop flag is polled in between.
* **Ordering.** Streamed transactions are fetched concurrently and reach the
  queue after later ledgers' closes; ledgers close during a heal.
* **Lossy connection and restarts.** Subscriptions drop; the gap tracker has to
  notice; a restart has to anchor it where the archive is complete.
* **Deletes.** The archive only grows, except when an issuance is deleted: every
  writer has to be stopped or survive the purge, and accounts, transactions and
  claims that another issuance shares have to survive it too.
* **Foreign keys.** Deltas, holders, claims and jobs refer to accounts and
  issuances; after a purge a page may be refused for it.
* **Reads of a moving archive.** An answer is several queries, and a client's
  pages are several requests, while sweeps insert old rows and the tail new
  ones; coverage is kept per account and asked per issuance.
* **Amounts.** A delta is computed from the fields a metadata node happens to
  carry; two routes to a balance (summed deltas, latest object) have to agree.
* **A pool and a server.** Deadlocks and their retries, connections that drop
  during COMMIT, migrations of processes that boot together.
* **Backpressure.** Slots are handed over to waiters, cooldowns extend while
  requests sleep or queue, successes and penalties arrive out of order.

`PROJECT.json` lists each hazard at its line with the properties that cover it.

### What makes each component correct

* Backfill: markers never lead what is stored (`MarkerSafe`); coverage is true
  (`SweepCoverageSound`, `HolderCoverageSound`); no discovery is lost
  (`DiscoveryKept`); every sweep completes (`SweepCompletes`).
* Governor: slots are conserved, no waiter is forgotten, escalation survives a
  late success, the pool is first come, first served, every request ends.
* Live tail: nothing the tracker has passed slips through, and it arrives.
* Delete: no row is orphaned, the purge takes nothing the other issuances need,
  what they claim stays true, no deleted issuance is tracked, and the delete ends
  (`ReferentialIntegrity`, `PurgeSpares`, `CoverageHonoured`,
  `TrackedRegistered`, `DeleteEnds`).
* Read API: paging loses and repeats nothing (`PagesComplete`, `ListingExact`);
  balances, obligations, listings and lines are the ledger's wherever the
  issuance's sweep had claimed it (`ListingExact`, `GatewayExact`,
  `ReportExact`, `LinesExact`); a date resolves to the right ledger
  (`ResolverExact`) in a search that ends (`SearchNarrows`).
* Tie-out: a disagreement always has one of three causes (`TieOutAgrees`).
* Networked engine: no connection serves two callers, a transaction applies at
  most once, migrations run in order and one process at a time, everything ends
  (`PoolSound`, `AppliedOnce`, `BootsInTurn`, `SchemaComplete`,
  `EverythingEnds`).

## 2. The modules

| Module | Models |
|---|---|
| `XrplHistory` | the upstream's view: transactions in ledger order, the balances each names, `account_tx` (external assumptions, `HistoryAssumption`) |
| `Archive` | the tables every ingest path writes, and the rows a page is mapped to |
| `Backfill` | job table, sweeps, holder workers, resume pass, re-discovery, the stop flag |
| `BackfillProofs` | its theorems |
| `Governor` | the client's retry loop on the governor |
| `FairSlots` | what the governor promises: a bounded pool, served first come, first served |
| `GovernorProofs` | its theorems, the refinement included |
| `LiveTail` | source, event loop, gap tracker, heals, restart, registration against the tail |
| `LiveTailProofs` | its theorems |
| `Deletion` | maintenance mode, the delete hooks and the purge, among all writers |
| `DeletionProofs` | its theorems |
| `DeletionClaimsProofs` | the theorem about its claims |
| `LedgerObjects` | the amounts: what the ledger holds and writes into metadata, deltas and their sums, reconstruction |
| `ArchiveReads` | the read API, the tie-out and re-derivation over an archive that ingest goes on writing |
| `FoldLemmas` | lemmas on sums over finite sets and on listing them in order, for the two proof modules below |
| `ArchiveReadsProofs` | the theorems of `ArchiveReads` |
| `Postgres` | the pool, the retried transactions, the migrations and their lock, processes that crash |
| `PostgresProofs` | its theorems |
| `MCBackfill`, `MCGovernor`, `MCLiveTail`, `MCDeletion`, `MCArchiveReads`, `MCPostgres` | instances for TLC |

`Archive` EXTENDS `XrplHistory`; `Backfill`, `LiveTail`, `Deletion` and
`LedgerObjects` EXTEND `Archive`, and `ArchiveReads` EXTENDS `LedgerObjects`, so
the ingest paths, the purge and the reads share one account of what a stored
page is. `Postgres` stands alone: the others take a transaction to be one step,
and it says what that rests on.

### XrplHistory and Archive

A transaction is a number, its position in ledger order. `Touches[t]` is the
set of issuance/holder balances its metadata names (`holdersInMeta`), and
`IndexOf[a]` what `account_tx` lists for an account. The code relies on Clio
listing everything that touches an issuance under its issuer; that is
`HistoryAssumption`, the one thing assumed of the outside. A page may be any
non-empty prefix of what is left, as the page size and Clio's own limits are
not fixed. `Held(t, i, h, account)` is what it means to have a transaction: its
row, the link `account_tx` reads through, and the delta of its holder;
`Honours(row)` is what a coverage row promises. `SweepLinks`, `AccountLinks` and
`TouchedLinks` are the three mappers (sweep and heal, holder job, tail): they
differ in which accounts they link. A page's deltas bring the accounts they
name with them (`insertDeltasMany` inserts the accounts first). Inserts are
idempotent, so a table is a set; amounts are `LedgerObjects`' subject, blobs and
provenance are not told apart.

### Backfill

State: the tables; per job `status`, `marker` (`last_marker`), `jobId`; per
runner a record with its program counter, job, cursor, high-water mark and the
page in hand; the server's `tracked`, `deleting`, `inScope` (`known`) and the
progress of the resume pass. A runner is one execution of a sweep or of one
claim loop of a worker; `runIssuance` starts several loops when `Concurrency`
allows and runners are idle.

| Action | Code |
|---|---|
| `IngestIssuance`, `Reclaim`, `Load` | `ingestIssuance`: enqueue the issuer job; `reclaimStale`; re-read the job and page from its marker unless completed |
| `TrackNewHolder`, `EnqueueHolder` | `trackNewHolder`: record the holder; then, another await later, enqueue its job |
| `Claim` | `claim` by lowest id, or stop when none is left or the stop flag is up |
| `Fetch` | the next page of `accountTxPages`; a holder job filters by the live `tracked` here |
| `CommitSweepPage` | the page transaction of `runIssuerBackfill`: rows, links, deltas, holders, marker, and on the last page coverage and completion |
| `CommitAccountPage` | the page transaction of `runJob` |
| `StopAtPage` | the poll of the stop flag in either transaction |
| `Fail` | a request or transaction fails: `failed`, whatever the row says now |
| `Crash`, `ResumeSweep`, `ResumeHolders` | restart and `resumeBackfills`, one issuance after the other, ended by the first sweep that fails |
| `RefreshTracked`, `SeedInScope` | `refreshTracked` and `seedInScope`, from registration, re-discovery and deletes |
| `BeforeDelete`, `DeleteAborted` | the delete hooks up to the purge |

`CommitSweepPage` derives for the swept issuance only; `CommitAccountPage`
derives what is tracked at that moment. Both clauses of the coverage claim
(`claimCoverage`: bounds clamped between the configured start, the least
first-acquisition ledger and the high-water mark) are modelled, since they
decide which ledgers the archive says it has.

### Governor and FairSlots

A request is at one label of `request`/`acquire`: idle, waiting out the
cooldown, asleep, taking a slot, queued, granted (not yet past the second
cooldown check), sent, reconnecting. Time is the remaining cooldown and the
remaining sleep of each request, in ticks, so the clock needs no bound; the
penalty count saturates at `Saturation`, from which on the backoff is at its
ceiling (`GovernorAssumption` states it). A promise resolves in a later
microtask: a handed-over slot is `granted` until `Admit`.

`FairSlots` knows two operations: `Ask` (join, or take a free slot) and
`GiveUp` (return a slot, and the oldest in the queue gets it). The refinement
maps the requests that hold a slot to `holding` and `#waiters` to its queue;
`inFlight` does not occur in it, which is why the accounting has to be proved.

### LiveTail

State: the wire, the fetches under way, the queue, `GapTracker.#last`, the heal
the loop waits for, `ledgers` as its maximum (`recorded`), the issuances table,
`tracked`, the subscribed set, and each registration's progress. `lost` records
transactions dropped by a fault the code does not repair, so that the safety
property names each such fault instead of excluding faults:

* a `tx` fetch that failed after its retries (logged only);
* a socket dropped after a ledger's close arrived and before its transactions;
* a restart with transactions in hand below its anchor, or with ledgers between
  the tail's position and that anchor, which takes in what `ledgers` and any
  coverage row reach.

`Receive`, `FetchReturns`, `FetchFails`, `Reconnect` are `xrplSource.ts`;
`IngestTransaction`, `ObserveLedger`, `HealPage`, `HealEnds` are the loop, which
takes no event while it heals; `Register` ... `PostHealEnds` are `onRegistered`
with its awaits; `ProbeCloseTime` is the close-time cache writing `ledgers`;
`Crash` is also the end of a heal that throws, since `tail.run()` is not caught.
The sweep of a registration is one step here; `Backfill` takes it apart. The
subscription covers the issuers of the subscribed issuances; that it also
carries known holders adds only messages the scope filter drops.

### Deletion

State: all tables with their foreign keys; one runner per job with the page in
hand; the streamed or healed transactions in hand, with the links they were
mapped to; `tracked`, `deleting`, `pendingHolders`; the registrations admitted
whose body is still being read; maintenance mode and the DELETE under way. The
writers are those of `Backfill` and `LiveTail`, cut down to where a delete meets
them: taking something in hand and storing it are two steps, and the stop flag,
`tracked` or the rows referred to may change in between. A claim is of the whole
history, as bounds are `Backfill`'s subject.

| Action | Code |
|---|---|
| `AdmitPost`, `Register`, `AfterSweep`, `HealEnds` | a POST passes the maintenance check, then reads its body; `ingestIssuance`; the rest of `onRegistered`, skipped when the flag is up |
| `Rediscover`, `RefreshTracked` | the re-discovery reaches an issuance of the list it once read; its end |
| `Claim`, `Fetch`, `CommitPage`, `StopAtPage`, `FailPage` | sweeps and holder jobs, the poll of the flag, a page refused by a foreign key |
| `Map`, `Store` | tail and heals: mapped by the `tracked` of one moment, stored with that of another, the accounts its deltas name among what it stores (`NewAccounts`) |
| `RecordHolder` | `trackNewHolder` |
| `BeginDelete`, `Drained`, `Purge`, `FinishDelete`, `Release` | maintenance and `onBeforeDelete`; the drain and the list of the others; the purge's transaction; compaction and answer; `onDeleted` |
| `AbortDelete`, `Restart` | the purge fails: `onDeleteAborted`; the process restarts at any point |

`refreshTracked` is one step: its query and the purge's are answered in the order
they were sent, and `deleting` is read after the answer, so a refresh that read
the table before the purge still finds the flag up. `inScope` is taken to agree
with `account_issuance`. A second POST of the same token is refused by the
unique index, and an issuance's id is never used again.

### LedgerObjects

`After[t][<<i, h>>]` is the balance transaction `t` leaves in the MPToken or
trust line of `h`, `Gone` when it deletes it. `Node(t, o)` is the metadata node
the ledger then writes, with the fields it really has: nothing of a deleted
object but its final fields, no previous value where the value did not change,
no `MPTAmount` where it is zero, and a trust line's balance signed as the low
account sees it. `MptDelta`, `IouDelta`, `LatestObjects`, `Reconstructed` and
`AccountLines` are the code's readings of such nodes; the reference they are
held against is `LedgerBalance(o, l)`, which knows only `After`.
`Miscounted(t, o)` names the two changes a delta gets wrong. One is the finding
`DeltaSums`. The other is an object that a single transaction both empties and
deletes, as the ledger does to trust lines: `iouDeltas` reads the final fields of
a deleted line and not its previous ones, so what it held is in no delta.
`GatewayExact`, `ReportExact` and `TieOutAgrees` exempt both; `LinesExact`, which
sums nothing, does not.
`NodesAssumption` is what metadata means: a node's object is there before the
transaction or after it.

### ArchiveReads

State: the tables, the ledgers recorded with their close times, the cursor of
each job, and one request (`request`) with the query it has come to (`at`) and
what it has so far. Requests do not write what other requests read, but for the
ledgers a date lookup records, so one at a time is as good as several, and the
next one meets what the last one left in `ledgers`.

| Action | Code |
|---|---|
| `SweepPage`, `HolderPage`, `StreamTransaction`, `TrackHolder`, `CloseLedger` | what the ingest paths write, page by page; how they come to write it is `Backfill` and `LiveTail` |
| `Rederive` | `deriveMptDeltas`, `deriveIouDeltas` |
| `EnsureLedgerCloseTimes` | the dates of the dashboard, recorded in `ledgers` |
| `AskAccountTx`, `AccountTxCoverage`, `AccountTxPage` | `account_tx`: scope, coverage, and a page by keyset cursor; the client asks again with the marker |
| `AskMptHolders`, `MptHoldersPage`, `MptHoldersLedger` | `mpt_holders`, paged by MPToken id |
| `AskGateway`, `GatewayLedger`, `GatewayCoverage`, `GatewaySum` | `gateway_balances`: latest ledger, coverage per issuance or refusal, a sum per issuance |
| `AskReport`, `ReportLedger`, `SearchBounds`, `Probe`, `ProbeFails`, `SearchEnds` | reporting: the ledger asked for, named, or searched for by its close time, a probe at a time |
| `BalanceSum`, `BalanceCoverage`, `ReportItems` | `archive_balance_at`, `archive_transactions` |
| `AskAccountLines`, `AccountLinesMeta`, `AccountLinesLedger` | `account_lines` and `asOfLedger` |
| `AskTieOut`, `TieOutDerived`, `TieOutEntries`, `TieOutCompare` | `Reconciler`: sums, reconstruction, members |

`swept`, `steady`, `derivedFrom`, `first` and `last` of a request are not the
program's: they note what held when a query was answered, for the properties to
refer to. `Swept(i, l)` is the yardstick they use, a claim of the issuance's own
sweep that reaches `l`: that it is true is what `Backfill` establishes.

### Postgres

A process boots (`Start`, `TakeLock`, `ReadApplied`, then `Apply` and `Migrated`
per migration, `Booted`), or fails to; its writers then run transactions. A
transaction is a record with its attempt, connection and next statement; a
statement locks one row key until the transaction ends; a migration is a
transaction whose only key is the catalogue and which is refused if its id is
there (`Duplicate`). `Begin`, `Statement`, `Commit`, `Rollback`, `Wake` are
`#attempt` and the loop of `transaction`; `Retryable` is the deadlock code only,
as the server raises no serialization failure at the READ COMMITTED level the
pool runs at. `Drop` loses a connection, and one lost during COMMIT may or may
not have committed. `Crash` ends a process; the server notices later
(`LockSessionEnds`, `SessionEnds`), in any order, and may still carry out a
COMMIT that was on its way: `surprised` marks the processes that read the
migrations before it did, the one case in which a boot may fail on a duplicate:
`BootsInTurn` is about the lock, and what holds after such a COMMIT is
`SchemaComplete`. `AppliedOnce` agrees with `src/db/postgres.ts:98` (nothing of a
transaction that lost a deadlock was applied); the caution at line 265, that a
call which is not idempotent would be applied twice under contention, asks for
more than the deadlock code needs.
The server grants a row to any waiter, not the first, which only adds
behaviours. The lock's own connection has no error handler: when it drops, the
process goes with it, so that is a `Crash`.

## 3. What is checked

| Run | Checks | Bounds and why they are enough |
|---|---|---|
| `Backfill` | type, `MarkerSafe`, `SweepCoverageSound`, `HolderCoverageSound`, `DiscoveryKept`, `SweepCompletes` | one issuance, one holder, three transactions (two in one ledger, one off-scope), two runners, one fault (a crash, a failure, or a delete that may be aborted). Two runners can already share any job at different cursors; three entries give first, middle and last pages. The safety properties are proved for any number of issuances and faults, so the run spends its states on liveness. |
| `Governor` | type, `SlotsConserved`, `NoLostWakeup`, `EscalationHeld`, `QueuedServed`, `EveryRequestEnds`, `SlotsAreFair` | four requests on two slots: two waiters at once; one retry; backoff of 1, 2, 2, ... ticks, so that it escalates and saturates |
| `LiveTail` | type, `NothingSlips`, `TailCatchesUp` | three ledgers after the start, two transactions that name the holders of two issuances of different issuers, one of which registers while the tail runs; two drops, one failed fetch, two restarts: a gap within a gap's heal, a restart after a restart, and each of them in every step of the registration |
| `Deletion` | type, `ReferentialIntegrity`, `CoverageHonoured`, `TrackedRegistered`, `PurgeSpares`, `DeleteEnds` | two issuances of one issuer, one present and one registered, a holder both share and one they do not, two transactions; one delete, of either; one restart or failed purge; one streamed transaction in hand. One delete meets every writer in each of its steps. |
| `ArchiveReads` | type, `PagesComplete`, `ListingExact`, `GatewayExact`, `ReportExact`, `ResolverExact`, `LinesExact`, `TieOutAgrees`, `SearchNarrows` | an MPT and an IOU of one issuer, two holders on either side of their lines, four transactions: two in one ledger with their hashes in the other order, one of both tokens, one streamed after the start; pages of one row; eleven requests that between them reach every query, with and without a ledger, a date, a start; one ledger without a close time |
| `Postgres` | type, `PoolSound`, `AppliedOnce`, `BootsInTurn`, `SchemaComplete`, `EverythingEnds` | two processes, two migrations, pools of one (the tightest); three writers, two of one process and two in a lock cycle; one retry, one drop, one crash |

`Deletion`'s properties: `ReferentialIntegrity` is every foreign key of
`migrations.ts`. `PurgeSpares`: a purge keeps links, deltas, claims and jobs of
the recorded holders of the issuances that stay, and of their issuers where
`Protected` in that purge. Both exceptions `Protected` names break
`NothingNeededRemoved`, the same without them: an issuer that is itself an
exclusive holder, which `DeleteShared` shows, and an issuance registered after
the others were listed, to which that property fails on the instance of
`Deletion` in five steps (admit, begin, drain, register, purge). `CoverageHonoured`: claims of the issuances that stay
are true throughout, apart from the unprotected and from holder claims after an
aborted delete (see below). `DeleteEnds`: maintenance mode ends, as the drain
waits for a page and a heal, never for a whole sweep.

Five of the properties of `Backfill` read as follows. `MarkerSafe`: every
transaction at or below a job's marker, in the range of the job, is stored,
linked and derived for the accounts the job is responsible for. It is what
"a crash resumes with no gaps" means when several runners move the marker, in
either direction. `SweepCoverageSound` and `HolderCoverageSound`: for each
coverage row, every transaction in its range that names the account, for the
issuance whose job claimed it, is held. `DiscoveryKept`: a holder named below
the marker, or in a claimed range, is in `account_issuance`. `SweepCompletes`:
an enqueued sweep ends up completed, unless its issuance is being deleted.

### Fairness

`Backfill`: started steps go on (a request or statement returns or fails),
the hourly re-discovery comes round, a restart runs its resume pass; nothing
makes the tail meet a holder, a fault happen or a delete end. `Governor`: timers
fire, and a request's own steps are taken (the upstream answers or the
connection fails; `client.ts` bounds its retries). `LiveTail`: the loop goes on
with the event or heal in hand, messages on the wire arrive, fetches return or
fail. `Deletion`: a sweep's request is answered or given up, the continuation of
a registration and the steps of a delete are taken. `Postgres`: the event loop
and the server go on with what they have begun, deadlocks and dead sessions are
noticed, and a waiter for the pool, a row or the lock is served if it comes free
again and again (strong fairness: `pg.Pool` and the lock manager queue their
waiters). No fairness is assumed of
reconnecting, of ledgers closing, or of registration.

### Divergences found

Each is a run that TLC refutes, against the line of the repository it quotes
(`PROJECT.json`, "findings").

| Run | What the code does |
|---|---|
| `RestartAnchor` | `ledgers` is recorded before the gap it reveals is healed, and the restart anchors at its maximum (or that of any issuance's coverage): what the heal had left is never fetched |
| `RegistrationWindow` | the post-backfill heal ends at the last close consumed; what was received while the issuance was untracked and lies above it is stored by nobody |
| `ResumedClaim` | a sweep resumed for its last, off-scope pages claims a range that ends at its start, below rows it stored before |
| `DeleteShared` | an account that holds only the deleted issuance is removed although it issues another: that issuance's links, claims and job go with it |
| `GatewayCoverage` | `gateway_balances` takes a coverage row of any issuance for one of the IOU asked about: with its holders covered by another sweep, it sums a half-swept IOU and reports less than is owed |
| `DeltaSums` | an MPToken modified without a change of its amount counts as one that was empty: its deltas no longer add up to its balance |

Others are described in `PROJECT.json` ("hazards") and visible in the models as
exceptions the properties state:

* an aborted delete lifts the stop flag before `tracked` is refreshed
  (`src/server.ts:531`); a holder job that pages in between skips its
  transactions and claims the range. `MarkerSafe`, `HolderCoverageSound` and
  `CoverageHonoured` exempt holder jobs of issuances a delete of which was ever
  aborted;
* a crash between recording a holder and enqueueing its job leaves it known and
  never backfilled (`src/server.ts:255`);
* the re-discovery reclaims failed holder jobs but runs only the sweep
  (`src/admin/orchestrator.ts:113`): they wait for another new holder or a restart;
* a second `runIssuance` on an issuance reclaims the jobs the first is running,
  so both may run one. `Backfill` lets them, and `MarkerSafe` and the coverage
  properties hold regardless: the cost is repeated work;
* the high-water mark `gateway_balances` and the tail's restart trust is the
  greatest row of `ledgers`, and date lookups add rows to it;
* `account_lines` reports the ledger its account's coverage reaches, whichever
  ledger was asked for and whatever newer rows it read; `LinesExact` speaks of
  answers that read nothing beyond it;
* an issuance registered between the listing of the others and the purge of
  another of the same issuer is not spared (`src/admin/adminApi.ts:385`).

## 4. What is proved

`BackfillProofs`, for every history satisfying `HistoryAssumption`, any number
of issuances, accounts, runners, faults and ledgers (assumptions:
`HistoryAssumption`, `BackfillAssumption`):

* `TypeCorrect`: `Spec => []TypeOK`;
* `MarkersAreSafe`: `Spec => []MarkerSafe`;
* `SweepCoverage`, `HolderCoverage`: the coverage invariants;
* `HoldersAreKept`: `Spec => []DiscoveryKept`.

None of these is inductive alone. The inductive invariant `IInv` adds
`RunnersSafe`: what a runner in the middle of its job has behind its cursor is
persisted (so a marker may be overwritten with any runner's cursor, and the last
page of any runner completes the history), the page in hand holds what is in
scope and lies after the cursor and up to `upto`, and its high-water mark bounds what it
may claim; and `HolderWorkShielded`: while a holder job's page was filtered
without its issuance being tracked, the issuance is being deleted, or a delete
of it was aborted, so the page will not commit or the property does not speak of
it. The main lemmas say that the tables only grow, that a persisted transaction
stays so, and, per action, that each conjunct survives. `HoldersAreKept` needs a
second strengthening, `Discovery`: what holds of the marker holds of the cursor
of every sweep under way too (`CursorRecorded`), since any of them may write its
cursor into the marker.

`GovernorProofs`, for any number of requests, slots and retries and any backoff
satisfying `GovernorAssumption`:

* `TypeCorrect`, `SlotAccounting` (`SlotsConserved`), `NoWakeupLost`,
  `Escalation`: the invariants, from one inductive conjunction with the facts
  about the queue (each queued request once);
* `ImplementsFairSlots`: the safety part of the refinement, step by step.

`DeletionProofs`, for every history, any set of issuances, accounts and initial
registrations, any number of deletes, restarts and failed purges:

* `TypeCorrect`, `DeleteKeepsKeys` (`ReferentialIntegrity`), `TrackedHaveRows`
  (`TrackedRegistered`): the invariants;
* `DeleteSpares` (`PurgeSpares`): what no purge removes.

The inductive invariant is `IInv == TypeOK /\ Flags /\ OwnLinks /\ Keys /\
NoMarker`. `Flags` is what keeps the tracked set within the table: what is being
deleted is not tracked, and the target of a delete stays flagged until its row is
gone. `Keys` is `ReferentialIntegrity` foreign key by foreign key; it needs
`OwnLinks` (a streamed transaction carries links to itself only), that a sweep
links its page to every holder it discovers there (`DiscoveredAreLinked`), and
that an account a purge removes is in scope for no issuance that stays
(`RemovableUnused`). `NoMarker` (a job without a row has no marker) is what makes
a spared job keep its marker.

`DeletionClaimsProofs`, from the same assumptions: `DeleteHonoursCoverage`
(`CoverageHonoured`). A claim is honoured only if everything before it was, so the
strengthening (`CInv`, on top of `IInv`) says that what lies behind the marker of a
job, behind the cursor of its run or under its claim is `Stored`, the row in
`account_issuance` that puts it in scope included (`Progress`, `Claims`), and that
a page in hand misses no holder (`PagesWhole`; of a holder's own job, while its
issuance is not being deleted, since scope is read once per page). An issuance is
registered once (`Once`, `Registered`), and a holder met while it was tracked stays
recorded until a delete (`Recorded`, `MetTracked`). A purge then takes nothing from
under a claim: what it removes is protected as soon as an issuance that stays has
the holder in scope.

`LiveTailProofs`, for every history, any initial registrations, any number of
dropped connections, failed fetches and restarts (assumptions:
`HistoryAssumption`, `LiveTailAssumption`):

* `TypeCorrect`: `Spec => []TypeOK`;
* `NothingSlipsHolds`: `Spec => []NothingSlips`.

`NothingSlips` speaks of the ledgers the tracker has passed; inductive is only
`Accounted`, which speaks of those it will have passed with the closes that wait
in the queue too. It rests on the order the messages arrive in (`WireWhole`: a
close still on the wire is followed by every transaction of its ledger, and the
tail has heard of no ledger as late), which is why a message lost after its
ledger's close is the one loss no gap shows. A gap heals what it skips because
the tracker is anchored once something is tracked (`Anchored`) and pages the
issuer of everything tracked (`GapFacts`); a streamed transaction is complete for
all of it because its scope was taken when it arrived and what is tracked from
the start stays so (`Watched`, `OwnLedgers`). `Past`, nothing known is ahead of
upstream, makes a restart's anchor one that later closes go beyond.

`ArchiveReadsProofs`, for every finite history, any number of issuances, accounts,
requests and ledgers, any page limit and any close times (assumptions:
`HistoryAssumption`, `ObjectsAssumption`, `NodesAssumption`, `ReadsAssumption`; of
the last, that no two transactions share a hash, no two holders an MPToken id, and
that close times increase):

* `TypeCorrect`: `Spec => []TypeOK`;
* `PagesAreComplete`, `ListingIsExact`: paging;
* `GatewayIsExact`, `ReportIsExact`, `LinesAreExact`: sums and listings against the
  ledger's balances;
* `ResolverIsExact`, `SearchAlwaysNarrows`: the search for a date;
* `TieOutIsExplained`: the causes of a disagreement.

The inductive invariant has two halves. `StoreInv` is about the archive: a delta is
of a stored transaction that touches its balance, and is stored with those of the
issuance's other holders (`DeltasSound`); all that lies behind a sweep's cursor is
stored, its holders, links and deltas included (`Walked`), and so is all that a
sweep claims (`ClaimsSound`), which is what makes `Swept` a fact about the rows. The
store only grows (`Grows`), so what a query found stays found while the request goes
on. `RequestInv` says of the request under way what its queries so far account for,
kind by kind: that the pages are in order, up to the cursor, and every row that all
windows held is in a page or past it (`AccountTxOK`, `ListingOK`); what the search has
ruled out on either side (`Searching`); that the sums made are exact (`GatewayOK`,
`ReportOK`), that the lines are those of what was read, which holds everything claimed
by then (`LinesOK`); what each read of the tie-out saw (`TieOutOK`).

That the deltas add up (`DeltasAddUp`, `BalanceIsSum`), and that a query's rows can be
put in order, are inductions on the size of a set. They are made by the least
counterexample: `FoldLemmas` derives from the well-foundedness of the numbers that a
set of finite sets has a smallest member, and from that what `SumFunctionOnSet` is
(`SumPicks`, `SumRemoves`, `SumSplits`, `SumCarried`) and that a finite set has a list
in any total order (`ListExists`), with which `Ordered` chooses one.

`PostgresProofs`, for any number of processes, writers, row keys, migrations,
retries, dropped connections and crashes and pools of any size (assumption:
`PostgresAssumption`, by which the processes are finitely many):

* `TypeCorrect` (`TypeOK`), `PoolIsSound` (`PoolSound`), `CallsTakeEffectOnce` (`AppliedOnce`), `SchemaStaysComplete`
  (`SchemaComplete`), `BootsTakeTurns` (`BootsInTurn`).

The inductive invariant relates the stage of each boot to its transaction and to
the advisory lock (`Stage`, `Locked`), and the schema to what each process
believes of it: what is applied is the first migrations (`Prefix`), what a
process has pending are the last ones, all before them applied (`Front`); the
same of a COMMIT that a crashed process left on its way (`Late`); and what a
process has still to try is not applied, unless such a COMMIT surprised it
(`Fresh`). `Effect` is what makes a call take effect once: a commit whose answer
is lost leaves an error that is not retryable.

The pool has an invariant of its own, `PInv`, which no boot depends on: a session is
idle in one pool, or one task's, or an orphan of a crash (`Apart`); a transaction's
session is open until its end and an idle one is not (`Working`); a row lock is held
by a transaction at work or by an orphan (`LocksHeld`). `Few` is what type correctness
needs: the sessions are numbered within `Conns`, and a pool with room always finds a
number left (`RoomGives`), because the pools hold at most the sum of their sizes
(`UnionBound`) and each crash orphans at most as much again.

Not provable with this prover, and left to TLC: liveness under fairness
(`SweepCompletes`, `QueuedServed`, `EveryRequestEnds`, `TailCatchesUp`,
`DeleteEnds`, `EverythingEnds`) and anything with ENABLED. Every safety property of a
passing run has its theorem. No module declares RECURSIVE operators.

## 5. What is not modelled, and why

* `account_info` (the reads of `account_lines`, for one object), `tx` (one row by
  hash), requests forwarded upstream, `hotwallet`: nothing between their queries
  that the modelled methods do not have.
* Amounts are small integers. Decimal arithmetic is exact in `big.js` and in
  PostgreSQL's `numeric`; rendering and currency codes are formatting.
* Graceful shutdown and the periodic database checkpoint; the ceiling of the
  admin coverage view, login sessions, the `enabled` toggle.
* A page and a purge on two connections of the networked engine: the modules
  with a purge take each transaction as one step, and `Postgres` has keys but no
  rows. Serialization failures do not occur at the isolation level used.
* Holder discovery strategies (`src/discovery`): scripts use them, the server
  no longer does.
* Dashboard, activity labels, logging, configuration, HTTP/WebSocket framing,
  codecs: presentation, parsing or I/O without state the properties see.

## 6. Plan

In order of what it would add:

1. An abstract archive (history in, coverage out) implemented by `Backfill`, and the
   step-by-step proof that it is.
2. The purge and a page transaction interleaved statement by statement, on the
   locks of `Postgres`.
3. Shutdown: the order in which the server stops its sources, runners and the
   database.
