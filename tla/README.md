# A verification project for BCRSTracking

TLA+ models of the BCRS tracking service (the Go code under `src/`), TLC runs
that check them on small instances, and TLAPS proofs of the properties that
matter most. The service polls the API of a deposit-return scheme for the
locations and bins of its reverse vending machines (RVMs) and stores what it
finds in ClickHouse.

Each module names the file and function it models in its header; `PROJECT.json`
maps every definition to source lines. A definition whose comment starts with
"Variant" is the definition after it with a plausible mistake. No specification
uses a variant: it serves to show that a property would notice the mistake
(`mutants` in `PROJECT.json`).

## Inventory

| Component | State | Operations | Works with |
| --- | --- | --- | --- |
| Batch writer, `storage/batch_writer.go` | three bounded channels, the worker's three slices, `stopChan`, `flushReqChan` | `Enqueue*`, worker (receive, tick, drain, flush), `Flush`, `Stop` | called by the poller and `Storage.Close`; inserts through `Storage` |
| API client, `client/bcrs_client.go` | token, its expiry and epoch, the fetch in flight; rate limiter | `GetLocations`, `GetBinStatus`, `getAccessToken`, `invalidateToken`, `doWithRetry` | called by the polling loops and up to 8 bin workers at once |
| Location poller, `poller/poller.go`, `poller/diff.go` | `activeRVMs` | `PollLocations`, `DiffState`, `HydrateFromStorage` | client; enqueues rows and events |
| Bin poller, `poller/poller.go` | jobs, workers, `scrapedCh`, `allBins`; `lastBinCounts` and the ingestion counter | `PollBins`, `applyHydratedBinSnapshots` | reads `activeRVMs`; client; enqueues bins |
| Process, `cmd/tracker/main.go`, `Poller.Start` | context, the goroutines | connect, schema, start, signal, shutdown | starts and stops all others |
| ClickHouse storage, `storage/clickhouse.go` | the connection (the tables are external) | schema, inserts, loads | batch writer, hydration |
| Metrics, `metrics/metrics.go` | counters and gauges | record, set, reset | written by all |
| Decoding, `model/*.go`; configuration, `config/config.go` | none | pure | client, main |
| Deployment: helm, compose, dashboards, alerts | none | none | reads the metrics |

What is hard about them, with what makes each one correct:

- **Batch writer.** Producers never wait and race with the drains of `Flush` and
  `Stop`; inserts fail, time out or are committed without an answer. Memory must
  hold exactly what is not acknowledged, in order; `Flush` and `Stop` must cover
  what was accepted before them, and must return.
- **API client.** Many requests find the token missing or rejected at once; the
  one that fetches may be cancelled, time out or panic, and an invalidation may
  come in between. There must be one fetch at a time, no lost wake-up, no stale
  token, and no request that fails for another's context.
- **Location poller.** Memory moves on before the rows are stored; rows are
  dropped by full channels, lost in crashes, inserted twice, and reloaded at
  start. Memory and database must agree, events must tell each machine's life,
  and after a disturbance the database must come to say what upstream says.
- **Bin poller.** A pool with two channels and two wait groups must neither
  deadlock nor send on a closed channel, whichever request fails or is
  cancelled. A process must not count a container twice, across emptied bins,
  failed polls, wrong readings and restarts; over a crash only the containers
  that were counted after the last stored snapshot may be counted again.
- **Process.** The context is cancelled and the storage closed while the polls
  go on: what was accepted before the signal must be stored, and the process
  must end.

`hazards` in `PROJECT.json` lists each of these at its line.

## Modules

| Module | Models | Kind |
| --- | --- | --- |
| `TableLog` | what the batch writer promises: rows wait in order and leave memory only from the front and for their table | abstract specification |
| `BatchBuffer` | the batch writer | implements `TableLog` (property `LogImplemented`) |
| `BufferMetrics` | the depth gauge and the counter of inserted rows around every step of the batch writer | EXTENDS `BatchBuffer` |
| `RowSequences`, `BatchBufferProofs`, `BufferMetricsProofs` | | lemmas and proofs |
| `TokenResponse` | what `model/token.go` and the cache make of a token answer | operators |
| `TokenClient`, `TokenClientProofs` | token cache, single-flight fetch, retries | EXTENDS `TokenResponse`; and proofs |
| `DiffState` | the pure functions of `diff.go` | operators |
| `LocationTracker`, `LocationTrackerProofs` | `PollLocations`, hydration, crash and restart; the batch writer as `TableLog` promises it | EXTENDS `DiffState`; and proofs |
| `BinPoll`, `BinPollProofs` | the worker pool of `PollBins` and the list of machines it works on | and proofs |
| `BinDelta`, `BinDeltaProofs` | the delta section of `PollBins` and its hydration, against the containers that were really inserted | and proofs |
| `Settings` | what `config.Load` accepts and what the components make of it | operators |
| `Tracker`, `TrackerProofs` | `main` and the polling loops around the batch writer | EXTENDS `BatchBuffer`, `Settings`; and proofs |
| `MC*` | small constants for TLC | |

### How they correspond to the code

**BatchBuffer.** A row is the number of the `Enqueue` call that offered it.
`queue[t]` is the channel, `batch[t]` the worker's slice, `stored[t]` the table.
The worker's program counter has one step per channel receive of a drain and per
insert of a flush, so that producers and callers get in between. An insert ends
"ok", "error" (nothing stored) or "unacked" (stored, but an error is
returned, as when the 10 s context ends late). `accepted`, `mark` and
`stopMark` are history variables. A row that `batch.Append` refuses
(`Refused`) makes every insert of a slice that holds it fail. The nil-sink
branch, which only tests use, is left out.

**BufferMetrics.** Each producer sends its row, reads the channel's length and
sets the gauge in three steps; flush reads and sets the gauge of each table in
turn before its caller goes on. The worker and other producers come in between.

**TokenClient.** Each request is a goroutine in `doWithRetry`. The critical
sections of `getAccessToken` under the write lock and under the read lock are
one step each. The number of a fetch is its token. `FetchOutcomes` are the ends
of `fetchAccessToken`; `call.err` that `errors.Is` takes for a context error
is "ctx". A request whose own last attempt ends by the HTTP client's timeout is
"failed" here, although its error wraps `DeadlineExceeded` too: "ctx" is kept for what
a context or the fetch of a token caused. `InvalidateToken` is public but only tests
call it; it is modelled because the epoch exists for it alone.

**TokenResponse.** A JSON object is a function from the names it holds to
values, and a value is told apart by what the code can make of it (a date, a
number, a number in a string, a duration, ...). The order in which wrappers and
names are tried and the magnitudes that tell instants from lifetimes and seconds
from milliseconds are the code's. A name whose value can be read decides, whatever
it states: a date of Go's zero time is past, and the names after it are not looked
at. `Publish` of `TokenClient` takes for granted that a fetched token is fresh; the
theorem `NeverCachedExpired` shows it.

**DiffState, LocationTracker.** An RVM is reduced to status, name (the fields
compared as metadata) and raw JSON. `PollLocations` is one step up to the
unlock; the rows and events are then enqueued one by one, in any order the maps
allow, while upstream changes and the process may crash. `PollBlank` is an answer
of status 200 without a list, which the code takes for an empty directory.
`Merge` is `ReplacingMergeTree(updated_at)` read with FINAL. `stale` and `lost`
are history variables: the machines whose newest row was dropped or not loaded,
and those of which a crash lost something.

**BinPoll.** One step per channel operation and per request of each worker,
of the collector and of `PollBins` itself. `Begin` starts a cycle with the
machines that memory holds (none: it returns at once), and `Relocate` is
`PollLocations` replacing them at any time, during a cycle too.

**BinDelta.** A bin really takes containers and is emptied; a sample remembers
what had happened to the bin when it was taken, so that the counter can be
compared with the truth. A sensor may be wrong by `MaxError`, up or down, so that a
count may dip and return. The subtraction is modulo `Width`. A cycle may
miss any bin (`CountDeltas` takes what was scraped). `ingested` is the counter of
the process that runs and `counted` what earlier ones had counted: their sum is
what `increase()` adds up over the restarts. `again` is the part of it that a crash
cut off from the database: what was counted after the snapshot that is stored,
because that snapshot was waiting, dropped or never written.

**Tracker.** The variables of `BatchBuffer` and its steps are used unchanged;
`TrackerNext` conjoins them with the steps of `main` and of the two loops. A poll is
the rows it enqueues. The pool is one worker; more of them would only
interleave more enqueues, which `BatchBuffer` allows anyway. When `main` has
returned, nothing moves.

**Settings.** An environment maps each variable to unset, an unreadable text, NaN
or a number. `Config` is `Load`; `Effective` is what `client.New`,
`NewBatchBuffer`, `Poller.Start` and `PollBins` put in its place.

## Runs

| Run | Checks | What it shows, and its bounds |
| --- | --- | --- |
| `BatchBufferFaulty` | MetricsTypeOK, InOrder, AckedRowsDurable, InsertedCounts, LogImplemented | the batch writer with its metrics and all insert outcomes: two producers of three events, a one-slot channel and batches of two, so that a channel and a batch fill and a retry meets new rows |
| `BufferAlert` | AlertStands | violated, see Findings |
| `BatchBufferLive` | ExactlyOnce, FlushCovers, StopCovers, FlushReturns, StopEnds, Delivered | a flusher and two stoppers race with producers of rows of two tables while inserts fail any number of times and succeed in the end, except for a row that is refused for good |
| `TokenClientRequests` | TypeOK, SingleFlight, FreshToken, LifetimeHonoured, FetchOnlyWhenNeeded, NoForeignCancellation, RequestsEnd | two requests with a retry each and an invalidation: a leader and a follower, a late 403 that meets a new token, a token fetched twice; and all encodings of two lifetimes under all names, beside a second name, or with a past date under the first one |
| `LocationCrash` | TypeOK, DatabaseFollows, PollSettles | two machines with two statuses in one buffer with partial batches, two upstream changes, a crash, drops, repeated inserts, a failing load |
| `LocationLive` | EventsTellAll, Reconciled, PollSettles | one machine with two statuses, names and values of the rest of its JSON, three upstream changes or empty answers and a crash |
| `LocationFirstSeen` | FirstSeenPreserved | violated |
| `BinPollCycle` | TypeOK, CycleComplete, NoSendOnClosed, PoolMoves, CycleEnds, EveryMachineAsked | two workers, three machines with up to two bins, a channel of one that fills, a directory that changes at any time |
| `BinPollSuccess` | SuccessMeansScraped | violated |
| `BinDeltaCount` | TypeOK, NeverOvercounts, NeverRecounts, CountsAll | a bin of either kind, four containers (more than the cap of 3), counts modulo 8, least emptied count 2, two emptyings, a reading that is wrong by one, two crashes with a snapshot waiting, stored or dropped |
| `TrackerShutdown` | TrackerTypeOK, SignalDrained, SettingsValid, ShutdownEnds | two connection attempts, a row of each table, so that one can arrive during the last drain or after it; and all environments with at most two variables set |
| `TrackerDrain` | GracefulDrain | violated |

`LifetimeHonoured` and `SettingsValid` are about operators
without state. They are evaluated in the initial states only, over all the inputs
that `TokenResponse` and `Settings` name; the proofs cover every answer and every
environment.

`LocationCrash` leaves the history variable `lost`, which none of its properties
reads, out of the state's view.

The second halves of `FlushCovers` and `StopCovers` speak of a database that
never fails. TLC checks that of Stop in `TrackerShutdown`; for Flush, as for any
number of flushers, requests, rows and tables' capacities, the theorems below
say more than a larger run would.

Bins do not interact in the delta section and neither do the tables of the
batch writer beyond their order, so one of each, or two, show the cases; machines
interact only through the shared buffer. The numbers of the code (5000 and
10000 slots, batches of 500, cap 200, 50 containers, 1000 slots, three retries)
are constants with small values that keep their order (the least
emptied count below the cap, as 50 is below 200).

Bounds on counters are guards with a constant named Max..., and only there to
keep TLC finite: rows offered, stored rows before an unacknowledged insert,
epochs, upstream changes, crashes, waiting rows, containers, emptyings, wrong
readings and by how much they are wrong.

`CHECK_DEADLOCK FALSE` stands where a bounded world or a stopped process really
may come to rest. TLC's own deadlock check says nothing of `BinPoll`, where
`Relocate` is always possible; `PoolMoves` is what says that the pool cannot block.

## Fairness

- `BatchBuffer`: the worker keeps running and each insert ends (its 10 s
  context), weak; Go's select chooses at random among ready cases, so a case
  that is ready again and again is taken, strong; a goroutine blocked on a
  closed channel wakes, weak. `Delivered` also assumes that an insert that is
  tried again and again succeeds in the end. Nothing is assumed of producers,
  contexts or callers. `BufferMetrics` has no liveness property and no fairness.
- `TokenClient`: each request goroutine goes on; requests and fetches end by the
  HTTP client's timeout. Nothing is assumed of cancellation or invalidation.
- `LocationTracker`: the ticker polls and upstream answers in full again and
  again (strong, as a poll waits for the one before), the buffer flushes
  (shown by `Delivered`), a crashed process is started again. Changes and
  crashes stop because they are bounded, which is the "once" of `Reconciled`.
- `BinPoll`: goroutines go on, requests end, and the ticker fires as long as the
  context lives. Nothing is assumed of the directory.
- `Tracker`: `main` and the worker go on. Nothing is assumed of the poller.

## Proofs

All are checked by `tlapm` for every value of the constants that satisfies the
modules' assumptions.

**BatchBufferProofs.** `TypeCorrect` is inductive as it stands. `RowsInv` is the
strengthening behind `InOrder`, `AckedRowsDurable` and `ExactlyOnce`: it relates
the three sequences of a table (slice, channel, accepted) and what is stored, and
each action either leaves a table alone or is one of three effects (a row enters
the channel, a row moves to the slice, a slice is inserted); the lemmas of
`RowSequences` say what each effect does to "the end of a sequence".
`LogImplementedCorrect` maps what the slice and the channel hold together to
`waiting` of `TableLog`, and the three effects to `Accept`, a stutter and `Persist`
of the whole slice. `TableLog` is as much as `LocationTracker` and `BinDelta` take
for granted of the batch writer. `SyncInv` is needed for `FlushCovers` and `StopCovers`:
`FlushCovers` speaks of a call that has returned, so the invariant carries the
claim backwards through the drain and the flush, table by table, as "every table
the worker has passed is covered".

**TokenClientProofs.** The inductive invariant `IInv` is `TypeInv` (types, and
that an attempt and a call are in range) and `SInv`: besides `SingleFlight`, that
a token is dead only if it was fetched, the cached token is not dead, a leader's
fetch is younger than anything it must not return, and a follower's fetch is
either open or was published with a token that was good at that moment.
`FreshToken` alone is not inductive: it says nothing of a request that still
waits. `FetchOnlyWhenNeeded` and `NoForeignCancellation` are action properties
that follow from `IInv` and one case per action.

The same module proves what `TokenClient` takes for granted of an answer.
`NeverCachedExpired` holds of any answer whose fields have readable types:
whichever names and wrappers it uses, the expiry that is cached lies in the future.
`StatedLifetimeHonoured` says that a lifetime below the magnitude that tells instants
apart is the one cached, in every encoding, if every name that can be read states
it; a name that states something else and is tried before would decide instead, and
`PastDateHonoured` says so of a past date, the zero time included. `NamesApart` (no
name stands for both an instant and a lifetime), `EncodingRead` (what each reading
makes of each encoding) and `Decides` (the first name that can be read gives the
expiry) are their parts. The first field of a list that can be read is the one with
the least position, which `LeastOf` gives without an induction.

**BufferMetricsProofs.** Every step with metrics is a step of `BatchBuffer` or
leaves it alone (`MetricsImplementBuffer`), so that its invariants carry over.
`InsertedCounts` then follows by induction over three kinds of steps: those that
move no row of a table, an insert, and a row that enters the channel or the
slice. `MetricsTypeCorrect` adds that flush has read only lengths it will set.

**TrackerProofs.** `TrackerUsesBuffer` shows that the process uses the batch writer
as `BatchBuffer` says, so that `StopCovers` holds of it. `SignalDrained` follows
with an invariant that ties the signal's mark to Stop's: what was accepted before
the signal was accepted before Stop, and the connection is closed after the
worker has exited. `AnyEnvironmentRuns` shows, of every assignment of texts and
integers to the variables, that what `main` goes on with is what the modules assume:
a positive batch size, number of workers and interval, the one that was set if it is
usable; and that `Load` refuses no more than it should.

**LocationTrackerProofs.** `DatabaseFollows` is not inductive: whether a row that
is inserted late, twice or in part changes what the database ends up with depends
on the versions of all rows on their way. `RowsInv` says that the rows of a
machine, stored or waiting, have different versions below the clock, and that
those of the poll being enqueued have the last one; `FollowInv` claims agreement
also for a machine whose earlier row was dropped while its next one is being
enqueued. `BestOfParts` then shows that inserting any part of the rows leaves the
newest one as it was (that a nonempty bounded set of versions has a greatest one
is `GreatestOf`), and `DiffSays` that a poll's row of a machine says what upstream
says and that a machine without one has not changed. `EventsTellAll` follows from
the same invariant and `EventsInv`, which carries the claim also for a machine of
which a crash lost something, from its next event on: `InsertLinks` moves events
into the log, `PollLinks` adds the at most one event of a poll, and a crash needs
`DatabaseFollows`, because memory is loaded from `rvm_current` while the events
go on from `rvm_events`. `PollSettles` is the step of `Reconciled` that needs no
fairness: `Follows` gives agreement of memory and database before the poll, and
`PollAgrees` that the poll's rows close the difference to the directory. It speaks
also of stale machines for which the poll writes a row. That this row is the newest
one of its machine (`Newer`, from `RowsInv`) gives the JSON that it holds
(`PollStores`).

**BinPollProofs.** `CycleComplete` speaks of the end of a cycle; the invariant
carries it through the cycle. A machine is in the jobs channel once, or with one
worker, or has been answered for (`JobsInv`, `AnswersInv`); the bins of a machine
that were offered and sent are those before the place of its worker
(`BinsInv`); and what was sent, received or not, is in the order of each answer
(`OrderInv`). When the workers have returned, no worker's place is left to bound
what was sent, and the channel is empty: that is `CycleComplete`.
`NoSendOnClosed` is part of `PhaseInv`. `PoolMoves` follows from the same invariant:
if every worker that has not returned waits at a full channel, the channel is not
empty and the collector has not ended, because it ends only when the channel is
closed, which happens after the workers have returned.

**BinDeltaProofs.** `NeverOvercounts` says nothing of samples that are on their
way. `BinInv` says that every sample of a bin, scraped, last counted, waiting or
stored, is `Earlier` than what the bin would report now, and the last one
`Earlier` than the scraped one: fewer containers, fewer emptyings, and a count
that differs by what was inserted, or, after an emptying, holds no more than
that, up to what the two readings are wrong. `DeltaBounds` concludes that a difference between two such samples counts
at most what was inserted between them, and all of it where nothing is left out;
the unsigned subtraction does not wrap on the sides of the comparisons where it
is used. For `NeverRecounts` the invariant also bounds what earlier processes
counted by the containers inserted before the count from which a process may start
(`Known`, for every sample that is stored or waiting), plus `again`: a crash adds to
`again` just what lies between the stored snapshot and the last count.

**Only model-checked.** Liveness and everything under fairness (`FlushReturns`,
`StopEnds`, `Delivered`, `RequestsEnd`, `Reconciled`,
`CycleEnds`, `EveryMachineAsked`, `ShutdownEnds`), because TLAPS has no ENABLED.
Every invariant and every action property that a passing run checks is a theorem.
What a fold or a recursive definition computes for every input would need an
induction that the installed provers cannot instantiate; no module needs one.

## Findings

Each is a run that TLC must find violated, and an entry of `findings`.

1. `TrackerDrain`: `main` does not wait for the poller, and rows it enqueues
   after the last drain are lost ("with graceful shutdown draining",
   README.md:97). `SignalDrained` is what does hold.
2. `LocationFirstSeen`: after the first poll, the next status or metadata change
   of a machine overwrites `first_seen_at` with the zero time, because memory
   keeps the polled RVM (poller.go:220) and not the row of the diff.
3. `BufferAlert`: flush sets the depth gauge to what the channel and the worker's
   slice hold (batch_writer.go:176-180), but each `Enqueue` overwrites it with the
   length of the channel alone (batch_writer.go:69, 79, 89). While inserts fail, the
   gauge falls below the threshold of `BCRSBufferDepthHigh` (README.md:295, "Pending
   rows in ClickHouse batch buffer") although more rows are pending, and the two
   minutes start again. The help text of the metric (metrics.go:127, README.md:236)
   says "in the batch channel", which is what `Enqueue` sets and flush does not: the
   two writers disagree, so whatever the gauge is meant to say, one of them is wrong.
4. `BinPollSuccess`: a bin cycle in which every request failed is recorded as a
   success (poller.go:431), so `BCRSScrapeStalled` (README.md:297) stays silent.

Two more were seen and have no run of their own:

- A change of the upstream JSON that leaves status, name and address alone writes no
  row (diff.go:46, 63), while README.md:109 says that new keys "are preserved
  immediately". `PollSettles` shows that they come with the next row.
- A count that drops by sensor noise is not counted, but its return is
  (poller.go:400), while the comment at poller.go:414 says that fluctuations are
  ignored. `NeverOvercounts` allows for it with `noise`, and bounds it.

## Assumptions and what is not modelled

- The upstream directory lists a machine once; a machine has one bin of each
  type; upstream issues a new token for each fetch; `time.Now()` does not step
  back. The hazards list says what happens otherwise.
- ClickHouse: `ReplacingMergeTree`, FINAL and argMax as documented, an insert is
  atomic per block, and a row whose time is Go's zero time is stored as such.
- Not modelled: nil receivers that only tests use (no sink, client, storage or
  metrics), logging, jitter and backoff lengths, the rate limiter's arithmetic
  (a library that only delays), URLs and bodies, the field-by-field decoding of
  RVMs and bins, DDL text, manifests and dashboards; the metrics that one caller
  sets and nothing in the program reads.

## Plan

Done: the batch writer and its metrics with proofs, the token client with proofs
and the answer it decodes, the location tracker with proofs, the bin poller in two
modules with proofs, the process with proofs, the configuration, their runs. Every
invariant and action property of a passing run is proved.

Next, in this order:

1. A module that composes `BinPoll` and `BinDelta` with machines that leave the
   directory and return with an old count: that what `BinPoll` hands to the delta
   section is a step `CountDeltas` of `BinDelta` or leaves it alone.
2. The algebra of `DiffState`: that a diff applied to the previous map yields the
   new one, but for the fields that it does not compare (`DiffSays` of
   `LocationTrackerProofs` is the part that `DatabaseFollows` needs).
