# Code Review Trends in TLA+

A verification project for Code Review Trends, the site and data pipeline that
measure how much AI reviewers are used on GitHub. It models the parts whose
correctness depends on interleavings, failures, restarts and on many paths that
must agree, checks them with TLC on small instances, and proves the invariants that
matter most for every value of the constants with TLAPS.

## 1. The system

```
GH Archive (BigQuery) --backfill, sync, discover--> ClickHouse <--enrich-- GitHub API
                                                     ^   |
             pipeline migrate, sync-bots ------------+   | cached queries
             the app's instances (migrate, then read) <--+
                              |
                         the visitor's browser
```

There is no coordinator. Every process talks to ClickHouse, which has no
transactions over several requests, and whatever one process must know of
another it reads from a table.

| component | state it keeps | operations | module | status |
|---|---|---|---|---|
| enrichment workers (`pipeline/src/enrichment`) | `repos`, `pull_requests`, `pr_comments`, `pr_bot_reactions`, `reaction_scan_progress`; in memory the plan, the selected items, the batch | six stages: combined, repos, reactions, comments, prs, refresh | `Enrichment` | modelled |
| adaptive batch size (`adaptive-batch.ts`) | size and streak, per stage | `onSuccess`, `onServerError` | `AdaptiveBatch` | modelled |
| rate limiter, retry and proxies (`rate-limiter.ts`, `graphql-retry.ts`, `proxy-pool.ts`) | believed budget, reset time, attempt; the index of a path | `waitIfNeeded`, `graphqlWithRetry`, `createPinnedFetch` | `Requests`, `Fleet` | modelled |
| schema migrations (`app/src/lib/migrations.ts`) | `schema_migrations`, `schema_migration_lock`, the schema; a cached status per instance | `getSchemaStatus`, `runMigrations`, the lock | `Migrations` | modelled |
| `pipeline migrate` (`pipeline/src/cli.ts`) | its statement list, an error count | `cmdMigrate` | `Migrations` | modelled |
| backfill and sync (`sync.ts`) | `pipeline_state`, the weekly activity tables; a run's chunks and answers | `backfill`, `syncRecent`, `fetch-bigquery` | `Sync` | modelled |
| discovery and comment statistics | `pr_bot_events` and the summary tables with their views | the inserts, versions 3 to 16, `detach-mv`, `reattach-mv`, `optimize`, the queries of `bigquery.ts`, `discover` | `Statistics`, `Discovery` | modelled |
| cache warm-up (`warmup.ts`) and deploys (`deploy.yml`) | the traffic, the images, `products`, `bots`, `bot_logins` | a deploy's steps, `fetchPage`, `sync-bots` | `Rollout` | modelled |
| bot registry and its tools | the lists of `bots.ts` | `discover-bots`, maps by login | `Discovery`, `Rollout` | partly |
| application queries and pages (`app/src/lib/clickhouse.ts`) | an in-memory cache per instance | lists, pages, menus, trends, rankings, the status page | `Listings`, `Trends`, `Statistics`, `QueryCache` | partly |
| application client state | address, history, product filter, timers | clicks, pushes, transitions, the progress bar | `Browser` | partly |
| status and reports | none | `pipeline status`, `enrich-status`, the panel of `/status` | `Health`, `Statistics` | partly |
| infrastructure | jobs, tasks, secrets, tmux session | the schedule, retries of tasks, `workers.sh` | `Fleet`, `Rollout` | partly |
| schema files and seed | declarations | - | through `Migrations` | partly |
| monitoring | - | logging and metrics | - | left out |

How they interact: discover inserts `pr_bot_events`, backfill and sync the weekly
counts; the enrichment stages select what is announced there and missing in their own
tables; materialized views turn inserts into summaries; the app reads the summaries
through a cache; the browser keeps a copy of the address in its state. The
migrations rebuild tables while all this goes on, and deploys exchange the app and
the jobs one after the other.

What is hard about it:

* **Rows are the only progress marker.** A sentinel row (`comment_id = 0`,
  state `not_found`, a scan status) means "never ask again". A sentinel written
  for something that merely failed, or a first page stored as if it were all,
  hides an item from every later run, and no test of one call shows it.
* **Failure at every call.** A batch is four inserts without a transaction; any
  may fail, be applied although it failed, or be the last thing the process does.
  Retries, smaller batches, REST fallbacks and later stages overlap in what they
  write.
* **A budget known by hearsay.** A worker learns what its token has left from the
  headers of answers that may be lost, late, or followed by requests of others, and
  a request it aborted may still be executed. A token has two budgets at GitHub, for
  REST and for GraphQL, and one limiter hears of both; a query may cost more than the
  threshold.
* **A lock that is not one.** `tryAcquireLock` is three requests; the lock expires
  after 300 s, is never renewed, and is released by truncating whatever is there.
* **Rows that replace rows.** A weekly row replaces the one before it, also when it
  counts less of the week. That each week is asked for whole is spread over three
  places, and one command does not see to it.
* **Statements that are not idempotent**: a copy and swap of tables, and
  backfills of counting tables whose views are attached already. An `INSERT ... SELECT`
  goes on at the server when its client is gone.
* **One number, a dozen queries.** PRs, reviews and votes are computed from different
  summaries, with filters on different sides of a join, in pages that are separate
  queries, by answers of different ages.
* **A browser that is never still.** The router's pushes take effect later, an effect
  writes the address with `replaceState`, debounced timers outlive their page.

`PROJECT.json` lists every hazard at its line, with the property that covers it
or the reason why none does.

## 2. The modules

| module | models | checked in |
|---|---|---|
| `AdaptiveBatch` | the batch size that is halved by a server error and grows back | with `Enrichment` |
| `Enrichment` | the workers: a run's plan, all six stages, GitHub and the tables | `MCEnrichment` |
| `EnrichmentLedger` | abstract: what the tables promise their readers | `enrich_workers` |
| `Requests` | the limiters of workers that share tokens, retries and aborts, and GitHub's budget | `MCRequests` |
| `Fleet` | tasks of the scheduled job and workers of a VM: tokens, parts, paths | `MCFleet` |
| `Rollout` | a deploy: warm-up, traffic, images, `sync-bots` | `MCFleet` |
| `Migrations` | the app's instances, the lock, the statements and the `migrate` command | `MCMigrations` |
| `Sync` | `backfill`, `sync` and `fetch-bigquery`, the weekly tables and `pipeline_state` | `MCSync` |
| `Statistics` | the summary tables, their views and fills, the inserts that feed them; the status page and `enrich-status` | `MCStatistics` |
| `QueryCache` | the cache of an instance of the app | `MCStatistics` |
| `Browser` | one tab: filter, address, router, charts, progress bar | `MCBrowser` |
| `Listings` | lists and pages of organizations and repositories | `MCReports` |
| `Trends` | weekly numbers, growth, rankings, characteristics (extends `Listings`) | `MCReports` |
| `Discovery` | GH Archive's events to rows, `discover`, `discover-bots` (extends `Trends`) | `MCReports` |
| `Health` | `pipeline status` and the panel of the status page | `MCReports` |
| `EnrichmentProofs`, `OperationsProofs` (rollout, fleet, requests), `MigrationsProofs`, `SyncProofs`, `StatisticsProofs` (summaries, query cache), `BrowserProofs`, `ReportsProofs` | the theorems, see section 4 | tlapm |
| `CountingProofs` | what they know about numbers, finite sets and sums | tlapm |

### Enrichment

State. The table variables `events`, `repos`, `pulls`, `comments`, `hoorays`
and `scan` hold what the selections and the properties tell apart: a fetch
status, a PR state ("found" stands for open, closed and merged), the set of
stored comment ids, a scan status. They are sets and functions because the tables
are `ReplacingMergeTree`s deduplicated by key. Per worker, `plan` is the list of
stages left, `pc` the place in the current one, `todo`, `batch`, `reply` and
`rest` are the selected items, the batch, GitHub's answer and the items left for
REST, `adaptive` is the stage's batch size. None of it survives `Stop`.

Actions. `Start` computes the plan (`planExecution`). `Select` is a stage's
query; the order of its results is left open, and so is the choice of the next
batch. `Fetch` is one GraphQL call, `FetchFails` its failure after all retries,
`SkipUnknown` a combined batch without a bot that is still listed. `InsertPulls`,
`InsertComments`, `InsertHoorays`, `InsertScan` and `InsertRepo` are the inserts,
in the order of the code: pulls, comments, reactions, scan in the combined stage,
but scan, then reactions in the reactions stage. `InsertFails` raises an error
with or without the rows applied; the error leads to a smaller batch
(`ShrinkAndRetry`) or to what the stage does when it gives up (`GiveUp`: skip, or
REST one item at a time). `RestComments`, `RestPull`, `RestRepo`, `RestSkip` and
`RestThrows` are the REST calls; `"more"` is the REST loop inside the comments
batch, whose errors reach the batch's own handler. `Vanish`, `Discover` and
`Recover` are the outside world.

What GitHub answers is fixed by constants (`Threads`, `Hoorays`, `Fate`, ...).
`Misleading` lets it blank a node or refuse without headers for something that
exists; the properties about absence assume it does not.

Abstractions. A stage's selection is one step, although `enrichReactions` sends
one query per repository. Rate limiting appears as runs that stop
(`RateLimitExitError`) and items skipped; what leads to it is in `Requests`. All
workers are started with the same total, which `Fleet` looks at. Reply comments,
reaction counts and languages are data no property needs.

### Requests

Every worker is a sequential process: `Ask` is a call of a stage that goes through
`waitIfNeeded` (`HardStop` below the threshold, `Pace` otherwise), `Resume` the end of a
throttled wait, `Submit` an attempt under its abort timer. `ReceiveAnswer`,
`ReceiveError`, `ReceiveSecondary` and `Abort` are what comes of it; `Fail` retries
without a look at the limiter, as `graphqlWithRetry` does, and `UpdateFrom` reads the
headers. GitHub (external) executes or refuses a request (`ServeExecuted`,
`ServeRefused`), may lose the answer, and may execute a request later that its worker has
given up, or one of somebody else on the token (`ServeElsewhere`). A token has two
budgets, one per API; a query costs up to `MaxCost` points, a REST call one. The limiter
keeps what it heard last, of whichever API. `Tick` is time; deadlines count down. `heard`
and `unheard` are history variables: the API the limiter heard of last, and the points
each budget was charged since its worker heard of it.

### Fleet and Rollout

`Fleet`: the list of tokens is changed by `Configure` and reaches the secret and the
job's task count in two steps (`UpdateSecret`, `UpdateJob`), while `ExecuteJob` starts an
execution whose tasks read the secret when they start, or start again after they died
(`TaskStarts`, `TaskDies`). `CmdStart` and `CmdStop` are `workers.sh`, whose `awk`
counts the proxies (`PathwayCount`) that `createPinnedFetch` divides by again
(`PinnedIndex`). A list of tokens is represented by its length: only the index matters.

`Rollout`: a deploy walks through `WarmUp` (one request of the warm-up, retried by
`fetchPage`, that may migrate the schema or meet another version's banner),
`SwitchTraffic`, `UpdateImage` per job and `ExecuteSyncBots`, and may stop anywhere
(`DeployFails`) with its sync-bots going on. `InsertRows` are the three inserts of
`cmdSyncBots`, for which `TaskFails` is a failure with or without the rows applied and a
restart. `OperatorSyncs` is the same command of any commit, `JobInserts` a scheduled job
of whatever image it has, `Visit` a visitor. The registry of every release is a constant.

### Migrations

Four steps stand for the sixteen versions, one per kind of script: idempotent
creates with the first count of `comment_stats_weekly`, version 8 that counts it
again, version 15 that copies and swaps `pr_comments`, and version 16 that
truncates and refills summaries. `Legal` says when a statement is refused (a
`DROP` without `IF EXISTS`, a `RENAME`, an `INSERT` by position), `TablesAfter`,
`RowsAfter`, `SchemaAfter` and `CountsAfter` what it does. A statement that fails may
have been applied, and a fill may be applied later (`GoesOn`, `Lands`), when the lock is
long released. An instance walks through
`Request`, `Pending`, `CheckLock`, `TruncateLock`, `InsertLock` (or `Recheck`,
`FinalLook`), `RunStatement`, `Record`, `Release`, one request to ClickHouse per
action, so two instances interleave at every request. Two page requests served
by one container at a time behave like two instances that share a cache.
`CliStart`, `CliStatement`, `CliRecord` are the command: no lock, and a failed
statement is counted and passed over. `ran`, `written`, `late`, `outlived` and `misread`
are history variables; no guard reads them, except that a row is written once. A copy of
version 15 that goes on at the server is left out: it writes to a `pr_comments_new` which
every further attempt drops before it makes its own.

### Statistics and QueryCache

A summary of `uniqExact` states is the set of keys it has seen (`stored`), a summary of
`count()` states a number per PR (`counted`): inserting a key again changes only the
second. A block of an insert reaches the attached views in the same step (`Feed`,
`Count`). Versions 3, 10 to 13 and 16 are lists of statements (`Refilled`, `Recounted`);
an `INSERT ... SELECT` reads in one step (`FillReads`) and writes in another
(`FillWrites`), goes on without its client after a `Crash` (`GoneWrites`), and the
pipeline's six inserts, merges, refreshes and the operator's `Detach` and `Reattach` come
in between. Each query of the status page goes through `query()` with a cache entry of its
own, so that after a failed or with an overlapping request a page puts an older answer
beside a newer one: `AnswerArrives` reads one answer at any time and replaces what the
instance held of it, and the page (`Shown`) is whatever answers are held. Answers of any
age meet, a superset of what five and thirty minutes allow. The query for the comments has
all the numbers of its line and is checked by itself. `EnrichStatus` is the command's
arithmetic.
`comment_stats_weekly` is in `Migrations`.

`QueryCache` knows of an answer only its age: `DatabaseReads` is when the database has
read, `Answered` when the answer arrives and `setCache` stores it by the clock of then;
`Proceed` goes on to the next stage of a derived key, or caches what was computed.

### Sync

Days are numbers, day 0 is a Monday, and the months are constants (`MonthStart`,
`MonthEnd`). A row is not a count but the set of the events it counts: `activity`
holds the events in the rows of `review_activity`, keyed by week and bot, `humans`
those of `human_review_activity`, keyed by week, so that a partial row differs
from a whole one. `StoreActivity` and `StoreHumans` are the replacement by key.
`completed` is `pipeline_state` with, as history, the day the run began. A run is
started by `StartSync`, `StartBackfill` (the Monday schedule, which resumes),
`StartManualBackfill` (any day, `--all`, `--no-resume`) or `StartFetchBigQuery`; it
reads the bot list and, for a backfill, `pipeline_state` once, and then goes chunk
by chunk through `QueryBots`, `QueryHumans`, `InsertActivity` and `InsertHumans` (in
either order, but for `fetch-bigquery`) and `MarkChunkCompleted`. `Fail` ends it
anywhere. `Deploy` adds accounts to the bot list while runs may be under way.

Abstractions. BigQuery has exactly the days that are over. A change of
`PIPELINE_VERSION`, the other thing the resume filter compares, has the effect of
a change of the bot list and is not modelled apart. Bots are only ever added. The
default start lies one month back instead of three. In `MCSync` people are active
whenever a bot is: a week without any person's event would leave a stale row
behind, which does not happen on GitHub.

### Browser

`url`, `hist` and `pending` are the address, the entries behind it and the push under
way; `selected`, `range` and `hydrate` the provider's state with the transition that
brings the products of the address; `timer` the debounced search. An action of the user
(`ToggleProduct`, `NavLink`, `SetRange`, `Type`, `Back`, `Reload`, ...) runs with the effects
that React runs before the next event: `Selected` is what the effects of the provider
and of the page make of a selection, `Show` the mounting of a page, `Load` a full page
load. `Hydrate`, `TimerFires`, `Commit`, `Stream`, `Frame`, `SafetyFires` and `FadeEnds` happen on
their own, in any order. The router is external: the last push wins, `Back` and
`replaceState` discard one. `word`, `hasty` and `adrift` are history variables that say for
which users a property is claimed.

### Listings, Trends, Discovery, Health

These compute and keep no state: every query is an operator on the tables, and a run
looks at every content of small tables. `Orders` are all orders an `ORDER BY` leaves
open, `PageOf` is `LIMIT` and `OFFSET`, phase 2 of the lists (`OrgPage`) sorts again. `repos`
holds rows of a repository (`Copies`), several until they are merged: some queries join
them by name (`NamesOf`), others list or add them up. `listed` are the bots in the table
that `migrate` empties and fills again: `Joined` is what a list's `JOIN bots` lets through,
`Tallied` whose PRs it counts. In `Trends` rows of `review_activity` and of `pull_requests`
may exist in two versions, since most queries read without `FINAL`; `Sampled` is the join
of a range or the view's table of none, which may lack PRs stored before their event;
`Round` is ClickHouse's rounding to even, in tenths. `Discovery` starts
from raw events with logins that are "[bot]" or not, groups and maps them, cuts the
stream into batches, and resolves the accounts of `discover-bots` by two strategies
whose lookups may fail. `Health` computes the report and the panel from the same weeks.

## 3. Runs

| run | constants that matter | shows |
|---|---|---|
| `enrich_safety` | 1 worker, 2 repositories, 3 (PR, bot) pairs, 4 plans, any failure | `TypeOK`, `NoPartialComments`, `AbsenceIsTrue`, `CombinedScanAfterReactions` |
| `enrich_workers` | 2 workers of different plans; 1 to 3 tokens, 4 lists of proxies; 2 releases, 3 deploys or syncs | `DisjointWork`, `KeepsLedger` (the tables implement `EnrichmentLedger`), `WorkIsDivided`, `RolloutIsSound` |
| `enrich_live` | 1 worker, hourly runs, failures that end one day | `LeftoversGetDone`, `RunsEnd` |
| `enrich_interrupted` | one PR, runs that stop | violation of `ScannedIsStored` |
| `requests` | 1 worker on a token others use, 2 budgets of 3, threshold 2, queries of up to 3 points | `TypeOK`, `KnowsEnough`, `RefusalsAreUnheard`, `RequestsEnd` |
| `migrate_alone` | 1 instance, anything fails until it settles, a comment written meanwhile | `DataKept`, `NeverCountedTwice`, `Migrated` |
| `migrate_race` | 2 instances of different versions, the command, an expiring lock | `TypeOK`, `VersionIsHonest`, `OkIsEarned` |
| `migrate_together` | 2 instances, no failure | violation of `DataKept` |
| `statistics` | 2 PRs, 2 bots, 2 inserts, crashes, `detach-mv`, `reattach-mv`; a cache with 2 queries and 1 derived key | `SummariesTellAll`, `CharacteristicsComplete`, `PendingIsReal`, `AnswersAreRecent` |
| `sync_scheduled` | 1 run at a time, 3 days of runs, any failure, a deployment | `TypeOK`, `CompletedIsWhole`, `CountedOnce`, `NoDayLost`, `CountsSettle` |
| `browser` | 3 products, 6 addresses to start from, 3 things the user does | `AddressTellsSelection`, `ListFollowsFilterBar`, `InstancesStayTogether`, `BarEnds` |
| `reports` | every content of small tables, per module | `TotalsAgree`, `ListsAgree`, `NumbersAgree`, `RangesBehave`, `CountedForOne`, `AlertsAreRight`, `HealthAlarms` |

`enrich_workers`, `statistics` and `reports` combine modules that share no state: a run
picks one of them in its initial state (`topic`) and only that one moves.

The two violations are disagreements between the code and the repository's own
text, each quoted in `PROJECT.json` under `findings`:

* the reactions stage records the scan before it stores the reactions, so "safe to
  interrupt and resume" does not hold for it;
* two instances can both acquire the lock, and the copy and swap of version 15,
  unlike the statements that file's header speaks of, destroys data when run
  twice at a time.

Five more things met while modelling are not runs of their own, but each is one change
of a constant or of a property away:

* "TRUNCATE first - countState is NOT idempotent, re-run would double-count": the
  TRUNCATE does not help against a fill that an earlier run gave up and that still runs
  at the server; `counted.summary <= 1` fails in `migrate_alone`, and
  `NeverCountedTwice` says that nothing else counts twice;
* `pipeline migrate` goes on after a failed copy: `WithCli = TRUE` in `migrate_alone`
  violates `DataKept`;
* `fetch-bigquery` aligns its range with nothing: `FetchDefault = TRUE` in
  `sync_scheduled` violates `NoDayLost`, since a range that cuts a week replaces it by
  a part of it;
* a click on the filter bar that returns to the selection the address still shows is
  dropped while the push of the click before is under way:
  `Browser!ProductsFollowSelection`, which `ListFollowsFilterBar` claims only for a user
  who waits;
* a sync-bots left running by a deploy that was given up may overwrite newer rows of the
  next one until somebody runs sync-bots again: `DeployedIsWhole` is claimed for deploys
  without another sync-bots beside them.

### Bounds, and why they are enough

* Enrichment: batch sizes run from 1 to 2, or stay at 1, instead of 5 to 100: with 2 a
  batch can be shrunk, retried and given up, and with several items one can be done
  while the other fails. One PR has more threads than a page, one has none; one bot is
  no longer listed; one repository is closed while it is being worked on: the kinds of
  answer the code branches on. `Limit` is large enough for everything in
  `enrich_live`: an unlisted bot's events filling the window is outside that run.
  `RecoveryThreshold` is 1: growth after one success instead of three.
* `Requests`: budgets of 3 of which 2 are kept back, and queries of up to 3 points, so
  that one query can use up a budget and one point leave less than the threshold; two
  attempts instead of three. Other workers of the token are the strangers of
  `ServeElsewhere` here. The theorems cover all other values and any number of workers.
* `Fleet`: three tokens and paths, two tries of a task: fewer and more tasks than
  tokens, more tokens than paths. While tasks run, `MCFleet` has no session and no
  proxies: the two share only the secret, which each reads once.
* `Rollout`: three of deploys and operator's syncs, so that one given up, one that
  succeeds and one beside it occur together; a page and a retry each.
* Migrations: `LockMaxRetries` is 1 or 2 instead of 15: an attempt, a recheck and another
  attempt, or giving up. One comment, written before, during or after the copy in
  `migrate_alone`, stored before in `migrate_together`: `DataKept` is about each row
  alone. `counted` stops at 2, which stands for "more than once". One abandoned fill at a
  time still runs at the server (`MaxAdrift`). `migrate_race` gives
  one instance version 1 and the other version 3, so that each can be ahead of or behind
  the other and of the command (version 4). It has no faults: `migrate_alone` has them.
* `Statistics`: two inserts beside every fill and every crash (`OldUpkeep` while it is
  being migrated, `NewUpkeep` afterwards); two unmerged rows of a key. A summary is
  about each key alone, and a key has at most one insert lost or repeated here.
* `QueryCache`: lifetimes 1, 2 and 3 and queries of up to one tick instead of minutes
  and 30 s: what counts is which is longer.
* `Sync`: runs happen on May 15, whose window of two weeks begins in the week April and
  May share, on May 29, in the week whose Sunday is the month's last day, so that a chunk
  recorded then never grows again, and on June 1, a Monday; the active days lie on both
  sides of the month's end and on the day before the last of May. Every kind of chunk occurs: one that is
  skipped, one that has grown, one that has other bots. Runs do not overlap here, as the
  schedules see to (backfill 02:00 with at most two attempts of two hours, sync 06:00);
  overlapping runs are what the proof of `NoStoredDayLost` is for. `CompletedIsWhole`
  fails for overlapping runs: an old answer may be stored after a newer run has marked
  the chunk.
* `Browser`: three actions of the user with everything they set off in any order, and one
  entry to go back to. Three are needed for the longest known hazard: a click, a second
  one before the push of the first, and something that discards it.
* `reports`: up to seven events on five PRs in four repositories, of which two share a PR
  number and two may have a second row with other stars and another language; three bots
  of two products, all, two or none of them listed; reactions that some events are newer
  than; weeks 0 to 7 with windows of 2; a view that has seen all events or only those
  before week 4, and a PR stored twice.

### Fairness

`enrich_live` assumes that a running process makes its next step and that the
schedule starts it again (`pipeline/schedules.json`: hourly;
`pipeline/workers.sh` loops as well). It does not assume that calls succeed: a
failing call is a step of `Work`, so `RunsEnd` holds with failures for ever. In
`LeftoversGetDone` failures end (`calm`) at a time nobody knows, and whatever
state earlier runs left must then be cleaned up. `migrate_alone` assumes that pages
keep being requested (`MigrationGate` refreshes every 3 s, and visitors come) and
that time passes (`LockExpires`); no fairness is put on faults ending.

`sync_scheduled` assumes that runs go on, that time passes and that both schedules
fire again and again. The fairness of the starts is strong because in that run one
command at a time is under way; in production they do not wait for each other.
`CountsSettle` needs failures to end (`calm`), at a time nobody knows.

`requests` assumes that time passes and that a worker takes the step that is due;
nothing is assumed of GitHub, which may never answer. `browser` assumes that
timers fire, frames are drawn, transitions commit and pushes end, and nothing of the
user. `enrich_workers`, `statistics` and `reports` check safety only.

## 4. Proofs

`EnrichmentProofs`, for any number of workers, repositories and PRs, any plans,
any answers of GitHub, from the assumptions on constants stated in `AdaptiveBatch`
and `Enrichment`:

* `TypeCorrect`: `Spec => []TypeOK`. `TypeOK` is inductive as it stands because
  `ListsOK` says, per station, which lists are empty and of which kind the items
  are; one lemma per action.
* `CommentsWhole`: `Spec => []NoPartialComments`, inductive with `TypeOK`. The
  argument: every writer adds a sentinel alone, or all threads of a combo: the
  GraphQL stages only for a PR that fits a page (`ThreadsAssumption`), REST after
  its last page.
* `WorkIsDisjoint`: `Spec => []DisjointWork`, through the stronger `OwnWork`
  (every repository a worker holds is in its partition) and `PartitionIsDisjoint`
  (one remainder per hash).
* `AbsenceIsNeverMadeUp`: `Spec => []AbsenceIsTrue`. `AbsenceInv` says that every sentinel
  row is true of GitHub, that a repository that is gone had the fate to go (`Fate`), and
  that every reply a worker still has to write is true as well (`ReplyTrue`), which a
  closed repository cannot take away, because nothing comes back. The property itself
  claims nothing if `Misleading` is set.

The same module, for GitHub as it should be (`~Misleading`):

* `LedgerImplemented`: `Spec => KeepsLedger`, the refinement of `EnrichmentLedger`. Each of
  the eight kinds of writes of the stages is `Pull`, `Scan`, `Answer`, `Block` or
  `Announce` of the ledger, and every other step a stutter. A write may come long after
  the selection it rests on; what makes it legal is that what a worker read about its
  items (`HeldOpen`, `ReplyHeld`, `ReplyStands`) is changed by nobody else, by `OwnWork`.
* `ScansFollowReactions`: `Spec => CombinedScanAfterReactions`, an action property, for
  any GitHub. When the combined stage comes to the scans it has stored every reaction of
  the PRs it was told of (`ScanInv`); the reactions stage, which `enrich_interrupted`
  shows to do it the other way round, is not in the invariant.

`OperationsProofs`, requests, for any workers, tokens, budget, threshold, window and timeouts:

* `RequestsTypeCorrect`: `Spec => []TypeOK`.
* `EnoughKnown` and `RefusalsUnheard`, from one inductive invariant, `RequestsInv`: `TypeOK`
  and, per worker, that it believes no more than is left of the API it heard of last plus
  the points it has not heard of (`Believes`), that the other budget was above the
  threshold when it was last heard of (`Others`), that GitHub's window ends no later than the reset it knows (`Dated`) or
  than its throttled wait (`Waits`), or else that a whole budget is accounted for, that
  an answer under way is as good as what was heard (`Carries`), and that whoever is past
  `waitIfNeeded` is above the threshold until it hears otherwise (`Passed`).
  `KnowsEnough` alone is not inductive: `Resume` sets the belief to the minimum without
  having heard anything, which only the window's end makes true.

`OperationsProofs`, deploys, for any releases, registries, jobs, pages, retries and number of deploys:

* `RolloutSound`: `RolloutSpec => []RolloutIsSound`. An execution of sync-bots past an
  insert finds its rows there, since no row is ever deleted (`Progress`); an execution
  that has been alone since it began finds the rows of bots as its release has them
  (`Undisturbed`); a deploy has done what its step says (`Deploying`); the jobs' images
  were synced or are about to be (`ImagesListed`); and after a deploy that succeeded
  nothing is under way (`AtRest`).

`OperationsProofs`, division of work, for any tokens, proxies, retries and items:

* `DividedWithoutGaps`: `FleetSpec => []WorkIsDivided`. Whatever is reconfigured between
  tasks and retries, a task that works knows a total its index is below, and a session
  never has more workers than paths (`FleetTyped`); the rest is counting of remainders
  (`RemainderCount`). That a session's list of proxies has an entry for each that is not
  blank (`KeptEntries`) is an induction along the recursion of `ParseProxyUrls`, by the
  least index at which it would fail.

`StatisticsProofs`, summaries, for any PRs, bots, repositories, inserts and crashes:

* `SummariesAreComplete` and `ReattachingLosesNothing`, from one inductive invariant,
  `IInv`. `SummariesTellAll` speaks of recorded versions only and says nothing of a fill
  that is under way or abandoned. `IInv` adds where in its script each client is
  (`MigratorOK`, `OperatorOK`), that a view which was made stays (`ViewsStay`), that neither
  a summary nor what a fill has read holds anything that is not in the table
  (`NothingElse`), and that what a filled summary lacks is what its fill has yet to write
  (`NothingLost`, `EveryRowCounted`, `JoinsKept`). That the six scripts have each
  statement where a summary needs it is computed from their text (`Layout`).
* `PendingHolds`: `Spec => []PendingIsReal`. The tables' part, `StoreInv`: nothing is fetched
  of a PR that was not discovered, and only the last row of a repository says that it is
  closed. The status page's part, `PageInv`: what was finished when an answer was read, by
  whichever request, stays finished (`Done`), since tables and filled summaries only grow
  (`Onward`); each answer counts at least what was finished when it was read, and at most what
  is known now (`AnswersTrue`), whatever the age of the answers beside it.
  With `IInv` the counts of the summaries are those of the rows (`EveryRowCounted`).

`StatisticsProofs`, cache, for any keys, lifetimes, stages and times of queries:

* `AnswersRecent`: `CacheSpec => []AnswersAreRecent`. What is served is computed from
  entries of other keys of any age, so the invariant bounds an entry's age plus the time
  it has left, which does not change while it is kept (`EntriesAge`), and the age of
  what a request has gathered by the number of its stages (`WorkAges`).

`MigrationsProofs`, for any instances, versions, faults and lock expiry:

* `MigrationsTypeCorrect`: `Spec => []TypeOK`.
* `VersionHonest` and `OkEarned`, both from one inductive invariant, `HonestInv`.
  `VersionIsHonest` alone is not inductive: an instance records version v from a
  list it computed long before. `HonestInv` adds what each process knows: the
  instance has every version below its current one recorded and every earlier
  statement of the current one behind it (`Knows`), and the command has run every
  statement it passed without error (`CliKnows`). As `recorded` and `ran` only
  grow, nobody's steps can take that away, which is why no mutual exclusion is
  needed. The lock appears nowhere in the invariant.
* `AloneKeepsData` and `AloneCountsOnce`: `Spec => []DataKept` and
  `Spec => []NeverCountedTwice`, for one instance and without the command
  (`OneMigrator`); `migrate_together` shows that two instances lose data. When the swap
  of version 15 is next, the new table has every row that must be kept (`KeptInv`). What
  is counted and what abandoned fills may still add is bounded together (`AtMost`): a
  table about to be filled has just been truncated, so that both are none unless a fill
  ran at the server then (`outlived`), and from version 8 on no earlier statement is run
  again (`CountInv`).

`SyncProofs`, for any calendar, accounts, events, deployments and failures:

* `ChunksCover`: every week of a range lies whole within one of `monthlyChunks`.
* `SyncTypeCorrect`: `Spec => []TypeOK`.
* `NoStoredDayLost`: `Spec => NoDayLost`, for any number of overlapping runs,
  assuming that `fetch-bigquery` is given whole weeks (`RangesWhole`). The invariant,
  `RangeInv`: every range a run has or holds begins on a Monday and ends on a Sunday or
  not before the day the run began, and answers hold all such days that were over by
  then. So a row that is replaced can only lose days that came after (`WeekInside`).
* `CompletedWhole`: `Spec => []CompletedIsWhole`, assuming `RangesWhole` and
  that runs do not overlap (`OneRun`). `CompletedIsWhole` speaks of the bots listed
  now, which a deployment changes; the invariant, `VouchInv`, instead says what each
  row of `pipeline_state` vouches for (`RowsVouch`), that a run knows at least the
  bots of all rows and began no earlier (`RowsEarlier`), so that it asks again for
  whatever it replaces, and that a run about to mark has stored its chunk
  (`MarksEarned`).
* `NoneCountedTwice`: `Spec => []CountedOnce`, assuming these two and that in a week in
  which a bot is active so is a person, no later than it (`PeopleBusy`): otherwise the
  week gets no row that replaces the one that counts the bot as a person.

`BrowserProofs`, for any products, default selection, links and length of a visit:

* `TypeCorrect`, `AddressesTellSelection`, `ListsFollowFilterBar` and `PartsStayTogether`.
  The address tells the selection at rest only; the invariant, `Synchronised`, says
  what holds while a push is under way (the push tells it) and while the products of an
  address are still being read (no push stays on the page). `BarFollowed` does the same for
  the lists of `/orgs` and `/repos`, of a user who waits (`~hasty`); that it fails for
  others is said, with the reason, at `ProductsFollowSelection`.

`ReportsProofs`, for any contents of the tables, of which `DatabasesAssumption`,
`HistoriesAssumption`, `ArchivesAssumption` and `IntakesAssumption` say that there are
finitely many rows, with counts and weeks of the kind the code writes (TLC evaluates them
for the contents of the run). A total is compared with another by the rows it adds up:
a sum over rows is the sum of the sums of any groups of them (`SumGroups`), a number of
PRs that of its repositories' (`CountFibers`), and then it is to be shown that both queries
let the same rows through.

* `TotalsHold`: `db \in Databases => TotalsAgree`. A total that is computed as all events
  and, per repository, the excess of reactions, is at most the sum of what the rows show,
  and that sum once there is one row for a name (`SumsOverRows`). A path that joins `bots`
  sees some of the events of one that does not, and all of them if nobody unlisted was
  active there.
* `ListsHold`: `db \in Databases => ListsAgree`. A key that tells every two rows apart has
  one order and no other (`SomeOrder`, `OneOrder`: a row's place is the number of rows above it),
  so that pages asked for in different queries are parts of one list, and sorting a page
  again by what it shows changes none of its members (`PageOwners`). Two rows of one name
  may tie, so that for repositories by stars the rows must have been merged; until then
  their number is at least that of the names.
* `RangesHold`: `weekly \in Histories => RangesBehave`. The growth windows are
  counted back from the last complete week of all rows whatever the range; and every
  number of a narrower range is a sum, a maximum or a count over fewer rows. Only the PR
  characteristics of "all" come from another table: where it has every PR of the ranges
  once (`InView`), its rows are no fewer (`SampledGrow`).
* `NumbersHold`: `weekly \in Histories => NumbersAgree`.
* `CountsHold`: `archive \in Archives => CountedForOne`, for a stream of the
  events in any order and batches of one to three (`BatchesDoNotMatter`).
* `AlarmsAreRight`: `intake \in Intakes => HealthAlarms`: the number of weeks found
  missing is the number of Mondays less those stored.
* `AlertsHold`: `archive \in Archives => AlertsAreRight`: a login whose lookup did not fail
  is answered by the existence of its app, whichever strategy asked.

`CountingProofs` has what these need to know about data. The library's induction theorems
take an operator, which the provers cannot instantiate; induction is stated here as facts
about sets instead (`UpTo` for numbers, `SetByMembers` for finite sets), which follow from
the least element of a set of numbers (`WFMin`).

Model-checked only: the liveness properties, as liveness under fairness and `ENABLED` are
out of the prover's reach. The two properties of the runs that expect a violation fail in the
setting of their run (`DataKept` is proved for one instance, `AloneKeepsData`). Mutants are
TLC's.

## 5. Not modelled

* Monitoring, logging, Sentry spans, metrics: they change nothing others read.
* `inspect-data.ts` and `summary.ts` print rows; the sitemap, images, rendering and
  texts of the pages decide nothing.
* `compare-pairs.ts`, seed data, descriptions and colours of the bots: generated or data.
* Networks, machines, certificates and roles of `infra/`: declarations.
* The theme of the app (one value in local storage); of the migration gate only its
  refreshes, which are the page requests of `Migrations`.
* The SQL dialect itself: types, NULLs beyond the cases above, query plans, and what
  ClickHouse does when a disk fills up or a replica is lost.
* Clocks of different machines: the lock's age is by ClickHouse's clock in the code, too.
