# TLA+ verification of looki

looki looks up phone numbers: a REST API (Express, PostgreSQL, Redis), an
asynchronous job worker (BullMQ), a data loader that fills the prefix tables and
a web client. This directory holds a TLA+ model of its concurrent core, TLC
configurations that check it on small instances, and TLAPS proofs that hold for
every instance. Paths below are relative to `src/apps/api/src/` unless they
begin with `apps/`.

## 1. Inventory

| Component | State it keeps | Operations | Talks to |
|---|---|---|---|
| Bulk jobs: `routes/lookup.ts` 136-329, `jobs/queue.ts`, `jobs/worker.ts` | `jobs` row (status, processed, result_path, error_message); BullMQ job (wait/active/completed/failed, lock, stalledCounter); CSV file on the shared volume `jobsdata` | submit, processor, `failed` listener, poll, download | PostgreSQL, Redis, the disk, the customer's webhook |
| Rate limiting: `middleware/rateLimit.ts`, `redis/client.ts` | sorted set `rl:min:<key>`; counters `rl:day:…`, `rl:month:…`, `rl:ip:…`; one Redis connection with its offline queue | `GET /lookup`, `POST /lookup/bulk`, `POST /auth/login` pass through it | Redis (Lua scripts) |
| Lookup and its cache: `lookup/service.ts`, `cache.ts`, `carrierRepo.ts` | `lookup:v1:<e164>` for 24 h; tables `prefix_allocations`, `countries` | lookup | Redis, PostgreSQL |
| Cache flush: `index.ts` 54-74, `routes/admin.ts` 110-132 | none of its own | SCAN and DEL of `lookup:v1:*` | Redis |
| Data loader: `apps/data-loader/src/pipeline.ts` and its sources | `data_loads`, a temporary staging table, `prefix_allocations` | load each source: stage, swap in a transaction, record | PostgreSQL, the sources' files |
| Lookup requests: `auth/apiKey.ts`, `routes/lookup.ts` 28-131, `db/usageLog.ts` | `usage_log`; where each request's handlers are | key check, limiter, body check, lookups, usage row, answer | PostgreSQL, rate limiting, lookup |
| Sessions and keys: `routes/auth.ts`, `routes/me.ts`, `auth/*.ts`, `db/seed.ts` | `users`, `refresh_tokens`, `api_keys` | register, login, refresh, logout, create, list and revoke keys | PostgreSQL |
| Web client, tokens: `apps/web/src/api/client.ts`, `auth/` | tokens in localStorage, the shown user, the query cache | page load, sign-in and -out, request, 401, silent refresh, retry | the API |
| Web client, pages: `apps/web/src/pages/`, `features/`, `layouts/`, `App.tsx` | the mounted page and its state, the query `['apiKeys']`, calls under way, `looki_api_key` | navigate, sign in and out, list, create and revoke keys, look up | the API |
| Texts: `data-loader/src/csv.ts`, `sources/*.ts`, `jobs/worker.ts` 27-51, `routes/lookup.ts` 147-158, `auth/apiKey.ts` 8-24, the query of `carrierRepo.ts` | none (pure) | read and write CSV, ranges to prefixes, longest prefix, base32 | |
| Parser, metrics, meta, OpenAPI, server assembly, migrations | no control state | formatting, reads | |

How they interact. A request passes `requireApiKey` (one SELECT), a limiter (up
to three Lua scripts, one after the other) and its handler. `POST /lookup/jobs`
inserts a row and adds a job to the queue; any process that called
`startWorker()` may be handed it: the API process itself and the worker container
run the same processor. PostgreSQL and Redis share no transaction, and the file
is in neither. The loader writes the tables lookups read; only the flush and the
24 h expiry remove what the cache holds of older tables.

What is hard: every `await` is a point where another handler runs or the process
dies. Express 4 does not catch a rejected async handler, so one in
`POST /lookup/jobs` ends the API process (Node's default for an unhandled
rejection), and with it the jobs that process was working on. BullMQ redelivers
a job whose lock lapsed, even if its first run still works. Scripts are queued
while Redis is away, and repeated when an answer is lost. Streams write later
than the code that feeds them. The hazards of `PROJECT.json` list each of these
at its line.

What makes the components correct: a job that reads `complete` has its whole
result and stays that way; row, queue, webhooks and file tell one story; every
queued job is reported; no window admits more than its limit, counters expire,
Retry-After is honest; a cached answer is never staler than its expiry, and none
of before a reload survives the flush after it; lookups never see half a load; a
revoked token or key is of no more use; what is served is charged and counted, and
nothing else is; a 401 is retried once and logs out only when the refresh failed; a
page shows what is current and of its user; every file is read as it was written, and
a number finds the carrier of the smallest range that holds it.

## 2. Plan

In this order, the most important behaviour first:

1. `JobStatus`, `BulkJobs`, `MCBulkJobs`, `BulkJobsProofs`.
2. `RateLimit`, `MCRateLimit`, `RateLimitProofs`.
3. `PublishedTables`, `DataLoader`, `MCDataLoader`, `DataLoaderProofs`.
4. `LookupCache`, `MCLookupCache`, `LookupCacheProofs`. It takes the loader as one step
   that replaces the tables, which `WholeLoad` of `DataLoader` justifies.
5. `AuthSessions`, `WebSession`, `MCWebSession`, `WebSessionProofs`.
6. `ApiKeys`; `Requests`, which composes it with `RateLimit`; `MCRequests`, `RequestsProofs`.
7. `KeyPages`, which composes `ApiKeys` with the pages of the web client; `MCKeyPages`,
   `KeyPagesProofs`.
8. `CsvText`, `CarrierPrefixes`, `KeyText`: functions; `Texts`, what they promise, run on samples by
   `MCDataLoader`; `TextProofs`.

All of it is done. What could follow: an abstract specification for 4 (a register whose reads lag
by at most the expiry).

## 3. Bulk jobs

### The model

`BulkJobs` follows one or more jobs from the POST to the download. A *run*
`<<j, a>>` is attempt `a` at job `j`.

| Variable | Code |
|---|---|
| `sub` | where `POST /lookup/jobs` is between its INSERT and its `add` |
| `status processed path error` | the `jobs` row |
| `queue stalls lock` | BullMQ's state, `stalledCounter` and lock of the job |
| `pc host i` | the `await` a run is at, its process, the numbers looked up |
| `strm pos` | the run's write stream and how many lines of it are on disk |
| `made file` | the CSV file: does it exist, which lines hold rows |
| `listener notifier` | the `failed` listener's UPDATE and its process |
| `hooks get` | webhooks sent, a download between its SELECT and the read of the file |

One action is one step between two awaits: `Start` is the UPDATE to
`processing`, after which the stream is created; `Lookups`, `Count`, `Progress`
are the loop; `Ended` is the `end` callback; `Finish` the UPDATE to `complete`;
`Resolve` the webhook and the return. `Rejects` is any of those awaits failing, and
`AnswerLost` an UPDATE that was committed and rejects all the same, because its
connection broke before the reply: the row then says `processing` or `complete`, and
the run throws.
The stream works on its own: `StreamOpen` truncates, `StreamWrite` puts
everything handed over so far on disk, `StreamError` is a disk that refuses. An
`error` event before `stream.end` has no listener and ends the process. After it,
Node (15 and later; the image has 20) first calls `end`'s callback with the error, and
the code gave `resolve` as that callback: the promise is fulfilled, the `reject` of the
listener comes too late, and the run goes on to `complete` over what the disk took.
`strm` is `failed` then, and `DiskRefused` reads it.

BullMQ is external. It is modelled from how `queue.ts` and `worker.ts` configure
it: `attempts: 1` (a throw is final), concurrency 2, and its defaults for what
they leave alone (one stalled redelivery, `MaxStalled`). A lock goes when its
holder died (`LockTimeout`) or was late to renew it (`LockLapse`).

Abstracted: the content of a row (a line is its number; line 0 the header), the
lookups themselves (`worker.ts` passes no Redis, and `lookup` answers database
errors as values, so this await does not reject), the clock, other customers'
requests. `removeOnComplete` and `removeOnFail` only forget finished jobs. One
download per job stands for all, for they do not interact.

`JobStatus` is what a polling customer may rely on: as long as a job was handed out
once, its status moves queued, processing, complete or failed; failed is final, and
complete may still become failed (the UPDATE was committed, its answer lost) but nothing
else. `ClientView` says that `BulkJobs` implements it, with the count of
deliveries derived from the queue (`Tries`).

### The runs

* `jobs_safety` (896,000 states): one job of three numbers in two batches (so a full
  and a short batch), two processes, one redelivery; the disk refuses the end of the first
  run only (`Bounds`), and anything before an end of either. Jobs share nothing but
  the workers' slots and the processes they die with, and two runs of one job already
  meet in both; two attempts are what BullMQ's default allows.
  - `CompleteIsWhole`, `SentIsWhole`, `OneVerdict`, `StoresAgree` speak of jobs
    delivered once (`DeliveredOnce`), and of its file as long as the disk took it: a
    `complete` row counts every number; what was announced as `complete` stays it, and an
    error message goes with the announcement of a failure alone;
  - `CompleteHasFile` and `ClientView` of all;
  - `JobFinishes`, under the fairness of `FairSpec`: a job that is queued is reported in
    the end, or the report of its failure was lost.
* `jobs_available`, a violation: a job can read `complete` while its file is not whole.
  TLC's trace is the disk that refuses while the stream ends, whose error `stream.end(resolve)`
  takes for the end. A redelivery does it too: `LockLapse`, `Requeue` and `Take` start a
  second run while the first is before its last UPDATE; the second opens, and so truncates,
  the file, and the first reports.

Fairness: an await is answered one way or the other, the event loop turns, streams
drain, BullMQ's workers take waiting jobs and check for stalled ones. All
of it is weak fairness of steps that stay enabled. Nothing is assumed of
clients, crashes, lapses and disk errors. `CHECK_DEADLOCK FALSE`: the system
stops when all jobs are done.

### The proofs

All for any set of jobs and processes, any job length, batch size, concurrency and
number of redeliveries, from the five assumptions of `BulkJobs` (positive
numbers, the API process is a worker).

`CompleteIsWhole` is not inductive: that the file is whole when `Finish` runs
depends on what the stream did since `Start`. `IInv` adds

* `Submitted`: how far the POST is, against the row and the queue;
* `HandedOut`: attempts beyond the current one have not begun, so a job delivered
  once has exactly one run (`FirstRun`);
* `Once`: of that run: the file holds exactly the lines below `pos`; from
  `finish` on the stream is `Through`, closed at `Total + 1` or refused; each `pc` allows
  certain statuses, `throw` all a committed UPDATE may have left; the listener acts only
  when the run is over, and never after `complete` was announced.

`InitIInv`, `TypeStep`, `SubmittedStep`, `HandedOutStep`, `OnceStep` prove it
inductive, one case per action; `Inductive` is the result, and `WholeResult`,
`WholeDownload`, `OneStory`, `Agreement` follow. `ResultFound` needs its own small
invariant, `FileKnown`, and that a refusal is not forgotten (`RefusedStays`). In the last part of the proofs, `LockDiscipline` (only an active
job is locked) and `Inductive` give the refinement `Implements`: every step of
`BulkJobs` is a step of `JobStatus` or changes nothing a poller sees.

Only model-checked: `JobFinishes` (liveness).

## 4. Rate limiting

### The model

`RateLimit` has single and bulk lookups of one API key and logins from one
address; other keys and addresses count elsewhere. A request asks its windows
one by one (`Arrive`, `Proceed`): the sliding minute, the day, the month; or the
address's hour. `Send` computes the instant or the calendar key; `Eval` is the
script in Redis together with its answer. The connection is first in, first out.
When it breaks, Redis has run some of the scripts without an answer (`EvalAnswerLost`,
counted by `ran`), and after `Reconnect` ioredis sends all of them again in the order they
had (`maxRetriesPerRequest: null`): s1, s2, then s1, s2 once more. `EvalError` is Redis
answering with an error, which the limiter's `catch` lets pass; `RedisDown` (where `Outage`
allows it) is for good.

So a script may run after younger ones. Those trimmed the set by their own instants, up to
`Delay` further than its own would, and it then sees less than the minute before it: it
may be admitted where a minute of its own is full. The code's bound is therefore a minute less
`Delay` where a script of an admitted request ran twice (`again`, `Late`), and a Retry-After computed from an
entry younger than the script may be up to `Delay` longer than the window. Both exceptions are
needed: without them TLC finds MinuteBound and RetryHonest violated on the instance below.

Redis's own clock expires the keys: the set by `PEXPIRE` (`Slack` beyond the
window), the counters by `EXPIRE` (`TTL`). Scripts bear their sender's instant.
Where the two drift apart further than the code allows for, the minute's bound is
false; `Delay`, the longest a reachable Redis lets a script wait, is therefore
assumed not to exceed `Slack` (5 s in the code), and `Period + Delay` not to
exceed `TTL` (5 s, one hour, at least two days). An outage that lasts longer and
then ends is listed as a hazard, not modelled.

Abstracted: headers and bodies of the answers; the members' names (a ulid, or a
random prefix and a number, taken to be unique); `remaining`.

### The runs

* `rate_limit` (361,000 states): two lookups, two bulk requests of two and a login against
  2 a minute, 2 a day, 3 a month, 1 an hour, over two days of a month. The connection breaks once,
  with up to three scripts unanswered, of which any number had run; Redis answers with errors, and
  may go away. The window is two ticks, a second two ticks, so that Retry-After rounds; a key's slack
  and a script's delay are one tick, and the clock runs far enough for the set and the counters of
  a day to expire. `MinuteBound` and `FixedBound` bound what was *admitted*, whatever was counted.
  `NoImmortalCounter`: a counter without expiry would refuse for ever. `RetryHonest`: whoever
  waits as told is admitted if nobody came between. Two requests go through all their windows; of
  three only the minute is followed, which is where an older script meets younger ones. Nor does the
  run follow what comes after an outage, after a bypass beside another request, or a broken connection
  beside a login (`Bounds` of `MCRateLimit`); the proofs do all of it.
* `rate_bulk`, a violation: a bulk request larger than the minute's limit is
  refused on an idle key, although the API's text offers up to 1,000.
* `rate_outage`, a violation: ioredis holds commands while Redis is away
  (`maxRetriesPerRequest: null`), so the request waits instead of passing. The fairness
  assumed is that answers arrive while Redis is up and that continuations run.

`MaxNow`, `MaxDrops` bound the clock and the broken connections. Requests of one kind and cost
are symmetric. `CHECK_DEADLOCK FALSE`: the clock stops at its bound.

### The proofs

`RateLimitProofs`, for any requests, costs, limits, windows and periods, any bound on the clock and
on lost answers, with or without an outage; from the assumptions of `RateLimit` alone.
`IInv`, checked by TLC first, adds to `TypeOK`

* `Queue`: a script waits once, and those of the minute wait in the order of their instants,
  because there is one connection; those that ran and are not answered are in `again`;
* `Staged`, `OnTime`: which window a request asks, and that a script which waits is not later than
  `Delay` allows;
* `Charged`: a counter outlives the scripts that may charge it (`TTL` against
  `Period + Delay`), and holds at least the numbers its window admitted. `FixedBound` and
  `NoImmortalCounter` are read off it;
* `Ordered`: what the minute's scripts did so far is no later than any still to run for the first
  time, and the set outlives its entries (`Slack` against `Delay`);
* `Kept`: a request the minute admitted is in the set with all its numbers, or a window older than
  every instant still to come, a window less `Delay` where a script comes again (`Gone`).
  Without it trimming could forget somebody who still counts for a script that was sent before;
* `Bounded`: `MinuteBound` for every window (`InSpan`), and the set never holds more than the limit.

There is one lemma per part and, in it, a case per action; `MinuteRuns` and `FixedRuns` say once
what the scripts do, and `RunsInOrder` how far apart the instants of what ran and of what runs can be. The results are `TypeCorrect`, `Minute`, `Calendar`, `CountersExpire` and
`Honest` (`RetryHonest`, for a limit above 0: with a limit of 0 the set is always empty and
Retry-After says 60, however long the window).

Only model-checked: the two properties that are violated.

## 5. Data loader

### The model

A *load* `<<l, s>>` is loader `l` (one run of the container) at source `s`; it stands for
the content of the rows it read. Loaders take their sources in order, as `main` does.

| Variable | Code |
|---|---|
| `pc src` | the `await` of `loadSource` a loader is at, and the source |
| `rows left staging` | what `source.load()` returned, what is not staged yet, the temporary table |
| `victims gone` | the rows its DELETE saw, and those it deleted in the open transaction |
| `table` | `prefix_allocations` as committed; a row knows who inserted and who last wrote it |
| `loads` | status of the `data_loads` row |
| `history met` | for the properties: the loads in the order they committed, those that overlapped |

`Load` is `source.load()` with the two checks after it (too few rows, none at all);
`Truncate`, `Stage` fill the temporary table, a batch at a time; `Delete`, `Deleted`,
`Insert`, `Commit` are the swap; `RecordSuccess`, `Reject`, `Empty`, `Fail` the UPDATE of
`data_loads` and the step to the next source. `QueryFails` is any statement that rejects, `Rollback` what
the `catch` does. The process may die anywhere (`Die`). A connection that breaks while it
is on loan is the same: nothing listens for that client's `error` event.

PostgreSQL is external, at READ COMMITTED, its default. The DELETE has its snapshot when
it begins (`Delete`) and waits for transactions that touched the same rows (`Deleted`);
it does not see rows such a transaction inserts. That is why it is two steps. The INSERT waits
for conflicting keys; two that wait for each other end in an error for one
(`QueryFails`). An INSERT is one step although it is many rows: nobody sees
it before the commit.

Abstracted: the sources' files and their parsing (a source yields any subset of its
prefixes, each once, or fails), carriers and countries (the prefix stands for
the row's columns), counts and log lines.

`PublishedTables` is what lookups and the operator may rely on: the rows of a source are replaced in
one step by those of a load, each load does so once and only if its file has rows, and `success` is
said of it only afterwards; a load that ran into another of its source may leave rows its file does
not list. `ReaderView` says that `DataLoader` implements it: `content` is the table without who
inserted a row, `published` the loads in the history, `beside` is `met`.

### The run

`loader` (887,000 states): two loaders over a source of two prefixes with a minimum and a
source of one without, batches of one row, so that staging takes several steps and a load
may leave rows of its predecessor behind. Three loaders on one source were tried as well.

* `WholeLoad`: what is live of a source is exactly the last committed load. It excepts a
  load that swapped beside another of the same source: there the second DELETE misses the
  rows the first inserted, and the union of both files stays (without the exception
  TLC finds this in two overlapping loaders). The loader is run by hand, and
  nothing keeps two apart; `PROJECT.json` lists it as a hazard.
* `LastWins` has no exception: ON CONFLICT DO UPDATE keeps every row of the load that
  committed last.
* `SuccessCommitted`: `success` in `data_loads` implies a committed swap. The converse is
  false: a load that committed reads `failed` if the UPDATE after it rejects, and
  `started` if the process dies there.
* `ReaderView`: every step is one of `PublishedTables` or shows nothing to a reader.

All are safety properties; no fairness is assumed. `CHECK_DEADLOCK FALSE`: loaders end.

Beside the loader the run evaluates the functions on texts: `sample` is the loader or one
input of a function, an initial state in which nothing else happens. `Texts` says what they promise
of any input (`AnySample`); the run takes some 14,800 short ones, of every kind.

* `RowsReadBack`: a row of a result file, of fields with blanks, quotes, commas and line ends, read
  by the reader of the loader (`CsvText`); and a file of such rows, with or without a mark, with
  any line ends and blank lines. Its exception is a field with a line end in a file: it is written
  quoted, as RFC 4180 has it, but `parseCSV` splits lines before it looks at quotes.
* `UploadReadsNumbers`: a file of numbers, with any of the ways to write its lines.
* `PrefixFindsCarrier` (`CarrierPrefixes`): the longest prefix against the smallest published range
  that holds the number, the reference; and against the last row of a pair of codes. It is about
  ranges of all numbers with the same first digits. For a range like 1230-1245 the common prefix 12
  also claims the neighbours, which `PROJECT.json` lists as a hazard.
* `KeyIsItsBytes` (`KeyText`): the letters of a key are its random bits. The widths are
  parameters: bytes of 3 bits, letters of 2 and a word of 4 stand for 8, 5 and 32, and keep what
  matters, that neither divides the other and that bits are pushed out of the word.

### The proofs

`DataLoaderProofs`, for any set of loaders, any number of sources and prefixes, any
minimum and batch size, from the four assumptions of `DataLoader`. None of the three
properties is inductive. `IInv` adds

* `Staged`: staged plus left over is what was read, so that at the swap staging is whole;
* `Seen`: a transaction that met no other has seen, and then deleted, all live rows of its
  source, although other sources commit meanwhile;
* `Met`: two open transactions of one source know of each other, so that a commit
  does not falsify `Seen` of a third;
* `Histories`, `Recorded`: when a load enters the history, and what `data_loads` says then;
* `Ahead`: sources a loader did not come to are untouched, and the load it is at has no outcome yet
  and is published by its commit only. The refinement needs it: a load is begun, read and
  published once.

`Inductive` is the result; `TypeCorrect`, `Whole`, `LatestLive`, `SuccessTrue` follow from it, and
`Publishes` (`ReaderView`), with a case per action: the DELETE that finds a transaction of its
source open is `Meet`, the commit `Publish` (`ViewCommit`), an UPDATE of `data_loads` `Begin` or `End`.

`TextProofs` proves the four properties of texts for inputs of any length: `RowsAreReadBack`,
`UploadsAreRead`, `CarrierIsFound`, `KeyIsBytes`. Assumed are `CharsAssumption` (the characters with a
meaning are characters) and `WidthAssumption` (a word holds a byte beside what a letter may leave
over; 8 + 4 bits of 32 in the code). Each scan is a recursive function of how far it has come, so
the argument is an invariant of a loop, proved by `Induction`, which is about a set of numbers and
follows from the well-foundedness of `<`; `Recursion` and `RecursionNat` say once that such functions
exist.

* Keys: `Holds`: the complete letters and the low `bits` bits of the word are the bits of the bytes
  read, although the word's high bits are lost (`CompleteHolds`, `ReadHolds`, `RestHolds`).
* Carriers: the prefix of a whole range is what its numbers share (`BlockPrefix`), a number is in
  the range exactly if it begins with it, and of two such ranges the one with the longer prefix lies in
  the other (`SmallerBlock`).
* Rows and files: `Stands` places a piece of text in a line; the scan of a field, quoted or not, ends
  behind the field with what it held (`RowRead`), the split into lines behind a line end with
  that line (`LinesRead`), and a file is its lines and gaps (`FileRead`, `UploadRead`).

## 6. Lookup cache

### The model

The tables are a version, `data`, and an answer is the version it was read from; `Commit`
is a loader's commit. A lookup is one call of `lookup()`: `Begin` (a valid number), `Hit`
or `Miss` (also a GET that rejects), `Query` or `QueryFails`, then `Set` or `SetFails`.
Between `Query` and `Set` the caller already has its answer, for nobody awaits the SET: old
data may be on its way to Redis while the loader commits or a flush runs.

The flushes of the cron job and of `POST /admin/reload` are the same loop: `Scan` and `Del`
of a page until the cursor is 0. SCAN is modelled by the one thing Redis guarantees: a key there from
beginning to end is returned at least once (`unseen`); of others anything may come.
`FlushFails` is either command rejecting.

`Delay` bounds the way from the tables to Redis; in the code nothing but the
connection does, and an outage holds a SET in ioredis's queue for as long as it lasts (listed as a
hazard). Commands of several API processes meet in Redis, so no order is assumed. The
bulk worker passes no Redis to `lookup()` and so is absent. Abstracted: the answer's
fields, of which `cached` and `lookup_id` are overwritten on a hit.

### The runs

* `cache` (2.9 million states): two lookups, two numbers (so that SCAN has pages), both
  flushes at once, one load, an expiry of two ticks and a delay of one, a clock of four: an
  entry can be set late, expire and be set again.
  - `BoundedStaleness`: no entry holds data replaced longer ago than `TTL + Delay`, however
    often it is hit.
  - `FlushForgets`: a flush that ran to its end leaves nothing older than the
    tables it began with. It excepts a lookup that held older data when the flush
    began: its SET may come after the DEL, and the old answer then lives its 24 hours.
* `cache_reload`, a violation (`NoStaleHits`): `docs/architecture.md` says that the reload flushes
  before new data is written and so prevents stale hits. It flushes at once, and a lookup
  before the loader's commit fills the cache again with the old data.

Safety only, no fairness. `CHECK_DEADLOCK FALSE`: the clock stops at its bound.

### The proofs

`LookupCacheProofs`, for any lookups, numbers and flushes, any expiry, delay and
bounds. `Staleness` needs what is on its way: `Pending` (a lookup about to store read
the tables at most `Delay` ago, and before they were replaced) and `Entries` (an entry of
replaced data expires by the bound). `Flushed` needs `Sweeping`: while a quiet flush of
the present tables runs, every older entry is still to be returned or in the page about to
be deleted, and no lookup adds one. `Inductive` proves `IInv`, their conjunction with
`TypeOK`, which is also `TypeCorrect`.

## 7. Sessions and the web client

### The model

`AuthSessions` is the API's side: accounts, refresh tokens and the routes that ask for an
access token. `WebSession` is the browser's, and composes the two: every call a tab makes is handled
step by step by `ServerStep`.

| Variable | Code |
|---|---|
| `users rows` | the tables `users` and `refresh_tokens` (whose a row is; neither revoked nor expired) |
| `epoch` | how often the access tokens of a session have expired |
| `http` | each caller's call: its route, what it bears, the step the handler is at, the answer |
| `access refresh` | the two keys of localStorage, shared by all tabs |
| `shown` | `user` of a tab's `AuthProvider` |
| `data` | whose data a tab's query cache holds; the stored API key goes with it |
| `leaving` | has the client set `window.location.href` in a tab whose page is still there |
| `pc asks again sends kept` | a *fiber*, an async function under way in a tab: what it awaits, its route, `_retry`, how often it was sent, whether a query still waits for it |
| `asked mixed behind` | for the properties |

`RegisterSelect`, `RegisterInsert`, `CreateTokenPair` are the awaits of registration, between
which another registration of the address may run. `Refresh` is one SELECT; what it found is
signed whatever happens meanwhile. `Fails` is a rejected await and answers as that route's `catch` does.
`Lost` is a call that does not arrive or whose answer does not. In the browser, `LogIn` to
`LoggedOut` are `AuthProvider` with its adapter `prodAuth`; `Request` to `RefreshFails` are
the interceptors of `api/client.ts`; `Reload` and `Loaded` the GET /me of a page load.
A refresh that fails removes the tokens and only starts a navigation (`Redirect`): until
`Unload` the page, its other fibers and their answers go on.
`Request` stands for the queries of the protected pages (`me`) and for the bulk tab's POST
(`jobs`), which carries an access token where `requireApiKey` wants a key, and so is refused
each time: the client refreshes, sends it again and gives up. (With `SKIP_AUTH` it would pass;
it is then a query like the others.)

Abstracted: passwords are right or wrong, signatures valid; answers other than 200 and 401
are one code; the access tokens of a session expire together, and some do before its refresh
token does (15 minutes and 7 days by default); roles; the calls of a page that is left end
there; react-query's retry is a request of its own. API keys are in `ApiKeys`. Not modelled:
React's double effects in development.

### The runs

* `web` (2.3 million states): one tab that does two things at once, two users, two sessions,
  of which one has its access tokens expire, once. Two fibers are what every race here needs (a refresh
  beside a sign-in, a query beside a sign-out, two 401s, two registrations); the page load
  is a third.
  - `OneSession`: the two stored tokens are of one session or both gone. It excepts what
    happens when the session changes under a refresh (`mixed`): its answer is stored
    whoever is signed in by then, and the next requests are the former user's. A second refresh
    of the same page that fails is such a change: the first one's access token then stays without
    a refresh token.
  - `Coherent`: a tab that shows somebody holds that user's data and tokens. It excepts a
    tab whose session changed without it (`behind`): another tab signed in or out, its
    own page load or a query was under way when it signed in, or a failed refresh ended a mixed
    session of which the page still holds data.
  - `SentTwice`, `OneAccount`, `RevokedIsUseless` have no exception.
* `web_reload`, a violation (`SilentRefresh`): a page load asks GET /me outside the
  interceptors, so an expired access token sends a user with a live refresh token to /login.

More than one tab exceeds what TLC can finish here; all properties of `web` are proved below
for any number of tabs and fibers.

Safety only, no fairness. `CHECK_DEADLOCK FALSE`: sessions and expiries are bounded
(`MaxRows`, `MaxEpoch`).

### The proofs

`WebSessionProofs`, for any tabs, fibers, users and bounds; assumed are only
`FibersAssumption` (fibers and tabs are the callers, and disjoint), `BoundsAssumption` and
`NoneAssumption`. TLC checked `IInv` on the instance of `web` before it was proved.

`OneSession` and `Coherent` are not inductive: a step that stores or shows an answer is
right only because of what was known of the call since it was sent. `IInv` adds

* `Handled`: what the server knows of a call at each step of its handler. A refresh that
  was granted is of the session it was sent with, a sign-in's pair is of the user who
  asked, a dead refresh token stays dead;
* `Waiting`: which call a fiber or a page load waits for, and that `sends` is fixed by `pc`
  and `_retry`; `SentTwice` is read off it;
* `Fresh`: while `~ mixed`, a refresh under way bears the stored refresh token, so what
  `Refreshed` stores belongs to it;
* `Blanks`: a tab that is loading, shows nobody or is signing in has no data and waits for
  none, unless it is `behind` or a query was started meanwhile (`asked`). It is what makes
  a new user start clean;
* `Expected`: what a tab that is not behind waits for, its page load or a query that was
  not cleared, is of the stored session's user.

`ServerStepServes`, `LoadPageIs`, `OverIs` and `SendIs` say once what a kind of step does
to calls (a redirect is `Over`: nothing of the page but its fiber changes); `TypeStep`, `WaitingStep`, `FreshStep`, `OneSessionStep`, `BlanksStep` and
`RightStep` have one step per action. The results are `TypeCorrect`, `StoredPair`
(`OneSession`), `OneUser` (`Coherent`), `RetriedOnce` (`SentTwice`), `Revocation`
(`RevokedIsUseless`) and `Registration` (`OneAccount`, from its own invariant: only the
guarded INSERT touches `users`).

## 8. Lookup requests

### The model

`Requests` composes `RateLimit` and `ApiKeys`: `GET /lookup` and `POST /lookup/bulk` from the header
to the answer. All requests bear one key, for other keys use other counters.

| Variable | Code |
|---|---|
| `keys` | the table `api_keys` (whose a key is, `revoked_at IS NULL`) |
| `phase` | the handler a request is at: `new`, `check` (the SELECT of `requireApiKey`), `found`, `limiter`, `lookup`, `done` |
| `code` | the status of its answer |
| `row` | its row of `usage_log`: sent, written or lost, and the status it records |
| `late` | for the properties: requests that came after the revocation was answered |

`Present` and `CheckKey` are `requireApiKey` before and after its query; `Enter` is `next()` and
`RateLimit`'s `Arrive`; `Limited` the limiter's 429 or `next()` and the check of the body, so that a
body which is no list has been charged as one number. `LookedUp` is a single lookup, whose database error is
503; `AllLookedUp` a list, whose failed lookups are entries of a 200. Both send the row of
`usage_log` and do not wait for it (`WriteUsageLog`). `Around` is the limiter on its way, the clock
and Redis; `Revoke` the owner's `DELETE /me/keys/:key_id`.

Abstracted: `last_used_at`, which only the list shows; the handlers of an unreadable number, which
is a valid answer; the lookups themselves, which `LookupCache` has.

### The run

`requests` (1.4 million states): a lookup and a list of two against 3 a minute, 2 a day, 3 a month;
a broken connection, errors and an outage of Redis, and the revocation anywhere. The clock turns a day
but does not run until keys expire: that is the matter of `rate_limit`.

* `RevokedKeyUseless`: what comes with a revoked key is not served, charged or counted. What had
  passed its SELECT goes on, by design.
* `UsageIsWhatWasServed`: usage and answers tell one story, on all seven ways out. A 503 is two of
  them: a lookup that failed has its row, a key that could not be looked for has none; what tells
  them apart is whether the request reached the limiter.
* `ServedIsCharged`: what was served is in the counters of its day and month, each number of a list
  once, unless Redis failed on the request. The converse is false: a request the day refuses was
  charged to the minute, an unreadable body to all three.

Safety only. `CHECK_DEADLOCK FALSE`: requests end.

### The proofs

`RequestsProofs`, for any lookups and lists, limits and clocks; assumed beside the assumptions of
`RateLimit` are one key and no logins. `LimiterWithin` is the composition: every step is one of
`RateLimit` or leaves its state alone, so that `IInv` of section 4 holds here. `RInv` adds
`OnTheWay`: before the limiter nothing is charged, before the answer no row is sent, who passed was at
the last window, and a late request never gets past the query. `RequestsInductive` proves it,
and `RequestsTypeCorrect`, `RevokedUseless`, `UsageTrue`, `ChargedForService` follow; the last takes
`Charged` of the limiter.

## 9. The pages of the web client

### The model

`KeyPages` is one tab: the router, the two forms, the dashboard and the keys page with the list they
share, the modal that creates a key, the lookup page. Of the tokens, which `WebSession` has, it keeps
whose access token is stored: that is the one a call carries, whoever is shown. It composes `ApiKeys`.

| Variable | Code |
|---|---|
| `user starting` | `user` of `AuthProvider`; `isLoading`, and whose token its GET `/me` carries |
| `signing` | a sign-in under way, and whether its form is still mounted |
| `token apiKey` | whose `looki_access_token` is in localStorage; whether a `looki_api_key` is |
| `page view` | the mounted page and its React state |
| `query` | the query `['apiKeys']`: its data, `isInvalidated`, and the fetch under way with the user whose token it carries |
| `calls` | creations and revocations under way, whose token they carry, and whether their modal waits |
| `lookups` | lookups whose answers the page will show |
| `made unmade crossed strayed behind` | for the properties |

A page load (`Load`) is by the reader, at any page and any time, or the client's own redirect to
`/login`, which comes some time after the tokens are gone (`SessionLost` only removes them: what is
under way goes on until the page is left). With a token stored `AuthProvider` awaits GET `/me`; until
`Loaded` a spinner stands for every page but the two forms, and a reader of a form may have signed in
before the answer sets the user over his. `Elsewhere` changes what is stored beside the page: another
tab, or a refresh that is answered after the session changed. A call refused goes out again with the
token stored by then (`ListResent`, `Resent`).

Leaving a page (`Goto`) unmounts it: its state is gone, its calls go on and their continuations find
nobody. react-query is external and modelled from how the hooks use it: `Observed` (a mount fetches
what is missing or invalidated), `Refetch`, `Invalidate` (cancels and restarts a fetch that is
watched and has data already, joins the first one, and only marks what nobody watches), `Forget`
(`gcTime`). `onSuccess` of a creation returns the invalidation's promise, so the plaintext waits for
the list (`waiting`, `ShowKey`).

The bulk tab's POST carries an access token where the route wants a key and so is refused each time
(`JobRefused`); its polling is never reached.

### The run

`pages` (649,000 states): two users, two keys, two calls at once, two numbers. `Bounds` of `MCKeyPages`
follows no further than the first step a lookup, a kept key or the second form beside a call or a
fetch, with which they share nothing; what happens out of step beside a call or with two keys; and a
second call beside a sign-in or when a call or the stored token is not of the user shown.

* `ListCurrent`: a list believed current is, unless a change was acknowledged while the answer that
  does not know of it was on its way (`crossed`); this happens when the first load was joined or
  nobody watched, and lasts five minutes.
* `KeyIsShown`: the plaintext, told once, is lost only with its page or the answer itself.
* `OneUser`: list and plaintext are of the user shown, as long as the page is in step (`InStep`). It
  is not when the form was left while it signed in (`strayed`: the answer sets the user over the
  former one's list), when a page load was overtaken by another user's sign-in, or when the stored
  token became another user's beside the page (`behind`, the same as in `WebSession`, of which
  `mixed` is a cause). TLC finds each of the two kinds of exception needed. `ListCurrent` shares them.
* `ResultOfLatest`: the card belongs to what was submitted last.

Safety only. `CHECK_DEADLOCK FALSE`.

### The proofs

`KeyPagesProofs`, for any users, keys, numbers and calls at once, and without `Bounds`; assumed is only
that `None` is none of them. `IInv`, checked by TLC first, adds to `TypeOK`

* `Underway`: a creation has its key once it was served, a revocation that was served has ended its
  key, and one call at most is the modal's, which then shows no key and takes no other form. It is
  what makes `ShowKey` show the key that was waited for;
* `Shown`: what a page shows belongs to it, as lookups under way to the number asked last;
* `Told`: the keys acknowledged are the user's, or dead, and lists are of rows;
* `Begun`: until somebody is shown there is no list, and before the page is loaded no modal and no call;
* `Tokens`: unless the page is behind, the stored token is the user's or gone;
* `Owned`, `Modal`: while a form that was not left signs in there is no list, and in step all that is
  shown or on its way is the user's. It rests on `Tokens`: what is sent carries what is stored;
* `Lists`: in step, an answer that was read knows every change acknowledged, or is marked `crossed`;
  data that is not old knows them too. It needs `Owned`: the answer is of the keys of the one who asked.

There is one lemma per part. `Inductive` is the result; `TypeCorrect`, `ListIsCurrent`,
`ListIsTheUsers`, `CardIsOfLatest` follow, and `KeyReachesScreen` from `KeyStep`, which looks at every
action that could lose a key.

## 10. Not modelled

* Number parsing: a wrapper of libphonenumber-js without state. Metrics, meta, OpenAPI, the usage and
  admin queries, migrations and the assembly of the server: reads, formatting and composition. The
  landing page, the docs, the usage chart and the admin page only show what they fetch.
* An outage longer than the slack of `PEXPIRE` which then ends (`middleware/rateLimit.ts` 25): the set
  has expired by Redis's clock while scripts stamped before still wait. `DelayAssumption` excludes it.
* What a cached answer says beside carrier and country: it carries the `input` of the request that
  filled it (`lookup/service.ts` 65), although another spelling asked.
* The size of bodies: `express.json()` without a limit (`server.ts` 42) refuses beyond 100 kB, far below the
  numbers `POST /lookup/jobs` accepts.
* Dates of the dashboard: "Lookups Today" looks for the browser's day (`DashboardPage.tsx` 18) in rows
  grouped by the database's (`routes/me.ts` 149).
* The age of `usage_log`: `docs/architecture.md` speaks of partitions and pruning, no code does either.
* Ranges of Ofcom that are not whole, see section 5; line types, dates and column aliases of
  the sources, which are tables; their downloads.
* Password hashing (external) and the seed.

Liveness is checked for bulk jobs and for the limiter's fail-open only. It is not proved: temporal
fairness is out of the prover's reach. `JobFinishes` is the one property of a passing run without a
theorem.
