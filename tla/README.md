# Verification of WallpaperDB

TLA+ models of the services in this repository, checked with TLC on small
instances and proved with TLAPS for all of them. Every definition is translated
from the TypeScript source; `PROJECT.json` names the lines.

## The system

WallpaperDB stores wallpapers for its users. A browser uploads a file to the
**ingestor**, which records it in Postgres, stores it in MinIO and publishes
`wallpaper.uploaded` on a NATS JetStream stream. The **variant generator**
renders smaller versions and publishes `wallpaper.variant.uploaded`; the **color
extractor** publishes `wallpaper.colors.extracted`; the **media** service keeps
its own table of originals and variants, serves the images and publishes
`wallpaper.variant.available`; the **gateway** keeps an OpenSearch index of all
of it behind a GraphQL API. The services share no database: all they have in
common is the stream, delivered at least once, and the bucket.

| component | state | operations | hard part | what makes it correct |
|---|---|---|---|---|
| upload handler (`ingestor/services/upload`, `state-machine`) | the request's control point, the row it inserted, the file it PUT | check duplicate, record intent, transition, PUT, publish, mark failed | every `await` lets reconcilers and other uploads in; `transitionTo` reads, then writes by id; each remote call may fail, or succeed and lose its answer | an accepted upload is never given up; one accepted upload per user and content; every event is about a kept and complete row |
| reconcilers (`ingestor/services/reconciliation`) | one open transaction and the row it locks, consecutive errors | stuck uploads, missing events, orphaned intents | several instances, still-running handlers, rows that always fail | two never work on one row; while no row stays that can never be recovered or published, every row leaves `uploading` and every accepted upload is announced |
| bucket cleanup (same directory) | an old listing, the object being looked at | list, look up, delete | listing and lookup are stale when the deletion runs | no file of a row in flight is deleted; an orphan on the first page of the listing is |
| service process (`index.ts`, `app.ts`, `packages/core`: timer, connections) | connections, consumers, intervals, `isReconciling`, where each signal's shutdown is | connect, start, tick, stop, `stopAndWait`, close | a signal at any `await` of start-up or of another shutdown; work in progress while connections close | nothing works on a closed connection; a signal ends the process |
| event consumers (`packages/events`) | durable consumer, delivery counts, running loop | start, stop, process, ack, nak, term | redelivery, poison messages, ack deadline, crash before the ack | a message is handled until it succeeds or is given up after the last retry |
| media (`apps/media`): consumers | wallpapers and variants tables | consume uploaded and variant-uploaded | the two streams are not ordered; redelivery | every variant of a known wallpaper is listed and announced |
| media: serving | the tables and the bucket, read step by step | validate, find, select a source, get, fall back, resize | rows and files come and go between the steps; recorded sizes are not the files' | the choice of a source shows in no image; a lost variant is no lost wallpaper |
| gateway (`apps/gateway`): index | one document per wallpaper | upsert, add variant, set colors | the three streams are not ordered, upsert overwrites | what search lists can be served, and disappears for known reasons only |
| gateway: search | none: a cursor carries all of it | search, page forward and backward | pages of an index that changes; ties in the score | no listing repeats or skips a wallpaper |
| variant generator, color extractor | none | consume uploaded, publish | one preset of several fails | every applicable preset is published or retried |
| upload queue (`apps/web/src/contexts`) | files with their status, pause and stop, timers | add, upload, retry, cancel, stop, resume, dismiss | answers after a cancel, a stop or a new batch; timers that outlive the pause they were set for | every file is sent once at a time and stays until it is answered, cleared or cancelled; a pause ends |
| rate limiters (`ingestor`, `gateway`) | a counter and its window in Redis, or in memory | check | window boundary, rounding of `Retry-After` | never more than the limit per window; a file is not sent into the window that refused it, unless a timer or a shorter limit cut its pause short |
| listing (`apps/web/src/routes`, `hooks`) | pages of a query, an observer and its flags | fetch, fetch again, scroll | refetch against fetch, reports of the observer that are skipped | scrolling reaches the end while there is room to scroll |
| grid (`apps/web/src/components/grid`, `packages/react-muuri`) | registered elements, the Muuri instance, free rectangles | mount, register, unregister, expand, lay out | an asynchronous import between effects, strict mode, closures of an older render | every child is in the one instance and is laid out, if it fits into the grid, without overlap or gap |
| worktree scripts (`scripts/`) | slot files, `.worktree`, `secret.env`, containers | set up, start, tear down | several scripts at one time, a script killed at any step, directories deleted, git or docker failing | slots, projects, ports and secrets are kept apart, with exceptions that are named |

Not in the table, because nothing of them is modelled: authentication, the tags
and user services, query limits, health checks, configuration, telemetry and the
components of the user interface (see the last section).

## How the parts interact, and what is hard about it

- **Browser to ingestor**: one HTTP request per file. The handler takes up to
  eight remote calls (duplicate check, INSERT, three SELECT/UPDATE pairs, PUT,
  publish). Between any two of them the reconcilers of any instance may run, and
  every call may fail, or succeed and lose its answer.
- **Handler, reconcilers, cleanup** share the `wallpapers` table and the bucket.
  Only two things order them: the partial unique index on (user, content hash)
  over active states, and `FOR UPDATE SKIP LOCKED` among the reconcilers. The
  handler takes no lock, and the bucket knows no transactions.
- **Ingestor to everybody else**: `wallpaper.uploaded`, published at least once.
  Four durable consumers read it at their own pace.
- **Generator → media → gateway** and **color extractor → gateway**: further
  events, each on a durable consumer of its own, so no two of them are ordered.
- **Consumer and JetStream**: a server that counts deliveries and enforces
  `ack_wait` and `max_deliver`, and a client that buffers without bound, works
  through its buffer one message at a time and writes its answers unawaited.
- **Upload queue and ingestor**: one request at a time per queue, but other tabs
  of the user count in the same window. A 429 says when to come back, in seconds,
  by the ingestor's clock; the page waits by its own timer.
- **Listing and gateway**: every page is a request with the cursor of the page
  before; in between, the index changes. A refetch asks for all pages again.
- **React and Muuri**: effects and cleanups register elements with a layout
  library that is imported asynchronously; cleanups run in the closures of the
  render before.
- **Worktree scripts** share files without a lock: each other's slot files, and
  one `secret.env` per user. Docker and git know nothing of slots.

## The modules

| module | models | stands on |
|---|---|---|
| `UploadPromise` | what an upload means to clients and consumers, abstractly | – |
| `Ingestor` | upload handler, state machine, reconcilers, cleanup | implements `UploadPromise` |
| `EventConsumer` | `BaseEventConsumer` and the JetStream consumer it configures | – |
| `Catalog` | media, generator, color extractor and gateway composed through their events | redelivery as `EventConsumer` has it, uploads as `UploadPromise` announces them |
| `Clock`, `RateLimit` | seconds and their rounding; the limiter of ingestor and gateway | – |
| `UploadQueue` | the upload queue of the web application | `Clock` |
| `UploadSession` | queue and limiter composed, on one clock | both |
| `Service` | a service process from its first connection to its exit | – |
| `Ordered` | sequences of numbers by rank: sorted sets, parts of a sequence | – |
| `Search` | `searchWallpapers` and the index it searches | `Ordered`; changes as `Catalog` makes them |
| `Browse` | the infinite listing of the home page | `Search` |
| `Renditions` | sizes: applicable presets, resizing | – |
| `Serving` | `GET /wallpapers/:id` while variants come and go | `Renditions` |
| `Packing` | the layout function of the grid | `Ordered` |
| `MuuriGrid` | the React wrapper of Muuri | `Ordered` |
| `WallpaperGrid` | the grid of the home page | `Packing`, `MuuriGrid` |
| `Worktrees` | `setup-worktree.mjs` and `teardown-worktree.mjs` | – |
| `MC…` | instances for TLC | the module of the same name |
| `…Proofs` | theorems | the module of the same name (`BrowsePageProofs`: `Browse` and `WallpaperGrid`, the two halves of the home page) |

### Ingestor

One action is one remote call. `pc[u]` is the next call of the handler of upload
`u`: `idle` (duplicate check), `insert`, `read` and `write` (the SELECT and the
UPDATE of `transitionTo`, with `goal[u]` the target state), `put`, `load` and
`publish`, then how it ended. A request and its row share a name, because the
row's id is a ULID drawn in the request. The columns that matter are
`uploadState`, `uploadAttempts` and `hasMetadata` (the metadata columns are
written together with `stored`); `aged` says that `state_changed_at` is older
than the threshold of the state, so that time is one action, `Age`, which may
come as early or as late as it likes. `content` is the deduplication key, chosen
initially; its file extension matters for one thing, the key the stuck-uploads
job probes (`Jpeg`).

`rpc[r]` and `rcur[r]` are a reconciliation cycle and the row its transaction has
locked: `stuck` → `probe` → `recover` or `retry`, `missing` → `publish` →
`commit`, `intents`. A failed statement rolls back; what happened outside the
database (a publish) stays. `cpc[k]`, `todo[k]` and `ccur[k]` are a cleanup, its
old listing and the object it is about to delete.

Faults are the environment's: `db` (a statement fails), `dbAck` (it commits and
the answer is lost), `minio`, `nats`, `crash`. A configuration names the kinds it
allows and how many may happen.

The cleanup lists what one answer of `ListObjectsV2` holds (`FirstPage`): the
`PageSize` first objects in the order of their keys (`Key`). What the reconcilers'
`SELECT … LIMIT 1` returns among several rows is any of them.

Abstracted: batch sizes, the two files of a video, image contents.
`MAX_UPLOAD_RETRIES` is a parameter: 3 in the code, 1 in the safety runs (one
retry that is counted and one that fails the row), 0 in `ingestor_live`, where a
row that fails does so at once.

### UploadPromise

`kept`, `announced`, `answer`: an upload is kept or given up; it is announced
only while kept; the client is told `accepted`, `duplicate` or `rejected` once;
what was accepted is never dropped; no two kept uploads have the same content.
The mapping (`Ingestor!Promise`) reads `kept` off the active states, `announced`
off the stream and `answer` off the handler's last control point.

### EventConsumer

The server's half is `status` and `deliveries` with `Publish`, `Deliver`,
`AckWaitExpires`; it is external and modelled from the configuration `start()`
passes (`max_deliver`, `ack_wait`, explicit acknowledgement). The client's half
is `phase` (`running` and `consumerMessages`), `buffer`, `cur` and `step`: every
path of `processMessage`, including the message that cannot be parsed, the
handler that throws, `onMaxRetriesExceeded` before `term`, and the iterator that
dies and ends the loop for good. The order in which a client empties its buffer
is not fixed (a set): more behaviours than the code's queue has.

`FirstDelivery` is the delivery count the client library reports for a first
delivery. `processMessage` compares it with `maxRetries`. The documentation of
`deliveryAttempt` ("Number of times this message has been delivered") and nats.js
say 1, and so does the run; the unit tests mock 0. With 1, a message is retried
`maxRetries - 1` times (`Retries`) and terminated with one delivery left: with
`maxRetries` of 1 it is never retried. The properties and theorems are stated for
either value.

### Catalog

`work` is the set of deliveries that somebody has yet to handle: consumer,
wallpaper, variant, attempt, the step the handler is at, and, for the generator,
the presets still to do. `origin` is the chain of attempts that led to the
event, so that two events about the same variant are two events. A handler that
fails starts over with the next attempt (`Fail`, `NextAttempt`) until
`MaxDeliver`; a crash between two steps is the same (`HandlerFails`).

| service | state | actions |
|---|---|---|
| media | `known`, `rows` | `UpsertWallpaper`, `FindParent`, `SkipVariant`, `InsertVariant`, `PublishAvailable`, `NotAnImage` |
| generator | `objects` | `GeneratePreset`, `PublishVariant`, `PresetFails`, `GeneratorDone` |
| color extractor | – | `ExtractColors` |
| gateway | `indexed`, `listed`, `colored` | `UpsertDocument`, `AddVariant`, `AddColorData`, `DocumentMissing` |

`rows` and `listed` are counts, because the code appends. `lost` is a history
variable: the variants a step discarded on purpose or for want of another try.
`Applicable` stands for `ResolutionMatcherService`. One delivery of a message is
handled at a time here; copies of one message handled side by side are
`EventConsumer`'s subject.

### UploadSession: Clock, RateLimit, UploadQueue

`RateLimit` has one counter and one window per store: Redis, which the instances
share, or the memory of each. `ttl` counts down as `PTTL` does, and the two stores
differ in whether a window includes its last millisecond (`Current`).

`UploadQueue` has the reducer's `status`, `isPaused`, `isStopped` and
`pausedUntil`, one operator per part of the reducer (`Settle`, `Resumed`, `Reset`,
`Retried`), and one action per button, effect, timer and answer. `flight[f]` is the
request a file is in, which lives on when the file has left the queue. Timers are
named, so that the one in `resumeTimeoutRef` and those it has forgotten can be told
apart; a button is enabled when the component renders it. `dismissing` is the
300 ms between a dismissed toast and what it does. `stranded` remembers that a
forgotten timer turned a stop into a pause, `cutShort` that one ended the pause of
another limit, or that a late 429 put a shorter limit in the place of a longer one
(see the findings).

`UploadSession` lets the limiter answer for the ingestor: `Accept`, `Refuse`,
`Break`, and `OtherUpload` for another tab. `rejectedBy` remembers, for each file,
the window that refused it last, while that window is open, however the file came
and went in the queue; it is history and guards nothing.

### Service

`phase` is how far `start()` has come, `handler[s]` how far the `gracefulShutdown`
of signal `s` has, `closing` how far `fastify.close` has; the second signal runs a
shutdown of its own, as in the code. A process is the ingestor (`hasScheduler`) or
a service with consumers. What a reconciliation job or a message handler does is
not repeated here: it begins and ends. `startedLate` remembers that `listen`
resolved, and the scheduler was started, after a signal had stopped it.

### Browse: Search

`Search` has the index (`indexed`, `matching`, `colored`) with the three events that
change it, and `SearchWallpapers` with the code's arguments, order, `search_after`
and the one hit more than the page. A cursor is the sort values of a document, and
an event that replaces the document leaves a cursor as good as it was. `Listed` and
`PagesAgree` say what pages should be without any of that.

`Browse` is one query of the home page: `pages` as TanStack Query keeps them,
`fetching`, a refetch that builds `refetched` page by page, and the chain that loads
the next page: marker in view, observer, callback, effect. `Screen` says which
wallpapers are so few that the marker below them cannot be scrolled out of view
(`FitsScreen`); there a report that is skipped is the last one (`Swallowed`).
`steady` holds the wallpapers that were found ever since the first page was
fetched; about others nothing can be promised.

### Serving: Renditions

`Renditions` has the arithmetic: `ApplicablePresets` with its categories, ratios and
tolerances (cross products for the code's quotients) and `Resized` for the three fit
modes, with rounding and `withoutEnlargement`. `Serving` is one request from
`Validate` to `Respond`, each read of a table or of the bucket a step, while
`StoreVariant`, `RecordVariant` and `LoseFile` change what it reads. The recorded
size of a variant is its preset's, its file is what was rendered (`SizeOf`,
`Rendered`): the difference the properties are about.

### WallpaperGrid: Packing, MuuriGrid

`Packing` is `binPackLayout` as a function: free rectangles are split around a
placed item and pruned; an expanded item is cut out of the grid first. An item that
is wider than the grid (an image of 2:1 spans two columns, and a container under
798 px has one) fits in no rectangle: it gets a place and takes no space.
`Infinity` is the bottom of the grid: a number that no item reaches
(`InfinityAssumption`), where the code has one that is greater than all numbers. A
grid is taken to be wider than two gaps, and a gap to be positive, as the home page
has them. `MuuriGrid` has the refs and the state of the wrapper;
`Commit` is a commit of React with its cleanups and effects in order, `InitMuuri`
the moment an import resolves, `Cancelled` its check. An element is a mounted item.
`WallpaperGrid` renders wallpapers and skeletons into it, expands an item on a
click, and computes what the library lays out (`Layout`).

### Worktrees

The files are the state: the slot file in git's metadata, slot and project of
`.worktree`, the ports of `infra/.env` (`envSlot`; the other `.env` files are
written in the same step and matter to no property), `secret.env`, and the
containers with their project, their ingress port, which `make` takes from
`.worktree`, and their other ports, which Compose takes from `infra/.env`.

A setup is six steps: `ScanSlots`, `ClaimSlot`, `WriteWorktreeFile` (git may fail to
tell the branch: `UNKNOWN`), `ReadSecrets`, `WriteSecrets`, `WriteEnvFiles`. A
teardown is two: `TearDown`, which may not take the containers down and goes on, and
`ReleaseSlot`, which leaves `.worktree` and `infra/.env` as they are. Any script may be
killed between its steps (`Interrupt`), a branch left, a directory deleted or a
worktree removed. The user is taken not to run `make` or git's removal for a worktree
while a script runs in it.

What the code gives no protection against is remembered, by each worktree or pair,
so that the properties can name it as the one exception: `slotRaced` (two setups had
scanned before either claimed), `secretRaced` (two had read `secret.env` before
either wrote it), `ready` (a setup ran to its end and no teardown came after it) and
`strayed` (the worktree left its branch or had none, was set up when git failed, was
removed while its containers ran, started them when not `ready`, or a teardown did
not take them down).

## What is checked

| run | what it shows |
|---|---|
| `ingestor_safety` | two uploads, equal or different content and extension, a reconciler, a cleanup, one fault other than a lost acknowledgement: at most one upload per content is accepted; every event is about a kept, complete row; `already_uploaded` names a wallpaper that stays; the cleanup takes no file of a row in flight |
| `ingestor_instances` | two uploads, two reconcilers, every kind of fault: what was accepted is never given up, and the service implements `UploadPromise` |
| `ingestor_live` | two uploads of one JPEG, or of a JPEG and another file, whose handlers may hang for ever, a publish that fails, a listing of one key: unless a row stays that can never be recovered, each leaves `uploading`; unless one stays that can never be published, each that was accepted is announced; a file whose row is gone or failed leaves the first page of the listing |
| `events` | a valid and an invalid message, two instances, a first delivery counted as 1, two retries configured, three failures, an interruption: nothing is acknowledged unhandled, given up unreported, or reported early; a valid message is handled unless it was interrupted |
| `catalog_safety` | an image, a preset, seven consumers in any order, a fault: what search lists can be served; no variant disappears but in a step that discards one |
| `catalog_live` | a video, three deliveries, two faults: it gets its document, although announcing it always fails |
| `uploads` | two files, two timers, two instances, one upload per window, another tab, and a user at every button: no file is sent twice or beside another; none is dropped but by clearing the queue or by the cancel that a toast dismissed before ends in; a pause ends; no file is sent into the open window that refused it, unless its pause was cut short; files that wait are uploaded |
| `service` | the ingestor, or a service with two consumers, with three connections and two signals at any moment: nothing works on a closed connection, and a signal ends the process |
| `browse` | three wallpapers, two of one score, pages of one, four queries, an index that changes twice: no listing repeats or skips a wallpaper, the API's forward and backward pages agree, and scrolling reaches the end, unless a page that leaves no room to scroll was reported and skipped |
| `serving` | five originals, five presets in three categories, 168 requests: the source that is chosen shows in no image, a lost variant is no lost wallpaper, every request is answered |
| `grid` | four elements in three columns, which all of them fit in, strict mode, wallpapers and skeletons: every child is in the one instance, once, leaves with its item, and is laid out where first fit says |
| `worktrees` | two worktrees, with a branch or none, two slots, two mishaps (a script killed, a directory deleted, a branch left, git or docker failing) and scripts at one time: a slot is shared only by two setups that raced, a secret replaced only by two that did; projects differ unless a branch was left, shares its slug, or is missing or unknown to both; containers run on ports their worktree holds, unless it strayed |

Every module with a state of its own has a type invariant. Each is a theorem; so is
every invariant and every action property of the runs. What the runs add is the
liveness, and that the theorems are about states that occur.

### Where the code does something else than the repository says

The models have this behaviour, and the properties name it as the exception it is.

| the code | the repository |
|---|---|
| `transitionTo` validates what it read before an `await` and updates by id alone; with the reconciler and the cleanup in between, a row is `stored` and its file deleted | `'stored', // In MinIO + DB` (`db/schema.ts:20`) |
| the stuck-uploads job always probes `original.jpg`, so the file of a PNG, WebP or video counts as missing | "If file exists in MinIO: recover to 'stored' state" (`stuck-uploads-reconciliation.service.ts:16`) |
| a stuck JPEG whose content another upload was accepted with violates the unique index in every recovery and stays `uploading` | "Continues processing until no more records are found." (`base-reconciliation.service.ts:53`) |
| a recovered row has no metadata, is refused by `publishUploadedEvent` in every cycle and stays `stored` | "Reconciliation system will retry publishing" (`ingestor.mdx:87`) |
| a row that always fails may be selected again at every try, three of which end a cycle, and hides the rows behind it | "the loop continues with the next record" (`missing-events-reconciliation.service.ts:77`) |
| the cleanup lists the first 1000 keys of the bucket, and no orphan behind them | "Lists all objects in the bucket" (`orphaned-minio-reconciliation.service.ts:35`) |
| a message is reported and terminated at its `maxRetries`-th delivery, with one left | "Initial delivery + retries" (`base-event-consumer.ts:185`), "Maximum number of retry attempts" (`:19`) |
| a redelivered `wallpaper.uploaded` writes the document with `variants: []` over the variants listed since | "All event handlers should be idempotent" (`multi-service.mdx:652`) |
| without a fault, by order alone: media skips and acknowledges a variant of a wallpaper it has not seen, and the gateway's 404 uses up its deliveries without delay | "keeping the query layer in sync" (`gateway/README.md:8`) |
| a rate limit's timer replaces an earlier one in `resumeTimeoutRef` without clearing it; the forgotten one fires after a stop and leaves the queue paused, with no timer to end it | "automatically pauses and resumes the queue" (`web/README.md:9`) |
| the same timer's callback resumes whatever limit is on by then, and a late 429 puts its shorter limit in the place of a longer one: files are sent into the open window that refused them | "automatically pauses and resumes the queue" (`web/README.md:9`) |
| the timeout of a dismissed toast cancels files that were added within its 300 ms | "If all files were completed, also cancel" (`upload-queue-toast-manager.tsx:32`) |
| `before` without `last` pages forward | "Cursor to start before (backward pagination)" (`gateway/src/graphql/schema.ts:233`) |
| a variant is recorded in the preset's size and rendered inside it, so the source chosen for a cover may be too small | "Fill dimensions completely, crop excess" (`resize.service.ts:60`) |
| where the loaded pages fit on the screen, the report after a page is skipped and no other comes: the next page never loads | "infinite-scroll masonry grid" (`web/README.md:7`) |
| an item wider than a grid of one column takes no space, and others are laid over it | "shouldn't happen with infinite height" (`grid/strategies/MuuriGrid.tsx:197`) |
| a child that goes in the commit that brings the Muuri instance leaves its item behind | "trigger layout so remaining items reposition to fill the gap" (`react-muuri/src/MuuriGrid.tsx:380`) |
| the teardown of a stale worktree without a branch looks for a project no setup ever named | "Must match the logic in setup-worktree.mjs exactly." (`teardown-worktree.mjs:58`) |
| two setups at one time choose and keep the same slot | "assigns a unique slot number" (`setup-worktree.mjs:5`) |
| where git fails, every worktree gets the project `wallpaperdb-unknown` | "Get the current branch name (or HEAD commit hash if detached)." (`setup-worktree.mjs:113`) |
| a teardown whose `docker compose down` fails, or finds no Compose file, releases the slot of containers that run | "false if docker compose reports no running project" (`teardown-worktree.mjs:86`) |
| all ports but the ingress come from `infra/.env`, written after `.worktree`: between them, and after a teardown, containers start on other ports than the slot's | "Variables from .worktree override the defaults below." (`Makefile:27`) |

Some of them bound what the ingestor's properties say. `DuplicateIsKept` leaves out
JPEGs, because a JPEG's row may be recovered behind the back of its handler, and
`ingestor_safety` has no lost acknowledgements, because a handler told that its
UPDATE to `processing` failed marks a published row as failed. The liveness
properties have the rows that always fail as their exception, whichever row it is
(`Unrecoverable`, `Unpublishable`): while one stays, nothing is promised of the
others, for it may be selected at every try of every cycle.

### Bounds

- **Ingestor**: two uploads and one or two actors of a kind, for every safety
  property is about a pair (two uploads of one content, two reconcilers on one row,
  a handler and a reconciler). One fault reaches every error path. `ingestor_live`
  needs both uploads for one row to stand in the way of the other, and for one file
  to lie behind the first page of one key; its fault is the failing publish that
  leaves an accepted row unannounced, and what else can stop a handler is that it
  takes no step.
- `events`: two retries configured, with a first delivery counted as 1, are one that
  happens: enough for the two kinds of answer to a failure (`nak`, and report then
  `term`); three failures are one for every delivery the server makes. Two instances
  let a deadline pass in the buffer of one while the other handles the next delivery.
  A second valid message adds only interleavings, for messages share no state but the
  instance's loop, which the invalid one occupies too.
- `catalog_safety`: one wallpaper (services keep wallpapers apart by id), one
  preset besides the original, two deliveries: every handler can fail, repeat
  itself, and be given up.
- `uploads`: two files are needed for one to wait while the other is in flight, and
  two timers for one to be forgotten. A second of two ticks, with windows of one
  second, makes every rounding of `Retry-After` happen; two instances without Redis
  give two windows.
- `service`: two consumers and three connections have a first, a last and one in
  between; two signals are all the code handles.
- `browse`: three wallpapers in pages of one are a first, a middle and a last page,
  two of equal score a tie; two changes of the index fall before, between and after
  the pages. Any one wallpaper fits on the screen, two of the pairs do not, so that a
  page may and may not leave room to scroll.
- `serving`: the widths and heights are below, at and above every dimension that is
  compared; the originals are of a ratio with a category, between two, and in none.
- `grid`: four elements of four shapes: one column, two columns, one that is taller
  than the viewport when expanded, and one that hardly grows; centres in the middle
  and at the edge. The grid is 13 pixels wide so that three columns fit; that an item
  is wider than the grid happens in the theorem only.
- `worktrees`: two worktrees compete for two slots. One can have the branch and the
  other none; the slug of the branch is the name a failing git gives. Two mishaps
  are a script killed and what is done after that, or one for each worktree.
- The theorems have none of these bounds. `MaxFaults`, `MaxFailures`,
  `MaxInterrupts`, `MaxMishaps`, `MaxUploaded`, `MaxCleanups`, `MaxChanges`, `MaxVisits`,
  `MaxElements`, `MaxSlot`, `MaxRetryAfter` and the set `Timer` are there to make TLC's state
  space finite; `Infinity` is any number that is high enough.

### Fairness

- **Ingestor** (`FairSpec`): the intervals of the scheduler keep firing, so a
  reconciler or cleanup that can take a step takes one, and time passes (`Age`).
  Nothing is assumed of handlers: the code puts no timeout on their calls.
- **EventConsumer**: the server delivers to open subscriptions and keeps
  `ack_wait`, the service is started, and `handleEvent` returns or throws.
  `EventuallyHandled` says nothing of a behaviour with an interruption, so nothing
  rests on a restart after one.
- **Catalog**: every consumer works off what it was sent. Which of its messages
  comes next, and how the consumers interleave, stays open.
- **UploadSession**: time passes, the page handles its events, and a request ends,
  at worst by a broken connection (`Break`). No answer of the ingestor is assumed,
  and nothing of the user.
- **Service**: what the process awaits, comes: the steps of a cycle, of a message
  and of a shutdown. Nothing is assumed of start-up.
- **Browse**: requests are answered (there is always a moment without one), React
  runs its effects, and the user keeps scrolling up and down as far as there is room
  to. The observer's
  callback and the effect that loads need strong fairness, because scrolling away
  disables them: the user stays at the bottom long enough now and then.
- **Serving**: the request's own steps.

`CHECK_DEADLOCK FALSE` is set where everything may have been done: all messages
settled, all events handled, the process gone, the page closed for good, the
request answered, the grid unmounted, every upload done with.

## What is proved

All of it for any number of uploads, rows, actors, messages, instances,
wallpapers and presets, any retry limit and any number of faults, any index and page
size, and items and images of any size.

**IngestorProofs.** `InductiveInv` adds to `TypeOK` who may still write a row:
`HandlerControl` (what `goal` means at each control point), `Transactions` (the
row a reconciler holds is in the state it was selected in, and nobody else holds
it), `Kept` (once the handler stored its row it stays active and complete) and
`UniqueActive` (the index). `AcceptedIsDurable` alone is not inductive: a
reconciler about to write a row in `uploading` could be holding an accepted one;
`Transactions` rules that out. `PublishedKept` needs one more invariant
(`Announceable`) and the assumption that no acknowledgement is lost, without
which it is false. `InFlightFileKept` follows the cleanup from its listing to its
deletion (`Files`). `DuplicateKept` (a client told `already_uploaded` was pointed at
a wallpaper that stays) needs what a running handler does not know: which rows can be
active without their metadata. Only those the stuck-uploads job recovers, hence only
JPEGs (`Originals`); it too assumes that no acknowledgement is lost.

`PromiseKept`: `Spec => Promise!Spec`, one lemma per kind of step, each mapped to one
step of `UploadPromise` or to none.

**EventConsumerProofs.** `InductiveInv` relates the server's count of deliveries
to the client's: every delivery held or handled was made; once the last one was
made, an uninterrupted consumer still has it unless the message was handled or
reported (`LastIsAnswered`). `GivenUpReported` follows: `max_deliver` and
`deliveryAttempt >= maxRetries` are limits counted by two processes, and the client's
is never the later one, whichever number a first delivery has. `ReportedExhausted`
says that a reported message was delivered once and `Retries` times again.

**CatalogProofs.** What a delivery vouches for (`Provided`): a
`wallpaper.variant.uploaded` that its file is in the bucket, a handler past its
insert that its row exists, a `wallpaper.variant.available` that both do. Rows
and files only accumulate (`Grows`), so what was vouched for stays true through
any redelivery, and `IndexedServable` follows without any order among the
services. `NoVariantVanishes` goes through `Accounted`: a step of a handler
leaves each variant it carried listed, carried by a delivery, or in `lost`.

**UploadSessionProofs.** The lemmas of `CeilSeconds` come first: rounded up, a time
is not shorter, and order is kept. `PauseEnds` needs `RefKeepsTime` (the timer in the ref,
while it runs, ends when the limit does) to see that a timer which fires inside a limit
is not the one in the ref. `RetriesAreInTime` follows a file from its refusal
(`RetryInv`): the answer on its way asks for no less time than is left of the window
(`LimitOutlasts`); once it arrived, and as long as the window is open, the file is out
of the queue's reach or held back by a limit that outlasts the window (`HeldBack`). At
each step what is left of the wait is no less than what is left of the window, for any
length of a second; only a forgotten timer or a shorter limit breaks that, which is
what `cutShort` says. `InFlightShown` is inductive with the types;
`DropsAreRequested` holds step by step.

**ServiceProofs.** `ShutdownInv`: while connections open nothing works yet
(`Connecting`); they stay open until `fastify.close` gets to them (`OpenUntilClosed`),
which it does after a signal's `stopAndWait` (`CloseFollowsSignal`) and after every
consumer is stopped (`ConsumersStopInOrder`). `WorkIsConnected` follows, and
`ReadyIsTrue` with `Initialized`.

**ServingProofs.** `ResizedIsSize` and `PixelsArePositive`: whatever is asked of
whatever image, at least one pixel is sent each way. `MissingIsMissing` follows the
fallback.

`SourceIsInvisible` says how far an image made of a rendering may be from one made of
the original. `Chosen` (what is recorded or stored are presets that apply, and the one
chosen is recorded as large enough in both dimensions) leaves arithmetic: an image of
`W` by `H` was made `P` wide and `R` high, `R` rounded, and from it an image within
`w` by `h` is made, rounded again (`Twice`). Four lemmas, by which of the two
dimensions binds each time, compare the result with rounding once; in three of them
one side is exact. In the fourth (`HeightTwice`) the rounded `R` is a divisor, and its
error grows with `W / H`. The case where the height binds the rendering is the same on
its side (`ContainTurned`). The property used to say one pixel; the proof failed in
that fourth case for images more than twice as long as wide, and TLC then found the
request: an original of 2645 x 1104, contained in 2560 x 1050, is 2516 wide, and 2514
by way of the preset 2560 x 1080. So it says two pixels for those, and the run has
that original. For more than two an image would have to be three times as long as it
is wide, which no category takes (`RenditionsAssumption`, from `config.ts`).

**BrowsePageProofs.** The home page: its listing, its grid and its layout. First what
the operators of `Ordered` and of the community modules do to any sequence: `Sorted`
is the one enumeration of a set in order, `Within` and `Without` keep order and
injectivity, flattening keeps what no two parts share.

*The grid.* `GridInv` relates the refs that closures of different renders write:
`GoodRefs` (who is queued is registered, once, without an item), `Instances` (only the
last run of the effect may have an instance, and the children know it as soon as it is
in the component's state), `Items` (each child has an item from the commit that brings
the instance on) and `Children`.
`EveryChildIsPlaced`, `OneInstance` and `LeavesWithItsItem` follow.

*The layout.* `LaidOut` is about a loop that splits and prunes rectangles. `Free` is
its invariant: the free rectangles are those that are clear of all that is taken, no one
within another, and every clear rectangle is within one of them. Splitting around a
placed item keeps it (`SubtractRectHolds`), because the pieces of two rectangles that
are not within each other are never the same piece, so that pruning cannot drop both of
them. `PlaceHolds` then says that the place chosen is the first that fits, and
`Packed` carries it through the rounds. The grid has a bottom (`Infinity`), so there
is a place for every item that is not wider than the grid; one that is fits in no free
rectangle, and leaves them all as they are.

*The listing.* `BrowseInv`: within a page and from one to the next the wallpapers are
in the one order of the query (`GoodPages`); what was found all along is in the pages,
or comes after them and they say that there is more (`Reaches`); and a refetch builds
pages of the same kind. Ties in the score are ordered by id, so that a cursor has one
place in the order (`Precedes`), in whatever the index has become. `NoneTwice` and
`NoneSkipped` follow; `PagesAgree` holds for every query and page size.

**WorktreesProofs.** `SetupInv`: two setups between scan and claim picked different
slots or raced (`PicksDiffer`), what one picked is no other worktree's (`PickedIsFree`),
and unless two raced the secret one read is still the one there is (`SecretIsRead`),
which makes `SlotsDiffer` and `SecretIsKept` inductive. `DockerInv` goes from
containers to the slot of their worktree: a worktree that never strayed started them
for the branch it was set up for (`StartedBySetUp`, `SetUpForHead`), branches are
checked out once (`BranchesDiffer`), so a teardown that releases the slot took down that
project (`ProjectOfBranch`); and after a complete setup slot file, `.worktree` and
`infra/.env` name one slot, also while the next setup writes them one by one
(`FilesAgree`, `SlotIsWritten`).

Where an argument is an induction over data (the rounds of the layout, the pages of a
listing, a least place) it is made by a least counterexample, from the well-foundedness
of the natural numbers: the library's rules of induction take an operator as a
parameter, which the provers here cannot instantiate. For the same reason no module
that is proved about has a `RECURSIVE` operator; recursion is by functions.

**Only model-checked**: liveness (`UploadingSettles`, `AcceptedIsPublished`,
`OrphanIsCollected`, `EventuallyHandled`, `EventuallySearchable`, `QueueGoesOn`,
`ShutdownEnds`, `ScrollsToTheEnd`, `RequestIsAnswered`), since TLAPS has no ENABLED
and hence no fairness.

## Not modelled, and why

- **Rendering**: the components, forms, stories and styles of the web application are
  by far the most lines of the repository that no module maps. They have no
  state that two actors share.
- In the modelled parts of the web application: the color picker's debounce, an
  address that starts a listing at a cursor, the panel of a single wallpaper, drag,
  filter and sort of `react-muuri` (the application uses none of them).
- **Query limits** of the gateway: a pure recursion over parsed queries, tested branch
  by branch. (`FIELD_COSTS` has keys of the form `Type.field`, while `getFieldName`
  returns the field alone.)
- **Numbers**: color histograms and their nearness are floating-point vectors; nearness
  is a constant here. The cut at `COLOR_SORT_K` and the total of a search are left out.
- **Pixels**: sharp and ffprobe, and what a half-sent response means to a client.
- **Start-up order of the gateway**: its consumers start before the index exists; what
  OpenSearch makes of that is a mapping, which no module has.
- Eight hazards have no property, because the code has no defence a property could
  state: the loop of a consumer ends for good when its iterator fails; media skips a
  variant that comes before its wallpaper; the gateway's 404 may use up the deliveries
  of a message; a redelivered variant gets two rows; a redelivered wallpaper overwrites
  its document; a failed preset is not retried; announcing a video always fails; bucket
  cleanups overlap. The models have all eight.
- **Authentication** asks Clerk, **tags and user services** are skeletons, **health
  checks**, **configuration**, **telemetry**, **OpenAPI** and **errors** are wiring
  without a protocol; tests and test tooling are not the program.
