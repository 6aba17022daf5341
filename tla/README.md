# SentinelEye: TLA+ models and proofs

SentinelEye is a video surveillance system: a FastAPI backend with PostgreSQL,
Redis and Celery, and three services beside it that record cameras, detect
objects and send notifications. This directory holds TLA+ modules of the parts
of it where something can go wrong between two steps, TLC configurations that
check them on small instances, and theorems about them that TLAPS checks for
every instance.

    tlc -config AlertIngest_workers.cfg AlertIngestMC   # a run
    tlapm AlertIngestProofs.tla                         # the proofs of a module

`PROJECT.json` is the index: components, runs, the source lines of every
definition, the hazards of the code at their lines with the properties that
watch them, the findings, the theorems, and for every property of a passing run
a plausible bug (an operator commented *Mutant*) under which it fails.

Paths below are relative to `src/`; `B/` is `apps/backend/app/`.

## 1. Inventory

| part | state | operations | talks to |
|---|---|---|---|
| alert evaluation (`B/services/alert_service.py`, `B/api/v1/endpoints/detection_events.py`, `alerts.py`) | rows `alert_rules`, `alert_events`, `detection_events`; row locks | ingest a detection, rule CRUD | PostgreSQL, Redis pub/sub, notification-service (HTTP, 4 s) |
| camera service and control plane (`B/services/camera_service.py`, `control_plane.py`) | rows `cameras` | create, read, list, update, delete; start/stop in the services | PostgreSQL, cache, recording-service and ai-engine (HTTP, 5 s), Tuya cloud |
| Celery worker (`B/workers`) | none of its own | Tuya stream refresh every 240 s; three tasks that are stubs | PostgreSQL, Tuya cloud, recording-service |
| cache (`B/services/cache.py`, `B/scripts/warm_cache.py`, `system_config_service.py`) | Redis keys with a TTL | get, set, invalidate by pattern, warm | Redis, PostgreSQL |
| recording-service (`services/recording-service`) | registry of recorders, ffmpeg children, watcher tasks, segment files | start, stop, list, shutdown; report segments | ffmpeg, file system, backend |
| ai-engine (`services/ai-engine`) | registry of pipelines, a tracker per pipeline | start, stop, list, shutdown; frame loop | OpenCV, backend |
| notification-service (`services/notification-service`) | none | dispatch, bulk dispatch | SMTP, Telegram, webhooks |
| event bus and WebSockets (`B/services/event_bus.py`, `websockets.py`) | subscriptions, pump tasks, sockets | publish, subscribe, relay | Redis pub/sub, browsers |
| authentication (`B/services/auth_service.py`, `core/security.py`) | rows `users`; tokens hold their own state | register, log in, refresh, profile, password | PostgreSQL |
| Tuya client (`B/services/tuya_cloud.py`) | an access token, for one call | allocate a stream, read a device | Tuya cloud |
| migrations (`apps/backend/alembic`, `docker/backend/entrypoint.sh`, `docker-compose.yml`, `scripts/bootstrap.sh`) | the schema, its version, seeded rows; attempts of a container | upgrade, downgrade, start, restart | PostgreSQL |
| settings: cloud integrations, notification settings, system config | one row each, secrets encrypted | CRUD | PostgreSQL |
| recordings API, storage, detections, history, administration views | rows that are only read here | queries | PostgreSQL, S3 or files |
| schemas, scripts, Flutter shells | | | |

What makes them correct, and why it is hard:

* **Alerts.** A rule fires at most once within its cooldown; whatever fires is in
  the history, and only that. Many requests evaluate the same rules at once; each
  is one transaction with row locks and HTTP calls inside it, and may be rolled
  back at any point, also as the victim of a deadlock, while rules are edited and
  deleted.
* **Recording.** At most one ffmpeg per camera, which a stop really ends and which
  is never lost; every finished segment is reported once it is finished. Handlers
  interleave at every `await`, children exit when they like, `stop()` races with
  timeouts and with the watcher.
* **Cache.** A read returns the committed row. Reads fill the cache some awaits
  after they loaded the row; mutations invalidate before their transaction
  commits; Redis may fail at any point, and every failure is swallowed.
* **Camera control.** Recorders and pipelines run for exactly the cameras whose
  rows ask for them. The services keep what runs in memory only, calls get lost,
  transactions roll back after the calls were made, requests and the Tuya task
  overlap.
* **AI engine.** One pipeline analyses a camera, a pipeline that ended holds no
  capture and sends nothing, track ids stay with one object. All pipelines and
  the handlers share one event loop, which OpenCV and the detector block; a stop
  is answered before the task has ended.
* **Notifications.** A message is sent as often as it was confirmed or its answer
  was lost, and what is recorded of it is true, also when the caller gave up
  after 4 s while the call went on.
* **Events.** A client sees the events of its channels in order and without gaps
  from its subscription on, until it disconnects; then its subscriptions end,
  wherever its pump tasks were when they were cancelled.
* **Migrations.** Two containers start on an empty database at once, get killed,
  lose their connection, and an operator may downgrade: the schema is always that
  of its version, defaults are seeded once, and in the end the containers serve.

How the parts meet: the ai-engine posts detections to the backend, whose ingest
request evaluates the rules and calls the notification-service; camera requests
and the Tuya task start and stop recorders and pipelines; the recording-service
reports segments to `/api/v1/_internal/recordings` (which no router of the
backend has: the reports are answered with 404 and nobody looks at the status).
There is no shared state but PostgreSQL, Redis and the directories of segments.

## 2. Plan

Order, with the most important behaviour first; all of these are done.

1. `AlertIngest` and its abstract specification `CooldownGate`.
2. `RecordingService` and its abstract specification `SegmentLog`.
3. `ReadThroughCache` and its abstract specification `SingleCopy`.
4. `CameraControl`, which stands on what 2 shows of the recording-service's
   answers (a start of what runs changes nothing, a stop of what does not either).
5. `IoUTracker`, the algorithm the ai-engine gives detections their ids with.
6. `AiEngine`: the registry of pipelines (`main.py`) and the frame loop
   (`pipelines/__init__.py`), and its abstract specification `EventFeed`.
7. `EventStream` and `NotificationService`, and `Delivery`, which composes them
   with the transaction of an ingest: what leaves it before its commit.
8. `Migrations`: the containers that run the revisions and the operator, for any
   revisions; `AlembicVersions` has those of the repository.

Left: abstract specifications of the two that have none and are no algorithm,
`CameraControl` (a camera is on in a service or off, and follows its row) and
`Delivery` (a message and the record of it).

Runs follow a pattern: one per component for its safety with faults and its
liveness under the fairness its scheduler gives, and one for a claim of the
documentation that does not hold.

## 3. Modules

Every model lets one step be what the code does between two points where
somebody else can run: two awaits in the services, two SQL statements or HTTP
calls in the backend.

### AlertIngest

`Ingests` are requests to `POST /detection-events`, one transaction each.
`pc`, `todo`, `seen`, `cur`, `now`, `channels` are the locals of
`evaluate_detection`, `_record` and `_dispatch`; `slot` and `inserted` the
uncommitted writes; `status`, `config`, `last_fired_at`, `events` the committed
rows; `lock` PostgreSQL's row locks; `notified` what reached the
notification-service. Actions follow the request: `Begin` (the INSERT),
`Publish`, `ListRules` (the SELECT and the match), `NextRule` (which reads the
clock), `TryAcquire` and `Resume` (the conditional UPDATE, which evaluates its
WHERE again after it waited for a lock), `Record`, `DispatchChannel`,
`BreakDispatch`, `EndDispatch`, `Commit`; beside them `Rollback`,
`DeadlockVictim`, and the operators' `create_rule`, `update_rule`, `delete_rule`.
The isolation level is READ COMMITTED, PostgreSQL's default, which
`B/db/session.py` does not change. The database is external to the repository
and modelled from its documented behaviour: locks, EvalPlanQual, deadlock
detection, the cascade of the foreign key.

`CooldownGate` is what the rules promise: a gate that lets a set of entries into
the history, one per rule at most and only after the cooldown, atomically.

### RecordingService

`Starts` are start requests; each makes at most one `CameraRecorder`, so a
recorder is named after its request. `registry` is `_recorders`, `phase` is where
`start()` or `stop()` of a recorder is, `proc` its ffmpeg, `watcher`, `batch` and
`seen` its `_watch_segments` task, `files` the camera's directory with the writer
of every file and whether it still has it open, `posted` the metadata POSTs.
`start_recorder`/`Spawned`/`SpawnFails` are the start handler around its await,
`stop_recorder`, `ExitSeen`, `Kill`, `KillFails`, `Join` the stop: SIGTERM, the wait
of 10 s, SIGKILL, the wait for its effect, and the `ProcessLookupError` of a kill
that comes too late, which ends the handler with 500 and leaves the watcher to find
the stop event; `Shutdown`/`ShutdownDone`
the lifespan, `Poll`/`Report` the watcher, `NextSegment`/`ProcExit` ffmpeg.
`overlap` is chosen at the start: without it the callers send the requests for one
camera one after the other.

`SegmentLog` is what recording is for: a camera has a log of segments, which one
recorder at a time appends to; a complete segment does not change, only complete
ones are told of, and who gives a camera up writes no more. A camera is held by
the recorder that runs or is being stopped (`HolderOf`); who writes is whose ffmpeg
is alive, the log is the directory, what is told are the POSTs. `Spawned` maps to
`Take`, `NextSegment` to `Cut`, `ProcExit` to `End`, `Join` and `KillFails` to
`Release`, `Report` to `Tell`, the rest to stutters. The watcher of a stop that
failed may still tell of the files it has in hand, and a complete file may be told
of by anybody, so `Tell` asks for no holder. The service implements it as long as
there is no `overlap`; with it a camera has two writers.

### ReadThroughCache

`committed`, `written`, `history`, `lock` are the rows of `cameras` and
`system_config`; a row says of which write it is and of which its `url` is. `cache`
holds Redis's keys, an entry being the rows a session had loaded. A request reads (`Get`, `Select`, `Count`, `Fill`), warms
(`WarmCameras`, `Enumerate`, `WarmNext`, `WarmDone`, `WarmConfig`), or writes
(`Write`, `Scan`, `DropKey`, `EndScan`, `Commit`, `Rollback`);
`cache_invalidate` is the administrator's endpoint and `Expire` the TTL. One writer
calls no `invalidate`: the Tuya refresh task, whose single transaction sets the
`url` of one camera after the other (`RenewUrl`) and commits them (`CommitPass`) or
not (`BreakPass`). It keeps the row locks until then, so the rest of a row is what it
was when its url was set. A
session keeps a row it has loaded (SQLAlchemy's identity map), which is how the
warmer caches old rows long after its first SELECT. `trouble` is chosen at the start: without
"overlap" two windows are kept apart, rows loaded and not cached yet, and keys
deleted and the row not committed yet; with "fault" Redis may fail and mutations
may roll back.

`SingleCopy` is what a cache promises: a key has at most one copy, made of all the
rows it shows at that moment, and a row changes only while nothing has a copy of
it. A committed row *without its url* is its value, Redis's entry without the urls
its copy. The steps that fill an entry map to `Copy`, those that drop one to
`Forget`, `Commit` to `Publish`, the Tuya task to stutters. The cache implements it
as long as `trouble` is empty; what `Select` and `Count` read at different moments
is then one snapshot. Of the urls it is not true, with Redis up and no overlap: an
entry shows the old url until its TTL is over. What is promised of them is
`OnlyCommitted` and `EventuallyFresh`.

### CameraControl

`row` and `state` are the camera rows (a set of flags), `running` what the
recording-service and the ai-engine have in their registries, `old`, `new`,
`start`, `stop` the locals of a request, `pass`, `batch`, `cur` the Tuya task.
`create`, `update`, `delete` begin a request; `Flush`, `Resolve`,
`CallRecording`, `CallAi`, `DeleteRow`, `Commit`, `Rollback` are its steps;
`List`, `Allocate`, `Push`, `CommitPass`, `BreakPass` those of the task, `Unsourced`
what the Tuya client comes to when it has no url;
`Restart` empties the registry of a service. `faults` and `troubled` are history
variables: they count what went wrong and remember for which camera something
was lost or overlapped, so that `InSync` can say exactly when it promises
agreement. One pass runs at a time: it is scheduled every 240 s.

### IoUTracker

`_active` and `_next_id` are the attributes of the tracker; `detections`, `left`
(what the matching loop has not looked at), `matched` and `before` (the tracks
when the update began) are the locals of `update()`, `frame_idx` the pipeline's.
`Update` is the call with any detections the model may report; `MatchNext` a turn
of the loop in the order of confidence, which takes the free track of the class
with the largest overlap above the threshold (`_iou`, `Candidates`, `IsBest`);
`Spawn` a turn of the loop that makes new tracks; `Return` drops the tracks that
are too old. `sighting` is a history variable: under which id what was returned
last. The update is sequential: its hazards are in the order of the matching and
in ids that live on, or come back, over many frames.

### AiEngine

`registry` is `_pipelines`; `task`, `stop`, `cancelled`, `capture` are a
pipeline's asyncio task, its event and its `VideoCapture`; `frame`, `tracks` and
`posted` what it has seen and sent. `loop` is the pipeline that runs between two
awaits: `cap.read()` and `infer()` are no awaits, so nobody else moves meanwhile,
and with `slow` (inference outlasts the period of a frame) a frame that shows
nothing does not lead to an await at all. `start_pipeline`, `stop_pipeline`,
`Shutdown` and `ShutdownDone` are the handlers and the lifespan; `Begin`, `Wake`,
`ReadFails`, `EmptyFrame`, `InferRaises`, `Dispatch`, `PostReturns`, `Cancel` are
what `run()` does from one await to the next. A stop request that waits is in
`asked`, so that its being served can be stated. What the tracker does is left to
`IoUTracker`; here a frame has a number of tracks.

`EventFeed` is what the API gets: a camera has one feeder at a time, only it sends
events for the camera, who gave a camera up never sends again, and every track of a
frame is sent once, before the next frame. The feeder of a camera is its registered
pipeline, unless that was stopped. A start that is accepted maps to `Take`, a stop
and the shutdown to `Give`, `Dispatch` and `PostReturns` to `Send` when they POST.
The engine implements it without any assumption on its callers.

### EventStream, NotificationService, Delivery

`EventStream` has `published` (the messages of a channel, as numbers), and per
socket and channel the state of its `pump` task, the subscription's `queue`, what
the client `got`, and `since` which message. `StartPump`, `Subscribe`, `Listen`,
`Send` are the awaits of `subscribe` and `pump`; `PumpFails` and `SendFails` their
exceptions, which nobody looks at; `Leave`, `Cancel`, `Close`, `Collect` the end
of a socket. The `finally` of the generator only runs when the cancellation finds
it in `listen()`; elsewhere the generator is left to the collector ("abandoned").

`NotificationService` has requests with their `item`, `job`, `attempts`, and for
the provider how often it took the message (`accepted`) and how often its answer
did not come (`lost`). `dispatch` and `dispatch_bulk` begin requests, `Attempt` is
a call of `send()`, `Delivered`, `AnswerLost`, `Refused` what comes of it,
`AnswerBulk` the end of the gather.

`Delivery` EXTENDS both and adds the ingest: `Insert`, `Publish`, `PostChannel`
with `Answered`, `TimesOut` or `Unreachable`, `BreakDispatch` (an exception that is
no `HTTPError`: one result for all channels that are left, "*", and the loop is
over), `EndDispatch`, `Commit`, `Rollback`.
A call that timed out goes on in the service. `AlertIngest` has the same request
with its rules, slots and locks, and only the fact of the call.

### Migrations

A schema is its version, the set of its objects (tables, columns, indexes, types,
as paths) and the rows that revisions seed. A revision is the sequence of its
statements, up and down; the revisions are a parameter (`Revisions`), and
`AlembicVersions` has those of `alembic/versions`. `RevisionsAssumption` is what a
revision has to be like: its upgrade finds what it needs (`Applicable`), its
downgrade takes back what the upgrade made but for values of types that stay
(`Reversible`), a table is seeded by one revision. TLC evaluates it for the ones of
the repository. `Effect` says what PostgreSQL does with one (external),
with `IF NOT EXISTS`, `checkfirst` and `ON CONFLICT` as the revision has them.
Columns that nothing else refers to are part of their table. `Connect`,
`run_migrations` and `Commit` are an alembic command: one transaction for all
revisions, whose first change waits for that of another process and then works on
what that has committed. `Start`, `Fail` and `Succeed` are `entrypoint.sh` with its
five attempts, `StartAsIs` is `SKIP_MIGRATIONS=1`, `Command` an operator's shell,
`Outage` and `Kill` what may happen to them.

## 4. Runs

| run | instance | shows |
|---|---|---|
| `AlertIngest_workers` | 2 requests, 2 rules, 2 rule bodies (cooldown 1 with an external channel; switched off), 1 detection, clock 0..2, faults | `CooldownSpacing`, `NoOrphanEvents`, `NotifiedIsRecorded`, that the workers implement `CooldownGate` (`ImplementsGate`), and that every request is answered, with deadlocks among them (`IngestFinishes`) |
| `AlertIngest_doubleNotify` | the same without faults | **fails**: a deadlock victim has notified, its claim is undone, the next request notifies again within the cooldown |
| `RecordingService_requests` | 1 camera, 2 starts, 3 files; the requests overlap or come one after the other | a stop that was answered has killed ffmpeg and ended the watcher (`StoppedIsDead`), files that are not the newest get reported (`OldFilesAreReported`); one after the other: `NoLeak`, `NothingSurvivesShutdown`, and the service implements `SegmentLog` (`ImplementsLog`) |
| `RecordingService_twoProcesses` | 1 camera, 2 overlapping starts | **fails**: both see an empty registry and spawn |
| `ReadThroughCache_requests` | 1 camera (there at the start or not) and the config, 2 requests, the Tuya task, 2 writes in all after those of the start; with overlap and faults, or with neither | what was never committed is never cached (`OnlyCommitted`); whatever got stale, the cache ends up fresh for good (`EventuallyFresh`); with neither, the cache implements `SingleCopy` in all but the urls (`ImplementsCopy`) |
| `ReadThroughCache_stale` | 1 camera, 2 requests, Redis up | **fails**: a read that overlaps an update caches the old row for its whole TTL |
| `CameraControl_tuya` | 2 Tuya cameras, 2 requests, 1 fault | `InSync` for cameras without trouble, `TuyaComesBack` with it |
| `IoUTracker_ids` | 4 frames of up to 2 detections out of 6 (boxes that overlap more and less, 2 classes, 2 confidences), `max_age` 1 | no two detections share an id (`OneObjectEach`), an id stays with one object of bounded absence (`SameObject`), and the matching is stable (`NoEnvy`) |
| `AiEngine_pipelines` | 2 cameras, 2 starts, 1 frame with up to 2 tracks, inference that keeps up or does not | `OnePipeline`, `EndedIsReleased`, the engine implements `EventFeed` (`ImplementsFeed`), stops and the shutdown come to their end (`StopsGoThrough`) |
| `Delivery_ingest` | an ingest with a rule of three channels or none, a socket of two channels with two messages each, a bulk request of two items, faults | `NoGap`, `SentOnce`, `ResultsAreTrue`, a committed detection was told once to every listener (`CommittedIsTold`), `SubscriptionsEnd` |
| `Delivery_noTarget` | a rule with the webhook channel, enabled | **fails**: the request has no target and there is none to fall back to |
| `Migrations_upgrade` | backend and backend-worker, a shell with one command (up, to 0006, or to nothing), five troubles | the schema is that of its version (`SchemaOfVersion`), defaults are seeded once (`SeededOnce`), races alone abort nobody (`RacesDontAbort`), the head is reached in one step (`HeadAtOnce`), and the containers come to serve (`ContainersServe`) |

The runs marked *fails* check a sentence of the code's own documentation; the
findings in `PROJECT.json` quote it. No run checks what a refinement it checks
implies; these are proved for themselves: `SlotHasEvent` and `LastFiredAdvances`
(`ImplementsGate`), `OneProcessSerially` (`ImplementsLog`), `FreshApart`
(`ImplementsCopy`), `QuietAfterStop` (`ImplementsFeed`).

**Bounds.** Two requests are enough for every race here, because each is between
two actors over one row, one registry key or one cache key; a deadlock takes two
rules. Three files are the fewest in which more
than one file is not the newest. A clock of 0..2 lets a rule with cooldown 1 fire
twice, at 0 and 2. Two more writes (`MaxWrites` = 3, counted over all rows) are an insert or a
change, a deletion, a renewed url, in any order and of the same row or of two:
between any two of them an entry can be stale. Four frames with
`max_age` 1 let a track be matched, missed, dropped and its object come back; two
detections of a frame are rivals for a track. One fault is the fewest that makes
services and rows disagree. In `AiEngine` a frame with two tracks has a POST in
its middle, at which a stop can find it; that frames follow each other takes two
frames, which are four minutes more and are left to `FeedTheorem`. In `Delivery` the two messages of a
channel are that of the ingest and one before or after it; channels differ only in
whether they are enabled, addressed and known, and the instance has one of each.
In `Migrations` five troubles are one more than a container survives, so that
giving up happens, and the goals of the operator are the head, the version before
the one that can be seeded twice, and nothing. `MaxTime`, `MaxFiles`, `MaxWrites`,
`MaxFrames`, `MaxDetections`, `MaxEvents`, `MaxCommands`, `MaxTroubles` and
`MaxFaults` are the only bounds in guards; except
the last three they are about the length of a
run and not about the code, and the theorems hold for all values of those their
modules have. In `Delivery` a bulk request is looked at without ingests and
sockets (`NoBulk`), with which it shares nothing. No run uses symmetry.

**Fairness.** It is weak, but for `AiEngine`, and stands on three facts: an event
loop or a worker runs a task that can go on, so every step of a begun request or
task is fair; every HTTP call, and the wait for ffmpeg, has a timeout, so calls
return; PostgreSQL's deadlock detector runs after its timeout, so `DeadlockVictim`
is fair. In the cache `Expire` is fair because every entry has a TTL. In
`CameraControl` the task as a whole is fair because beat starts it again and
again, and waiting for a row lock is fair because a transaction ends. In `AiEngine`
it is strong: asyncio runs what is ready in the order it became ready, so a task or
request that is ready again and again, whenever the loop is free, has its turn; a
pipeline whose inference outlasts its frames may never leave the loop, and
`StopsGoThrough` promises nothing then. In `Migrations` the start of a container is
fair because of `restart: unless-stopped`, and the steps of alembic because a
connection that breaks is an `Outage` of which there are finitely many.
Nothing that only may happen is fair: requests, faults, ffmpeg's segments and
exits, ticks of the clock, the commands of an operator, a client that leaves.

**Deadlock** is checked where a system may only stop when all is over, with an
explicit stuttering disjunct under that condition. `Delivery` and `Migrations` say
`CHECK_DEADLOCK FALSE`: their clients and operators need not come back.

## 5. Proofs

All theorems are about `Spec` and hold for every value of the constants that
satisfies the named assumptions (`NullAssumption`: the placeholders for "none"
are not values; `ConfigAssumption`, `BoundAssumption`, `TuyaAssumption` and the
like: the constants have their types).

* `AlertIngestProofs`. The inductive invariant `IInv` adds to the type invariant:
  a request that is firing a rule knows its body (`BodiesKnown`); a rule with an
  uncommitted claim or event is live and locked by the claimer, so that two
  requests never have claims on a rule at once (`ClaimsLocked`); an uncommitted
  event carries the time of its claim, which is more than the cooldown after the
  committed `last_fired_at` (`PendingGranted`); and the history of a rule is not
  later than its `last_fired_at` (`HistoryBefore`). `CooldownSpacing` alone is not
  inductive because a commit adds events whose distance from the history is only
  known from what the UPDATE saw, and that stays true only because of the lock.
  `TypeCorrect`, `SpacingTheorem`, `SlotTheorem` and `OrphanTheorem` follow;
  `AdvanceTheorem` is the action property; `NotifiedTheorem` needs one more
  invariant about requests that are between a POST and their commit
  (`HandedOver`). `GateTheorem` shows that the workers implement `CooldownGate`:
  `Commit` maps to `Fire`, the rule requests to `Create` and `Delete`, everything
  else to a stutter.
* `RecordingServiceProofs`. `RInv` says which process and watcher states go with
  which phase (`PhaseInv`) and that the registry points at recorders that were
  started for its key (`RegistryInv`). `RecordingTypes` and `StopTheorem` need no
  assumption. `OneProcessTheorem`, `NoLeakTheorem`, `ShutdownTheorem` and
  `LogTheorem` assume that the requests for a camera do not overlap and use `SerialInv`: a camera has
  one busy or registered recorder at most. `RecordingService_twoProcesses` shows
  that the assumption is needed. `LogTheorem`, the refinement of `SegmentLog`, adds
  that a file is open only while it is the newest and its writer is alive
  (`LogInv`), and that what a watcher has in hand is older than the newest file
  (`BatchInv`): the listing gets old while its reports are awaited, but directories
  only grow, and so "not the newest" keeps meaning "complete".
* `ReadThroughCacheProofs`. `CInv` gives `CacheTypes`; `HInv` adds that every row
  a session has loaded was committed, which gives `CommittedTheorem` whatever
  fails. `FreshTheorem` assumes Redis up and the two windows apart, and is about all
  of a row but its url; its invariant `FInv` adds to `CInv` that sessions hold the
  committed rows as long as nobody publishes and that a publisher which has scanned
  leaves no entry of its pattern behind. What the Tuya task is about to commit is
  the committed row with another url, because the task holds its lock (`Renewing`, a
  part of `CInv`). Together with
  `ReadThroughCache_stale` it says what makes the cache stale with Redis up: the two
  windows for everything, the Tuya task for the urls, and nothing else. `CopyTheorem`,
  the refinement of `SingleCopy`, rests on the same invariant: what a request fills
  an entry with is the snapshot of this moment (`FillIsCurrent`), the total of a page
  included (`Counted`), and a `Commit` finds all keys of its row dropped
  (`Unpublished`).
* `CameraControlProofs`. `IInv` gives `ControlTypes` and `SyncTheorem`: for a
  camera without trouble at most one actor has it in hand, and what runs is what
  the row asks for, corrected by what this actor has already told the services
  (`Progress`), which `Commit` then makes the row's.
* `IoUTrackerProofs`. `IInv` adds to the type invariant that `before` and
  `_active` agree on the tracks nobody has taken yet (`TracksInv`), that what was
  matched was looked at before what is left (`OrderInv`), that nobody who was
  looked at envies a free track or one that went to somebody less sure
  (`EnvyInv`), and how old a sighting can be while its track lives
  (`SightingInv`). `TrackerTypes`, `OneObjectTheorem`, `NoEnvyTheorem` and
  `SameObjectTheorem` follow for any detections, any `max_age` and any number of
  frames. That overlaps are ordered like fractions (`Fraction`, `MoreTransitive`)
  is all the arithmetic they need.

* `AiEngineProofs`. `IInv` adds to the type invariant that a pipeline that lives
  and was not stopped is the registered one of its camera (`RegistryInv`), that a
  stopped one is cancelled and does not run, and holds its capture only while it
  is at work (`TaskInv`), and whose the open captures are (`CaptureInv`).
  `OnePipeline` is not inductive alone: that a start finds a camera free says
  something about the tasks only because of the registry, and that its stopped
  predecessor does not come back only because it was cancelled. `EngineTypes`,
  `OnePipelineTheorem`, `ReleaseTheorem` and the action property of `QuietTheorem`
  follow for any number of cameras, pipelines, frames and stop requests.
  `FeedTheorem`, the refinement of `EventFeed`, adds that the last event of a
  pipeline says which frame it is at and which of its tracks are left (`StreamOf`),
  and that a pipeline is registered for its own camera only (`OwnCamera`), so that
  a stop takes one camera from it and no other.
* `DeliveryProofs`. `IInv` is one invariant per part: of the stream, that what a
  pump has sent and what waits in its subscription are together the numbers after
  `since`, up to the last one published while it is subscribed (`NoGap`, with
  `PumpInv` for pumps that have not begun); of the notification-service, what the
  attempts of a request have come to (`JobInv`) and that a bulk request's items
  were begun and its answer, once given, is about finished items (`BatchInv`,
  `BulkAddsUp`); of the ingests, that their channels have requests (`TodoInv`),
  that a noted success is one (`ResultsInv`) and that what was published has a
  number (`SeenInv`). The parts only meet in two facts: a finished request stays
  as it is (`Lasts`), and numbers only grow. `NoGapTheorem`, `SentOnceTheorem`,
  `ResultsTheorem` and `ToldTheorem` need nothing else but that the constants
  have their types (`EventsAssumption`, `SettingsAssumption`,
  `ChannelsAssumption`, `BulkAssumption`).

* `MigrationsProofs`. `IInv` says that a container's goal is the head (`GoalInv`);
  that a transaction which has changed something belongs to a process that is
  migrating and has the version this process believes in, and that a container
  only began it below the head (`HolderInv`); that what is committed, and what is
  going to be, has the objects of its version, values of types that stay aside, and
  the rows that are due (`SchemaInv`); and what a container's failures are excused
  with (`RacesInv`). What a list of statements leads to is shown statement by
  statement (`UpgradedLemma`, `DowngradedLemma`), by an induction that is stated for
  a set of numbers instead of a predicate and proved from cardinalities
  (`Induction`, `AfterDef`): so `SchemaTheorem` and `SeededTheorem` are about any
  revisions that satisfy `RevisionsAssumption`. `RacesDontAbort` is not inductive:
  a container that was overtaken has not failed yet. Its failures and the one that
  it is bound to have (`Weight`) are never more than the troubles, the commands that
  have ended and the one time the head was reached (`Excuses`), which gives
  `RacesTheorem`. `TypeTheorem` and `HeadTheorem` hold for any number of containers,
  operators, commands and troubles as well.

Only model-checked is everything under fairness (`IngestFinishes`,
`OldFilesAreReported`, `EventuallyFresh`, `TuyaComesBack`, `StopsGoThrough`,
`SubscriptionsEnd`, `ContainersServe`), which the prover does not reach. Every
other property of a passing run is a theorem.

## 6. Observations that have no run of their own

* `detection_events.py:95-97` says that a broken notification path never blocks
  the ingest. An ingest holds a rule's row lock across its calls of up to 4 s per
  channel, and every other detection of the rule waits for it. `IngestFinishes`
  shows that they do finish.
* A watcher that starts over begins with an empty `seen` (`recorder.py:148`): a
  restarted recorder reports the files of its predecessor again.
* `docs/CAMERA_SUPPORT.md:48` promises that ffmpeg is started again with
  exponential backoff. Nothing watches the process; a recorder whose ffmpeg has
  ended stays in the registry, and starts are answered with 409.
* With two ffmpegs in one directory "not the newest file" no longer means
  "finished" (`recorder.py:153`); `ImplementsLog` shows that it does while the
  requests for a camera do not overlap. The last segment of a recorder that is stopped is
  never reported: the watcher is cancelled first (`recorder.py:139`).
* A changed `url` of a camera that is recorded reaches the recorder only when it
  is stopped and started: `_reconcile` looks at the flags. The fresh URL the Tuya
  task pushes is answered with 409 by a recorder that runs, so ffmpeg keeps the
  URL that expires.

* `camera_service.py:163-164` keeps the allocated url on the row "so the
  recording-service can read it via /api/v1/cameras/{id}". That endpoint reads through
  the cache, and the task that renews the urls (`workers/tasks.py:90`) does not
  invalidate it: for up to 5 minutes the answer has the url before, which Tuya lets
  expire. It is what `ImplementsCopy` excepts.
* `recorder.py:125` pipes the stderr of ffmpeg and nobody reads it: once the pipe is
  full ffmpeg waits. No fairness of `NextSegment` or `ProcExit` is assumed, so nothing
  here depends on ffmpeg getting on.
* Nobody publishes to the alert and camera-state channels (`alert_service.py:116`
  leaves "realtime" to the ingest, which publishes detections only), although
  `docs/API.md:122-123` shows their messages.
* The "push" channel exists in the backend only: the notification-service answers
  400. A disabled channel answers "sent", which the history records as a success.
* A pipeline whose source does not open or whose detector raises ends and stays
  registered, so that a start is answered 409 until somebody stops it; a stream
  that breaks is read again every half second and never opened again.
* The start of a camera that is not a Tuya camera, once lost, is never repeated:
  the "reconciler" of `control_plane.py` is the Tuya task.
* Downgrading to 0006 and upgrading again seeds the default rules once more: their
  ids are new, so `ON CONFLICT` never applies. `SeededOnce` says so: it promises one
  seed only while nothing is downgraded.
* `models/recording.py:38` writes the names of its enum ('LOCAL', 'S3'), revision
  0001 creates the values 'local' and 's3'. No code inserts recordings.

## 7. What is not modelled

`PROJECT.json` lists every part with the reason. In short: authentication, the
settings, the read-only endpoints and the storage wrappers have no
behaviour over more than one step of one request (`EventStream` has what a WebSocket
asks of a token); of the Tuya client `CameraControl` has what it comes to, a url or
none; schemas are
data; the repository has only the platform shells of the frontend. Inside the
modelled parts the following is abstracted: bounding boxes (outside the tracker,
where overlaps are exact fractions and the rounding of floats is left out), titles
and texts; the detector; the
ffmpeg command line and the paths of files; the JSON of cache entries; the
types and defaults of columns; what providers do with a message; the columns of a
camera that no decision depends on. `EventStream` has no malformed message, which
`event_bus.py:31-32` would skip: only `publish` writes to the channels, and it
writes JSON.
A list page holds all cameras, so paging is left out. UUIDs are never used twice.
