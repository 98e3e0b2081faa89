# Attendance: a TLA+ verification project

The repository is an attendance and access platform: cameras, kiosks and card readers
recognise people, and a FastAPI backend turns the sightings into attendance records, keeps
an index of face embeddings, drives camera streams, administers people, visitors, roles and
organizations, and pushes live events and chat to a React client.
This directory models the parts of the backend whose correctness depends on order, failure
and concurrency, checks them with TLC on small instances, and proves the safety properties with
TLAPS for every instance.

## Inventory

Paths are below `src/backend/app/`.

| Component | State | Operations | Interacts with | What is hard | What makes it correct |
|---|---|---|---|---|---|
| **Attendance ledger** `services/attendance_service.py` | one row per employee and day, duplicate markers (Redis or per process) | face, kiosk and card sightings, manual edits, markers | requests, the event consumer; `get_db` commits | SELECT before UPDATE at READ COMMITTED, two stores, commit after the marker, midnight | one arrival is not a check-in and a check-out; columns agree |
| **Event pipeline** `engine/attendance_generator.py`, `attendance_sync.py` | duplicate tracker, bounded deque, retry list, consumer | generate, drain, persist, start, stop | fed by worker threads, writes the ledger | threads, cancellation at any await, replay, shutdown | no event lost or applied twice, nor out of order; every event settles |
| **Stream manager** `engine/stream_manager.py` | streams by camera, tasks, captures, monitor | add, remove, start, stop, read loop, reconnect | API handlers, OpenCV on threads | overlapping stops and starts, forced cancellation in a read | one read of a capture at a time, no release under it; what is live has a loop; stops return |
| **Face index** `services/faiss_index.py` | vectors, two id maps, two files | add, remove, search, export, import, reload | enrolment, recognition, visitors, jobs of other processes | two files, no transaction, several processes | names belong to faces; saved changes survive |
| **Realtime hub** `realtime/hub.py`, `api/ws.py` | connections, bounded queues, presence counters in Redis, a subscription per worker | connect, pump, disconnect, emit, consume | chat, live events, other workers | counters that no worker owns, calls that fail half-way, crashes | nobody is online without a socket; subscribers come back |
| **Organization tree** `services/organization_service.py`, `api/employees.py`, `middleware/tenant.py` | parent links, locations, placements | create, move, delete, hire, edit | tenants' scopes, cascades to employees | write skew, counts that are stale at the delete | no cycle; deletion takes only newcomers; locations fit companies |
| **Card readers** `services/rfid_service.py` | readers, tokens, cards, events | administer, tap | the ledger | a tap is two transactions' worth of reads | a revoked card opens nothing; day and events agree |
| **Visitors** `services/visitor_service.py`, `api/visitors.py` | status, approval, face access, photos | approve, check in and out, enrol, expire, photos | face index, periodic job | database and index change apart, nothing locks a visitor | the columns agree; who overstays is expired |
| **Enrolment** `services/enrollment_service.py`, `api/enrollment.py`, `privacy.py` | `face_enrolled`, `face_embeddings`, vectors | six ways to enrol, delete, deactivate, erase | face index | the index keeps what a failed request did | the flag tells who is matchable; the forgotten stay forgotten |
| **Recognition engine** `engine/recognition_engine.py`, `face_tracker.py`, verifier, unknown detector | tracks, recognitions in flight, cool-downs | frame, recognition, prune, images and streams of the API | index, pipeline | results that land after their track is gone | a name stays on its track; slots come free |
| **Sightings and alerts** `services/recognition_pipeline.py`, `recognition_service.py`, `security_monitoring_service.py` | recognition events, alerts, marks of the process, snapshots | identify, evaluate, triage, retention | ledger, hub | marks set before a commit that may fail | a tailgating alert stands for two people on record |
| **Chat** `services/chat_service.py` | members, messages, read marks, reactions, calls | membership, send, edit, direct conversations, calls | hub | membership checked before the commit; two who open one conversation | no message of a removed member; one row of two racers |
| **Accounts and roles** `api/auth.py`, `api/users.py`, `core/security.py`, `core/dependencies.py` | users, stamps of passwords, roles, grants | login, password change and reset, administration | every handler | tokens are not stored; hashing in a thread between read and commit | tokens end with their password; a super admin remains; roles permit what was asked |
| **Cameras** `services/camera_service.py`, `stream_sync.py`, `api/engine.py`, `core/cache.py` | rows, registered streams, cached list | edit, sync, list, restart, deletion of the location or company | stream manager, Redis, organizations | three copies of a camera that change apart, a cascade that tells nobody | streams follow rows; lists do, but for races and for cameras that went with their company |
| **Anomalies** `services/anomaly_service.py`, `anomaly_detector.py` | anomaly rows | detect, triage | ledger | two triagers of one row | a triage says when and by whom |
| **Shifts, holidays** `services/shift_service.py`, `api/shifts.py` | policies, holidays | default policy, holidays, branches | ledger | two requests choose a default | one policy and one holiday to judge by |
| **Setup** `api/setup.py`, `services/setup_migrations.py`, `bootstrap.py` | status, thread, the database in use, first admin | migrate, set up, restart | `core/database.py` | a thread beside requests, a rename of the database under them | one organization of a database, once it has an admin; a migration settles |
| Detection models, liveness challenges, reports, audit, monitoring, uploads, frontend, deployment | files, settings, read models | see `PROJECT.json` | | numerical or one transaction each | |

`PROJECT.json` lists every component with its status and, under `hazards`, what was found
in the code that a test would hardly reach, at the line where it bites.

## Modules

| Module | Models | Lines |
|---|---|---|
| `AttendanceDay` | abstract specification: what the ledger promises about a day | 64 |
| `AttendanceLedger` | the ledger of one employee, transactions interleaved | 461 |
| `EventPipeline` | tracker, queue, consumer, inline requests | 451 |
| `CaptureUse` | abstract specification: how a capture may be used | 40 |
| `StreamLoops` | streams, loops, captures, stops | 468 |
| `FaissIndex` | memory and files of the index | 293 |
| `Backend` | what the modules of request handlers share: the rules of a session, and `Nil` | 14 |
| `OrganizationTree` | companies, nodes, locations, placements | 379 |
| `VisitorAccess` | one visitor, the photos, the face, the expiry job | 350 |
| `ChatRooms` | a room, a direct conversation, a call | 369 |
| `PresenceHub` | sockets, counters, queues, subscribers | 328 |
| `FaceEnrollment` | employees, their rows of embeddings, the vectors | 298 |
| `CameraRegistry` | rows, streams, the cached list, the deletion of their location or company | 322 |
| `CardTaps` | readers, cards, taps, their events | 253 |
| `LiveTracks` | the tracks of one camera and their recognitions | 250 |
| `SightingAlerts` | identify requests, events, alerts, pictures | 244 |
| `AccountSessions` | accounts, passwords, tokens, administration | 250 |
| `FirstRun` | the setup wizard and the migration thread | 223 |
| `AnomalyTriage` | detection and triage | 205 |
| `RoleGrants` | roles, permissions, grants | 164 |
| `DutyRules` | default policies and holidays | 154 |
| `MCWorkplace` | the fourteen modules from `OrganizationTree` on, in one specification | 134 |
| `MCAttendanceLedger`, `MCEventPipeline`, `MCStreamLoops`, `MCFaissIndex` | values of the constants for TLC | 71 |
| `AttendanceLedgerProofs` | theorems about `AttendanceLedger`, and that it implements `AttendanceDay` | 1715 |
| `EventPipelineProofs` | theorems about `EventPipeline` | 1650 |
| `StreamLoopsProofs` | theorems about `StreamLoops`, and that it implements `CaptureUse` | 2690 |
| `FaissIndexProofs` | theorems about `FaissIndex` | 937 |
| `AccessProofs` | theorems about `CardTaps`, `RoleGrants`, `AccountSessions`, `VisitorAccess`, `FirstRun` | 2773 |
| `RecognitionProofs` | theorems about `CameraRegistry`, `LiveTracks`, `SightingAlerts`, `FaceEnrollment` | 3305 |
| `OfficeProofs` | theorems about `OrganizationTree`, `ChatRooms`, `PresenceHub`, `DutyRules`, `AnomalyTriage` | 4328 |
| `WorkplaceProofs` | theorems about `MCWorkplace`: that it implements its components, and what follows | 113 |

`EventPipeline` simplifies the ledger to committed stamps, because what two overlapping
transactions do to a row is the subject of `AttendanceLedger`.

The modules that extend `Backend` share its reading of a handler: what it reads is committed,
and may be old when it writes; its last write and its commit are one action unless something outside
the database happens between them (a thread, the index, Redis), which is then an action of its
own; a handler that fails writes nothing, but what it did outside stays. Where an ORM object was
loaded, an UPDATE names only the columns that differ from what was loaded.

A definition introduced by a comment "Variant" (`SuppressedByMarkerOnly`, `LockNothing`,
`UidFreeOfActive`, ...) is not part of a specification: it is a plausible bug, put in the place of
the definition it changes, to see that the property it belongs to notices. `PROJECT.json` pairs
them under `mutants`.

### AttendanceLedger

Writers are database sessions: requests, or the event consumer. `txn[w]` is where the
transaction of `w` is and what it has read; `ledger[d]` is the committed row.

| Action | Code |
|---|---|
| `Sight` | the entry of `process_recognition` / `process_rfid_tap`, `now` and the work day |
| `LookForDay` | an exit sighting without a row of today returns (415-424) |
| `ReadMarker` | `_check_duplicate_shared` |
| `Fetch`, `Insert` | `_get_or_create_today_record`: SELECT, then INSERT in a savepoint, then SELECT again when the constraint fails |
| `Flush` | the decision (`Suppressed`, `ChecksIn`, `ChecksOut`, `Image`) and the UPDATE, which waits for the row lock |
| `Arm` | `_arm_duplicate_shared` after the flush |
| `Commit`, `Fail` | the end of the transaction: `get_db`, or the consumer |
| `Unarm` | `clear_duplicate_marker`, which only the consumer calls |
| `Enter` | `apply_manual_attendance` |
| `Restart` | a process loses its cache of markers |
| `Tick` | time passes; no transaction may run longer than `MaxTxn` |

Reads are plain SELECTs of committed rows, an UPDATE names only the columns that differ from
what was loaded (`Stored`), and a row lock is held from the write to the end.
Left out: `overtime_minutes`, which is computed beside `worked_minutes` and read by reports
only; truncation to whole minutes (time is counted in ticks); employees (rows of two never
meet). A policy is a constant: which one a company has is the subject of `DutyRules`.

### EventPipeline

| Action | Code |
|---|---|
| `CameraMatch`, `Enqueue` | `generate_event` on a worker thread: the tracker, then the deque, which drops its oldest when full |
| `RequestMatch`, `MarkInline`, `FlushInline`, `EndInline` | `/engine/recognize*`: the tracker, then an inline transaction that ends in `get_db` |
| `StartDrain`, `Skip`, `Flush`, `Arm`, `Commit`, `Fail`, `Unarm` | `drain_once` and `_persist_event`, await by await |
| `FailRollback` | the rollback itself fails: the rest of the batch is stashed and the loop goes on |
| `Stop` | the cancellation, at any await, which stashes the rest; the next drain is the final flush |

A cancelled commit may or may not have gone through.

### StreamLoops

| Action | Code |
|---|---|
| `Begin` ... `Resume` | `_stream_loop`, one action per resumption: `Opened`, `OpenFailed` after a connect, `Frame`, `Missed`, `Lost` after a read, `Resume` after a sleep |
| `Cancelled` | `CancelledError` at the await the loop is in; a read in flight goes on, its release deferred |
| `ReadReturns` | an abandoned read returns and `_drain_and_release` runs |
| `AddStream`, `RemoveStream`, `StartStream`, `Start` | the API handlers and the manager |
| `StopStream`, `Stop`, `Gathered`, `GraceOver`, `Woken`, `StopEnds` | the stops, suspended in `_await_stream_task` |
| `Monitor`, `MonitorEnds` | one round of `_health_monitor`, and its end |

`CaptureUse` says how a `cv2.VideoCapture`, which is not thread-safe, may be used: obtained, read by one thread at a
time, let go of once, with the last read or after it, and then left alone. `UsedWithCare` is the mapping of `StreamLoops` to it: a read in
flight counts whether its loop awaits it or has been cancelled out of it; a release under a read maps to no state that `CaptureUse` has. The captures of a stream that had two loops
(`shared`) are contended, and promise nothing.

### FaissIndex

`mem[w]` is the memory of one process, `disk` the two files, `op[w]` the operation under its
lock. Of a vector only its owner is kept: the person whose face it is. Each operation is a
change of memory (`Add`, `AddBatch`, `Remove`, `RemoveNothing`), then `SaveIndex` and `SaveMeta`
(the two `os.replace`), or `ImportIndex` and `ImportMeta`. `Fail` is an exception of a write,
`Crash` the end of the process at any point, after which its successor loads the files (`Loaded`, that
is `_load`). `acked`, `unsure`, `deleted` and `torn` are auxiliary: what was reported done.

### OrganizationTree

Ids are used once; a row without a parent is a company. `request[a]` is what a handler has read and decided.

| Action | Code |
|---|---|
| `CreateOrganization`, `BeginCreate`, `Create` | `create_organization`, `create_node` |
| `BeginMove`, `LockForMove`, `Move` | `move_node`: the guards, `SELECT ... FOR UPDATE` of the root and the walk of the ancestors, the write |
| `BeginDelete`, `Delete` | `delete_node`: the counts, then the DELETE with its cascade |
| `BeginHire`, `Hire`, `BeginEdit`, `Edit` | the directory of `api/employees.py` with the scope of `middleware/tenant.py` |
| `BeginOpen`, `Open`, `BeginClose`, `Close` | locations |
| `Drop` | any of them fails |

### PresenceHub

| Action | Code |
|---|---|
| `Register`, `Accept`, `AcceptFails` | `connect` and its limit, `realtime_ws` |
| `Join`, `JoinFails`, `Announce`, `Announced` | `presence_connect`, one HINCRBY after another, and the broadcasts of what it returned |
| `Pump`, `CloseSocket` | the sender, and the `finally` of the handler |
| `Part`, `PartFails`, `Clear` | `presence_disconnect`: the decrement, and the HDEL of a counter that is used up |
| `Subscribe`, `Poll`, `Reset` (`SubscriberTurn`) | `_consume`: subscription, delivery to the local queues, back-off |
| `Emit`, `Break`, `Crash`, `Restart` | other handlers; Redis and workers that fail. A call that fails may have been executed |

### VisitorAccess, FaceEnrollment

Both have handlers in three stages: read, change the index in a thread, commit. In `VisitorAccess`
`TouchIndex`, `Commit` and `FailHandler` end what `CheckInVisitor` ... `EnrollVisitorFace` began;
`BeginExpiry`, `JobFails` are `expire_visitors` under its loop; photos are `BeginUpload`, `BeginPhotoOp`,
`CommitPhoto`, `CommitDelete`. In `FaceEnrollment` the six ways of enrolling differ by `Taken` (which
images each accepts), `ClearFirst` is the removal of `re_enroll_face` before it judges, `Purge` the
removal from the index, `CommitFaces` and `CommitRemoval` the rows, `ClerkFails` a failure at any stage.

### CardTaps

`RfidTap` (a device, known by its token) and `SimulateTap` begin a tap; `LookUpCard`, `JudgeDay`, `CommitTap` and
`FailTap` are `process_tap` and `process_rfid_tap`. The administration (`UpdateReader`, `RegenerateToken`, `AddEmployeeCard`,
`RevokeCard`, ...) is one action each. The day is a pair of stamps: how stamps and windows relate is the ledger's.

### ChatRooms

`Ask...` reads the membership and the row concerned; the operation itself (`AddMember`, `RemoveMember`, `CommitSend`,
`EditMessage`, `React`, ...) is the commit. `AskRead` marks any id
the client names (`ClientMarks`), as `mark_read` does, and `StillJoined` is what an UPDATE of a membership finds: the row that was loaded, if a removal has
not taken it since. A send whose message the sender's mark is already past updates no membership (`ahead` are the users who asked for such a mark). `InsertDirect`, `CommitDirect` are `get_or_create_direct` over its unique key;
`ClaimCall`, `LogCall` the claim of a call in Redis and its entry in the history. `ThreadFails` is a stale row, a taken key or a lost
connection.

### AccountSessions, RoleGrants

`Login` reads the row, `IssueToken` commits after the thread that verified (and may have hashed) the password;
`CreateUser`/`CommitUser`, `UpdateUser`/`CommitUpdate` likewise. `ChangePassword`/`CommitPassword` have `StampPassword` between
them: `password_changed_at` is the second of the handler, and the commit, which others may overtake, comes later. `Accepted` is
`get_current_user`. In `RoleGrants`, a form loads the links of a role or a user, and its commit inserts and deletes what
differs from them (`CommitDefine`, `CommitGrant`, `CommitDeleteRole`).

### LiveTracks, SightingAlerts

`Frame` is `_process_frame`: the tracker's assignment and pruning, and the recognitions it starts; `RecognizeFace`,
`SetCooldown`, `MarkRecognized`, `RecognitionFails` are `_recognize_tracked_face` at each of its awaits; `RecognizeImage`
and `RecognizeStream` the requests of `api/engine.py`. In `SightingAlerts`, `RecordMatch` and `RecordNoMatch` flush the event, `Evaluate` is
`evaluate_matched` or `evaluate_unmatched`, then `CommitSighting` or `AbortSighting`; `ReadAlert`, `WriteAlert` the triage,
`PurgeOldSnapshots` the retention, `Leave` a deactivation.

### CameraRegistry, AnomalyTriage, DutyRules, FirstRun

`CameraRegistry`: an edit is `BeginCamEdit`, `Flush`, `DropList`, `RegisterStream` (for `/streams/add`), `CommitEdit`; `BeginSync`, `RegisterAll` are
`sync_streams_from_db`; `BeginList`, `ComputeList`, `StoreList` are `cached_json`. `BeginClosing`, `CommitClosing` are `delete_location`, which counts the cameras first,
and `delete_organization`, which does not; both cascade to the rows, once no edit under way holds one (`RowsAreHeld`). `AnomalyTriage`: `BeginDetection`, `SaveDetection`
around the thread that judges, `BeginTriage`, `CommitTriage` per request. `DutyRules`: `BeginPolicy`, `ClearDefaults`, `CommitPolicy`
are `create_policy` and `update_policy`, `CreateHoliday`, `DeleteBranch` with its ON DELETE SET NULL. `FirstRun`: `AskMigration`, `StartMigration` are the
check and the start in `start_migration`; `Migrate` is the thread (`Rename`, `EnsureDatabase`, `Upgrade`, `Reconnect`,
`MigrationFails`); `BeginSetup`, `ReadRoles`, `InsertRoles`, `InsertAdmin`, `CommitSetup` are `run_setup`, for as many databases as there are names.

### MCWorkplace

These fourteen share no state in the code either: what one does to another goes through a call that the callee's module has
as an action of its own (the face index of `VisitorAccess` and `FaceEnrollment` is reduced to who is in it). So one run checks them all: `turn`, fixed at the
beginning, names the component that moves. What each keeps true alone, they keep true together: `WorkplaceProofs` proves it.

## Runs

| Run | Expect | Shows | Instance |
|---|---|---|---|
| `LedgerRace` | pass | `ClosedDaysSpanWindow`, `ColumnsAgree`, `ImplementsDay` | 3 kiosks in 2 processes, no Redis, 1 day, clock 0..4, window 3, transactions up to 1 |
| `LedgerDoors` | pass | `TypeOK`, `BareRowsAreSuppressedSightings` | the consumer's entry and exit cameras, a card reader, an admin; clock 0..2, midnight at 1, a card's window of 2 and a camera's of 1, Redis that fails, restarts |
| `LedgerSharedGuard` | violation | the guard on timestamps does not exclude two check-outs within one window: one of 4 replaces a committed one of 3 | 2 kiosks, each in a process of its own, no Redis, clock 0..4, window 3, transactions up to 1 |
| `LedgerFailedWrite` | violation | a failed commit of a request leaves its marker | 2 kiosks |
| `Pipeline` | pass | `TypeOK`, `DeliveredOnceInOrder`, `NoopMeansRecorded`, `EventsSettle` | 1 camera, 1 request, 1 employee, 1 stranger, queue of 1, 2 events, clock 0..2 |
| `PipelineInterrupted` | violation | an event of an interrupted drain is dropped | 1 camera |
| `Streams` | pass | `TypeOK`, `LiveMeansLoop`, `UsedWithCare`, `StopsReturn`, `RemovedStreamsLetGo` | 1 camera, 2 stream objects, 2 tasks, 2 captures, 1 stop at a time |
| `StreamsTwoLoops` | violation | two loops over one stream | 1 stream object, 3 tasks, 2 stops |
| `Faiss` | pass | `TypeOK`, `MapsMatch`, `NamesTheirOwner`, `SavedChangesSurvive` | 1 process, 2 people, 3 ids, a bundle of another site |
| `FaissWorkers` | violation | one id for two people | 2 processes |
| `FaissDeleteRetry` | violation | a retried removal is reported done and comes back | 1 process |
| `Workplace` | pass | the 22 properties of the next table | two requests at a time in each component |

Each violation quotes what the repository says and is explained under `findings`.

`DeliveredOnceInOrder` is `OnePlace` (an open event waits in one place, once; no id that was not handed out is anywhere), `WrittenOnce` (also when
a commit that was cancelled went through and is replayed) and `ReplayedInOrder` (what is to be tried again is older than what was enqueued since).

What `Workplace` shows. Many of these hold only with an exception, which the property names: what is outside the exception is
checked, what is inside it the code allows.

| Property | Says | Except |
|---|---|---|
| `WorkplaceTypeOK` | every variable has its type; `_inflight_recognitions` counts the slots that are taken | |
| `NoCycle` | no unit is above itself | |
| `OnlyNewcomersAreLost` | a deletion takes only employees who came after its count | those: the count holds no lock |
| `PlacesFitCompanies` | an employee's location is of the company that employs them | a user granted nodes of two companies |
| `NoGhosts` | who is listed online has a socket | a call to Redis that failed, a worker that died |
| `VisitorRowAgrees` | flag and index, approval and status, photo and `photo_url` agree | handlers that overlap, or fail after the index |
| `RevokedCardsAreDead` | a tap that begins after the card was revoked opens nothing | |
| `EventsExplainTheDay` | a day has a check-in or check-out exactly if an event tells of it | |
| `FlagTellsIndex` | `face_enrolled` tells who can be matched, every vector has its active row | overlapping handlers of one employee, a failure after the index, rejected re-enrolments, a failed bulk |
| `ForgottenStayForgotten` | after a deletion returned, nobody finds the face until an enrolment | an enrolment under way |
| `SentByMembers` | no message appears of a member who is removed | users who asked to mark an id that was not given yet |
| `RacersInsertOnce` | one direct conversation of a pair; one entry of a call | a call claimed while Redis failed |
| `TokensEndWithPassword` | a token of an older password is refused | two changes in one second, or committed against the order of their seconds |
| `SuperAdminRemains` | an active super admin remains | two administrators at the same time |
| `NamesStayOnTheirTrack` | a track's name is of somebody seen on it | |
| `TailgatersWereTwo` | a tailgating alert has two people on record | |
| `StreamsFollowRows` | a stream has its row's URL | a row whose URL changed, or that was deleted, since the engine was last told; requests that overlap |
| `ListsFollowRows` | the cached list is the table | a list computed beside an edit, a failed invalidation; cameras that went with their location or company since |
| `OneOrganization` | a database has one organization at most, and one as soon as it has a super admin | |
| `RulesAreUnambiguous` | one default policy, one holiday of a date | two requests that choose a default at once, until one alone does |
| `RolesAreMeant` | a role permits what was last asked; a deleted role is nobody's | two edits of one role at once, until one alone |
| `LoopsSettle` | again and again the subscribers have caught up, no visitor is overdue, and no migration runs | |

### Bounds, and why they are enough

* *Ledger.* A clock of five instants with a window of three has room for a check-in, a sighting
  inside the window, one at its edge, and one past it; transactions of length one overlap in every order. Three
  writers are needed for a check-out to be replaced while a third still holds the open row.
  `LedgerDoors` needs a second day only once, and two writers; the card's window is the longer so
  that its marker is still live after midnight, when the row it stood for is yesterday's.
* *Pipeline.* With a queue of one, the second event overflows it; two events are one to fail and one behind
  it. `LastSight` stops the sightings before the clock ends, so that stale events are seen to age.
* *Streams.* One camera suffices, since cameras meet only in `stop()`; two stream objects let it be
  removed and added again, two tasks let a start respawn, two captures let a loop reconnect. The objects are never
  reused: the run stops when they are used up, hence `CHECK_DEADLOCK FALSE`.
* *Face index.* Three ids are an enrolment, a re-enrolment and another person. `MaxExport` bounds the
  ids of the one exported bundle kept. Both deadlock checks are on for the ledger and the index, which never stop.
* *Workplace.* Two sessions, because every race in these components is of two; a bound on the requests (`MaxRequests`, `MaxChatAsks`,
  `MaxLogons`, ...) of two to five, which is the pair that races and what sets the scene for it. Since requests are bounded the
  run stops, hence `CHECK_DEADLOCK FALSE`. The tree begins with a company of two nodes, which may be moved under each other, and has room for
  a second company; one employee and one location suffice, since each is judged by itself. The hub has two workers with one socket
  of one user each, so that the counter that they share is what they race for; the limit of connections per user is therefore
  never met, and is in the model only. One failure (`MaxFaults`) is one call or one worker or one subscription lost. A room has a founder and one
  more; passwords change twice, in two different seconds (`LastSecond` 2), so that the later stamp may be
committed first; a client marks a message that may be there, or an id beyond all of them (`ClientMarks`); a track ends and another one begins (`LastTrack` 2).
Sightings have three instants (`LastTime` 2) and a window of one, so that somebody may be too early for a tailgating alert; a camera has two URLs,
and its location goes at most once. Where an operation or a kind of input cannot
  interfere with another (`Rosters`, `Asks`, `ChatAsked`), the operations are offered in groups.

### Fairness

Safety needs none, and the ledger and the index have none. `EventPipeline` assumes that the event
loop keeps running the consumer (`WF(Drain)`: an asyncio task that is not blocked) and that time passes
(`WF(Tick)`); nothing says that a transaction ever succeeds, so `EventsSettle` rests on the stale-age
guard alone. `StreamLoops` assumes weak fairness of each loop, each waiting stop (asyncio runs what is
ready) and each `read()` (FFmpeg's read timeout); no fairness of frames, of requests or of connections.
`PresenceHub`, `VisitorAccess` and `FirstRun` assume weak fairness of what runs by itself: the subscriber task of a worker
that is alive (`SubscriberTurn`), the expiry loop or its Celery beat (`JobTurn`), and the migration thread (`Migrate`, whose steps include its
failure). Requests, sockets, restarts and the clock owe nothing. Failures are bounded (`MaxFaults`, `MaxJobErrors`): a job that fails for ever expires nobody.

## Proofs

Eight modules hold the theorems, which hold for any values of the constants that the assumptions admit. Every invariant and every action property
that a passing run checks, and the two refinements, has one; what has none is the liveness. Each theorem
follows one pattern: an inductive invariant of the module (`IInv`, `CardIInv`, ...), which `Init` establishes and every action keeps, one
lemma for each action; what the runs check follows from it. Each inductive invariant was checked by TLC on the instance
of its run before it was proved.

*Assumptions.* The types of the constants; `Nil` is none of their values; what is counted is finite (`Sockets`, `Faces` and `Slots`,
the galleries of `FaceEnrollment`, the cameras and tasks of `StreamLoops`, whose `Nil` the code has as `None`); the first trees are forests. Beyond that:

* `ShortTransactions` (ledger): a transaction, from reading the clock to its commit, takes less than half of the shortest
  window (`2 * MaxTxn < MinWindow`). The code does not enforce it; with the default windows (a minute and more) it is a matter of
  the database being reachable. Without it `ClosedDays` fails: a session could commit a check-in it decided on a window ago.
* `ForeignAssumption` (face index): a bundle of another installation was kept by this same code.
* `OneProcess` (face index), a hypothesis of the theorems that need it: one process writes the files. With two, `NamesTheirOwner`
  is false, as `FaissWorkers` shows.
* `GrantsStayHome` (tree), a hypothesis of `PlacesInductive` and `PlacesFit`: as long as no administrator, other than a
  super admin, is granted nodes of two companies. The code lets a super admin grant so; then one edit may move an employee to the other company and leave
  the location behind. It is the exception named with the property, and the grants of the run respect it.

### Ledger

`TypeCorrect`, `Inductive`, `ClosedDays` (`ClosedDaysSpanWindow`), `Implements` (the refinement of `AttendanceDay`),
`ColumnsInductive`, `Columns` (`ColumnsAgree`), `BareRows` (`BareRowsAreSuppressedSightings`).

`ClosedDaysSpanWindow` is not inductive: a transaction that has decided to check out
may find another check-in under its UPDATE. `IInv` adds (`Late`) that a transaction which read no check-in, and finds
one now, began no later than a transaction's length after it; (`Settled`) that one which read a check-in at least a
window old read the final one, since nobody else can still be writing an earlier decision; and (`Sightings`)
what an unedited row looks like. The step that matters is the commit (`CommitSightings`, `CommitIInv`);
every other action leaves the rows alone. `CommitImplementsDay` maps the commit to the four actions of `AttendanceDay`; everything
else is a stutter.

`ColumnsAgree` needs more, because an UPDATE names only the columns that differ from what its session loaded: a row may be put together
from several images. `ColumnsIInv` says of an open and of a closed row what its columns have to do with each other (`OpenAgrees`, `ClosedAgrees`), the
same of the row each sighting decides on (`SeenAgrees`), and (`ClosedAt`) that there is an instant, the commit of the first check-out, at which every session that still believes
the day open was under way. The check-outs that contribute columns therefore lie within a transaction's length of each other.

### Pipeline and streams

`EventPipelineProofs`: `PipelineInductive`, `PipelineTyped`, `EventsInOnePlace` (`OnePlace`), `EventsWrittenOnce` (`WrittenOnce`), `EventsInOrder` (`ReplayedInOrder`),
together `Delivered` (`DeliveredOnceInOrder`), and `NoopIsRecorded` (`NoopMeansRecorded`). `IInv` says that an open event waits in exactly one of the retry list, the drained batch and the
queue, once, and that an id not handed out is nowhere (`HeldOnce`); what the attempt under way has to do with its event (`Attempted`); that what was committed
is recorded with the event that did it (`WritesRecorded`); and whose marker a marker is (`MarkersExplained`, `NoopExplained`). `Stop`, `FailRollback` and
`StartDrain` rearrange the three sequences; the lemmas about concatenation (`ConcatEvents`, ...) carry `HeldOnce` through them. For the order, `InOrder` says
it of each sequence and of any two of them: what is in the retry list is older than what is in the batch, and that than what is in the queue
(`ConcatAscends` puts them together when the consumer is stopped or the next drain starts).

`StreamLoopsProofs`: `StreamsInductive`, `StreamsTyped`, `ReleasesAwaitReads` (`ReleaseAwaitsReads`), `LiveStreamsHaveLoops` (`LiveMeansLoop`), `RestartsJoinALoop`,
`CapturesUsedWithCare` (`UsedWithCare`). `IInv` says where loops, registered streams and captures
can be (`LoopsPlaced`, `RegistryMade`, `CapturesPlaced`), and (`Tidy`) that a stream which never had two loops has either one reader, of its
own capture, or one abandoned read of a capture it has let go of. A loop is cancelled at any await; the abandoned read keeps its capture apart until it returns.

`LiveMeansLoop` is inductive beside `IInv`: whatever ends a loop takes its stream offline. `RestartsJoinALoop` draws the conclusion for the health monitor, which skips streams that are
offline: each loop it spawns joins one that is there. It restarts nothing.

`CapturesUsedWithCare` maps every step to a step of `CaptureUse` or a stutter. `CapturesOpen` adds that what the stream has at hand, or an abandoned read still reads,
is open, and `OneRead` follows from both invariants: a capture nobody contends is read by one at most. `UseStep` says what has to be
shown of an action: that it treats one capture as `CaptureUse` allows and leaves the others alone; `UseContended`, that a stream that gets its second loop
takes its captures along. Only the first step of a loop (`BeginUse`) does the latter; the other resumptions (`HeadUse`, `OpenedUse`, `AbandonedUse`, `ReadReturnsUse`) do the former.

### Face index

`TypeCorrect` and `MapsAlwaysMatch` (`MapsMatch`) for any number of processes; `Inductive`, `Names` (`NamesTheirOwner`) and `Survival`
(`SavedChangesSurvive`) for one.

`Sound` says that everything that is anywhere, in memory, in the files, in a bundle or in an
operation under way, is well kept: its two maps are inverses and name no id that was not handed out; `Loaded`
makes that and `MapsMatch` of any two files, which is why no single process is needed. The other two need more:
the two files may be of different ages, so `IInv` adds (`InStep`) that what they name the memory names alike, with
a next id at least theirs; between the two writes, which file is already the new one; (`Importing`) the same
for a bundle that replaces everything; and (`SavedInv`) that the files and the memory hold exactly the acknowledged
ids of each person whose last change was saved. A crash is then the lemma `FreshInStep`: what a successor loads is in step too.

### AccessProofs: cards, roles, accounts, visitors, setup

*Cards:* `CardsInductive`, `CardsTyped`, `RevokedAreDead`, `DayExplained`. A revoked card keeps its holder and stays inactive
(`RevokedStay`), because a uid is free only without a holder; so a tap that began late finds it inactive, and `TapFits` carries that through the
stages to the event. The row and its event are one commit (`CommitTapIInv`), and `DayAfter` adds to the row as it is at the commit.

*Roles:* `RolesInductive`, `RolesTyped`, `RolesMeant`. An edit that no other commit crossed has loaded what the role has
(`UpToDate`), so the differences it writes give what was asked. Two edits of one role know of each other (`RivalsKnow`), and whichever is not `alone`
marks the role as muddled.

*Accounts:* `AccountInductive`, `TokensEnd` (`TokensEndWithPassword`), `SuperAdminStays` (`SuperAdminRemains`). Whatever a login read or a token
carries is dated by the row (`Dated`): its stamp is at most the row's, and less if the password has changed since, unless two changes fell in one second or were
committed in the other order (`hasty`).
`OneAtATime`: while administrators do not overlap, some active super admin is nobody's to demote.

*Visitors:* `VisitsInductive`, `VisitorRow` (`VisitorRowAgrees`). `Handles` says what a session at each stage keeps of what it read; `Orderly`, that as long as nothing
overlapped or failed half-way (`crossed`), every session under way saw the row as it is and the index is as the last that touched it left it.
Deleting the primary photo makes the newest of the rest primary: that there is a newest is `PhotosOrdered`, an invariant of the state (every nonempty set of photos has
a newest), so that no induction over finite sets is needed.

*Setup:* `FirstInductive`, `SetupTyped`, `OneIsSetUp` (`OneOrganization`). Nothing locks the organization; what lets one first setup through is the unique names of the
roles, which it inserts before it looks for the organization. `OneNewcomer` says that one setup at a time has inserted the roles of a database, `VisitFits` what a setup at each stage
has found there, and `RolesBringOrganization` that roles and organization are committed together, the admins not before them. A migration that
renames the database, or a restart, may come between any two stages: a setup goes on in the database it began in.

### RecognitionProofs: cameras, tracks, sightings, faces

*Cameras:* `CamerasInductive`, `StreamsHaveRowUrls` (`StreamsFollowRows`), `ListsAreFresh` (`ListsFollowRows`). A request that is alone on its camera
knows so (`AloneIsAlone`) and what it read is what the table says (`ReadsAreFresh`); between the drop of the list and the commit of an edit, only a list marked as raced is
stored (`DroppedStaysDropped`). The deletion of the location or company changes rows beside readers that take no notice of it, so what a reader holds is what the
table says or names a camera that went with them (`Tells`, which a row that is gone keeps); an edit cannot be beside it and alone.

*Tracks:* `TracksInductive`, `NamesStay`. A recognition under way is of a face that was seen on its track if that track is still there, and names
nobody else (`JobStands`); ids of tracks are used once, so a late result cannot meet another track of its id.

*Sightings:* `SightingsInductive`, `TailgatersTwo`. A request has an id of its own, and a tailgating alert it has raised has a committed event
of somebody else within the window (`AskStands`); events on record stay.

*Faces:* `FacesInductive`, `FlagTells` (`FlagTellsIndex`), `ForgottenStay` (`ForgottenStayForgotten`). `Forgotten`: who is settled has no vectors, and no enrolment about them is under way.
`Apart`: unless requests about one employee overlapped, those under way are about different employees, each has at hand the rows and flags that
match what it did to the index (`Midway`), and everybody whom no request is about agrees (`Agrees`).

### OfficeProofs: organizations, chat, presence, policies, anomalies

*Organizations:* `TreeInductive`, `TreeTyped`, `MovesMakeNoCycle` (`NoCycle`), `CountBoundsLoss` (`OnlyNewcomersAreLost`), `PlacesInductive`, `PlacesFit`
(`PlacesFitCompanies`).

`NoCycle` is stated over sets (every set of units has one whose parent is outside it), which needs no
induction over paths. `TreeIInv` adds that units form a forest (`Forest`), that the root of a company is locked by one move at
most (`LockedOnce`), and (`MoveFits`) that a move which holds the lock has judged the tree as it still is: the new parent is not below the node.
What is below a node is the least set closed under children, so that the guard can be carried over another company's move: a move changes
what is below only within its own company, the families of two companies are disjoint, and a second move of the same company waits
for the lock. `CountedBelow` says that whoever is on a unit under deletion came after the count; the cascade takes no other.

`PlaceIInv` adds that the rows of employees and locations fit (`RowsFit`), and that a hire or an edit under way has checked node and location of one company
(`HireFits`, `EditFits`). What carries it through moves is that a node never changes its company (`RootIn`): the root of a node
is the same after a move inside its company, a creation and the deletion of another node.

*Chat:* `ChatInductive`, `MembersSend` (`SentByMembers`), `OneRowPerRace` (`RacersInsertOnce`). At most one thread is past the unique key (`DirectOnce`) or the claim of a call (`CallOnce`)
without having committed; messages are below the last id, and so are the marks but of those who asked for one ahead of it (`MarksPlaced`).
So a send under way of anybody else has a membership to update, and fails if a removal took the row it loaded.

*Presence:* `PresenceInductive`, `GhostsAreLosses` (`NoGhosts`). Each counter is at most the number of sockets that hold it, and one that is used up
is about to be deleted (`Counted`), unless a decrement or a delete of it was lost.

*Policies and holidays:* `DutyInductive`, `RulesUnambiguous`. Of two that choose a default at once, each knows or is known (`ChoosersMeet`), and a
chooser that is alone has read every default there is to clear but its own (`AllCleared`).

*Anomalies:* `AnomaliesInductive`, `TriageSigned`. A row that one triager held alone is as it was read (`ReviewStands`); a run inserts rows of its own
(`RunsInOrder`).

### WorkplaceProofs

The components of `MCWorkplace` share no variable, so whoever does not move stands still (`OneMoves`), and each begins as it does alone (`OneBegins`). `WorkplaceIsItsParts`:
the workplace implements the specifications of the eleven components that state no fairness. The hub, the visitors and the setup have loops that the workplace
owes a turn only while they are the ones that move; of them it keeps what their steps keep (`LoopsKeep`). From both follow `WorkplaceTyped` (`WorkplaceTypeOK`), and
`WorkplaceIsSafe`: every safety property of the components, in one state with all the others, but `PlacesFitCompanies`, which needs `GrantsStayHome`.

### Only model-checked

* Liveness: `EventsSettle`, `StopsReturn`, `RemovedStreamsLetGo`, `LoopsSettle`. It rests on fairness, and ENABLED and liveness are out of
  reach of the installed provers.
* The violation runs show what the code does on an instance; there is nothing to prove.

Proved, and not a property of a run of their own: `ReleasesAwaitReads` is part of `UsedWithCare`; `RestartsJoinALoop` follows from `LiveMeansLoop`; `TriageSigned` (`TriageIsSigned`:
who closed or acknowledged an anomaly, and when, come from one request, unless two had the row at once) is part of `AnomalyIInv`.

## Read in the code, and not a property

Some of what the modelling showed is no disagreement with a stated promise, or is outside every model; it is written down here.

* `api/shifts.py` passes the text of a date to DATE columns (shift assignments, leave requests); asyncpg refuses it. So `DutyRules` has no assignments.
* Deleting a location turns its holidays into holidays of the whole company (ON DELETE SET NULL), and fails if the company has one of that date.
* `rapid_recheck` of the anomaly detector never fires, and a detection during the day calls everybody at work a `missing_check_out`.
* Full, bulk and repeated enrolment do not ask the anti-spoofing model; the other ways do.
* A re-enrolment removes the old faces before it judges the new images; `reject_visitor` keeps the visitor's face in the index.
* `sync_streams_from_db` only adds: a stream of a deleted camera stays until the process ends. `delete_camera` drops the cached list before the DELETE.
* Deleting a company deletes its locations and cameras by cascade (`organization_service.py:209`, `models/location.py:14`, `models/camera.py:44`) and drops no cached list: one request,
  without a race, leaves the list as it was until it expires, and the streams run on. Deleting a location does so only if a camera was created after the count.
* `mark_read` stores any integer (`chat_service.py:906`). Of a member whose mark is beyond the ids, `send_message` updates no membership, so a send that was under way when
  the member was removed commits.
* `password_changed_at` is read in the handler, before the flush (`auth.py:219`, `users.py:243`). Two changes may commit in the other order; the later commit then has
  the earlier stamp, and a token issued between the two stays good.
* Two requests may pass the check of `start_migration` together; two first setups may each create a super admin.
* A migration that is asked for again with the same name after it failed past the rename finds nothing to rename, and does not reconnect the engine, though its status becomes `done` (`setup_migrations.py:169, 193`).
* Two super admins may demote each other at once; a login that re-hashes may put an old password back.
* A stream loop that dies is not restarted by the health monitor, because ending sets the stream offline (`stream_manager.py:709`; `RestartsJoinALoop`); a start while `stop()` waits leaves the manager without a monitor (276).
* A slow socket's queue drops events (`hub.py:249`); a database error in the best-effort security checks spoils the attendance write (`recognition_service.py:318`).

## Not modelled, and why

Neural networks, scores and thresholds (real numbers; a score is a band where a guard asks for it); liveness challenges (scored from landmarks);
formatting, reports and exports, audit rows and monitoring (append-only or read only); uploads (files); schema
migrations' content and seeds (run alone); the frontend (a client; the server does not rely on it); deployment.
Within modelled components: overtime, frames and overlays of the hub, a hub without Redis, typing and signalling of
chat, the visitor blacklist, documents, badges and zones, heartbeats and frame capture of cameras, profile fields and rate limits of
accounts, queries everywhere. `PROJECT.json` names these in each component's note.

One hazard has no property: live events are sent before the commit (`live_event_service.py:35`), which the hub's model delivers without asking who sent them. What two
triagers of one anomaly do to each other (`anomaly_service.py:228`) no run checks; the theorem `TriageSigned` is about it.

## Plan

1. *Abstractions.* A roster of who is online that `PresenceHub` implements as long as no call fails; a directory of faces that a process of `FaissIndex`
   implements as long as no save fails; both with a proof of each step.
2. *Compositions.* `PresenceHub` with a handler that emits before it commits; `VisitorAccess` and `FaceEnrollment` over `FaissIndex`
   in place of the sets they keep.
3. *Beyond the provers.* The liveness of the consumer and of the stops, when a prover for ENABLED is at hand: the stale age of an event, and the grace period of a stop, are
   the measures that decrease.
