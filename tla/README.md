# Verification of SRM_StaffManagement

TLA+ models of the staff-management app in `src/lib` (Flutter/Dart over
Firestore) and of the parts of the Flutter engine it ships in `src/flutter` on
which every screen depends, checked with TLC on small instances and proved with
TLAPS for every value of the constants.

There is no server of the app's own. Every device talks to Firestore, the code
uses no transaction and no precondition, and one method is a sequence of awaited
requests. So the question of the application's modules is always the same: what
survives when calls interleave at their awaits, fail between two of them, or act
on what they read earlier? The engine's modules ask the same of threads: what
survives between two locks?

## The system

Application (paths below `src/lib`):

| Part | State | Operations | Correct if |
|---|---|---|---|
| Check-in and check-out (`services/staff_service.dart`, `services/attendance_service.dart`) | documents of `staff_attendance`; counters in `staff` | `checkIn`, `checkOut` of both services, `updateStaff`, `deleteStaff` | a record is closed on its own day with the right duration; the past is frozen; counters never run ahead of the records |
| Synchronisation, corrections, CSV (`attendance_sync_service.dart`, `attendance_service.dart`, `attendance_history_screen.dart`) | `staff_attendance`, the legacy `attendance`, audits, reports | `synchronizeAttendanceData`, `updateAttendanceWithAudit`, `importAttendanceFromCSV` | repeating or overlapping runs converge; a run only widens records; audits tell what was written |
| Leave requests (`leave_request_service.dart`, `models/leave_request.dart`, `request_leave_screen.dart`) | `leaveRequests`, the form | select dates, submit, approve, reject, cancel, update, conflict test | no range is inverted; a status carries its signature; no shared day is missed |
| Provider and session (`providers/staff_provider.dart`, `staff_dashboard_screen.dart`) | subscriptions and their handles, current staff, saved id | login, initialize, refresh, check-in button, logout | no stream deaf, the device follows who is logged in |
| Accounts and PINs (`auth_service.dart`, `staff_migration_service.dart`, `edit_staff_screen.dart`, `update_profile_screen.dart`) | `staff` documents: number, PIN, role, active | first admin, create account, sign in, change, reset and default PIN, edit, toggle, delete | lookups miss nothing settled that they could ask for; a stored PIN can be typed; one account per number |
| Keypad and session cache (`screens/auth/staff_pin_screen.dart`, `auth_service.dart`, `screens/role_based_dashboard.dart`) | typed PIN, four preferences, cached role | keys, automatic submit, preference writes, dashboard, guarded pages, logout | the session is that of the login that opened it; a PIN is submitted once; the keypad recovers |
| Schedules and shifts (`schedule_service.dart`, `shifts_service.dart`, `staff_service.dart`) | `schedules` | add, update, delete, bulk create | not modelled: the writers are not reached from a screen of this version |
| Cloud functions, managers, permissions, rules, notifications, device PIN, demo data, remaining screens | - | single-document writes, tables, plug-ins, layout | not modelled, see below |

Engine (paths below `src/flutter/engine/src/flutter`):

| Part | State | Operations | Correct if |
|---|---|---|---|
| Task queues and loops (`fml/message_loop_task_queues.cc`, `fml/task_source.cc`, `fml/message_loop_impl.cc`, `fml/platform/linux/*`) | heaps of tasks, owners, pauses, timers, loops | post, merge, unmerge, pause, resume, wake up, flush, terminate | no wake-up is lost; order is kept; a dead loop accumulates nothing; every task is served |
| Frames (`shell/common/animator.cc`, `vsync_waiter.cc`, `pipeline.h`, `rasterizer.cc`, `shell.cc`) | frame semaphore, callbacks, pauses, two semaphores and a queue, tasks | request, await, vsync, begin, end, draw, resubmit | one request at a time; the pipeline is a bounded queue; nothing is drawn after something newer; requests get their vsync |
| Raster thread merging (`fml/raster_thread_merger.cc`, `fml/shared_thread_merger.cc`, `rasterizer.cc`, `shell.cc`, Android's external view embedder) | leases, `enabled_`, surfaces, overlay pool | Draw with and without platform views, merge and unmerge, platform view created and destroyed | one thread paints, until the threads are changed under a Draw; destroying a view waits for the drawing; a frame has a Draw to come for it |
| Everything else (display lists, Impeller, layers, text, bindings, embedders, other platforms) | - | - | not modelled, see below |

How they interact. Screens call services directly or through the provider; the
provider's listeners are the only callbacks. Services share state through
documents: `staff` is written by check-out (counters), by account operations
(PIN) and by the edit forms (every field); `staff_attendance` by check-in,
check-out, corrections, import and the synchronisation. `AttendanceSync` composes
the last four over the same records. `Attendance` and `Accounts` each keep the
fields of a staff document that they are about; the edit form writes both, so it
is an action of both. `PinSession` takes from `Accounts` that a PIN is right or
wrong, and `StaffDevice` starts where `PinSession` has stored an id.

In the engine, `TaskQueues` is what runs the tasks that `FramePipeline` and
`RasterThreads` post. The animator asks the vsync waiter for a frame, which
pauses the Dart tasks of the UI queue and posts the frame task; the frame's trees
go through the pipeline to the rasterizer; with platform views the embedder
merges the raster queue into the platform queue in the middle of the Draw.

What is hard here:

* interleaved read-modify-write without transactions (counters, edit forms,
  batches, PIN changes);
* `DateTime.now()` taken once at the start of a call and used after awaits;
* calls that die half-way, and retries of what had in fact been done;
* subscriptions replaced across an await, screens left while they await;
* local-time arithmetic across clock changes; lookups made of several queries;
* decisions made under a lock and acted upon after it (wake-ups, semaphores,
  callbacks, the thread a Draw runs on);
* one thread waiting for another that may need it.

`PROJECT.json` lists each of these at its line, with the property that covers it.

## The modules

| Module | What it models |
|---|---|
| `Attendance` | both services' check-in and check-out, one action per awaited request; edit forms; deletion; time |
| `AttendanceLedger` | the abstract time sheet: entries that open, keep owner and start, and end on their own day |
| `AttendanceSerial` | the counters when calls do not overlap, with two history variables |
| `MCAttendance`, `AttendanceProofs` | instance; theorems |
| `AttendanceSync` | synchronisation, corrections, CSV import, against check-in and check-out |
| `AttendanceSyncSerial` | histories that overlap, or are reworked, but not both |
| `MCAttendanceSync`, `AttendanceSyncProofs` | instance; theorems |
| `LeaveCalendar` | midnights, `totalDays` and the overlap test on days of 23, 24 and 25 hours |
| `LeaveRequests` | the form, the requests, decisions and edits |
| `MCLeave`, `LeaveProofs` | instance; theorems |
| `StaffDevice` | provider calls as programs that interleave at their awaits; session; home tab |
| `MCStaffDevice`, `StaffDeviceProofs` | instance; theorems |
| `Accounts` | staff documents by phone number and PIN, all calls that write them |
| `MCAccounts`, `AccountsProofs` | instance, serial promises; theorems |
| `PinSession`, `PinSessionProofs` | PIN screens, preferences, dashboard of one device; theorems |
| `TaskQueues`, `TaskQueuesProofs` | task queues and the loops that serve them; theorems |
| `FramePipeline` | animator, vsync waiter, pipeline, rasterizer |
| `FrameQueue` | the abstract bounded queue with places held by producers and consumer |
| `RasterThreads` | merging, leases, platform-view lifecycle of shells that share two threads |
| `MCRasterThreads` | instance |
| `FramePipelineProofs` | theorems on `FramePipeline` and on `RasterThreads` |

### How code becomes actions: the application

A method starts with an action that takes its arguments (and `DateTime.now()`);
each later awaited request is one action, whose guard is the program point
(`call[t].at`). What happens between two awaits is part of the earlier action's
successor. A thrown exception ends the call at that point and leaves earlier
writes in place (`CallFails`, `GiveUp`, `EditFails`, `SubmitFails`,
`ServiceReturns`, `RequestFails`). An app that is killed looks the same to the
documents.

* **Attendance.** `StaffService.checkIn` is `StaffCheckIn` - `TouchStaff` -
  `AddRecord`. `checkOut` is `StaffCheckOut` - `TouchStaff` - `FindOpen` -
  `UpdateRecord` - `ReadCounters` - `WriteCounters`. `AttendanceService` uses
  `GuardCheckIn` - `AddRecord` and `FindOpen` - `UpdateRecord`. A date is a time
  stamp or a string, as in the code, and the two are never equal to Firestore.
  `closes` is history. The times in `lastCheckIn` and `lastCheckOut` are only
  displayed and left out.
* **AttendanceSync.** A run is `FetchPrimaryRecords` - `FetchLegacyRecords` -
  `ApplyUpdates` - `SaveSyncReport`; everything the code computes between the
  second fetch and the commit is in `Merged`. A dry run commits nothing. With
  `"fail"` in `Ops` the answer of a commit may be lost. A check-out is two steps,
  a correction four (dialog, save, update, audit), an import one per row. A row is
  pasted text: it may create a record or overwrite one, with any times, duration and
  status (`Rows`). The export only reads.
* **LeaveRequests.** The pickers' rules are `SelectStart` and `SelectEnd`.
  Decisions are single updates. `updateLeaveRequest` is `UpdateLeaveRequest` -
  `CheckPending` - `WriteEdit`. A document id is drawn by `add`.
* **StaffDevice.** A provider call is a sequence of steps (`LoadOf`,
  `CurrentLoad`, `CheckInOut`, `Logout`). `Next` also keeps three history
  variables: `overlapped`, `departed`, and `since`, the listeners there were at the
  last logout that overlapped nothing, and whether calls have overlapped again.
  `Deliver` is a listener callback.
* **Accounts.** A lookup asks for one spelling of the number after the other
  (`LookUp`), each in a query of its own. `there` is history: the accounts that
  matched when the lookup began and that nobody has written since. A number has one
  of the two spellings that lookups ask for, or the one it was typed in: the form of
  `main.dart:4163` stores it so, and no lookup finds it. Creating an account over one
  that exists writes number and PIN (`auth_service.dart:458`), also over a number
  changed since the lookup. A stored PIN is what was typed and how often it was
  hashed; a staff member may be added without one. `UpdateStaff` hashes whatever
  PIN the staff object carries. `copied` is history: the accounts to which a
  `copyWith` of a staff object was written back.
* **PinSession.** A key (`OnNumberTap`, `OnBackspace`) starts the debounce; the
  last digit starts `_verifyPin`, whose awaits are the stages of a screen: query,
  anonymous sign-in, four preference writes. There is no submit button. `Leave`
  is `dispose`: what the screen awaits goes on, and its `mounted` checks decide
  what is left of it. `DetermineUserRole` and `OpenGuardedPage` are
  `getCurrentUserRole`, which prefers the cached role to the document, and answers
  null when a request of it fails (`auth_service.dart:257`): the dashboard then shows
  an error with a way back to the login page, a guarded page goes by `StaffRole`
  (`main.dart:68`). `left` is history: a screen was left between the first preference
  and the last.

### How code becomes actions: the engine

A step is what happens under one lock, or between two accesses to what another
thread touches.

* **TaskQueues.** Every method of `MessageLoopTaskQueues` holds `queue_mutex_`
  and is one step; `PostTask` is two, the check of `terminated_` and
  `RegisterTask`. A queue's two heaps are one set; a paused source hides its Dart
  tasks (`Runnable`). A loop is `PollReturns` (epoll) - `TimerDrain` -
  `GetNextTaskToRun` and `FinishTask` in turn - `FlushEnds`. `WokenAt` is "if
  there are pending tasks, wake up at the time of the first".
* **FramePipeline.** The UI and raster threads take their tasks in order. The
  animator: `RequestFrame` - `AsyncWaitForVsync`, then `DrawLastLayerTrees`,
  `PipelineFull`, or `BeginFrame` - `EndFrame` - `SignalAvailable` -
  `OnAnimatorDraw`. `SignalAvailable` is apart because `ProducerCommit` signals
  after its lock. The vsync thread: `TakeCallbacks` - `PostFrameTask` -
  `PostSecondary`. The rasterizer: `Draw` (`TryWait`) - `Pop` - `DoDraw`, and for a frame to draw
  again `ProduceIfEmpty` - `ProducerCommitIfEmpty` - `SignalAgain` - `PostDraw`.
* **RasterThreads.** The UI thread pushes a frame (`ProduceFrame`), then signals it
  and, for the first of the pipeline, posts its Draw (`SignalFrame`). A Draw is
  `LeaveFrame`, on the wrong thread or before the signal, or `Consume` -
  (`DestroyLayers`) - `PostPrerollAction` - (`MergeIfEnabled` - `MergeQueues` -
  `SaveLease`, or `ExtendLeaseTo` - `SubmitFlutterView`) - `DecrementIfMerged` -
  (`DecrementLease` - `Unmerge`) - `FinishDraw` - (`PostAgain`), on whichever thread
  serves the raster queue when its task is taken. Each shell has a merger with a mutex
  in front of the shared one with another. Questions are asked under the first alone,
  so a shell may look between `MergeQueues` and `SaveLease`
  (`shared_thread_merger.cc:28-31`), or between `DecrementLease` and `Unmerge`, of the
  other; `Free` and `SharedFree` are the two mutexes. The look at the lease map beside
  a write of it is a data race in the code; the model lets it see the map before or
  after the write. The lifecycle calls disable the merger (`Begin`), then run or post
  `Setup` and `Teardown`; the last shell to be torn down parts the threads
  (`UnMergeNowIfLastOne` - `UnmergeNow`); destroying waits. `aborted` is a failed
  `FML_CHECK` or a null surface used, after which nothing happens.

  Four histories serve the properties. `config` says of a Draw whether what the leases
  say has changed since it began, and by whom: by itself, or by the other thread
  (then it was *overtaken*). `strayed`: a lease was extended although the threads were
  not merged. `missed`: a Draw has left a frame where it is, and none was posted
  since. `late` and `shifted` of a call: a set-up posted before was still to run at
  the teardown; the raster thread has merged or parted the threads in the course of it.

## The runs

| Run | Question | Instance |
|---|---|---|
| `attendance` | Do records, history and counters survive overlapping calls, an edit form, failures, deletion? Is every step one of the time sheet? | 1 staff, 2 calls, 2 records, times 0 to 2 over two days |
| `leave` | Form, races of two edits with decisions, clock changes | 1 request, 4 days: 23, 25, 24, 24 hours |
| `device` | Listeners over logins, logouts, refreshes, check-ins | 2 staff, 2 calls, 3 streams, 7 listeners |
| `accounts` | Lookups and PINs under two interleaved calls | 2 accounts, 2 numbers, 2 PINs |
| `sync_records` | Records under every operation | 1 record, 2 calls, times 0, 120, 300 s |
| `sync_converge` | Overlapping, failed and repeated synchronisations (`ConvergeSpec`, nothing else) | 2 records that may share a key |
| `pin_session` | Keypad and session under wrong PINs, failures, screens left, restarts | 2 staff, 2 roles, 2 screens, PINs of 2 digits, 1 change |
| `task_queues` | Wake-ups, order and termination across merges, pauses and timers | 2 queues, 1 caller, 2 tasks, 1 merge, 1 pause, times 0 and 1 |
| `frame_pipeline` | Requests, vsyncs, pauses and the queue under resubmission | depth 2, 3 frames, 1 resubmission, 1 secondary callback, backlog 2 |
| `raster_threads` | Merging in a Draw against view creation and destruction | 2 shells, depth 2, 3 frames, 2 lifecycle calls, 4 of these in all, lease 2 |
| `frame_stuck`, `reactivation_locks_out` | disagreements between a comment or text and the code | smallest that shows it |

Why the bounds are enough:

* *Attendance.* Two calls are the fewest that race. Two records allow a second
  open record on a day; instants 0 to 2 contain a midnight, with two instants on
  its first day. `IdLeft` lets a check-in begin only if an id is left for it.
* *Leave.* `Narrow` explores all four days with one edit in flight and the form
  while nothing is edited; two racing edits stay on the first two days. Dates
  only matter to the calendar, races only to statuses. The clock changes lie on
  adjacent days, and two ordinary days follow so that exactness is exercised.
* *Device.* "staff", "today" and "current" stand for the three shapes of a load;
  "dashboard" and "status" are written like "today". Seven listeners are enough
  for two full loads of the three streams, and one more.
* *Accounts.* Alone, a call explores two accounts, numbers and PINs. Once calls
  overlap `Narrow` lets only one of the three have two members: two PINs of one
  account, two numbers of one, or two accounts of one number that nobody edits, with at
  most one edit form open. So respelling, two hits of a query, and different PINs each
  appear against an interleaved call. A number stored as typed, which lookups pass
  over, then is the only number. Administrators and the first of them play no part
  in these properties, so overlap is explored without them. A PIN is hashed at most
  twice (`MaxHashes`). The theorems need none of these bounds.
* *AttendanceSync.* The seconds give a difference of zero, of minutes, and an
  inverted pair; legacy records include wrong durations and open shifts; pasted rows a
  duration that does not fit, a check-out before its check-in, and a shift opened
  again. In `sync_records` a history that overlaps ends with its first audit or report,
  and has one synchronisation or saved correction at a time, whose legacy record has
  one pair of times (`Narrow`): check-ins, check-outs and imports overlap it freely.
  Overlapping synchronisations are `sync_converge`.
* *PinSession.* Two screens are one that was left and goes on, and the one opened
  after it; a PIN of two digits has a first digit, which only debounces, and a
  last, which submits. The one change is a restart or an account edited while a
  login is under way.
* *TaskQueues.* Two tasks can be in either order of time and number, in one queue
  or two, paused or not; one merge and its unmerge can fall anywhere in a flush.
  The platform queue is also the UI queue, which is how the engine runs where the
  two threads are merged. The theorems hold for any number of all of these.
* *FramePipeline.* Depth 2 and three frames fill the pipeline; one resubmission
  meets an empty queue, a newer frame, or a full pipeline. The backlog bounds
  only what the application asks for, never what the threads must do.
* *RasterThreads.* Two shells are what makes a lease shared. A lease of two with three
  frames is extended, runs out on the platform thread and parts the queues, and runs
  out under a Draw that stands still on the other thread: all the ways a Draw is
  overtaken appear. Two lifecycle calls destroy and create a view, or destroy two.
  `MCRasterThreads` bounds frames and calls together (`MaxSteps`), lets the last frame
  come before the first call, and, the shells being alike, the first event be one of
  `First`. Of the exceptions in `SuspendedOnReturn`, a surface that a late set-up
  leaves behind takes more calls than that; the theorem covers it, for any number of
  everything.

`CHECK_DEADLOCK FALSE` is set where the bounds stop the system (listeners,
tasks, frames, calls or changes used up) or it rests (nothing to draw). Symmetry
is used over slots for calls, editors, and, in `Accounts`, documents, numbers and
PINs: the modules treat their elements alike and choose none. It is not used in
runs with liveness.

### What the properties say

* **Unconditional** (any overlap, failure, deletion): `ClosedOnItsOwnDay`,
  `HistoryFrozen`, `ShiftsBackedByCloses`, `ImplementsLedger`; `ProperRanges`,
  `DecisionsAreSigned`, `NeverMissesConflict`, `NeverOvercountsDays`,
  `ExactBetweenChanges`; `NeverMissesSettled`,
  `PinsCanBeTyped`; `RepeatIsStable`, `RunsConverge`; `SubmittedOnce`,
  `KeypadRecovers`; all of `TaskQueues`, `FramePipeline` and `RasterThreads` but
  for the cases named below.
* **While calls do not overlap:** `CountersMatchRecords` (also needs that nothing
  failed and no form was opened), `FollowsSession`, `NoSecondAccount`,
  `MigrationKeepsPin`, `SyncIsConservative`, `AuditMatchesRecord`. That they need
  the condition is not a choice of the model: each fails with two overlapping
  calls.
* **Until something happens:** `NeverDeaf` until somebody logs out, `SessionOfLogin`
  until a screen is left while it writes the preferences. `LogoutRecovers` takes up
  where `FollowsSession` ends: from a logout on that overlaps nothing, and until calls
  overlap again, no further listener is lost and the device follows its session.
* **Save for what is named:** `DurationFollowsTimes` excepts the records last written
  by a synchronisation, by an import, or by a call that read other times: every other
  check-out and correction leaves times and duration in agreement. `OneRasterizes`
  excepts Draws that were overtaken, `LeaseMatchesQueues` a lease extended by one,
  `SuspendedOnReturn` what such a Draw and a late set-up leave behind, and
  `NoFrameForgotten` a frame that a Draw has left where it is. `WaitEnds` names two
  states in which the platform thread waits for ever (`TakenOver`, `Circular`), and
  an aborted process.

### Fairness

* `TaskQueues`: time passes, each loop takes its steps, a pause is followed by a
  resume (the vsync task ends). Posting, merging and terminating are free.
* `FramePipeline`: the UI and raster threads run, and the platform answers each
  vsync it was asked for, as `vsync_waiter.h:58` demands of it. Nobody is obliged
  to ask for a frame or to have one drawn again.
* `RasterThreads`: each thread takes its steps and a lifecycle call goes on. Frames,
  their signals and lifecycle calls are free, and nothing is assumed of the platform
  task of `DestroySurfaces`: the raster thread waiting for it is in `Circular`.
* `PinSession`: what is awaited ends, with an answer or an error; the debounce
  timer fires; the dashboard loads. A request that never ends is outside this
  assumption: then the keypad indeed stays locked, since the code sets no timeout.
* The modules of Firestore documents assume no fairness and state no liveness.
  An awaited write completes only when the server has answered: offline it may
  wait for ever, and no result there depends on it.

### Where the code does not keep what it says

With a run and an entry under "findings":

* `frame_stuck`: `ProducerCommit` (`pipeline.h:233`) signals after its lock, so a
  frame may be left in the pipeline with nobody to draw it, although
  `animator.cc:150` says the rasterizer will eventually consume it.
* `reactivation_locks_out`: reactivating an account hashes its stored hash
  (`staff_service.dart:36`), although `edit_staff_screen.dart:723` says that it
  restores sign-in access.

The models contain more of the same kind, without runs of their own:

* `AttendanceService.checkIn` compares the stored time stamp with the string of
  the day (`attendance_service.dart:126`) and never notices an earlier check-in;
  `checkOut` never finds the open record for the same reason.
* Overlapping check-outs lose a credit, or count one record twice.
* The home tab may act for the previous user, or the first of the staff list,
  until the new document arrives (`staff_dashboard_screen.dart:145`).
* A synchronisation reopens the status of a record closed since the fetch
  (`attendance_sync_service.dart:378`), may write one resolved time and keep the
  old duration, and its report validates what was fetched.
* `updateLeaveRequest` overwrites a decision made after its check; after a
  23-hour day the conflict test reports a day too many and `totalDays` counts one
  too few (`ExactBetweenChanges` excludes those days).
* Two overlapping loads leak a listener, a load during `clearListeners` survives
  the logout, and `setCurrentStaffId` may return early while nothing listens.
* Two first admins, two accounts of one number, a PIN change that overwrites a
  reset, a form that reactivates an account.
* A PIN screen that was left while it wrote the preferences goes on writing them
  over those of the next login.
* `enabled_` of the thread merger is a flag and not a count: a set-up posted
  before `OnPlatformViewDestroyed` enables merging again after `shell.cc:996`
  disabled it, and the platform thread may then wait for a teardown in a queue it
  has itself subsumed (`TakenOver`). Likewise a Draw that destroys overlay
  surfaces waits for the platform thread that waits for it (`Circular`).
* A set-up posted to the raster queue by `OnPlatformViewCreated` may run after the
  teardown of the same view: another shell merges the threads in between, and the
  teardown runs at once on the platform thread (`shell.cc:1027`). The rasterizer
  keeps a surface of a view that is gone (`late`).
* After the merge in its Draw the raster thread still uses the surface
  (`rasterizer.cc:683`) beside a platform thread that may be drawing, or tearing that
  surface down: `OnPlatformViewDestroyed` does not wait for it. If its lease has run
  down meanwhile, its own decrement parts the threads under a Draw, or fails a check.
* Between the merge of the queues and the record of the lease a Draw of another shell
  on the platform thread yields (`rasterizer.cc:248`), since the leases still say that
  the threads are apart, and is not posted again.
* An account whose number was stored as typed is not found when it signs in, and a
  second one may be added for it.
* A CSV import writes any times and duration it is given, over records changed since
  they were exported.
* The check at `shared_thread_merger.cc:59` fails when a shell whose lease has
  run out draws while the other shell's lease keeps the threads merged.
* `shell.cc:1352` reports the first frame when a Draw returns, also one that drew
  nothing.

## What is proved

Every safety invariant and every action property of the passing runs, for every
value of the constants under the named assumptions of each module:
`ConstantsAssumption`, `NullsAssumption`, `LeaveAssumption`,
`LeaveNullsAssumption`, `ClockAssumption`, `DeviceAssumption`,
`AccountsAssumption`, `NoPinAssumption`, `SyncAssumption`, `PinAssumption`,
`QueuesAssumption`, `PipelineAssumption`, `RasterAssumption`. They say that the
call slots are finitely many, that days and times are integers and bounds natural
numbers, and that a null value is none of what it stands in for.

* **`AttendanceProofs`.** `TypeCorrect`; `ClosesOnItsOwnDay`, `PastIsFrozen` and
  `RefinesLedger` from `RecordInv`: besides the type and the property it says
  that a call about to update a record holds the id of a stored record of its
  own day and the right difference, which is what survives the await.
  `ShiftsAreBacked` needs `CreditInv`. The bound `shifts <= closes` is not
  inductive, because a call that has closed a record and not yet credited it,
  and a form with an old copy, both hold a value still to be written. The
  invariant bounds all three by `Spare(s)`: the closes, less the calls between
  closing and crediting. Every step keeps or raises `Spare`.
  `CountersAddUp` needs `SerialInv`: with one call alone, the counters are the sum
  over the closed records, less the one that the call in flight has closed and
  not yet credited. That the sum over a finite set grows by the element added is
  shown without an induction principle: by well-foundedness of inclusion a
  smallest counterexample would have a smaller one.
* **`LeaveProofs`.** `LeaveInv` adds to the stored requests what is on its way
  to a document, a submission or an edit. From it `RangesAreProper` and
  `SignaturesHold`. `OverlapTestIsComplete`, `TotalDaysIsBounded` and the lemmas
  on steady days are arithmetic over `MidnightOf` for any two days of change;
  `ConflictsAreFound`, `DaysAreNotOvercounted` and `ExactnessHolds` follow.
* **`StaffDeviceProofs`.** `DeviceTypeCorrect` by
  `DeviceInv`: every program consists of steps of the streams kept, so the
  listener that takes a handle is the newest of its stream. `NoStreamGoesDeaf` and
  `DeviceFollowsSession` need the programs themselves: what is left of one is
  `Shaped`, so a cancelled handle is followed by the listener that replaces it,
  and a new id by the load that listens to it. Over these shapes `Staying` (until
  somebody logs out, however refreshes overlap) and `Serial` (one call at a time)
  are inductive. `LogoutsRecover` carries `Serial` over to the listeners created
  since a logout that overlapped nothing, whatever the device had lost before. The
  last two theorems are for devices that keep the stream of the current staff member,
  as the provider does (`"current" \in Kept`).
* **`AccountsProofs`.** `TypeCorrect`. `LookupsMissOnlyWhatMoves` from
  `LookupInv`: a settled account of a lookup, if its number has a spelling that lookups
  ask for, always has it still to be asked. `PinsStayTypeable`: hashing more than once needs a written-back copy.
  `SerialCreateFindsAccounts` and `SerialMigrationKeepsPin` from `SerialInv`: a
  call that nothing overlaps has, for every account of its number, that account's
  spelling still to try, and writes back the PIN it has just matched.
* **`AttendanceSyncProofs`.** `TypeCorrect`. `OnePassSettles`: resolving is
  idempotent. `OverlappingRunsConverge`, for instances whose only operations are
  synchronisation and failure, from `ConvergeInv`: what a run has fetched is
  behind the records by at most one resolution, so a stale batch writes what the
  records have already, or what a complete run would. `DurationsFollowTimes`,
  `SerialSyncIsConservative` and `SerialAuditMatches` from `HistoryInv`: a call that is
  not stale holds the times the record has, so the duration it writes follows from
  them, whoever overlaps it; and a call that nothing overlaps has read what is there.
* **`PinSessionProofs`.** `SessionIsOfLogin` from `SessionInv`: at most one screen
  is shown, only a shown screen writes while `left` is false, and what a screen
  has written so far is still there, which is why the preferences on the dashboard
  are of one login; a role that could not be asked for changes none of them. `PinSubmittedOnce`: a screen verifies only while it is loading,
  and loading keeps keys out.
* **`TaskQueuesProofs`.** `QueuesInvariant`: the property `NoLostWakeup` is
  inductive only with merges one level deep, tasks in one queue each and paused
  queues unsubsumed, which together are `QueuesInv`. `TasksStartedInOrder` and
  `NothingIsAddedAfterShutdown` are action properties on top of it.
* **`FramePipelineProofs`**, the pipeline. `FlowInvariant` (requests, vsyncs,
  wishes and pauses are each conserved) and `PipeInvariant` (places, signals and
  the order of frames), independent of each other; the theorems on single
  conjuncts; `FramesAreDrawnInOrder`; and `PipelineIsBoundedQueue`, the refinement
  of `FrameQueue`: each step is `Hold`, `Put`, `Take`, `Free` or a stutter, which
  needs both accounts of `PipeInv`.
* **`FramePipelineProofs`**, the raster threads, for any number of shells, frames and
  calls and any lease, without a further condition. The invariant `RasterInv` has six
  parts beside the property `NoFrameForgotten`. `RasterShape` and `PlacesKept` give `RasterTypeCorrect`: a frame that waits or
  is drawn has its place. `TornDown`: a teardown exists once, in a queue or on a
  thread, and belongs to the call that waits for it, whose platform thread does
  nothing else. `MergeInv`: the shared mutex excludes; inside it no lease is left, and
  outside it leases and queues agree, or a lease was extended by an overtaken Draw,
  and then they never agree again before the process aborts. `LeasesAndQueuesAgree`
  follows. `DrawInv`: a Draw under which nothing has changed is on the thread that the
  leases say, and one that has itself changed the threads is past its painting. Two
  Draws under which nothing changed would be on the same thread: `OneThreadRasterizes`.
  `SuspendInv`: a teardown that the platform thread runs itself finds the queues merged
  and so no Draw of the raster thread that uses the surface, save an overtaken one;
  and what holds after the teardown is kept until the call returns
  (`DestroyedViewsAreSuspended`). `FramesAreAttended` is the invariance of
  `NoFrameForgotten`: every step that takes a task, ends a Draw or empties a pipeline
  leaves another that comes for the frame, or records that it does not.

Only model-checked: liveness (`EveryTaskServed`, `VsyncServed`, `WaitEnds`,
`KeypadRecovers`), which under fairness is out of the
prover's reach. No theorem rests on an induction principle that takes an
operator, which the installed provers cannot instantiate.

## Not modelled, and why

* In modelled parts of the application: the geofence and the server-clock
  estimate (a check-in proceeds whatever they say), `archived` and
  `isWithinGeofence` (resolved like `status`), read-only queries, streams of
  summaries, filters and texts, the writing of `sync_logs`; the login of
  administrators by e-mail; `staff_auth_screen.dart:53`, which writes three of the
  session's preferences after a device PIN.
* `StaffScheduleScreen`, `WeeklyScheduleScreen` and the writers of
  `ScheduleService` have no caller; the roster of `main.dart` is a mock-up.
* Permissions are constant tables; Firestore rules are evaluated outside the
  program; biometrics and secure storage are plug-ins; `NotificationService` is
  never started; managers are single-document writes without a screen; phone
  numbers and day status are pure functions of text.
* The order notification of `functions/index.js` recognises no repeated trigger,
  so it promises nothing that duplicates could break.
* In modelled parts of the engine: task observers; `Dispose` of a queue that owns
  others; message loops of other platforms than Linux; idle notifications and
  frame timings; snapshots; a last tree redrawn (`rasterizer.cc:227`) that drops
  what it would resubmit; the staleness of `frame_scheduled_` (`animator.cc:228`);
  embedders other than Android's.
* The rest of the vendored Flutter engine: most of its C++ (rendering, display
  lists, text, embedding, input, and its unit tests) transforms data or
  glues platforms, and the app shares no state with it. The engine is some hundreds of times
  larger than what is modelled of it, so the models reach only a small share of
  its lines: those where threads meet. `src/functions/node_modules` is vendored
  too.

## What could follow

1. `FramePipeline` and `RasterThreads` over one pipeline, so that `missed` frames are
   followed until the animator asks again.
2. `PinSession` composed with `StaffDevice` and `Accounts` over one device.
3. Schedules, once a screen leads to their writers.
