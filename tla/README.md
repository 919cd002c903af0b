# Boredroom, specified

Boredroom is a workspace for teams: members start a timer on a task, the
timer's intervals become their hours, finished work goes to somebody who checks
it, and a background worker and personal assistants do the rest. The web
process answers requests, each in one PostgreSQL transaction; the worker is one
or more separate processes on the same database. Nothing else is shared, so
everything that is hard here is hard in the database: which of several
transactions sees what, in which order they take effect, and what is left when
one of them never happens.

This directory specifies the parts whose mistakes cost most, the **work timer**,
the **tasks with their review and the colleagues they wait on**, the **durable
job queue**, **screen recordings** and the **credit of natural voice**,
model-checks them all, proves every safety property its passing runs check and that
the timer implements the ledger its readers see, and plans the others.

## Inventory

| Part | Source | State | Operations | Hard because | Correct when |
|---|---|---|---|---|---|
| Work timer | `src/server/services/sessions.ts`, `db/migrations/0002_work.sql` | `work_sessions` (state, version, last heartbeat), `session_intervals` | start, heartbeat, pause, resume, stop, switch; the worker's interruption | several devices, retries, `now()` older than the lock, a heartbeat without a lock, a worker without the user's lock | one timer per user, the two tables agree, nothing credited past the last contact, credit only grows |
| Tasks | `services/tasks.ts` | `tasks` (status, archived, assignee, version) | update, archive, reassign, Done, bulk | checks read under row security; sessions and tasks locked in different transactions; Done in two transactions | nobody works on what is archived, completed or in review (as far as the checks see the session); nothing is completed unchecked |
| Evidence and review | `services/evidence.ts` | `task_submissions`, `reviews` | submit, decide | a decision reads without a lock | a task is completed by the approval of somebody else, if there is somebody else |
| Waiting on a colleague | `services/task-blocks.ts`, `0048_loops_closed.sql` | `task_blocks` | ask, cancel, answer, post, not me, settle | the task changes under an ask or an answer; an answer is kept and posted in two transactions | one open block a task, closed once; untrue ones are cleared |
| Membership | `services/orgs.ts`, `0001_identity.sql`, `0005_rls.sql` | `memberships`, teams, grants | invite, join, roles, offboard | offboarding meets an open session | no session outlives its member |
| Job queue | `worker/index.ts`, `worker/schedule.ts`, `services/common.ts` | `jobs`; claims in a worker's memory | enqueue, claim, run, report, take back, take over | crashes between three transactions, locks that expire, two deployments | every job settles, bounded tries, no second run without a cause |
| Scheduled maintenance | `worker/schedule.ts`, `worker/control-center.ts` | deduplication keys | one job per window | several workers | once per window |
| Time corrections | `services/reports.ts`, `0007_overlap_fn.sql` | `time_adjustments` | request, approve, reject | approval long after the check | confirmed time never overlaps |
| Recording | `services/recording.ts`, `0004_recording.sql` | `recordings`, chunks, incidents, objects in storage | create, authorise, receive, finalise, assemble, flag, resolve, delete | storage is outside the transaction | what is deleted is gone, what is flagged is not shown |
| Requests | `server/lib/api.ts`, `server/db/index.ts` | idempotency keys, pooled connections | every mutation | retries, dropped connections | a retry is answered as the first was |
| Assistants | `services/follow-ups.ts`, `mentions.ts`, `assistant-items.ts`, `routines.ts`, `standup.ts`, `commitments.ts`, `loose-ends.ts`, `act-mode.ts`, `undo.ts` | a row with a status and a deadline each | ask, answer, expire, undo | web and worker both finish a row; deadlines race answers | answered or expired, once |
| Natural voice credit | `services/natural-voice.ts`, `0053_natural_voice.sql` | `voice_usage_daily`, the workspace's key; subscriptions cached in the process | reserve, send, refund; connect and remove a key; read a subscription | counts of a day from several moments, midnight, key changes, late answers, crashes | a day goes over by one utterance at most; what is billed is counted, nothing is shared out twice |
| Text and models | `services/copilot.ts`, `*-compose.ts`, `*-intent.ts` | none of their own | prompts, parsing | no protocol | not modelled |
| Administration, billing, sign-in | `server/admin/*`, `server/auth/*` | back-office rows | mostly CRUD | payment webhooks | not modelled |
| Interface, desktop app | `src/components`, `src/app`, `desktop/` | one page or window | rendering, polling | reaches the system through the requests above | not modelled |

How they interact: every request of the web process runs under `withUser`
(`server/db/index.ts:153`), which binds the caller's identity for row security.
The timer and the tasks call each other inside one transaction (a stop with the
outcome "completed" submits the task, a start moves it to In progress). The
worker's loop (`worker/index.ts:58`) interrupts stale sessions, enqueues what
the calendar asks for, takes stale jobs back, and runs jobs one at a time; jobs
call the services. `PROJECT.json` lists the hazards with their lines.

## Modules

| Module | What it is |
|---|---|
| `TimeLedger` | What the timer promises to whoever reads the hours: off, on or held; time credited one stretch at a time, each after everything credited before, never taken back. |
| `WorkSessions` | The timer: requests in flight, the two tables with their constraints, tasks, offboarding, the worker. Refines `TimeLedger` (`ImplementsLedger`). |
| `MCWorkSessions` | Its instances: task assignments, symmetry. |
| `WorkSessionsProofs` | Theorems about `WorkSessions`, with proofs. |
| `LedgerProofs` | That `WorkSessions` implements `TimeLedger`, with a proof. |
| `TaskReview` | One task among several people: who holds and who checks it, submissions, decisions, the sessions open on it, row security. |
| `MCTaskReview` | Its instance. |
| `TaskBlocks` | `TaskReview` with "waiting on a colleague": asks, answers and their clearing. |
| `MCTaskBlocks` | Its instance. |
| `TaskBlocksProofs` | Theorems about `TaskReview` and `TaskBlocks`, with proofs. |
| `VoiceCredit` | The characters of natural voice: subscriptions, shares, reservations, refunds, ElevenLabs, keys, midnight. |
| `MCVoiceCredit` | Its instance. |
| `SumTheorems` | What the proofs need to know of sums over finite sets: of a part, of what one element adds, taken class by class. |
| `VoiceCreditProofs` | Theorems about `VoiceCredit`, with proofs. |
| `JobQueue` | The queue: the `jobs` table and the workers' memory. |
| `MCJobQueue` | Its instance: an older and a newer deployment. |
| `JobQueueProofs` | Theorems about `JobQueue`, with proofs. |
| `Recording` | One recording: its row, chunks, incidents and jobs, and the objects in storage. |
| `MCRecording` | Its instances. |
| `RecordingProofs` | Theorems about `Recording`, with proofs. |

### WorkSessions and the code

One user, who may have a membership in each of several workspaces.

- **Requests.** `Send` is `BEGIN`: PostgreSQL fixes `now()` there. The handler's
  action is the whole transaction from the advisory lock (`sessions.ts:59`) to
  `COMMIT`; the lock makes the session mutations of one user exclude each
  other, so they are atomic once they have it, but with an old `now()`.
  `Answer` ends a request with nothing changed: refused by a guard or
  constraint, failed and rolled back, or a retry that is shown the committed
  result (`checkVersion`, `sessions.ts:228`). It may always be taken instead of
  a handler, which is how a lost connection looks.
- **Heartbeat** takes no lock and has two statements, so it is two actions
  (`Heartbeat`, `HeartbeatWrite`); so has a reviewer's decision (`Sendable`
  holds the read, `Review` the write).
- **Rows.** `sessions[s]` is a `work_sessions` row (`state`, `task`, `hb`,
  `version`), `intervals` the set of `session_intervals` rows, `Forever` stands
  for `ended_at IS NULL`. `Admits` is the exclusion constraint, `Closable` the
  check that an interval does not end before its start, `OpenOf` what the
  partial unique index keeps to one. Pause and stop end the interval at their
  own `now()`, the worker and an offboarding at the last heartbeat
  (`CloseAtLeast`), an interrupted session adds an `UncertainGap`.
- **Offboarding.** A start whose session is inserted while an uncommitted
  offboarding holds the membership's row waits for it at the foreign key; its
  next statement has a new snapshot, in which `intervals_insert`
  (`0005_rls.sql:212`) no longer finds an active membership, and the start
  fails. So the two are one after the other and both may be atomic.
- **Tasks.** `UpdateTask`, `FinishTask`, `WorkOfAnother` and `Review` change only
  the tasks in `Moved`. A task has an assignee: the user, somebody else it was
  handed on to, or the user again. Whether a session is open on it is read under
  row security; the tasks in `Unseen` are those that some who may change them
  (a reviewer, a project lead, a new assignee) do not see the user's sessions of
  (`SeenOpen`). Such a task may be handed on, archived and submitted by its new
  assignee while the user's timer runs. Whether the user then still sees and may
  change the task is row security's again (`stopInternal`'s `FOR UPDATE`,
  `sessions.ts:302`): a request is handled or refused, and the model allows both.
- **heard** is history: the latest `now()` of an accepted request about a session.

Left out: capture modes and consent, session events, notifications, comments
and audit rows; task versions (a stale task edit is refused, which changes
nothing); the reviewer of a task and who exactly may change it (in
`TaskReview`), projects, re-activation of a membership.
`Sendable` leaves out requests that are bound to be answered with nothing changed.

### TaskReview, TaskBlocks and the code

`WorkSessions` knows many sessions and clocks, and of a task only what a session
meets. `TaskReview` is the other way round: one task and several people, each of
whom may hold it, check it, lead its project or its holder's team, or be an
organisation account; a session is only open or not.

- `Init` is a task just created. `UpdateTask` is `updateTask` with any
  combination of its fields; `Edited` is what the schema and `TRANSITIONS`
  allow. It locks the row, so it is one step, as are `SubmitTask` and
  `CompleteTask`. Done (`tasks.ts:427`) decides in one transaction and submits
  in another; when there is a checker the first leaves nothing behind, so the
  second is a `SubmitTask` at any later time.
- `StartRead` / `Start` and `ReviewRead` / `ReviewWrite` are the two requests
  that read before they have the task's row: a start locks it afterwards without
  reading the assignee again, a decision never reads again. A decision's UPDATE
  names the task by id alone; row security leaves it without a row for whoever
  may not update the task any more, and then the decision is kept and the task
  is not changed.
- `MayUpdate`, `MayView` and `VisibleOpen` are the policies. They matter: a
  stop or a start by somebody who may not update the task finds no row.
- `TaskBlocks` adds `task_blocks`. `TaskSettles` is every task step whose handler
  calls `app_task_block_settle` when the task leaves Blocked, is archived or
  changes hands. An ask is inserted (`AskInsert`) under a policy that looks at
  the task then, and committed later (`AskCommit`); the rows it closes are locked
  in between (`Free`). Asks about one task exclude each other by an advisory
  lock. An ask and an edit may each wait for the other's row; the database ends
  that by failing one of them (`AskFails`, or an edit that is not taken).
  `AnswerBlock` keeps an answer, `PostAnswer` posts it, from the request or the
  worker (`finishAnswers`); `AnswerLapses` ends that, when the answer is a day old
  or its answerer was offboarded, whose comments are then refused.
  `SettleBlocks` is the worker's sweep.

Left out: questions of a reviewer (which change nothing), versions (a stale edit
changes nothing), deliverables, notifications, a project's archived status; whom
a block waits on, and which of the three ways closed it; limits and mutes of
asks.

### VoiceCredit and the code

One web process, in one time zone, within one subscription period that ends after
`LastDay`.

- `Prepare` / `PrepareRead` are `prepareSpeechIn` up to the reservation, with or
  without a subscription to serve; `StartRead`, `ReadSubscription` and
  `ReadFails` are `readSubscription`, whose count is that of the request which
  began it. ElevenLabs works out its answer (`WorkOut`) at any time between, by
  what it has billed so far. `Served` is what may be served of an entry: with its count on its
  own day (or quarter of an hour, for Boredroom's key), without it afterwards.
  A read that fails refuses whoever waits for it; that a copy at most an hour
  old may then be served instead is covered by `Prepare`.
- `Reserve` / `ReserveCommit` are `reserveStatements` and its COMMIT, with the
  key's lock held in between (`Counting`). Boredroom's key is totalled on the
  day of the transaction's `now()`, every other sum on the process's day, so a
  request keeps both (`at`, `day`).
- `Send`, `Said`, `Fails`, `TimesOut`, `Abandon`, `Refund` and `RefundFails` are
  `speakPrepared`; `Bills` is what ElevenLabs does, as the code supposes it.
- `TestKey` / `ConnectKey` are the halves of `setVoiceKey`, `ClearKey` is
  `clearVoiceKey`, `Crash` loses the process's maps and leaves counted what was
  counted.
- `dawn` is history: what each key had left when a day began; so is `allowed` of
  a read: what each day could share out when ElevenLabs answered it.

Left out: the failure breaker, the burst limit and speech tokens, which only
refuse (`GiveUp`); samples; deletion from ElevenLabs' history; a midnight between
a transaction's BEGIN and the process's clock read; the quarters of an hour by
which reads of Boredroom's key are told apart, which are one day's read here;
several time zones; the reset of a subscription.

### JobQueue and the code

`ClaimOne` is `runOne`'s UPDATE, `ClaimKilled` is `claimKilledJobs`, `Requeue`
the maintenance UPDATE, `Run` and `WriteReport` the two halves of `execute`,
`ReportRefused` its catch after a handler that succeeded (with nothing of the
success written, or with all of it written and its COMMIT unanswered), `Crash` the end of a
process or a catch that throws. Times are kept as what they decide, `due` and
`expired`. The take-over's horizon of one day and page of 50 are left out.

### Recording and the code

Storage is outside the transaction: what is put or deleted there stays so when
the transaction rolls back. So the handlers that touch storage are cut at each
storage operation, and hold in between the row locks they have:

- `Receive` / `ReceiveCommit` / `ReceiveRollback` are `receiveChunk`, which
  locks the chunk's row (`receiving`) and needs the recording's only for its last
  UPDATE. Two requests for one chunk exclude each other by that lock.
- `AssembleStart` / `AssembleAppend` / `AssembleEnd` are `assembleRecording`,
  `DeleteStart` / `DeleteObject` / `DeleteRow` / `DeleteMedia` / `DeleteEnd`
  `deleteRecording`; both hold the recording's row (`work`), for which whoever
  wants it waits (`Free`). `WorkerFails` rolls one back.
- The release of an incident (`ReleaseStart`, `ReleaseRead`, `ReleaseCommit`)
  does not touch storage, but reads the recording without a lock.
- `Authorise`, `Finalise`, `Flag` and `ResolveDeleted` are one step once they
  have the row.

`media` is the assembled object, as the chunks written to it in order;
`Manifest(n)` is what it should be. The header's validation may go either way.
A job of the recording is pending until its handler's commit is reported; its
attempts are `JobQueue`'s business, here a failed run is run again and
`MaxFailures` is meant to be less than `max_attempts` (8). A deletion and
an upload that wait for each other end as PostgreSQL ends a deadlock: one of the
two rolls back.

Left out: who may view (grants, row security), the five minutes of an upload
token (an upload may come as late as its chunk is authorised), checksums (a
chunk number stands for the content it was authorised with), sizes and the size
limit, capture exceptions, the session, notifications, access log and audit.

## Runs

| Run | Shows |
|---|---|
| `WorkSessions` | Two requests in flight, two sessions, two tasks: `TypeOK`, `OneTimer`, `CreditEndsAtContact`, `CurrentRequestsAreWellTimed`, `GapsAreUncredited`, `OffboardedHaveNoOpenSession`. |
| `WorkSessionsTasks` | Outcomes blocked and completed, one task that others edit, hand on and back, archive, finish, submit and review, fairness of the worker only: `InReviewIsNotWorkedOn`, every step is a ledger step or none (`ImplementsLedger`), and a silent session stops running (`SilenceEndsTheTimer`). |
| `TaskBlocks` | Two holders, one of them led, a lead who reviews, two blocks: `OneOpenBlock`, `CheckedByAnother`, that a question is closed once (`ClosedOnce`), and in the end `UntrueBlocksAreCleared`. |
| `VoiceCredit` | Two people of one workspace, two utterances over two days, two keys, crashes, failures and late answers: `CountsAreKept`, `OneUtteranceOver`, `BilledIsCounted`, `SharedOutOnce`. |
| `JobQueue` | An older and a newer worker, a crash, two expired locks: who runs a job, how often, that success is final, that every job settles. |
| `Recording` | Two chunks, two incidents, expiry, one run of the worker failing half way: what is played is whole, what is flagged stays hidden until a release, what is due is deleted, uploads and deletion do not cross. |
| `WorkSessionsStale` | **Violated.** The runbook's "nothing after that instant is credited". |
| `WorkSessionsLive` | **Violated.** "Stop the open work session before archiving this task." |
| `JobQueueKilled` | **Violated.** "where that worker never takes them again". |
| `RecordingDeleted` | **Violated.** "The handler deletes chunks, assembled media and derivatives". |
| `RecordingFlagged` | **Violated.** "restricted while a privacy incident is open". |
| `TaskReviewUnled` | **Violated.** "fall back to an organisation account so work can still be reviewed". |

**Bounds.** Two sessions are enough for one to end and the next to begin with
requests about both in flight; two requests for one to overtake the other; the
worker and the offboarding come on top. `StaleAfter` is 1 and `Slack` (the
second a gap must exceed) 0, so that three instants hold a heartbeat, a
silence, an interruption and a return; `MaxVersion` is 3: a session may be
paused or interrupted, resumed, and paused, stopped or interrupted again. `MaxTime`
stops the clock, which is why `CHECK_DEADLOCK` is off: a bounded system stops.
Sessions and clients are symmetric: no action tells them apart; symmetry is off
where liveness is checked. `WorkSessionsTasks` has one request in flight besides
the worker, and the ledger there is checked with late heartbeats, returns and
the task's moves; two requests at once are `WorkSessions`' matter, whose
properties are also proved. In `TaskBlocks` one request is between its read and
its write while all others step; two blocks let an older holder's meet a newer
one's, and one revision lets a decision come late for a task returned, handed
on or started again. In `VoiceCredit` the caps are the length of one utterance,
so that the second one is refused or goes over; two requests are enough to meet
at a lock, at a read under way, and at a refund over midnight.
`MaxReads` is 1: reads of two keys, or of two days, touch the same state only in
which of them writes the entry last, and `SharedOutOnce` is about each by itself;
the theorems hold for any number. A key may be tested and connected at any time,
also one that is in use. In the queue, three attempts let one be spent on
each of an unknowing worker, a failure and a success; two slow handlers let one
late report meet another. A recording of two chunks can have a gap, an order, a
chunk late for the manifest and a deletion that stops between two objects; two
incidents can be decided differently, or one flagged while the other is
released; one failure of the worker is enough to leave any of its storage
operations standing without its transaction.

**Fairness.** `Interrupt` is weakly fair because the worker's loop calls
`interruptStaleSessions` every 15 seconds (`worker/index.ts:64-66`); a row it
skips (`SKIP LOCKED`) is locked by a transaction that ends. Nothing is assumed
of clients. In the queue the loops of all workers go on (`worker/index.ts:58-80`
catches everything) and time passes; no crash or failure is ever required. The
older worker is fair too, so `EveryJobSettles` holds although it takes jobs it
does not know: each take counts an attempt.
For blocks the worker's sweep (`commitments.sweep`, `worker/handlers.ts:186`) is
strongly fair, because it waits in the row's queue and a later ask cannot keep
it out; and a transaction begun ends one way or the other. Nothing is assumed of the
posting of answers, nor are people required to answer, cancel or move a task.
For a recording the worker is fair, and so is the end of any upload that has
begun: the database ends a deadlock. `DeleteRow` is strongly fair because
PostgreSQL gives a row to those who wait for it before those who come later, so
uploads cannot keep the deletion from it for ever. Nothing else is: the recorder
may never finalise and an incident may never be resolved.

## What the violated runs say

1. **Silent time is credited** (`sessions.ts:255`). No request compares
   `last_heartbeat_at` with the limit; only the worker does. In the run a session
   starts, is silent beyond the limit and is paused: the interval is confirmed up
   to the pause, against "Nothing after that instant is credited"
   (`docs/runbooks.md:41`). A stop and a switch do the same, and a laptop that
   wakes between the 90th second and the worker's next pass (or while the worker
   is down) heartbeats, which has the whole silence credited at the next end.
2. **An archived task with a running timer** (`tasks.ts:149`). The check for an
   open session runs as the caller; a reviewer or a project lead who does not
   manage the member's team may update the task and sees no session of it.
   `tasks.ts:142` (reassignment) and `tasks.ts:270` (projects) ask the same way.
3. **A job taken over goes back** (`worker/index.ts:43`). After one failure in
   the newer worker it is `pending`, which is all the older one looks for.
4. **Assembled media survives its deletion** (`recording.ts:249`). The object is
   written before it is validated and named; one that fails validation is named
   by nothing and deleted by nobody. There are two other ways to the same end,
   not run: an upload that puts its object after the deletion removed it and is
   rolled back leaves the chunk's, and a recording that was deleted while still
   uploading, with a second incident released afterwards, takes chunks again.
5. **A flag undone by a release** (`recording.ts:229-232`). Nothing locks the
   recording between the look for other incidents and the update.

6. **A task nobody may approve** (`evidence.ts:133`, `tasks.ts:285`). The work of
   somebody without a team lead is sent to the owner or HR account, and
   `reviewSubmission` refuses exactly these accounts. The task stays In review
   until somebody returns it or names another reviewer.

There is one more disagreement, met but without a run of its own: `setVoiceKey`
asks ElevenLabs what a key has left (`natural-voice.ts:770`) and counts the day's
characters afterwards (line 782), although `natural-voice.ts:304` says of that
count "the count must not include what is reserved after the subscription was
read, or the share would grow by it". When a key that is in use is entered again,
what was reserved and billed in between is in both. `VoiceCredit` has that
(`TestKey`, `ConnectKey`); its `SharedOutOnce` is about entries that were read.

Two properties have exceptions that the code makes necessary. A task handed on by
somebody who does not see the running session may become In review under it
(`InReviewIsNotWorkedOn`): the new assignee's submission does not see the session
either. And a success may be written over by its own worker (`SuccessIsFinal`):
the COMMIT is applied, its answer is lost (`db/index.ts:202-209`), and the catch
(`worker/index.ts:36-43`) writes the attempt as failed.

## Proofs

`WorkSessionsProofs` proves for all sessions, tasks, memberships, assignments,
clients, clocks, limits and slack allowed by `SessionsAssumption`:

| Theorem | Property | Argument |
|---|---|---|
| `TypeCorrect` | `TypeOK` | each action, from the types of the helpers it uses |
| `OneTimerAlways` | `OneTimer` | inductive with `TypeOK`; two lemmas, `TimerHalts` and `TimerRuns`, carry every action that closes or opens |
| `CreditAlwaysEndsAtContact` | `CreditEndsAtContact` | needs `HeartbeatsAreHeard`: a session's heartbeat is an instant it was heard at, although late heartbeats move it backwards (`CreditInv`) |
| `CurrentRequestsAlwaysWellTimed` | `CurrentRequestsAreWellTimed` | needs `PastInv` (nothing lies after the clock) and `VersionInv`: a request with the session's current version began after everything that version has seen |
| `GapsNeverCredited` | `GapsAreUncredited` | a gap starts after all credited ends of its session and ends before anything credited later |
| `InReviewNeverWorkedOn` | `InReviewIsNotWorkedOn` | `LiveInv`, which is the property with the session's task a task; what it excepts, a task in `Unseen` that was handed on, stays so, for a task handed back is told from one that never left |
| `OffboardedNeverHaveOpenSession` | `OffboardedHaveNoOpenSession` | with `OneTimer`: the session the offboarding stops is the only one |

`LedgerProofs` proves for the same constants that the timer implements the
ledger:

| Theorem | Property | Argument |
|---|---|---|
| `LedgerImplemented` | `ImplementsLedger` | `LedgerStep`: a start and a resumption begin, a pause and an interruption halt, a stop halts or gives up what was held, a switch hands over or begins, an offboarding halts or gives up, everything else shows nothing |

Two things carry it. What a halt credits is exactly the stretch from the running
interval's start to the end given it, because `OneTimer` leaves no other open
interval and an `UncertainGap` credits nothing; and that stretch comes after
everything credited before because of `Admits`, the exclusion constraint.

`RecordingProofs` proves for any number of chunks and incidents
(`RecordingAssumption`):

| Theorem | Property | Argument |
|---|---|---|
| `TypeCorrect` | `TypeOK` | with `Written`: while it is being assembled, the object is a start of the manifest |
| `OnlyAReleaseEverShows` | `OnlyAReleaseShows` | `Restricts`: without a release, an incident keeps `restricted_at`, whatever becomes of `upload_state` |
| `DeletedChunksAlwaysStay` | `DeletedChunksStayDeleted` | `Uploads`: an upload that has put its object holds a chunk that is authorised and that no deletion has marked |
| `ReceivedAlwaysCounted` | `ReceivedIsCounted` | `Uploads` again: the chunk an upload adds was not verified before |
| `PlayedIsAlwaysWhole` | `PlayedIsWhole` | `Decisions`: a deletion is asked for or under way only when due, a release under way is of an open incident; `Assembly`: a recording is assembled at most once, its object is there until a deletion is due, and only what was assembled is ready or about to be made so |

`TaskBlocksProofs` proves for any people, teams, reviewers, requests,
submissions and blocks (`ReviewAssumption`):

| Theorem | Property | Argument |
|---|---|---|
| `TypeCorrect` | `TypeOK` | each action, with `Requested` for the decisions on their way |
| `OneOpenBlockAlways` | `OneOpenBlock` | `AskClosesAll`: whoever may ask holds the task, so every other open block is untrue and an ask closes all that are open; they stay exactly these until it commits, because it has locked them |
| `ClosedOnceAlways` | `ClosedOnce` | `AskClosesAll`: what an uncommitted ask closes is open until it commits, because it has locked it; everybody else closes what they find open |
| `CompletedByAnother` | `CheckedByAnother` | `Requested`: a decision on its way names a submission there is, by somebody else; whoever finishes without one was found to have no checker under the lock that writes |

In a task, that the worker's sweep may come between, that an ask may begin while blocks of
earlier holders are open, and that a decision may be written after the task was
reopened or handed on, are the cases for which the invariant is needed.

`JobQueueProofs` proves for any jobs, workers, deployments and attempts, and any
number of crashes and expired locks (`QueueAssumption`):

| Theorem | Property | Argument |
|---|---|---|
| `TypeCorrect` | `TypeOK` | each action |
| `OneWorkerPerJobAlways` | `OneWorkerPerJob` | `HoldersInv`: a job that can be claimed and its workers are together one, and one more for every taking back; once it is settled and all its successes were reported, only takings back leave a worker on it |
| `AttemptsAlwaysBounded` | `AttemptsAreBounded` | `AttemptsInv`: the attempts too many, the claims whose failure would put the job back, and the job's being back are together paid by the takings back |
| `CompletedOnceAlways` | `CompletedOnce` | `EffectsInv`: so are the completions and those still to come, with the successes whose worker took them for failures |
| `SuccessStaysFinal` | `SuccessIsFinal` | with `HoldersInv`: a job that succeeded, was never taken back and whose successes were all reported is in nobody's hands |

None of the queue's bounds is inductive alone, because a late report is written
whoever has the job by then: the invariant must count the claims in the workers'
hands (`ClaimsInv`: one of a job in each, none with more attempts than the row)
and what each of them may still do.

The timer's properties are not inductive by themselves: whether a request is well timed
depends on when the version it names came to be, so the invariant has to say of
every request in flight that it is no older than the interval it would close.

`VoiceCreditProofs` proves for any finite number of people, workspaces, keys and
requests, and any limits, caps, lengths and days (`VoiceAssumption`):

| Theorem | Property | Argument |
|---|---|---|
| `TypeCorrect` | `TypeOK` | each action; a key that is stored was tested, and only a workspace's own keys are |
| `CountsAlwaysKept` | `CountsAreKept` | with `StagesInv`: what was once reserved keeps its person, day, key and length (`SettledStays`), so only a commit and a refund move a sum, and a refund finds its own reservation in it |
| `OneUtteranceOverAlways` | `OneUtteranceOver` | `LocksInv`: who counts is alone with the key, and what it is about to add to is still below the caps; another key's commit adds elsewhere, a refund only lowers |
| `BilledIsAlwaysCounted` | `BilledIsCounted` | `BillsInv`: a key's bill is that of the requests billed to it. The bills, summed by key, and the counts, summed by person and day, are then sums over requests, and what was billed either stands or was given back late |
| `SharedOutOnceAlways` | `SharedOutOnce` | `FlightsInv`: a read that is not answered would share out nothing twice if it were answered now, and one that is keeps what it was answered |

The last one is the longest. When a read starts, what is counted on its key is
what stands on it (`KeyTodayIs`), and whatever of that is not unbilled was billed
since the day began, which `BillsInv` compares with what the key had left at dawn
(`CountedNow`). From then on the count is fixed, and each character that ElevenLabs
bills leaves the key and, at most, what is unbilled, together (`CoveredStays`);
over midnight the entry keeps its day. When ElevenLabs works out its answer, what
is covered is what it may share out (`Worked`), and neither changes until the
answer arrives. `CreditInv` is the invariant in one (`CreditAlways`).

The sums of the model are `SumFunction`s, recursive functions over finite sets.
The library's induction theorems take an operator and cannot be used, so
`SumTheorems` proves induction over the subsets of a finite set from the
well-foundedness of their strict inclusion, with the property given as a set, and from it
that `SumFunctionOnSet` is what its definition says, does not depend on the order
of its elements, splits over a part and its rest, and may be taken class by class.

Only model-checked are the liveness properties (`SilenceEndsTheTimer`,
`EveryJobSettles`, `UntrueBlocksAreCleared`, `DueIsDeleted`),
with the fairness they assume: these are beyond the prover. The violated runs
show counterexamples, of which there is nothing to prove.

## Plan

1. `TimeAdjustments` over the intervals of `WorkSessions`: corrections requested
   at once, approved over an open interval.
2. Follow-ups, mentions and assistant requests as one pattern (a row with a
   deadline that web and worker may both finish), undo against later changes,
   invitations and roles, idempotency keys, the desktop link.
3. Further: two releases of a recording at once, which both leave the
   restriction, and a complete recording that a release makes partial for good;
   projects archived under a start.

## Not modelled

The parts without a module, and why, are in `PROJECT.json` under `components`.
In short: the interface, the desktop window, the character and the speech
controller hold the state of one page and reach the system only through the
requests; prompts, intents and compositions are text; back-office
administration is mostly single statements; follow-ups, mentions, requests
between assistants, routines, the standup and time corrections have protocols of
their own and wait for a module.
