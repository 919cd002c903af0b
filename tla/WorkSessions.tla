---------------------------- MODULE WorkSessions ----------------------------
(***************************************************************************)
(* The work timer of one user (src/server/services/sessions.ts over the    *)
(* tables of db/migrations/0002_work.sql): sessions, the timed intervals   *)
(* they own, and the tasks they are started on.                            *)
(*                                                                         *)
(* Every request is one PostgreSQL transaction.  Its now() is the instant  *)
(* the transaction began, while its effect happens later, when it has got  *)
(* the user's advisory lock: so a request is sent (Send takes the instant) *)
(* and handled in a separate step.  A heartbeat takes no lock, and reads   *)
(* and writes in two statements.  A transaction that refuses, fails, or    *)
(* finds its change already made ends with nothing changed (Answer).       *)
(*                                                                         *)
(* A user may belong to several workspaces (Members is the set of that     *)
(* user's memberships) and has one timer across all of them.               *)
(*                                                                         *)
(* A task may be handed on to somebody else.  Whether its session's user   *)
(* then still sees or may change it (as its reviewer, a project lead, ...) *)
(* is row security's: a request about the session is handled or refused    *)
(* (Answer) accordingly, and the model allows both.                        *)
(***************************************************************************)
EXTENDS Integers, FiniteSets

CONSTANTS
  Sessions,     \* identities of work_sessions rows
  Tasks,        \* tasks assigned to this user, at first
  Members,      \* the user's memberships, one per workspace
  Assignee,     \* the user's membership in each task's workspace, its first assignee
  Checked,      \* the tasks somebody other than the user checks
  Outcomes,     \* the outcomes a stop may carry
  Moved,        \* bound: the tasks that change other than by sessions
  Unseen,       \* tasks that others may change who do not see the user's sessions
  Clients,      \* requests in flight at a time: devices, tabs, retries, HR, a checker
  NoTask,       \* the task of a session identity not in use yet
  StaleAfter,   \* stale_after_seconds
  Slack,        \* the second an uncertain gap must exceed to be recorded
  MaxTime,      \* bound: the last instant of the clock
  MaxVersion    \* bound: resumes are sent for sessions below this version

ASSUME SessionsAssumption ==
  /\ Assignee \in [Tasks -> Members]
  /\ Checked \subseteq Tasks
  /\ Moved \subseteq Tasks /\ Unseen \subseteq Tasks
  /\ Outcomes \subseteq {"continue_later", "blocked", "ready_for_review", "completed"}
  /\ NoTask \notin Tasks
  /\ StaleAfter \in Nat /\ Slack \in Nat /\ MaxTime \in Nat /\ MaxVersion \in Nat

VARIABLES
  clock,      \* the database's clock
  sessions,   \* work_sessions
  intervals,  \* session_intervals
  tasks,      \* tasks: status, archived and whose it is
  revoked,    \* the memberships offboarded
  requests,   \* the transaction each client has begun
  heard       \* history: the last instant the user was heard from about a session

vars == <<clock, sessions, intervals, tasks, revoked, requests, heard>>
-----------------------------------------------------------------------------
Time    == 0 .. MaxTime
Forever == MaxTime + 1            \* ended_at IS NULL, which reads as 'infinity'

OpenStates == {"running", "paused", "interrupted"}
Statuses   == {"todo", "in_progress", "blocked", "in_review", "completed"}
Decisions  == {"completed", "in_progress"}    \* what a checker's decision makes of a task
Holders    == {"user", "other", "returned"}   \* the user's all along, somebody else's, the user's again

Session  == [state : OpenStates \cup {"none", "stopped"},
             task : Tasks \cup {NoTask}, hb : Time, version : Nat]
Interval == [session : Sessions, from : Time, to : Time \cup {Forever},
             status : {"confirmed", "uncertain"}]
Task     == [status : Statuses, archived : BOOLEAN, assignee : Holders]

\* What a client may send.  "beat" is a heartbeat that found its session
\* running and has its UPDATE still to do; "review" a checker's decision that
\* found its task in review and has its UPDATE still to do.
Request ==
  [op : {"start"}, task : Tasks, now : Time]
  \cup [op : {"pause", "resume"}, session : Sessions, expected : Nat, now : Time]
  \cup [op : {"stop"}, session : Sessions, expected : Nat, outcome : Outcomes, now : Time]
  \cup [op : {"switch"}, session : Sessions, expected : Nat, task : Tasks, now : Time]
  \cup [op : {"heartbeat", "beat"}, session : Sessions, now : Time]
  \cup [op : {"revoke"}, member : Members, now : Time]
  \cup [op : {"review"}, task : Tasks, decision : Decisions, now : Time]

Idle == [op |-> "idle"]

Unused == [state |-> "none", task |-> NoTask, hb |-> 0, version |-> 0]

Greatest(a, b) == IF a >= b THEN a ELSE b
Least(a, b)    == IF a <= b THEN a ELSE b

IsOpen(s)    == sessions[s].state \in OpenStates
OpenOn(t)    == \E s \in Sessions : IsOpen(s) /\ sessions[s].task = t
MemberOf(s)  == Assignee[sessions[s].task]
Mine(t)      == tasks[t].assignee # "other"

\* Row security: a member that was offboarded sees and changes nothing.
Visible(s) == sessions[s].state # "none" /\ ~revoked[MemberOf(s)]
-----------------------------------------------------------------------------
(* The interval table. *)

OpenOf(ivs, s) == {i \in ivs : i.session = s /\ i.to = Forever}

\* UPDATE session_intervals SET ended_at = at WHERE session_id = s AND
\* ended_at IS NULL, which the CHECK refuses for an end before the start.
CloseOpen(ivs, s, at) ==
  {IF i \in OpenOf(ivs, s) THEN [i EXCEPT !.to = at] ELSE i : i \in ivs}

Closable(ivs, s, at) == \A i \in OpenOf(ivs, s) : i.from <= at

\* Faulty: an interrupted interval runs to the moment the worker looked.
CloseAtClock(ivs, s, at) ==
  {IF i \in OpenOf(ivs, s) THEN [i EXCEPT !.to = clock] ELSE i : i \in ivs}

\* The same with ended_at = GREATEST(started_at, at), which never fails.
CloseAtLeast(ivs, s, at) ==
  {IF i \in OpenOf(ivs, s) THEN [i EXCEPT !.to = Greatest(i.from, at)] ELSE i : i \in ivs}

NewInterval(s, now) ==
  [session |-> s, from |-> now, to |-> Forever, status |-> "confirmed"]

\* session_intervals_no_overlap: [now, infinity) meets no confirmed interval.
\* An empty range [a, a) meets nothing.
Admits(ivs, now) ==
  \A i \in ivs : i.status = "confirmed" => (i.to <= now \/ i.from = i.to)

\* Faulty: the gap is taken from the last heartbeat.
ConfirmedToHeartbeat(s) == {sessions[s].hb}

\* The last instant the session's time is confirmed to, else its heartbeat: the
\* one row the INSERT of recordUncertainGap selects from.
ConfirmedTo(s) ==
  LET ends == {i.to : i \in {j \in intervals : /\ j.session = s
                                               /\ j.status = "confirmed"
                                               /\ j.to # Forever}}
  IN  IF ends = {} THEN {sessions[s].hb} ELSE {e \in ends : \A f \in ends : f <= e}

Gap(s, from, to, status) == [session |-> s, from |-> from, to |-> to, status |-> status]

GapStarts(s, now) ==
  {e \in ConfirmedTo(s) : sessions[s].state = "interrupted" /\ now > e + Slack}

\* Faulty: the gap is credited.
CreditedGap(s, now) == {Gap(s, e, now, "confirmed") : e \in GapStarts(s, now)}

\* Faulty: the gap is written as a proposed adjustment.
ProposedGap(s, now) == {Gap(s, e, now, "proposed") : e \in GapStarts(s, now)}

\* recordUncertainGap: what an interrupted session adds when its member is back.
UncertainGap(s, now) == {Gap(s, e, now, "uncertain") : e \in GapStarts(s, now)}
-----------------------------------------------------------------------------
Init ==
  /\ clock = 0
  /\ sessions = [s \in Sessions |-> Unused]
  /\ intervals = {}
  /\ tasks = [t \in Tasks |-> [status |-> "todo", archived |-> FALSE, assignee |-> "user"]]
  /\ revoked = [m \in Members |-> FALSE]
  /\ requests = [c \in Clients |-> Idle]
  /\ heard = [s \in Sessions |-> 0]

\* The clock advances.
Tick ==
  /\ clock < MaxTime
  /\ clock' = clock + 1
  /\ UNCHANGED <<sessions, intervals, tasks, revoked, requests, heard>>

About(s, op) == [op |-> op, session |-> s, expected |-> sessions[s].version, now |-> clock]

\* The requests that may reach the server now.  Whatever is bound to be
\* answered with nothing changed is left out: a request made for an earlier
\* version than the session's, or for a state that version rules out.  What is
\* sent here may still be overtaken before it is handled.  A session is asked for
\* on a task of one's own: startInternal reads the assignee before it has the
\* task's row, and not again.
Sendable ==
  LET Open == {s \in Sessions : IsOpen(s) /\ Visible(s)}
      Own  == {t \in Tasks : Mine(t)} IN
  {[op |-> "start", task |-> t, now |-> clock] : t \in {u \in Own : ~revoked[Assignee[u]]}}
  \cup {[op |-> "revoke", member |-> m, now |-> clock] : m \in {n \in Members : ~revoked[n]}}
  \cup {[op |-> "heartbeat", session |-> s, now |-> clock] : s \in Open}
  \cup {About(s, "pause") : s \in {x \in Open : sessions[x].state = "running"}}
  \cup {About(s, "resume") : s \in {x \in Open : /\ sessions[x].state # "running"
                                               /\ sessions[x].version < MaxVersion}}
  \cup {[op |-> "stop", session |-> s, expected |-> sessions[s].version, outcome |-> o, now |-> clock] :
          s \in Open, o \in Outcomes}
  \cup {[op |-> "switch", session |-> s, expected |-> sessions[s].version, task |-> t, now |-> clock] :
          s \in Open, t \in Own}
  \cup {[op |-> "review", task |-> t, decision |-> d, now |-> clock] :
          t \in {u \in Moved : tasks[u].status = "in_review"}, d \in Decisions}

\* A request reaches the server and its transaction begins: its now() is taken.
Send(c) ==
  /\ requests[c] = Idle
  /\ \E r \in Sendable : requests' = [requests EXCEPT ![c] = r]
  /\ UNCHANGED <<clock, sessions, intervals, tasks, revoked, heard>>

Done(c) == requests' = [requests EXCEPT ![c] = Idle]

\* The transaction ends with nothing changed: refused by a guard or a
\* constraint, failed and rolled back, or a retry shown what is committed.
Answer(c) ==
  /\ requests[c] # Idle
  /\ Done(c)
  /\ UNCHANGED <<clock, sessions, intervals, tasks, revoked, heard>>

Heard(s, now) == heard' = [heard EXCEPT ![s] = Greatest(@, now)]
-----------------------------------------------------------------------------
(* Starting, startInternal. *)

Startable(t) ==
  /\ ~revoked[Assignee[t]]
  /\ ~tasks[t].archived
  /\ tasks[t].status \notin {"completed", "in_review"}

NewSession(t, now) == [state |-> "running", task |-> t, hb |-> now, version |-> 1]

\* A task in To do or Blocked is in progress from here on.
PickUp(t) ==
  tasks' = [tasks EXCEPT ![t].status = IF @ \in {"todo", "blocked"} THEN "in_progress" ELSE @]

Start(c) ==
  LET r == requests[c] IN
  /\ r.op = "start"
  /\ ~ \E s \in Sessions : IsOpen(s)
  /\ Startable(r.task)
  /\ Admits(intervals, r.now)
  /\ \E s \in Sessions :
       /\ sessions[s] = Unused
       /\ sessions' = [sessions EXCEPT ![s] = NewSession(r.task, r.now)]
       /\ intervals' = intervals \cup {NewInterval(s, r.now)}
       /\ Heard(s, r.now)
  /\ PickUp(r.task)
  /\ Done(c)
  /\ UNCHANGED <<clock, revoked>>
-----------------------------------------------------------------------------
(* The requests that carry the version they were made for. *)

\* Every change of state counts the version up.
Became(row, state) ==
  [state |-> state, task |-> row.task, hb |-> row.hb, version |-> row.version + 1]

Current(r) == Visible(r.session) /\ sessions[r.session].version = r.expected

Heartbeat(c) ==
  LET r == requests[c] IN
  /\ r.op = "heartbeat"
  /\ Visible(r.session)
  /\ sessions[r.session].state = "running"
  /\ requests' = [requests EXCEPT ![c].op = "beat"]
  /\ UNCHANGED <<clock, sessions, intervals, tasks, revoked, heard>>

\* The UPDATE names only the id: whatever the session has become by now.
HeartbeatWrite(c) ==
  LET r == requests[c] IN
  /\ r.op = "beat"
  /\ Visible(r.session)
  /\ sessions' = [sessions EXCEPT ![r.session].hb = r.now]
  /\ Heard(r.session, r.now)
  /\ Done(c)
  /\ UNCHANGED <<clock, intervals, tasks, revoked>>

Pause(c) ==
  LET r == requests[c] IN
  /\ r.op = "pause"
  /\ Current(r)
  /\ sessions[r.session].state = "running"
  /\ Closable(intervals, r.session, r.now)
  /\ intervals' = CloseOpen(intervals, r.session, r.now)
  /\ sessions' = [sessions EXCEPT ![r.session] = Became(@, "paused")]
  /\ Heard(r.session, r.now)
  /\ Done(c)
  /\ UNCHANGED <<clock, tasks, revoked>>

\* Faulty: a resume keeps the version.
ResumeSameVersion(c) ==
  LET r == requests[c] IN
  /\ r.op = "resume"
  /\ Current(r)
  /\ sessions[r.session].state \in {"paused", "interrupted"}
  /\ Admits(intervals, r.now)
  /\ intervals' = intervals \cup UncertainGap(r.session, r.now) \cup {NewInterval(r.session, r.now)}
  /\ sessions' = [sessions EXCEPT ![r.session] = [@ EXCEPT !.state = "running", !.hb = r.now]]
  /\ Heard(r.session, r.now)
  /\ Done(c)
  /\ UNCHANGED <<clock, tasks, revoked>>

Resume(c) ==
  LET r == requests[c] IN
  /\ r.op = "resume"
  /\ Current(r)
  /\ sessions[r.session].state \in {"paused", "interrupted"}
  /\ Admits(intervals, r.now)
  /\ intervals' = intervals \cup UncertainGap(r.session, r.now) \cup {NewInterval(r.session, r.now)}
  /\ sessions' = [sessions EXCEPT ![r.session] = [Became(@, "running") EXCEPT !.hb = r.now]]
  /\ Heard(r.session, r.now)
  /\ Done(c)
  /\ UNCHANGED <<clock, tasks, revoked>>

\* Faulty: the open interval is left open.
StoppedOpen(s, now) == intervals \cup UncertainGap(s, now)

\* The intervals once the session is stopped, stopInternal.
Stopped(s, now) == CloseOpen(intervals \cup UncertainGap(s, now), s, now)

\* The status stopping with this outcome leaves the task in, or the refusal
\* that rolls the stop back: submitInternal when somebody checks the task, else
\* completeOwnTaskInternal.
MayFinish(t) ==
  /\ ~tasks[t].archived
  /\ tasks[t].status # "in_review"
  /\ t \in Checked => tasks[t].status # "completed"

Allows(t, outcome) ==
  outcome = "completed" => MayFinish(t) /\ (t \in Checked => Mine(t))

StatusAfter(t, outcome) ==
  CASE outcome = "completed" -> IF t \in Checked THEN "in_review" ELSE "completed"
    [] outcome = "blocked"   -> "blocked"
    [] OTHER                 -> tasks[t].status

Stop(c) ==
  LET r == requests[c]
      t == sessions[r.session].task IN
  /\ r.op = "stop"
  /\ Current(r)
  /\ IsOpen(r.session)
  /\ Closable(intervals, r.session, r.now)
  /\ Allows(t, r.outcome)
  /\ intervals' = Stopped(r.session, r.now)
  /\ sessions' = [sessions EXCEPT ![r.session] = Became(@, "stopped")]
  /\ tasks' = [tasks EXCEPT ![t].status = StatusAfter(t, r.outcome)]
  /\ Heard(r.session, r.now)
  /\ Done(c)
  /\ UNCHANGED <<clock, revoked>>

\* Stops the session to be continued later and starts the next task's, in one
\* transaction: when either half is refused, so is the other.
Switch(c) ==
  LET r == requests[c] IN
  /\ r.op = "switch"
  /\ Current(r)
  /\ IsOpen(r.session)
  /\ sessions[r.session].task # r.task
  /\ Assignee[r.task] = MemberOf(r.session)
  /\ Closable(intervals, r.session, r.now)
  /\ Startable(r.task)
  /\ Admits(Stopped(r.session, r.now), r.now)
  /\ \E s \in Sessions :
       /\ sessions[s] = Unused
       /\ sessions' = [sessions EXCEPT ![r.session] = Became(@, "stopped"),
                                       ![s] = NewSession(r.task, r.now)]
       /\ intervals' = Stopped(r.session, r.now) \cup {NewInterval(s, r.now)}
       /\ heard' = [heard EXCEPT ![r.session] = Greatest(@, r.now), ![s] = Greatest(@, r.now)]
  /\ PickUp(r.task)
  /\ Done(c)
  /\ UNCHANGED <<clock, revoked>>
-----------------------------------------------------------------------------
(* What others do to the user's sessions and tasks. *)

\* Faulty: only a running session is looked for.
RevokeRunning(c) ==
  LET r == requests[c] IN
  /\ r.op = "revoke"
  /\ ~revoked[r.member]
  /\ revoked' = [revoked EXCEPT ![r.member] = TRUE]
  /\ \/ \E s \in Sessions :
          /\ sessions[s].state = "running" /\ MemberOf(s) = r.member
          /\ intervals' = CloseAtLeast(intervals, s, Least(sessions[s].hb, r.now))
          /\ sessions' = [sessions EXCEPT ![s] = Became(@, "stopped")]
     \/ /\ ~ \E s \in Sessions : sessions[s].state = "running" /\ MemberOf(s) = r.member
        /\ UNCHANGED <<intervals, sessions>>
  /\ Done(c)
  /\ UNCHANGED <<clock, tasks, heard>>

\* revokeMembership: access ends, and the membership's open session is stopped
\* at the last heartbeat.
Revoke(c) ==
  LET r == requests[c] IN
  /\ r.op = "revoke"
  /\ ~revoked[r.member]
  /\ revoked' = [revoked EXCEPT ![r.member] = TRUE]
  /\ \/ \E s \in Sessions :
          /\ IsOpen(s) /\ MemberOf(s) = r.member
          /\ intervals' = CloseAtLeast(intervals, s, Least(sessions[s].hb, r.now))
          /\ sessions' = [sessions EXCEPT ![s] = Became(@, "stopped")]
     \/ /\ ~ \E s \in Sessions : IsOpen(s) /\ MemberOf(s) = r.member
        /\ UNCHANGED <<intervals, sessions>>
  /\ Done(c)
  /\ UNCHANGED <<clock, tasks, heard>>

\* Faulty: the worker looks for sessions it has already interrupted.
InterruptAgain(s) ==
  /\ sessions[s].state = "interrupted"
  /\ sessions[s].hb + StaleAfter < clock
  /\ intervals' = CloseAtLeast(intervals, s, sessions[s].hb)
  /\ sessions' = [sessions EXCEPT ![s] = Became(@, "interrupted")]
  /\ UNCHANGED <<clock, tasks, revoked, requests, heard>>

\* interruptStaleSessions, in the worker: no advisory lock, but the row's.
Interrupt(s) ==
  /\ sessions[s].state = "running"
  /\ sessions[s].hb + StaleAfter < clock
  /\ intervals' = CloseAtLeast(intervals, s, sessions[s].hb)
  /\ sessions' = [sessions EXCEPT ![s] = Became(@, "interrupted")]
  /\ UNCHANGED <<clock, tasks, revoked, requests, heard>>

Transitions ==
  [todo |-> {"in_progress"}, in_progress |-> {"blocked", "todo"}, blocked |-> {"in_progress"},
   in_review |-> {"in_progress"}, completed |-> {"in_progress"}]

\* Whom a task may be handed to: an active member, here somebody else or the user.
HandedTo(t) ==
  IF Mine(t) THEN {"other"} ELSE {a \in {"returned"} : ~revoked[Assignee[t]]}

\* An open session on the task that is seen, under row security, by others: a
\* reviewer, a project lead or a new assignee who does not manage the user's team
\* may change the task and sees no session of it.
SeenOpen(t) == t \notin Unseen /\ OpenOn(t)

\* updateTask: a status change, a new assignee, an archiving, or several.  A task
\* that goes into review goes there by a submission, never by this call.
UpdateTask(t) ==
  \E status \in Transitions[tasks[t].status] \cup {tasks[t].status}, archive \in BOOLEAN,
     assignee \in HandedTo(t) \cup {tasks[t].assignee} :
    /\ archive \/ assignee # tasks[t].assignee => ~SeenOpen(t)
    /\ status # tasks[t].status => ~tasks[t].archived
    /\ tasks' = [tasks EXCEPT ![t] = [status |-> status, archived |-> @.archived \/ archive,
                                      assignee |-> assignee]]
    /\ tasks' # tasks
    /\ UNCHANGED <<clock, sessions, intervals, revoked, requests, heard>>

\* Faulty: Done does not look for an open session.
FinishTaskAnyway(t) ==
  /\ ~revoked[Assignee[t]] /\ Mine(t)
  /\ MayFinish(t)
  /\ tasks' = [tasks EXCEPT ![t].status = StatusAfter(t, "completed")]
  /\ UNCHANGED <<clock, sessions, intervals, revoked, requests, heard>>

\* completeTask and submitTask: Done pressed with no session on the task.
FinishTask(t) ==
  /\ ~revoked[Assignee[t]] /\ Mine(t)
  /\ MayFinish(t)
  /\ ~OpenOn(t)
  /\ tasks' = [tasks EXCEPT ![t].status = StatusAfter(t, "completed")]
  /\ UNCHANGED <<clock, sessions, intervals, revoked, requests, heard>>

\* Whoever the task was handed to submits it, completes it, or stops a session of
\* their own as blocked.
WorkOfAnother(t) ==
  /\ ~Mine(t)
  /\ \E status \in {"blocked", "in_review", "completed"} :
       /\ status # "blocked" =>
            /\ ~tasks[t].archived /\ tasks[t].status \notin {"in_review", "completed"}
            /\ ~SeenOpen(t)
       /\ tasks' = [tasks EXCEPT ![t].status = status]
  /\ UNCHANGED <<clock, sessions, intervals, revoked, requests, heard>>

\* reviewSubmission: the guards read the task without locking it (Sendable),
\* and the UPDATE names only its id.
Review(c) ==
  LET r == requests[c] IN
  /\ r.op = "review"
  /\ tasks' = [tasks EXCEPT ![r.task].status = r.decision]
  /\ Done(c)
  /\ UNCHANGED <<clock, sessions, intervals, revoked, heard>>
-----------------------------------------------------------------------------
Handle(c) ==
  \/ Start(c) \/ Pause(c) \/ Resume(c) \/ Stop(c) \/ Switch(c)
  \/ Heartbeat(c) \/ HeartbeatWrite(c) \/ Revoke(c) \/ Review(c) \/ Answer(c)

Next ==
  \/ \E c \in Clients : Send(c) \/ Handle(c)
  \/ \E s \in Sessions : Interrupt(s)
  \/ \E t \in Moved : UpdateTask(t) \/ FinishTask(t) \/ WorkOfAnother(t)
  \/ Tick

Spec == Init /\ [][Next]_vars
-----------------------------------------------------------------------------
(* Properties. *)

\* Every variable holds what its table or message can hold.
TypeOK ==
  /\ clock \in Time
  /\ sessions \in [Sessions -> Session]
  /\ intervals \subseteq Interval
  /\ tasks \in [Tasks -> Task]
  /\ revoked \in [Members -> BOOLEAN]
  /\ requests \in [Clients -> Request \cup {Idle}]
  /\ heard \in [Sessions -> Time]

\* One timer per user over all devices and workspaces, and the ledger agrees
\* with it: exactly the running session has an open interval, exactly one, and
\* that one is confirmed.  No constraint relates the two tables; startInternal,
\* pause, resume, stop, the worker and the offboarding each keep them in step.
OneTimer ==
  /\ \A s1, s2 \in Sessions : IsOpen(s1) /\ IsOpen(s2) => s1 = s2
  /\ \A s \in Sessions : sessions[s].state # "running" => OpenOf(intervals, s) = {}
  /\ \A s \in Sessions : sessions[s].state = "running" =>
       \E i \in intervals : OpenOf(intervals, s) = {i} /\ i.status = "confirmed"

\* No time is credited past the last instant the user was heard from: neither
\* the worker, an offboarding nor a late heartbeat ends a confirmed interval
\* (which does not end where it began) later than that.
CreditEndsAtContact ==
  \A i \in intervals : i.status = "confirmed" /\ i.to # Forever /\ i.from # i.to =>
    i.to <= heard[i.session]

\* A request made for the version a session still has is never turned away by
\* the interval constraints: although its now() may be long past when it gets
\* the lock, its close ends no interval before its start and its resume or
\* switch overlaps nothing.
CurrentRequestsAreWellTimed ==
  \A c \in Clients :
    LET r == requests[c] IN
    /\ r.op \in {"pause", "stop", "switch"} /\ Current(r) => Closable(intervals, r.session, r.now)
    /\ r.op = "resume" /\ Current(r) /\ sessions[r.session].state \in {"paused", "interrupted"} =>
         Admits(intervals, r.now)
    /\ r.op = "switch" /\ Current(r) /\ IsOpen(r.session) => Admits(Stopped(r.session, r.now), r.now)

Disjoint(i, j) == i.to <= j.from \/ j.to <= i.from \/ i.from = i.to \/ j.from = j.to

\* An interval marked uncertain never covers time the same session is credited
\* for: the gap runs from the last confirmed end to the reconciliation, however
\* often the session was interrupted and resumed.
GapsAreUncredited ==
  \A i, j \in intervals :
    i.session = j.session /\ i.status = "uncertain" /\ j.status = "confirmed" => Disjoint(i, j)

\* Nobody works on what waits for its check: a task goes into review only when
\* no session is open on it, and none is started there (startInternal and
\* submitInternal each read what the other writes, under the task's row lock).
\* The one exception is a task handed on by somebody who does not see the running
\* session: the new assignee's submission does not see it either.
InReviewIsNotWorkedOn ==
  \A s \in Sessions : IsOpen(s) /\ tasks[sessions[s].task].status = "in_review" =>
    sessions[s].task \in Unseen /\ tasks[sessions[s].task].assignee # "user"

\* Whoever was offboarded has no open session: it would stay open for good, for
\* nobody may stop it, and keep its user from starting one in any workspace.
OffboardedHaveNoOpenSession == \A s \in Sessions : IsOpen(s) => ~revoked[MemberOf(s)]

\* What the code tells its users: an archived task has no open session ("Stop
\* the open work session before archiving this task"), and a completed one is
\* reopened before it is worked on.
OpenSessionsAreOnLiveTasks ==
  \A s \in Sessions : IsOpen(s) =>
    /\ ~tasks[sessions[s].task].archived
    /\ tasks[sessions[s].task].status # "completed"

\* The runbook: a session without heartbeats for longer than StaleAfter is
\* interrupted at its last heartbeat, and nothing after it is credited.  So time
\* that has been credited ends within StaleAfter of the last heartbeat.
StaleTimeIsNeverCredited ==
  \A i \in intervals : i.status = "confirmed" /\ i.to # Forever =>
    i.to <= sessions[i.session].hb + StaleAfter
-----------------------------------------------------------------------------
(* The ledger this implements. *)

Running == {s \in Sessions : sessions[s].state = "running"}

timerNow ==
  IF Running # {} THEN "on"
  ELSE IF \E s \in Sessions : IsOpen(s) THEN "held" ELSE "off"

sinceNow ==
  IF Running = {} THEN 0
  ELSE (CHOOSE i \in intervals : i.session \in Running /\ i.to = Forever).from

paidNow ==
  {x \in Time : \E i \in intervals :
     i.status = "confirmed" /\ i.to # Forever /\ i.from <= x /\ x < i.to}

Ledger == INSTANCE TimeLedger WITH
  Instants <- Time, timer <- timerNow, since <- sinceNow, paid <- paidNow

\* Sessions, devices, retries, lost heartbeats and offboarding come down to the
\* ledger: credited time is only ever added to, one stretch at a time, each
\* after everything credited before it.
ImplementsLedger == Ledger!Spec
-----------------------------------------------------------------------------
(* The worker visits every stale session again and again (every 15 seconds)  *)
(* and time passes; nothing is assumed of the clients.                       *)
Fairness == WF_vars(Tick) /\ \A s \in Sessions : WF_vars(Interrupt(s))

FairSpec == Spec /\ Fairness

\* A running session nobody is heard from does not stay running: its heartbeat
\* is renewed or it is paused, stopped or interrupted.
SilenceEndsTheTimer ==
  \A s \in Sessions, h \in 0 .. MaxTime - StaleAfter - 1 :
    (sessions[s].state = "running" /\ sessions[s].hb = h)
      ~> (sessions[s].state # "running" \/ sessions[s].hb # h)
=============================================================================
