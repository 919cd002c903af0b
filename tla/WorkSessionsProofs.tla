------------------------- MODULE WorkSessionsProofs -------------------------
(***************************************************************************)
(* Theorems about WorkSessions, for any number of sessions, tasks,         *)
(* memberships and clients and any values of the bounds.                   *)
(***************************************************************************)
EXTENDS WorkSessions, TLAPS

(* Data: instants and the interval table.                                  *)

\* Instants are natural numbers, and an interval still open is in none of them.
LEMMA TimeFacts ==
  /\ Time \subseteq Nat
  /\ Forever \in Nat /\ Forever \notin Time
  /\ \A x \in Time : x < Forever
  /\ 0 \in Time
BY SessionsAssumption DEF SessionsAssumption, Time, Forever

\* Closing or clamping the open intervals of a session keeps rows rows.
LEMMA CloseOpenType ==
  ASSUME NEW ivs \in SUBSET Interval, NEW s, NEW at \in Time
  PROVE  CloseOpen(ivs, s, at) \in SUBSET Interval
BY DEF CloseOpen, OpenOf, Interval

LEMMA CloseAtLeastType ==
  ASSUME NEW ivs \in SUBSET Interval, NEW s, NEW at \in Time
  PROVE  CloseAtLeast(ivs, s, at) \in SUBSET Interval
<1> SUFFICES ASSUME NEW i \in ivs
             PROVE  (IF i \in OpenOf(ivs, s) THEN [i EXCEPT !.to = Greatest(i.from, at)] ELSE i) \in Interval
  BY DEF CloseAtLeast
<1>1. i \in Interval /\ Greatest(i.from, at) \in Time
  BY DEF Greatest, Interval
<1> QED
  BY <1>1 DEF Interval

LEMMA NewIntervalType ==
  ASSUME NEW s \in Sessions, NEW now \in Time
  PROVE  NewInterval(s, now) \in Interval
BY DEF NewInterval, Interval

\* What an interrupted session adds runs from an instant to the request's now().
LEMMA UncertainGapType ==
  ASSUME TypeOK, NEW s \in Sessions, NEW now \in Time
  PROVE  UncertainGap(s, now) \in SUBSET Interval
<1>1. GapStarts(s, now) \subseteq Time
  <2>1. sessions[s].hb \in Time
    BY DEF TypeOK, Session
  <2>2. \A i \in intervals : i.to # Forever => i.to \in Time
    BY DEF TypeOK, Interval
  <2> QED
    BY <2>1, <2>2 DEF GapStarts, ConfirmedTo
<1> QED
  BY <1>1 DEF UncertainGap, Gap, Interval
-----------------------------------------------------------------------------
(* Requests.                                                               *)

\* What the fields of a request in flight hold, by its kind.
LEMMA RequestFields ==
  ASSUME NEW r \in Request \cup {Idle}
  PROVE  /\ r.op = "start" => r.task \in Tasks /\ r.now \in Time
         /\ r.op \in {"pause", "resume", "stop", "switch"} =>
              r.session \in Sessions /\ r.expected \in Nat /\ r.now \in Time
         /\ r.op = "stop" => r.outcome \in Outcomes
         /\ r.op = "switch" => r.task \in Tasks
         /\ r.op \in {"heartbeat", "beat"} => r.session \in Sessions /\ r.now \in Time
         /\ r.op = "revoke" => r.member \in Members /\ r.now \in Time
         /\ r.op = "review" => r.task \in Tasks /\ r.decision \in Decisions
BY DEF Request, Idle

LEMMA SendableType ==
  ASSUME TypeOK
  PROVE  Sendable \subseteq Request
<1> SUFFICES ASSUME NEW r \in Sendable
             PROVE  r \in Request
  OBVIOUS
<1>1. clock \in Time /\ \A s \in Sessions : sessions[s].version \in Nat
  BY DEF TypeOK, Session
<1>2. Moved \subseteq Tasks
  BY SessionsAssumption DEF SessionsAssumption
<1> QED
  BY <1>1, <1>2 DEF Sendable, Request, About

\* The statuses a stop may leave a task in.
LEMMA StatusAfterType ==
  ASSUME TypeOK, NEW t \in Tasks, NEW outcome
  PROVE  StatusAfter(t, outcome) \in Statuses
BY DEF TypeOK, Task, Statuses, StatusAfter
-----------------------------------------------------------------------------
(* Type correctness.                                                       *)

LEMMA TypeInit == Init => TypeOK
BY TimeFacts, SessionsAssumption
DEF Init, TypeOK, Session, Unused, Task, Statuses, Holders, Idle

\* A row of work_sessions after its state, heartbeat or version changed.
LEMMA BecameType ==
  ASSUME TypeOK, NEW s \in Sessions, NEW st \in OpenStates \cup {"stopped"}
  PROVE  /\ Became(sessions[s], st) \in Session
         /\ \A now \in Time : [Became(sessions[s], st) EXCEPT !.hb = now] \in Session
<1>1. Became(sessions[s], st) \in Session
  BY DEF TypeOK, Session, Became
<1>2. ASSUME NEW row \in Session, NEW now \in Time
      PROVE  [row EXCEPT !.hb = now] \in Session
  BY DEF Session, OpenStates
<1> QED
  BY <1>1, <1>2

LEMMA NewSessionType ==
  ASSUME NEW t \in Tasks, NEW now \in Time
  PROVE  NewSession(t, now) \in Session
BY DEF Session, OpenStates, NewSession

LEMMA HeardEdit ==
  ASSUME TypeOK, NEW s \in Sessions, NEW now \in Time
  PROVE  [heard EXCEPT ![s] = Greatest(@, now)] \in [Sessions -> Time]
BY DEF TypeOK, Greatest

LEMMA TaskEdit ==
  ASSUME TypeOK, NEW t, NEW st \in Statuses
  PROVE  [tasks EXCEPT ![t].status = st] \in [Tasks -> Task]
BY DEF TypeOK, Task

LEMMA PickUpType ==
  ASSUME TypeOK, NEW t \in Tasks, PickUp(t)
  PROVE  tasks' \in [Tasks -> Task]
<1>1. tasks[t].status \in Statuses /\ "in_progress" \in Statuses
  BY DEF TypeOK, Task, Statuses
<1> DEFINE st == IF tasks[t].status \in {"todo", "blocked"} THEN "in_progress" ELSE tasks[t].status
<1>2. st \in Statuses
  BY <1>1
<1>3. tasks' = [tasks EXCEPT ![t].status = st]
  BY DEF PickUp
<1> HIDE DEF st
<1> QED
  BY <1>2, <1>3, TaskEdit

\* A request that is answered leaves its client idle; its heartbeat, once read,
\* becomes a write.
LEMMA RequestEdits ==
  ASSUME TypeOK, NEW c \in Clients
  PROVE  /\ [requests EXCEPT ![c] = Idle] \in [Clients -> Request \cup {Idle}]
         /\ requests[c].op = "heartbeat" =>
              [requests EXCEPT ![c].op = "beat"] \in [Clients -> Request \cup {Idle}]
<1>1. requests[c] \in Request \cup {Idle}
  BY DEF TypeOK
<1>2. requests[c].op = "heartbeat" => [requests[c] EXCEPT !.op = "beat"] \in Request
  BY <1>1 DEF Request, Idle
<1> QED
  BY <1>2 DEF TypeOK

LEMMA TypeStart ==
  ASSUME TypeOK, NEW c \in Clients, Start(c)
  PROVE  TypeOK'
<1> DEFINE r == requests[c]
<1>1. r.task \in Tasks /\ r.now \in Time
  BY RequestFields DEF Start, TypeOK
<1>2. PICK s \in Sessions :
        /\ sessions' = [sessions EXCEPT ![s] = NewSession(r.task, r.now)]
        /\ intervals' = intervals \cup {NewInterval(s, r.now)}
        /\ heard' = [heard EXCEPT ![s] = Greatest(@, r.now)]
  BY DEF Start, Heard
<1>3. PickUp(r.task) /\ Done(c) /\ UNCHANGED <<clock, revoked>>
  BY DEF Start
<1> HIDE DEF r
<1>4. sessions' \in [Sessions -> Session] /\ heard' \in [Sessions -> Time]
  BY <1>1, <1>2, NewSessionType, HeardEdit DEF TypeOK
<1>5. intervals' \subseteq Interval
  BY <1>1, <1>2, NewIntervalType DEF TypeOK
<1>6. tasks' \in [Tasks -> Task]
  BY <1>1, <1>3, PickUpType
<1> QED
  BY <1>3, <1>4, <1>5, <1>6, RequestEdits DEF TypeOK, Done

LEMMA TypePause ==
  ASSUME TypeOK, NEW c \in Clients, Pause(c)
  PROVE  TypeOK'
<1> DEFINE r == requests[c]
<1>1. r.session \in Sessions /\ r.now \in Time
  BY RequestFields DEF Pause, TypeOK
<1>2. /\ intervals' = CloseOpen(intervals, r.session, r.now)
      /\ sessions' = [sessions EXCEPT ![r.session] = Became(@, "paused")]
      /\ heard' = [heard EXCEPT ![r.session] = Greatest(@, r.now)]
      /\ requests' = [requests EXCEPT ![c] = Idle]
      /\ UNCHANGED <<clock, tasks, revoked>>
  BY DEF Pause, Heard, Done
<1> HIDE DEF r
<1>3. sessions' \in [Sessions -> Session] /\ heard' \in [Sessions -> Time]
  BY <1>1, <1>2, BecameType, HeardEdit DEF OpenStates, TypeOK
<1>4. intervals' \subseteq Interval
  BY <1>1, <1>2, CloseOpenType DEF TypeOK
<1> QED
  BY <1>2, <1>3, <1>4, RequestEdits DEF TypeOK

LEMMA TypeResume ==
  ASSUME TypeOK, NEW c \in Clients, Resume(c)
  PROVE  TypeOK'
<1> DEFINE r == requests[c]
<1>1. r.session \in Sessions /\ r.now \in Time
  BY RequestFields DEF Resume, TypeOK
<1>2. /\ intervals' = intervals \cup UncertainGap(r.session, r.now) \cup {NewInterval(r.session, r.now)}
      /\ sessions' = [sessions EXCEPT ![r.session] = [Became(@, "running") EXCEPT !.hb = r.now]]
      /\ heard' = [heard EXCEPT ![r.session] = Greatest(@, r.now)]
      /\ requests' = [requests EXCEPT ![c] = Idle]
      /\ UNCHANGED <<clock, tasks, revoked>>
  BY DEF Resume, Heard, Done
<1> HIDE DEF r
<1>3. sessions' \in [Sessions -> Session] /\ heard' \in [Sessions -> Time]
  BY <1>1, <1>2, BecameType, HeardEdit DEF OpenStates, TypeOK
<1>4. intervals' \subseteq Interval
  BY <1>1, <1>2, UncertainGapType, NewIntervalType DEF TypeOK
<1> QED
  BY <1>2, <1>3, <1>4, RequestEdits DEF TypeOK

\* The intervals a stop leaves.
LEMMA StoppedType ==
  ASSUME TypeOK, NEW s \in Sessions, NEW now \in Time
  PROVE  Stopped(s, now) \in SUBSET Interval
<1>1. intervals \cup UncertainGap(s, now) \in SUBSET Interval
  BY UncertainGapType DEF TypeOK
<1> QED
  BY <1>1, CloseOpenType DEF Stopped

LEMMA TypeStop ==
  ASSUME TypeOK, NEW c \in Clients, Stop(c)
  PROVE  TypeOK'
<1> DEFINE r == requests[c]
           t == sessions[r.session].task
           st == StatusAfter(t, r.outcome)
<1>1. r.session \in Sessions /\ r.now \in Time
  BY RequestFields DEF Stop, TypeOK
<1>2. /\ intervals' = Stopped(r.session, r.now)
      /\ sessions' = [sessions EXCEPT ![r.session] = Became(@, "stopped")]
      /\ tasks' = [tasks EXCEPT ![t].status = st]
      /\ heard' = [heard EXCEPT ![r.session] = Greatest(@, r.now)]
      /\ requests' = [requests EXCEPT ![c] = Idle]
      /\ UNCHANGED <<clock, revoked>>
  BY DEF Stop, Heard, Done
<1>3. t \in Tasks => st \in Statuses
  BY StatusAfterType
<1> HIDE DEF r, t, st
<1>4. sessions' \in [Sessions -> Session] /\ heard' \in [Sessions -> Time]
  BY <1>1, <1>2, BecameType, HeardEdit DEF OpenStates, TypeOK
<1>5. intervals' \subseteq Interval
  BY <1>1, <1>2, StoppedType
<1>6. tasks' \in [Tasks -> Task]
  BY <1>2, <1>3, TaskEdit DEF TypeOK
<1> QED
  BY <1>2, <1>4, <1>5, <1>6, RequestEdits DEF TypeOK

LEMMA TypeSwitch ==
  ASSUME TypeOK, NEW c \in Clients, Switch(c)
  PROVE  TypeOK'
<1> DEFINE r == requests[c]
<1>1. r.session \in Sessions /\ r.now \in Time /\ r.task \in Tasks
  BY RequestFields DEF Switch, TypeOK
<1>2. PICK s \in Sessions :
        /\ sessions' = [sessions EXCEPT ![r.session] = Became(@, "stopped"),
                                         ![s] = NewSession(r.task, r.now)]
        /\ intervals' = Stopped(r.session, r.now) \cup {NewInterval(s, r.now)}
        /\ heard' = [heard EXCEPT ![r.session] = Greatest(@, r.now), ![s] = Greatest(@, r.now)]
  BY DEF Switch
<1>3. PickUp(r.task) /\ Done(c) /\ UNCHANGED <<clock, revoked>>
  BY DEF Switch
<1> HIDE DEF r
<1>4. sessions' \in [Sessions -> Session]
  <2>1. NewSession(r.task, r.now) \in Session
    BY <1>1, NewSessionType
  <2>2. [sessions EXCEPT ![r.session] = Became(@, "stopped")]
          \in [Sessions -> Session]
    BY <1>1, BecameType DEF TypeOK
  <2> QED
    BY <1>2, <2>1, <2>2
<1>5. heard' \in [Sessions -> Time]
  BY <1>1, <1>2 DEF TypeOK, Greatest
<1>6. intervals' \subseteq Interval
  BY <1>1, <1>2, StoppedType, NewIntervalType
<1>7. tasks' \in [Tasks -> Task]
  BY <1>1, <1>3, PickUpType
<1> QED
  BY <1>3, <1>4, <1>5, <1>6, <1>7, RequestEdits DEF TypeOK, Done

LEMMA TypeHeartbeatWrite ==
  ASSUME TypeOK, NEW c \in Clients, HeartbeatWrite(c)
  PROVE  TypeOK'
<1> DEFINE r == requests[c]
<1>1. r.session \in Sessions /\ r.now \in Time
  BY RequestFields DEF HeartbeatWrite, TypeOK
<1>2. sessions' \in [Sessions -> Session] /\ heard' \in [Sessions -> Time]
  BY <1>1, HeardEdit DEF HeartbeatWrite, Heard, TypeOK, Session
<1> QED
  BY <1>2, RequestEdits DEF TypeOK, HeartbeatWrite, Done

LEMMA TypeRevoke ==
  ASSUME TypeOK, NEW c \in Clients, Revoke(c)
  PROVE  TypeOK'
<1> DEFINE r == requests[c]
<1>1. r.member \in Members /\ r.now \in Time
  BY RequestFields DEF Revoke, TypeOK
<1>2. intervals' \subseteq Interval /\ sessions' \in [Sessions -> Session]
  <2>1. CASE \E s \in Sessions :
               /\ intervals' = CloseAtLeast(intervals, s, Least(sessions[s].hb, r.now))
               /\ sessions' = [sessions EXCEPT ![s] = Became(@, "stopped")]
    <3>1. PICK s \in Sessions :
               /\ intervals' = CloseAtLeast(intervals, s, Least(sessions[s].hb, r.now))
               /\ sessions' = [sessions EXCEPT ![s] = Became(@, "stopped")]
      BY <2>1
    <3>2. Least(sessions[s].hb, r.now) \in Time
      BY <1>1 DEF Least, TypeOK, Session
    <3> QED
      BY <3>1, <3>2, CloseAtLeastType, BecameType DEF TypeOK
  <2>2. CASE UNCHANGED <<intervals, sessions>>
    BY <2>2 DEF TypeOK
  <2> QED
    BY <2>1, <2>2 DEF Revoke
<1> QED
  BY <1>1, <1>2, RequestEdits DEF TypeOK, Revoke, Done

LEMMA TypeInterrupt ==
  ASSUME TypeOK, NEW s \in Sessions, Interrupt(s)
  PROVE  TypeOK'
<1>1. sessions[s].hb \in Time
  BY DEF TypeOK, Session
<1>2. intervals' \subseteq Interval
  BY <1>1, CloseAtLeastType DEF Interrupt, TypeOK
<1>3. sessions' \in [Sessions -> Session]
  BY BecameType DEF Interrupt, TypeOK, OpenStates
<1> QED
  BY <1>2, <1>3 DEF Interrupt, TypeOK

LEMMA TypeTasks ==
  ASSUME TypeOK, NEW t \in Moved, UpdateTask(t) \/ FinishTask(t) \/ WorkOfAnother(t)
  PROVE  TypeOK'
<1>1. t \in Tasks
  BY SessionsAssumption DEF SessionsAssumption
<1>2. tasks' \in [Tasks -> Task]
  <2>1. CASE UpdateTask(t)
    <3>1. PICK status \in Transitions[tasks[t].status] \cup {tasks[t].status}, archive \in BOOLEAN,
               assignee \in HandedTo(t) \cup {tasks[t].assignee} :
            tasks' = [tasks EXCEPT ![t] = [status |-> status, archived |-> @.archived \/ archive,
                                          assignee |-> assignee]]
      BY <2>1, Zenon DEF UpdateTask
    <3>2. tasks[t] \in Task
      BY <1>1 DEF TypeOK
    <3>3. status \in Statuses
      BY <3>1, <3>2 DEF Transitions, Task, Statuses
    <3>4. assignee \in Holders
      BY <3>1, <3>2 DEF HandedTo, Holders, Task
    <3>5. tasks[t].archived \/ archive \in BOOLEAN
      BY <3>1, <3>2 DEF Task
    <3> DEFINE gone == tasks[t].archived \/ archive
               row  == [status |-> status, archived |-> gone, assignee |-> assignee]
    <3>6. row \in Task
      <4>1. gone \in BOOLEAN
        BY <3>5
      <4> HIDE DEF gone
      <4> QED
        BY <3>3, <3>4, <4>1 DEF Task
    <3>7. tasks' = [tasks EXCEPT ![t] = row]
      BY <3>1, Zenon
    <3>8. \A r \in Task : [tasks EXCEPT ![t] = r] \in [Tasks -> Task]
      BY DEF TypeOK
    <3> HIDE DEF row
    <3> QED
      BY <3>6, <3>7, <3>8
  <2>2. CASE FinishTask(t)
    BY <1>1, <2>2, StatusAfterType, TaskEdit DEF FinishTask
  <2>3. CASE WorkOfAnother(t)
    <3>1. PICK status \in Statuses : tasks' = [tasks EXCEPT ![t].status = status]
      BY <2>3 DEF WorkOfAnother, Statuses
    <3> QED
      BY <3>1, TaskEdit
  <2> QED
    BY <2>1, <2>2, <2>3
<1> QED
  BY <1>2 DEF TypeOK, UpdateTask, FinishTask, WorkOfAnother

LEMMA TypeReview ==
  ASSUME TypeOK, NEW c \in Clients, Review(c)
  PROVE  TypeOK'
<1>1. PICK t \in Tasks, decision \in Statuses : tasks' = [tasks EXCEPT ![t].status = decision]
  BY RequestFields DEF Review, TypeOK, Decisions, Statuses
<1>2. tasks' \in [Tasks -> Task]
  BY <1>1, TaskEdit
<1> QED
  BY <1>2, RequestEdits DEF Review, Done, TypeOK

LEMMA TypeStep == TypeOK /\ [Next]_vars => TypeOK'
<1> SUFFICES ASSUME TypeOK, [Next]_vars
             PROVE  TypeOK'
  OBVIOUS
<1>1. CASE Tick
  BY <1>1, SessionsAssumption DEF Tick, TypeOK, Time, SessionsAssumption
<1>2. ASSUME NEW c \in Clients, Send(c)
      PROVE  TypeOK'
  BY <1>2, SendableType DEF Send, TypeOK
<1>3. ASSUME NEW c \in Clients, Heartbeat(c) \/ Answer(c)
      PROVE  TypeOK'
  BY <1>3, RequestEdits DEF Heartbeat, Answer, Done, TypeOK
<1>4. ASSUME NEW c \in Clients, Handle(c)
      PROVE  TypeOK'
  BY <1>3, <1>4, TypeStart, TypePause, TypeResume, TypeStop, TypeSwitch, TypeHeartbeatWrite,
     TypeRevoke, TypeReview
  DEF Handle
<1>5. CASE UNCHANGED vars
  BY <1>5 DEF vars, TypeOK
<1> QED
  BY <1>1, <1>2, <1>4, <1>5, TypeInterrupt, TypeTasks DEF Next

\* Every reachable state has its type: whatever is sent, in whatever order it
\* is handled, each row stays one its table can hold.
THEOREM TypeCorrect == Spec => []TypeOK
BY TypeInit, TypeStep, PTL DEF Spec
-----------------------------------------------------------------------------
(* One timer: what each statement does to a session's open intervals.      *)

LEMMA CloseOpenCloses ==
  ASSUME NEW ivs \in SUBSET Interval, NEW s \in Sessions, NEW at \in Time
  PROVE  /\ OpenOf(CloseOpen(ivs, s, at), s) = {}
         /\ \A x \in Sessions \ {s} : OpenOf(CloseOpen(ivs, s, at), x) = OpenOf(ivs, x)
<1>1. \A i \in ivs : [i EXCEPT !.to = at].session = i.session /\ [i EXCEPT !.to = at].to = at
  BY DEF Interval
<1> QED
  BY <1>1, TimeFacts DEF CloseOpen, OpenOf

LEMMA CloseAtLeastCloses ==
  ASSUME NEW ivs \in SUBSET Interval, NEW s \in Sessions, NEW at \in Time
  PROVE  /\ OpenOf(CloseAtLeast(ivs, s, at), s) = {}
         /\ \A x \in Sessions \ {s} : OpenOf(CloseAtLeast(ivs, s, at), x) = OpenOf(ivs, x)
<1>1. \A i \in ivs : LET k == [i EXCEPT !.to = Greatest(i.from, at)]
                     IN  k.session = i.session /\ k.to # Forever
  BY TimeFacts DEF Interval, Greatest
<1> QED
  BY <1>1 DEF CloseAtLeast, OpenOf

LEMMA GapIsClosed ==
  ASSUME NEW ivs, NEW s, NEW now \in Time, NEW x
  PROVE  OpenOf(ivs \cup UncertainGap(s, now), x) = OpenOf(ivs, x)
BY TimeFacts DEF OpenOf, UncertainGap, Gap

LEMMA NewIsOpen ==
  ASSUME NEW ivs, NEW s, NEW now
  PROVE  /\ OpenOf(ivs \cup {NewInterval(s, now)}, s) = OpenOf(ivs, s) \cup {NewInterval(s, now)}
         /\ \A x : x # s => OpenOf(ivs \cup {NewInterval(s, now)}, x) = OpenOf(ivs, x)
BY DEF OpenOf, NewInterval

LEMMA StoppedCloses ==
  ASSUME TypeOK, NEW s \in Sessions, NEW now \in Time
  PROVE  /\ OpenOf(Stopped(s, now), s) = {}
         /\ \A x \in Sessions \ {s} : OpenOf(Stopped(s, now), x) = OpenOf(intervals, x)
<1>1. intervals \cup UncertainGap(s, now) \in SUBSET Interval
  BY UncertainGapType DEF TypeOK
<1>2. \A x \in Sessions : OpenOf(intervals \cup UncertainGap(s, now), x) = OpenOf(intervals, x)
  BY GapIsClosed
<1>3. /\ OpenOf(Stopped(s, now), s) = {}
      /\ \A x \in Sessions \ {s} :
           OpenOf(Stopped(s, now), x) = OpenOf(intervals \cup UncertainGap(s, now), x)
  BY <1>1, CloseOpenCloses DEF Stopped
<1> QED
  BY <1>2, <1>3

\* A session that stops running, or stays as it is, with nothing left open.
LEMMA TimerHalts ==
  ASSUME OneTimer, NEW s \in Sessions, IsOpen(s),
         \A x \in Sessions \ {s} : /\ sessions'[x] = sessions[x]
                                   /\ OpenOf(intervals', x) = OpenOf(intervals, x),
         sessions'[s].state # "running", OpenOf(intervals', s) = {}
  PROVE  OneTimer'
<1>1. (\A s1, s2 \in Sessions : IsOpen(s1) /\ IsOpen(s2) => s1 = s2)'
  BY DEF OneTimer, IsOpen
<1>2. (\A x \in Sessions : sessions[x].state # "running" => OpenOf(intervals, x) = {})'
  BY DEF OneTimer
<1>3. (\A x \in Sessions : sessions[x].state = "running" =>
         \E i \in intervals : OpenOf(intervals, x) = {i} /\ i.status = "confirmed")'
  <2> SUFFICES ASSUME NEW x \in Sessions, sessions'[x].state = "running"
               PROVE  \E i \in intervals' : OpenOf(intervals', x) = {i} /\ i.status = "confirmed"
    OBVIOUS
  <2>1. PICK i \in intervals : OpenOf(intervals, x) = {i} /\ i.status = "confirmed"
    BY DEF OneTimer
  <2>2. OpenOf(intervals', x) = {i}
    BY <2>1
  <2>3. i \in intervals'
    BY <2>2 DEF OpenOf
  <2> QED
    BY <2>1, <2>2, <2>3
<1> QED
  BY <1>1, <1>2, <1>3 DEF OneTimer

\* A session that starts running when no other is open.
LEMMA TimerRuns ==
  ASSUME OneTimer, NEW s \in Sessions, NEW now,
         \A x \in Sessions \ {s} : sessions'[x].state \notin OpenStates /\ OpenOf(intervals', x) = {},
         sessions'[s].state = "running", OpenOf(intervals', s) = {NewInterval(s, now)}
  PROVE  OneTimer'
<1>1. NewInterval(s, now).status = "confirmed"
  BY DEF NewInterval
<1>2. NewInterval(s, now) \in intervals'
  BY DEF OpenOf
<1> QED
  BY <1>1, <1>2 DEF OneTimer, IsOpen, OpenStates

LEMMA OneTimerInit == Init => OneTimer
BY DEF Init, OneTimer, IsOpen, OpenStates, OpenOf, Unused

LEMMA OneTimerStart ==
  ASSUME TypeOK, OneTimer, NEW c \in Clients, Start(c)
  PROVE  OneTimer'
<1> DEFINE r == requests[c]
<1>1. PICK s \in Sessions :
        /\ sessions[s] = Unused
        /\ sessions' = [sessions EXCEPT ![s] = NewSession(r.task, r.now)]
        /\ intervals' = intervals \cup {NewInterval(s, r.now)}
  BY DEF Start
<1>2. \A x \in Sessions : sessions[x].state \notin OpenStates /\ OpenOf(intervals, x) = {}
  BY DEF Start, IsOpen, OneTimer, OpenStates
<1>3. sessions'[s].state = "running"
  BY <1>1 DEF TypeOK, NewSession
<1>4. OpenOf(intervals', s) = {NewInterval(s, r.now)}
  BY <1>1, <1>2, NewIsOpen
<1>5. \A x \in Sessions \ {s} : sessions'[x].state \notin OpenStates
  BY <1>1, <1>2 DEF TypeOK
<1>6. \A x \in Sessions \ {s} : OpenOf(intervals', x) = {}
  BY <1>1, <1>2, NewIsOpen
<1> QED
  BY <1>3, <1>4, <1>5, <1>6, TimerRuns

LEMMA OneTimerPause ==
  ASSUME TypeOK, OneTimer, NEW c \in Clients, Pause(c)
  PROVE  OneTimer'
<1>1. PICK s \in Sessions, now \in Time :
        /\ sessions[s].state = "running"
        /\ intervals' = CloseOpen(intervals, s, now)
        /\ sessions' = [sessions EXCEPT ![s] = Became(@, "paused")]
  BY RequestFields DEF Pause, TypeOK
<1>2. IsOpen(s)
  BY <1>1 DEF IsOpen, OpenStates
<1>3. sessions'[s].state # "running"
  BY <1>1 DEF TypeOK, Became
<1>4. \A x \in Sessions \ {s} : sessions'[x] = sessions[x]
  BY <1>1 DEF TypeOK
<1>5. intervals \in SUBSET Interval
  BY DEF TypeOK
<1>6. /\ OpenOf(intervals', s) = {}
      /\ \A x \in Sessions \ {s} : OpenOf(intervals', x) = OpenOf(intervals, x)
  BY <1>1, <1>5, CloseOpenCloses
<1> QED
  BY <1>2, <1>3, <1>4, <1>6, TimerHalts

LEMMA OneTimerResume ==
  ASSUME TypeOK, OneTimer, NEW c \in Clients, Resume(c)
  PROVE  OneTimer'
<1>1. PICK s \in Sessions, now \in Time :
        /\ sessions[s].state \in {"paused", "interrupted"}
        /\ intervals' = intervals \cup UncertainGap(s, now) \cup {NewInterval(s, now)}
        /\ sessions' = [sessions EXCEPT ![s] = [Became(@, "running") EXCEPT !.hb = now]]
  BY RequestFields DEF Resume, TypeOK
<1>2. \A x \in Sessions : OpenOf(intervals, x) = {}
  BY <1>1 DEF OneTimer, IsOpen, OpenStates
<1>3. \A x \in Sessions \ {s} : sessions[x].state \notin OpenStates
  BY <1>1 DEF OneTimer, IsOpen, OpenStates
<1>4. \A x \in Sessions : OpenOf(intervals \cup UncertainGap(s, now), x) = {}
  BY <1>2, GapIsClosed
<1>5. /\ OpenOf(intervals', s) = {NewInterval(s, now)}
      /\ \A x \in Sessions \ {s} : OpenOf(intervals', x) = {}
  BY <1>1, <1>4, NewIsOpen
<1>6. sessions'[s].state = "running"
  BY <1>1 DEF TypeOK, Became
<1>7. \A x \in Sessions \ {s} : sessions'[x].state \notin OpenStates
  BY <1>1, <1>3 DEF TypeOK
<1> QED
  BY <1>5, <1>6, <1>7, TimerRuns

LEMMA OneTimerStop ==
  ASSUME TypeOK, OneTimer, NEW c \in Clients, Stop(c)
  PROVE  OneTimer'
<1>1. PICK s \in Sessions, now \in Time :
        /\ IsOpen(s)
        /\ intervals' = Stopped(s, now)
        /\ sessions' = [sessions EXCEPT ![s] = Became(@, "stopped")]
  BY RequestFields DEF Stop, TypeOK
<1>2. sessions'[s].state # "running"
  BY <1>1 DEF TypeOK, Became
<1>3. \A x \in Sessions \ {s} : sessions'[x] = sessions[x]
  BY <1>1 DEF TypeOK
<1> QED
  BY <1>1, <1>2, <1>3, StoppedCloses, TimerHalts

LEMMA OneTimerSwitch ==
  ASSUME TypeOK, OneTimer, NEW c \in Clients, Switch(c)
  PROVE  OneTimer'
<1>1. PICK s \in Sessions, n \in Sessions, now \in Time, t \in Tasks :
        /\ IsOpen(s) /\ sessions[n] = Unused
        /\ sessions' = [sessions EXCEPT ![s] = Became(@, "stopped"), ![n] = NewSession(t, now)]
        /\ intervals' = Stopped(s, now) \cup {NewInterval(n, now)}
  <2> DEFINE r == requests[c]
  <2>1. r.session \in Sessions /\ r.now \in Time /\ r.task \in Tasks
    BY RequestFields DEF Switch, TypeOK
  <2>2. PICK n \in Sessions :
          /\ sessions[n] = Unused
          /\ sessions' = [sessions EXCEPT ![r.session] = Became(@, "stopped"),
                                           ![n] = NewSession(r.task, r.now)]
          /\ intervals' = Stopped(r.session, r.now) \cup {NewInterval(n, r.now)}
    BY DEF Switch
  <2>3. IsOpen(r.session)
    BY DEF Switch
  <2> QED
    BY <2>1, <2>2, <2>3
<1>2. \A x \in Sessions \ {s} : sessions[x].state \notin OpenStates /\ OpenOf(intervals, x) = {}
  BY <1>1 DEF OneTimer, IsOpen, OpenStates
<1>3. s # n
  BY <1>1 DEF IsOpen, OpenStates, Unused
<1>4. \A x \in Sessions : OpenOf(Stopped(s, now), x) = {}
  BY <1>2, StoppedCloses
<1>5. /\ OpenOf(intervals', n) = {NewInterval(n, now)}
      /\ \A x \in Sessions \ {n} : OpenOf(intervals', x) = {}
  <2> DEFINE ivs == Stopped(s, now)
  <2>1. intervals' = ivs \cup {NewInterval(n, now)} /\ \A x \in Sessions : OpenOf(ivs, x) = {}
    BY <1>1, <1>4
  <2> HIDE DEF ivs
  <2> QED
    BY <2>1, NewIsOpen
<1>6. sessions'[n].state = "running"
  BY <1>1 DEF TypeOK, NewSession
<1>7. \A x \in Sessions \ {n} : sessions'[x].state \notin OpenStates
  BY <1>1, <1>2, <1>3 DEF TypeOK, Became, OpenStates
<1> QED
  BY <1>5, <1>6, <1>7, TimerRuns

LEMMA OneTimerRevoke ==
  ASSUME TypeOK, OneTimer, NEW c \in Clients, Revoke(c)
  PROVE  OneTimer'
<1> DEFINE r == requests[c]
<1>1. r.now \in Time
  BY RequestFields DEF Revoke, TypeOK
<1> HIDE DEF r
<1>2. ASSUME NEW s \in Sessions, IsOpen(s),
             intervals' = CloseAtLeast(intervals, s, Least(sessions[s].hb, r.now)),
             sessions' = [sessions EXCEPT ![s] = Became(@, "stopped")]
      PROVE  OneTimer'
  <2>1. Least(sessions[s].hb, r.now) \in Time
    BY <1>1 DEF Least, TypeOK, Session
  <2>2. sessions'[s].state # "running"
    BY <1>2 DEF TypeOK, Became
  <2>3. \A x \in Sessions \ {s} : sessions'[x] = sessions[x]
    BY <1>2 DEF TypeOK
  <2> QED
    BY <1>2, <2>1, <2>2, <2>3, CloseAtLeastCloses, TimerHalts DEF TypeOK
<1>3. CASE UNCHANGED <<intervals, sessions>>
  BY <1>3 DEF OneTimer, IsOpen
<1> QED
  BY <1>2, <1>3 DEF Revoke, r

LEMMA OneTimerInterrupt ==
  ASSUME TypeOK, OneTimer, NEW s \in Sessions, Interrupt(s)
  PROVE  OneTimer'
<1>1. sessions[s].hb \in Time
  BY DEF TypeOK, Session
<1>2. IsOpen(s)
  BY DEF Interrupt, IsOpen, OpenStates
<1>3. sessions'[s].state # "running"
  BY DEF Interrupt, TypeOK, Became
<1>4. \A x \in Sessions \ {s} : sessions'[x] = sessions[x]
  BY DEF Interrupt, TypeOK
<1>5. /\ OpenOf(intervals', s) = {}
      /\ \A x \in Sessions \ {s} : OpenOf(intervals', x) = OpenOf(intervals, x)
  <2>1. intervals \in SUBSET Interval
    BY DEF TypeOK
  <2> QED
    BY <1>1, <2>1, CloseAtLeastCloses DEF Interrupt
<1> QED
  BY <1>2, <1>3, <1>4, <1>5, TimerHalts

\* A heartbeat moves no session from one state to another.
LEMMA OneTimerHeartbeatWrite ==
  ASSUME TypeOK, OneTimer, NEW c \in Clients, HeartbeatWrite(c)
  PROVE  OneTimer'
<1>1. \A x \in Sessions : sessions'[x].state = sessions[x].state
  BY DEF HeartbeatWrite, TypeOK, Session
<1>2. intervals' = intervals
  BY DEF HeartbeatWrite
<1> QED
  BY <1>1, <1>2 DEF OneTimer, IsOpen

LEMMA OneTimerStep == TypeOK /\ OneTimer /\ [Next]_vars => OneTimer'
<1> SUFFICES ASSUME TypeOK, OneTimer, [Next]_vars
             PROVE  OneTimer'
  OBVIOUS
<1>1. CASE UNCHANGED <<sessions, intervals>>
  BY <1>1 DEF OneTimer, IsOpen
<1>2. ASSUME NEW c \in Clients, Send(c) \/ Handle(c)
      PROVE  OneTimer'
  BY <1>1, <1>2, OneTimerStart, OneTimerPause, OneTimerResume, OneTimerStop, OneTimerSwitch,
     OneTimerHeartbeatWrite, OneTimerRevoke
  DEF Send, Handle, Heartbeat, Review, Answer
<1> QED
  BY <1>1, <1>2, OneTimerInterrupt DEF Next, Tick, UpdateTask, FinishTask, WorkOfAnother, vars

\* One timer per user over any number of devices, workspaces and sessions, and
\* an open interval exactly for the session that runs.
THEOREM OneTimerAlways == Spec => []OneTimer
BY TypeInit, TypeStep, OneTimerInit, OneTimerStep, PTL DEF Spec
-----------------------------------------------------------------------------
(* Credit ends at contact.  Inductive with: no heartbeat is recorded that  *)
(* the user was not heard from.                                            *)

HeartbeatsAreHeard == \A s \in Sessions : sessions[s].hb <= heard[s]

CreditInv == HeartbeatsAreHeard /\ CreditEndsAtContact

\* What the rows of each changed table are.
LEMMA CloseOpenRows ==
  ASSUME NEW ivs \in SUBSET Interval, NEW s \in Sessions, NEW at \in Time
  PROVE  \A j \in CloseOpen(ivs, s, at) :
           \/ j \in ivs /\ j \notin OpenOf(ivs, s)
           \/ \E i \in OpenOf(ivs, s) :
                j.session = s /\ j.from = i.from /\ j.to = at /\ j.status = i.status
BY DEF CloseOpen, OpenOf, Interval

LEMMA CloseAtLeastRows ==
  ASSUME NEW ivs \in SUBSET Interval, NEW s \in Sessions, NEW at \in Time
  PROVE  \A j \in CloseAtLeast(ivs, s, at) :
           \/ j \in ivs /\ j \notin OpenOf(ivs, s)
           \/ \E i \in OpenOf(ivs, s) :
                j.session = s /\ j.from = i.from /\ j.to = Greatest(i.from, at) /\ j.status = i.status
<1>1. \A i \in ivs : LET j == [i EXCEPT !.to = Greatest(i.from, at)]
                     IN  /\ j.session = i.session /\ j.from = i.from
                         /\ j.to = Greatest(i.from, at) /\ j.status = i.status
  BY DEF Interval
<1> QED
  BY <1>1 DEF CloseAtLeast, OpenOf

LEMMA GapRows ==
  ASSUME NEW s, NEW now, NEW g \in UncertainGap(s, now)
  PROVE  /\ g.session = s /\ g.to = now /\ g.status = "uncertain"
         /\ g.from \in ConfirmedTo(s) /\ sessions[s].state = "interrupted"
BY DEF UncertainGap, Gap, GapStarts

LEMMA StoppedRows ==
  ASSUME TypeOK, NEW s \in Sessions, NEW now \in Time
  PROVE  \A j \in Stopped(s, now) :
           \/ j \in intervals /\ j \notin OpenOf(intervals, s)
           \/ j \in UncertainGap(s, now)
           \/ \E i \in OpenOf(intervals, s) :
                j.session = s /\ j.from = i.from /\ j.to = now /\ j.status = i.status
<1> DEFINE ivs == intervals \cup UncertainGap(s, now)
<1>1. ivs \in SUBSET Interval
  BY UncertainGapType DEF TypeOK
<1>2. OpenOf(ivs, s) = OpenOf(intervals, s)
  BY GapIsClosed
<1>3. Stopped(s, now) = CloseOpen(ivs, s, now)
  BY DEF Stopped
<1>4. \A j \in ivs : j \in intervals \/ j \in UncertainGap(s, now)
  OBVIOUS
<1> HIDE DEF ivs
<1> QED
  BY <1>1, <1>2, <1>3, <1>4, CloseOpenRows

LEMMA CreditInit == Init => CreditInv
BY DEF Init, CreditInv, HeartbeatsAreHeard, CreditEndsAtContact, Unused

\* Contact only ever moves on, and no new row is credited past it.
LEMMA CreditKept ==
  ASSUME TypeOK, TypeOK', CreditInv,
         \A x \in Sessions : heard[x] <= heard'[x] /\ sessions'[x].hb <= heard'[x],
         \A i \in intervals' :
           \/ i \in intervals
           \/ i.status # "confirmed" \/ i.to = Forever \/ i.from = i.to
           \/ i.to <= heard'[i.session]
  PROVE  CreditInv'
<1>1. HeartbeatsAreHeard'
  BY DEF HeartbeatsAreHeard
<1>2. CreditEndsAtContact'
  <2> SUFFICES ASSUME NEW i \in intervals',
                      i.status = "confirmed", i.to # Forever, i.from # i.to
               PROVE  i.to <= heard'[i.session]
    BY DEF CreditEndsAtContact
  <2>1. i.session \in Sessions /\ i.to \in Nat
    BY TimeFacts DEF TypeOK, Interval
  <2>2. heard[i.session] \in Nat /\ heard'[i.session] \in Nat
    BY <2>1, TimeFacts DEF TypeOK
  <2>3. CASE i \in intervals
    <3>1. i.to <= heard[i.session]
      BY <2>3 DEF CreditInv, CreditEndsAtContact
    <3> QED
      BY <2>1, <2>2, <3>1
  <2> QED
    BY <2>3
<1> QED
  BY <1>1, <1>2 DEF CreditInv

LEMMA HeardMoves ==
  ASSUME TypeOK, NEW s \in Sessions, NEW now \in Time,
         heard' = [heard EXCEPT ![s] = Greatest(@, now)]
  PROVE  now <= heard'[s] /\ \A x \in Sessions : heard[x] <= heard'[x]
<1>1. now \in Nat /\ \A x \in Sessions : heard[x] \in Nat
  BY TimeFacts DEF TypeOK
<1>2. heard'[s] = Greatest(heard[s], now) /\ \A x \in Sessions \ {s} : heard'[x] = heard[x]
  BY DEF TypeOK
<1>3. now <= heard'[s] /\ heard[s] <= heard'[s]
  BY <1>1, <1>2 DEF Greatest
<1> QED
  BY <1>1, <1>2, <1>3

\* The heartbeats after a step that gives one session the heartbeat now.
LEMMA HeartbeatsMove ==
  ASSUME TypeOK, CreditInv, NEW s \in Sessions, NEW now \in Time,
         heard' = [heard EXCEPT ![s] = Greatest(@, now)],
         \A x \in Sessions \ {s} : sessions'[x].hb = sessions[x].hb,
         sessions'[s].hb \in {now, sessions[s].hb}
  PROVE  \A x \in Sessions : heard[x] <= heard'[x] /\ sessions'[x].hb <= heard'[x]
<1>1. now <= heard'[s] /\ \A x \in Sessions : heard[x] <= heard'[x]
  BY HeardMoves
<1>2. \A x \in Sessions : /\ sessions[x].hb \in Nat /\ heard[x] \in Nat /\ heard'[x] \in Nat
                          /\ sessions[x].hb <= heard[x]
  BY TimeFacts DEF TypeOK, Session, CreditInv, HeartbeatsAreHeard, Greatest
<1>3. \A x \in Sessions : sessions[x].hb <= heard'[x]
  BY <1>1, <1>2
<1> QED
  BY <1>1, <1>3

LEMMA CreditStart ==
  ASSUME TypeOK, TypeOK', CreditInv, NEW c \in Clients, Start(c)
  PROVE  CreditInv'
<1>1. PICK s \in Sessions, now \in Time, t \in Tasks :
        /\ sessions' = [sessions EXCEPT ![s] = NewSession(t, now)]
        /\ intervals' = intervals \cup {NewInterval(s, now)}
        /\ heard' = [heard EXCEPT ![s] = Greatest(@, now)]
  <2> DEFINE r == requests[c]
  <2>1. r.now \in Time /\ r.task \in Tasks
    BY RequestFields DEF Start, TypeOK
  <2> QED
    BY <2>1 DEF Start, Heard
<1>2. /\ sessions'[s].hb = now
      /\ \A x \in Sessions \ {s} : sessions'[x].hb = sessions[x].hb
  BY <1>1 DEF TypeOK, NewSession
<1>3. \A i \in intervals' : i \in intervals \/ i.to = Forever
  BY <1>1 DEF NewInterval
<1>4. \A x \in Sessions : heard[x] <= heard'[x] /\ sessions'[x].hb <= heard'[x]
  BY <1>1, <1>2, HeartbeatsMove
<1> QED
  BY <1>3, <1>4, CreditKept

LEMMA CreditPause ==
  ASSUME TypeOK, TypeOK', CreditInv, NEW c \in Clients, Pause(c)
  PROVE  CreditInv'
<1>1. PICK s \in Sessions, now \in Time :
        /\ sessions' = [sessions EXCEPT ![s] = Became(@, "paused")]
        /\ intervals' = CloseOpen(intervals, s, now)
        /\ heard' = [heard EXCEPT ![s] = Greatest(@, now)]
  BY RequestFields DEF Pause, Heard, TypeOK
<1>2. /\ sessions'[s].hb = sessions[s].hb
      /\ \A x \in Sessions \ {s} : sessions'[x].hb = sessions[x].hb
  BY <1>1 DEF TypeOK, Became
<1>3. intervals \in SUBSET Interval
  BY DEF TypeOK
<1>4. \A i \in intervals' : i \in intervals \/ (i.session = s /\ i.to = now)
  BY <1>1, <1>3, CloseOpenRows
<1>5. now <= heard'[s]
  BY <1>1, HeardMoves
<1>6. \A x \in Sessions : heard[x] <= heard'[x] /\ sessions'[x].hb <= heard'[x]
  BY <1>1, <1>2, HeartbeatsMove
<1> QED
  BY <1>4, <1>5, <1>6, CreditKept

LEMMA CreditResume ==
  ASSUME TypeOK, TypeOK', CreditInv, NEW c \in Clients, Resume(c)
  PROVE  CreditInv'
<1>1. PICK s \in Sessions, now \in Time :
        /\ sessions' = [sessions EXCEPT ![s] = [Became(@, "running") EXCEPT !.hb = now]]
        /\ intervals' = intervals \cup UncertainGap(s, now) \cup {NewInterval(s, now)}
        /\ heard' = [heard EXCEPT ![s] = Greatest(@, now)]
  BY RequestFields DEF Resume, Heard, TypeOK
<1>2. /\ sessions'[s].hb = now
      /\ \A x \in Sessions \ {s} : sessions'[x].hb = sessions[x].hb
  BY <1>1 DEF TypeOK, Became
<1>3. \A i \in intervals' : i \in intervals \/ i.status # "confirmed" \/ i.to = Forever
  <2>1. \A g \in UncertainGap(s, now) : g.status # "confirmed"
    BY GapRows
  <2>2. NewInterval(s, now).to = Forever
    BY DEF NewInterval
  <2> QED
    BY <1>1, <2>1, <2>2
<1>4. \A x \in Sessions : heard[x] <= heard'[x] /\ sessions'[x].hb <= heard'[x]
  BY <1>1, <1>2, HeartbeatsMove
<1> QED
  BY <1>3, <1>4, CreditKept

LEMMA StoppedCredit ==
  ASSUME TypeOK, NEW s \in Sessions, NEW now \in Time
  PROVE  \A i \in Stopped(s, now) : \/ i \in intervals \/ i.status # "confirmed"
                                    \/ (i.session = s /\ i.to = now)
<1> SUFFICES ASSUME NEW i \in Stopped(s, now)
             PROVE  i \in intervals \/ i.status # "confirmed" \/ (i.session = s /\ i.to = now)
  OBVIOUS
<1>1. i \in UncertainGap(s, now) => i.status # "confirmed"
  BY GapRows
<1>2. i \in intervals \/ i \in UncertainGap(s, now) \/ (i.session = s /\ i.to = now)
  BY StoppedRows
<1> QED
  BY <1>1, <1>2

LEMMA CreditStop ==
  ASSUME TypeOK, TypeOK', CreditInv, NEW c \in Clients, Stop(c)
  PROVE  CreditInv'
<1>1. PICK s \in Sessions, now \in Time :
        /\ sessions' = [sessions EXCEPT ![s] = Became(@, "stopped")]
        /\ intervals' = Stopped(s, now)
        /\ heard' = [heard EXCEPT ![s] = Greatest(@, now)]
  BY RequestFields DEF Stop, Heard, TypeOK
<1>2. /\ sessions'[s].hb = sessions[s].hb
      /\ \A x \in Sessions \ {s} : sessions'[x].hb = sessions[x].hb
  BY <1>1 DEF TypeOK, Became
<1>3. \A i \in intervals' : \/ i \in intervals \/ i.status # "confirmed"
                            \/ (i.session = s /\ i.to = now)
  BY <1>1, StoppedCredit
<1>4. now <= heard'[s]
  BY <1>1, HeardMoves
<1>5. \A x \in Sessions : heard[x] <= heard'[x] /\ sessions'[x].hb <= heard'[x]
  BY <1>1, <1>2, HeartbeatsMove
<1> QED
  BY <1>3, <1>4, <1>5, CreditKept

LEMMA CreditSwitch ==
  ASSUME TypeOK, TypeOK', CreditInv, NEW c \in Clients, Switch(c)
  PROVE  CreditInv'
<1>1. PICK s \in Sessions, n \in Sessions, now \in Time, t \in Tasks :
        /\ sessions' = [sessions EXCEPT ![s] = Became(@, "stopped"), ![n] = NewSession(t, now)]
        /\ intervals' = Stopped(s, now) \cup {NewInterval(n, now)}
        /\ heard' = [heard EXCEPT ![s] = Greatest(@, now), ![n] = Greatest(@, now)]
        /\ s # n
  <2> DEFINE r == requests[c]
  <2>1. r.session \in Sessions /\ r.now \in Time /\ r.task \in Tasks
    BY RequestFields DEF Switch, TypeOK
  <2>2. PICK n \in Sessions :
          /\ sessions[n] = Unused
          /\ sessions' = [sessions EXCEPT ![r.session] = Became(@, "stopped"),
                                           ![n] = NewSession(r.task, r.now)]
          /\ intervals' = Stopped(r.session, r.now) \cup {NewInterval(n, r.now)}
          /\ heard' = [heard EXCEPT ![r.session] = Greatest(@, r.now), ![n] = Greatest(@, r.now)]
    BY DEF Switch
  <2>3. IsOpen(r.session)
    BY DEF Switch
  <2>4. r.session # n
    BY <2>2, <2>3 DEF IsOpen, OpenStates, Unused
  <2> QED
    BY <2>1, <2>2, <2>4
<1>2. /\ now \in Nat
      /\ \A x \in Sessions : sessions[x].hb \in Nat /\ heard[x] \in Nat /\ sessions[x].hb <= heard[x]
  BY TimeFacts DEF TypeOK, Session, CreditInv, HeartbeatsAreHeard
<1>3. /\ sessions'[s].hb = sessions[s].hb /\ sessions'[n].hb = now
      /\ \A x \in Sessions \ {s, n} : sessions'[x].hb = sessions[x].hb
  BY <1>1 DEF TypeOK, Became, NewSession
<1>4. /\ heard'[s] = Greatest(heard[s], now) /\ heard'[n] = Greatest(heard[n], now)
      /\ \A x \in Sessions \ {s, n} : heard'[x] = heard[x]
  BY <1>1 DEF TypeOK
<1>5. \A x \in Sessions : heard[x] <= heard'[x] /\ sessions'[x].hb <= heard'[x]
  <2> SUFFICES ASSUME NEW x \in Sessions
               PROVE  heard[x] <= heard'[x] /\ sessions'[x].hb <= heard'[x]
    OBVIOUS
  <2>1. CASE x = s
    BY <1>2, <1>3, <1>4, <2>1 DEF Greatest
  <2>2. CASE x = n
    BY <1>2, <1>3, <1>4, <2>2 DEF Greatest
  <2>3. CASE x \notin {s, n}
    BY <1>2, <1>3, <1>4, <2>3
  <2> QED
    BY <2>1, <2>2, <2>3
<1>6. \A i \in intervals' : \/ i \in intervals \/ i.status # "confirmed" \/ i.to = Forever
                            \/ (i.session = s /\ i.to = now)
  <2>1. NewInterval(n, now).to = Forever
    BY DEF NewInterval
  <2>2. intervals' = Stopped(s, now) \cup {NewInterval(n, now)}
    BY <1>1
  <2>3. \A i \in Stopped(s, now) : \/ i \in intervals \/ i.status # "confirmed"
                                   \/ (i.session = s /\ i.to = now)
    BY StoppedCredit
  <2> QED
    BY <2>1, <2>2, <2>3
<1>7. now <= heard'[s]
  BY <1>2, <1>4 DEF Greatest
<1> QED
  BY <1>5, <1>6, <1>7, CreditKept

LEMMA CreditHeartbeatWrite ==
  ASSUME TypeOK, TypeOK', CreditInv, NEW c \in Clients, HeartbeatWrite(c)
  PROVE  CreditInv'
<1>1. PICK s \in Sessions, now \in Time :
        /\ sessions' = [sessions EXCEPT ![s].hb = now]
        /\ heard' = [heard EXCEPT ![s] = Greatest(@, now)]
        /\ intervals' = intervals
  BY RequestFields DEF HeartbeatWrite, Heard, TypeOK
<1>2. /\ sessions'[s].hb = now
      /\ \A x \in Sessions \ {s} : sessions'[x].hb = sessions[x].hb
  BY <1>1 DEF TypeOK, Session
<1>3. \A x \in Sessions : heard[x] <= heard'[x] /\ sessions'[x].hb <= heard'[x]
  BY <1>1, <1>2, HeartbeatsMove
<1> QED
  BY <1>1, <1>3, CreditKept

\* The worker and an offboarding: credit ends at the last heartbeat, or earlier.
LEMMA CreditClamped ==
  ASSUME TypeOK, TypeOK', CreditInv, NEW s \in Sessions, NEW at \in Time, NEW st,
         at <= sessions[s].hb,
         sessions' = [sessions EXCEPT ![s] = Became(@, st)],
         intervals' = CloseAtLeast(intervals, s, at),
         heard' = heard
  PROVE  CreditInv'
<1>1. \A x \in Sessions : sessions'[x].hb = sessions[x].hb
  BY DEF TypeOK, Became
<1>2. \A x \in Sessions : heard[x] \in Nat /\ sessions[x].hb \in Nat /\ sessions[x].hb <= heard[x]
  BY TimeFacts DEF TypeOK, Session, CreditInv, HeartbeatsAreHeard
<1>3. intervals \in SUBSET Interval
  BY DEF TypeOK
<1>4. \A j \in intervals' :
        j \in intervals \/ j.from = j.to \/ (j.session = s /\ j.to = at)
  BY <1>3, CloseAtLeastRows DEF Greatest
<1>5. at <= heard'[s]
  BY <1>2, TimeFacts
<1>6. \A x \in Sessions : heard[x] <= heard'[x] /\ sessions'[x].hb <= heard'[x]
  BY <1>1, <1>2
<1> QED
  BY <1>4, <1>5, <1>6, CreditKept

LEMMA CreditRevoke ==
  ASSUME TypeOK, TypeOK', CreditInv, NEW c \in Clients, Revoke(c)
  PROVE  CreditInv'
<1> DEFINE r == requests[c]
<1>1. r.now \in Time /\ heard' = heard
  BY RequestFields DEF Revoke, TypeOK
<1>2. ASSUME NEW s \in Sessions,
             intervals' = CloseAtLeast(intervals, s, Least(sessions[s].hb, r.now)),
             sessions' = [sessions EXCEPT ![s] = Became(@, "stopped")]
      PROVE  CreditInv'
  <2>1. Least(sessions[s].hb, r.now) \in Time /\ Least(sessions[s].hb, r.now) <= sessions[s].hb
    <3>1. sessions[s].hb \in Time
      BY DEF TypeOK, Session
    <3>2. sessions[s].hb \in Nat /\ r.now \in Nat
      BY <1>1, <3>1, TimeFacts
    <3> QED
      BY <1>1, <3>1, <3>2 DEF Least
  <2> QED
    BY <1>1, <1>2, <2>1, CreditClamped
<1>3. CASE UNCHANGED <<intervals, sessions>>
  BY <1>1, <1>3 DEF CreditInv, HeartbeatsAreHeard, CreditEndsAtContact
<1> QED
  BY <1>2, <1>3 DEF Revoke

LEMMA CreditInterrupt ==
  ASSUME TypeOK, TypeOK', CreditInv, NEW s \in Sessions, Interrupt(s)
  PROVE  CreditInv'
<1>1. sessions[s].hb \in Time
  BY DEF TypeOK, Session
<1>2. sessions[s].hb \in Nat
  BY <1>1, TimeFacts
<1>3. sessions[s].hb <= sessions[s].hb
  BY <1>2
<1> QED
  BY <1>1, <1>3, CreditClamped DEF Interrupt

LEMMA CreditStep == TypeOK /\ CreditInv /\ [Next]_vars => CreditInv'
<1> SUFFICES ASSUME TypeOK, CreditInv, [Next]_vars
             PROVE  CreditInv'
  OBVIOUS
<1>1. TypeOK'
  BY TypeStep
<1>2. CASE UNCHANGED <<sessions, intervals, heard>>
  BY <1>2 DEF CreditInv, HeartbeatsAreHeard, CreditEndsAtContact
<1>3. ASSUME NEW c \in Clients, Send(c) \/ Handle(c)
      PROVE  CreditInv'
  BY <1>1, <1>2, <1>3, CreditStart, CreditPause, CreditResume, CreditStop, CreditSwitch,
     CreditHeartbeatWrite, CreditRevoke
  DEF Send, Handle, Heartbeat, Review, Answer
<1> QED
  BY <1>1, <1>2, <1>3, CreditInterrupt DEF Next, Tick, UpdateTask, FinishTask, WorkOfAnother, vars

\* However the worker, the offboarding and late heartbeats interleave with the
\* user's own requests, credited time ends at an instant the user was heard.
THEOREM CreditAlwaysEndsAtContact == Spec => []CreditEndsAtContact
<1>1. CreditInv => CreditEndsAtContact
  BY DEF CreditInv
<1> QED
  BY <1>1, TypeInit, TypeStep, CreditInit, CreditStep, PTL DEF Spec
-----------------------------------------------------------------------------
(* Nothing lies in the future, and every interval is of a session in use.  *)

PastInv ==
  /\ \A s \in Sessions : sessions[s].hb <= clock
  /\ \A c \in Clients : requests[c] # Idle => requests[c].now <= clock
  /\ \A i \in intervals : /\ i.from <= clock
                          /\ i.to = Forever \/ i.to <= clock
                          /\ sessions[i.session].state # "none"

LEMMA PastInit == Init => PastInv
BY DEF Init, PastInv, Unused

LEMMA PastKept ==
  ASSUME TypeOK', PastInv, clock' = clock,
         \A x \in Sessions : sessions'[x].hb = sessions[x].hb \/ sessions'[x].hb <= clock,
         \A x \in Sessions : sessions[x].state # "none" => sessions'[x].state # "none",
         \A d \in Clients : requests'[d] = requests[d] \/ requests'[d] = Idle,
         \A i \in intervals' :
           \/ i \in intervals
           \/ /\ i.from <= clock /\ (i.to = Forever \/ i.to <= clock)
              /\ sessions'[i.session].state # "none"
  PROVE  PastInv'
<1>1. \A i \in intervals' : i.session \in Sessions
  BY DEF TypeOK, Interval
<1> QED
  BY <1>1 DEF PastInv

\* A request in flight was begun at an instant that has been.
LEMMA PastRequest ==
  ASSUME TypeOK, PastInv, NEW c \in Clients, requests[c].op # "idle"
  PROVE  requests[c].now <= clock
BY DEF PastInv, Idle

\* An answered request leaves the others as they are.
LEMMA DoneRequests ==
  ASSUME TypeOK, NEW c \in Clients, Done(c)
  PROVE  /\ requests'[c] = Idle
         /\ \A d \in Clients : requests'[d] = requests[d] \/ requests'[d] = Idle
BY DEF Done, TypeOK

LEMMA PastStart ==
  ASSUME TypeOK, TypeOK', PastInv, NEW c \in Clients, Start(c)
  PROVE  PastInv'
<1>1. PICK s \in Sessions, now \in Time, t \in Tasks :
        /\ sessions' = [sessions EXCEPT ![s] = NewSession(t, now)]
        /\ intervals' = intervals \cup {NewInterval(s, now)}
        /\ now <= clock
  <2> DEFINE r == requests[c]
  <2>1. r.now \in Time /\ r.task \in Tasks /\ r.now <= clock
    BY RequestFields, PastRequest DEF Start, TypeOK
  <2> QED
    BY <2>1 DEF Start
<1>2. /\ sessions'[s].hb = now /\ sessions'[s].state # "none"
      /\ \A x \in Sessions \ {s} : sessions'[x] = sessions[x]
  BY <1>1 DEF TypeOK, NewSession
<1>3. \A i \in intervals' : \/ i \in intervals
                            \/ i.from = now /\ i.to = Forever /\ i.session = s
  BY <1>1 DEF NewInterval
<1> QED
  BY <1>1, <1>2, <1>3, DoneRequests, PastKept DEF Start

LEMMA PastPause ==
  ASSUME TypeOK, TypeOK', PastInv, NEW c \in Clients, Pause(c)
  PROVE  PastInv'
<1>1. PICK s \in Sessions, now \in Time :
        /\ sessions' = [sessions EXCEPT ![s] = Became(@, "paused")]
        /\ intervals' = CloseOpen(intervals, s, now)
        /\ now <= clock
  BY RequestFields, PastRequest DEF Pause, TypeOK
<1>2. /\ sessions'[s].hb = sessions[s].hb /\ sessions'[s].state # "none"
      /\ \A x \in Sessions \ {s} : sessions'[x] = sessions[x]
  BY <1>1 DEF TypeOK, Became
<1>3. intervals \in SUBSET Interval
  BY DEF TypeOK
<1>4. \A i \in intervals' : \/ i \in intervals
                            \/ i.from <= clock /\ i.to = now /\ i.session = s
  BY <1>1, <1>3, CloseOpenRows DEF PastInv, OpenOf
<1> QED
  BY <1>1, <1>2, <1>4, DoneRequests, PastKept DEF Pause

\* A gap starts at an instant that has been.
LEMMA PastGap ==
  ASSUME TypeOK, PastInv, NEW s \in Sessions, NEW now, NEW g \in UncertainGap(s, now)
  PROVE  g.from <= clock
<1>1. g.from \in ConfirmedTo(s)
  BY GapRows
<1>2. g.from = sessions[s].hb \/ \E i \in intervals : i.to # Forever /\ g.from = i.to
  BY <1>1 DEF ConfirmedTo
<1> QED
  BY <1>2 DEF PastInv

LEMMA PastResume ==
  ASSUME TypeOK, TypeOK', PastInv, NEW c \in Clients, Resume(c)
  PROVE  PastInv'
<1>1. PICK s \in Sessions, now \in Time :
        /\ sessions' = [sessions EXCEPT ![s] = [Became(@, "running") EXCEPT !.hb = now]]
        /\ intervals' = intervals \cup UncertainGap(s, now) \cup {NewInterval(s, now)}
        /\ now <= clock
  BY RequestFields, PastRequest DEF Resume, TypeOK
<1>2. /\ sessions'[s].hb = now /\ sessions'[s].state # "none"
      /\ \A x \in Sessions \ {s} : sessions'[x] = sessions[x]
  BY <1>1 DEF TypeOK, Became
<1>3. \A i \in intervals' :
        \/ i \in intervals
        \/ i.from <= clock /\ (i.to = Forever \/ i.to = now) /\ i.session = s
  <2>1. \A g \in UncertainGap(s, now) : g.from <= clock /\ g.to = now /\ g.session = s
    BY GapRows, PastGap
  <2>2. LET n == NewInterval(s, now) IN n.from = now /\ n.to = Forever /\ n.session = s
    BY DEF NewInterval
  <2> QED
    BY <1>1, <2>1, <2>2
<1> QED
  BY <1>1, <1>2, <1>3, DoneRequests, PastKept DEF Resume

LEMMA PastStopped ==
  ASSUME TypeOK, PastInv, NEW s \in Sessions, NEW now \in Time
  PROVE  \A i \in Stopped(s, now) : i \in intervals \/ (i.from <= clock /\ i.to = now /\ i.session = s)
<1> SUFFICES ASSUME NEW j \in Stopped(s, now)
             PROVE  j \in intervals \/ (j.from <= clock /\ j.to = now /\ j.session = s)
  OBVIOUS
<1>1. CASE j \in UncertainGap(s, now)
  BY <1>1, GapRows, PastGap
<1>2. CASE \E i \in OpenOf(intervals, s) :
             j.session = s /\ j.from = i.from /\ j.to = now /\ j.status = i.status
  BY <1>2 DEF OpenOf, PastInv
<1> QED
  BY <1>1, <1>2, StoppedRows

LEMMA PastStop ==
  ASSUME TypeOK, TypeOK', PastInv, NEW c \in Clients, Stop(c)
  PROVE  PastInv'
<1>1. PICK s \in Sessions, now \in Time :
        /\ sessions' = [sessions EXCEPT ![s] = Became(@, "stopped")]
        /\ intervals' = Stopped(s, now)
        /\ now <= clock
  BY RequestFields, PastRequest DEF Stop, TypeOK
<1>2. /\ sessions'[s].hb = sessions[s].hb /\ sessions'[s].state # "none"
      /\ \A x \in Sessions \ {s} : sessions'[x] = sessions[x]
  BY <1>1 DEF TypeOK, Became
<1>3. \A i \in intervals' : i \in intervals \/ (i.from <= clock /\ i.to = now /\ i.session = s)
  BY <1>1, PastStopped
<1> QED
  BY <1>1, <1>2, <1>3, DoneRequests, PastKept DEF Stop

LEMMA PastSwitch ==
  ASSUME TypeOK, TypeOK', PastInv, NEW c \in Clients, Switch(c)
  PROVE  PastInv'
<1>1. PICK s \in Sessions, n \in Sessions, now \in Time, t \in Tasks :
        /\ sessions' = [sessions EXCEPT ![s] = Became(@, "stopped"), ![n] = NewSession(t, now)]
        /\ intervals' = Stopped(s, now) \cup {NewInterval(n, now)}
        /\ now <= clock
  <2> DEFINE r == requests[c]
  <2>1. r.session \in Sessions /\ r.now \in Time /\ r.task \in Tasks /\ r.now <= clock
    BY RequestFields, PastRequest DEF Switch, TypeOK
  <2> QED
    BY <2>1 DEF Switch
<1>2. /\ sessions'[n].hb = now /\ sessions'[n].state # "none"
      /\ s # n => sessions'[s].hb = sessions[s].hb /\ sessions'[s].state # "none"
      /\ \A x \in Sessions \ {s, n} : sessions'[x] = sessions[x]
  BY <1>1 DEF TypeOK, Became, NewSession
<1>3. \A i \in intervals' :
        \/ i \in intervals
        \/ i.from <= clock /\ (i.to = Forever \/ i.to = now) /\ i.session \in {s, n}
  <2>1. LET k == NewInterval(n, now) IN k.from = now /\ k.to = Forever /\ k.session = n
    BY DEF NewInterval
  <2>2. \A i \in Stopped(s, now) :
          i \in intervals \/ (i.from <= clock /\ i.to = now /\ i.session = s)
    BY PastStopped
  <2>3. intervals' = Stopped(s, now) \cup {NewInterval(n, now)}
    BY <1>1
  <2> QED
    BY <1>1, <2>1, <2>2, <2>3
<1>4. \A x \in Sessions :
        /\ sessions'[x].hb = sessions[x].hb \/ sessions'[x].hb <= clock
        /\ sessions[x].state # "none" => sessions'[x].state # "none"
  BY <1>1, <1>2
<1>5. \A i \in intervals' :
        \/ i \in intervals
        \/ /\ i.from <= clock /\ (i.to = Forever \/ i.to <= clock)
           /\ sessions'[i.session].state # "none"
  BY <1>1, <1>2, <1>3
<1> QED
  BY <1>4, <1>5, DoneRequests, PastKept DEF Switch

LEMMA PastHeartbeatWrite ==
  ASSUME TypeOK, TypeOK', PastInv, NEW c \in Clients, HeartbeatWrite(c)
  PROVE  PastInv'
<1>1. PICK s \in Sessions, now \in Time :
        /\ sessions' = [sessions EXCEPT ![s].hb = now]
        /\ intervals' = intervals
        /\ now <= clock
  BY RequestFields, PastRequest DEF HeartbeatWrite, TypeOK
<1>2. /\ sessions'[s].hb = now /\ sessions'[s].state = sessions[s].state
      /\ \A x \in Sessions \ {s} : sessions'[x] = sessions[x]
  BY <1>1 DEF TypeOK, Session
<1> QED
  BY <1>1, <1>2, DoneRequests, PastKept DEF HeartbeatWrite

LEMMA PastClamped ==
  ASSUME TypeOK, TypeOK', PastInv, NEW s \in Sessions, NEW at \in Time,
         NEW st \in {"stopped", "interrupted"},
         at <= clock, clock' = clock,
         sessions' = [sessions EXCEPT ![s] = Became(@, st)],
         intervals' = CloseAtLeast(intervals, s, at),
         \A d \in Clients : requests'[d] = requests[d] \/ requests'[d] = Idle
  PROVE  PastInv'
<1>1. /\ sessions'[s].hb = sessions[s].hb /\ sessions'[s].state # "none"
      /\ \A x \in Sessions \ {s} : sessions'[x] = sessions[x]
  BY DEF TypeOK, Became
<1>2. intervals \in SUBSET Interval
  BY DEF TypeOK
<1>3. \A j \in intervals' :
        j \in intervals \/ (j.from <= clock /\ j.to <= clock /\ j.session = s)
  BY <1>2, CloseAtLeastRows DEF Greatest, OpenOf, PastInv
<1> QED
  BY <1>1, <1>3, PastKept

LEMMA PastRevoke ==
  ASSUME TypeOK, TypeOK', PastInv, NEW c \in Clients, Revoke(c)
  PROVE  PastInv'
<1> DEFINE r == requests[c]
<1>1. r.now \in Time /\ clock' = clock
  BY RequestFields DEF Revoke, TypeOK
<1>2. \A d \in Clients : requests'[d] = requests[d] \/ requests'[d] = Idle
  BY DoneRequests DEF Revoke
<1>3. ASSUME NEW s \in Sessions,
             intervals' = CloseAtLeast(intervals, s, Least(sessions[s].hb, r.now)),
             sessions' = [sessions EXCEPT ![s] = Became(@, "stopped")]
      PROVE  PastInv'
  <2>1. sessions[s].hb \in Time /\ sessions[s].hb <= clock /\ r.now <= clock
    BY PastRequest DEF TypeOK, Session, PastInv, Revoke
  <2>2. Least(sessions[s].hb, r.now) \in Time /\ Least(sessions[s].hb, r.now) <= clock
    BY <1>1, <2>1 DEF Least
  <2> QED
    BY <1>1, <1>2, <1>3, <2>2, PastClamped
<1>4. CASE UNCHANGED <<intervals, sessions>>
  BY <1>1, <1>2, <1>4, PastKept
<1> QED
  BY <1>3, <1>4 DEF Revoke

LEMMA PastInterrupt ==
  ASSUME TypeOK, TypeOK', PastInv, NEW s \in Sessions, Interrupt(s)
  PROVE  PastInv'
<1>1. sessions[s].hb \in Time /\ sessions[s].hb <= clock
  BY DEF TypeOK, Session, PastInv
<1> QED
  BY <1>1, PastClamped DEF Interrupt

LEMMA PastSend ==
  ASSUME TypeOK, PastInv, NEW c \in Clients, Send(c)
  PROVE  PastInv'
<1>1. \A r \in Sendable : r.now = clock
  BY DEF Sendable, About
<1>2. clock \in Nat
  BY TimeFacts DEF TypeOK
<1> QED
  BY <1>1, <1>2 DEF Send, PastInv, TypeOK

LEMMA PastTick ==
  ASSUME TypeOK, PastInv, Tick
  PROVE  PastInv'
<1>1. /\ clock \in Nat /\ Forever \in Nat
      /\ \A s \in Sessions : sessions[s].hb \in Nat
      /\ \A i \in intervals : i.from \in Nat /\ i.to \in Nat
  BY TimeFacts DEF TypeOK, Session, Interval
<1>2. ASSUME NEW d \in Clients, requests[d] # Idle
      PROVE  requests[d].now \in Nat
  BY <1>2, TimeFacts DEF TypeOK, Request
<1> QED
  BY <1>1, <1>2 DEF Tick, PastInv

LEMMA PastStep == TypeOK /\ PastInv /\ [Next]_vars => PastInv'
<1> SUFFICES ASSUME TypeOK, PastInv, [Next]_vars
             PROVE  PastInv'
  OBVIOUS
<1>1. TypeOK'
  BY TypeStep
<1>2. CASE UNCHANGED <<clock, sessions, intervals, requests>>
  BY <1>2 DEF PastInv
<1>3. ASSUME NEW c \in Clients, Heartbeat(c) \/ Answer(c) \/ Review(c)
      PROVE  PastInv'
  <2>1. CASE Answer(c) \/ Review(c)
    BY <1>1, <2>1, DoneRequests, PastKept DEF Answer, Review
  <2>2. CASE Heartbeat(c)
    BY <2>2 DEF Heartbeat, PastInv, TypeOK, Request, Idle
  <2> QED
    BY <1>3, <2>1, <2>2
<1>4. ASSUME NEW c \in Clients, Send(c) \/ Handle(c)
      PROVE  PastInv'
  BY <1>1, <1>3, <1>4, PastSend, PastStart, PastPause, PastResume, PastStop, PastSwitch,
     PastHeartbeatWrite, PastRevoke
  DEF Handle
<1> QED
  BY <1>1, <1>2, <1>4, PastTick, PastInterrupt
  DEF Next, UpdateTask, FinishTask, WorkOfAnother, vars
-----------------------------------------------------------------------------
(* What the version of a request stands for.  While a session keeps the    *)
(* version a request was made for, the session is still open and no        *)
(* interval of the user's has begun or ended since the request's now().    *)

Versioned == {"pause", "resume", "stop", "switch"}

Settled(ivs, now) == \A i \in ivs : i.from <= now /\ (i.to = Forever \/ i.to <= now)

VersionInv ==
  \A c \in Clients :
    LET r == requests[c] IN
    r.op \in Versioned =>
      /\ sessions[r.session].state # "none"
      /\ r.expected <= sessions[r.session].version
      /\ r.expected = sessions[r.session].version => IsOpen(r.session) /\ Settled(intervals, r.now)

LEMMA VersionInit == Init => VersionInv
BY DEF Init, VersionInv, Versioned, Idle

\* A step that changes the open session counts its version up; the others keep
\* theirs: every request in flight about the open session is out of date.
LEMMA VersionMoves ==
  ASSUME TypeOK, TypeOK', VersionInv,
         \A d \in Clients : requests'[d] = requests[d] \/ requests'[d] = Idle,
         \A x \in Sessions : sessions[x].state # "none" =>
           /\ sessions'[x].state # "none"
           /\ sessions'[x].version = IF IsOpen(x) THEN sessions[x].version + 1 ELSE sessions[x].version
  PROVE  VersionInv'
<1> SUFFICES ASSUME NEW c \in Clients, requests'[c].op \in Versioned
             PROVE  LET r == requests'[c]
                        x == r.session IN
                    /\ sessions'[x].state # "none"
                    /\ r.expected <= sessions'[x].version
                    /\ r.expected # sessions'[x].version
  BY DEF VersionInv
<1> DEFINE r == requests[c]
           x == r.session
<1>1. requests'[c] = r /\ r.op \in Versioned
  BY DEF Idle, Versioned
<1>2. x \in Sessions /\ r.expected \in Nat
  BY <1>1, RequestFields DEF TypeOK, Versioned
<1>3. sessions[x].version \in Nat
  BY <1>2 DEF TypeOK, Session
<1>4. /\ sessions[x].state # "none" /\ r.expected <= sessions[x].version
      /\ r.expected = sessions[x].version => IsOpen(x)
  BY <1>1 DEF VersionInv
<1> HIDE DEF r, x
<1>5. r.expected < sessions'[x].version /\ sessions'[x].state # "none"
  BY <1>2, <1>3, <1>4
<1>6. r.expected <= sessions'[x].version /\ r.expected # sessions'[x].version
  BY <1>2, <1>3, <1>4, <1>5
<1> QED
  BY <1>1, <1>5, <1>6 DEF x

\* A step that leaves the intervals, and every state and version, as they are.
LEMMA VersionRests ==
  ASSUME TypeOK, VersionInv, intervals' = intervals,
         \A d \in Clients : requests'[d] = requests[d] \/ requests'[d].op \notin Versioned,
         \A x \in Sessions : /\ sessions'[x].state = sessions[x].state
                            /\ sessions'[x].version = sessions[x].version
  PROVE  VersionInv'
<1> SUFFICES ASSUME NEW c \in Clients, requests'[c].op \in Versioned
             PROVE  LET r == requests'[c] IN
                    /\ sessions'[r.session].state # "none"
                    /\ r.expected <= sessions'[r.session].version
                    /\ r.expected = sessions'[r.session].version =>
                         sessions'[r.session].state \in OpenStates /\ Settled(intervals', r.now)
  BY DEF VersionInv, IsOpen
<1>1. requests'[c] = requests[c]
  OBVIOUS
<1>2. requests[c].session \in Sessions
  BY <1>1, RequestFields DEF TypeOK, Versioned
<1> QED
  BY <1>1, <1>2 DEF VersionInv, IsOpen

\* The step of a request about one session: it was open, as no other is.
LEMMA VersionOfOne ==
  ASSUME TypeOK, TypeOK', OneTimer, VersionInv, NEW s \in Sessions, IsOpen(s),
         \A d \in Clients : requests'[d] = requests[d] \/ requests'[d] = Idle,
         sessions'[s].state # "none", sessions'[s].version = sessions[s].version + 1,
         \A x \in Sessions \ {s} : sessions[x].state # "none" => sessions'[x] = sessions[x]
  PROVE  VersionInv'
<1>1. \A x \in Sessions : IsOpen(x) => x = s
  BY DEF OneTimer
<1> QED
  BY <1>1, VersionMoves

LEMMA VersionStart ==
  ASSUME TypeOK, TypeOK', VersionInv, NEW c \in Clients, Start(c)
  PROVE  VersionInv'
<1>1. PICK s \in Sessions, t \in Tasks, now \in Time :
        sessions[s] = Unused /\ sessions' = [sessions EXCEPT ![s] = NewSession(t, now)]
  <2> DEFINE r == requests[c]
  <2>1. r.now \in Time /\ r.task \in Tasks
    BY RequestFields DEF Start, TypeOK
  <2>2. PICK s \in Sessions : /\ sessions[s] = Unused
                            /\ sessions' = [sessions EXCEPT ![s] = NewSession(r.task, r.now)]
    BY DEF Start
  <2> QED
    BY <2>1, <2>2
<1>2. sessions[s].state = "none" /\ \A x \in Sessions \ {s} : sessions'[x] = sessions[x]
  BY <1>1 DEF Unused, TypeOK
<1>3. \A x \in Sessions : ~IsOpen(x)
  BY DEF Start
<1> QED
  BY <1>2, <1>3, DoneRequests, VersionMoves DEF Start

LEMMA VersionPause ==
  ASSUME TypeOK, TypeOK', OneTimer, VersionInv, NEW c \in Clients, Pause(c)
  PROVE  VersionInv'
<1>1. PICK s \in Sessions :
        sessions[s].state = "running" /\ sessions' = [sessions EXCEPT ![s] = Became(@, "paused")]
  BY RequestFields DEF Pause, TypeOK
<1>2. IsOpen(s)
  BY <1>1 DEF IsOpen, OpenStates
<1>3. /\ sessions'[s].state # "none" /\ sessions'[s].version = sessions[s].version + 1
      /\ \A x \in Sessions \ {s} : sessions'[x] = sessions[x]
  BY <1>1 DEF TypeOK, Became
<1> QED
  BY <1>2, <1>3, DoneRequests, VersionOfOne DEF Pause

LEMMA VersionResume ==
  ASSUME TypeOK, TypeOK', OneTimer, VersionInv, NEW c \in Clients, Resume(c)
  PROVE  VersionInv'
<1>1. PICK s \in Sessions, now \in Time :
        /\ sessions[s].state \in {"paused", "interrupted"}
        /\ sessions' = [sessions EXCEPT ![s] = [Became(@, "running") EXCEPT !.hb = now]]
  BY RequestFields DEF Resume, TypeOK
<1>2. IsOpen(s)
  BY <1>1 DEF IsOpen, OpenStates
<1>3. /\ sessions'[s].state # "none" /\ sessions'[s].version = sessions[s].version + 1
      /\ \A x \in Sessions \ {s} : sessions'[x] = sessions[x]
  BY <1>1 DEF TypeOK, Became
<1> QED
  BY <1>2, <1>3, DoneRequests, VersionOfOne DEF Resume

LEMMA VersionStop ==
  ASSUME TypeOK, TypeOK', OneTimer, VersionInv, NEW c \in Clients, Stop(c)
  PROVE  VersionInv'
<1>1. PICK s \in Sessions : IsOpen(s) /\ sessions' = [sessions EXCEPT ![s] = Became(@, "stopped")]
  BY RequestFields DEF Stop, TypeOK
<1>2. /\ sessions'[s].state # "none" /\ sessions'[s].version = sessions[s].version + 1
      /\ \A x \in Sessions \ {s} : sessions'[x] = sessions[x]
  BY <1>1 DEF TypeOK, Became
<1> QED
  BY <1>1, <1>2, DoneRequests, VersionOfOne DEF Stop

LEMMA VersionSwitch ==
  ASSUME TypeOK, TypeOK', OneTimer, VersionInv, NEW c \in Clients, Switch(c)
  PROVE  VersionInv'
<1>1. PICK s \in Sessions, n \in Sessions, now \in Time, t \in Tasks :
        /\ IsOpen(s) /\ sessions[n] = Unused
        /\ sessions' = [sessions EXCEPT ![s] = Became(@, "stopped"), ![n] = NewSession(t, now)]
  <2> DEFINE r == requests[c]
  <2>1. r.session \in Sessions /\ r.now \in Time /\ r.task \in Tasks
    BY RequestFields DEF Switch, TypeOK
  <2>2. IsOpen(r.session)
    BY DEF Switch
  <2>3. PICK n \in Sessions :
          /\ sessions[n] = Unused
          /\ sessions' = [sessions EXCEPT ![r.session] = Became(@, "stopped"),
                                           ![n] = NewSession(r.task, r.now)]
    BY DEF Switch
  <2> QED
    BY <2>1, <2>2, <2>3
<1>2. s # n /\ sessions[n].state = "none"
  BY <1>1 DEF IsOpen, OpenStates, Unused
<1>3. /\ sessions'[s].state # "none" /\ sessions'[s].version = sessions[s].version + 1
      /\ \A x \in Sessions \ {s, n} : sessions'[x] = sessions[x]
  BY <1>1, <1>2 DEF TypeOK, Became
<1> QED
  BY <1>1, <1>2, <1>3, DoneRequests, VersionOfOne DEF Switch

LEMMA VersionRevoke ==
  ASSUME TypeOK, TypeOK', OneTimer, VersionInv, NEW c \in Clients, Revoke(c)
  PROVE  VersionInv'
<1>1. \A d \in Clients : requests'[d] = requests[d] \/ requests'[d] = Idle
  BY DoneRequests DEF Revoke
<1>2. ASSUME NEW s \in Sessions, IsOpen(s), sessions' = [sessions EXCEPT ![s] = Became(@, "stopped")]
      PROVE  VersionInv'
  <2>1. /\ sessions'[s].state # "none" /\ sessions'[s].version = sessions[s].version + 1
        /\ \A x \in Sessions \ {s} : sessions'[x] = sessions[x]
    BY <1>2 DEF TypeOK, Became
  <2> QED
    BY <1>1, <1>2, <2>1, VersionOfOne
<1>3. CASE UNCHANGED <<intervals, sessions>>
  BY <1>1, <1>3, VersionRests DEF Idle, Versioned
<1> QED
  BY <1>2, <1>3 DEF Revoke

LEMMA VersionInterrupt ==
  ASSUME TypeOK, TypeOK', OneTimer, VersionInv, NEW s \in Sessions, Interrupt(s)
  PROVE  VersionInv'
<1>1. IsOpen(s) /\ requests' = requests
  BY DEF Interrupt, IsOpen, OpenStates
<1>2. /\ sessions'[s].state # "none" /\ sessions'[s].version = sessions[s].version + 1
      /\ \A x \in Sessions \ {s} : sessions'[x] = sessions[x]
  BY DEF Interrupt, TypeOK, Became
<1> QED
  BY <1>1, <1>2, VersionOfOne

LEMMA VersionHeartbeatWrite ==
  ASSUME TypeOK, VersionInv, NEW c \in Clients, HeartbeatWrite(c)
  PROVE  VersionInv'
<1>1. \A x \in Sessions : /\ sessions'[x].state = sessions[x].state
                         /\ sessions'[x].version = sessions[x].version
  BY DEF HeartbeatWrite, TypeOK, Session
<1>2. \A d \in Clients : requests'[d] = requests[d] \/ requests'[d].op \notin Versioned
  BY DoneRequests DEF HeartbeatWrite, Idle, Versioned
<1> QED
  BY <1>1, <1>2, VersionRests DEF HeartbeatWrite

\* What is sent about a session is sent while it is open, at its version, and
\* no interval reaches past the moment of sending.
LEMMA VersionSend ==
  ASSUME TypeOK, PastInv, VersionInv, NEW c \in Clients, Send(c)
  PROVE  VersionInv'
<1>1. \A r \in Sendable : r.op \in Versioned =>
        /\ r.session \in Sessions /\ IsOpen(r.session)
        /\ r.expected = sessions[r.session].version /\ r.now = clock
  BY DEF Sendable, About, Versioned
<1>2. Settled(intervals, clock)
  BY DEF Settled, PastInv
<1>3. \A x \in Sessions : sessions[x].version \in Nat /\ (IsOpen(x) => sessions[x].state # "none")
  BY DEF TypeOK, Session, IsOpen, OpenStates
<1>4. \A d \in Clients : requests'[d] = requests[d] \/ requests'[d] \in Sendable
  BY DEF Send, TypeOK
<1>5. UNCHANGED <<sessions, intervals>>
  BY DEF Send
<1> QED
  BY <1>1, <1>2, <1>3, <1>4, <1>5 DEF VersionInv, IsOpen

LEMMA VersionStep == TypeOK /\ OneTimer /\ PastInv /\ VersionInv /\ [Next]_vars => VersionInv'
<1> SUFFICES ASSUME TypeOK, OneTimer, PastInv, VersionInv, [Next]_vars
             PROVE  VersionInv'
  OBVIOUS
<1>1. TypeOK'
  BY TypeStep
<1>2. CASE UNCHANGED <<sessions, intervals, requests>>
  BY <1>2, VersionRests
<1>3. ASSUME NEW c \in Clients, Heartbeat(c) \/ Answer(c) \/ Review(c)
      PROVE  VersionInv'
  <2>1. \A d \in Clients : requests'[d] = requests[d] \/ requests'[d].op \notin Versioned
    <3>1. CASE Answer(c) \/ Review(c)
      BY <3>1, DoneRequests DEF Answer, Review, Idle, Versioned
    <3>2. CASE Heartbeat(c)
      BY <3>2 DEF Heartbeat, TypeOK, Request, Idle, Versioned
    <3> QED
      BY <1>3, <3>1, <3>2
  <2> QED
    BY <1>3, <2>1, VersionRests DEF Answer, Heartbeat, Review
<1>4. ASSUME NEW c \in Clients, Send(c) \/ Handle(c)
      PROVE  VersionInv'
  BY <1>1, <1>3, <1>4, VersionSend, VersionStart, VersionPause, VersionResume, VersionStop,
     VersionSwitch, VersionHeartbeatWrite, VersionRevoke
  DEF Handle
<1> QED
  BY <1>1, <1>2, <1>4, VersionInterrupt DEF Next, Tick, UpdateTask, FinishTask, WorkOfAnother, vars

\* With no session running, no interval is open.
LEMMA NoneOpen ==
  ASSUME TypeOK, OneTimer, NEW s \in Sessions, IsOpen(s), sessions[s].state # "running"
  PROVE  \A i \in intervals : i.to # Forever
<1>1. \A x \in Sessions : OpenOf(intervals, x) = {}
  BY DEF OneTimer, IsOpen, OpenStates
<1>2. \A i \in intervals : i.session \in Sessions
  BY DEF TypeOK, Interval
<1> QED
  BY <1>1, <1>2 DEF OpenOf

\* With a session open, an interval that is open is that session's.
LEMMA OnlyItsOwnOpen ==
  ASSUME TypeOK, OneTimer, NEW s \in Sessions, IsOpen(s), NEW i \in intervals, i.to = Forever
  PROVE  i \in OpenOf(intervals, s)
<1>1. i.session \in Sessions /\ i \in OpenOf(intervals, i.session)
  BY DEF TypeOK, Interval, OpenOf
<1>2. IsOpen(i.session)
  BY <1>1 DEF OneTimer, IsOpen, OpenStates
<1> QED
  BY <1>1, <1>2 DEF OneTimer

LEMMA WellTimed ==
  ASSUME TypeOK, OneTimer, VersionInv
  PROVE  CurrentRequestsAreWellTimed
<1> SUFFICES ASSUME NEW c \in Clients, requests[c].op \in Versioned, Current(requests[c])
             PROVE  LET r == requests[c] IN
                    /\ Closable(intervals, r.session, r.now)
                    /\ sessions[r.session].state \in {"paused", "interrupted"} => Admits(intervals, r.now)
                    /\ IsOpen(r.session) => Admits(Stopped(r.session, r.now), r.now)
  BY DEF CurrentRequestsAreWellTimed, Versioned
<1>1. PICK s \in Sessions, now \in Time : s = requests[c].session /\ now = requests[c].now
  BY RequestFields DEF TypeOK, Versioned
<1>2. IsOpen(s) /\ Settled(intervals, now)
  BY <1>1 DEF VersionInv, Current
<1>3. Closable(intervals, s, now)
  BY <1>2 DEF Closable, OpenOf, Settled
<1>4. ASSUME sessions[s].state \in {"paused", "interrupted"}
      PROVE  Admits(intervals, now)
  BY <1>2, <1>4, NoneOpen DEF Settled, Admits
<1>5. Admits(Stopped(s, now), now)
  <2> SUFFICES ASSUME NEW j \in Stopped(s, now), j.status = "confirmed"
               PROVE  j.to <= now
    BY DEF Admits
  <2>1. now \in Nat
    BY TimeFacts
  <2>2. CASE j \in intervals /\ j \notin OpenOf(intervals, s)
    BY <1>2, <2>2, OnlyItsOwnOpen DEF Settled
  <2>3. CASE j \in UncertainGap(s, now)
    BY <2>3, GapRows
  <2>4. CASE j.to = now
    BY <2>1, <2>4
  <2> QED
    BY <2>2, <2>3, <2>4, StoppedRows
<1> QED
  BY <1>1, <1>3, <1>4, <1>5

\* The invariants so far are inductive together.
TimingInv == TypeOK /\ OneTimer /\ PastInv /\ VersionInv

LEMMA TimingAlways == Spec => []TimingInv
<1>1. Init => TimingInv
  BY TypeInit, OneTimerInit, PastInit, VersionInit DEF TimingInv
<1>2. TimingInv /\ [Next]_vars => TimingInv'
  BY TypeStep, OneTimerStep, PastStep, VersionStep DEF TimingInv
<1> QED
  BY <1>1, <1>2, PTL DEF Spec

\* A request that waited for its lock while others went first is refused for
\* its version before the interval constraints could refuse it for its now().
THEOREM CurrentRequestsAlwaysWellTimed == Spec => []CurrentRequestsAreWellTimed
<1>1. TimingInv => CurrentRequestsAreWellTimed
  BY WellTimed DEF TimingInv
<1> QED
  BY <1>1, TimingAlways, PTL
-----------------------------------------------------------------------------
(* Gaps are never credited.                                                *)

\* Closing an open interval, which starts after every gap, meets none.
LEMMA ClosedStaysDisjoint ==
  ASSUME TypeOK, NEW u \in intervals, NEW i \in intervals, Disjoint(u, i),
         i.to = Forever, u.to # Forever,
         NEW j, j.from = i.from
  PROVE  Disjoint(u, j)
<1>1. u.from \in Time /\ i.from \in Time /\ u.to \in Time
  BY DEF TypeOK, Interval
<1>2. u.from \in Nat /\ i.from \in Nat /\ Forever \in Nat /\ u.from < Forever /\ i.from < Forever
  BY <1>1, TimeFacts
<1> QED
  BY <1>1, <1>2 DEF Disjoint

\* Uncertain intervals have ended.
LEMMA UncertainEnded ==
  ASSUME TypeOK, OneTimer, NEW u \in intervals, u.status = "uncertain"
  PROVE  u.to # Forever
<1>1. u.session \in Sessions
  BY DEF TypeOK, Interval
<1>2. u \notin OpenOf(intervals, u.session)
  BY <1>1 DEF OneTimer
<1> QED
  BY <1>2 DEF OpenOf

\* Rows of the table that were there, or that ended one that was.
LEMMA GapsKeptByClosing ==
  ASSUME TypeOK, OneTimer, GapsAreUncredited, NEW s \in Sessions,
         \A j \in intervals' :
           \/ j \in intervals
           \/ \E i \in OpenOf(intervals, s) :
                j.session = s /\ j.from = i.from /\ j.status = i.status
  PROVE  GapsAreUncredited'
<1> SUFFICES ASSUME NEW u \in intervals', NEW j \in intervals',
                    u.session = j.session, u.status = "uncertain", j.status = "confirmed"
             PROVE  Disjoint(u, j)
  BY DEF GapsAreUncredited, Disjoint
<1>1. \A i \in OpenOf(intervals, s) : i.status = "confirmed"
  BY DEF OneTimer
<1>2. u \in intervals
  BY <1>1
<1>3. CASE j \in intervals
  BY <1>2, <1>3 DEF GapsAreUncredited
<1>4. CASE \E i \in OpenOf(intervals, s) : j.session = s /\ j.from = i.from /\ j.status = i.status
  <2>1. PICK i \in intervals : /\ i.to = Forever /\ i.session = s /\ i.status = "confirmed"
                              /\ j.session = s /\ j.from = i.from
    BY <1>1, <1>4 DEF OpenOf
  <2>2. Disjoint(u, i)
    BY <1>2, <2>1 DEF GapsAreUncredited
  <2> QED
    BY <1>2, <2>1, <2>2, UncertainEnded, ClosedStaysDisjoint
<1> QED
  BY <1>3, <1>4

\* What a stop leaves: an interrupted session had nothing open, and its gap
\* starts where its last confirmed interval ended.
LEMMA GapFollowsCredit ==
  ASSUME TypeOK, OneTimer, NEW s \in Sessions, NEW now \in Time, NEW g \in UncertainGap(s, now),
         NEW j \in intervals, j.session = s, j.status = "confirmed"
  PROVE  j.to <= g.from
<1>1. sessions[s].state = "interrupted" /\ g.from \in ConfirmedTo(s)
  BY GapRows
<1>2. j.to # Forever
  BY <1>1, NoneOpen DEF IsOpen, OpenStates
<1> QED
  BY <1>1, <1>2 DEF ConfirmedTo

LEMMA GapsAfterStopped ==
  ASSUME TypeOK, OneTimer, GapsAreUncredited, NEW s \in Sessions, NEW now \in Time,
         NEW u \in Stopped(s, now), NEW j \in Stopped(s, now),
         u.session = j.session, u.status = "uncertain", j.status = "confirmed"
  PROVE  Disjoint(u, j)
<1>1. \A i \in OpenOf(intervals, s) : i.status = "confirmed" /\ i \in intervals /\ i.to = Forever
  BY DEF OneTimer, OpenOf
<1>2. u \in intervals \/ u \in UncertainGap(s, now)
  BY <1>1, StoppedRows
<1>3. j \notin UncertainGap(s, now)
  BY GapRows
<1>4. CASE j \in intervals
  <2>1. CASE u \in intervals
    BY <1>4, <2>1 DEF GapsAreUncredited
  <2>2. CASE u \in UncertainGap(s, now)
    <3>1. u.session = s
      BY <2>2, GapRows
    <3> QED
      BY <1>4, <2>2, <3>1, GapFollowsCredit DEF Disjoint
  <2> QED
    BY <1>2, <2>1, <2>2
<1>5. CASE \E i \in OpenOf(intervals, s) :
             j.session = s /\ j.from = i.from /\ j.to = now /\ j.status = i.status
  <2>1. PICK i \in OpenOf(intervals, s) : j.session = s /\ j.from = i.from
    BY <1>5
  <2>2. CASE u \in UncertainGap(s, now)
    <3>1. sessions[s].state = "interrupted"
      BY <2>2, GapRows
    <3>2. OpenOf(intervals, s) = {}
      BY <3>1 DEF OneTimer
    <3> QED
      BY <2>1, <3>2
  <2>3. CASE u \in intervals
    <3>1. i \in intervals /\ i.to = Forever /\ i.status = "confirmed" /\ i.session = s
      BY <1>1, <2>1 DEF OpenOf
    <3>2. Disjoint(u, i)
      BY <2>1, <2>3, <3>1 DEF GapsAreUncredited
    <3> QED
      BY <2>1, <2>3, <3>1, <3>2, UncertainEnded, ClosedStaysDisjoint
  <2> QED
    BY <1>2, <2>2, <2>3
<1> QED
  BY <1>3, <1>4, <1>5, StoppedRows

LEMMA GapsStart ==
  ASSUME TypeOK, PastInv, GapsAreUncredited, NEW c \in Clients, Start(c)
  PROVE  GapsAreUncredited'
<1>1. PICK s \in Sessions, now \in Time :
        sessions[s] = Unused /\ intervals' = intervals \cup {NewInterval(s, now)}
  <2>1. requests[c].now \in Time
    BY RequestFields DEF Start, TypeOK
  <2> QED
    BY <2>1 DEF Start
<1>2. \A i \in intervals : i.session # s
  BY <1>1 DEF PastInv, Unused
<1>3. NewInterval(s, now).session = s /\ NewInterval(s, now).status = "confirmed"
  BY DEF NewInterval
<1> QED
  BY <1>1, <1>2, <1>3 DEF GapsAreUncredited, Disjoint

LEMMA GapsPause ==
  ASSUME TypeOK, OneTimer, GapsAreUncredited, NEW c \in Clients, Pause(c)
  PROVE  GapsAreUncredited'
<1>1. PICK s \in Sessions, now \in Time : intervals' = CloseOpen(intervals, s, now)
  BY RequestFields DEF Pause, TypeOK
<1>2. intervals \in SUBSET Interval
  BY DEF TypeOK
<1>3. \A j \in intervals' :
        \/ j \in intervals
        \/ \E i \in OpenOf(intervals, s) : j.session = s /\ j.from = i.from /\ j.status = i.status
  BY <1>1, <1>2, CloseOpenRows
<1> QED
  BY <1>3, GapsKeptByClosing

LEMMA GapsClamped ==
  ASSUME TypeOK, OneTimer, GapsAreUncredited, NEW s \in Sessions, NEW at \in Time,
         intervals' = CloseAtLeast(intervals, s, at)
  PROVE  GapsAreUncredited'
<1>1. intervals \in SUBSET Interval
  BY DEF TypeOK
<1>2. \A j \in intervals' :
        \/ j \in intervals
        \/ \E i \in OpenOf(intervals, s) : j.session = s /\ j.from = i.from /\ j.status = i.status
  BY <1>1, CloseAtLeastRows
<1> QED
  BY <1>2, GapsKeptByClosing

LEMMA GapsResume ==
  ASSUME TypeOK, OneTimer, VersionInv, GapsAreUncredited, NEW c \in Clients, Resume(c)
  PROVE  GapsAreUncredited'
<1>1. PICK s \in Sessions, now \in Time :
        /\ Settled(intervals, now)
        /\ sessions[s].state \in {"paused", "interrupted"}
        /\ intervals' = intervals \cup UncertainGap(s, now) \cup {NewInterval(s, now)}
  <2> DEFINE r == requests[c]
  <2>1. r.session \in Sessions /\ r.now \in Time
    BY RequestFields DEF Resume, TypeOK
  <2>2. Settled(intervals, r.now)
    BY DEF Resume, Current, VersionInv, Versioned
  <2> QED
    BY <2>1, <2>2 DEF Resume
<1> DEFINE n == NewInterval(s, now)
<1>2. n.from = now /\ n.session = s /\ n.status = "confirmed"
  BY DEF NewInterval
<1>3. intervals' = intervals \cup UncertainGap(s, now) \cup {n}
  BY <1>1
<1> HIDE DEF n
<1> SUFFICES ASSUME NEW u \in intervals', NEW j \in intervals',
                    u.session = j.session, u.status = "uncertain", j.status = "confirmed"
             PROVE  Disjoint(u, j)
  BY DEF GapsAreUncredited, Disjoint
<1>4. u \in intervals \/ u \in UncertainGap(s, now)
  BY <1>2, <1>3
<1>5. j \in intervals \/ j = n
  BY <1>3, GapRows
<1>6. CASE j = n
  <2>1. CASE u \in intervals
    BY <1>1, <1>2, <1>6, <2>1, UncertainEnded DEF Settled, Disjoint
  <2>2. CASE u \in UncertainGap(s, now)
    <3>1. u.to = now /\ now \in Nat
      BY <2>2, GapRows, TimeFacts
    <3> QED
      BY <1>2, <1>6, <3>1 DEF Disjoint
  <2> QED
    BY <1>4, <2>1, <2>2
<1>7. CASE j \in intervals
  <2>1. CASE u \in intervals
    BY <1>7, <2>1 DEF GapsAreUncredited
  <2>2. CASE u \in UncertainGap(s, now)
    <3>1. u.session = s
      BY <2>2, GapRows
    <3> QED
      BY <1>7, <2>2, <3>1, GapFollowsCredit DEF Disjoint
  <2> QED
    BY <1>4, <2>1, <2>2
<1> QED
  BY <1>5, <1>6, <1>7

LEMMA GapsStop ==
  ASSUME TypeOK, OneTimer, GapsAreUncredited, NEW c \in Clients, Stop(c)
  PROVE  GapsAreUncredited'
<1>1. PICK s \in Sessions, now \in Time : intervals' = Stopped(s, now)
  BY RequestFields DEF Stop, TypeOK
<1> SUFFICES ASSUME NEW u \in intervals', NEW j \in intervals',
                    u.session = j.session, u.status = "uncertain", j.status = "confirmed"
             PROVE  Disjoint(u, j)
  BY DEF GapsAreUncredited, Disjoint
<1> QED
  BY <1>1, GapsAfterStopped

LEMMA GapsSwitch ==
  ASSUME TypeOK, OneTimer, PastInv, GapsAreUncredited, NEW c \in Clients, Switch(c)
  PROVE  GapsAreUncredited'
<1>1. PICK s \in Sessions, n \in Sessions, now \in Time :
        /\ s # n /\ sessions[n] = Unused
        /\ intervals' = Stopped(s, now) \cup {NewInterval(n, now)}
  <2> DEFINE r == requests[c]
  <2>1. r.session \in Sessions /\ r.now \in Time
    BY RequestFields DEF Switch, TypeOK
  <2>2. PICK n \in Sessions :
          sessions[n] = Unused /\ intervals' = Stopped(r.session, r.now) \cup {NewInterval(n, r.now)}
    BY DEF Switch
  <2>3. r.session # n
    BY <2>2 DEF Switch, IsOpen, OpenStates, Unused
  <2> QED
    BY <2>1, <2>2, <2>3
<1> DEFINE k == NewInterval(n, now)
<1>2. k.session = n /\ k.status = "confirmed"
  BY DEF NewInterval
<1>3. intervals' = Stopped(s, now) \cup {k}
  BY <1>1
<1> HIDE DEF k
<1>4. \A i \in intervals : i.session # n
  BY <1>1 DEF PastInv, Unused
<1>5. \A i \in Stopped(s, now) : i.session # n
  <2> SUFFICES ASSUME NEW i \in Stopped(s, now)
               PROVE  i.session # n
    OBVIOUS
  <2>1. i \in intervals \/ i.session = s
    BY StoppedRows, GapRows
  <2> QED
    BY <1>1, <1>4, <2>1
<1> SUFFICES ASSUME NEW u \in intervals', NEW j \in intervals',
                    u.session = j.session, u.status = "uncertain", j.status = "confirmed"
             PROVE  Disjoint(u, j)
  BY DEF GapsAreUncredited, Disjoint
<1>6. u \in Stopped(s, now) /\ j \in Stopped(s, now)
  BY <1>2, <1>3, <1>5
<1> QED
  BY <1>6, GapsAfterStopped

LEMMA GapsStep == TimingInv /\ GapsAreUncredited /\ [Next]_vars => GapsAreUncredited'
<1> SUFFICES ASSUME TypeOK, OneTimer, PastInv, VersionInv, GapsAreUncredited, [Next]_vars
             PROVE  GapsAreUncredited'
  BY DEF TimingInv
<1>1. CASE UNCHANGED intervals
  BY <1>1 DEF GapsAreUncredited, Disjoint
<1>2. ASSUME NEW c \in Clients, Revoke(c)
      PROVE  GapsAreUncredited'
  <2>1. requests[c].now \in Time
    BY <1>2, RequestFields DEF Revoke, TypeOK
  <2>2. \A s \in Sessions : Least(sessions[s].hb, requests[c].now) \in Time
    BY <2>1 DEF Least, TypeOK, Session
  <2> QED
    BY <1>1, <1>2, <2>2, GapsClamped DEF Revoke
<1>3. ASSUME NEW s \in Sessions, Interrupt(s)
      PROVE  GapsAreUncredited'
  <2>1. sessions[s].hb \in Time
    BY DEF TypeOK, Session
  <2> QED
    BY <1>3, <2>1, GapsClamped DEF Interrupt
<1>4. ASSUME NEW c \in Clients, Send(c) \/ Handle(c)
      PROVE  GapsAreUncredited'
  BY <1>1, <1>2, <1>4, GapsStart, GapsPause, GapsResume, GapsStop, GapsSwitch
  DEF Send, Handle, Heartbeat, HeartbeatWrite, Review, Answer
<1> QED
  BY <1>1, <1>3, <1>4 DEF Next, Tick, UpdateTask, FinishTask, WorkOfAnother, vars

\* What was recorded as an uncertain gap is never part of what the same session
\* is credited for, however often it is interrupted, resumed and stopped.
THEOREM GapsNeverCredited == Spec => []GapsAreUncredited
<1>1. Init => GapsAreUncredited
  BY DEF Init, GapsAreUncredited
<1> QED
  BY <1>1, TimingAlways, GapsStep, PTL DEF Spec
-----------------------------------------------------------------------------
(* What waits for its check is not worked on.                              *)

LiveInv ==
  \A s \in Sessions : IsOpen(s) =>
    /\ sessions[s].task \in Tasks
    /\ tasks[sessions[s].task].status = "in_review" =>
         sessions[s].task \in Unseen /\ tasks[sessions[s].task].assignee # "user"

\* A step that opens no session and moves no task.
LEMMA LiveRests ==
  ASSUME LiveInv, tasks' = tasks,
         \A x \in Sessions : sessions'[x].state \in OpenStates =>
           IsOpen(x) /\ sessions'[x].task = sessions[x].task
  PROVE  LiveInv'
BY DEF LiveInv, IsOpen

\* A step after which only one session is open, picked up on a startable task.
LEMMA LivePickUp ==
  ASSUME TypeOK, NEW s \in Sessions, NEW t \in Tasks, Startable(t), PickUp(t),
         sessions'[s].task = t,
         \A x \in Sessions \ {s} : sessions'[x].state \notin OpenStates
  PROVE  LiveInv'
<1>1. tasks[t] \in Task
  BY DEF TypeOK
<1>2. tasks'[t].status \in {tasks[t].status, "in_progress"}
  BY <1>1 DEF PickUp, TypeOK, Task
<1>3. tasks'[t].status # "in_review"
  BY <1>2 DEF Startable
<1> QED
  BY <1>3 DEF LiveInv, IsOpen

LEMMA LiveStart ==
  ASSUME TypeOK, NEW c \in Clients, Start(c)
  PROVE  LiveInv'
<1> DEFINE r == requests[c]
<1>1. r.task \in Tasks /\ Startable(r.task) /\ PickUp(r.task)
  BY RequestFields DEF Start, TypeOK
<1>2. PICK s \in Sessions : sessions' = [sessions EXCEPT ![s] = NewSession(r.task, r.now)]
  BY DEF Start
<1>3. sessions'[s].task = r.task
  BY <1>2 DEF TypeOK, NewSession
<1>4. \A x \in Sessions \ {s} : sessions'[x].state \notin OpenStates
  BY <1>2 DEF Start, IsOpen, TypeOK
<1> QED
  BY <1>1, <1>3, <1>4, LivePickUp

LEMMA LiveSwitch ==
  ASSUME TypeOK, OneTimer, NEW c \in Clients, Switch(c)
  PROVE  LiveInv'
<1> DEFINE r == requests[c]
<1>1. /\ r.task \in Tasks /\ Startable(r.task) /\ PickUp(r.task)
      /\ r.session \in Sessions /\ IsOpen(r.session)
  BY RequestFields DEF Switch, TypeOK
<1>2. PICK n \in Sessions :
        /\ sessions[n] = Unused
        /\ sessions' = [sessions EXCEPT ![r.session] = Became(@, "stopped"),
                                         ![n] = NewSession(r.task, r.now)]
  BY DEF Switch
<1>3. sessions'[n].task = r.task
  BY <1>2 DEF TypeOK, NewSession
<1>4. \A x \in Sessions \ {r.session} : sessions[x].state \notin OpenStates
  BY <1>1 DEF OneTimer, IsOpen
<1>5. \A x \in Sessions \ {n} : sessions'[x].state \notin OpenStates
  BY <1>1, <1>2, <1>4 DEF TypeOK, Became, OpenStates
<1> QED
  BY <1>1, <1>3, <1>5, LivePickUp

LEMMA LiveStop ==
  ASSUME TypeOK, OneTimer, NEW c \in Clients, Stop(c)
  PROVE  LiveInv'
<1>1. PICK s \in Sessions : IsOpen(s) /\ sessions' = [sessions EXCEPT ![s] = Became(@, "stopped")]
  BY RequestFields DEF Stop, TypeOK
<1>2. \A x \in Sessions : sessions'[x].state \notin OpenStates
  BY <1>1 DEF OneTimer, IsOpen, TypeOK, Became, OpenStates
<1> QED
  BY <1>2 DEF LiveInv, IsOpen

\* The rest of what happens to a session leaves it on its task.
LEMMA LiveSessions ==
  ASSUME TypeOK, LiveInv, NEW c \in Clients,
         Pause(c) \/ Resume(c) \/ HeartbeatWrite(c) \/ Revoke(c)
  PROVE  LiveInv'
<1>1. tasks' = tasks
  BY DEF Pause, Resume, HeartbeatWrite, Revoke
<1>2. \A x \in Sessions : sessions'[x].state \in OpenStates =>
        IsOpen(x) /\ sessions'[x].task = sessions[x].task
  <2>1. CASE Pause(c)
    BY <2>1 DEF Pause, IsOpen, TypeOK, Became, OpenStates
  <2>2. CASE Resume(c)
    BY <2>2 DEF Resume, IsOpen, TypeOK, Became, OpenStates
  <2>3. CASE HeartbeatWrite(c)
    BY <2>3 DEF HeartbeatWrite, IsOpen, TypeOK, Session
  <2>4. CASE Revoke(c)
    BY <2>4 DEF Revoke, IsOpen, TypeOK, Became, OpenStates
  <2> QED
    BY <2>1, <2>2, <2>3, <2>4
<1> QED
  BY <1>1, <1>2, LiveRests

LEMMA LiveInterrupt ==
  ASSUME TypeOK, LiveInv, NEW s \in Sessions, Interrupt(s)
  PROVE  LiveInv'
<1>1. tasks' = tasks
  BY DEF Interrupt
<1>2. \A x \in Sessions : sessions'[x].state \in OpenStates =>
        IsOpen(x) /\ sessions'[x].task = sessions[x].task
  BY DEF Interrupt, IsOpen, TypeOK, Became, OpenStates
<1> QED
  BY <1>1, <1>2, LiveRests

\* No move of a task that was never handed on takes it into review with a session
\* open: a change of status never does, Done looks for the session, and whoever
\* the task was handed to submits it only if no session is seen on it.
LEMMA LiveTasks ==
  ASSUME TypeOK, LiveInv, NEW t \in Moved, UpdateTask(t) \/ FinishTask(t) \/ WorkOfAnother(t)
  PROVE  LiveInv'
<1>1. sessions' = sessions
  BY DEF UpdateTask, FinishTask, WorkOfAnother
<1> SUFFICES ASSUME NEW s \in Sessions, IsOpen(s)
             PROVE  /\ sessions[s].task \in Tasks
                    /\ tasks'[sessions[s].task].status = "in_review" =>
                         /\ sessions[s].task \in Unseen
                         /\ tasks'[sessions[s].task].assignee # "user"
  BY <1>1 DEF LiveInv, IsOpen
<1> DEFINE u == sessions[s].task
<1>2. /\ u \in Tasks
      /\ tasks[u].status = "in_review" => u \in Unseen /\ tasks[u].assignee # "user"
  BY DEF LiveInv
<1>3. OpenOn(u)
  BY DEF OpenOn
<1>4. tasks[u] \in Task
  BY <1>2 DEF TypeOK
<1> SUFFICES tasks'[u].status = "in_review" => u \in Unseen /\ tasks'[u].assignee # "user"
  BY <1>2
<1> HIDE DEF u
<1>5. CASE u # t
  BY <1>2, <1>5 DEF UpdateTask, FinishTask, WorkOfAnother, TypeOK
<1>6. CASE u = t /\ UpdateTask(u)
  <2>1. PICK status \in Transitions[tasks[u].status] \cup {tasks[u].status}, archive \in BOOLEAN,
             assignee \in HandedTo(u) \cup {tasks[u].assignee} :
          tasks' = [tasks EXCEPT ![u] = [status |-> status, archived |-> @.archived \/ archive,
                                        assignee |-> assignee]]
    <3>1. UpdateTask(u)
      BY <1>6
    <3> QED
      BY <3>1, Zenon DEF UpdateTask
  <2>2. tasks'[u].status = status /\ tasks'[u].assignee = assignee
    BY <1>2, <2>1 DEF TypeOK
  <2>3. status = "in_review" => tasks[u].status = "in_review"
    BY <1>4, <2>1 DEF Task, Transitions, Statuses
  <2>4. assignee = "user" => tasks[u].assignee = "user"
    BY <2>1 DEF HandedTo
  <2> QED
    BY <1>2, <2>2, <2>3, <2>4
<1>7. CASE u = t /\ FinishTask(u)
  BY <1>3, <1>7 DEF FinishTask
<1>8. CASE u = t /\ WorkOfAnother(u)
  <2>1. PICK status \in {"blocked", "in_review", "completed"} :
          /\ status # "blocked" => ~SeenOpen(u)
          /\ tasks' = [tasks EXCEPT ![u].status = status]
    BY <1>8 DEF WorkOfAnother
  <2>2. tasks'[u].status = status /\ tasks'[u].assignee = tasks[u].assignee
    BY <1>2, <1>4, <2>1 DEF TypeOK, Task
  <2>3. tasks[u].assignee # "user"
    BY <1>8 DEF WorkOfAnother, Mine
  <2> QED
    BY <1>3, <2>1, <2>2, <2>3 DEF SeenOpen
<1> QED
  BY <1>5, <1>6, <1>7, <1>8

LEMMA LiveReview ==
  ASSUME TypeOK, LiveInv, NEW c \in Clients, Review(c)
  PROVE  LiveInv'
<1>1. PICK t \in Tasks, decision \in Decisions : tasks' = [tasks EXCEPT ![t].status = decision]
  BY RequestFields DEF Review, TypeOK
<1>2. \A u \in Tasks : /\ tasks'[u].status = tasks[u].status \/ tasks'[u].status # "in_review"
                       /\ tasks'[u].assignee = tasks[u].assignee
  BY <1>1 DEF TypeOK, Task, Decisions
<1>3. sessions' = sessions
  BY DEF Review
<1> QED
  BY <1>2, <1>3 DEF LiveInv, IsOpen

LEMMA LiveStep == TypeOK /\ OneTimer /\ LiveInv /\ [Next]_vars => LiveInv'
<1> SUFFICES ASSUME TypeOK, OneTimer, LiveInv, [Next]_vars
             PROVE  LiveInv'
  OBVIOUS
<1>1. CASE UNCHANGED <<sessions, tasks>>
  BY <1>1, LiveRests DEF IsOpen
<1>2. ASSUME NEW c \in Clients, Send(c) \/ Handle(c)
      PROVE  LiveInv'
  BY <1>1, <1>2, LiveStart, LiveSwitch, LiveStop, LiveSessions, LiveReview
  DEF Send, Handle, Heartbeat, Answer
<1> QED
  BY <1>1, <1>2, LiveInterrupt, LiveTasks DEF Next, Tick, vars

\* However requests, decisions and moves of a task interleave, no session is ever
\* open on a task that waits for its check, unless the task was handed on by
\* somebody who does not see its sessions.
THEOREM InReviewNeverWorkedOn == Spec => []InReviewIsNotWorkedOn
<1>1. Init => LiveInv
  BY DEF Init, LiveInv, IsOpen, OpenStates, Unused
<1>2. LiveInv => InReviewIsNotWorkedOn
  BY DEF LiveInv, InReviewIsNotWorkedOn
<1> QED
  BY <1>1, <1>2, TypeInit, TypeStep, OneTimerInit, OneTimerStep, LiveStep, PTL DEF Spec
-----------------------------------------------------------------------------
(* Offboarding.                                                            *)

\* A step that opens no session and offboards nobody.
LEMMA OffboardRests ==
  ASSUME OffboardedHaveNoOpenSession, revoked' = revoked,
         \A x \in Sessions : sessions'[x].state \in OpenStates =>
           IsOpen(x) /\ sessions'[x].task = sessions[x].task
  PROVE  OffboardedHaveNoOpenSession'
BY DEF OffboardedHaveNoOpenSession, IsOpen, MemberOf

\* A session opens only for a member who is in.
LEMMA OffboardOpens ==
  ASSUME TypeOK, OneTimer, OffboardedHaveNoOpenSession, NEW c \in Clients, Start(c) \/ Switch(c)
  PROVE  OffboardedHaveNoOpenSession'
<1> DEFINE r == requests[c]
<1>1. r.task \in Tasks /\ ~revoked[Assignee[r.task]] /\ revoked' = revoked
  BY RequestFields DEF Start, Switch, Startable, TypeOK
<1>2. PICK n \in Sessions : /\ sessions'[n].task = r.task
                           /\ \A x \in Sessions \ {n} : sessions'[x].state \notin OpenStates
  <2>1. CASE Start(c)
    <3>1. PICK n \in Sessions : sessions' = [sessions EXCEPT ![n] = NewSession(r.task, r.now)]
      BY <2>1 DEF Start
    <3> QED
      BY <2>1, <3>1 DEF Start, IsOpen, TypeOK, NewSession
  <2>2. CASE Switch(c)
    <3>1. r.session \in Sessions /\ IsOpen(r.session)
      BY <2>2, RequestFields DEF Switch, TypeOK
    <3>2. PICK n \in Sessions :
            sessions' = [sessions EXCEPT ![r.session] = Became(@, "stopped"),
                                         ![n] = NewSession(r.task, r.now)]
      BY <2>2 DEF Switch
    <3>3. \A x \in Sessions \ {r.session} : sessions[x].state \notin OpenStates
      BY <3>1 DEF OneTimer, IsOpen
    <3>4. \A x \in Sessions \ {n} : sessions'[x].state \notin OpenStates
      BY <3>1, <3>2, <3>3 DEF TypeOK, Became, OpenStates
    <3> QED
      BY <3>2, <3>4 DEF TypeOK, NewSession
  <2> QED
    BY <2>1, <2>2
<1> QED
  BY <1>1, <1>2 DEF OffboardedHaveNoOpenSession, IsOpen, MemberOf

\* One timer: the session an offboarding stops is the only one there is.
LEMMA OffboardRevoke ==
  ASSUME TypeOK, OneTimer, OffboardedHaveNoOpenSession, NEW c \in Clients, Revoke(c)
  PROVE  OffboardedHaveNoOpenSession'
<1> DEFINE m == requests[c].member
<1>1. revoked' = [revoked EXCEPT ![m] = TRUE] /\ m \in Members
  BY RequestFields DEF Revoke, TypeOK
<1>2. \A x \in Members \ {m} : revoked'[x] = revoked[x]
  BY <1>1 DEF TypeOK
<1>3. CASE \E s \in Sessions : IsOpen(s) /\ sessions' = [sessions EXCEPT ![s] = Became(@, "stopped")]
  <2>1. \A x \in Sessions : sessions'[x].state \notin OpenStates
    BY <1>3 DEF OneTimer, IsOpen, TypeOK, Became, OpenStates
  <2> QED
    BY <2>1 DEF OffboardedHaveNoOpenSession, IsOpen
<1>4. CASE /\ sessions' = sessions
           /\ ~ \E s \in Sessions : IsOpen(s) /\ MemberOf(s) = m
  BY <1>1, <1>4 DEF OffboardedHaveNoOpenSession, IsOpen, MemberOf, TypeOK
<1> QED
  BY <1>3, <1>4 DEF Revoke

LEMMA OffboardStep ==
  TypeOK /\ OneTimer /\ OffboardedHaveNoOpenSession /\ [Next]_vars => OffboardedHaveNoOpenSession'
<1> SUFFICES ASSUME TypeOK, OneTimer, OffboardedHaveNoOpenSession, [Next]_vars
             PROVE  OffboardedHaveNoOpenSession'
  OBVIOUS
<1>1. CASE UNCHANGED <<sessions, revoked>>
  BY <1>1, OffboardRests DEF IsOpen
<1>2. ASSUME NEW c \in Clients, Pause(c) \/ Resume(c) \/ Stop(c) \/ HeartbeatWrite(c)
      PROVE  OffboardedHaveNoOpenSession'
  <2>1. revoked' = revoked
    BY <1>2 DEF Pause, Resume, Stop, HeartbeatWrite
  <2>2. \A x \in Sessions : sessions'[x].state \in OpenStates =>
          IsOpen(x) /\ sessions'[x].task = sessions[x].task
    <3>1. CASE Pause(c)
      BY <3>1 DEF Pause, IsOpen, TypeOK, Became, OpenStates
    <3>2. CASE Resume(c)
      BY <3>2 DEF Resume, IsOpen, TypeOK, Became, OpenStates
    <3>3. CASE Stop(c)
      BY <3>3 DEF Stop, IsOpen, TypeOK, Became, OpenStates
    <3>4. CASE HeartbeatWrite(c)
      BY <3>4 DEF HeartbeatWrite, IsOpen, TypeOK, Session
    <3> QED
      BY <1>2, <3>1, <3>2, <3>3, <3>4
  <2> QED
    BY <2>1, <2>2, OffboardRests
<1>3. ASSUME NEW s \in Sessions, Interrupt(s)
      PROVE  OffboardedHaveNoOpenSession'
  <2>1. revoked' = revoked
    BY <1>3 DEF Interrupt
  <2>2. \A x \in Sessions : sessions'[x].state \in OpenStates =>
          IsOpen(x) /\ sessions'[x].task = sessions[x].task
    BY <1>3 DEF Interrupt, IsOpen, TypeOK, Became, OpenStates
  <2> QED
    BY <2>1, <2>2, OffboardRests
<1>4. ASSUME NEW c \in Clients, Send(c) \/ Handle(c)
      PROVE  OffboardedHaveNoOpenSession'
  BY <1>1, <1>2, <1>4, OffboardOpens, OffboardRevoke DEF Send, Handle, Heartbeat, Review, Answer
<1> QED
  BY <1>1, <1>3, <1>4 DEF Next, Tick, UpdateTask, FinishTask, WorkOfAnother, vars

\* A member who was offboarded is never left with a session open, whatever was
\* in flight when the membership was revoked.
THEOREM OffboardedNeverHaveOpenSession == Spec => []OffboardedHaveNoOpenSession
<1>1. Init => OffboardedHaveNoOpenSession
  BY DEF Init, OffboardedHaveNoOpenSession, IsOpen, OpenStates, Unused
<1> QED
  BY <1>1, TypeInit, TypeStep, OneTimerInit, OneTimerStep, OffboardStep, PTL DEF Spec
=============================================================================
