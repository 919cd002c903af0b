----------------------------- MODULE TaskReview -----------------------------
(***************************************************************************)
(* One task from To do to Completed: who holds it, who checks it, what was *)
(* submitted and what was decided (src/server/services/tasks.ts and        *)
(* evidence.ts over db/migrations/0002_work.sql and                        *)
(* 0003_evidence_reports.sql), and the sessions its people have open on it *)
(* (sessions.ts).                                                          *)
(*                                                                         *)
(* updateTask, submitInternal and completeOwnTaskInternal lock the task's  *)
(* row before they read it, so each is one step.  startInternal reads the  *)
(* assignee before it has the lock and reviewSubmission never takes it: a  *)
(* request that has read and not yet written is held in requests.  What a  *)
(* person may see and change is decided by row security at each statement. *)
(***************************************************************************)
EXTENDS Naturals, Sequences

CONSTANTS
  People,           \* the memberships of the workspace
  Org,              \* the owner and HR accounts
  Manages,          \* the pairs <<team lead, member of the team>>
  Leads,            \* the leads of the task's project
  Insiders,         \* the project's other members, and whoever created the task
  DefaultReviewer,  \* who defaultReviewerFor finds for each person, or Nobody
  Holders,          \* bound: who may be given the task
  Reviewers,        \* bound: whom a request may name as the reviewer
  Nobody,           \* no reviewer
  Clients,          \* requests between their reads and their writes at a time
  MaxRevision       \* bound: submissions of the task

ASSUME ReviewAssumption ==
  /\ Org \subseteq People /\ Leads \subseteq People /\ Insiders \subseteq People
  /\ Holders \subseteq People \ Org /\ Reviewers \subseteq People
  /\ Manages \subseteq People \X People
  /\ Nobody \notin People
  /\ DefaultReviewer \in [People -> People \cup {Nobody}]
  /\ \A p \in People : DefaultReviewer[p] # p
  /\ MaxRevision \in Nat

VARIABLES
  task,         \* tasks: status, archived, assignee, reviewer
  submissions,  \* task_submissions: who submitted each revision
  reviews,      \* reviews: what was decided, on which revision, by whom
  working,      \* work_sessions: whose session is open on the task
  requests      \* the requests that have read and not written yet

taskVars == <<task, submissions, reviews, working, requests>>
-----------------------------------------------------------------------------
Statuses  == {"todo", "in_progress", "blocked", "in_review", "completed"}
Decisions == {"approved", "changes_requested"}     \* a question decides nothing
Revisions == 1 .. MaxRevision

Task    == [status : Statuses, archived : BOOLEAN,
            assignee : People, reviewer : People \cup {Nobody}]
Review  == [revision : Revisions, by : People, decision : Decisions]
Request == [op : {"start"}, by : People]
             \cup [op : {"review"}, by : People, revision : Revisions, decision : Decisions]
Idle    == [op |-> "idle"]

Transitions ==
  [todo |-> {"in_progress"}, in_progress |-> {"blocked", "todo"}, blocked |-> {"in_progress"},
   in_review |-> {"in_progress"}, completed |-> {"in_progress"}]
-----------------------------------------------------------------------------
(* Who may do what. *)

ManagesMember(p, q) == <<p, q>> \in Manages

\* The policies tasks_update and tasks_select, on a row t of tasks.
MayUpdate(p, t) ==
  p \in Org \/ ManagesMember(p, t.assignee) \/ p \in Leads \/ p \in {t.assignee, t.reviewer}

MayView(p, t) == MayUpdate(p, t) \/ p \in Insiders

\* canManageAssignee.
CanManage(p) ==
  \/ p \in Org \/ ManagesMember(p, task.assignee) \/ p \in Leads
  \/ p = task.assignee /\ p \in Insiders

\* The open sessions the caller can see, app_can_view_records.
VisibleOpen(p, open) == \E q \in open : p = q \/ p \in Org \/ ManagesMember(p, q)

\* Faulty: only the task's own reviewer is asked about.
NamedChecker(p) == IF task.reviewer = p THEN Nobody ELSE task.reviewer

\* checkerFor: who checks the task when p says it is done.
Checker(p) ==
  LET r == IF task.reviewer = Nobody THEN DefaultReviewer[p] ELSE task.reviewer
  IN  IF r = p THEN Nobody ELSE r
-----------------------------------------------------------------------------
Init ==
  /\ \E p \in Holders, r \in Reviewers \cup {Nobody} :
       /\ p # r
       /\ task = [status |-> "todo", archived |-> FALSE, assignee |-> p, reviewer |-> r]
  /\ submissions = <<>>
  /\ reviews = {}
  /\ working = {}
  /\ requests = [c \in Clients |-> Idle]

Moved(status) == [task EXCEPT !.status = status]

\* The CHECK that the reviewer is not the assignee, and tasks_update for the
\* row as it would be.
Writable(p, t) == t.reviewer # t.assignee /\ MayUpdate(p, t)

\* What an update may make of the row; a field it leaves out stays.  A task
\* goes into review by a submission only, and is never taken out of the archive.
Edited ==
  [status   : {task.status} \cup Transitions[task.status],
   archived : {task.archived, TRUE},
   assignee : {task.assignee} \cup Holders,
   reviewer : {task.reviewer, Nobody} \cup Reviewers]

\* updateTask, asked for the version the row still has.
UpdateTask(p) ==
  \E new \in Edited \ {task} :
    /\ p \in {task.assignee, task.reviewer} \/ CanManage(p)
    /\ new.reviewer # task.assignee
    /\ new.assignee # task.assignee =>
         CanManage(p) /\ ~VisibleOpen(p, working) /\ new.assignee # task.reviewer
    /\ new.archived # task.archived => ~VisibleOpen(p, working)
    /\ new.status # task.status =>
         /\ ~task.archived
         /\ task.status \in {"completed", "in_review"} => p = task.reviewer \/ CanManage(p)
    /\ Writable(p, new)
    /\ task' = new
    /\ UNCHANGED <<submissions, reviews, working, requests>>
-----------------------------------------------------------------------------
(* Submitting and finishing. *)

\* submitInternal, by p with these sessions open.
Submits(p, open) ==
  LET reviewer == IF task.reviewer = Nobody THEN DefaultReviewer[p] ELSE task.reviewer IN
  /\ p = task.assignee
  /\ ~task.archived
  /\ reviewer \notin {Nobody, p}
  /\ task.status \in {"todo", "in_progress", "blocked"}
  /\ ~VisibleOpen(p, open)
  /\ Len(submissions) < MaxRevision
  /\ task' = [Moved("in_review") EXCEPT !.reviewer = reviewer]
  /\ submissions' = Append(submissions, p)

\* completeOwnTaskInternal, which asks for no assignee: its caller did.
Completes(p, open) ==
  /\ ~task.archived
  /\ task.status # "in_review"
  /\ task.status # "completed" => ~VisibleOpen(p, open)
  /\ task' = Moved("completed")
  /\ UNCHANGED submissions

\* submitTask; also the second transaction of completeTask, whose first has
\* found a checker and left nothing behind.
SubmitTask(p) ==
  /\ Submits(p, working)
  /\ UNCHANGED <<reviews, working, requests>>

\* The first transaction of completeTask, when nobody but the member checks.
CompleteTask(p) ==
  /\ p = task.assignee
  /\ Checker(p) = Nobody
  /\ task.status # "completed"
  /\ Completes(p, working)
  /\ UNCHANGED <<reviews, working, requests>>
-----------------------------------------------------------------------------
(* Sessions on the task. *)

\* startInternal up to the lock.
StartRead(c, p) ==
  /\ requests[c] = Idle
  /\ p = task.assignee
  /\ p \notin working
  /\ requests' = [requests EXCEPT ![c] = [op |-> "start", by |-> p]]
  /\ UNCHANGED <<task, submissions, reviews, working>>

Done(c) == requests' = [requests EXCEPT ![c] = Idle]

\* The request is refused, or fails and is rolled back.
Answer(c) ==
  /\ requests[c] # Idle
  /\ Done(c)
  /\ UNCHANGED <<task, submissions, reviews, working>>

\* The rest of startInternal: FOR UPDATE finds the row only for those who may
\* update it, and the assignee is not read again.
Start(c) ==
  LET r == requests[c] IN
  /\ r.op = "start"
  /\ MayUpdate(r.by, task)
  /\ ~task.archived
  /\ task.status \notin {"completed", "in_review"}
  /\ r.by \notin working
  /\ working' = working \cup {r.by}
  /\ \/ /\ task.status \in {"todo", "blocked"}
        /\ task' = Moved("in_progress")
     \/ /\ task.status = "in_progress"
        /\ UNCHANGED task
  /\ Done(c)
  /\ UNCHANGED <<submissions, reviews>>

\* stopInternal: the task is locked FOR UPDATE, whatever the outcome, so the
\* stop fails for whoever may not update it any more.
StopSession(p) ==
  /\ p \in working
  /\ MayUpdate(p, task)
  /\ working' = working \ {p}
  /\ \/ UNCHANGED <<task, submissions>>
     \/ /\ task.status # "blocked"
        /\ task' = Moved("blocked")
        /\ UNCHANGED submissions
     \/ Checker(p) # Nobody /\ Submits(p, working \ {p})
     \/ Checker(p) = Nobody /\ Completes(p, working \ {p})
  /\ UNCHANGED <<reviews, requests>>
-----------------------------------------------------------------------------
(* Deciding. *)

Decided(n) == \E r \in reviews : r.revision = n

\* Whoever may decide on the latest revision, the guards of reviewSubmission.
MayDecide(p) ==
  /\ p \notin Org
  /\ submissions # <<>>
  /\ submissions[Len(submissions)] # p
  /\ task.assignee # p
  /\ task.reviewer = p \/ ManagesMember(p, task.assignee)

\* reviewSubmission up to its first write.  Nothing is locked.
ReviewRead(c, p) ==
  /\ requests[c] = Idle
  /\ MayDecide(p)
  /\ task.status = "in_review"
  /\ ~Decided(Len(submissions))
  /\ \E d \in Decisions :
       requests' = [requests EXCEPT ![c] =
         [op |-> "review", by |-> p, revision |-> Len(submissions), decision |-> d]]
  /\ UNCHANGED <<task, submissions, reviews, working>>

\* Faulty: the task is given the decision for its status.
StatusOf(decision) == IF decision = "approved" THEN "completed" ELSE decision

StatusAfter(decision) == IF decision = "approved" THEN "completed" ELSE "in_progress"

\* The rest of reviewSubmission.  The INSERT returns the row, so the task must
\* still be seen; the UPDATE names only the task's id, and row security leaves
\* it without a row for whoever may not update the task any more.
ReviewWrite(c) ==
  LET r == requests[c] IN
  /\ r.op = "review"
  /\ MayView(r.by, task)
  /\ reviews' = reviews \cup {[revision |-> r.revision, by |-> r.by, decision |-> r.decision]}
  /\ IF MayUpdate(r.by, task)
     THEN task' = Moved(StatusAfter(r.decision))
     ELSE UNCHANGED task
  /\ Done(c)
  /\ UNCHANGED <<submissions, working>>
-----------------------------------------------------------------------------
\* Every step that clears what the task's leaving Blocked has made untrue ...
Settling ==
  \/ \E p \in People : UpdateTask(p) \/ SubmitTask(p) \/ CompleteTask(p) \/ StopSession(p)
  \/ \E c \in Clients : Start(c)

\* ... and every other.
Other ==
  \/ \E c \in Clients : ReviewWrite(c) \/ Answer(c)
  \/ \E c \in Clients, p \in People : StartRead(c, p) \/ ReviewRead(c, p)

Next == Settling \/ Other

Spec == Init /\ [][Next]_taskVars
-----------------------------------------------------------------------------
(* Properties. *)

\* Nobody but p checks the task when p says it is done.
NobodyElseChecks(p) ==
  /\ task.reviewer \in {Nobody, p}
  /\ task.reviewer = Nobody => DefaultReviewer[p] = Nobody

\* A task becomes completed only by an approval of somebody who did not submit
\* what was approved, or by a member (its assignee, or whose session is open on
\* it) whom nobody else checks ("finished work goes to the person who checks it
\* ... until they approve"), whatever becomes of assignee, reviewer and status
\* while a decision or a start is on its way.
CheckedByAnother ==
  [][task.status # "completed" /\ task'.status = "completed" =>
       \/ \E c \in Clients :
            /\ requests[c].op = "review" /\ requests'[c] = Idle
            /\ requests[c].decision = "approved"
            /\ submissions[requests[c].revision] # requests[c].by
       \/ \E p \in {task.assignee} \cup working : NobodyElseChecks(p)]_taskVars

\* What defaultReviewerFor is there for: "No team lead: fall back to an
\* organisation account so work can still be reviewed."  Whenever work waits for
\* its check, there is somebody whose decision reviewSubmission would take.
WorkCanBeReviewed == task.status = "in_review" => \E p \in People : MayDecide(p)
=============================================================================
