-------------------------- MODULE TaskBlocksProofs --------------------------
(***************************************************************************)
(* Theorems about TaskReview and TaskBlocks, for any people, teams,        *)
(* reviewers, requests, submissions and blocks that ReviewAssumption       *)
(* allows.                                                                 *)
(***************************************************************************)
EXTENDS TaskBlocks, TLAPS
-----------------------------------------------------------------------------
(* The invariant. *)

\* The part of TypeOK that is about the task.
TaskTypes ==
  /\ task \in Task
  /\ submissions \in Seq(People) /\ Len(submissions) <= MaxRevision
  /\ reviews \subseteq Review /\ \A r \in reviews : r.revision <= Len(submissions)
  /\ working \subseteq People
  /\ requests \in [Clients -> Request \cup {Idle}]

\* ... and that about its blocks.
BlockTypes ==
  /\ blocks \in [Blocks -> Block \cup {Unused}]
  /\ asking \in Ask \cup {NoAsk}

\* A decision on its way is about somebody else's submission.
Requested ==
  \A c \in Clients : requests[c].op = "review" =>
    /\ requests[c].revision \in 1 .. Len(submissions)
    /\ submissions[requests[c].revision] # requests[c].by

\* An ask under way closes, and so has locked, exactly the blocks that are open.
AskClosesAll ==
  asking # NoAsk => asking.closes = {b \in Blocks : IsOpen(b)}

TaskInv   == TaskTypes /\ Requested
BlocksInv == TaskInv /\ BlockTypes /\ AskClosesAll /\ OneOpenBlock
-----------------------------------------------------------------------------
(* The task. *)

\* A task moved to a status is a task.
LEMMA MovedTask ==
  ASSUME task \in Task, NEW status \in Statuses
  PROVE  /\ Moved(status) \in Task
         /\ Moved(status).status = status
         /\ Moved(status).assignee = task.assignee
BY DEF Moved, Task

\* One more submission leaves the earlier ones as they were.
LEMMA Submitted ==
  ASSUME TaskInv, NEW p \in People, Len(submissions) < MaxRevision,
         submissions' = Append(submissions, p)
  PROVE  /\ submissions' \in Seq(People) /\ Len(submissions') = Len(submissions) + 1
         /\ Len(submissions') <= MaxRevision
         /\ \A n \in 1 .. Len(submissions) : submissions'[n] = submissions[n]
<1>1. Len(submissions) \in Nat /\ MaxRevision \in Nat
  BY ReviewAssumption DEF ReviewAssumption, TaskInv, TaskTypes
<1> QED BY <1>1 DEF TaskInv, TaskTypes

\* What is kept when only task and submissions change, as Submits and Completes do.
LEMMA SubmitsTypes ==
  ASSUME TaskInv, NEW p \in People, NEW open \in SUBSET People, Submits(p, open)
  PROVE  /\ task' \in Task /\ task'.status = "in_review"
         /\ submissions' \in Seq(People) /\ Len(submissions') <= MaxRevision
         /\ Len(submissions) <= Len(submissions')
         /\ \A n \in 1 .. Len(submissions) : submissions'[n] = submissions[n]
<1> DEFINE reviewer == IF task.reviewer = Nobody THEN DefaultReviewer[p] ELSE task.reviewer
<1>1. /\ task \in Task /\ Len(submissions) < MaxRevision
      /\ task' = [Moved("in_review") EXCEPT !.reviewer = reviewer]
      /\ submissions' = Append(submissions, p)
  BY DEF Submits, TaskInv, TaskTypes
<1>2. reviewer \in People \cup {Nobody}
  BY <1>1, ReviewAssumption DEF ReviewAssumption, Task
<1>3. task' \in Task /\ task'.status = "in_review"
  BY <1>1, <1>2 DEF Task, Moved, Statuses
<1>4. Len(submissions) \in Nat
  BY DEF TaskInv, TaskTypes
<1> QED BY <1>1, <1>3, <1>4, Submitted

LEMMA CompletesTypes ==
  ASSUME TaskInv, NEW p \in People, NEW open \in SUBSET People, Completes(p, open)
  PROVE  task' \in Task /\ UNCHANGED submissions
BY MovedTask DEF Completes, TaskInv, TaskTypes, Statuses
-----------------------------------------------------------------------------
(* Every step of the task keeps its types, and a decision on its way stays   *)
(* one about somebody else's submission.                                     *)

\* What UpdateTask may make of the row is a task, never completed anew.
LEMMA UpdateTypes ==
  ASSUME TaskInv, NEW p \in People, UpdateTask(p)
  PROVE  /\ task' \in Task
         /\ task'.status = "completed" => task.status = "completed"
         /\ UNCHANGED <<submissions, reviews, working, requests>>
<1>1. PICK new \in Edited \ {task} : task' = new
  BY DEF UpdateTask
<1>2. task \in Task /\ Holders \subseteq People /\ Reviewers \subseteq People
  BY ReviewAssumption DEF ReviewAssumption, TaskInv, TaskTypes
<1>3. new.status \in {task.status} \cup Transitions[task.status]
  BY DEF Edited
<1>4. \A s \in Statuses : Transitions[s] \subseteq Statuses \ {"completed"}
  BY DEF Transitions, Statuses
<1>5. task' \in Task
  BY <1>1, <1>2, <1>4 DEF Edited, Task
<1>6. task'.status = "completed" => task.status = "completed"
  BY <1>1, <1>2, <1>3, <1>4 DEF Task
<1> QED BY <1>5, <1>6 DEF UpdateTask

\* Requests that change nothing but themselves, and never to a decision.
LEMMA RequestsKept ==
  ASSUME TaskInv, NEW c \in Clients, NEW r \in Request \cup {Idle},
         requests' = [requests EXCEPT ![c] = r],
         r.op = "review" => /\ r.revision \in 1 .. Len(submissions)
                            /\ submissions[r.revision] # r.by,
         Len(submissions) <= Len(submissions') /\ Len(submissions') \in Nat,
         \A n \in 1 .. Len(submissions) : submissions'[n] = submissions[n]
  PROVE  /\ requests' \in [Clients -> Request \cup {Idle}]
         /\ Requested'
<1>1. requests \in [Clients -> Request \cup {Idle}]
  BY DEF TaskInv, TaskTypes
<1>2. requests' \in [Clients -> Request \cup {Idle}]
  BY <1>1
<1>3. ASSUME NEW d \in Clients, requests'[d].op = "review"
      PROVE  /\ requests'[d].revision \in 1 .. Len(submissions')
             /\ submissions'[requests'[d].revision] # requests'[d].by
  <2>0. Len(submissions) \in Nat
    BY DEF TaskInv, TaskTypes
  <2>1. CASE d = c
    BY <1>1, <1>3, <2>0, <2>1
  <2>2. CASE d # c
    <3>1. requests'[d] = requests[d]
      BY <1>1, <2>2
    <3> QED BY <1>3, <2>0, <3>1 DEF TaskInv, Requested
  <2> QED BY <2>1, <2>2
<1> QED BY <1>2, <1>3 DEF Requested

\* Requests that stay, while revisions are added.
LEMMA RequestsStay ==
  ASSUME TaskInv, UNCHANGED requests,
         Len(submissions) <= Len(submissions') /\ Len(submissions') \in Nat,
         \A n \in 1 .. Len(submissions) : submissions'[n] = submissions[n]
  PROVE  Requested'
<1>1. Len(submissions) \in Nat
  BY DEF TaskInv, TaskTypes
<1> SUFFICES ASSUME NEW d \in Clients, requests[d].op = "review"
             PROVE  /\ requests[d].revision \in 1 .. Len(submissions')
                    /\ submissions'[requests[d].revision] # requests[d].by
  BY DEF Requested
<1> QED BY <1>1 DEF TaskInv, Requested

\* A reviewer's request carries a revision there is.
LEMMA ReviewRequest ==
  ASSUME TaskInv, NEW c \in Clients, requests[c].op = "review"
  PROVE  /\ [revision |-> requests[c].revision, by |-> requests[c].by,
             decision |-> requests[c].decision] \in Review
         /\ requests[c].revision <= Len(submissions)
         /\ requests[c].decision \in Decisions
<1>1. requests[c] \in Request \cup {Idle}
  BY DEF TaskInv, TaskTypes
<1>2. requests[c] \in [op : {"review"}, by : People, revision : Revisions, decision : Decisions]
  BY <1>1 DEF Request, Idle
<1>3. Len(submissions) \in Nat
  BY DEF TaskInv, TaskTypes
<1>4. requests[c].revision \in 1 .. Len(submissions)
  BY DEF TaskInv, Requested
<1>5. /\ requests[c].revision \in Revisions /\ requests[c].by \in People
      /\ requests[c].decision \in Decisions
  BY <1>2
<1> QED BY <1>3, <1>4, <1>5 DEF Review

LEMMA IdleIsNoReview == Idle.op = "idle" /\ Idle \notin Request
BY DEF Idle, Request

LEMMA TaskStep ==
  ASSUME TaskInv, Next
  PROVE  TaskInv'
<1>0. /\ task \in Task
      /\ submissions \in Seq(People) /\ Len(submissions) \in Nat
      /\ Len(submissions) <= MaxRevision
      /\ reviews \subseteq Review /\ \A r \in reviews : r.revision <= Len(submissions)
      /\ working \subseteq People
      /\ requests \in [Clients -> Request \cup {Idle}]
      /\ MaxRevision \in Nat
  BY ReviewAssumption DEF ReviewAssumption, TaskInv, TaskTypes
<1>r. \A r \in reviews : r.revision \in Nat
  BY <1>0 DEF Review, Revisions
<1>a. ASSUME NEW p \in People, NEW open \in SUBSET People, Submits(p, open) \/ Completes(p, open),
             UNCHANGED <<reviews, requests>>, working' \subseteq People
      PROVE  TaskInv'
  <2>1. /\ task' \in Task
        /\ submissions' \in Seq(People) /\ Len(submissions') <= MaxRevision
        /\ Len(submissions) <= Len(submissions')
        /\ \A n \in 1 .. Len(submissions) : submissions'[n] = submissions[n]
    BY <1>0, <1>a, SubmitsTypes, CompletesTypes
  <2>2. Len(submissions') \in Nat
    BY <2>1
  <2>3. Requested'
    BY <1>a, <2>1, <2>2, RequestsStay
  <2>4. \A r \in reviews' : r.revision <= Len(submissions')
    BY <1>0, <1>a, <1>r, <2>1, <2>2
  <2> QED BY <1>0, <1>a, <2>1, <2>3, <2>4 DEF TaskInv, TaskTypes
<1>b. ASSUME task' \in Task, UNCHANGED <<submissions, reviews, requests>>, working' \subseteq People
      PROVE  TaskInv'
  BY <1>b DEF TaskInv, TaskTypes, Requested
<1>c. ASSUME NEW c \in Clients, NEW r \in Request \cup {Idle},
             requests' = [requests EXCEPT ![c] = r],
             r.op = "review" => /\ r.revision \in 1 .. Len(submissions)
                                /\ submissions[r.revision] # r.by,
             task' \in Task, UNCHANGED submissions, working' \subseteq People,
             reviews' \subseteq Review /\ \A q \in reviews' : q.revision <= Len(submissions)
      PROVE  TaskInv'
  <2>0. /\ Len(submissions) <= Len(submissions') /\ Len(submissions') \in Nat
        /\ \A n \in 1 .. Len(submissions) : submissions'[n] = submissions[n]
    BY <1>0, <1>c
  <2>1. requests' \in [Clients -> Request \cup {Idle}] /\ Requested'
    BY <1>c, <2>0, RequestsKept
  <2> QED BY <1>0, <1>c, <2>1 DEF TaskInv, TaskTypes
<1>1. ASSUME NEW p \in People, UpdateTask(p) PROVE TaskInv'
  BY <1>0, <1>1, <1>b, UpdateTypes
<1>2. ASSUME NEW p \in People, SubmitTask(p) PROVE TaskInv'
  BY <1>0, <1>2, <1>a DEF SubmitTask
<1>3. ASSUME NEW p \in People, CompleteTask(p) PROVE TaskInv'
  BY <1>0, <1>3, <1>a DEF CompleteTask
<1>4. ASSUME NEW p \in People, StopSession(p) PROVE TaskInv'
  <2>1. working' = working \ {p} /\ UNCHANGED <<reviews, requests>>
    BY <1>4 DEF StopSession
  <2>2. CASE UNCHANGED <<task, submissions>>
    BY <1>0, <1>b, <2>1, <2>2
  <2>3. CASE task' = Moved("blocked") /\ UNCHANGED submissions
    <3>1. Moved("blocked") \in Task
      BY <1>0, MovedTask DEF Statuses
    <3> QED BY <1>0, <1>b, <2>1, <2>3, <3>1
  <2>4. CASE Submits(p, working \ {p}) \/ Completes(p, working \ {p})
    BY <1>0, <1>a, <2>1, <2>4
  <2> QED BY <1>4, <2>2, <2>3, <2>4 DEF StopSession
<1>5. ASSUME NEW c \in Clients, Start(c) PROVE TaskInv'
  <2>1. requests' = [requests EXCEPT ![c] = Idle] /\ UNCHANGED <<submissions, reviews>>
    BY <1>5 DEF Start, Done
  <2>2. task' \in Task
    BY <1>0, <1>5, MovedTask DEF Start, Statuses
  <2>3. requests[c] \in Request \cup {Idle} /\ requests[c].op = "start"
    BY <1>0, <1>5 DEF Start
  <2>4. requests[c].by \in People
    BY <2>3 DEF Request, Idle
  <2>5. working' \subseteq People
    BY <1>0, <1>5, <2>4 DEF Start
  <2> QED BY <1>0, <1>c, <2>1, <2>2, <2>5, IdleIsNoReview
<1>6. ASSUME NEW c \in Clients, Answer(c) PROVE TaskInv'
  BY <1>0, <1>6, <1>c, IdleIsNoReview DEF Answer, Done
<1>7. ASSUME NEW c \in Clients, NEW p \in People, StartRead(c, p) PROVE TaskInv'
  <2> DEFINE r == [op |-> "start", by |-> p]
  <2>1. r \in Request \cup {Idle} /\ r.op = "start"
    BY DEF Request
  <2>2. requests' = [requests EXCEPT ![c] = r] /\ UNCHANGED <<task, submissions, reviews, working>>
    BY <1>7 DEF StartRead
  <2> HIDE DEF r
  <2> QED BY <1>0, <1>c, <2>1, <2>2
<1>8. ASSUME NEW c \in Clients, NEW p \in People, ReviewRead(c, p) PROVE TaskInv'
  <2>1. PICK d \in Decisions : requests' = [requests EXCEPT ![c] =
          [op |-> "review", by |-> p, revision |-> Len(submissions), decision |-> d]]
    BY <1>8 DEF ReviewRead
  <2>2. /\ submissions # <<>> /\ submissions[Len(submissions)] # p
        /\ UNCHANGED <<task, submissions, reviews, working>>
    BY <1>8 DEF ReviewRead, MayDecide
  <2>3. Len(submissions) \in 1 .. Len(submissions) /\ Len(submissions) \in Revisions
    BY <1>0, <2>2 DEF Revisions
  <2> DEFINE r == [op |-> "review", by |-> p, revision |-> Len(submissions), decision |-> d]
  <2>4. r \in Request \cup {Idle} /\ r.op = "review" /\ r.revision = Len(submissions) /\ r.by = p
    BY <2>3 DEF Request
  <2>5. requests' = [requests EXCEPT ![c] = r]
    BY <2>1
  <2> HIDE DEF r
  <2> QED BY <1>0, <1>c, <2>2, <2>3, <2>4, <2>5
<1>9. ASSUME NEW c \in Clients, ReviewWrite(c) PROVE TaskInv'
  <2> DEFINE q == [revision |-> requests[c].revision, by |-> requests[c].by,
                   decision |-> requests[c].decision]
  <2>1. /\ requests[c].op = "review" /\ reviews' = reviews \cup {q}
        /\ requests' = [requests EXCEPT ![c] = Idle] /\ UNCHANGED <<submissions, working>>
    BY <1>9 DEF ReviewWrite, Done
  <2>2. q \in Review /\ q.revision <= Len(submissions) /\ requests[c].decision \in Decisions
    BY <2>1, ReviewRequest
  <2>3. StatusAfter(requests[c].decision) \in Statuses
    BY DEF StatusAfter, Statuses
  <2>4. task' = task \/ task' = Moved(StatusAfter(requests[c].decision))
    BY <1>9 DEF ReviewWrite
  <2>5. task' \in Task
    BY <1>0, <2>3, <2>4, MovedTask
  <2> HIDE DEF q
  <2>6. reviews' \subseteq Review /\ \A r \in reviews' : r.revision <= Len(submissions)
    BY <1>0, <2>1, <2>2
  <2> QED BY <1>0, <1>c, <2>1, <2>5, <2>6, IdleIsNoReview
<1> QED BY <1>1, <1>2, <1>3, <1>4, <1>5, <1>6, <1>7, <1>8, <1>9 DEF Next, Settling, Other
-----------------------------------------------------------------------------
(* The blocks. *)

\* An ask under way is somebody's.
LEMMA AskFacts ==
  ASSUME NEW p \in People, NEW closes \in SUBSET Blocks
  PROVE  /\ [by |-> p, closes |-> closes] \in Ask
         /\ [by |-> p, closes |-> closes] # NoAsk
         /\ [by |-> p, closes |-> closes].closes = closes
BY ReviewAssumption DEF ReviewAssumption, Ask, NoAsk

\* Closing some blocks opens none and keeps every row a row.
LEMMA ClosedFacts ==
  ASSUME BlockTypes, NEW bs \in SUBSET Blocks, \A b \in bs : blocks[b] \in Block
  PROVE  /\ Closed(bs) \in [Blocks -> Block \cup {Unused}]
         /\ \A b \in Blocks : Closed(bs)[b].status = "open" => IsOpen(b) /\ b \notin bs
<1>1. blocks \in [Blocks -> Block \cup {Unused}]
  BY DEF BlockTypes
<1>2. ASSUME NEW b \in Blocks
      PROVE  /\ Closed(bs)[b] \in Block \cup {Unused}
             /\ Closed(bs)[b].status = "open" => IsOpen(b) /\ b \notin bs
  <2>1. CASE b \in bs
    <3>1. Closed(bs)[b] = [blocks[b] EXCEPT !.status = "closed"]
      BY <1>2, <2>1 DEF Closed
    <3>2. blocks[b] \in Block
      BY <2>1
    <3>3. Closed(bs)[b] \in Block /\ Closed(bs)[b].status = "closed"
      BY <3>1, <3>2 DEF Block
    <3> QED BY <3>3
  <2>2. CASE b \notin bs
    <3>1. Closed(bs)[b] = blocks[b]
      BY <1>2, <2>2 DEF Closed
    <3> QED BY <1>1, <1>2, <2>2, <3>1 DEF IsOpen
  <2> QED BY <2>1, <2>2
<1>3. Closed(bs) = [b \in Blocks |-> Closed(bs)[b]]
  BY DEF Closed
<1> QED BY <1>2, <1>3

\* An open block is a row that was inserted.
LEMMA OpenIsBlock ==
  ASSUME BlockTypes
  PROVE  \A b \in Blocks : blocks[b].status \in {"open", "answered"} => blocks[b] \in Block
BY DEF BlockTypes, Unused

LEMMA UntrueIsOpen ==
  ASSUME NEW t
  PROVE  Untrue(t) \in SUBSET Blocks /\ \A b \in Untrue(t) : IsOpen(b)
BY DEF Untrue

\* While only blocks are closed, the invariant of the blocks stays.
LEMMA ClosingKeeps ==
  ASSUME BlocksInv, UNCHANGED asking,
         blocks' \in [Blocks -> Block \cup {Unused}],
         \A b \in Blocks : blocks'[b].status = "open" => IsOpen(b),
         \A b \in asking.closes : blocks'[b] = blocks[b]
  PROVE  (BlockTypes /\ AskClosesAll /\ OneOpenBlock)'
<1>1. BlockTypes'
  BY DEF BlocksInv, BlockTypes
<1>2. AskClosesAll'
  <2> SUFFICES ASSUME asking # NoAsk
               PROVE  asking.closes = {b \in Blocks : blocks'[b].status = "open"}
    BY DEF AskClosesAll, IsOpen
  <2>1. asking.closes = {b \in Blocks : IsOpen(b)}
    BY DEF BlocksInv, AskClosesAll
  <2> QED BY <2>1 DEF IsOpen
<1>3. OneOpenBlock'
  BY DEF BlocksInv, OneOpenBlock, IsOpen
<1> QED BY <1>1, <1>2, <1>3

\* An answer posted may move the task, and opens nothing.
LEMMA PostKeeps ==
  ASSUME BlocksInv, NEW b \in Blocks, PostAnswer(b)
  PROVE  BlocksInv'
<1>1. blocks[b] \in Block /\ blocks \in [Blocks -> Block \cup {Unused}]
  BY OpenIsBlock DEF PostAnswer, Unposted, BlocksInv, BlockTypes
<1>2. [blocks[b] EXCEPT !.comment = TRUE] \in Block
  BY <1>1 DEF Block
<1>3. blocks' = [blocks EXCEPT ![b] = [blocks[b] EXCEPT !.comment = TRUE]]
  BY DEF PostAnswer
<1>4. blocks' \in [Blocks -> Block \cup {Unused}]
  BY <1>1, <1>2, <1>3
<1>5. ASSUME NEW d \in Blocks, blocks'[d].status = "open" PROVE IsOpen(d)
  <2>1. CASE d = b
    <3>1. blocks'[d] = [blocks[b] EXCEPT !.comment = TRUE]
      BY <1>1, <1>3, <2>1
    <3>2. [blocks[b] EXCEPT !.comment = TRUE].status = blocks[b].status
      BY <1>1 DEF Block
    <3> QED BY <1>5, <2>1, <3>1, <3>2 DEF IsOpen
  <2>2. CASE d # b
    BY <1>1, <1>3, <1>5, <2>2 DEF IsOpen
  <2> QED BY <2>1, <2>2
<1>a. ASSUME NEW d \in asking.closes PROVE blocks'[d] = blocks[d]
  <2>1. asking # NoAsk
    BY DEF NoAsk
  <2>2. d \in Blocks /\ IsOpen(d)
    BY <2>1 DEF BlocksInv, AskClosesAll
  <2>3. d # b
    BY <2>2 DEF PostAnswer, Unposted, IsOpen
  <2> QED BY <1>1, <1>3, <2>2, <2>3
<1>6. UNCHANGED <<asking, submissions, reviews, working, requests>>
  BY DEF PostAnswer
<1>7. task' \in Task
  BY MovedTask DEF PostAnswer, BlocksInv, TaskInv, TaskTypes, Statuses
<1>8. TaskInv'
  BY <1>6, <1>7 DEF BlocksInv, TaskInv, TaskTypes, Requested
<1>9. (BlockTypes /\ AskClosesAll /\ OneOpenBlock)'
  BY <1>4, <1>5, <1>6, <1>a, ClosingKeeps
<1> QED BY <1>8, <1>9 DEF BlocksInv

\* One that lapses is an answer still.
LEMMA LapseKeeps ==
  ASSUME BlocksInv, NEW b \in Blocks, AnswerLapses(b)
  PROVE  BlocksInv'
<1>1. blocks[b] \in Block /\ blocks \in [Blocks -> Block \cup {Unused}]
  BY OpenIsBlock DEF AnswerLapses, Unposted, BlocksInv, BlockTypes
<1> DEFINE row == [blocks[b] EXCEPT !.lapsed = TRUE]
<1>2. row \in Block /\ row.status = blocks[b].status /\ blocks[b].status = "answered"
  BY <1>1 DEF Block, AnswerLapses, Unposted
<1>3. blocks' = [blocks EXCEPT ![b] = row] /\ UNCHANGED <<asking, taskVars>>
  BY DEF AnswerLapses
<1> HIDE DEF row
<1>4. /\ blocks' \in [Blocks -> Block \cup {Unused}]
      /\ \A d \in Blocks : blocks'[d].status = "open" => IsOpen(d)
  BY <1>1, <1>2, <1>3 DEF IsOpen
<1>5. ASSUME NEW d \in asking.closes PROVE blocks'[d] = blocks[d]
  <2>1. asking # NoAsk
    BY DEF NoAsk
  <2>2. d \in Blocks /\ IsOpen(d)
    BY <2>1 DEF BlocksInv, AskClosesAll
  <2> QED BY <1>1, <1>2, <1>3, <2>2 DEF IsOpen
<1>6. TaskInv'
  BY <1>3 DEF BlocksInv, taskVars, TaskInv, TaskTypes, Requested
<1> QED BY <1>3, <1>4, <1>5, <1>6, ClosingKeeps DEF BlocksInv

\* Closing open blocks that no ask has locked keeps the invariant of the blocks.
LEMMA ClosedKeeps ==
  ASSUME BlocksInv, NEW bs \in SUBSET Blocks, \A b \in bs : IsOpen(b), Free(bs),
         blocks' = Closed(bs), UNCHANGED asking
  PROVE  (BlockTypes /\ AskClosesAll /\ OneOpenBlock)'
<1>1. \A b \in bs : blocks[b] \in Block
  BY OpenIsBlock DEF IsOpen, BlocksInv
<1>2. /\ blocks' \in [Blocks -> Block \cup {Unused}]
      /\ \A b \in Blocks : blocks'[b].status = "open" => IsOpen(b)
  BY <1>1, ClosedFacts DEF BlocksInv
<1>3. asking.closes \subseteq Blocks
  BY DEF BlocksInv, BlockTypes, Ask, NoAsk
<1>4. \A b \in asking.closes : blocks'[b] = blocks[b]
  BY <1>3 DEF Free, Closed
<1> QED BY <1>2, <1>4, ClosingKeeps

\* What is committed of an ask: its block is the only open one.
LEMMA CommitKeeps ==
  ASSUME BlocksInv, NEW b \in Blocks, AskCommit(b)
  PROVE  BlocksInv'
<1> DEFINE row  == [by |-> asking.by, unblock |-> FALSE, comment |-> FALSE, lapsed |-> FALSE,
                    status |-> "open"]
           rest == Closed(asking.closes)
<1>1. /\ asking # NoAsk /\ blocks[b] = Unused /\ asking' = NoAsk
      /\ blocks' = [rest EXCEPT ![b] = row] /\ UNCHANGED taskVars
  BY DEF AskCommit
<1>2. asking.by \in People /\ asking.closes \in SUBSET Blocks
  BY <1>1 DEF BlocksInv, BlockTypes, Ask
<1>3. asking.closes = {d \in Blocks : IsOpen(d)}
  BY <1>1 DEF BlocksInv, AskClosesAll
<1>4. \A d \in asking.closes : blocks[d] \in Block
  BY <1>3, OpenIsBlock DEF IsOpen, BlocksInv
<1>5. /\ rest \in [Blocks -> Block \cup {Unused}]
      /\ \A d \in Blocks : rest[d].status # "open"
  <2>1. /\ rest \in [Blocks -> Block \cup {Unused}]
        /\ \A d \in Blocks : rest[d].status = "open" => IsOpen(d) /\ d \notin asking.closes
    BY <1>2, <1>4, ClosedFacts DEF BlocksInv
  <2> QED BY <1>3, <2>1
<1>6. row \in Block
  BY <1>2 DEF Block
<1> HIDE DEF row, rest
<1>7. /\ blocks' \in [Blocks -> Block \cup {Unused}]
      /\ \A d \in Blocks : blocks'[d].status = "open" => d = b
  BY <1>1, <1>5, <1>6
<1>8. BlockTypes' /\ AskClosesAll'
  BY <1>1, <1>7 DEF BlockTypes, AskClosesAll
<1>9. OneOpenBlock'
  BY <1>7 DEF OneOpenBlock, IsOpen
<1>10. TaskInv'
  BY <1>1 DEF BlocksInv, taskVars, TaskInv, TaskTypes, Requested
<1> QED BY <1>8, <1>9, <1>10 DEF BlocksInv

\* One block answered while no ask holds it.
LEMMA AnswerKeeps ==
  ASSUME BlocksInv, NEW b \in Blocks, AnswerBlock(b)
  PROVE  BlocksInv'
<1>1. PICK unblock \in BOOLEAN :
        blocks' = [blocks EXCEPT ![b].status = "answered", ![b].unblock = unblock]
  BY DEF AnswerBlock
<1>2. /\ IsOpen(b) /\ Free({b}) /\ UNCHANGED <<asking, taskVars>>
      /\ blocks \in [Blocks -> Block \cup {Unused}]
  BY DEF AnswerBlock, BlocksInv, BlockTypes
<1>3. blocks[b] \in Block
  BY <1>2, OpenIsBlock DEF IsOpen, BlocksInv
<1> DEFINE row == [[blocks[b] EXCEPT !.status = "answered"] EXCEPT !.unblock = unblock]
<1>4. row \in Block /\ row.status = "answered"
  BY <1>3 DEF Block
<1>5. blocks' = [blocks EXCEPT ![b] = row]
  BY <1>1, <1>2
<1> HIDE DEF row
<1>6. /\ blocks' \in [Blocks -> Block \cup {Unused}]
      /\ \A d \in Blocks : blocks'[d].status = "open" => IsOpen(d)
  BY <1>2, <1>4, <1>5 DEF IsOpen
<1>7. asking.closes \subseteq Blocks
  BY DEF BlocksInv, BlockTypes, Ask, NoAsk
<1>8. \A d \in asking.closes : blocks'[d] = blocks[d]
  BY <1>2, <1>5, <1>7 DEF Free
<1>9. TaskInv'
  BY <1>2 DEF BlocksInv, taskVars, TaskInv, TaskTypes, Requested
<1> QED BY <1>2, <1>6, <1>8, <1>9, ClosingKeeps DEF BlocksInv

LEMMA BlocksStep ==
  ASSUME BlocksInv, BlocksNext
  PROVE  BlocksInv'
<1>0. TaskInv /\ BlockTypes /\ AskClosesAll /\ OneOpenBlock
  BY DEF BlocksInv
<1>s. UNCHANGED taskVars => TaskInv'
  BY <1>0 DEF taskVars, TaskInv, TaskTypes, Requested
<1>u. UNCHANGED <<blocks, asking>> => (BlockTypes /\ AskClosesAll /\ OneOpenBlock)'
  BY <1>0 DEF BlockTypes, AskClosesAll, OneOpenBlock, IsOpen
<1>1. ASSUME TaskSettles PROVE BlocksInv'
  <2>1. TaskInv'
    BY <1>0, <1>1, TaskStep DEF TaskSettles, Next
  <2>2. CASE UNCHANGED blocks
    BY <1>1, <1>u, <2>1, <2>2 DEF TaskSettles, BlocksInv
  <2>3. CASE Free(Untrue(task')) /\ blocks' = Closed(Untrue(task'))
    BY <1>1, <2>1, <2>3, UntrueIsOpen, ClosedKeeps DEF TaskSettles, BlocksInv
  <2> QED BY <1>1, <2>2, <2>3 DEF TaskSettles
<1>2. ASSUME TaskOther PROVE BlocksInv'
  BY <1>0, <1>2, <1>u, TaskStep DEF TaskOther, Next, BlocksInv
<1>3. ASSUME AskFails PROVE BlocksInv'
  BY <1>0, <1>3, <1>s
  DEF AskFails, BlocksInv, BlockTypes, AskClosesAll, OneOpenBlock, IsOpen
<1>4. ASSUME SettleBlocks PROVE BlocksInv'
  BY <1>4, <1>s, UntrueIsOpen, ClosedKeeps DEF SettleBlocks, BlocksInv
<1>5. ASSUME NEW p \in People, AskInsert(p) PROVE BlocksInv'
  <2>1. /\ Waits(p, task) /\ asking' = [by |-> p, closes |-> Closes(p)]
        /\ UNCHANGED <<blocks, taskVars>>
    BY <1>5 DEF AskInsert
  <2>2. Closes(p) = {b \in Blocks : IsOpen(b)}
    BY <2>1 DEF Closes, Untrue, Waits
  <2>3. asking' \in Ask /\ asking'.closes = Closes(p)
    BY <2>1, <2>2, AskFacts
  <2>4. AskClosesAll'
    BY <2>1, <2>2, <2>3 DEF AskClosesAll, IsOpen
  <2> QED BY <1>0, <1>s, <2>1, <2>3, <2>4 DEF BlocksInv, BlockTypes, OneOpenBlock, IsOpen
<1>6. ASSUME NEW b \in Blocks, CancelBlock(b) \/ NotMeBlock(b) PROVE BlocksInv'
  <2>1. IsOpen(b) /\ Free({b}) /\ blocks' = Closed({b}) /\ UNCHANGED <<asking, taskVars>>
    BY <1>6 DEF CancelBlock, NotMeBlock
  <2> QED BY <1>s, <2>1, ClosedKeeps DEF BlocksInv
<1> QED
  BY <1>1, <1>2, <1>3, <1>4, <1>5, <1>6, CommitKeeps, AnswerKeeps, PostKeeps, LapseKeeps DEF BlocksNext

LEMMA BlocksBegin ==
  ASSUME BlocksInit
  PROVE  BlocksInv
<1>1. Init /\ blocks = [b \in Blocks |-> Unused] /\ asking = NoAsk
  BY DEF BlocksInit
<1>2. PICK p \in Holders, r \in Reviewers \cup {Nobody} :
        task = [status |-> "todo", archived |-> FALSE, assignee |-> p, reviewer |-> r]
  BY <1>1 DEF Init
<1>3. task \in Task
  BY <1>2, ReviewAssumption DEF ReviewAssumption, Task, Statuses
<1>4. /\ submissions = <<>> /\ reviews = {} /\ working = {}
      /\ requests = [c \in Clients |-> Idle]
  BY <1>1 DEF Init
<1>5. submissions \in Seq(People) /\ Len(submissions) <= MaxRevision
  BY <1>4, ReviewAssumption DEF ReviewAssumption
<1>6. TaskInv
  BY <1>3, <1>4, <1>5 DEF TaskInv, TaskTypes, Requested, Idle
<1>7. BlockTypes /\ AskClosesAll /\ OneOpenBlock
  BY <1>1 DEF BlockTypes, AskClosesAll, OneOpenBlock, IsOpen, Unused
<1> QED BY <1>6, <1>7 DEF BlocksInv

LEMMA BlocksStutter ==
  ASSUME BlocksInv, UNCHANGED vars
  PROVE  BlocksInv'
BY DEF vars, taskVars, BlocksInv, TaskInv, TaskTypes, Requested, BlockTypes, AskClosesAll,
       OneOpenBlock, IsOpen

LEMMA Invariance == BlocksSpec => []BlocksInv
<1>1. BlocksInv /\ [BlocksNext]_vars => BlocksInv'
  BY BlocksStep, BlocksStutter
<1> QED BY <1>1, BlocksBegin, PTL DEF BlocksSpec
-----------------------------------------------------------------------------
(* The theorems. *)

\* The rows of a task, its reviews, its blocks and the requests on their way are
\* of their types, and no review is of a revision nobody submitted.
THEOREM TypeCorrect == BlocksSpec => []TypeOK
<1>1. BlocksInv => TypeOK
  BY DEF BlocksInv, TaskInv, TaskTypes, BlockTypes, TypeOK
<1> QED BY <1>1, Invariance, PTL

\* A task waits on one person at a time: whoever asks clears all that is open,
\* and holds it until the ask is committed (setBlock).
THEOREM OneOpenBlockAlways == BlocksSpec => []OneOpenBlock
<1>1. BlocksInv => OneOpenBlock
  BY DEF BlocksInv
<1> QED BY <1>1, Invariance, PTL

\* Who completes a task without a decision is somebody nobody else checks.
LEMMA NobodyElse ==
  ASSUME TaskInv, NEW p \in People, Checker(p) = Nobody
  PROVE  NobodyElseChecks(p)
BY ReviewAssumption DEF ReviewAssumption, TaskInv, TaskTypes, Task, Checker, NobodyElseChecks

\* A task is completed by the approval of another's submission, or by somebody
\* whom nobody else checks.
LEMMA CompletingStep ==
  ASSUME TaskInv, BlocksNext, task.status # "completed", task'.status = "completed"
  PROVE  \/ \E c \in Clients :
              /\ requests[c].op = "review" /\ requests'[c] = Idle
              /\ requests[c].decision = "approved"
              /\ submissions[requests[c].revision] # requests[c].by
         \/ \E p \in {task.assignee} \cup working : NobodyElseChecks(p)
<1> DEFINE Goal == \/ \E c \in Clients :
                        /\ requests[c].op = "review" /\ requests'[c] = Idle
                        /\ requests[c].decision = "approved"
                        /\ submissions[requests[c].revision] # requests[c].by
                   \/ \E p \in {task.assignee} \cup working : NobodyElseChecks(p)
<1>0. /\ task \in Task /\ task.assignee \in People /\ working \subseteq People
      /\ requests \in [Clients -> Request \cup {Idle}]
  BY DEF TaskInv, TaskTypes, Task
<1>m. \A s \in Statuses : Moved(s).status = s
  BY <1>0, MovedTask
<1>1. ASSUME NEW p \in People, UpdateTask(p) \/ SubmitTask(p) PROVE FALSE
  <2>1. CASE UpdateTask(p)
    BY <2>1, UpdateTypes
  <2>2. CASE SubmitTask(p)
    BY <1>0, <2>2, SubmitsTypes DEF SubmitTask
  <2> QED BY <1>1, <2>1, <2>2
<1>2. ASSUME NEW p \in People, CompleteTask(p) PROVE Goal
  BY <1>2, NobodyElse DEF CompleteTask
<1>3. ASSUME NEW p \in People, StopSession(p) PROVE Goal
  <2>1. p \in working
    BY <1>3 DEF StopSession
  <2>2. CASE Submits(p, working \ {p})
    BY <1>0, <2>2, SubmitsTypes
  <2>3. CASE Checker(p) = Nobody
    BY <2>1, <2>3, NobodyElse
  <2>4. task' # task /\ task' # Moved("blocked")
    BY <1>m DEF Statuses
  <2> QED BY <1>3, <2>2, <2>3, <2>4 DEF StopSession
<1>4. ASSUME NEW c \in Clients, Start(c) PROVE FALSE
  BY <1>4, <1>m DEF Start, Statuses
<1>5. ASSUME NEW c \in Clients, ReviewWrite(c) PROVE Goal
  <2>1. requests[c].op = "review" /\ requests' = [requests EXCEPT ![c] = Idle]
    BY <1>5 DEF ReviewWrite, Done
  <2>2. requests'[c] = Idle
    BY <1>0, <2>1
  <2>3. submissions[requests[c].revision] # requests[c].by
    BY <2>1 DEF TaskInv, Requested
  <2>4. task' = Moved(StatusAfter(requests[c].decision))
    BY <1>5 DEF ReviewWrite
  <2>5. requests[c].decision = "approved"
    BY <1>m, <2>4 DEF StatusAfter, Statuses
  <2> QED BY <2>1, <2>2, <2>3, <2>5
<1>6. ASSUME NEW b \in Blocks, PostAnswer(b) PROVE FALSE
  BY <1>6, <1>m DEF PostAnswer, Statuses
<1>7. CASE UNCHANGED task
  BY <1>7
<1> HIDE DEF Goal
<1>8. Goal
  <2>1. CASE TaskSettles
    BY <1>1, <1>2, <1>3, <1>4, <2>1 DEF TaskSettles, Settling
  <2>2. CASE TaskOther
    BY <1>5, <1>7, <2>2 DEF TaskOther, Other, Answer, StartRead, ReviewRead
  <2> QED BY <1>6, <1>7, <2>1, <2>2
          DEF BlocksNext, AskFails, SettleBlocks, AskInsert, AskCommit, CancelBlock,
              AnswerBlock, NotMeBlock, AnswerLapses, taskVars
<1> QED BY <1>8 DEF Goal

\* Nobody approves their own work, and nobody completes work somebody else is to
\* check, however assignee, reviewer and status change while a decision or a
\* start is on its way (reviewSubmission, completeTask, stopInternal).
THEOREM CompletedByAnother == BlocksSpec => CheckedByAnother
<1> DEFINE Checked ==
      task.status # "completed" /\ task'.status = "completed" =>
        \/ \E c \in Clients :
             /\ requests[c].op = "review" /\ requests'[c] = Idle
             /\ requests[c].decision = "approved"
             /\ submissions[requests[c].revision] # requests[c].by
        \/ \E p \in {task.assignee} \cup working : NobodyElseChecks(p)
<1>1. BlocksInv /\ BlocksNext => Checked
  BY CompletingStep DEF BlocksInv
<1>2. UNCHANGED vars => UNCHANGED taskVars
  BY DEF vars, taskVars
<1>3. BlocksInv /\ [BlocksNext]_vars => [Checked]_taskVars
  BY <1>1, <1>2
<1>4. BlocksSpec => [][Checked]_taskVars
  BY <1>3, Invariance, PTL DEF BlocksSpec
<1> QED BY <1>4 DEF CheckedByAnother

\* A step leaves the status of what it does not find open.
LEMMA ClosedStays ==
  ASSUME BlocksInv, BlocksNext, NEW b \in Blocks, blocks[b].status \in {"answered", "closed"}
  PROVE  blocks'[b].status = blocks[b].status
<1>1. ~IsOpen(b) /\ blocks \in [Blocks -> Block \cup {Unused}]
  BY DEF IsOpen, BlocksInv, BlockTypes
<1>2. ASSUME NEW bs \in SUBSET Blocks, \A d \in bs : IsOpen(d) PROVE Closed(bs)[b] = blocks[b]
  BY <1>1, <1>2 DEF Closed
<1>3. CASE UNCHANGED blocks
  BY <1>3
<1>4. CASE TaskSettles
  BY <1>2, <1>4, UntrueIsOpen DEF TaskSettles
<1>5. CASE SettleBlocks
  BY <1>2, <1>5, UntrueIsOpen DEF SettleBlocks
<1>6. ASSUME NEW d \in Blocks, AskCommit(d) PROVE blocks'[b].status = blocks[b].status
  <2>1. asking # NoAsk /\ blocks[d] = Unused
    BY <1>6 DEF AskCommit
  <2>2. asking.closes \in SUBSET Blocks /\ \A c \in asking.closes : IsOpen(c)
    BY <2>1 DEF BlocksInv, AskClosesAll
  <2>3. d # b
    BY <2>1 DEF Unused
  <2>4. blocks'[b] = Closed(asking.closes)[b]
    BY <1>6, <2>3 DEF AskCommit, Closed
  <2> QED BY <1>2, <2>2, <2>4
<1>7. ASSUME NEW d \in Blocks, CancelBlock(d) \/ NotMeBlock(d)
      PROVE  blocks'[b].status = blocks[b].status
  BY <1>2, <1>7 DEF CancelBlock, NotMeBlock
<1>8. ASSUME NEW d \in Blocks, AnswerBlock(d) PROVE blocks'[b].status = blocks[b].status
  <2>1. d # b
    BY <1>1, <1>8 DEF AnswerBlock
  <2>2. blocks'[b] = blocks[b]
    BY <1>1, <1>8, <2>1 DEF AnswerBlock
  <2> QED BY <2>2
<1>9. ASSUME NEW d \in Blocks, PostAnswer(d) \/ AnswerLapses(d)
      PROVE  blocks'[b].status = blocks[b].status
  <2>1. /\ blocks[d].status = "answered" /\ blocks[d] \in Block
        /\ \/ blocks' = [blocks EXCEPT ![d] = [blocks[d] EXCEPT !.comment = TRUE]]
           \/ blocks' = [blocks EXCEPT ![d] = [blocks[d] EXCEPT !.lapsed = TRUE]]
    BY <1>9, OpenIsBlock DEF PostAnswer, AnswerLapses, Unposted, BlocksInv
  <2>2. /\ [blocks[d] EXCEPT !.comment = TRUE].status = blocks[d].status
        /\ [blocks[d] EXCEPT !.lapsed = TRUE].status = blocks[d].status
    BY <2>1 DEF Block
  <2>3. CASE d = b
    BY <1>1, <2>1, <2>2, <2>3
  <2>4. CASE d # b
    BY <1>1, <2>1, <2>4
  <2> QED BY <2>3, <2>4
<1> QED
  BY <1>3, <1>4, <1>5, <1>6, <1>7, <1>8, <1>9
  DEF BlocksNext, TaskOther, AskFails, AskInsert

\* A question is answered or withdrawn once: an ask holds what it withdraws, and
\* finds it open still when it commits (setBlock, app_task_block_answer,
\* app_task_block_cancel, app_task_block_settle).
THEOREM ClosedOnceAlways == BlocksSpec => ClosedOnce
<1> DEFINE Stays == \A b \in Blocks :
      blocks[b].status \in {"answered", "closed"} => blocks'[b].status = blocks[b].status
<1>1. BlocksInv /\ BlocksNext => Stays
  BY ClosedStays
<1>2. BlocksInv /\ [BlocksNext]_vars => [Stays]_vars
  BY <1>1
<1>3. BlocksSpec => [][Stays]_vars
  BY <1>2, Invariance, PTL DEF BlocksSpec
<1> QED BY <1>3 DEF ClosedOnce
=============================================================================
