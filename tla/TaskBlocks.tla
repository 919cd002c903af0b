----------------------------- MODULE TaskBlocks -----------------------------
(***************************************************************************)
(* "Waiting on a colleague": the holder of a blocked task names somebody   *)
(* and a question (src/server/services/task-blocks.ts over the task_blocks *)
(* table and its functions, db/migrations/0048_loops_closed.sql), composed *)
(* with everything that happens to the task meanwhile (TaskReview).        *)
(*                                                                         *)
(* A handler that takes the task out of Blocked, archives it or hands it   *)
(* on clears the open block in its own transaction (app_task_block_settle),*)
(* but sees only committed rows.  An ask is inserted under the policy      *)
(* task_blocks_insert and committed later: in between the task may change. *)
(* An answer is kept in one transaction and posted in another, by the same *)
(* request or, when that one died, by the worker within a day and while    *)
(* the answerer is a member: an answer may stay unposted.                  *)
(***************************************************************************)
EXTENDS TaskReview

CONSTANT Blocks     \* identities of task_blocks rows

VARIABLES
  blocks,     \* task_blocks
  asking      \* the ask inserted and not yet committed

vars == <<task, submissions, reviews, working, requests, blocks, asking>>
-----------------------------------------------------------------------------
\* Whom the holder waits on makes no difference to the task and is left out.
\* comment: the answer has its comment on the task (comment_id).
\* lapsed: it is a day old, or its answerer was offboarded.
\* "closed" is cleared, cancelled or not_me.
Block ==
  [by : People, unblock : BOOLEAN, comment : BOOLEAN, lapsed : BOOLEAN,
   status : {"open", "answered", "closed"}]
Unused == [status |-> "none"]

Ask   == [by : People, closes : SUBSET Blocks]
NoAsk == [by |-> Nobody, closes |-> {}]

IsOpen(b) == blocks[b].status = "open"

\* What the policy demands of a new block and what keeps an old one true.
Waits(p, t) == t.status = "blocked" /\ ~t.archived /\ t.assignee = p

\* Faulty: nobody waits for the rows another has locked.
FreeAlways(bs) == TRUE

\* The rows of an ask under way are locked: whoever would write one waits.
Free(bs) == bs \cap asking.closes = {}

Closed(bs) ==
  [b \in Blocks |-> IF b \in bs THEN [blocks[b] EXCEPT !.status = "closed"] ELSE blocks[b]]

\* Faulty: an archived task is overlooked.
UntrueByStatus(t) ==
  {b \in Blocks : IsOpen(b) /\ (t.status # "blocked" \/ t.assignee # blocks[b].by)}

\* The open blocks that are not true of the task any more, app_task_block_settle.
Untrue(t) == {b \in Blocks : IsOpen(b) /\ ~Waits(blocks[b].by, t)}

BlocksInit ==
  /\ Init
  /\ blocks = [b \in Blocks |-> Unused]
  /\ asking = NoAsk
-----------------------------------------------------------------------------
(* The task. *)

\* A handler settles when the task leaves Blocked, is archived or changes hands.
Leaves ==
  \/ task.status = "blocked" /\ task'.status # "blocked"
  \/ ~task.archived /\ task'.archived
  \/ task'.assignee # task.assignee

TaskSettles ==
  /\ Settling
  /\ \/ ~Leaves /\ UNCHANGED blocks
     \/ Leaves /\ Free(Untrue(task')) /\ blocks' = Closed(Untrue(task'))
  /\ UNCHANGED asking

\* A decision settles nothing, whatever the task had become by then.
TaskOther == Other /\ UNCHANGED <<blocks, asking>>
-----------------------------------------------------------------------------
(* The holder. *)

\* Faulty: only the holder's own block is withdrawn.
ClosesOwn(p) == {b \in Blocks : IsOpen(b) /\ blocks[b].by = p}

\* What an ask closes: what is untrue by now, and the holder's own open block.
Closes(p) == Untrue(task) \cup {b \in Blocks : IsOpen(b) /\ blocks[b].by = p}

\* setBlock up to its INSERT, one at a time per task (the advisory lock).
AskInsert(p) ==
  /\ asking = NoAsk
  /\ Waits(p, task)
  /\ asking' = [by |-> p, closes |-> Closes(p)]
  /\ UNCHANGED <<blocks, taskVars>>

\* setBlock commits.
AskCommit(b) ==
  /\ asking # NoAsk
  /\ blocks[b] = Unused
  /\ blocks' = [Closed(asking.closes) EXCEPT ![b] =
       [by |-> asking.by, unblock |-> FALSE, comment |-> FALSE, lapsed |-> FALSE, status |-> "open"]]
  /\ asking' = NoAsk
  /\ UNCHANGED taskVars

\* It does not: a failure, or the victim of the deadlock with an update that
\* holds the task and wants to settle.
AskFails ==
  /\ asking # NoAsk
  /\ asking' = NoAsk
  /\ UNCHANGED <<blocks, taskVars>>

\* cancelBlock.
CancelBlock(b) ==
  /\ IsOpen(b) /\ Free({b})
  /\ blocks' = Closed({b})
  /\ UNCHANGED <<asking, taskVars>>
-----------------------------------------------------------------------------
(* The person waited on. *)

\* answerBlock, its first transaction.
AnswerBlock(b) ==
  /\ IsOpen(b) /\ Free({b})
  /\ \E unblock \in BOOLEAN :
       blocks' = [blocks EXCEPT ![b].status = "answered", ![b].unblock = unblock]
  /\ UNCHANGED <<asking, taskVars>>

\* notMeBlock.
NotMeBlock(b) ==
  /\ IsOpen(b) /\ Free({b})
  /\ blocks' = Closed({b})
  /\ UNCHANGED <<asking, taskVars>>

Unposted(b) == blocks[b].status = "answered" /\ ~blocks[b].comment /\ ~blocks[b].lapsed

\* postAnswer, by the request or by the worker (finishAnswers): the comment, as
\* the answerer, and, when it unblocks a task that still waits, the move.  It
\* settles nothing.
PostAnswer(b) ==
  /\ Unposted(b)
  /\ blocks' = [blocks EXCEPT ![b].comment = TRUE]
  /\ IF blocks[b].unblock /\ Waits(blocks[b].by, task)
     THEN task' = Moved("in_progress")
     ELSE UNCHANGED task
  /\ UNCHANGED <<asking, submissions, reviews, working, requests>>

\* The worker looks at the answers of the last day, and the policy of the comments
\* wants an active member: past either, the answer is never posted.
AnswerLapses(b) ==
  /\ Unposted(b)
  /\ blocks' = [blocks EXCEPT ![b].lapsed = TRUE]
  /\ UNCHANGED <<asking, taskVars>>
-----------------------------------------------------------------------------
\* settleBlocks, in the worker.
SettleBlocks ==
  /\ Untrue(task) # {}
  /\ Free(Untrue(task))
  /\ blocks' = Closed(Untrue(task))
  /\ UNCHANGED <<asking, taskVars>>

BlocksNext ==
  \/ TaskSettles \/ TaskOther
  \/ AskFails \/ SettleBlocks
  \/ \E p \in People : AskInsert(p)
  \/ \E b \in Blocks : \/ AskCommit(b) \/ CancelBlock(b)
                       \/ AnswerBlock(b) \/ NotMeBlock(b)
                       \/ PostAnswer(b) \/ AnswerLapses(b)

BlocksSpec == BlocksInit /\ [][BlocksNext]_vars

\* A transaction ends, and the worker sweeps again and again
\* (commitments.sweep); for a row that is locked it waits in the row's queue,
\* so that an ask after another does not keep it out for ever (SF).  Nothing is
\* assumed of anybody else.
Fairness ==
  /\ WF_vars(AskFails \/ \E b \in Blocks : AskCommit(b))
  /\ SF_vars(SettleBlocks)

FairSpec == BlocksSpec /\ Fairness
-----------------------------------------------------------------------------
(* Properties. *)

\* Every variable holds what its table or message can hold.
TypeOK ==
  /\ task \in Task
  /\ submissions \in Seq(People) /\ Len(submissions) <= MaxRevision
  /\ reviews \subseteq Review /\ \A r \in reviews : r.revision <= Len(submissions)
  /\ working \subseteq People
  /\ requests \in [Clients -> Request \cup {Idle}]
  /\ blocks \in [Blocks -> Block \cup {Unused}]
  /\ asking \in Ask \cup {NoAsk}

\* A task waits on one person at a time: the unique index task_blocks_one_open_idx
\* never turns an ask away, although blocks of earlier holders may be open when
\* it begins and the task changes under it.
OneOpenBlock ==
  \A b, c \in Blocks : IsOpen(b) /\ IsOpen(c) => b = c

\* A block that is no longer true of its task does not stay open: what the
\* handlers miss (an ask committed after the change, a late decision, a late
\* answer to an older block) the worker's sweep clears.
UntrueBlocksAreCleared ==
  \A b \in Blocks :
    (IsOpen(b) /\ ~Waits(blocks[b].by, task)) ~> (IsOpen(b) => Waits(blocks[b].by, task))

\* A question is closed once, by whoever comes first: an ask that has chosen what
\* it withdraws never withdraws an answer given meanwhile, nor does a change of
\* the task, the sweep, a "not me" or an answer undo what another closed, so that
\* the row's guard (task_blocks_guard) has nothing to refuse.
ClosedOnce ==
  [][\A b \in Blocks :
       blocks[b].status \in {"answered", "closed"} => blocks'[b].status = blocks[b].status]_vars
=============================================================================
