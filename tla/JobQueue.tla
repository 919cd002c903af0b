------------------------------ MODULE JobQueue ------------------------------
(***************************************************************************)
(* The durable job queue: the jobs table, and the worker processes that    *)
(* claim, run and report its jobs (worker/index.ts, claimKilledJobs of     *)
(* worker/schedule.ts, enqueueJob of src/server/services/common.ts).       *)
(*                                                                         *)
(* Claiming, running and reporting are three transactions, or none: a      *)
(* worker may be killed between any two, the database may be away when it  *)
(* reports, a handler may outlast the lock, and a worker deployed earlier  *)
(* may not know a job's type.  No UPDATE names the worker that holds the   *)
(* lock.  A job's times are kept as what they decide: whether it is due    *)
(* (next_run_at <= now) and whether its lock is past 15 minutes.           *)
(***************************************************************************)
EXTENDS Integers, FiniteSets

CONSTANTS
  Jobs,         \* identities of jobs rows, one per dedup_key
  Workers,      \* worker processes
  Knows,        \* the jobs each worker has a handler for
  MaxAttempts,  \* max_attempts of every job
  MaxCrashes,   \* bound: workers killed, or left without the database
  MaxSlow       \* bound: locks that expire while their worker still runs the job

ASSUME QueueAssumption ==
  /\ Knows \in [Workers -> SUBSET Jobs]
  /\ MaxAttempts \in Nat \ {0} /\ MaxCrashes \in Nat /\ MaxSlow \in Nat

VARIABLES
  jobs,       \* the table
  held,       \* the claims each worker has in memory
  report,     \* what the job a worker has just run came to, not yet written
  crashes,    \* how many crashes there have been, up to MaxCrashes
  slow,       \* how many locks expired under a live worker, up to MaxSlow
  requeued,   \* history: how often each job was taken back from a stale lock
  unreported, \* history: successes whose transaction threw
  effects,    \* history: how often each job's handler ran to completion
  revived     \* history: the jobs taken over from an older worker that killed them

env  == <<crashes, slow>>
past == <<requeued, unreported, effects, revived>>
vars == <<jobs, held, report, crashes, slow, requeued, unreported, effects, revived>>
-----------------------------------------------------------------------------
States == {"absent", "pending", "running", "succeeded", "dead"}
Job    == [state : States, attempts : Nat, due : BOOLEAN, expired : BOOLEAN,
           error : {"none", "failed", "no handler"}]
Claim  == [job : Jobs, attempts : Nat]      \* ClaimedJob: attempts as of the claim
Report == [claim : Claim, result : {"ok", "failed", "no handler"}]
Nothing == [result |-> "nothing"]

Holders(j) == {w \in Workers : \E k \in held[w] : k.job = j}

Init ==
  /\ jobs = [j \in Jobs |-> [state |-> "absent", attempts |-> 0, due |-> FALSE,
                             expired |-> FALSE, error |-> "none"]]
  /\ held = [w \in Workers |-> {}]
  /\ report = [w \in Workers |-> Nothing]
  /\ crashes = 0 /\ slow = 0
  /\ requeued = [j \in Jobs |-> 0]
  /\ unreported = [j \in Jobs |-> 0]
  /\ effects = [j \in Jobs |-> 0]
  /\ revived = {}

\* enqueueJob: ON CONFLICT (dedup_key) DO NOTHING.
Enqueue(j) ==
  /\ jobs[j].state = "absent"
  /\ jobs' = [jobs EXCEPT ![j].state = "pending", ![j].due = TRUE]
  /\ UNCHANGED <<held, report, env, past>>

\* The backoff of a failed job runs out.
BecomeDue(j) ==
  /\ jobs[j].state = "pending" /\ ~jobs[j].due
  /\ jobs' = [jobs EXCEPT ![j].due = TRUE]
  /\ UNCHANGED <<held, report, env, past>>

\* locked_at is 15 minutes ago, with or without a worker still on the job.
Expire(j) ==
  /\ jobs[j].state = "running" /\ ~jobs[j].expired
  /\ IF Holders(j) = {} THEN UNCHANGED slow
     ELSE slow < MaxSlow /\ slow' = slow + 1
  /\ jobs' = [jobs EXCEPT ![j].expired = TRUE]
  /\ UNCHANGED <<held, report, crashes, past>>
-----------------------------------------------------------------------------
\* A worker is between two jobs: it polls and, every 15 seconds, maintains.
Polling(w) == held[w] = {} /\ report[w] = Nothing

Locked(job) == [job EXCEPT !.state = "running", !.attempts = @ + 1, !.expired = FALSE]

\* Faulty: any job that is due, whatever its state.
ClaimAnyDue(w) ==
  /\ Polling(w)
  /\ \E j \in Jobs :
       /\ jobs[j].due
       /\ jobs' = [jobs EXCEPT ![j] = Locked(@)]
       /\ held' = [held EXCEPT ![w] = {[job |-> j, attempts |-> jobs[j].attempts + 1]}]
  /\ UNCHANGED <<report, env, past>>

\* runOne: FOR UPDATE SKIP LOCKED LIMIT 1 takes any due job nobody is taking.
ClaimOne(w) ==
  /\ Polling(w)
  /\ \E j \in Jobs :
       /\ jobs[j].state = "pending" /\ jobs[j].due
       /\ jobs' = [jobs EXCEPT ![j] = Locked(@)]
       /\ held' = [held EXCEPT ![w] = {[job |-> j, attempts |-> jobs[j].attempts + 1]}]
  /\ UNCHANGED <<report, env, past>>

\* The dead jobs an older worker killed that this one knows.
Revivable(w) ==
  {j \in Knows[w] : /\ jobs[j].state = "dead" /\ jobs[j].error = "no handler"
                    /\ jobs[j].attempts < MaxAttempts}

\* claimKilledJobs: all of them at once, straight to running, to be run one
\* after the other.
ClaimKilled(w) ==
  /\ Polling(w)
  /\ Revivable(w) # {}
  /\ jobs' = [j \in Jobs |-> IF j \in Revivable(w)
                             THEN [Locked(jobs[j]) EXCEPT !.error = "none", !.due = TRUE]
                             ELSE jobs[j]]
  /\ held' = [held EXCEPT ![w] = {[job |-> j, attempts |-> jobs[j].attempts + 1] : j \in Revivable(w)}]
  /\ revived' = revived \cup Revivable(w)
  /\ UNCHANGED <<report, env, requeued, unreported, effects>>

\* Faulty: a job in its last attempt is not taken back.
StaleWithAttempts ==
  {j \in Jobs : jobs[j].state = "running" /\ jobs[j].expired /\ jobs[j].attempts < MaxAttempts}

\* The maintenance UPDATE: every running job locked for 15 minutes is pending
\* again, due since its claim, with the attempts it has.
Stale == {j \in Jobs : jobs[j].state = "running" /\ jobs[j].expired}

Requeue(w) ==
  /\ Polling(w)
  /\ Stale # {}
  /\ jobs' = [j \in Jobs |-> IF j \in Stale
                             THEN [jobs[j] EXCEPT !.state = "pending", !.due = TRUE, !.expired = FALSE]
                             ELSE jobs[j]]
  /\ requeued' = [j \in Jobs |-> requeued[j] + IF j \in Stale THEN 1 ELSE 0]
  /\ UNCHANGED <<held, report, env, unreported, effects, revived>>
-----------------------------------------------------------------------------
(* execute *)

\* The handler of one of the worker's claims returns or throws, or there is none.
Run(w) ==
  /\ report[w] = Nothing
  /\ \E k \in held[w] :
       \E result \in IF k.job \in Knows[w] THEN {"ok", "failed"} ELSE {"no handler"} :
         /\ report' = [report EXCEPT ![w] = [claim |-> k, result |-> result]]
         /\ effects' = [effects EXCEPT ![k.job] = @ + IF result = "ok" THEN 1 ELSE 0]
  /\ UNCHANGED <<jobs, held, env, requeued, unreported, revived>>

\* Faulty: the attempt that was to be the last is followed by one more.
EndsLate(r) == r.claim.attempts > MaxAttempts \/ r.result = "no handler"

\* Out of attempts, or nobody to run it: dead; else back to wait its backoff.
Ends(r) == r.claim.attempts >= MaxAttempts \/ r.result = "no handler"

\* Faulty: a success is written like a failure.
WrittenBack(job, r) ==
  [job EXCEPT !.state = IF Ends(r) THEN "dead" ELSE "pending",
              !.due = FALSE, !.expired = FALSE, !.error = "failed"]

\* Faulty: what a job came to is kept as its error, success too.
WrittenWithError(job, r) ==
  [job EXCEPT !.state = IF r.result = "ok" THEN "succeeded" ELSE IF Ends(r) THEN "dead" ELSE "pending",
              !.due = FALSE, !.expired = FALSE, !.error = r.result]

Written(job, r) ==
  IF r.result = "ok"
  THEN [job EXCEPT !.state = "succeeded", !.expired = FALSE]
  ELSE [job EXCEPT !.state = IF Ends(r) THEN "dead" ELSE "pending",
                   !.due = FALSE, !.expired = FALSE, !.error = r.result]

\* The outcome is written by id alone, whatever the row has become.
WriteReport(w) ==
  LET r == report[w] IN
  /\ r # Nothing
  /\ jobs' = [jobs EXCEPT ![r.claim.job] = Written(@, r)]
  /\ held' = [held EXCEPT ![w] = @ \ {r.claim}]
  /\ report' = [report EXCEPT ![w] = Nothing]
  /\ UNCHANGED <<env, past>>

\* The transaction that writes succeeded throws, with nothing written or with its
\* COMMIT applied and the answer to it lost: the catch takes either for a failed
\* attempt.
ReportRefused(w) ==
  LET r == report[w] IN
  /\ r.result = "ok"
  /\ crashes < MaxCrashes /\ crashes' = crashes + 1
  /\ \/ UNCHANGED jobs
     \/ jobs' = [jobs EXCEPT ![r.claim.job] = Written(@, r)]
  /\ report' = [report EXCEPT ![w].result = "failed"]
  /\ unreported' = [unreported EXCEPT ![r.claim.job] = @ + 1]
  /\ UNCHANGED <<held, slow, requeued, effects, revived>>

\* The process is killed and started again, or the report of a failure throws,
\* which drops whatever else the worker had claimed: the rows stay running.
Crash(w) ==
  /\ ~Polling(w)
  /\ crashes < MaxCrashes /\ crashes' = crashes + 1
  /\ held' = [held EXCEPT ![w] = {}]
  /\ report' = [report EXCEPT ![w] = Nothing]
  /\ UNCHANGED <<jobs, slow, past>>
-----------------------------------------------------------------------------
Work(w) == ClaimOne(w) \/ ClaimKilled(w) \/ Requeue(w) \/ Run(w) \/ WriteReport(w)

Next ==
  \/ \E j \in Jobs : Enqueue(j) \/ BecomeDue(j) \/ Expire(j)
  \/ \E w \in Workers : Work(w) \/ ReportRefused(w) \/ Crash(w)

Spec == Init /\ [][Next]_vars

\* Time passes, and every worker goes on polling, maintaining and running; that
\* a handler outlasts its lock, or that anything crashes, is never assumed.
Fairness ==
  /\ \A j \in Jobs : WF_vars(BecomeDue(j)) /\ WF_vars(Holders(j) = {} /\ Expire(j))
  /\ \A w \in Workers :
       /\ WF_vars(ClaimOne(w)) /\ WF_vars(ClaimKilled(w)) /\ WF_vars(Requeue(w))
       /\ WF_vars(Run(w)) /\ WF_vars(WriteReport(w))

FairSpec == Spec /\ Fairness
-----------------------------------------------------------------------------
(* Properties. *)

\* Every variable holds what its table, or a worker's memory, can hold.
TypeOK ==
  /\ jobs \in [Jobs -> Job]
  /\ held \in [Workers -> SUBSET Claim]
  /\ report \in [Workers -> Report \cup {Nothing}]
  /\ crashes \in 0 .. MaxCrashes /\ slow \in 0 .. MaxSlow
  /\ requeued \in [Jobs -> Nat] /\ unreported \in [Jobs -> Nat] /\ effects \in [Jobs -> Nat]
  /\ revived \subseteq Jobs

\* SKIP LOCKED and the lock keep a job with one worker: two have it in hand only
\* after it was taken back from one of them that had not finished.
OneWorkerPerJob == \A j \in Jobs : Cardinality(Holders(j)) <= 1 + requeued[j]

\* A job is tried MaxAttempts times, and once more for each time it was taken
\* back: although reports are written by whoever comes late, with the attempts
\* of an old claim, they never add a try of their own.
AttemptsAreBounded == \A j \in Jobs : jobs[j].attempts <= MaxAttempts + requeued[j]

\* A handler that has completed completes again only if the job was taken back
\* or the worker was not told that its success is written.
CompletedOnce == \A j \in Jobs : effects[j] <= 1 + requeued[j] + unreported[j]

\* A job that succeeded is not run again, whatever is claimed, batched, killed
\* and reported, with two exceptions: it was once taken back from a worker that
\* was still on it, whose late failure may put it back; or the worker was not
\* told that a success of it is written, and writes the attempt as failed.
SuccessIsFinal ==
  [][\A j \in Jobs : jobs[j].state = "succeeded" /\ requeued[j] = 0 /\ unreported[j] = 0 =>
       jobs'[j].state = "succeeded"]_vars

\* The worker's comment: a job an older worker killed is claimed and run by one
\* that knows it, and the older worker never takes it again.
KilledJobsNeverGoBack == \A w \in Workers : \A k \in held[w] : k.job \in revived => k.job \in Knows[w]

\* Every enqueued job comes to an end and stays there: succeeded, or dead for a
\* reason nobody can help; what an older worker killed is run by one that knows
\* it while it has attempts left, and what a crash left running is taken back.
EveryJobSettles ==
  \A j \in Jobs :
    jobs[j].state = "pending" ~>
      [](\/ jobs[j].state = "succeeded"
         \/ jobs[j].state = "dead" /\ \A w \in Workers : j \notin Revivable(w))
=============================================================================
