--------------------------- MODULE JobQueueProofs ---------------------------
(***************************************************************************)
(* Theorems about JobQueue, for any jobs, workers and deployments, any     *)
(* number of attempts and any number of crashes and expired locks.         *)
(***************************************************************************)
EXTENDS JobQueue, FiniteSetTheorems, TLAPS
-----------------------------------------------------------------------------
(* The invariant.                                                          *)

Completed(k) == [claim |-> k, result |-> "ok"]

\* The workers with a claim that a failure would put back to pending, and those
\* with a claim whose handler has not completed.
Low(j)        == {w \in Workers : \E k \in held[w] : k.job = j /\ k.attempts < MaxAttempts}
Unfinished(j) == {w \in Workers : \E k \in held[w] : k.job = j /\ report[w] # Completed(k)}

\* The job may be claimed as it is, or when it is due.
Claimable(job) ==
  \/ job.state = "pending"
  \/ job.state = "dead" /\ job.error = "no handler" /\ job.attempts < MaxAttempts

\* A worker has one claim of a job; what it reports it has claimed; and the row
\* has counted every claim.
ClaimsInv ==
  \A w \in Workers :
    /\ report[w] # Nothing => report[w].claim \in held[w]
    /\ \A k \in held[w] :
         /\ jobs[k.job].state # "absent"
         /\ k.attempts <= jobs[k.job].attempts
         /\ \A l \in held[w] : k.job = l.job => k = l

\* There is a worker, or the row to claim, and one worker more for every time the
\* job was taken back; a row that is not running has no worker of its own, unless
\* it says so without the worker knowing.
HoldersInv(j) ==
  /\ IsFiniteSet(Holders(j))
  /\ Cardinality(Holders(j)) + (IF Claimable(jobs[j]) THEN 1 ELSE 0) <= 1 + requeued[j]
  /\ unreported[j] = 0 /\ jobs[j].state # "running" => Cardinality(Holders(j)) <= requeued[j]

\* Every attempt too many, every claim that may put the job back, and the job's
\* being back, has its taking back.
AttemptsInv(j) ==
  (IF jobs[j].attempts < MaxAttempts THEN 0 ELSE jobs[j].attempts - MaxAttempts + 1)
    + Cardinality(Low(j)) + (IF Claimable(jobs[j]) THEN 1 ELSE 0) <= 1 + requeued[j]

\* So has every completion, and every one that is still to come.
EffectsInv(j) ==
  /\ effects[j] + Cardinality(Unfinished(j)) + (IF Claimable(jobs[j]) THEN 1 ELSE 0)
       <= 1 + requeued[j] + unreported[j]
  /\ jobs[j].state = "absent" => effects[j] = 0 /\ jobs[j].attempts = 0

JobInv(j) == HoldersInv(j) /\ AttemptsInv(j) /\ EffectsInv(j)

QueueInv == TypeOK /\ ClaimsInv /\ \A j \in Jobs : JobInv(j)
-----------------------------------------------------------------------------
(* Sets of workers, and reports.                                           *)

\* A worker more, a worker less, or some of them.
LEMMA CardinalityFacts ==
  ASSUME NEW S, IsFiniteSet(S), NEW w
  PROVE  /\ Cardinality(S) \in Nat
         /\ IsFiniteSet(S \cup {w}) /\ IsFiniteSet(S \ {w})
         /\ Cardinality(S \cup {w}) <= Cardinality(S) + 1
         /\ w \in S => Cardinality(S \ {w}) = Cardinality(S) - 1
         /\ \A T \in SUBSET S : /\ IsFiniteSet(T) /\ Cardinality(T) \in Nat
                                /\ Cardinality(T) <= Cardinality(S)
BY FS_CardinalityType, FS_AddElement, FS_RemoveElement, FS_Subset

\* What a job can be put back for, or completed by, is in somebody's hands.
LEMMA HandsFacts ==
  ASSUME QueueInv, NEW j \in Jobs
  PROVE  /\ Low(j) \subseteq Holders(j) /\ Unfinished(j) \subseteq Holders(j)
         /\ IsFiniteSet(Holders(j)) /\ IsFiniteSet(Low(j)) /\ IsFiniteSet(Unfinished(j))
         /\ Cardinality(Holders(j)) \in Nat
         /\ Cardinality(Low(j)) \in Nat /\ Cardinality(Unfinished(j)) \in Nat
<1>1. Low(j) \subseteq Holders(j) /\ Unfinished(j) \subseteq Holders(j)
  BY DEF Low, Unfinished, Holders
<1>2. IsFiniteSet(Holders(j))
  BY DEF QueueInv, JobInv, HoldersInv
<1> QED BY <1>1, <1>2, CardinalityFacts

\* The numbers the invariant is about.
LEMMA NumberFacts ==
  ASSUME QueueInv, NEW j \in Jobs
  PROVE  /\ jobs[j] \in Job /\ jobs[j].attempts \in Nat
         /\ requeued[j] \in Nat /\ unreported[j] \in Nat /\ effects[j] \in Nat
         /\ MaxAttempts \in Nat /\ MaxAttempts > 0
<1>1. MaxAttempts \in Nat /\ MaxAttempts > 0
  BY QueueAssumption DEF QueueAssumption
<1>2. /\ jobs[j] \in Job
      /\ requeued[j] \in Nat /\ unreported[j] \in Nat /\ effects[j] \in Nat
  BY DEF QueueInv, TypeOK
<1> QED BY <1>1, <1>2 DEF Job

\* A report is of a claim the worker holds, about a job there is.
LEMMA ReportFacts ==
  ASSUME QueueInv, NEW w \in Workers, report[w] # Nothing
  PROVE  /\ report[w] \in Report
         /\ report[w].claim \in held[w] /\ report[w].claim \in Claim
         /\ report[w].claim.job \in Jobs /\ report[w].claim.attempts \in Nat
         /\ report[w].result \in {"ok", "failed", "no handler"}
         /\ report[w] = [claim |-> report[w].claim, result |-> report[w].result]
<1>1. report[w] \in Report
  BY DEF QueueInv, TypeOK
<1>2. report[w].claim \in held[w]
  BY DEF QueueInv, ClaimsInv
<1> QED BY <1>1, <1>2 DEF Report, Claim

LEMMA ClaimFacts ==
  ASSUME QueueInv, NEW w \in Workers, NEW k \in held[w]
  PROVE  k \in Claim /\ k.job \in Jobs /\ k.attempts \in Nat
                     /\ k = [job |-> k.job, attempts |-> k.attempts]
BY DEF QueueInv, TypeOK, Claim
-----------------------------------------------------------------------------
(* What each kind of step does to the workers that have a job in hand.     *)

LEMMA ReportsDiffer ==
  /\ \A k : Nothing # Completed(k)
  /\ \A k, l, r : [claim |-> k, result |-> r] = Completed(l) <=> k = l /\ r = "ok"
<1>1. ASSUME NEW k PROVE Nothing # Completed(k)
  <2>1. Nothing.result = "nothing" /\ Completed(k).result = "ok"
    BY DEF Nothing, Completed
  <2> QED BY <2>1
<1>2. ASSUME NEW k, NEW l, NEW r, [claim |-> k, result |-> r] = Completed(l)
      PROVE  k = l /\ r = "ok"
  <2>1. [claim |-> k, result |-> r].claim = k /\ [claim |-> k, result |-> r].result = r
    OBVIOUS
  <2>2. Completed(l).claim = l /\ Completed(l).result = "ok"
    BY DEF Completed
  <2> QED BY <1>2, <2>1, <2>2
<1>3. \A l : Completed(l) = [claim |-> l, result |-> "ok"]
  BY DEF Completed
<1> QED BY <1>1, <1>2, <1>3

\* Nothing, when no worker takes, finishes or drops anything.
LEMMA SameHands ==
  ASSUME UNCHANGED <<held, report>>, NEW j \in Jobs
  PROVE  Holders(j)' = Holders(j) /\ Low(j)' = Low(j) /\ Unfinished(j)' = Unfinished(j)
BY DEF Holders, Low, Unfinished

\* A worker that claims some jobs is added for each of these, ...
LEMMA Taking ==
  ASSUME QueueInv, NEW w \in Workers, held[w] = {}, NEW T \in SUBSET Jobs, UNCHANGED report,
         report[w] = Nothing,
         held' = [held EXCEPT ![w] = {[job |-> i, attempts |-> jobs[i].attempts + 1] : i \in T}],
         NEW j \in Jobs
  PROVE  /\ w \notin Holders(j) /\ w \notin Low(j) /\ w \notin Unfinished(j)
         /\ j \notin T => Holders(j)' = Holders(j) /\ Low(j)' = Low(j) /\ Unfinished(j)' = Unfinished(j)
         /\ j \in T => /\ Holders(j)' = Holders(j) \cup {w}
                       /\ Low(j)' = Low(j) \cup (IF jobs[j].attempts + 1 < MaxAttempts THEN {w} ELSE {})
                       /\ Unfinished(j)' = Unfinished(j) \cup {w}
<1> DEFINE K     == {[job |-> i, attempts |-> jobs[i].attempts + 1] : i \in T}
           New(i) == [job |-> i, attempts |-> jobs[i].attempts + 1]
<1>1. held \in [Workers -> SUBSET Claim]
  BY DEF QueueInv, TypeOK
<1>2. held'[w] = K /\ \A v \in Workers \ {w} : held'[v] = held[v]
  BY <1>1
<1>3. w \notin Holders(j) /\ w \notin Low(j) /\ w \notin Unfinished(j)
  BY DEF Holders, Low, Unfinished
<1>4. /\ \A k \in K : k.job \in T /\ k.attempts = jobs[k.job].attempts + 1
      /\ \A i \in T : \E k \in K : k.job = i /\ k.attempts = jobs[i].attempts + 1
  <2>1. \A i \in T : New(i).job = i /\ New(i).attempts = jobs[i].attempts + 1 /\ New(i) \in K
    OBVIOUS
  <2>2. \A k \in K : \E i \in T : k = New(i)
    OBVIOUS
  <2> HIDE DEF K, New
  <2> QED BY <2>1, <2>2
<1>5. \A k \in K : report[w] # Completed(k)
  BY ReportsDiffer
<1> HIDE DEF K, New
<1>6. ASSUME NEW v \in Workers \ {w}
      PROVE  /\ v \in Holders(j)' <=> v \in Holders(j)
             /\ v \in Low(j)' <=> v \in Low(j)
             /\ v \in Unfinished(j)' <=> v \in Unfinished(j)
  BY <1>2 DEF Holders, Low, Unfinished
<1>7. /\ w \in Holders(j)' <=> j \in T
      /\ w \in Low(j)' <=> j \in T /\ jobs[j].attempts + 1 < MaxAttempts
      /\ w \in Unfinished(j)' <=> j \in T
  BY <1>2, <1>4, <1>5 DEF Holders, Low, Unfinished
<1>8. Holders(j) \cup Holders(j)' \cup Low(j) \cup Low(j)' \cup Unfinished(j) \cup Unfinished(j)' \subseteq Workers
  BY DEF Holders, Low, Unfinished
<1> QED BY <1>3, <1>6, <1>7, <1>8

\* ... one that has reported a job is removed for it, ...
LEMMA Reporting ==
  ASSUME QueueInv, NEW w \in Workers, WriteReport(w), NEW j \in Jobs
  PROVE  LET k == report[w].claim IN
         /\ j # k.job => Holders(j)' = Holders(j) /\ Low(j)' = Low(j) /\ Unfinished(j)' = Unfinished(j)
         /\ j = k.job => /\ w \in Holders(j) /\ Holders(j)' = Holders(j) \ {w}
                         /\ Low(j)' = Low(j) \ {w}
                         /\ k.attempts < MaxAttempts => w \in Low(j)
                         /\ Unfinished(j)' = Unfinished(j) \ {w}
                         /\ report[w].result # "ok" => w \in Unfinished(j)
<1> DEFINE k == report[w].claim
<1>1. /\ held \in [Workers -> SUBSET Claim] /\ report \in [Workers -> Report \cup {Nothing}]
  BY DEF QueueInv, TypeOK
<1>2. /\ report[w] # Nothing
      /\ held' = [held EXCEPT ![w] = @ \ {k}] /\ report' = [report EXCEPT ![w] = Nothing]
  BY DEF WriteReport
<1>3. /\ held'[w] = held[w] \ {k} /\ report'[w] = Nothing
      /\ \A v \in Workers \ {w} : held'[v] = held[v] /\ report'[v] = report[v]
  BY <1>1, <1>2
<1>4. /\ k \in held[w] /\ report[w] = [claim |-> k, result |-> report[w].result]
      /\ \A l \in held[w] : l.job = k.job => l = k
  BY <1>2, ReportFacts DEF QueueInv, ClaimsInv
<1>5. \A l \in held[w] : /\ Nothing # Completed(l)
                         /\ l # k => report[w] # Completed(l)
                         /\ report[w].result # "ok" => report[w] # Completed(l)
  BY <1>4, ReportsDiffer
<1> HIDE DEF k
<1>6. ASSUME NEW v \in Workers \ {w}
      PROVE  /\ v \in Holders(j)' <=> v \in Holders(j)
             /\ v \in Low(j)' <=> v \in Low(j)
             /\ v \in Unfinished(j)' <=> v \in Unfinished(j)
  BY <1>3 DEF Holders, Low, Unfinished
<1>7. /\ w \in Holders(j)' <=> j # k.job /\ w \in Holders(j)
      /\ w \in Low(j)' <=> j # k.job /\ w \in Low(j)
      /\ w \in Unfinished(j)' <=> j # k.job /\ w \in Unfinished(j)
  BY <1>3, <1>4, <1>5 DEF Holders, Low, Unfinished
<1>8. j = k.job => /\ w \in Holders(j)
                   /\ k.attempts < MaxAttempts => w \in Low(j)
                   /\ report[w].result # "ok" => w \in Unfinished(j)
  BY <1>4, <1>5 DEF Holders, Low, Unfinished
<1>9. Holders(j) \cup Holders(j)' \cup Low(j) \cup Low(j)' \cup Unfinished(j) \cup Unfinished(j)' \subseteq Workers
  BY DEF Holders, Low, Unfinished
<1> QED BY <1>6, <1>7, <1>8, <1>9 DEF k

\* ... one that has run a job to its end has not to do it again, unless it cannot
\* say so, ...
LEMMA Running ==
  ASSUME QueueInv, NEW w \in Workers, report[w] = Nothing, UNCHANGED held,
         NEW k \in held[w], NEW result \in {"ok", "failed", "no handler"},
         report' = [report EXCEPT ![w] = [claim |-> k, result |-> result]],
         NEW j \in Jobs
  PROVE  /\ Holders(j)' = Holders(j) /\ Low(j)' = Low(j)
         /\ j = k.job => w \in Unfinished(j)
         /\ Unfinished(j)' = IF j = k.job /\ result = "ok" THEN Unfinished(j) \ {w} ELSE Unfinished(j)
<1>1. /\ held \in [Workers -> SUBSET Claim] /\ report \in [Workers -> Report \cup {Nothing}]
      /\ \A l \in held[w] : l.job = k.job => l = k
  BY DEF QueueInv, TypeOK, ClaimsInv
<1>2. /\ report'[w] = [claim |-> k, result |-> result]
      /\ \A v \in Workers \ {w} : report'[v] = report[v]
  BY <1>1
<1>3. \A l \in held[w] : /\ report[w] # Completed(l)
                         /\ report'[w] = Completed(l) <=> l = k /\ result = "ok"
  <2>1. \A l \in held[w] : [claim |-> k, result |-> result] = Completed(l) <=> l = k /\ result = "ok"
    BY ReportsDiffer, Zenon
  <2>2. \A l \in held[w] : report[w] # Completed(l)
    BY ReportsDiffer, Zenon
  <2> QED BY <1>2, <2>1, <2>2
<1>4. \A v \in Workers \ {w} : v \in Unfinished(j)' <=> v \in Unfinished(j)
  BY <1>2 DEF Unfinished
<1>5. /\ j = k.job => w \in Unfinished(j)
      /\ w \in Unfinished(j)' <=> w \in Unfinished(j) /\ ~(j = k.job /\ result = "ok")
  BY <1>1, <1>3 DEF Unfinished
<1>6. Unfinished(j) \cup Unfinished(j)' \subseteq Workers
  BY DEF Unfinished
<1>7. Holders(j)' = Holders(j) /\ Low(j)' = Low(j)
  BY DEF Holders, Low
<1>8. CASE j = k.job /\ result = "ok"
  <2>1. Unfinished(j)' = Unfinished(j) \ {w}
    BY <1>4, <1>5, <1>6, <1>8
  <2> QED BY <1>5, <1>7, <1>8, <2>1
<1>9. CASE ~(j = k.job /\ result = "ok")
  <2>1. w \in Unfinished(j)' <=> w \in Unfinished(j)
    BY <1>5, <1>9
  <2>2. \A v \in Workers : v \in Unfinished(j)' <=> v \in Unfinished(j)
    BY <1>4, <2>1
  <2>3. Unfinished(j)' = Unfinished(j)
    BY <1>6, <2>2
  <2> QED BY <1>5, <1>7, <1>9, <2>3
<1> QED BY <1>8, <1>9

LEMMA Refusing ==
  ASSUME QueueInv, NEW w \in Workers, ReportRefused(w), NEW j \in Jobs
  PROVE  /\ Holders(j)' = Holders(j) /\ Low(j)' = Low(j)
         /\ Unfinished(j)' = IF j = report[w].claim.job THEN Unfinished(j) \cup {w} ELSE Unfinished(j)
<1> DEFINE k == report[w].claim
<1>1. report[w] # Nothing
  BY DEF ReportRefused, Nothing
<1>2. /\ report[w] = Completed(k) /\ k \in held[w]
      /\ \A l \in held[w] : l.job = k.job => l = k
  <2>1. report[w] = [claim |-> k, result |-> report[w].result] /\ k \in held[w]
    BY <1>1, ReportFacts
  <2>2. report[w].result = "ok"
    BY DEF ReportRefused
  <2>3. report[w] = Completed(k)
    BY <2>1, <2>2 DEF Completed
  <2> QED BY <2>1, <2>3 DEF QueueInv, ClaimsInv
<1>3. /\ report'[w] = [claim |-> k, result |-> "failed"] /\ UNCHANGED held
      /\ \A v \in Workers \ {w} : report'[v] = report[v]
  <2>1. report' = [report EXCEPT ![w].result = "failed"] /\ UNCHANGED held
    BY DEF ReportRefused
  <2>2. report \in [Workers -> Report \cup {Nothing}]
    BY DEF QueueInv, TypeOK
  <2>3. report'[w] = [report[w] EXCEPT !.result = "failed"]
    BY <2>1, <2>2
  <2>4. [report[w] EXCEPT !.result = "failed"] = [claim |-> k, result |-> "failed"]
    BY <1>2 DEF Completed
  <2> QED BY <2>1, <2>2, <2>3, <2>4
<1> HIDE DEF k
<1>4. \A l \in held[w] : /\ report'[w] # Completed(l)
                         /\ l # k => report[w] # Completed(l)
  BY <1>2, <1>3, ReportsDiffer
<1>5. \A v \in Workers \ {w} : v \in Unfinished(j)' <=> v \in Unfinished(j)
  BY <1>3 DEF Unfinished
<1>6. w \in Unfinished(j)' <=> w \in Unfinished(j) \/ j = k.job
  BY <1>2, <1>3, <1>4 DEF Unfinished
<1>7. Unfinished(j) \cup Unfinished(j)' \subseteq Workers
  BY DEF Unfinished
<1> QED BY <1>3, <1>5, <1>6, <1>7 DEF Holders, Low, k

\* ... and one that crashes is removed everywhere.
LEMMA Crashing ==
  ASSUME QueueInv, NEW w \in Workers, Crash(w), NEW j \in Jobs
  PROVE  /\ Holders(j)' \subseteq Holders(j) /\ Low(j)' \subseteq Low(j)
         /\ Unfinished(j)' \subseteq Unfinished(j)
<1>1. /\ held'[w] = {} /\ \A v \in Workers \ {w} : held'[v] = held[v] /\ report'[v] = report[v]
  BY DEF Crash, QueueInv, TypeOK
<1> QED BY <1>1 DEF Holders, Low, Unfinished
-----------------------------------------------------------------------------
(* Types.                                                                  *)

LEMMA JobTypes ==
  ASSUME NEW job \in Job
  PROVE  /\ job.state \in States /\ job.attempts \in Nat
         /\ Locked(job) \in Job /\ Locked(job).state = "running"
         /\ Locked(job).attempts = job.attempts + 1
         /\ \A r \in Report : /\ Written(job, r) \in Job
                              /\ Written(job, r).attempts = job.attempts
                              /\ Written(job, r).state \in {"succeeded", "dead", "pending"}
<1>1. \A s \in States, b \in BOOLEAN :
        /\ [job EXCEPT !.state = s, !.expired = b] \in Job
        /\ [job EXCEPT !.state = s, !.expired = b].attempts = job.attempts
        /\ [job EXCEPT !.state = s, !.expired = b].state = s
  BY DEF Job
<1>3. {"succeeded", "dead", "pending"} \subseteq States
  BY DEF States
<1>4. \A r \in Report : r.result # "ok" => r.result \in {"none", "failed", "no handler"}
  BY DEF Report
<1>5. \A r \in Report : /\ Written(job, r) \in Job
                        /\ Written(job, r).attempts = job.attempts
                        /\ Written(job, r).state \in {"succeeded", "dead", "pending"}
  <2> SUFFICES ASSUME NEW r \in Report
               PROVE  /\ Written(job, r) \in Job
                      /\ Written(job, r).attempts = job.attempts
                      /\ Written(job, r).state \in {"succeeded", "dead", "pending"}
    OBVIOUS
  <2>1. CASE r.result = "ok"
    BY <1>1, <1>3, <2>1 DEF Written
  <2>2. CASE r.result # "ok"
    <3> DEFINE s == IF Ends(r) THEN "dead" ELSE "pending"
               e == r.result
    <3>1. s \in {"dead", "pending"} /\ s \in States
      BY <1>3
    <3>2. Written(job, r) = [job EXCEPT !.state = s, !.due = FALSE, !.expired = FALSE, !.error = e]
      BY <2>2 DEF Written
    <3>3. e \in {"none", "failed", "no handler"}
      BY <1>4, <2>2
    <3> HIDE DEF s, e
    <3>4. /\ Written(job, r) \in Job
          /\ Written(job, r).attempts = job.attempts
          /\ Written(job, r).state = s
      BY <3>1, <3>2, <3>3 DEF Job
    <3> QED BY <3>1, <3>4
  <2> QED BY <2>1, <2>2
<1>6. /\ Locked(job) \in Job /\ Locked(job).state = "running"
      /\ Locked(job).attempts = job.attempts + 1
  <2> DEFINE n == job.attempts + 1
  <2>1. job.attempts \in Nat
    BY DEF Job
  <2>2. n \in Nat
    BY <2>1
  <2>3. Locked(job) = [job EXCEPT !.state = "running", !.attempts = n, !.expired = FALSE]
    BY DEF Locked
  <2> HIDE DEF n
  <2>4. [job EXCEPT !.state = "running", !.attempts = n, !.expired = FALSE] \in Job
    BY <2>2 DEF Job, States
  <2>5. Locked(job).state = "running" /\ Locked(job).attempts = n
    BY <2>3 DEF Job
  <2> QED BY <2>3, <2>4, <2>5 DEF n
<1> QED BY <1>5, <1>6 DEF Job

\* What each step does to the rows, and that it keeps the types.
LEMMA RowSteps ==
  ASSUME QueueInv, NEW j \in Jobs
  PROVE  /\ Enqueue(j) => TypeOK' /\ jobs'[j].state = "pending" /\ jobs'[j].attempts = jobs[j].attempts
                                  /\ \A i \in Jobs \ {j} : jobs'[i] = jobs[i]
         /\ BecomeDue(j) \/ Expire(j) =>
              TypeOK' /\ jobs'[j].state = jobs[j].state /\ jobs'[j].attempts = jobs[j].attempts
                      /\ jobs'[j].error = jobs[j].error
                      /\ \A i \in Jobs \ {j} : jobs'[i] = jobs[i]
<1>1. TypeOK /\ jobs \in [Jobs -> Job] /\ jobs[j] \in Job
  BY DEF QueueInv, TypeOK
<1>2. ASSUME Enqueue(j)
      PROVE  TypeOK' /\ jobs'[j].state = "pending" /\ jobs'[j].attempts = jobs[j].attempts
                     /\ \A i \in Jobs \ {j} : jobs'[i] = jobs[i]
  <2>1. jobs' = [jobs EXCEPT ![j] = [jobs[j] EXCEPT !.state = "pending", !.due = TRUE]]
    BY <1>1, <1>2 DEF Enqueue
  <2>2. [jobs[j] EXCEPT !.state = "pending", !.due = TRUE] \in Job
    BY <1>1 DEF Job, States
  <2>3. jobs' \in [Jobs -> Job] /\ \A i \in Jobs \ {j} : jobs'[i] = jobs[i]
    BY <1>1, <2>1, <2>2
  <2>4. jobs'[j].state = "pending" /\ jobs'[j].attempts = jobs[j].attempts
    BY <1>1, <2>1 DEF Job
  <2> QED BY <1>1, <1>2, <2>3, <2>4 DEF Enqueue, TypeOK, env, past
<1>3. ASSUME BecomeDue(j) \/ Expire(j)
      PROVE  TypeOK' /\ jobs'[j].state = jobs[j].state /\ jobs'[j].attempts = jobs[j].attempts
                     /\ jobs'[j].error = jobs[j].error
                     /\ \A i \in Jobs \ {j} : jobs'[i] = jobs[i]
  <2>1. \/ jobs' = [jobs EXCEPT ![j] = [jobs[j] EXCEPT !.due = TRUE]]
        \/ jobs' = [jobs EXCEPT ![j] = [jobs[j] EXCEPT !.expired = TRUE]]
    BY <1>1, <1>3 DEF BecomeDue, Expire
  <2>2. [jobs[j] EXCEPT !.due = TRUE] \in Job /\ [jobs[j] EXCEPT !.expired = TRUE] \in Job
    BY <1>1 DEF Job
  <2>3. jobs' \in [Jobs -> Job] /\ \A i \in Jobs \ {j} : jobs'[i] = jobs[i]
    BY <1>1, <2>1, <2>2
  <2>4. /\ jobs'[j].state = jobs[j].state /\ jobs'[j].attempts = jobs[j].attempts
        /\ jobs'[j].error = jobs[j].error
    BY <1>1, <2>1 DEF Job
  <2>5. slow' \in 0 .. MaxSlow
    BY <1>1, <1>3, QueueAssumption DEF BecomeDue, Expire, TypeOK, env, QueueAssumption
  <2>6. UNCHANGED <<held, report, crashes, past>>
    BY <1>3 DEF BecomeDue, Expire, env
  <2> QED BY <1>1, <2>3, <2>4, <2>5, <2>6 DEF TypeOK, past
<1> QED BY <1>2, <1>3

LEMMA ClaimOneTypes ==
  ASSUME QueueInv, NEW w \in Workers, NEW j \in Jobs,
         jobs' = [jobs EXCEPT ![j] = Locked(@)],
         held' = [held EXCEPT ![w] = {[job |-> j, attempts |-> jobs[j].attempts + 1]}],
         UNCHANGED <<report, env, past>>
  PROVE  /\ TypeOK'
         /\ jobs'[j] = Locked(jobs[j])
         /\ \A i \in Jobs \ {j} : jobs'[i] = jobs[i]
<1>1. TypeOK /\ jobs \in [Jobs -> Job] /\ jobs[j] \in Job
  BY DEF QueueInv, TypeOK
<1>2. Locked(jobs[j]) \in Job /\ jobs[j].attempts + 1 \in Nat
  BY <1>1, JobTypes
<1>3. jobs' \in [Jobs -> Job] /\ jobs'[j] = Locked(jobs[j]) /\ \A i \in Jobs \ {j} : jobs'[i] = jobs[i]
  BY <1>1, <1>2
<1>4. [job |-> j, attempts |-> jobs[j].attempts + 1] \in Claim
  BY <1>2 DEF Claim
<1>5. held' \in [Workers -> SUBSET Claim]
  BY <1>1, <1>4 DEF TypeOK
<1> QED BY <1>1, <1>3, <1>5 DEF TypeOK, env, past

\* A job that is taken over, as it is written.
TakenOver(job) == [Locked(job) EXCEPT !.error = "none", !.due = TRUE]

LEMMA TakenOverType ==
  ASSUME NEW job \in Job
  PROVE  /\ TakenOver(job) \in Job /\ TakenOver(job).state = "running"
         /\ TakenOver(job).attempts = job.attempts + 1
<1>1. /\ Locked(job) \in Job /\ Locked(job).state = "running"
      /\ Locked(job).attempts = job.attempts + 1
  BY JobTypes
<1>2. ASSUME NEW l \in Job PROVE /\ [l EXCEPT !.error = "none", !.due = TRUE] \in Job
                                 /\ [l EXCEPT !.error = "none", !.due = TRUE].state = l.state
                                 /\ [l EXCEPT !.error = "none", !.due = TRUE].attempts = l.attempts
  BY DEF Job
<1> QED BY <1>1, <1>2 DEF TakenOver

LEMMA ClaimKilledTypes ==
  ASSUME QueueInv, NEW w \in Workers, ClaimKilled(w)
  PROVE  /\ TypeOK'
         /\ Revivable(w) \subseteq Jobs
         /\ \A j \in Revivable(w) : /\ jobs'[j].state = "running"
                                    /\ jobs'[j].attempts = jobs[j].attempts + 1
         /\ \A i \in Jobs \ Revivable(w) : jobs'[i] = jobs[i]
<1>1. TypeOK /\ jobs \in [Jobs -> Job]
  BY DEF QueueInv, TypeOK
<1>2. Revivable(w) \subseteq Jobs
  BY QueueAssumption DEF QueueAssumption, Revivable
<1>3. jobs' = [j \in Jobs |-> IF j \in Revivable(w) THEN TakenOver(jobs[j]) ELSE jobs[j]]
  BY DEF ClaimKilled, TakenOver
<1>4. \A j \in Jobs : /\ TakenOver(jobs[j]) \in Job /\ TakenOver(jobs[j]).state = "running"
                      /\ TakenOver(jobs[j]).attempts = jobs[j].attempts + 1
                      /\ jobs[j].attempts + 1 \in Nat
  BY <1>1, TakenOverType, JobTypes
<1>5. jobs' \in [Jobs -> Job]
  BY <1>1, <1>3, <1>4
<1>6. \A j \in Revivable(w) : [job |-> j, attempts |-> jobs[j].attempts + 1] \in Claim
  BY <1>2, <1>4 DEF Claim
<1>7. held' \in [Workers -> SUBSET Claim]
  BY <1>1, <1>6 DEF ClaimKilled, TypeOK
<1>8. revived' \subseteq Jobs
  BY <1>1, <1>2 DEF ClaimKilled, TypeOK
<1> QED BY <1>1, <1>2, <1>3, <1>4, <1>5, <1>7, <1>8 DEF ClaimKilled, TypeOK, env

LEMMA RequeueTypes ==
  ASSUME QueueInv, NEW w \in Workers, Requeue(w)
  PROVE  /\ TypeOK'
         /\ Stale \subseteq Jobs
         /\ \A j \in Stale : /\ jobs[j].state = "running" /\ jobs'[j].state = "pending"
                             /\ jobs'[j].attempts = jobs[j].attempts
                             /\ requeued'[j] = requeued[j] + 1
         /\ \A i \in Jobs \ Stale : jobs'[i] = jobs[i] /\ requeued'[i] = requeued[i]
<1> DEFINE Back(job) == [job EXCEPT !.state = "pending", !.due = TRUE, !.expired = FALSE]
<1>1. TypeOK /\ jobs \in [Jobs -> Job] /\ requeued \in [Jobs -> Nat]
  BY DEF QueueInv, TypeOK
<1>2. \A job \in Job : Back(job) \in Job /\ Back(job).state = "pending" /\ Back(job).attempts = job.attempts
  BY DEF Job, States
<1>3. jobs' = [j \in Jobs |-> IF j \in Stale THEN Back(jobs[j]) ELSE jobs[j]]
  BY DEF Requeue
<1> HIDE DEF Back
<1>4. jobs' \in [Jobs -> Job]
  BY <1>1, <1>2, <1>3
<1>5. requeued' = [j \in Jobs |-> requeued[j] + IF j \in Stale THEN 1 ELSE 0]
  BY DEF Requeue
<1>6. /\ \A j \in Stale \cap Jobs : requeued'[j] = requeued[j] + 1
      /\ \A j \in Jobs \ Stale : requeued'[j] = requeued[j]
  BY <1>1, <1>5
<1>7. requeued' \in [Jobs -> Nat]
  BY <1>1, <1>5
<1>8. TypeOK'
  BY <1>1, <1>4, <1>7 DEF Requeue, TypeOK, env
<1> QED BY <1>1, <1>2, <1>3, <1>6, <1>8 DEF Stale

LEMMA RunTypes ==
  ASSUME QueueInv, NEW w \in Workers, NEW k \in held[w],
         NEW result \in {"ok", "failed", "no handler"}, NEW n \in Nat,
         report' = [report EXCEPT ![w] = [claim |-> k, result |-> result]],
         effects' = [effects EXCEPT ![k.job] = n],
         UNCHANGED <<jobs, held, env, requeued, unreported, revived>>
  PROVE  /\ TypeOK'
         /\ effects'[k.job] = n /\ \A i \in Jobs \ {k.job} : effects'[i] = effects[i]
<1>1. TypeOK /\ effects \in [Jobs -> Nat] /\ k \in Claim /\ k.job \in Jobs
  BY ClaimFacts DEF QueueInv, TypeOK
<1>2. [claim |-> k, result |-> result] \in Report
  BY <1>1 DEF Report
<1>3. report' \in [Workers -> Report \cup {Nothing}]
  BY <1>1, <1>2 DEF TypeOK
<1>4. effects' \in [Jobs -> Nat] /\ effects'[k.job] = n /\ \A i \in Jobs \ {k.job} : effects'[i] = effects[i]
  BY <1>1
<1>5. TypeOK'
  BY <1>1, <1>3, <1>4 DEF TypeOK, env
<1> QED BY <1>4, <1>5

LEMMA WriteReportTypes ==
  ASSUME QueueInv, NEW w \in Workers, WriteReport(w)
  PROVE  LET r == report[w] IN
         /\ TypeOK'
         /\ jobs'[r.claim.job] = Written(jobs[r.claim.job], r)
         /\ \A i \in Jobs \ {r.claim.job} : jobs'[i] = jobs[i]
<1> DEFINE r == report[w]
<1>1. TypeOK /\ jobs \in [Jobs -> Job] /\ held \in [Workers -> SUBSET Claim]
      /\ report \in [Workers -> Report \cup {Nothing}]
  BY DEF QueueInv, TypeOK
<1>2. r \in Report /\ r.claim.job \in Jobs
  BY ReportFacts DEF WriteReport
<1>3. /\ jobs' = [jobs EXCEPT ![r.claim.job] = Written(@, r)]
      /\ held' = [held EXCEPT ![w] = @ \ {r.claim}]
      /\ report' = [report EXCEPT ![w] = Nothing]
      /\ UNCHANGED <<env, past>>
  BY DEF WriteReport
<1>4. Written(jobs[r.claim.job], r) \in Job
  BY <1>1, <1>2, JobTypes
<1> HIDE DEF r
<1>5. /\ jobs' \in [Jobs -> Job] /\ jobs'[r.claim.job] = Written(jobs[r.claim.job], r)
      /\ \A i \in Jobs \ {r.claim.job} : jobs'[i] = jobs[i]
  BY <1>1, <1>2, <1>3, <1>4
<1>6. held' \in [Workers -> SUBSET Claim] /\ report' \in [Workers -> Report \cup {Nothing}]
  BY <1>1, <1>3
<1>7. TypeOK'
  BY <1>1, <1>3, <1>5, <1>6 DEF TypeOK, env, past
<1> QED BY <1>5, <1>7 DEF r

LEMMA ReportRefusedTypes ==
  ASSUME QueueInv, NEW w \in Workers, ReportRefused(w)
  PROVE  LET j == report[w].claim.job IN
         /\ report[w] # Nothing /\ j \in Jobs
         /\ TypeOK'
         /\ unreported'[j] = unreported[j] + 1
         /\ \A i \in Jobs \ {j} : jobs'[i] = jobs[i] /\ unreported'[i] = unreported[i]
         /\ jobs'[j].attempts = jobs[j].attempts
         /\ jobs'[j] = jobs[j] \/ jobs'[j].state = "succeeded"
<1> DEFINE r == report[w]
           j == report[w].claim.job
<1>1. TypeOK /\ unreported \in [Jobs -> Nat] /\ report \in [Workers -> Report \cup {Nothing}]
  BY DEF QueueInv, TypeOK
<1>2. report[w] # Nothing
  BY DEF ReportRefused, Nothing
<1>3. r \in Report /\ j \in Jobs
  BY <1>2, ReportFacts
<1>4. [r EXCEPT !.result = "failed"] \in Report
  BY <1>3 DEF Report
<1>5. /\ report' = [report EXCEPT ![w] = [r EXCEPT !.result = "failed"]]
      /\ unreported' = [unreported EXCEPT ![j] = @ + 1]
      /\ crashes < MaxCrashes /\ crashes' = crashes + 1
      /\ jobs' = jobs \/ jobs' = [jobs EXCEPT ![j] = Written(@, r)]
      /\ r.result = "ok"
      /\ UNCHANGED <<held, slow, requeued, effects, revived>>
  BY <1>1 DEF ReportRefused
<1>6. /\ jobs \in [Jobs -> Job]
       /\ Written(jobs[j], r) \in Job /\ Written(jobs[j], r).attempts = jobs[j].attempts
       /\ Written(jobs[j], r).state = "succeeded"
  <2>1. jobs \in [Jobs -> Job] /\ jobs[j] \in Job
    BY <1>1, <1>3 DEF TypeOK
  <2>2. Written(jobs[j], r).state = "succeeded"
    BY <1>5, <2>1 DEF Written, Job
  <2> QED BY <1>3, <2>1, <2>2, JobTypes
<1> DEFINE n == unreported[j] + 1
<1>7. n \in Nat /\ unreported' = [unreported EXCEPT ![j] = n]
  BY <1>1, <1>3, <1>5
<1>8. report' \in [Workers -> Report \cup {Nothing}]
  BY <1>1, <1>4, <1>5
<1>9. crashes' \in 0 .. MaxCrashes
  BY <1>1, <1>5, QueueAssumption DEF TypeOK, QueueAssumption
<1> HIDE DEF n, j
<1>10. unreported' \in [Jobs -> Nat] /\ unreported'[j] = n /\ \A i \in Jobs \ {j} : unreported'[i] = unreported[i]
  BY <1>1, <1>3, <1>7
<1> HIDE DEF r
<1>11. /\ jobs' \in [Jobs -> Job] /\ \A i \in Jobs \ {j} : jobs'[i] = jobs[i]
       /\ jobs'[j].attempts = jobs[j].attempts
       /\ jobs'[j] = jobs[j] \/ jobs'[j].state = "succeeded"
  BY <1>3, <1>5, <1>6
<1>12. TypeOK'
  BY <1>1, <1>5, <1>8, <1>9, <1>10, <1>11 DEF TypeOK
<1> QED BY <1>2, <1>3, <1>10, <1>12, <1>11 DEF n, j

LEMMA CrashTypes ==
  ASSUME QueueInv, NEW w \in Workers, Crash(w)
  PROVE  TypeOK'
<1>1. TypeOK
  BY DEF QueueInv
<1>2. crashes' \in 0 .. MaxCrashes
  BY <1>1, QueueAssumption DEF TypeOK, QueueAssumption, Crash
<1>3. held' \in [Workers -> SUBSET Claim] /\ report' \in [Workers -> Report \cup {Nothing}]
  BY <1>1 DEF TypeOK, Crash
<1> QED BY <1>1, <1>2, <1>3 DEF TypeOK, Crash, past
-----------------------------------------------------------------------------
(* The claims in hand.                                                     *)

\* They stay what they are while the rows go on and nothing is taken or run.
LEMMA ClaimsStay ==
  ASSUME QueueInv, UNCHANGED <<held, report>>,
         \A j \in Jobs : /\ jobs[j].state # "absent" => jobs'[j].state # "absent"
                         /\ jobs'[j].attempts = jobs[j].attempts
  PROVE  ClaimsInv'
<1>1. \A w \in Workers : \A k \in held[w] : k.job \in Jobs
  BY ClaimFacts
<1> QED BY <1>1 DEF QueueInv, ClaimsInv

LEMMA ClaimsTaken ==
  ASSUME QueueInv, NEW w \in Workers, held[w] = {}, report[w] = Nothing, UNCHANGED report,
         NEW T \in SUBSET Jobs,
         held' = [held EXCEPT ![w] = {[job |-> i, attempts |-> jobs[i].attempts + 1] : i \in T}],
         \A j \in T : jobs'[j].state = "running" /\ jobs'[j].attempts = jobs[j].attempts + 1,
         \A j \in Jobs \ T : jobs'[j] = jobs[j]
  PROVE  ClaimsInv'
<1> DEFINE K      == {[job |-> i, attempts |-> jobs[i].attempts + 1] : i \in T}
           New(i) == [job |-> i, attempts |-> jobs[i].attempts + 1]
<1>1. held \in [Workers -> SUBSET Claim] /\ \A j \in Jobs : jobs[j].attempts \in Nat
  BY NumberFacts DEF QueueInv, TypeOK
<1>2. held'[w] = K /\ \A v \in Workers \ {w} : held'[v] = held[v]
  BY <1>1
<1>3. \A k \in K : \E i \in T : k = New(i)
  OBVIOUS
<1>4. \A i \in T : New(i).job = i /\ New(i).attempts = jobs[i].attempts + 1
  OBVIOUS
<1> HIDE DEF K, New
<1>5. ASSUME NEW v \in Workers \ {w}
      PROVE  /\ report[v]' # Nothing => report[v].claim' \in held[v]'
             /\ \A k \in held[v]' : /\ jobs[k.job].state' # "absent"
                                    /\ k.attempts <= jobs[k.job].attempts'
                                    /\ \A l \in held[v]' : k.job = l.job => k = l
  <2> SUFFICES ASSUME NEW k \in held[v]
               PROVE  jobs[k.job].state' # "absent" /\ k.attempts <= jobs[k.job].attempts'
    BY <1>2 DEF QueueInv, ClaimsInv
  <2>1. k.job \in Jobs /\ k.attempts \in Nat
    BY ClaimFacts
  <2>2. jobs[k.job].state # "absent" /\ k.attempts <= jobs[k.job].attempts
    BY DEF QueueInv, ClaimsInv
  <2>3. CASE k.job \in T
    BY <1>1, <2>1, <2>2, <2>3
  <2>4. CASE k.job \notin T
    BY <2>1, <2>2, <2>4
  <2> QED BY <2>3, <2>4
<1>6. /\ report[w]' = Nothing
      /\ \A k \in held[w]' : /\ jobs[k.job].state' # "absent"
                             /\ k.attempts <= jobs[k.job].attempts'
                             /\ \A l \in held[w]' : k.job = l.job => k = l
  BY <1>1, <1>2, <1>3, <1>4
<1> QED BY <1>5, <1>6 DEF ClaimsInv

LEMMA ClaimsRun ==
  ASSUME QueueInv, NEW w \in Workers, UNCHANGED <<jobs, held>>,
         report'[w] # Nothing => report'[w].claim \in held[w],
         \A v \in Workers \ {w} : report'[v] = report[v]
  PROVE  ClaimsInv'
BY DEF QueueInv, ClaimsInv

LEMMA ClaimsReported ==
  ASSUME QueueInv, NEW w \in Workers, WriteReport(w)
  PROVE  ClaimsInv'
<1> DEFINE r == report[w]
<1>1. /\ report[w] # Nothing
      /\ held' = [held EXCEPT ![w] = @ \ {r.claim}] /\ report' = [report EXCEPT ![w] = Nothing]
  BY DEF WriteReport
<1>2. held \in [Workers -> SUBSET Claim] /\ report \in [Workers -> Report \cup {Nothing}]
  BY DEF QueueInv, TypeOK
<1> HIDE DEF r
<1>3. /\ \A v \in Workers : held'[v] \subseteq held[v]
      /\ report'[w] = Nothing
      /\ \A v \in Workers \ {w} : held'[v] = held[v] /\ report'[v] = report[v]
  BY <1>1, <1>2
<1>4. \A j \in Jobs : /\ jobs[j].state # "absent" => jobs'[j].state # "absent"
                      /\ jobs'[j].attempts = jobs[j].attempts
  <2> SUFFICES ASSUME NEW j \in Jobs
               PROVE  /\ jobs[j].state # "absent" => jobs'[j].state # "absent"
                      /\ jobs'[j].attempts = jobs[j].attempts
    OBVIOUS
  <2>1. CASE j = report[w].claim.job
    <3>1. jobs'[j] = Written(jobs[j], report[w]) /\ jobs[j] \in Job /\ report[w] \in Report
      BY <1>1, <2>1, WriteReportTypes, ReportFacts, NumberFacts
    <3> QED BY <3>1, JobTypes
  <2>2. CASE j # report[w].claim.job
    BY <2>2, WriteReportTypes
  <2> QED BY <2>1, <2>2
<1>5. \A v \in Workers : \A k \in held[v] : k.job \in Jobs
  BY ClaimFacts
<1> QED BY <1>3, <1>4, <1>5 DEF QueueInv, ClaimsInv

LEMMA ClaimsDropped ==
  ASSUME QueueInv, NEW w \in Workers, Crash(w)
  PROVE  ClaimsInv'
<1>1. /\ held'[w] = {} /\ report'[w] = Nothing /\ UNCHANGED jobs
      /\ \A v \in Workers \ {w} : held'[v] = held[v] /\ report'[v] = report[v]
  BY DEF Crash, QueueInv, TypeOK
<1> QED BY <1>1 DEF QueueInv, ClaimsInv
-----------------------------------------------------------------------------
(* The count of every job.                                                 *)

\* It is what it was when the row and the history are, and no hand is added.
LEMMA CountStays ==
  ASSUME QueueInv, NEW j \in Jobs,
         jobs'[j].state = jobs[j].state, jobs'[j].attempts = jobs[j].attempts,
         jobs'[j].error = jobs[j].error,
         Holders(j)' \subseteq Holders(j), Low(j)' \subseteq Low(j),
         Unfinished(j)' \subseteq Unfinished(j),
         requeued'[j] = requeued[j], unreported'[j] = unreported[j], effects'[j] = effects[j]
  PROVE  JobInv(j)'
<1> DEFINE h == Cardinality(Holders(j))     hh == Cardinality(Holders(j)')
           l == Cardinality(Low(j))         ll == Cardinality(Low(j)')
           u == Cardinality(Unfinished(j))  uu == Cardinality(Unfinished(j)')
<1>1. /\ h \in Nat /\ l \in Nat /\ u \in Nat /\ hh \in Nat /\ ll \in Nat /\ uu \in Nat
      /\ hh <= h /\ ll <= l /\ uu <= u
      /\ IsFiniteSet(Holders(j)')
  BY HandsFacts, CardinalityFacts
<1>2. /\ jobs[j].attempts \in Nat /\ requeued[j] \in Nat /\ unreported[j] \in Nat /\ effects[j] \in Nat
      /\ MaxAttempts \in Nat
  BY NumberFacts
<1>3. Claimable(jobs[j])' <=> Claimable(jobs[j])
  BY DEF Claimable
<1>4. HoldersInv(j)'
  BY <1>1, <1>2, <1>3 DEF QueueInv, JobInv, HoldersInv
<1>5. AttemptsInv(j)'
  BY <1>1, <1>2, <1>3 DEF QueueInv, JobInv, AttemptsInv
<1>6. EffectsInv(j)'
  BY <1>1, <1>2, <1>3 DEF QueueInv, JobInv, EffectsInv
<1> QED BY <1>4, <1>5, <1>6 DEF JobInv

\* A new row has no past.
LEMMA CountEnqueued ==
  ASSUME QueueInv, NEW j \in Jobs, Enqueue(j)
  PROVE  JobInv(j)'
<1>1. Holders(j) = {} /\ Low(j) = {} /\ Unfinished(j) = {}
  BY DEF Holders, Low, Unfinished, Enqueue, QueueInv, ClaimsInv
<1>2. Holders(j)' = {} /\ Low(j)' = {} /\ Unfinished(j)' = {}
  BY <1>1, SameHands DEF Enqueue
<1>3. effects[j] = 0 /\ jobs[j].attempts = 0
  BY DEF Enqueue, QueueInv, JobInv, EffectsInv
<1>4. /\ jobs'[j].state = "pending" /\ jobs'[j].attempts = 0
      /\ requeued'[j] = requeued[j] /\ unreported'[j] = unreported[j] /\ effects'[j] = 0
  BY <1>3, RowSteps DEF Enqueue, past
<1>5. IsFiniteSet({}) /\ Cardinality({}) = 0
  BY FS_EmptySet
<1> QED
  BY <1>2, <1>4, <1>5, NumberFacts DEF JobInv, HoldersInv, AttemptsInv, EffectsInv, Claimable

\* A claim takes the job's being there to claim into the claimer's hands.
LEMMA CountTaken ==
  ASSUME QueueInv, NEW w \in Workers, held[w] = {}, report[w] = Nothing, UNCHANGED report,
         NEW T \in SUBSET Jobs,
         held' = [held EXCEPT ![w] = {[job |-> i, attempts |-> jobs[i].attempts + 1] : i \in T}],
         UNCHANGED <<requeued, unreported, effects>>,
         NEW j \in T, Claimable(jobs[j]),
         jobs'[j].state = "running", jobs'[j].attempts = jobs[j].attempts + 1
  PROVE  JobInv(j)'
<1> DEFINE a == jobs[j].attempts
<1>1. /\ w \notin Holders(j) /\ w \notin Low(j) /\ w \notin Unfinished(j)
      /\ Holders(j)' = Holders(j) \cup {w}
      /\ Low(j)' = Low(j) \cup (IF a + 1 < MaxAttempts THEN {w} ELSE {})
      /\ Unfinished(j)' = Unfinished(j) \cup {w}
  BY Taking
<1>2. /\ a \in Nat /\ requeued[j] \in Nat /\ unreported[j] \in Nat /\ effects[j] \in Nat
      /\ MaxAttempts \in Nat /\ MaxAttempts > 0
  BY NumberFacts
<1>3. /\ IsFiniteSet(Holders(j)') /\ Cardinality(Holders(j)') <= Cardinality(Holders(j)) + 1
      /\ Cardinality(Holders(j)') \in Nat /\ Cardinality(Holders(j)) \in Nat
  BY <1>1, HandsFacts, CardinalityFacts
<1>4. /\ Cardinality(Unfinished(j)') <= Cardinality(Unfinished(j)) + 1
      /\ Cardinality(Unfinished(j)') \in Nat /\ Cardinality(Unfinished(j)) \in Nat
  BY <1>1, HandsFacts, CardinalityFacts
<1>5. /\ a + 1 < MaxAttempts => Cardinality(Low(j)') <= Cardinality(Low(j)) + 1
      /\ ~(a + 1 < MaxAttempts) => Cardinality(Low(j)') = Cardinality(Low(j))
      /\ Cardinality(Low(j)') \in Nat /\ Cardinality(Low(j)) \in Nat
  <2>1. Cardinality(Low(j)) \in Nat /\ IsFiniteSet(Low(j))
    BY HandsFacts
  <2>2. CASE a + 1 < MaxAttempts
    <3>1. Low(j)' = Low(j) \cup {w}
      BY <1>1, <2>2
    <3> QED BY <2>1, <2>2, <3>1, CardinalityFacts
  <2>3. CASE ~(a + 1 < MaxAttempts)
    <3>1. Low(j)' = Low(j)
      BY <1>1, <2>3
    <3> QED BY <2>1, <2>3, <3>1
  <2> QED BY <2>2, <2>3
<1>6. jobs[j].state # "running"
  BY DEF Claimable
<1>7. ~Claimable(jobs[j])' /\ jobs'[j].attempts = a + 1
  BY DEF Claimable
<1> HIDE DEF a
<1>8. HoldersInv(j)'
  BY <1>2, <1>3, <1>6, <1>7 DEF QueueInv, JobInv, HoldersInv
<1>9. AttemptsInv(j)'
  <2>1. (IF a < MaxAttempts THEN 0 ELSE a - MaxAttempts + 1) + Cardinality(Low(j)) + 1 <= 1 + requeued[j]
    BY DEF QueueInv, JobInv, AttemptsInv, a
  <2>2. (IF a + 1 < MaxAttempts THEN 0 ELSE a + 1 - MaxAttempts + 1) + Cardinality(Low(j)') <= 1 + requeued[j]
    BY <1>2, <1>5, <2>1
  <2> QED BY <1>2, <1>5, <1>7, <2>2 DEF AttemptsInv
<1>10. EffectsInv(j)'
  BY <1>2, <1>4, <1>7 DEF QueueInv, JobInv, EffectsInv
<1> QED BY <1>8, <1>9, <1>10 DEF JobInv

\* A job that is taken back is there to claim once more, beside whoever has it.
LEMMA CountRequeued ==
  ASSUME QueueInv, NEW w \in Workers, Requeue(w), NEW j \in Stale
  PROVE  JobInv(j)'
<1>1. /\ j \in Jobs /\ jobs[j].state = "running" /\ jobs'[j].state = "pending"
      /\ jobs'[j].attempts = jobs[j].attempts /\ requeued'[j] = requeued[j] + 1
  BY RequeueTypes
<1>2. /\ Holders(j)' = Holders(j) /\ Low(j)' = Low(j) /\ Unfinished(j)' = Unfinished(j)
      /\ unreported' = unreported /\ effects' = effects
  BY <1>1, SameHands DEF Requeue
<1>3. /\ jobs[j].attempts \in Nat /\ requeued[j] \in Nat /\ unreported[j] \in Nat /\ effects[j] \in Nat
      /\ MaxAttempts \in Nat
  BY <1>1, NumberFacts
<1>4. /\ IsFiniteSet(Holders(j)) /\ Cardinality(Holders(j)) \in Nat
      /\ Cardinality(Low(j)) \in Nat /\ Cardinality(Unfinished(j)) \in Nat
  BY <1>1, HandsFacts
<1>5. ~Claimable(jobs[j]) /\ Claimable(jobs[j])'
  BY <1>1 DEF Claimable
<1>6. HoldersInv(j)'
  BY <1>1, <1>2, <1>3, <1>4, <1>5 DEF QueueInv, JobInv, HoldersInv
<1>7. AttemptsInv(j)'
  BY <1>1, <1>2, <1>3, <1>4, <1>5 DEF QueueInv, JobInv, AttemptsInv
<1>8. EffectsInv(j)'
  BY <1>1, <1>2, <1>3, <1>4, <1>5 DEF QueueInv, JobInv, EffectsInv
<1> QED BY <1>6, <1>7, <1>8 DEF JobInv

\* A completion to come has come.
LEMMA CountCompleted ==
  ASSUME QueueInv, NEW j \in Jobs, NEW w \in Unfinished(j),
         jobs'[j] = jobs[j], effects'[j] = effects[j] + 1,
         Holders(j)' = Holders(j), Low(j)' = Low(j), Unfinished(j)' = Unfinished(j) \ {w},
         UNCHANGED <<requeued, unreported>>, jobs[j].state # "absent"
  PROVE  JobInv(j)'
<1>1. Cardinality(Unfinished(j)') = Cardinality(Unfinished(j)) - 1
  BY HandsFacts, CardinalityFacts
<1>2. Cardinality(Unfinished(j)) \in Nat
  BY HandsFacts
<1>3. requeued[j] \in Nat /\ unreported[j] \in Nat /\ effects[j] \in Nat
  BY NumberFacts
<1>4. HoldersInv(j)' /\ AttemptsInv(j)'
  BY DEF QueueInv, JobInv, HoldersInv, AttemptsInv, Claimable
<1>5. /\ Claimable(jobs[j])' <=> Claimable(jobs[j])
      /\ jobs'[j].state # "absent" /\ requeued'[j] = requeued[j] /\ unreported'[j] = unreported[j]
  BY DEF Claimable
<1>6. EffectsInv(j)'
  BY <1>1, <1>2, <1>3, <1>5 DEF QueueInv, JobInv, EffectsInv
<1> QED BY <1>4, <1>6 DEF JobInv

\* A success the worker is not told of may come again, whether the row has it or
\* not: nobody can claim the row more than before.
LEMMA CountRefused ==
  ASSUME QueueInv, NEW j \in Jobs, NEW w \in Holders(j),
         jobs'[j].attempts = jobs[j].attempts, jobs'[j].state # "absent",
         Claimable(jobs[j])' => Claimable(jobs[j]),
         effects' = effects, requeued' = requeued,
         unreported'[j] = unreported[j] + 1,
         Holders(j)' = Holders(j), Low(j)' = Low(j), Unfinished(j)' = Unfinished(j) \cup {w}
  PROVE  JobInv(j)'
<1>1. /\ Cardinality(Unfinished(j)') <= Cardinality(Unfinished(j)) + 1
      /\ Cardinality(Unfinished(j)) \in Nat /\ Cardinality(Unfinished(j)') \in Nat
      /\ Cardinality(Holders(j)) \in Nat /\ Cardinality(Low(j)) \in Nat
  BY HandsFacts, CardinalityFacts
<1>2. /\ requeued[j] \in Nat /\ unreported[j] \in Nat /\ effects[j] \in Nat
      /\ jobs[j].attempts \in Nat /\ MaxAttempts \in Nat
  BY NumberFacts
<1>3. unreported'[j] # 0 /\ requeued'[j] = requeued[j] /\ effects'[j] = effects[j]
  BY <1>2
<1>4. HoldersInv(j)'
  BY <1>1, <1>2, <1>3 DEF QueueInv, JobInv, HoldersInv
<1>5. AttemptsInv(j)'
  BY <1>1, <1>2, <1>3 DEF QueueInv, JobInv, AttemptsInv
<1>6. EffectsInv(j)'
  BY <1>1, <1>2, <1>3 DEF QueueInv, JobInv, EffectsInv
<1> QED BY <1>4, <1>5, <1>6 DEF JobInv

\* What a report makes of a row: a failure puts it back only when its claim had
\* attempts left, or leaves it for a worker that knows it.
LEMMA WrittenState ==
  ASSUME NEW job \in Job, NEW r \in Report
  PROVE  /\ r.result = "ok" => ~Claimable(Written(job, r))
         /\ Claimable(Written(job, r)) => r.claim.attempts < MaxAttempts \/ job.attempts < MaxAttempts
<1>1. CASE r.result = "ok"
  <2>1. Written(job, r).state = "succeeded"
    BY <1>1 DEF Written, Job
  <2> QED BY <1>1, <2>1 DEF Claimable
<1>2. CASE r.result # "ok"
  <2> DEFINE s == IF Ends(r) THEN "dead" ELSE "pending"
             e == r.result
  <2>1. Written(job, r) = [job EXCEPT !.state = s, !.due = FALSE, !.expired = FALSE, !.error = e]
    BY <1>2 DEF Written
  <2>2. s = "pending" => ~Ends(r)
    OBVIOUS
  <2> HIDE DEF s, e
  <2>3. Written(job, r).state = s /\ Written(job, r).attempts = job.attempts
    BY <2>1 DEF Job
  <2>4. ~Ends(r) => r.claim.attempts < MaxAttempts
    <3>1. r.claim.attempts \in Nat /\ MaxAttempts \in Nat
      BY QueueAssumption DEF Report, Claim, QueueAssumption
    <3>2. ~Ends(r) => ~(r.claim.attempts >= MaxAttempts)
      BY Zenon DEF Ends
    <3> QED BY <3>1, <3>2
  <2> QED BY <1>2, <2>2, <2>3, <2>4 DEF Claimable
<1> QED BY <1>1, <1>2

\* A report gives the claim back, to the row if it can.
LEMMA CountWritten ==
  ASSUME QueueInv, NEW w \in Workers, WriteReport(w), NEW j \in Jobs, j = report[w].claim.job
  PROVE  JobInv(j)'
<1> DEFINE r == report[w]
           k == report[w].claim
<1>1. /\ r \in Report /\ k \in held[w] /\ k.attempts \in Nat
      /\ jobs[j] \in Job /\ jobs[j].attempts \in Nat
      /\ requeued[j] \in Nat /\ unreported[j] \in Nat /\ effects[j] \in Nat
      /\ MaxAttempts \in Nat
  BY ReportFacts, NumberFacts DEF WriteReport
<1>2. /\ jobs[j].state # "absent" /\ k.attempts <= jobs[j].attempts
  BY <1>1 DEF QueueInv, ClaimsInv
<1>3. jobs'[j] = Written(jobs[j], r) /\ UNCHANGED <<requeued, unreported, effects>>
  BY WriteReportTypes DEF WriteReport, past
<1>4. /\ jobs'[j].attempts = jobs[j].attempts /\ jobs'[j].state \in {"succeeded", "dead", "pending"}
      /\ Claimable(jobs[j])' => r.result # "ok" /\ k.attempts < MaxAttempts
  <2>1. jobs'[j].attempts = jobs[j].attempts /\ jobs'[j].state \in {"succeeded", "dead", "pending"}
    BY <1>1, <1>3, JobTypes
  <2>2. Claimable(jobs[j])' => r.result # "ok" /\ (k.attempts < MaxAttempts \/ jobs[j].attempts < MaxAttempts)
    BY <1>1, <1>3, WrittenState
  <2> QED BY <1>1, <1>2, <2>1, <2>2
<1>5. /\ w \in Holders(j) /\ Holders(j)' = Holders(j) \ {w}
      /\ Low(j)' = Low(j) \ {w} /\ Unfinished(j)' = Unfinished(j) \ {w}
      /\ k.attempts < MaxAttempts => w \in Low(j)
      /\ r.result # "ok" => w \in Unfinished(j)
  BY Reporting
<1>6. /\ Cardinality(Holders(j)') = Cardinality(Holders(j)) - 1 /\ IsFiniteSet(Holders(j)')
      /\ Cardinality(Holders(j)) \in Nat
  BY <1>5, HandsFacts, CardinalityFacts
<1>7. /\ Cardinality(Low(j)) \in Nat /\ Cardinality(Low(j)') \in Nat
      /\ Cardinality(Low(j)') <= Cardinality(Low(j))
      /\ Claimable(jobs[j])' => Cardinality(Low(j)') = Cardinality(Low(j)) - 1
  <2>1. IsFiniteSet(Low(j)) /\ Low(j)' \subseteq Low(j)
    BY <1>5, HandsFacts
  <2>2. Claimable(jobs[j])' => w \in Low(j)
    BY <1>4, <1>5
  <2> QED BY <1>5, <2>1, <2>2, CardinalityFacts
<1>8. /\ Cardinality(Unfinished(j)) \in Nat /\ Cardinality(Unfinished(j)') \in Nat
      /\ Cardinality(Unfinished(j)') <= Cardinality(Unfinished(j))
      /\ Claimable(jobs[j])' => Cardinality(Unfinished(j)') = Cardinality(Unfinished(j)) - 1
  <2>1. IsFiniteSet(Unfinished(j)) /\ Unfinished(j)' \subseteq Unfinished(j)
    BY <1>5, HandsFacts
  <2>2. Claimable(jobs[j])' => w \in Unfinished(j)
    BY <1>4, <1>5
  <2> QED BY <1>5, <2>1, <2>2, CardinalityFacts
<1> HIDE DEF r, k
<1>9. HoldersInv(j)'
  BY <1>1, <1>3, <1>4, <1>6 DEF QueueInv, JobInv, HoldersInv
<1>10. AttemptsInv(j)'
  BY <1>1, <1>3, <1>4, <1>7 DEF QueueInv, JobInv, AttemptsInv
<1>11. EffectsInv(j)'
  BY <1>1, <1>2, <1>3, <1>4, <1>8 DEF QueueInv, JobInv, EffectsInv
<1> QED BY <1>9, <1>10, <1>11 DEF JobInv
-----------------------------------------------------------------------------
(* The invariant holds initially and is kept by every step.                *)

LEMMA QueueInit == Init => QueueInv
<1> SUFFICES ASSUME Init PROVE QueueInv
  OBVIOUS
<1>1. MaxAttempts \in Nat /\ MaxAttempts > 0 /\ MaxCrashes \in Nat /\ MaxSlow \in Nat
  BY QueueAssumption DEF QueueAssumption
<1>2. TypeOK
  <2>1. \A j \in Jobs : jobs[j] \in Job
    BY DEF Init, Job, States
  <2> QED BY <1>1, <2>1 DEF Init, TypeOK
<1>3. ClaimsInv
  BY DEF Init, ClaimsInv
<1>4. ASSUME NEW j \in Jobs PROVE JobInv(j)
  <2>1. Holders(j) = {} /\ Low(j) = {} /\ Unfinished(j) = {}
    BY DEF Init, Holders, Low, Unfinished
  <2>2. IsFiniteSet({}) /\ Cardinality({}) = 0
    BY FS_EmptySet
  <2>3. /\ jobs[j].state = "absent" /\ jobs[j].attempts = 0
        /\ requeued[j] = 0 /\ unreported[j] = 0 /\ effects[j] = 0
    BY DEF Init
  <2> QED BY <1>1, <2>1, <2>2, <2>3 DEF JobInv, HoldersInv, AttemptsInv, EffectsInv, Claimable
<1> QED BY <1>2, <1>3, <1>4 DEF QueueInv

LEMMA QueueStutter == QueueInv /\ UNCHANGED vars => QueueInv'
<1> SUFFICES ASSUME QueueInv, UNCHANGED vars PROVE QueueInv'
  OBVIOUS
<1>1. TypeOK' /\ ClaimsInv'
  BY DEF vars, QueueInv, TypeOK, ClaimsInv
<1>2. ASSUME NEW j \in Jobs PROVE JobInv(j)'
  BY HandsFacts, SameHands, CountStays DEF vars
<1> QED BY <1>1, <1>2 DEF QueueInv

\* No jobs row, and nobody's hands, but those of j are touched.
LEMMA OthersStay ==
  ASSUME QueueInv, NEW i \in Jobs, jobs'[i] = jobs[i], UNCHANGED <<held, report>>,
         requeued'[i] = requeued[i], unreported'[i] = unreported[i], effects'[i] = effects[i]
  PROVE  JobInv(i)'
<1>1. Holders(i)' = Holders(i) /\ Low(i)' = Low(i) /\ Unfinished(i)' = Unfinished(i)
  BY SameHands
<1> QED BY <1>1, CountStays

LEMMA TableStep ==
  ASSUME QueueInv, NEW j \in Jobs, Enqueue(j) \/ BecomeDue(j) \/ Expire(j)
  PROVE  QueueInv'
<1>1. UNCHANGED <<held, report, past>>
  BY DEF Enqueue, BecomeDue, Expire
<1>2. TypeOK' /\ jobs'[j].attempts = jobs[j].attempts /\ \A i \in Jobs \ {j} : jobs'[i] = jobs[i]
  BY RowSteps
<1>3. jobs[j].state # "absent" => jobs'[j].state # "absent"
  BY RowSteps
<1>4. ClaimsInv'
  BY <1>1, <1>2, <1>3, ClaimsStay
<1>5. ASSUME NEW i \in Jobs PROVE JobInv(i)'
  <2>1. CASE i # j
    BY <1>1, <1>2, <2>1, OthersStay DEF past
  <2>2. CASE i = j /\ Enqueue(j)
    BY <2>2, CountEnqueued
  <2>3. CASE i = j /\ (BecomeDue(j) \/ Expire(j))
    <3>1. /\ jobs'[j].state = jobs[j].state /\ jobs'[j].error = jobs[j].error
          /\ Holders(j)' = Holders(j) /\ Low(j)' = Low(j) /\ Unfinished(j)' = Unfinished(j)
      BY <1>1, <2>3, RowSteps, SameHands
    <3> QED BY <1>1, <1>2, <2>3, <3>1, CountStays DEF past
  <2> QED BY <2>1, <2>2, <2>3
<1> QED BY <1>2, <1>4, <1>5 DEF QueueInv

LEMMA ClaimStep ==
  ASSUME QueueInv, NEW w \in Workers, ClaimOne(w) \/ ClaimKilled(w)
  PROVE  QueueInv'
<1>1. held[w] = {} /\ report[w] = Nothing /\ UNCHANGED <<report, requeued, unreported, effects>>
  BY DEF ClaimOne, ClaimKilled, Polling, past
<1>2. PICK T \in SUBSET Jobs :
        /\ TypeOK'
        /\ held' = [held EXCEPT ![w] = {[job |-> i, attempts |-> jobs[i].attempts + 1] : i \in T}]
        /\ \A j \in T : /\ Claimable(jobs[j])
                        /\ jobs'[j].state = "running" /\ jobs'[j].attempts = jobs[j].attempts + 1
        /\ \A j \in Jobs \ T : jobs'[j] = jobs[j]
  <2>1. CASE ClaimOne(w)
    <3>1. PICK j \in Jobs :
            /\ jobs[j].state = "pending"
            /\ jobs' = [jobs EXCEPT ![j] = Locked(@)]
            /\ held' = [held EXCEPT ![w] = {[job |-> j, attempts |-> jobs[j].attempts + 1]}]
            /\ UNCHANGED <<report, env, past>>
      BY <2>1 DEF ClaimOne
    <3>2. TypeOK' /\ jobs'[j] = Locked(jobs[j]) /\ \A i \in Jobs \ {j} : jobs'[i] = jobs[i]
      BY <3>1, ClaimOneTypes
    <3>3. jobs'[j].state = "running" /\ jobs'[j].attempts = jobs[j].attempts + 1
      BY <3>2, NumberFacts, JobTypes
    <3>4. Claimable(jobs[j])
      BY <3>1 DEF Claimable
    <3>5. {[job |-> j, attempts |-> jobs[j].attempts + 1]}
            = {[job |-> i, attempts |-> jobs[i].attempts + 1] : i \in {j}}
      OBVIOUS
    <3>6. held' = [held EXCEPT ![w] = {[job |-> i, attempts |-> jobs[i].attempts + 1] : i \in {j}}]
      BY <3>1, <3>5, Zenon
    <3> QED BY <3>2, <3>3, <3>4, <3>6
  <2>2. CASE ClaimKilled(w)
    <3>1. /\ TypeOK' /\ Revivable(w) \subseteq Jobs
          /\ \A j \in Revivable(w) : /\ jobs'[j].state = "running"
                                     /\ jobs'[j].attempts = jobs[j].attempts + 1
          /\ \A i \in Jobs \ Revivable(w) : jobs'[i] = jobs[i]
      BY <2>2, ClaimKilledTypes
    <3>2. held' = [held EXCEPT ![w] = {[job |-> i, attempts |-> jobs[i].attempts + 1] : i \in Revivable(w)}]
      BY <2>2, Zenon DEF ClaimKilled
    <3>3. \A j \in Revivable(w) : Claimable(jobs[j])
      BY DEF Revivable, Claimable
    <3> QED BY <3>1, <3>2, <3>3
  <2> QED BY <2>1, <2>2
<1>3. ClaimsInv'
  BY <1>1, <1>2, ClaimsTaken
<1>4. ASSUME NEW j \in Jobs PROVE JobInv(j)'
  <2>1. CASE j \in T
    BY <1>1, <1>2, <2>1, CountTaken
  <2>2. CASE j \notin T
    <3>1. Holders(j)' = Holders(j) /\ Low(j)' = Low(j) /\ Unfinished(j)' = Unfinished(j)
      BY <1>1, <1>2, <2>2, Taking
    <3> QED BY <1>1, <1>2, <2>2, <3>1, CountStays
  <2> QED BY <2>1, <2>2
<1> QED BY <1>2, <1>3, <1>4 DEF QueueInv

LEMMA RequeueStep ==
  ASSUME QueueInv, NEW w \in Workers, Requeue(w)
  PROVE  QueueInv'
<1>1. UNCHANGED <<held, report, unreported, effects>>
  BY DEF Requeue
<1>2. /\ TypeOK' /\ Stale \subseteq Jobs
      /\ \A j \in Stale : jobs'[j].state = "pending" /\ jobs'[j].attempts = jobs[j].attempts
      /\ \A i \in Jobs \ Stale : jobs'[i] = jobs[i] /\ requeued'[i] = requeued[i]
  BY RequeueTypes
<1>3. ClaimsInv'
  BY <1>1, <1>2, ClaimsStay
<1>4. ASSUME NEW j \in Jobs PROVE JobInv(j)'
  <2>1. CASE j \in Stale
    BY <2>1, CountRequeued
  <2>2. CASE j \notin Stale
    BY <1>1, <1>2, <2>2, OthersStay
  <2> QED BY <2>1, <2>2
<1> QED BY <1>2, <1>3, <1>4 DEF QueueInv

LEMMA OneMore ==
  ASSUME NEW e \in Nat, NEW done \in BOOLEAN
  PROVE  /\ (IF done THEN e + 1 ELSE e) \in Nat
         /\ e + (IF done THEN 1 ELSE 0) = IF done THEN e + 1 ELSE e
OBVIOUS

LEMMA RunStep ==
  ASSUME QueueInv, NEW w \in Workers, Run(w)
  PROVE  QueueInv'
<1>1. /\ report[w] = Nothing
      /\ UNCHANGED <<jobs, held, env, requeued, unreported, revived>>
  BY DEF Run
<1>2. PICK k \in held[w], result \in {"ok", "failed", "no handler"} :
        /\ report' = [report EXCEPT ![w] = [claim |-> k, result |-> result]]
        /\ effects' = [effects EXCEPT ![k.job] = @ + IF result = "ok" THEN 1 ELSE 0]
  BY DEF Run
<1>3. k \in Claim /\ k.job \in Jobs /\ effects[k.job] \in Nat /\ jobs[k.job].state # "absent"
  BY ClaimFacts, NumberFacts DEF QueueInv, ClaimsInv
<1> DEFINE n == IF result = "ok" THEN effects[k.job] + 1 ELSE effects[k.job]
<1>4. n \in Nat /\ effects' = [effects EXCEPT ![k.job] = n]
  <2>0. effects[k.job] \in Nat /\ (result = "ok") \in BOOLEAN
    BY <1>3
  <2>1. n \in Nat
    BY <2>0, OneMore, Zenon
  <2>2. effects[k.job] + (IF result = "ok" THEN 1 ELSE 0) = n
    BY <2>0, OneMore, Zenon
  <2> HIDE DEF n
  <2>3. effects' = [effects EXCEPT ![k.job] = n]
    BY <1>2, <2>2, Zenon
  <2> QED BY <2>1, <2>3
<1>5. TypeOK' /\ effects'[k.job] = n /\ \A i \in Jobs \ {k.job} : effects'[i] = effects[i]
  <2> HIDE DEF n
  <2>1. report' = [report EXCEPT ![w] = [claim |-> k, result |-> result]]
    BY <1>2
  <2> QED BY <1>1, <1>4, <2>1, RunTypes, Zenon
<1>6. ClaimsInv'
  <2>1. report \in [Workers -> Report \cup {Nothing}]
    BY DEF QueueInv, TypeOK
  <2>2. report'[w] = [claim |-> k, result |-> result] /\ \A v \in Workers \ {w} : report'[v] = report[v]
    BY <1>2, <2>1
  <2>3. report'[w].claim \in held[w]
    <3>1. [claim |-> k, result |-> result].claim = k
      OBVIOUS
    <3> QED BY <2>2, <3>1, Zenon
  <2> QED BY <1>1, <2>2, <2>3, ClaimsRun
<1>7. ASSUME NEW j \in Jobs PROVE JobInv(j)'
  <2>1. /\ Holders(j)' = Holders(j) /\ Low(j)' = Low(j)
        /\ j = k.job => w \in Unfinished(j)
        /\ Unfinished(j)' = IF j = k.job /\ result = "ok" THEN Unfinished(j) \ {w} ELSE Unfinished(j)
    BY <1>1, <1>2, Running
  <2>2. CASE j = k.job /\ result = "ok"
    <3>1. effects'[j] = effects[j] + 1 /\ Unfinished(j)' = Unfinished(j) \ {w}
      BY <1>4, <1>5, <2>1, <2>2
    <3> QED BY <1>1, <1>3, <2>1, <2>2, <3>1, CountCompleted
  <2>3. CASE ~(j = k.job /\ result = "ok")
    <3>1. effects'[j] = effects[j] /\ Unfinished(j)' = Unfinished(j)
      BY <1>4, <1>5, <2>1, <2>3
    <3> QED BY <1>1, <2>1, <3>1, CountStays
  <2> QED BY <2>2, <2>3
<1> QED BY <1>5, <1>6, <1>7 DEF QueueInv

LEMMA WriteReportStep ==
  ASSUME QueueInv, NEW w \in Workers, WriteReport(w)
  PROVE  QueueInv'
<1>1. TypeOK' /\ \A i \in Jobs \ {report[w].claim.job} : jobs'[i] = jobs[i]
  BY WriteReportTypes
<1>2. ClaimsInv'
  BY ClaimsReported
<1>3. ASSUME NEW j \in Jobs PROVE JobInv(j)'
  <2>1. CASE j = report[w].claim.job
    BY <2>1, CountWritten
  <2>2. CASE j # report[w].claim.job
    <3>1. Holders(j)' = Holders(j) /\ Low(j)' = Low(j) /\ Unfinished(j)' = Unfinished(j)
      BY <2>2, Reporting
    <3>2. UNCHANGED <<requeued, unreported, effects>>
      BY DEF WriteReport, past
    <3> QED BY <1>1, <2>2, <3>1, <3>2, CountStays
  <2> QED BY <2>1, <2>2
<1> QED BY <1>1, <1>2, <1>3 DEF QueueInv

LEMMA ReportRefusedStep ==
  ASSUME QueueInv, NEW w \in Workers, ReportRefused(w)
  PROVE  QueueInv'
<1> DEFINE i == report[w].claim.job
<1>1. /\ report[w] # Nothing /\ i \in Jobs /\ TypeOK'
      /\ unreported'[i] = unreported[i] + 1
      /\ \A j \in Jobs \ {i} : jobs'[j] = jobs[j] /\ unreported'[j] = unreported[j]
      /\ jobs'[i].attempts = jobs[i].attempts
      /\ jobs'[i] = jobs[i] \/ jobs'[i].state = "succeeded"
  BY ReportRefusedTypes
<1>2. UNCHANGED <<held, requeued, effects>> /\ report' = [report EXCEPT ![w].result = "failed"]
  BY DEF ReportRefused
<1>3. /\ report \in [Workers -> Report \cup {Nothing}] /\ report[w] \in Report
      /\ report[w].claim \in held[w] /\ jobs[i].state # "absent" /\ w \in Holders(i)
  BY <1>1, ReportFacts DEF QueueInv, TypeOK, ClaimsInv, Holders
<1>4. \A j \in Jobs : /\ jobs[j].state # "absent" => jobs'[j].state # "absent"
                      /\ jobs'[j].attempts = jobs[j].attempts
  BY <1>1
<1>5. ClaimsInv'
  <2>1. /\ report'[w] = [report[w] EXCEPT !.result = "failed"]
        /\ \A v \in Workers \ {w} : report'[v] = report[v]
    BY <1>2, <1>3
  <2>2. report'[w].claim = report[w].claim
    BY <1>3, <2>1 DEF Report
  <2>3. \A v \in Workers : \A k \in held[v] : k.job \in Jobs
    BY ClaimFacts
  <2>4. \A v \in Workers : report'[v] # Nothing => report'[v].claim \in held[v]
    BY <1>3, <2>1, <2>2 DEF QueueInv, ClaimsInv
  <2> QED BY <1>2, <1>4, <2>3, <2>4 DEF QueueInv, ClaimsInv
<1>6. ASSUME NEW j \in Jobs PROVE JobInv(j)'
  <2>1. /\ Holders(j)' = Holders(j) /\ Low(j)' = Low(j)
        /\ Unfinished(j)' = IF j = i THEN Unfinished(j) \cup {w} ELSE Unfinished(j)
    BY Refusing
  <2>2. CASE j = i
    <3>1. Unfinished(j)' = Unfinished(j) \cup {w}
      BY <2>1, <2>2
    <3>2. Claimable(jobs[j])' => Claimable(jobs[j])
      BY <1>1, <2>2 DEF Claimable
    <3>3. jobs'[j].state # "absent"
      BY <1>3, <1>4, <2>2
    <3> QED BY <1>1, <1>2, <1>3, <2>1, <2>2, <3>1, <3>2, <3>3, CountRefused
  <2>3. CASE j # i
    <3>1. Unfinished(j)' = Unfinished(j)
      BY <2>1, <2>3
    <3> QED BY <1>1, <1>2, <2>1, <2>3, <3>1, CountStays
  <2> QED BY <2>2, <2>3
<1> QED BY <1>1, <1>5, <1>6 DEF QueueInv

LEMMA CrashStep ==
  ASSUME QueueInv, NEW w \in Workers, Crash(w)
  PROVE  QueueInv'
<1>1. TypeOK' /\ ClaimsInv'
  BY CrashTypes, ClaimsDropped
<1>2. UNCHANGED <<jobs, requeued, unreported, effects>>
  BY DEF Crash, past
<1>3. ASSUME NEW j \in Jobs PROVE JobInv(j)'
  BY <1>2, Crashing, CountStays
<1> QED BY <1>1, <1>3 DEF QueueInv

LEMMA QueueStep == QueueInv /\ [Next]_vars => QueueInv'
<1> SUFFICES ASSUME QueueInv, [Next]_vars PROVE QueueInv'
  OBVIOUS
<1>1. ASSUME NEW j \in Jobs, Enqueue(j) \/ BecomeDue(j) \/ Expire(j) PROVE QueueInv'
  BY <1>1, TableStep
<1>2. ASSUME NEW w \in Workers, Work(w) PROVE QueueInv'
  BY <1>2, ClaimStep, RequeueStep, RunStep, WriteReportStep DEF Work
<1>3. ASSUME NEW w \in Workers, ReportRefused(w) PROVE QueueInv'
  BY <1>3, ReportRefusedStep
<1>4. ASSUME NEW w \in Workers, Crash(w) PROVE QueueInv'
  BY <1>4, CrashStep
<1>5. CASE UNCHANGED vars
  BY <1>5, QueueStutter
<1> QED BY <1>1, <1>2, <1>3, <1>4, <1>5 DEF Next

LEMMA Invariance == Spec => []QueueInv
BY QueueInit, QueueStep, PTL DEF Spec
-----------------------------------------------------------------------------
(* The theorems.                                                           *)

\* The table and the workers' memory keep their types.
THEOREM TypeCorrect == Spec => []TypeOK
<1>1. QueueInv => TypeOK
  BY DEF QueueInv
<1> QED BY <1>1, Invariance, PTL

\* Two workers have a job in hand only after it was taken back from one of them.
THEOREM OneWorkerPerJobAlways == Spec => []OneWorkerPerJob
<1>1. QueueInv => OneWorkerPerJob
  <2> SUFFICES ASSUME QueueInv, NEW j \in Jobs PROVE Cardinality(Holders(j)) <= 1 + requeued[j]
    BY DEF OneWorkerPerJob
  <2> QED BY HandsFacts, NumberFacts DEF QueueInv, JobInv, HoldersInv
<1> QED BY <1>1, Invariance, PTL

\* A job is not tried more often than MaxAttempts and its takings back allow, by
\* however many workers, reporting however late.
THEOREM AttemptsAlwaysBounded == Spec => []AttemptsAreBounded
<1>1. QueueInv => AttemptsAreBounded
  <2> SUFFICES ASSUME QueueInv, NEW j \in Jobs PROVE jobs[j].attempts <= MaxAttempts + requeued[j]
    BY DEF AttemptsAreBounded
  <2>1. /\ jobs[j].attempts \in Nat /\ requeued[j] \in Nat /\ MaxAttempts \in Nat
        /\ Cardinality(Low(j)) \in Nat
    BY HandsFacts, NumberFacts
  <2>2. (IF jobs[j].attempts < MaxAttempts THEN 0 ELSE jobs[j].attempts - MaxAttempts + 1)
          + Cardinality(Low(j)) + (IF Claimable(jobs[j]) THEN 1 ELSE 0) <= 1 + requeued[j]
    BY DEF QueueInv, JobInv, AttemptsInv
  <2> QED BY <2>1, <2>2
<1> QED BY <1>1, Invariance, PTL

\* A handler completes a second time only after a taking back, or a success that
\* could not be written.
THEOREM CompletedOnceAlways == Spec => []CompletedOnce
<1>1. QueueInv => CompletedOnce
  <2> SUFFICES ASSUME QueueInv, NEW j \in Jobs PROVE effects[j] <= 1 + requeued[j] + unreported[j]
    BY DEF CompletedOnce
  <2> QED BY HandsFacts, NumberFacts DEF QueueInv, JobInv, EffectsInv
<1> QED BY <1>1, Invariance, PTL

\* A success is not undone unless the job was once taken back, or a worker was not
\* told that its success is written: nobody else is left with a claim of it to
\* report.
THEOREM SuccessStaysFinal == Spec => SuccessIsFinal
<1> DEFINE Body == \A j \in Jobs : jobs[j].state = "succeeded" /\ requeued[j] = 0 /\ unreported[j] = 0 =>
                      jobs'[j].state = "succeeded"
<1>1. ASSUME QueueInv, NEW j \in Jobs, jobs[j].state = "succeeded", requeued[j] = 0, unreported[j] = 0
      PROVE  Holders(j) = {}
  <2>1. Cardinality(Holders(j)) = 0 /\ IsFiniteSet(Holders(j))
    BY <1>1, HandsFacts DEF QueueInv, JobInv, HoldersInv
  <2> QED BY <2>1, FS_EmptySet
<1>2. ASSUME QueueInv, Next, NEW j \in Jobs,
             jobs[j].state = "succeeded", requeued[j] = 0, unreported[j] = 0
      PROVE  jobs'[j].state = "succeeded"
  <2>1. ASSUME NEW i \in Jobs, Enqueue(i) \/ BecomeDue(i) \/ Expire(i)
        PROVE  jobs'[j].state = "succeeded"
    <3>1. CASE i # j
      BY <1>2, <2>1, <3>1, RowSteps
    <3>2. CASE i = j
      <4>1. BecomeDue(j) \/ Expire(j)
        BY <1>2, <2>1, <3>2 DEF Enqueue
      <4> QED BY <1>2, <4>1, RowSteps
    <3> QED BY <3>1, <3>2
  <2>2. ASSUME NEW w \in Workers, ClaimOne(w) PROVE jobs'[j].state = "succeeded"
    BY <1>2, <2>2 DEF ClaimOne, QueueInv, TypeOK
  <2>3. ASSUME NEW w \in Workers, ClaimKilled(w) PROVE jobs'[j].state = "succeeded"
    BY <1>2, <2>3, ClaimKilledTypes DEF Revivable
  <2>4. ASSUME NEW w \in Workers, Requeue(w) PROVE jobs'[j].state = "succeeded"
    BY <1>2, <2>4, RequeueTypes
  <2>5. ASSUME NEW w \in Workers, WriteReport(w) PROVE jobs'[j].state = "succeeded"
    <3>1. w \notin Holders(j)
      BY <1>1, <1>2
    <3>2. j # report[w].claim.job
      BY <1>2, <2>5, <3>1, Reporting
    <3> QED BY <1>2, <2>5, <3>2, WriteReportTypes
  <2>6. ASSUME NEW w \in Workers, ReportRefused(w) PROVE jobs'[j].state = "succeeded"
    <3>1. CASE j = report[w].claim.job
      BY <1>2, <2>6, <3>1, ReportRefusedTypes
    <3>2. CASE j # report[w].claim.job
      BY <1>2, <2>6, <3>2, ReportRefusedTypes
    <3> QED BY <3>1, <3>2
  <2>7. ASSUME NEW w \in Workers, Run(w) \/ Crash(w) PROVE jobs'[j].state = "succeeded"
    BY <1>2, <2>7 DEF Run, Crash
  <2> QED BY <1>2, <2>1, <2>2, <2>3, <2>4, <2>5, <2>6, <2>7 DEF Next, Work
<1>3. QueueInv /\ [Next]_vars => [Body]_vars
  BY <1>2
<1>4. Spec => [][Body]_vars
  BY <1>3, Invariance, PTL DEF Spec
<1> QED BY <1>4 DEF SuccessIsFinal
=============================================================================
