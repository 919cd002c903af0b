---------------------------- MODULE LedgerProofs ----------------------------
(***************************************************************************)
(* WorkSessions implements TimeLedger, for any number of sessions, tasks,  *)
(* memberships and clients and any values of the bounds: whatever          *)
(* requests, retries, heartbeats, offboardings and the worker do to the    *)
(* two tables is a step of the ledger, or changes nothing it shows.        *)
(***************************************************************************)
EXTENDS WorkSessionsProofs
-----------------------------------------------------------------------------
(* The instants a table credits.                                           *)

Paid(ivs) ==
  {x \in Time : \E i \in ivs : i.status = "confirmed" /\ i.to # Forever /\ i.from <= x /\ x < i.to}

LEMMA PaidNow == paidNow = Paid(intervals) /\ paidNow' = Paid(intervals')
BY DEF paidNow, Paid

\* What is uncertain is not credited, nor is what has not ended.
LEMMA PaidAdds ==
  /\ \A ivs, s, now : Paid(ivs \cup {NewInterval(s, now)}) = Paid(ivs)
  /\ \A ivs, s, now : Paid(ivs \cup UncertainGap(s, now)) = Paid(ivs)
<1>1. ASSUME NEW ivs, NEW s, NEW now PROVE Paid(ivs \cup {NewInterval(s, now)}) = Paid(ivs)
  <2>1. NewInterval(s, now).to = Forever
    BY DEF NewInterval
  <2> QED
    BY <2>1 DEF Paid
<1>2. ASSUME NEW ivs, NEW s, NEW now PROVE Paid(ivs \cup UncertainGap(s, now)) = Paid(ivs)
  <2>1. \A g \in UncertainGap(s, now) : g.status # "confirmed"
    BY GapRows
  <2> QED
    BY <2>1 DEF Paid
<1> QED
  BY <1>1, <1>2

\* The stretch of a session's open interval that ends at e.
Timed(i, e) == {x \in Time : i.from <= x /\ x < e}

\* Ending the one open interval of a session credits its stretch.
LEMMA PaidEnds ==
  ASSUME NEW ivs, NEW js, NEW i \in ivs, i.to = Forever, i.status = "confirmed", NEW e \in Time,
         \A j \in js : \/ j \in ivs
                       \/ j.from = i.from /\ j.to = e /\ j.status = "confirmed",
         \A j \in ivs \ {i} : j \in js,
         \E j \in js : j.from = i.from /\ j.to = e /\ j.status = "confirmed"
  PROVE  Paid(js) = Paid(ivs) \cup Timed(i, e)
<1>1. e # Forever
  BY TimeFacts
<1>2. ASSUME NEW x \in Paid(js) PROVE x \in Paid(ivs) \cup Timed(i, e)
  BY DEF Paid, Timed
<1>3. ASSUME NEW x \in Paid(ivs) PROVE x \in Paid(js)
  BY DEF Paid
<1>4. ASSUME NEW x \in Timed(i, e) PROVE x \in Paid(js)
  BY <1>1 DEF Paid, Timed
<1> QED
  BY <1>2, <1>3, <1>4

\* The rows of a table once a session's open interval has ended.
LEMMA ClosedRows ==
  ASSUME NEW ivs \in SUBSET Interval, NEW s \in Sessions, NEW i, OpenOf(ivs, s) = {i}, NEW at \in Time
  PROVE  /\ \A j \in CloseOpen(ivs, s, at) : \/ j \in ivs
                                             \/ j.from = i.from /\ j.to = at /\ j.status = i.status
         /\ \A j \in ivs \ {i} : j \in CloseOpen(ivs, s, at)
         /\ \E j \in CloseOpen(ivs, s, at) : j.from = i.from /\ j.to = at /\ j.status = i.status
<1>1. i \in ivs /\ i \in Interval
  BY DEF OpenOf
<1>2. [i EXCEPT !.to = at].from = i.from /\ [i EXCEPT !.to = at].to = at /\ [i EXCEPT !.to = at].status = i.status
  BY <1>1 DEF Interval
<1>3. [i EXCEPT !.to = at] \in CloseOpen(ivs, s, at)
  BY <1>1 DEF CloseOpen
<1>4. \A j \in ivs \ {i} : j \in CloseOpen(ivs, s, at)
  BY DEF CloseOpen
<1>5. \A j \in CloseOpen(ivs, s, at) : j \in ivs \/ j = [i EXCEPT !.to = at]
  BY DEF CloseOpen
<1> QED
  BY <1>2, <1>3, <1>4, <1>5

LEMMA ClampedRows ==
  ASSUME NEW ivs \in SUBSET Interval, NEW s \in Sessions, NEW i, OpenOf(ivs, s) = {i}, NEW at \in Time
  PROVE  CloseAtLeast(ivs, s, at) = CloseOpen(ivs, s, Greatest(i.from, at))
BY DEF CloseAtLeast, CloseOpen

\* With nothing open there is nothing to end.
LEMMA NothingToClose ==
  ASSUME NEW ivs, NEW s, OpenOf(ivs, s) = {}, NEW at
  PROVE  CloseOpen(ivs, s, at) = ivs /\ CloseAtLeast(ivs, s, at) = ivs
BY DEF CloseOpen, CloseAtLeast
-----------------------------------------------------------------------------
(* The timer the tables show.                                              *)

Shown ==
  /\ \A s \in Sessions, i \in intervals :
       sessions[s].state = "running" /\ i.session = s /\ i.to = Forever => timerNow = "on" /\ sinceNow = i.from
  /\ (\A s \in Sessions : sessions[s].state # "running") =>
       /\ sinceNow = 0
       /\ (\E s \in Sessions : IsOpen(s)) => timerNow = "held"
       /\ (\A s \in Sessions : ~IsOpen(s)) => timerNow = "off"

LEMMA ShownNow == TypeOK /\ OneTimer => Shown
<1> SUFFICES ASSUME TypeOK, OneTimer PROVE Shown
  OBVIOUS
<1>1. ASSUME NEW s \in Sessions, NEW i \in intervals,
             sessions[s].state = "running", i.session = s, i.to = Forever
      PROVE  timerNow = "on" /\ sinceNow = i.from
  <2>1. s \in Running /\ Running # {}
    BY <1>1 DEF Running
  <2>2. \A x \in Running : x = s
    BY <1>1 DEF Running, OneTimer, IsOpen, OpenStates
  <2>3. i \in OpenOf(intervals, s)
    BY <1>1 DEF OpenOf
  <2>4. \A j \in intervals : j.session \in Running /\ j.to = Forever => j = i
    <3>1. PICK k \in intervals : OpenOf(intervals, s) = {k}
      BY <1>1 DEF OneTimer
    <3>2. \A j \in intervals : j.session \in Running /\ j.to = Forever => j \in OpenOf(intervals, s)
      BY <2>2 DEF OpenOf
    <3> QED
      BY <2>3, <3>1, <3>2
  <2>5. (CHOOSE j \in intervals : j.session \in Running /\ j.to = Forever) = i
    BY <1>1, <2>1, <2>4
  <2> QED
    BY <2>1, <2>5 DEF timerNow, sinceNow
<1>2. ASSUME \A s \in Sessions : sessions[s].state # "running"
      PROVE  /\ sinceNow = 0
             /\ (\E s \in Sessions : IsOpen(s)) => timerNow = "held"
             /\ (\A s \in Sessions : ~IsOpen(s)) => timerNow = "off"
  <2>1. Running = {}
    BY <1>2 DEF Running
  <2> QED
    BY <2>1 DEF timerNow, sinceNow
<1> QED
  BY <1>1, <1>2 DEF Shown

LEMMA ShownNext == TypeOK' /\ OneTimer' => Shown'
BY ShownNow, PTL
-----------------------------------------------------------------------------
(* The steps of the ledger.                                                *)

LEMMA LedgerBegins ==
  ASSUME TypeOK, TypeOK', OneTimer, OneTimer',
         \A s \in Sessions : sessions[s].state # "running",
         NEW n \in Sessions, NEW now \in Time,
         sessions'[n].state = "running", NewInterval(n, now) \in intervals',
         Paid(intervals') = Paid(intervals),
         \A x \in Paid(intervals) : x < now
  PROVE  Ledger!Begin
<1>1. timerNow # "on"
  BY ShownNow DEF Shown
<1>2. NewInterval(n, now).session = n /\ NewInterval(n, now).to = Forever /\ NewInterval(n, now).from = now
  BY DEF NewInterval
<1>3. timerNow' = "on" /\ sinceNow' = now
  BY <1>2, ShownNext DEF Shown
<1>4. paidNow' = paidNow /\ \A x \in paidNow : x < now
  BY PaidNow
<1> QED
  BY <1>1, <1>3, <1>4 DEF Ledger!Begin, Ledger!AfterAllPaid

LEMMA LedgerHalts ==
  ASSUME TypeOK, TypeOK', OneTimer, OneTimer',
         NEW s \in Sessions, sessions[s].state = "running",
         NEW i \in OpenOf(intervals, s),
         \A x \in Sessions : sessions'[x].state # "running",
         NEW e \in Time, i.from <= e,
         Paid(intervals') = Paid(intervals) \cup Timed(i, e)
  PROVE  Ledger!Halt
<1>1. timerNow = "on" /\ sinceNow = i.from
  BY ShownNow DEF Shown, OpenOf
<1>2. sinceNow' = 0 /\ timerNow' \in {"off", "held"}
  BY ShownNext DEF Shown
<1>3. paidNow' = paidNow \cup Timed(i, e)
  BY PaidNow
<1>4. Timed(i, e) = Ledger!Stretch(e)
  BY <1>1 DEF Timed, Ledger!Stretch
<1> QED
  BY <1>1, <1>2, <1>3, <1>4 DEF Ledger!Halt

LEMMA LedgerHandsOver ==
  ASSUME TypeOK, TypeOK', OneTimer, OneTimer',
         NEW s \in Sessions, sessions[s].state = "running",
         NEW i \in OpenOf(intervals, s),
         NEW n \in Sessions, NEW now \in Time, i.from <= now,
         sessions'[n].state = "running", NewInterval(n, now) \in intervals',
         Paid(intervals') = Paid(intervals) \cup Timed(i, now)
  PROVE  Ledger!HandOver
<1>1. timerNow = "on" /\ sinceNow = i.from
  BY ShownNow DEF Shown, OpenOf
<1>2. NewInterval(n, now).session = n /\ NewInterval(n, now).to = Forever /\ NewInterval(n, now).from = now
  BY DEF NewInterval
<1>3. timerNow' = "on" /\ sinceNow' = now
  BY <1>2, ShownNext DEF Shown
<1>4. paidNow' = paidNow \cup Timed(i, now)
  BY PaidNow
<1>5. Timed(i, now) = Ledger!Stretch(now)
  BY <1>1 DEF Timed, Ledger!Stretch
<1> QED
  BY <1>1, <1>3, <1>4, <1>5 DEF Ledger!HandOver

LEMMA LedgerGivesUp ==
  ASSUME TypeOK, TypeOK', OneTimer, OneTimer',
         \A x \in Sessions : sessions[x].state # "running",
         NEW s \in Sessions, IsOpen(s),
         \A x \in Sessions : sessions'[x].state \notin OpenStates,
         Paid(intervals') = Paid(intervals)
  PROVE  Ledger!GiveUp
<1>1. timerNow = "held" /\ sinceNow = 0
  BY ShownNow DEF Shown
<1>2. \A x \in Sessions : sessions'[x].state # "running" /\ ~IsOpen(x)'
  BY DEF IsOpen, OpenStates
<1>3. timerNow' = "off" /\ sinceNow' = 0
  BY <1>2, ShownNext DEF Shown
<1>4. paidNow' = paidNow
  BY PaidNow
<1> QED
  BY <1>1, <1>3, <1>4 DEF Ledger!GiveUp

\* Heartbeats, and what touches neither table.
LEMMA LedgerRests ==
  ASSUME intervals' = intervals, \A s \in Sessions : sessions'[s].state = sessions[s].state
  PROVE  UNCHANGED Ledger!vars
<1>1. Running' = Running
  BY DEF Running
<1>2. timerNow' = timerNow
  BY <1>1 DEF timerNow, IsOpen
<1>3. sinceNow' = sinceNow
  BY <1>1 DEF sinceNow
<1>4. paidNow' = paidNow
  BY DEF paidNow
<1> QED
  BY <1>2, <1>3, <1>4 DEF Ledger!vars
-----------------------------------------------------------------------------
(* What each kind of change credits.                                       *)

LEMMA OpenStretch ==
  ASSUME TypeOK, OneTimer, NEW s \in Sessions, sessions[s].state = "running"
  PROVE  \E i \in intervals : /\ OpenOf(intervals, s) = {i} /\ i.status = "confirmed"
                              /\ i.to = Forever /\ i.from \in Time
<1>1. PICK i \in intervals : OpenOf(intervals, s) = {i} /\ i.status = "confirmed"
  BY DEF OneTimer
<1>2. i.to = Forever /\ i.from \in Time
  BY <1>1 DEF OpenOf, TypeOK, Interval
<1> QED
  BY <1>1, <1>2

LEMMA ClosingCredits ==
  ASSUME TypeOK, NEW s \in Sessions, NEW i \in intervals, OpenOf(intervals, s) = {i},
         i.status = "confirmed", i.to = Forever, NEW e \in Time
  PROVE  Paid(CloseOpen(intervals, s, e)) = Paid(intervals) \cup Timed(i, e)
<1> DEFINE js == CloseOpen(intervals, s, e)
<1>1. intervals \in SUBSET Interval
  BY DEF TypeOK
<1>2. /\ \A j \in js : \/ j \in intervals
                       \/ j.from = i.from /\ j.to = e /\ j.status = i.status
      /\ \A j \in intervals \ {i} : j \in js
      /\ \E j \in js : j.from = i.from /\ j.to = e /\ j.status = i.status
  BY <1>1, ClosedRows
<1> HIDE DEF js
<1>3. Paid(js) = Paid(intervals) \cup Timed(i, e)
  BY <1>2, PaidEnds
<1> QED
  BY <1>3 DEF js

\* Stopping the running session ends its stretch; stopping another credits none.
LEMMA StoppingCredits ==
  ASSUME TypeOK, OneTimer, NEW s \in Sessions, IsOpen(s), NEW now \in Time
  PROVE  /\ sessions[s].state = "running" => Stopped(s, now) = CloseOpen(intervals, s, now)
         /\ sessions[s].state # "running" => Paid(Stopped(s, now)) = Paid(intervals)
<1>1. ASSUME sessions[s].state = "running"
      PROVE  Stopped(s, now) = CloseOpen(intervals, s, now)
  <2>1. UncertainGap(s, now) = {}
    BY <1>1 DEF UncertainGap, GapStarts
  <2>2. intervals \cup UncertainGap(s, now) = intervals
    BY <2>1
  <2> QED
    BY <2>2 DEF Stopped
<1>2. ASSUME sessions[s].state # "running"
      PROVE  Paid(Stopped(s, now)) = Paid(intervals)
  <2>1. OpenOf(intervals \cup UncertainGap(s, now), s) = {}
    BY <1>2, GapIsClosed DEF OneTimer
  <2>2. Stopped(s, now) = intervals \cup UncertainGap(s, now)
    BY <2>1, NothingToClose DEF Stopped
  <2> QED
    BY <2>2, PaidAdds
<1> QED
  BY <1>1, <1>2

\* What the no-overlap constraint admits begins after all that is credited.
LEMMA AdmitsAfterAll ==
  ASSUME NEW ivs \in SUBSET Interval, NEW now \in Time, Admits(ivs, now)
  PROVE  \A x \in Paid(ivs) : x < now
<1> SUFFICES ASSUME NEW x \in Paid(ivs) PROVE x < now
  OBVIOUS
<1>1. PICK i \in ivs : i.status = "confirmed" /\ i.to # Forever /\ i.from <= x /\ x < i.to
  BY DEF Paid
<1>2. i.from \in Nat /\ i.to \in Nat /\ x \in Nat /\ now \in Nat
  BY <1>1, TimeFacts DEF Interval, Paid
<1>3. i.to <= now \/ i.from = i.to
  BY <1>1 DEF Admits
<1> QED
  BY <1>1, <1>2, <1>3
-----------------------------------------------------------------------------
(* Every step is a step of the ledger.                                     *)

LEMMA StartBegins ==
  ASSUME TypeOK, TypeOK', OneTimer, OneTimer', NEW c \in Clients, Start(c)
  PROVE  Ledger!Begin
<1> DEFINE now == requests[c].now
<1>1. now \in Time /\ Admits(intervals, now) /\ \A x \in Sessions : ~IsOpen(x)
  BY RequestFields DEF Start, TypeOK
<1>2. PICK n \in Sessions : /\ sessions' = [sessions EXCEPT ![n] = NewSession(requests[c].task, now)]
                            /\ intervals' = intervals \cup {NewInterval(n, now)}
  BY DEF Start
<1>3. \A x \in Sessions : sessions[x].state # "running"
  BY <1>1 DEF IsOpen, OpenStates
<1>4. sessions'[n].state = "running"
  BY <1>2 DEF TypeOK, NewSession
<1>5. NewInterval(n, now) \in intervals' /\ Paid(intervals') = Paid(intervals)
  BY <1>2, PaidAdds
<1>6. \A x \in Paid(intervals) : x < now
  BY <1>1, AdmitsAfterAll DEF TypeOK
<1> HIDE DEF now
<1> QED
  BY <1>1, <1>3, <1>4, <1>5, <1>6, LedgerBegins

LEMMA ResumeBegins ==
  ASSUME TypeOK, TypeOK', OneTimer, OneTimer', NEW c \in Clients, Resume(c)
  PROVE  Ledger!Begin
<1>1. PICK s \in Sessions, now \in Time :
        /\ sessions[s].state \in {"paused", "interrupted"}
        /\ Admits(intervals, now)
        /\ intervals' = intervals \cup UncertainGap(s, now) \cup {NewInterval(s, now)}
        /\ sessions' = [sessions EXCEPT ![s] = [Became(@, "running") EXCEPT !.hb = now]]
  BY RequestFields DEF Resume, TypeOK
<1>2. \A x \in Sessions : sessions[x].state # "running"
  BY <1>1 DEF OneTimer, IsOpen, OpenStates
<1>3. sessions'[s].state = "running"
  BY <1>1 DEF TypeOK, Became
<1>4. NewInterval(s, now) \in intervals' /\ Paid(intervals') = Paid(intervals)
  <2>1. Paid(intervals') = Paid(intervals \cup UncertainGap(s, now))
    BY <1>1, PaidAdds
  <2> QED
    BY <1>1, <2>1, PaidAdds
<1>5. \A x \in Paid(intervals) : x < now
  BY <1>1, AdmitsAfterAll DEF TypeOK
<1> QED
  BY <1>2, <1>3, <1>4, <1>5, LedgerBegins

LEMMA PauseHalts ==
  ASSUME TypeOK, TypeOK', OneTimer, OneTimer', NEW c \in Clients, Pause(c)
  PROVE  Ledger!Halt
<1>1. PICK s \in Sessions, now \in Time :
        /\ sessions[s].state = "running"
        /\ Closable(intervals, s, now)
        /\ intervals' = CloseOpen(intervals, s, now)
        /\ sessions' = [sessions EXCEPT ![s] = Became(@, "paused")]
  BY RequestFields DEF Pause, TypeOK
<1>2. PICK i \in intervals : /\ OpenOf(intervals, s) = {i} /\ i.status = "confirmed"
                             /\ i.to = Forever /\ i.from \in Time
  BY <1>1, OpenStretch
<1>3. i \in OpenOf(intervals, s) /\ i.from <= now
  BY <1>1, <1>2 DEF Closable
<1>4. \A x \in Sessions : sessions'[x].state # "running"
  BY <1>1 DEF OneTimer, IsOpen, OpenStates, TypeOK, Became
<1>5. Paid(intervals') = Paid(intervals) \cup Timed(i, now)
  BY <1>1, <1>2, ClosingCredits
<1> QED
  BY <1>1, <1>3, <1>4, <1>5, LedgerHalts

\* The worker, and an offboarding: up to the last heartbeat, or none of it.
LEMMA ClampingHalts ==
  ASSUME TypeOK, TypeOK', OneTimer, OneTimer',
         NEW s \in Sessions, sessions[s].state = "running", NEW at \in Time,
         intervals' = CloseAtLeast(intervals, s, at),
         \A x \in Sessions : sessions'[x].state # "running"
  PROVE  Ledger!Halt
<1>1. PICK i \in intervals : /\ OpenOf(intervals, s) = {i} /\ i.status = "confirmed"
                             /\ i.to = Forever /\ i.from \in Time
  BY OpenStretch
<1> DEFINE e == Greatest(i.from, at)
<1>2. e \in Time /\ i.from <= e
  BY <1>1, TimeFacts DEF Greatest
<1>3. intervals' = CloseOpen(intervals, s, e)
  BY <1>1, ClampedRows DEF TypeOK
<1> HIDE DEF e
<1>4. Paid(intervals') = Paid(intervals) \cup Timed(i, e)
  BY <1>1, <1>2, <1>3, ClosingCredits
<1>5. i \in OpenOf(intervals, s)
  BY <1>1
<1> QED
  BY <1>2, <1>4, <1>5, LedgerHalts

LEMMA InterruptHalts ==
  ASSUME TypeOK, TypeOK', OneTimer, OneTimer', NEW s \in Sessions, Interrupt(s)
  PROVE  Ledger!Halt
<1>1. /\ sessions[s].state = "running" /\ sessions[s].hb \in Time
      /\ intervals' = CloseAtLeast(intervals, s, sessions[s].hb)
      /\ sessions' = [sessions EXCEPT ![s] = Became(@, "interrupted")]
  BY DEF Interrupt, TypeOK, Session
<1>2. \A x \in Sessions : sessions'[x].state # "running"
  BY <1>1 DEF OneTimer, IsOpen, OpenStates, TypeOK, Became
<1> QED
  BY <1>1, <1>2, ClampingHalts

LEMMA RevokeHaltsOrGivesUp ==
  ASSUME TypeOK, TypeOK', OneTimer, OneTimer', NEW c \in Clients, Revoke(c)
  PROVE  Ledger!Halt \/ Ledger!GiveUp \/ UNCHANGED Ledger!vars
<1> DEFINE now == requests[c].now
<1>1. CASE UNCHANGED <<intervals, sessions>>
  BY <1>1, LedgerRests
<1>2. ASSUME NEW s \in Sessions, IsOpen(s),
             intervals' = CloseAtLeast(intervals, s, Least(sessions[s].hb, now)),
             sessions' = [sessions EXCEPT ![s] = Became(@, "stopped")]
      PROVE  Ledger!Halt \/ Ledger!GiveUp
  <2>1. Least(sessions[s].hb, now) \in Time
    <3>1. now \in Time
      BY RequestFields DEF Revoke, TypeOK
    <3> QED
      BY <3>1 DEF Least, TypeOK, Session
  <2>2. \A x \in Sessions : sessions'[x].state \notin OpenStates
    BY <1>2 DEF OneTimer, IsOpen, OpenStates, TypeOK, Became
  <2>3. CASE sessions[s].state = "running"
    <3>1. \A x \in Sessions : sessions'[x].state # "running"
      BY <2>2 DEF OpenStates
    <3> QED
      BY <1>2, <2>1, <2>3, <3>1, ClampingHalts
  <2>4. CASE sessions[s].state # "running"
    <3>1. \A x \in Sessions : sessions[x].state # "running"
      BY <1>2, <2>4 DEF OneTimer, IsOpen, OpenStates
    <3>2. intervals' = intervals
      BY <1>2, <2>4, NothingToClose DEF OneTimer
    <3> QED
      BY <1>2, <2>2, <3>1, <3>2, LedgerGivesUp
  <2> QED
    BY <2>3, <2>4
<1> QED
  BY <1>1, <1>2 DEF Revoke

LEMMA StopHaltsOrGivesUp ==
  ASSUME TypeOK, TypeOK', OneTimer, OneTimer', NEW c \in Clients, Stop(c)
  PROVE  Ledger!Halt \/ Ledger!GiveUp
<1>1. PICK s \in Sessions, now \in Time :
        /\ IsOpen(s) /\ Closable(intervals, s, now)
        /\ intervals' = Stopped(s, now)
        /\ sessions' = [sessions EXCEPT ![s] = Became(@, "stopped")]
  BY RequestFields DEF Stop, TypeOK
<1>2. \A x \in Sessions : sessions'[x].state \notin OpenStates /\ sessions'[x].state # "running"
  BY <1>1 DEF OneTimer, IsOpen, OpenStates, TypeOK, Became
<1>3. CASE sessions[s].state = "running"
  <2>1. PICK i \in intervals : /\ OpenOf(intervals, s) = {i} /\ i.status = "confirmed"
                               /\ i.to = Forever /\ i.from \in Time
    BY <1>3, OpenStretch
  <2>2. i \in OpenOf(intervals, s) /\ i.from <= now
    BY <1>1, <2>1 DEF Closable
  <2>3. Paid(intervals') = Paid(intervals) \cup Timed(i, now)
    BY <1>1, <1>3, <2>1, StoppingCredits, ClosingCredits
  <2> QED
    BY <1>2, <1>3, <2>2, <2>3, LedgerHalts
<1>4. CASE sessions[s].state # "running"
  <2>1. \A x \in Sessions : sessions[x].state # "running"
    BY <1>1, <1>4 DEF OneTimer, IsOpen, OpenStates
  <2>2. Paid(intervals') = Paid(intervals)
    BY <1>1, <1>4, StoppingCredits
  <2> QED
    BY <1>1, <1>2, <2>1, <2>2, LedgerGivesUp
<1> QED
  BY <1>3, <1>4

LEMMA SwitchHandsOverOrBegins ==
  ASSUME TypeOK, TypeOK', OneTimer, OneTimer', NEW c \in Clients, Switch(c)
  PROVE  Ledger!HandOver \/ Ledger!Begin
<1>1. PICK s \in Sessions, n \in Sessions, now \in Time, t \in Tasks :
        /\ IsOpen(s) /\ Closable(intervals, s, now) /\ Admits(Stopped(s, now), now)
        /\ sessions' = [sessions EXCEPT ![s] = Became(@, "stopped"), ![n] = NewSession(t, now)]
        /\ intervals' = Stopped(s, now) \cup {NewInterval(n, now)}
  <2> DEFINE r == requests[c]
  <2>1. r.session \in Sessions /\ r.now \in Time /\ r.task \in Tasks
    BY RequestFields DEF Switch, TypeOK
  <2>2. PICK n \in Sessions :
          /\ sessions' = [sessions EXCEPT ![r.session] = Became(@, "stopped"),
                                           ![n] = NewSession(r.task, r.now)]
          /\ intervals' = Stopped(r.session, r.now) \cup {NewInterval(n, r.now)}
    BY DEF Switch
  <2>3. /\ IsOpen(r.session) /\ Closable(intervals, r.session, r.now)
        /\ Admits(Stopped(r.session, r.now), r.now)
    BY DEF Switch
  <2> QED
    BY <2>1, <2>2, <2>3
<1>2. sessions'[n].state = "running"
  BY <1>1 DEF TypeOK, NewSession
<1>3. NewInterval(n, now) \in intervals' /\ Paid(intervals') = Paid(Stopped(s, now))
  BY <1>1, PaidAdds
<1>4. CASE sessions[s].state = "running"
  <2>1. PICK i \in intervals : /\ OpenOf(intervals, s) = {i} /\ i.status = "confirmed"
                               /\ i.to = Forever /\ i.from \in Time
    BY <1>4, OpenStretch
  <2>2. i \in OpenOf(intervals, s) /\ i.from <= now
    BY <1>1, <2>1 DEF Closable
  <2>3. Paid(intervals') = Paid(intervals) \cup Timed(i, now)
    BY <1>1, <1>3, <1>4, <2>1, StoppingCredits, ClosingCredits
  <2> QED
    BY <1>2, <1>3, <1>4, <2>2, <2>3, LedgerHandsOver
<1>5. CASE sessions[s].state # "running"
  <2>1. \A x \in Sessions : sessions[x].state # "running"
    BY <1>1, <1>5 DEF OneTimer, IsOpen, OpenStates
  <2>2. Paid(Stopped(s, now)) = Paid(intervals)
    BY <1>1, <1>5, StoppingCredits
  <2>3. Stopped(s, now) \in SUBSET Interval
    BY StoppedType
  <2>4. \A x \in Paid(intervals) : x < now
    BY <1>1, <2>2, <2>3, AdmitsAfterAll
  <2> QED
    BY <1>2, <1>3, <2>1, <2>2, <2>4, LedgerBegins
<1> QED
  BY <1>4, <1>5

LEMMA HeartbeatRests ==
  ASSUME TypeOK, NEW c \in Clients, HeartbeatWrite(c)
  PROVE  UNCHANGED Ledger!vars
<1>1. intervals' = intervals /\ \A x \in Sessions : sessions'[x].state = sessions[x].state
  BY DEF HeartbeatWrite, TypeOK, Session
<1> QED
  BY <1>1, LedgerRests

LEMMA LedgerStep ==
  TypeOK /\ TypeOK' /\ OneTimer /\ OneTimer' /\ [Next]_vars => [Ledger!Next]_(Ledger!vars)
<1> SUFFICES ASSUME TypeOK, TypeOK', OneTimer, OneTimer', [Next]_vars
             PROVE  Ledger!Next \/ UNCHANGED Ledger!vars
  BY DEF Ledger!vars
<1>1. CASE UNCHANGED <<sessions, intervals>>
  BY <1>1, LedgerRests
<1>2. ASSUME NEW c \in Clients, Send(c) \/ Handle(c)
      PROVE  Ledger!Next \/ UNCHANGED Ledger!vars
  <2>1. CASE Start(c) \/ Resume(c) \/ Pause(c)
    BY <2>1, StartBegins, ResumeBegins, PauseHalts DEF Ledger!Next
  <2>2. CASE Stop(c)
    BY <2>2, StopHaltsOrGivesUp DEF Ledger!Next
  <2>3. CASE Switch(c)
    BY <2>3, SwitchHandsOverOrBegins DEF Ledger!Next
  <2>4. CASE Revoke(c)
    BY <2>4, RevokeHaltsOrGivesUp DEF Ledger!Next
  <2>5. CASE HeartbeatWrite(c)
    BY <2>5, HeartbeatRests
  <2>6. CASE Send(c) \/ Heartbeat(c) \/ Review(c) \/ Answer(c)
    BY <1>1, <2>6 DEF Send, Heartbeat, Review, Answer
  <2> QED
    BY <1>2, <2>1, <2>2, <2>3, <2>4, <2>5, <2>6 DEF Handle
<1>3. ASSUME NEW s \in Sessions, Interrupt(s) PROVE Ledger!Next
  BY <1>3, InterruptHalts DEF Ledger!Next
<1>4. CASE Tick \/ \E t \in Moved : UpdateTask(t) \/ FinishTask(t) \/ WorkOfAnother(t)
  BY <1>1, <1>4 DEF Tick, UpdateTask, FinishTask, WorkOfAnother
<1>5. CASE UNCHANGED vars
  BY <1>1, <1>5 DEF vars
<1> QED
  BY <1>2, <1>3, <1>4, <1>5 DEF Next

LEMMA LedgerInit == Init => Ledger!Init
<1> SUFFICES ASSUME Init PROVE Ledger!Init
  OBVIOUS
<1>1. Running = {} /\ \A s \in Sessions : ~IsOpen(s)
  BY DEF Init, Running, IsOpen, OpenStates, Unused
<1>2. paidNow = {}
  BY DEF Init, paidNow
<1> QED
  BY <1>1, <1>2 DEF Ledger!Init, timerNow, sinceNow

\* Sessions, versions, transactions, heartbeats and the worker come down to the
\* ledger: one timer, whose time is credited stretch after stretch and never
\* taken back.
THEOREM LedgerImplemented == Spec => ImplementsLedger
<1>1. Init => Ledger!Init
  BY LedgerInit
<1>2. TypeOK /\ TypeOK' /\ OneTimer /\ OneTimer' /\ [Next]_vars => [Ledger!Next]_(Ledger!vars)
  BY LedgerStep
<1> QED
  BY <1>1, <1>2, TypeCorrect, OneTimerAlways, PTL DEF Spec, ImplementsLedger, Ledger!Spec
=============================================================================
