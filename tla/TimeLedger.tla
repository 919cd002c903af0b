----------------------------- MODULE TimeLedger -----------------------------
(***************************************************************************)
(* What the work timer promises to whoever reads one member's hours: at    *)
(* any moment the timer is off, on or held (paused, or interrupted and     *)
(* waiting for the member); time is credited one stretch at a time, when   *)
(* the timer stops being on; a stretch starts no earlier than everything   *)
(* credited before it, and credited time is never taken back.  Nothing is  *)
(* said of sessions, versions, transactions, heartbeats or workers:        *)
(* WorkSessions implements this specification with all of them.            *)
(***************************************************************************)
EXTENDS Integers

CONSTANT Instants       \* the instants a stretch may start or end at, numbers

VARIABLES
  timer,    \* "off", "on" or "held"
  since,    \* the start of the stretch being timed, 0 when the timer is not on
  paid      \* the instants credited so far

vars == <<timer, since, paid>>

Init == timer = "off" /\ since = 0 /\ paid = {}

AfterAllPaid(b) == \A x \in paid : x < b

\* The instants of the stretch [since, e).
Stretch(e) == {x \in Instants : since <= x /\ x < e}

\* The timer starts, or goes on after a pause or an interruption.
Begin ==
  /\ timer # "on"
  /\ \E b \in Instants : AfterAllPaid(b) /\ since' = b
  /\ timer' = "on"
  /\ UNCHANGED paid

\* The timer stops and the stretch is credited up to some instant, all of it
\* or only the part the member was known to be there for.
Halt ==
  /\ timer = "on"
  /\ timer' \in {"off", "held"}
  /\ since' = 0
  /\ \E e \in Instants : since <= e /\ paid' = paid \cup Stretch(e)

\* One stretch ends and the next begins at the same instant.
HandOver ==
  /\ timer = "on"
  /\ \E e \in Instants : since <= e /\ paid' = paid \cup Stretch(e) /\ since' = e
  /\ UNCHANGED timer

\* A held timer is given up; what was credited stays.
GiveUp ==
  /\ timer = "held"
  /\ timer' = "off"
  /\ UNCHANGED <<since, paid>>

Next == Begin \/ Halt \/ HandOver \/ GiveUp

Spec == Init /\ [][Next]_vars
=============================================================================
