---------------------------- MODULE VoiceCredit -----------------------------
(***************************************************************************)
(* The characters of natural voice a day allows: counted in                *)
(* voice_usage_daily before an utterance is sent to ElevenLabs, given back *)
(* when nothing was made of it, and shared out by what the key's           *)
(* subscription has left (src/server/services/natural-voice.ts).           *)
(*                                                                         *)
(* The web process keeps a copy of each key's subscription, read again     *)
(* while the old copy is served, by requests that come from several tabs,  *)
(* across midnight, while the workspace connects or removes a key of its   *)
(* own, and that end with a crash of the process at any point.  The checks *)
(* and the count of one reservation are made under an advisory lock of the *)
(* key.                                                                    *)
(***************************************************************************)
EXTENDS Integers, FiniteSets, Functions

CONSTANTS
  Members,      \* the people
  OrgOf,        \* the workspace of each
  Env,          \* Boredroom's key
  OwnKeys,      \* keys a workspace may connect
  NoKey,        \* no key of its own
  Limit,        \* what each key's subscription allows until it resets
  PersonCap,    \* PERSON_DAILY_CHARS
  Slices,       \* 1 / BOREDROOM_KEY_WORKSPACE_FRACTION
  SliceMax,     \* BOREDROOM_KEY_WORKSPACE_DAILY_MAX
  Lengths,      \* the lengths of an utterance, in characters
  Requests,     \* bound: the utterances asked for
  LastDay,      \* bound: days, the last one before the subscriptions reset
  MaxReads      \* bound: the subscriptions being read at once

Orgs == {OrgOf[p] : p \in Members}
Keys == OwnKeys \cup {Env}
Days == 1 .. LastDay

ASSUME VoiceAssumption ==
  /\ Env \notin OwnKeys \cup Orgs /\ NoKey \notin Keys
  /\ Limit \in [Keys -> Nat] /\ Lengths \subseteq Nat \ {0} /\ Lengths # {}
  /\ {PersonCap, Slices, LastDay, MaxReads} \subseteq Nat \ {0} /\ SliceMax \in Nat
  /\ IsFiniteSet(Members) /\ IsFiniteSet(OwnKeys) /\ IsFiniteSet(Requests)

VARIABLES
  day,          \* the day, everywhere the same
  own,          \* organisation_voice_secrets: the key a workspace has connected
  testing,      \* what ElevenLabs said of a key about to be connected
  usage,        \* voice_usage_daily: characters by person, day and source
  used,         \* ElevenLabs: the characters billed to each key
  subs,         \* the subscriptions this process has read, by keyRef
  flights,      \* the subscriptions it is reading
  speech,       \* the requests to say something
  dawn          \* history: what each key had left when each day began

vars == <<day, own, testing, usage, used, subs, flights, speech, dawn>>
-----------------------------------------------------------------------------
Refs    == Orgs \cup {Env}
Sources == {"organisation", "environment"}
Stages  == {"awaits", "ready", "counting", "counted", "sent", "failed", "kept", "givenBack"}

Entry   == [key : Keys, left : Nat, count : Nat, day : Days]
NoEntry == [key |-> NoKey]

\* left: Unknown until ElevenLabs has worked out its answer; allowed (history):
\* what each day could share out just then.
Unknown == -1
Flight  == [ref : Refs, key : Keys, count : Nat, day : Days,
            left : Nat \cup {Unknown}, allowed : [Days -> Nat]]

\* day: of the reservation; at: of its transaction's now(); billed: by ElevenLabs,
\* "late" if its answer did not come in time.
Speech  == [stage : Stages, by : Members, key : Keys, n : Lengths,
            share : Nat, at : Days, day : Days,
            billed : {"no", "yes", "late"}]
Unasked == [stage |-> "unasked"]

Source(k)    == IF k = Env THEN "environment" ELSE "organisation"
RefOf(p, k)  == IF k = Env THEN Env ELSE OrgOf[p]
DaysLeft     == LastDay + 1 - day

\* keyOf: the workspace's own key, else Boredroom's.
KeyOf(p) == IF own[OrgOf[p]] = NoKey THEN Env ELSE own[OrgOf[p]]

\* The sums totalsIn and keyTodayIn read.
PersonToday(p, d)       == usage[p][d]["organisation"] + usage[p][d]["environment"]
WorkspaceToday(o, d, s) == SumFunction([p \in {q \in Members : OrgOf[q] = o} |-> usage[p][d][s]])
KeyToday(ref, d)        ==
  IF ref = Env THEN SumFunction([p \in Members |-> usage[p][d]["environment"]])
               ELSE WorkspaceToday(ref, d, "organisation")

Init ==
  /\ day = 1
  /\ own = [o \in Orgs |-> NoKey]
  /\ testing = [o \in Orgs |-> NoEntry]
  /\ usage = [p \in Members |-> [d \in Days |-> [s \in Sources |-> 0]]]
  /\ used = [k \in Keys |-> 0]
  /\ subs = [r \in Refs |-> NoEntry]
  /\ flights = {}
  /\ speech = [u \in Requests |-> Unasked]
  /\ dawn = [d \in Days |-> Limit]

\* What a set of requests say.
Characters(us) == SumFunction([u \in us |-> speech[u].n])

\* The reservations of these stages; Standing: not given back.
Reserved(stages) == {u \in Requests : speech[u].stage \in stages}
Standing         == {"counted", "sent", "failed", "kept"}

\* A request ends without a trace: refused, or its transaction is rolled back.
Forgotten(u) == speech' = [speech EXCEPT ![u] = Unasked]
-----------------------------------------------------------------------------
(* The subscription of a key. *)

\* allowanceLow: under a tenth is left.
Low(e) == e.left * 10 < Limit[e.key]

\* dailyShare.
Share(e) == (e.left + e.count) \div DaysLeft

\* An entry from another day, or of Boredroom's key from another quarter of an
\* hour, is served without its count (servedStale).
Served(e) ==
  {[e EXCEPT !.count = n] :
     n \in (IF e.day = day THEN {e.count} ELSE {}) \cup
           (IF e.day = day - 1 \/ (e.day = day /\ e.key = Env) THEN {0} ELSE {})}

\* What subscriptionNow finds to serve for this very key.
Known(ref, k) == IF subs[ref].key = k THEN Served(subs[ref]) ELSE {}

\* readSubscription: one read at a time of a key and day, with the characters
\* that the request which starts it has just seen counted.
StartRead(ref, k) ==
  IF \E f \in flights : f.ref = ref /\ f.key = k /\ f.day = day
  THEN UNCHANGED flights
  ELSE /\ Cardinality(flights) < MaxReads
       /\ flights' = flights \cup
            {[ref |-> ref, key |-> k, count |-> KeyToday(ref, day), day |-> day,
              left |-> Unknown, allowed |-> [d \in Days |-> 0]]}

Awaits(u, f) ==
  /\ speech[u].stage = "awaits"
  /\ f.ref = RefOf(speech[u].by, speech[u].key) /\ f.key = speech[u].key /\ f.day = speech[u].day

\* What can be shared out of a key on a day, when ElevenLabs says what it has left:
\* what it had left at dawn, and what was reserved that day and is not billed to it.
Allowed(ref, k, d) ==
  dawn[d][k]
    + Characters({u \in Reserved(Standing \cup {"givenBack"}) :
                    /\ RefOf(speech[u].by, speech[u].key) = ref /\ speech[u].day = d
                    /\ ~(speech[u].billed # "no" /\ speech[u].key = k)})

\* ElevenLabs works out its answer, by what it has billed so far.
WorkOut(f) ==
  /\ f.left = Unknown
  /\ flights' = (flights \ {f}) \cup
       {[f EXCEPT !.left = Limit[f.key] - used[f.key],
                  !.allowed = [d \in Days |-> Allowed(f.ref, f.key, d)]]}
  /\ UNCHANGED <<day, own, testing, usage, used, subs, speech, dawn>>

\* Faulty: the count is read when the answer arrives.
CountedLate(f) == [key |-> f.key, left |-> f.left, count |-> KeyToday(f.ref, f.day), day |-> f.day]

\* Faulty: the entry is not stamped.
Unstamped(f) == [key |-> f.key, left |-> f.left, count |-> f.count]

\* The entry made of ElevenLabs' answer.
Answered(f) == [key |-> f.key, left |-> f.left, count |-> f.count, day |-> f.day]

\* The answer arrives; who waited for it goes on, unless too little is left.
ReadSubscription(f) ==
  LET e == Answered(f) IN
  /\ f.left # Unknown
  /\ flights' = flights \ {f}
  /\ subs' = [subs EXCEPT ![f.ref] = e]
  /\ speech' = [u \in Requests |->
       IF ~Awaits(u, f) THEN speech[u]
       ELSE IF Low(e) THEN Unasked
       ELSE [speech[u] EXCEPT !.stage = "ready", !.share = Share(e), !.at = day]]
  /\ UNCHANGED <<day, own, testing, usage, used, dawn>>

\* It does not arrive: who waited is refused.
ReadFails(f) ==
  /\ flights' = flights \ {f}
  /\ speech' = [u \in Requests |-> IF Awaits(u, f) THEN Unasked ELSE speech[u]]
  /\ UNCHANGED <<day, own, testing, usage, used, subs, dawn>>
-----------------------------------------------------------------------------
(* A request to say something. *)

New(p, k, n, stage, share) ==
  [stage |-> stage, by |-> p, key |-> k, n |-> n,
   share |-> share, at |-> day, day |-> day, billed |-> "no"]

\* prepareSpeechIn with a subscription to serve, fresh or read again meanwhile.
Prepare(u, p) ==
  LET k == KeyOf(p)  ref == RefOf(p, k) IN
  /\ speech[u] = Unasked
  /\ \E e \in Known(ref, k), n \in Lengths :
       ~Low(e) /\ speech' = [speech EXCEPT ![u] = New(p, k, n, "ready", Share(e))]
  /\ UNCHANGED flights \/ StartRead(ref, k)
  /\ UNCHANGED <<day, own, testing, usage, used, subs, dawn>>

\* prepareSpeechIn with none, or with one that is over an hour old: the
\* transaction ends, and the request waits for the read.
PrepareRead(u, p) ==
  LET k == KeyOf(p) IN
  /\ speech[u] = Unasked
  /\ \E n \in Lengths : speech' = [speech EXCEPT ![u] = New(p, k, n, "awaits", 0)]
  /\ StartRead(RefOf(p, k), k)
  /\ UNCHANGED <<day, own, testing, usage, used, subs, dawn>>

\* The reservations under way, which hold their key's lock.
Counting(ref) ==
  {u \in Requests : speech[u].stage = "counting" /\ RefOf(speech[u].by, speech[u].key) = ref}

\* Faulty: the lock does not keep anybody out.
Unlocked(ref) == TRUE

Locks(ref) == Counting(ref) = {}

WorkspaceCap(k, share) ==
  IF k # Env THEN share
  ELSE IF share \div Slices < SliceMax THEN share \div Slices ELSE SliceMax

\* reserveIn: with the lock, the totals and the insert.  The day is the
\* process's, that of the key's total is now()'s, of when the transaction began.
Reserve(u) ==
  LET r == speech[u]  ref == RefOf(r.by, r.key) IN
  /\ r.stage = "ready"
  /\ Locks(ref)
  /\ PersonToday(r.by, day) < PersonCap
  /\ WorkspaceToday(OrgOf[r.by], day, Source(r.key)) < WorkspaceCap(r.key, r.share)
  /\ KeyToday(ref, IF r.key = Env THEN r.at ELSE day) < r.share
  /\ speech' = [speech EXCEPT ![u] = New(r.by, r.key, r.n, "counting", 0)]
  /\ UNCHANGED <<day, own, testing, usage, used, subs, flights, dawn>>

\* Its COMMIT, which comes with it.
ReserveCommit(u) ==
  LET r == speech[u] IN
  /\ r.stage = "counting"
  /\ usage' = [usage EXCEPT ![r.by][r.day][Source(r.key)] = @ + r.n]
  /\ speech' = [speech EXCEPT ![u].stage = "counted"]
  /\ UNCHANGED <<day, own, testing, used, subs, flights, dawn>>

\* Refused by a cap, given up, or rolled back.
GiveUp(u) ==
  /\ speech[u].stage \in {"awaits", "ready", "counting"}
  /\ Forgotten(u)
  /\ UNCHANGED <<day, own, testing, usage, used, subs, flights, dawn>>
-----------------------------------------------------------------------------
(* ElevenLabs. *)

Becomes(u, stage) ==
  /\ speech' = [speech EXCEPT ![u].stage = stage]
  /\ UNCHANGED <<day, own, testing, usage, used, subs, flights, dawn>>

Send(u) == speech[u].stage = "counted" /\ Becomes(u, "sent")

\* The person has gone before it was sent.
Abandon(u) == speech[u].stage = "counted" /\ Becomes(u, "failed")

\* ElevenLabs makes the audio, as far as the allowance goes.
Bills(u) ==
  /\ used[speech[u].key] + speech[u].n <= Limit[speech[u].key]
  /\ used' = [used EXCEPT ![speech[u].key] = @ + speech[u].n]

\* Faulty: who stops listening is given the characters back.
SaidOrStopped(u) ==
  /\ speech[u].stage = "sent"
  /\ Bills(u)
  /\ \E stage \in {"kept", "failed"} :
       speech' = [speech EXCEPT ![u].stage = stage, ![u].billed = "yes"]
  /\ UNCHANGED <<day, own, testing, usage, subs, flights, dawn>>

\* The answer is audio, whether it is heard to its end or stopped.
Said(u) ==
  /\ speech[u].stage = "sent"
  /\ Bills(u)
  /\ speech' = [speech EXCEPT ![u].stage = "kept", ![u].billed = "yes"]
  /\ UNCHANGED <<day, own, testing, usage, subs, flights, dawn>>

\* The answer is an error.
Fails(u) == speech[u].stage = "sent" /\ Becomes(u, "failed")

\* There is no answer in time, but the audio is made.
TimesOut(u) ==
  /\ speech[u].stage = "sent"
  /\ Bills(u)
  /\ speech' = [speech EXCEPT ![u].stage = "failed", ![u].billed = "late"]
  /\ UNCHANGED <<day, own, testing, usage, subs, flights, dawn>>

Without(n, m) == IF n < m THEN 0 ELSE n - m

\* Faulty: the refund is today's.
RefundToday(u) ==
  LET r == speech[u] IN
  /\ r.stage = "failed"
  /\ usage' = [usage EXCEPT ![r.by][day][Source(r.key)] = Without(@, r.n)]
  /\ speech' = [speech EXCEPT ![u].stage = "givenBack"]
  /\ UNCHANGED <<day, own, testing, used, subs, flights, dawn>>

\* refund, on the day and source of the reservation.
Refund(u) ==
  LET r == speech[u] IN
  /\ r.stage = "failed"
  /\ usage' = [usage EXCEPT ![r.by][r.day][Source(r.key)] = Without(@, r.n)]
  /\ speech' = [speech EXCEPT ![u].stage = "givenBack"]
  /\ UNCHANGED <<day, own, testing, used, subs, flights, dawn>>

\* The refund fails, which nobody is told.
RefundFails(u) == speech[u].stage = "failed" /\ Becomes(u, "kept")
-----------------------------------------------------------------------------
(* The process, the workspace and the calendar. *)

\* The process ends.  What was sent may still be billed.
Crash ==
  /\ subs' = [r \in Refs |-> NoEntry]
  /\ flights' = {}
  /\ testing' = [o \in Orgs |-> NoEntry]
  /\ \E S \in SUBSET {u \in Requests : speech[u].stage = "sent"} :
       /\ used' = [k \in Keys |->
            used[k] + Characters({u \in S : speech[u].key = k})]
       /\ \A k \in Keys : used'[k] <= Limit[k]
       /\ speech' = [u \in Requests |->
            CASE speech[u].stage \in {"awaits", "ready", "counting"} -> Unasked
              [] speech[u].stage \in {"counted", "sent", "failed"} ->
                   [speech[u] EXCEPT !.stage = "kept", !.billed = IF u \in S THEN "yes" ELSE @]
              [] OTHER -> speech[u]]
  /\ UNCHANGED <<day, own, usage, dawn>>

\* setVoiceKey up to ElevenLabs' answer.
TestKey(o, k) ==
  /\ testing[o] = NoEntry
  /\ testing' = [testing EXCEPT ![o] =
       [key |-> k, left |-> Limit[k] - used[k]]]
  /\ UNCHANGED <<day, own, usage, used, subs, flights, speech, dawn>>

\* The rest of it: the key is stored and the day's characters are counted.
ConnectKey(o) ==
  /\ testing[o] # NoEntry
  /\ own' = [own EXCEPT ![o] = testing[o].key]
  /\ subs' = [subs EXCEPT ![o] =
       [key |-> testing[o].key, left |-> testing[o].left, count |-> KeyToday(o, day), day |-> day]]
  /\ testing' = [testing EXCEPT ![o] = NoEntry]
  /\ UNCHANGED <<day, usage, used, flights, speech, dawn>>

\* clearVoiceKey.
ClearKey(o) ==
  /\ own[o] # NoKey
  /\ own' = [own EXCEPT ![o] = NoKey]
  /\ subs' = [subs EXCEPT ![o] = NoEntry]
  /\ UNCHANGED <<day, testing, usage, used, flights, speech, dawn>>

Midnight ==
  /\ day < LastDay
  /\ day' = day + 1
  /\ dawn' = [dawn EXCEPT ![day + 1] = [k \in Keys |-> Limit[k] - used[k]]]
  /\ UNCHANGED <<own, testing, usage, used, subs, flights, speech>>

Next ==
  \/ Crash \/ Midnight
  \/ \E o \in Orgs : ConnectKey(o) \/ ClearKey(o) \/ \E k \in OwnKeys : TestKey(o, k)
  \/ \E f \in flights : WorkOut(f) \/ ReadSubscription(f) \/ ReadFails(f)
  \/ \E u \in Requests, p \in Members : Prepare(u, p) \/ PrepareRead(u, p)
  \/ \E u \in Requests :
       \/ Reserve(u) \/ ReserveCommit(u) \/ GiveUp(u) \/ Send(u) \/ Abandon(u)
       \/ Said(u) \/ Fails(u) \/ TimesOut(u) \/ Refund(u) \/ RefundFails(u)

Spec == Init /\ [][Next]_vars
-----------------------------------------------------------------------------
(* Properties. *)

\* Every variable holds what its table, message or map can hold; ElevenLabs
\* never bills a key beyond its limit.
TypeOK ==
  /\ day \in Days
  /\ own \in [Orgs -> OwnKeys \cup {NoKey}]
  /\ testing \in [Orgs -> [key : Keys, left : Nat] \cup {NoEntry}]
  /\ usage \in [Members -> [Days -> [Sources -> Nat]]]
  /\ used \in [Keys -> Nat] /\ \A k \in Keys : used[k] <= Limit[k]
  /\ subs \in [Refs -> Entry \cup {NoEntry}]
  /\ flights \subseteq Flight
  /\ speech \in [Requests -> Speech \cup {Unasked}]
  /\ dawn \in [Days -> [Keys -> Nat]]

\* voice_usage_daily holds, for each person, day and source, exactly what was
\* reserved there and not given back: a refund after midnight, or after the
\* workspace changed its key, finds its reservation, and the greatest(0, ...) of
\* refund never has anything to cut off.
CountsAreKept ==
  \A p \in Members, d \in Days, s \in Sources :
    usage[p][d][s] =
      Characters({u \in Reserved(Standing) :
                    speech[u].by = p /\ speech[u].day = d /\ Source(speech[u].key) = s})

\* "The most a day can go over is one utterance": of one person on one key, and
\* of a workspace on Boredroom's key, however many tabs and people ask at once.
OneUtteranceOver ==
  \A d \in Days :
    /\ \A p \in Members, s \in Sources : \E n \in Lengths : usage[p][d][s] < PersonCap + n
    /\ \A o \in Orgs : \E n \in Lengths : WorkspaceToday(o, d, "environment") < SliceMax + n

\* What ElevenLabs bills is counted, unless its answer came too late: nothing is
\* sent before its reservation is committed, and what was billed is not given
\* back, whoever stops listening, and whatever becomes of the process.
BilledIsCounted ==
  \A s \in Sources :
    SumFunction([k \in {k \in Keys : Source(k) = s} |-> used[k]])
      <= SumFunction([pd \in Members \X Days |-> usage[pd[1]][pd[2]][s]])
           + Characters({u \in Reserved({"givenBack"}) :
                           speech[u].billed = "late" /\ Source(speech[u].key) = s})

\* Of what a key has left nothing is shared out twice but what is reserved and not
\* billed yet: the left and the count of an entry that was read are together never
\* more than the key had left when the entry's day began and what was reserved that
\* day and not billed to it when ElevenLabs answered.  The count is from before the
\* question, and of the entry's own day, whatever is reserved, billed and given back
\* until the answer arrives, over midnight and a change of keys ("the count must not
\* include what is reserved after the subscription was read, or the share would grow
\* by it").
\* Of setVoiceKey it says nothing: that asks first and counts afterwards.
SharedOutOnce ==
  [][\A f \in flights \ flights' :
       LET e == subs'[f.ref] IN
       e \notin {subs[f.ref], NoEntry} => e.left + e.count <= f.allowed[e.day]]_vars
=============================================================================
