------------------------- MODULE VoiceCreditProofs --------------------------
(***************************************************************************)
(* Theorems about VoiceCredit, for any finite number of people, workspaces *)
(* and keys, any number of utterances of any lengths, any caps and days.   *)
(***************************************************************************)
EXTENDS VoiceCredit, SumTheorems
-----------------------------------------------------------------------------
(* The invariant.                                                          *)

\* The requests whose characters ElevenLabs has billed to a key.
BilledOn(k) == {u \in Requests : speech[u] # Unasked /\ speech[u].billed # "no" /\ speech[u].key = k}

\* The reservations of a day on a keyRef that were not billed to this key.
Unbilled(ref, d, k) ==
  {u \in Reserved(Standing \cup {"givenBack"}) :
     /\ RefOf(speech[u].by, speech[u].key) = ref
     /\ speech[u].day = d
     /\ ~(speech[u].billed # "no" /\ speech[u].key = k)}

\* Nothing is reserved for a day to come; what is heard is kept, and nothing is
\* billed that was not sent.
StagesInv ==
  \A u \in Requests : speech[u] # Unasked =>
    /\ speech[u].day <= day
    /\ speech[u].billed = "yes" => speech[u].stage = "kept"
    /\ speech[u].billed = "late" => speech[u].stage \in {"failed", "kept", "givenBack"}

\* Who counts is alone with the key, and finds below the caps what will be added to.
LocksInv ==
  /\ \A u, v \in Requests :
       /\ speech[u].stage = "counting" /\ speech[v].stage = "counting"
       /\ RefOf(speech[u].by, speech[u].key) = RefOf(speech[v].by, speech[v].key)
       => u = v
  /\ \A u \in Requests : speech[u].stage = "counting" =>
       LET r == speech[u] IN
       /\ usage[r.by][r.day][Source(r.key)] < PersonCap
       /\ r.key = Env => WorkspaceToday(OrgOf[r.by], r.day, "environment") < SliceMax

\* A key's bill is what was billed, and a day's bill all that was reserved on it
\* and billed.
BillsInv ==
  \A k \in Keys :
    /\ used[k] = Characters(BilledOn(k))
    /\ \A d \in Days :
         (Limit[k] - dawn[d][k]) + Characters({u \in BilledOn(k) : speech[u].day >= d}) <= used[k]

\* A read under way would share out nothing twice if it were answered now, and
\* one that is answered shares out no more than could be shared out then.
FlightsInv ==
  \A f \in flights :
    /\ f.day <= day
    /\ f.left = Unknown =>
         f.count + (Limit[f.key] - used[f.key])
           <= dawn[f.day][f.key] + Characters(Unbilled(f.ref, f.day, f.key))
    /\ f.left # Unknown => f.left + f.count <= f.allowed[f.day]

\* The parts in one.
CreditInv ==
  TypeOK /\ StagesInv /\ CountsAreKept /\ LocksInv /\ OneUtteranceOver /\ BillsInv /\ FlightsInv
-----------------------------------------------------------------------------
(* The constants, and what requests say.                                   *)

LEMMA Constants ==
  /\ Env \in Keys /\ NoKey \notin Keys /\ OwnKeys \subseteq Keys /\ Env \notin OwnKeys
  /\ Env \in Refs /\ Orgs \subseteq Refs /\ Env \notin Orgs /\ \A p \in Members : OrgOf[p] \in Orgs
  /\ Limit \in [Keys -> Nat] /\ Lengths \subseteq Nat \ {0} /\ Lengths # {}
  /\ PersonCap \in Nat \ {0} /\ Slices \in Nat \ {0} /\ SliceMax \in Nat
  /\ LastDay \in Nat \ {0} /\ Days \subseteq Nat \ {0} /\ 1 \in Days
BY VoiceAssumption DEF Keys, Refs, Orgs, Days

LEMMA Finite ==
  /\ IsFiniteSet(Members) /\ IsFiniteSet(Requests) /\ IsFiniteSet(Keys) /\ IsFiniteSet(Days)
  /\ \A S \in SUBSET Requests : IsFiniteSet(S)
  /\ \A S \in SUBSET Members : IsFiniteSet(S)
  /\ \A S \in SUBSET Keys : IsFiniteSet(S)
<1>1. IsFiniteSet(Members) /\ IsFiniteSet(Requests) /\ IsFiniteSet(OwnKeys)
  BY VoiceAssumption
<1>2. IsFiniteSet(Keys)
  BY <1>1, FS_AddElement DEF Keys
<1>3. IsFiniteSet(Days)
  BY Constants, FS_Interval DEF Days
<1> QED BY <1>1, <1>2, <1>3, FS_Subset

\* The sum, whichever requests it is taken of.
Chars(sp, us) == SumFunction([u \in us |-> sp[u].n])
Spoken(sp)    == [u \in Requests |-> sp[u].n]

LEMMA CharactersAre ==
  ASSUME NEW us PROVE Characters(us) = Chars(speech, us) /\ Characters(us)' = Chars(speech', us')
BY DEF Characters, Chars

LEMMA CharsSum ==
  ASSUME NEW sp, NEW us \in SUBSET Requests, \A u \in us : sp[u].n \in Nat
  PROVE  Chars(sp, us) = SumFunctionOnSet(Spoken(sp), us)
<1> DEFINE f == [u \in us |-> sp[u].n]
           g == Spoken(sp)
<1>1. Chars(sp, us) = SumFunctionOnSet(f, us)
  BY DEF Chars, SumFunction
<1>2. \A u \in us : f[u] \in Int /\ f[u] = g[u]
  BY DEF Spoken
<1>3. IsFiniteSet(us)
  BY Finite
<1>4. SumFunctionOnSet(f, us) = SumFunctionOnSet(g, us)
  <2> HIDE DEF f, g
  <2> QED BY <1>2, <1>3, SumSame
<1> QED BY <1>1, <1>4

LEMMA CharsNat ==
  ASSUME NEW sp, NEW us \in SUBSET Requests, \A u \in us : sp[u].n \in Nat
  PROVE  Chars(sp, us) \in Nat
<1>1. \A u \in us : Spoken(sp)[u] \in Nat
  BY DEF Spoken
<1> QED BY <1>1, CharsSum, Finite, SumNat

LEMMA CharsSame ==
  ASSUME NEW sp, NEW sq, NEW us \in SUBSET Requests,
         \A u \in us : sp[u].n \in Nat /\ sp[u].n = sq[u].n
  PROVE  Chars(sp, us) = Chars(sq, us)
<1>1. \A u \in us : Spoken(sp)[u] \in Int /\ Spoken(sp)[u] = Spoken(sq)[u]
  BY DEF Spoken
<1>2. SumFunctionOnSet(Spoken(sp), us) = SumFunctionOnSet(Spoken(sq), us)
  BY <1>1, Finite, SumSame
<1>3. Chars(sp, us) = SumFunctionOnSet(Spoken(sp), us) /\ Chars(sq, us) = SumFunctionOnSet(Spoken(sq), us)
  BY CharsSum
<1> QED BY <1>2, <1>3

LEMMA CharsUnion ==
  ASSUME NEW sp, NEW us \in SUBSET Requests, \A u \in us : sp[u].n \in Nat, NEW vs \in SUBSET us
  PROVE  Chars(sp, us) = Chars(sp, vs) + Chars(sp, us \ vs)
<1>1. \A u \in us : Spoken(sp)[u] \in Int
  BY DEF Spoken
<1>2. SumFunctionOnSet(Spoken(sp), us) = SumFunctionOnSet(Spoken(sp), vs) + SumFunctionOnSet(Spoken(sp), us \ vs)
  BY <1>1, Finite, SumUnion
<1>3. us \ vs \in SUBSET Requests /\ vs \in SUBSET Requests
  OBVIOUS
<1> QED BY <1>2, <1>3, CharsSum

LEMMA CharsSubset ==
  ASSUME NEW sp, NEW us \in SUBSET Requests, \A u \in us : sp[u].n \in Nat, NEW vs \in SUBSET us
  PROVE  Chars(sp, vs) <= Chars(sp, us)
<1>1. Chars(sp, us) = Chars(sp, vs) + Chars(sp, us \ vs)
  BY CharsUnion
<1>2. Chars(sp, vs) \in Nat /\ Chars(sp, us \ vs) \in Nat
  BY CharsNat
<1> QED BY <1>1, <1>2

LEMMA CharsAt ==
  ASSUME NEW sp, NEW us \in SUBSET Requests, \A u \in us : sp[u].n \in Nat, NEW u \in us
  PROVE  Chars(sp, us) = sp[u].n + Chars(sp, us \ {u})
<1>1. \A v \in us : Spoken(sp)[v] \in Int
  BY DEF Spoken
<1>2. SumFunctionOnSet(Spoken(sp), us) = Spoken(sp)[u] + SumFunctionOnSet(Spoken(sp), us \ {u})
  BY <1>1, Finite, SumAt
<1>3. us \ {u} \in SUBSET Requests /\ Spoken(sp)[u] = sp[u].n
  BY DEF Spoken
<1> QED BY <1>2, <1>3, CharsSum

LEMMA CharsEmpty == \A sp : Chars(sp, {}) = 0
BY SumEmpty DEF Chars, SumFunction
-----------------------------------------------------------------------------
(* Types.                                                                  *)

LEMMA Requested ==
  ASSUME TypeOK, NEW u \in Requests
  PROVE  /\ speech[u] \in Speech \cup {Unasked}
         /\ speech[u].stage \in Stages => speech[u] \in Speech
         /\ speech[u] # Unasked => speech[u] \in Speech
         /\ speech[u] \in Speech => /\ speech[u] # Unasked /\ speech[u].stage \in Stages
                                    /\ speech[u].n \in Nat \ {0} /\ speech[u].key \in Keys
                                    /\ speech[u].by \in Members /\ speech[u].day \in Days
<1>1. speech[u] \in Speech \cup {Unasked}
  BY DEF TypeOK
<1>2. Unasked.stage \notin Stages
  BY DEF Unasked, Stages
<1>3. \A r \in Speech : /\ r.stage \in Stages /\ r.n \in Lengths /\ r.key \in Keys
                        /\ r.by \in Members /\ r.day \in Days
  BY DEF Speech
<1> QED BY <1>1, <1>2, <1>3, Constants

LEMMA KeyOfType ==
  ASSUME TypeOK, NEW p \in Members
  PROVE  KeyOf(p) \in Keys /\ RefOf(p, KeyOf(p)) \in Refs
BY Constants DEF TypeOK, KeyOf, RefOf

LEMMA WorkspaceTodayType ==
  ASSUME TypeOK, NEW o, NEW d \in Days, NEW s \in Sources
  PROVE  WorkspaceToday(o, d, s) \in Nat
<1> DEFINE S == {q \in Members : OrgOf[q] = o}
           f == [p \in S |-> usage[p][d][s]]
<1>1. \A p \in S : f[p] \in Nat
  BY DEF TypeOK
<1>2. IsFiniteSet(S)
  BY Finite
<1>3. SumFunctionOnSet(f, S) \in Nat
  <2> HIDE DEF S, f
  <2> QED BY <1>1, <1>2, SumNat
<1> QED BY <1>3 DEF WorkspaceToday, SumFunction

LEMMA KeyTodayType ==
  ASSUME TypeOK, NEW ref, NEW d \in Days
  PROVE  KeyToday(ref, d) \in Nat
<1> DEFINE f == [p \in Members |-> usage[p][d]["environment"]]
<1>1. \A p \in Members : f[p] \in Nat
  BY DEF TypeOK, Sources
<1>2. SumFunctionOnSet(f, Members) \in Nat
  <2> HIDE DEF f
  <2> QED BY <1>1, Finite, SumNat
<1>3. WorkspaceToday(ref, d, "organisation") \in Nat
  BY WorkspaceTodayType DEF Sources
<1> QED BY <1>2, <1>3 DEF KeyToday, SumFunction

LEMMA StartReadType ==
  ASSUME TypeOK, NEW ref \in Refs, NEW k \in Keys, StartRead(ref, k)
  PROVE  flights' \subseteq Flight
<1>1. KeyToday(ref, day) \in Nat /\ day \in Days
  BY KeyTodayType DEF TypeOK
<1>2. [d \in Days |-> 0] \in [Days -> Nat]
  OBVIOUS
<1> QED BY <1>1, <1>2 DEF TypeOK, StartRead, Flight, Unknown

LEMMA ShareType ==
  ASSUME TypeOK, NEW e \in Entry
  PROVE  Share(e) \in Nat
<1>1. DaysLeft \in Nat \ {0}
  BY Constants DEF TypeOK, Days, DaysLeft
<1>2. \A a, b \in Nat : b # 0 => a \div b \in Nat
  OBVIOUS
<1> QED BY <1>1, <1>2 DEF Share, Entry

LEMMA AnsweredType ==
  ASSUME TypeOK, NEW f \in flights, f.left # Unknown
  PROVE  Answered(f) \in Entry /\ f.ref \in Refs
BY Constants DEF TypeOK, Answered, Entry, Flight, Unknown

LEMMA AllowedIs ==
  ASSUME NEW ref, NEW k, NEW d PROVE Allowed(ref, k, d) = dawn[d][k] + Chars(speech, Unbilled(ref, d, k))
BY DEF Allowed, Characters, Chars, Unbilled

LEMMA AllowedType ==
  ASSUME TypeOK, NEW ref, NEW k \in Keys, NEW d \in Days
  PROVE  Allowed(ref, k, d) \in Nat
<1>1. Unbilled(ref, d, k) \in SUBSET Requests /\ \A u \in Unbilled(ref, d, k) : speech[u].n \in Nat
  BY Requested DEF Unbilled, Reserved, Standing, Stages
<1>2. Chars(speech, Unbilled(ref, d, k)) \in Nat
  BY <1>1, CharsNat
<1> QED BY <1>2, AllowedIs DEF TypeOK

\* What becomes of a read when ElevenLabs has worked out its answer.
Worked(f) ==
  [f EXCEPT !.left = Limit[f.key] - used[f.key],
            !.allowed = [d \in Days |-> Allowed(f.ref, f.key, d)]]

LEMMA WorkedIs ==
  ASSUME TypeOK, NEW f \in flights
  PROVE  /\ Worked(f) \in Flight
         /\ Worked(f).left = Limit[f.key] - used[f.key] /\ Worked(f).left # Unknown
         /\ Worked(f).ref = f.ref /\ Worked(f).key = f.key /\ Worked(f).count = f.count /\ Worked(f).day = f.day
         /\ \A d \in Days : Worked(f).allowed[d] = Allowed(f.ref, f.key, d)
<1>1. f \in Flight
  BY DEF TypeOK
<1>2. f.key \in Keys
  BY <1>1 DEF Flight
<1>3. Limit[f.key] - used[f.key] \in Nat
  BY <1>2, Constants DEF TypeOK
<1> DEFINE a == [d \in Days |-> Allowed(f.ref, f.key, d)]
           l == Limit[f.key] - used[f.key]
<1>4. a \in [Days -> Nat]
  BY <1>2, AllowedType
<1>5. Worked(f) = [f EXCEPT !.left = l, !.allowed = a]
  BY DEF Worked
<1>6. \A d \in Days : a[d] = Allowed(f.ref, f.key, d)
  OBVIOUS
<1>7. l \in Nat /\ l # Unknown
  BY <1>3 DEF Unknown
<1> HIDE DEF a, l
<1> QED BY <1>1, <1>4, <1>5, <1>6, <1>7 DEF Flight, l

LEMMA KnownType ==
  ASSUME TypeOK, NEW ref \in Refs, NEW k \in Keys
  PROVE  Known(ref, k) \subseteq Entry
<1>1. CASE subs[ref].key = k
  <2>1. subs[ref] \in Entry
    BY <1>1, Constants DEF TypeOK, NoEntry
  <2> QED BY <2>1 DEF Known, Served, Entry
<1>2. CASE subs[ref].key # k
  BY <1>2 DEF Known
<1> QED BY <1>1, <1>2

LEMMA NewType ==
  ASSUME TypeOK, NEW p \in Members, NEW k \in Keys, NEW n \in Lengths, NEW stage \in Stages, NEW share \in Nat
  PROVE  New(p, k, n, stage, share) \in Speech
BY DEF TypeOK, New, Speech

\* One request goes on to a stage, billed or not.
Turned(u, stage, billed) ==
  /\ speech[u] \in Speech /\ speech'[u] \in Speech
  /\ speech' \in [Requests -> Speech \cup {Unasked}]
  /\ \A v \in Requests \ {u} : speech'[v] = speech[v]
  /\ speech'[u].stage = stage /\ speech'[u].billed = billed
  /\ speech'[u].by = speech[u].by /\ speech'[u].key = speech[u].key
  /\ speech'[u].n = speech[u].n /\ speech'[u].day = speech[u].day

LEMMA TurnsStage ==
  ASSUME TypeOK, NEW u \in Requests, speech[u].stage \in Stages, NEW stage \in Stages,
         speech' = [speech EXCEPT ![u].stage = stage]
  PROVE  Turned(u, stage, speech[u].billed)
<1>1. speech[u] \in Speech
  BY Requested
<1>2. speech'[u] = [speech[u] EXCEPT !.stage = stage]
  BY DEF TypeOK
<1>3. speech'[u] \in Speech
  BY <1>1, <1>2 DEF Speech
<1>4. speech' \in [Requests -> Speech \cup {Unasked}]
  BY <1>2, <1>3 DEF TypeOK
<1>5. \A v \in Requests \ {u} : speech'[v] = speech[v]
  BY DEF TypeOK
<1>6. /\ speech'[u].stage = stage /\ speech'[u].billed = speech[u].billed
      /\ speech'[u].by = speech[u].by /\ speech'[u].key = speech[u].key
      /\ speech'[u].n = speech[u].n /\ speech'[u].day = speech[u].day
  BY <1>1, <1>2 DEF Speech
<1> QED BY <1>1, <1>3, <1>4, <1>5, <1>6 DEF Turned

LEMMA TurnsBilled ==
  ASSUME TypeOK, NEW u \in Requests, speech[u].stage \in Stages,
         NEW stage \in Stages, NEW b \in {"no", "yes", "late"},
         speech' = [speech EXCEPT ![u].stage = stage, ![u].billed = b]
  PROVE  Turned(u, stage, b)
<1> DEFINE r == [speech[u] EXCEPT !.stage = stage]
           q == [r EXCEPT !.billed = b]
<1>1. speech[u] \in Speech
  BY Requested
<1>2. r \in Speech /\ r.stage = stage /\ r.by = speech[u].by /\ r.key = speech[u].key
      /\ r.n = speech[u].n /\ r.day = speech[u].day
  BY <1>1 DEF Speech
<1>3. q \in Speech /\ q.stage = stage /\ q.billed = b /\ q.by = speech[u].by /\ q.key = speech[u].key
      /\ q.n = speech[u].n /\ q.day = speech[u].day
  <2> HIDE DEF r
  <2> QED BY <1>2 DEF Speech
<1>4. speech'[u] = q
  BY DEF TypeOK
<1>5. \A v \in Requests \ {u} : speech'[v] = speech[v]
  BY DEF TypeOK
<1>6. speech' \in [Requests -> Speech \cup {Unasked}]
  <2>1. speech' = [v \in Requests |-> speech'[v]]
    BY DEF TypeOK
  <2> HIDE DEF q
  <2> QED BY <1>3, <1>4, <1>5, <2>1 DEF TypeOK
<1> HIDE DEF q
<1> QED BY <1>1, <1>3, <1>4, <1>5, <1>6 DEF Turned

\* Which stage follows which.
LEMMA Turns ==
  ASSUME TypeOK, NEW u \in Requests
  PROVE  /\ ReserveCommit(u) => speech[u].stage = "counting" /\ Turned(u, "counted", speech[u].billed)
         /\ Refund(u) => speech[u].stage = "failed" /\ Turned(u, "givenBack", speech[u].billed)
         /\ Said(u) => speech[u].stage = "sent" /\ Turned(u, "kept", "yes")
         /\ TimesOut(u) => speech[u].stage = "sent" /\ Turned(u, "failed", "late")
<1>1. ReserveCommit(u) => speech[u].stage = "counting" /\ Turned(u, "counted", speech[u].billed)
  BY TurnsStage DEF ReserveCommit, Stages
<1>2. Refund(u) => speech[u].stage = "failed" /\ Turned(u, "givenBack", speech[u].billed)
  BY TurnsStage DEF Refund, Stages
<1>3. Said(u) => speech[u].stage = "sent" /\ Turned(u, "kept", "yes")
  BY TurnsBilled DEF Said, Stages
<1>4. TimesOut(u) => speech[u].stage = "sent" /\ Turned(u, "failed", "late")
  BY TurnsBilled DEF TimesOut, Stages
<1> QED BY <1>1, <1>2, <1>3, <1>4

\* The other steps of a reservation, which neither count nor bill.
Passes(u) == Send(u) \/ Abandon(u) \/ Fails(u) \/ RefundFails(u)

LEMMA TurnsOn ==
  ASSUME TypeOK, NEW u \in Requests, Passes(u)
  PROVE  /\ speech[u].stage \in {"counted", "sent", "failed"}
         /\ \E stage \in {"sent", "failed", "kept"} :
              Turned(u, stage, speech[u].billed) /\ (speech[u].stage = "failed" => stage = "kept")
         /\ UNCHANGED <<day, own, testing, usage, used, subs, flights, dawn>>
<1>1. CASE Send(u)
  BY <1>1, TurnsStage DEF Send, Becomes, Stages
<1>2. CASE Abandon(u)
  BY <1>2, TurnsStage DEF Abandon, Becomes, Stages
<1>3. CASE Fails(u)
  BY <1>3, TurnsStage DEF Fails, Becomes, Stages
<1>4. CASE RefundFails(u)
  BY <1>4, TurnsStage DEF RefundFails, Becomes, Stages
<1> QED BY <1>1, <1>2, <1>3, <1>4 DEF Passes

\* The count of one person, day and source becomes m.
Counts(p, d, s, m) ==
  /\ usage' \in [Members -> [Days -> [Sources -> Nat]]]
  /\ usage'[p][d][s] = m
  /\ \A q \in Members, e \in Days, t \in Sources :
       q # p \/ e # d \/ t # s => usage'[q][e][t] = usage[q][e][t]

LEMMA CountsOne ==
  ASSUME TypeOK, NEW p \in Members, NEW d \in Days, NEW s \in Sources, NEW m \in Nat,
         usage' = [usage EXCEPT ![p][d][s] = m]
  PROVE  Counts(p, d, s, m)
<1>1. ASSUME NEW q \in Members, NEW e \in Days, NEW t \in Sources
      PROVE  usage'[q][e][t] = IF q = p /\ e = d /\ t = s THEN m ELSE usage[q][e][t]
  BY DEF TypeOK
<1>2. usage' \in [Members -> [Days -> [Sources -> Nat]]]
  BY DEF TypeOK
<1> QED BY <1>1, <1>2 DEF Counts

LEMMA CountSteps ==
  ASSUME TypeOK, NEW u \in Requests
  PROVE  /\ ReserveCommit(u) =>
              Counts(speech[u].by, speech[u].day, Source(speech[u].key),
                     usage[speech[u].by][speech[u].day][Source(speech[u].key)] + speech[u].n)
         /\ Refund(u) =>
              Counts(speech[u].by, speech[u].day, Source(speech[u].key),
                     Without(usage[speech[u].by][speech[u].day][Source(speech[u].key)], speech[u].n))
<1> SUFFICES ASSUME ReserveCommit(u) \/ Refund(u)
             PROVE  /\ ReserveCommit(u) =>
                         Counts(speech[u].by, speech[u].day, Source(speech[u].key),
                                usage[speech[u].by][speech[u].day][Source(speech[u].key)] + speech[u].n)
                    /\ Refund(u) =>
                         Counts(speech[u].by, speech[u].day, Source(speech[u].key),
                                Without(usage[speech[u].by][speech[u].day][Source(speech[u].key)], speech[u].n))
  OBVIOUS
<1>1. speech[u].by \in Members /\ speech[u].n \in Nat /\ speech[u].day \in Days
  BY Requested DEF ReserveCommit, Refund, Stages
<1>2. Source(speech[u].key) \in Sources
  BY DEF Source, Sources
<1>3. usage[speech[u].by][speech[u].day][Source(speech[u].key)] \in Nat
  BY <1>1, <1>2 DEF TypeOK
<1>4. CASE ReserveCommit(u)
  <2>1. usage[speech[u].by][speech[u].day][Source(speech[u].key)] + speech[u].n \in Nat
    BY <1>1, <1>3
  <2>2. ~Refund(u)
    BY <1>4 DEF ReserveCommit, Refund
  <2> QED BY <1>1, <1>2, <1>4, <2>1, <2>2, CountsOne DEF ReserveCommit
<1>5. CASE Refund(u)
  <2>1. Without(usage[speech[u].by][speech[u].day][Source(speech[u].key)], speech[u].n) \in Nat
    BY <1>1, <1>3 DEF Without
  <2>2. ~ReserveCommit(u)
    BY <1>5 DEF ReserveCommit, Refund
  <2> QED BY <1>1, <1>2, <1>5, <2>1, <2>2, CountsOne DEF Refund
<1> QED BY <1>4, <1>5

LEMMA InitType == Init => TypeOK
BY Constants DEF Init, TypeOK, NoEntry, Sources, Days

LEMMA ReadTypes ==
  ASSUME TypeOK, NEW f \in flights, WorkOut(f) \/ ReadSubscription(f) \/ ReadFails(f)
  PROVE  TypeOK'
<1>1. CASE ReadSubscription(f)
  <2>1. Answered(f) \in Entry /\ f.ref \in Refs /\ Share(Answered(f)) \in Nat
    BY <1>1, AnsweredType, ShareType DEF ReadSubscription
  <2>2. subs' \in [Refs -> Entry \cup {NoEntry}] /\ flights' \subseteq Flight
    BY <1>1, <2>1 DEF ReadSubscription, TypeOK
  <2>3. ASSUME NEW u \in Requests PROVE speech'[u] \in Speech \cup {Unasked}
    <3>1. CASE ~Awaits(u, f) \/ Low(Answered(f))
      BY <1>1, <3>1, Requested DEF ReadSubscription
    <3>2. CASE Awaits(u, f) /\ ~Low(Answered(f))
      <4>1. speech[u] \in Speech
        BY <3>2, Requested DEF Awaits, Stages
      <4>2. speech'[u] = [speech[u] EXCEPT !.stage = "ready", !.share = Share(Answered(f)), !.at = day]
        BY <1>1, <3>2 DEF ReadSubscription
      <4> QED BY <2>1, <4>1, <4>2 DEF Speech, Stages, TypeOK
    <3> QED BY <3>1, <3>2
  <2>4. speech' \in [Requests -> Speech \cup {Unasked}]
    BY <1>1, <2>3 DEF ReadSubscription
  <2> QED BY <1>1, <2>2, <2>4 DEF ReadSubscription, TypeOK
<1>2. CASE ReadFails(f)
  BY <1>2 DEF ReadFails, TypeOK
<1>3. CASE WorkOut(f)
  <2>1. flights' = (flights \ {f}) \cup {Worked(f)}
    BY <1>3 DEF WorkOut, Worked
  <2>2. flights' \subseteq Flight
    BY <2>1, WorkedIs DEF TypeOK
  <2> QED BY <1>3, <2>2 DEF WorkOut, TypeOK
<1> QED BY <1>1, <1>2, <1>3

LEMMA PrepareTypes ==
  ASSUME TypeOK, NEW u \in Requests, NEW p \in Members, Prepare(u, p) \/ PrepareRead(u, p)
  PROVE  TypeOK'
<1> DEFINE k == KeyOf(p)
           ref == RefOf(p, k)
<1>1. k \in Keys /\ ref \in Refs
  BY KeyOfType
<1>2. flights' \subseteq Flight
  <2>1. UNCHANGED flights \/ StartRead(ref, k)
    BY DEF Prepare, PrepareRead
  <2> HIDE DEF k, ref
  <2> QED BY <1>1, <2>1, StartReadType DEF TypeOK
<1>3. PICK n \in Lengths, stage \in {"ready", "awaits"}, share \in Nat :
        speech' = [speech EXCEPT ![u] = New(p, k, n, stage, share)]
  <2>1. CASE Prepare(u, p)
    <3>1. PICK e \in Known(ref, k), n \in Lengths : speech' = [speech EXCEPT ![u] = New(p, k, n, "ready", Share(e))]
      BY <2>1 DEF Prepare
    <3>2. Share(e) \in Nat
      BY <1>1, KnownType, ShareType
    <3> QED BY <3>1, <3>2
  <2>2. CASE PrepareRead(u, p)
    BY <2>2 DEF PrepareRead
  <2> QED BY <2>1, <2>2
<1>4. New(p, k, n, stage, share) \in Speech
  <2> HIDE DEF k
  <2> QED BY <1>1, NewType DEF Stages
<1>5. speech' \in [Requests -> Speech \cup {Unasked}]
  BY <1>3, <1>4 DEF TypeOK
<1>6. UNCHANGED <<day, own, testing, usage, used, subs, dawn>>
  BY DEF Prepare, PrepareRead
<1> QED BY <1>2, <1>5, <1>6 DEF TypeOK

LEMMA ReserveTypes ==
  ASSUME TypeOK, NEW u \in Requests, Reserve(u) \/ GiveUp(u)
  PROVE  TypeOK'
<1>1. CASE Reserve(u)
  <2> DEFINE r == speech[u]
  <2>1. r \in Speech /\ r.by \in Members /\ r.key \in Keys /\ r.n \in Lengths
    BY <1>1, Requested DEF Reserve, Stages, Speech
  <2>2. New(r.by, r.key, r.n, "counting", 0) \in Speech
    <3> HIDE DEF r
    <3> QED BY <2>1, NewType DEF Stages
  <2> QED BY <1>1, <2>2 DEF Reserve, TypeOK
<1>2. CASE GiveUp(u)
  BY <1>2 DEF GiveUp, Forgotten, TypeOK
<1> QED BY <1>1, <1>2

LEMMA CountTypes ==
  ASSUME TypeOK, NEW u \in Requests, ReserveCommit(u) \/ Refund(u)
  PROVE  TypeOK'
<1>1. usage' \in [Members -> [Days -> [Sources -> Nat]]]
  BY CountSteps DEF Counts
<1>2. speech' \in [Requests -> Speech \cup {Unasked}]
  BY Turns DEF Turned
<1> QED BY <1>1, <1>2 DEF ReserveCommit, Refund, TypeOK

LEMMA PassTypes ==
  ASSUME TypeOK, NEW u \in Requests, Passes(u)
  PROVE  TypeOK'
BY TurnsOn DEF Turned, TypeOK

LEMMA BillTypes ==
  ASSUME TypeOK, NEW u \in Requests, Said(u) \/ TimesOut(u)
  PROVE  TypeOK'
<1> DEFINE k == speech[u].key
<1>1. k \in Keys /\ speech[u].n \in Nat
  BY Requested DEF Said, TimesOut, Stages
<1>2. used[k] + speech[u].n <= Limit[k] /\ used' = [used EXCEPT ![k] = @ + speech[u].n]
  BY DEF Said, TimesOut, Bills
<1>3. used' \in [Keys -> Nat] /\ \A x \in Keys : used'[x] <= Limit[x]
  <2> HIDE DEF k
  <2> QED BY <1>1, <1>2 DEF TypeOK
<1>4. speech' \in [Requests -> Speech \cup {Unasked}]
  BY Turns DEF Turned
<1>5. UNCHANGED <<day, own, testing, usage, subs, flights, dawn>>
  BY DEF Said, TimesOut
<1> QED BY <1>3, <1>4, <1>5 DEF TypeOK

\* What a crash does to each request.
Cut(r, heard) ==
  CASE r.stage \in {"awaits", "ready", "counting"} -> Unasked
    [] r.stage \in {"counted", "sent", "failed"} ->
         [r EXCEPT !.stage = "kept", !.billed = IF heard THEN "yes" ELSE @]
    [] OTHER -> r

LEMMA CutType ==
  ASSUME NEW r \in Speech \cup {Unasked}, NEW heard \in BOOLEAN
  PROVE  Cut(r, heard) \in Speech \cup {Unasked}
<1>1. CASE r.stage \in {"counted", "sent", "failed"}
  <2>1. r \in Speech
    BY <1>1 DEF Unasked
  <2>2. [r EXCEPT !.stage = "kept", !.billed = IF heard THEN "yes" ELSE @] \in Speech
    BY <2>1 DEF Speech, Stages
  <2> QED BY <1>1, <2>2 DEF Cut
<1>2. CASE r.stage \notin {"counted", "sent", "failed"}
  BY <1>2 DEF Cut
<1> QED BY <1>1, <1>2

LEMMA Crashed ==
  ASSUME TypeOK, Crash
  PROVE  \E S \in SUBSET {u \in Requests : speech[u].stage = "sent"} :
           /\ used' = [k \in Keys |-> used[k] + Characters({u \in S : speech[u].key = k})]
           /\ \A k \in Keys : used'[k] <= Limit[k]
           /\ speech' = [u \in Requests |-> Cut(speech[u], u \in S)]
BY DEF Crash, Cut

LEMMA CrashTypes ==
  ASSUME TypeOK, Crash
  PROVE  TypeOK'
<1>1. PICK S \in SUBSET {u \in Requests : speech[u].stage = "sent"} :
         /\ used' = [k \in Keys |-> used[k] + Characters({u \in S : speech[u].key = k})]
         /\ \A k \in Keys : used'[k] <= Limit[k]
         /\ speech' = [u \in Requests |-> Cut(speech[u], u \in S)]
  BY Crashed
<1>2. ASSUME NEW k \in Keys PROVE used'[k] \in Nat
  <2> DEFINE us == {u \in S : speech[u].key = k}
  <2>1. us \in SUBSET Requests /\ \A u \in us : speech[u].n \in Nat
    BY Requested DEF Stages
  <2>2. Chars(speech, us) \in Nat
    <3> HIDE DEF us
    <3> QED BY <2>1, CharsNat
  <2>3. used'[k] = used[k] + Chars(speech, us)
    BY <1>1, CharactersAre
  <2> QED BY <2>2, <2>3 DEF TypeOK
<1>3. used' \in [Keys -> Nat]
  BY <1>1, <1>2
<1>4. ASSUME NEW u \in Requests PROVE Cut(speech[u], u \in S) \in Speech \cup {Unasked}
  <2>1. speech[u] \in Speech \cup {Unasked} /\ (u \in S) \in BOOLEAN
    BY Requested
  <2> QED BY <2>1, CutType
<1>5. speech' \in [Requests -> Speech \cup {Unasked}]
  BY <1>1, <1>4
<1>6. /\ subs' \in [Refs -> Entry \cup {NoEntry}] /\ flights' \subseteq Flight
      /\ testing' \in [Orgs -> [key : Keys, left : Nat] \cup {NoEntry}]
      /\ UNCHANGED <<day, own, usage, dawn>>
  BY DEF Crash
<1> QED BY <1>1, <1>3, <1>5, <1>6 DEF TypeOK

\* Only a workspace's own key is tested.
TestedInv == \A o \in Orgs : testing[o] # NoEntry => testing[o].key \in OwnKeys

LEMMA KeyTypes ==
  ASSUME TypeOK, TestedInv, NEW o \in Orgs, ConnectKey(o) \/ ClearKey(o) \/ \E k \in OwnKeys : TestKey(o, k)
  PROVE  TypeOK'
<1>1. ASSUME NEW k \in OwnKeys, TestKey(o, k) PROVE TypeOK'
  <2>1. Limit[k] - used[k] \in Nat /\ k \in Keys
    BY Constants DEF TypeOK
  <2>2. testing' \in [Orgs -> [key : Keys, left : Nat] \cup {NoEntry}]
    BY <1>1, <2>1 DEF TestKey, TypeOK
  <2> QED BY <1>1, <2>2 DEF TestKey, TypeOK
<1>2. CASE ClearKey(o)
  BY <1>2, Constants DEF ClearKey, TypeOK
<1>3. CASE ConnectKey(o)
  <2> DEFINE e == [key |-> testing[o].key, left |-> testing[o].left, count |-> KeyToday(o, day), day |-> day]
  <2>1. testing[o] # NoEntry /\ testing[o] \in [key : Keys, left : Nat]
    BY <1>3 DEF ConnectKey, TypeOK
  <2>2. KeyToday(o, day) \in Nat /\ day \in Days
    BY KeyTodayType DEF TypeOK
  <2>3. e \in Entry
    BY <2>1, <2>2 DEF Entry
  <2>4. own' \in [Orgs -> OwnKeys \cup {NoKey}]
    BY <1>3, <2>1 DEF ConnectKey, TypeOK, TestedInv
  <2>5. /\ subs' \in [Refs -> Entry \cup {NoEntry}]
        /\ testing' \in [Orgs -> [key : Keys, left : Nat] \cup {NoEntry}]
    <3> HIDE DEF e
    <3>1. subs' = [subs EXCEPT ![o] = e]
      BY <1>3 DEF ConnectKey, e
    <3> QED BY <1>3, <2>3, <3>1 DEF ConnectKey, TypeOK
  <2> QED BY <1>3, <2>4, <2>5 DEF ConnectKey, TypeOK
<1> QED BY <1>1, <1>2, <1>3

LEMMA MidnightTypes ==
  ASSUME TypeOK, Midnight
  PROVE  TypeOK'
<1>1. day' \in Days
  BY Constants DEF Midnight, TypeOK, Days
<1>2. \A k \in Keys : Limit[k] - used[k] \in Nat
  BY Constants DEF TypeOK
<1>3. dawn' \in [Days -> [Keys -> Nat]]
  BY <1>2 DEF Midnight, TypeOK
<1> QED BY <1>1, <1>3 DEF Midnight, TypeOK

LEMMA TypeStep == TypeOK /\ TestedInv /\ [Next]_vars => TypeOK'
<1> SUFFICES ASSUME TypeOK, TestedInv, [Next]_vars PROVE TypeOK'
  OBVIOUS
<1>1. CASE Crash \/ Midnight
  BY <1>1, CrashTypes, MidnightTypes
<1>2. ASSUME NEW o \in Orgs, ConnectKey(o) \/ ClearKey(o) \/ \E k \in OwnKeys : TestKey(o, k) PROVE TypeOK'
  BY <1>2, KeyTypes
<1>3. ASSUME NEW f \in flights, WorkOut(f) \/ ReadSubscription(f) \/ ReadFails(f) PROVE TypeOK'
  BY <1>3, ReadTypes
<1>4. ASSUME NEW u \in Requests, NEW p \in Members, Prepare(u, p) \/ PrepareRead(u, p) PROVE TypeOK'
  BY <1>4, PrepareTypes
<1>5. ASSUME NEW u \in Requests, Reserve(u) \/ ReserveCommit(u) \/ GiveUp(u) \/ Passes(u)
                                 \/ Said(u) \/ TimesOut(u) \/ Refund(u)
      PROVE  TypeOK'
  BY <1>5, ReserveTypes, CountTypes, PassTypes, BillTypes
<1>6. CASE UNCHANGED vars
  BY <1>6 DEF vars, TypeOK
<1> QED BY <1>1, <1>2, <1>3, <1>4, <1>5, <1>6 DEF Next, Passes

LEMMA TestedStep == TypeOK /\ TestedInv /\ [Next]_vars => TestedInv'
<1> SUFFICES ASSUME TypeOK, TestedInv, [Next]_vars PROVE TestedInv'
  OBVIOUS
<1>1. CASE UNCHANGED testing
  BY <1>1 DEF TestedInv
<1>2. CASE Crash
  BY <1>2 DEF Crash, TestedInv
<1>3. ASSUME NEW o \in Orgs, ConnectKey(o) PROVE TestedInv'
  BY <1>3 DEF ConnectKey, TestedInv, TypeOK
<1>4. ASSUME NEW o \in Orgs, NEW k \in OwnKeys, TestKey(o, k) PROVE TestedInv'
  BY <1>4 DEF TestKey, TestedInv, TypeOK
<1>5. UNCHANGED testing \/ Crash \/ \E o \in Orgs : ConnectKey(o) \/ \E k \in OwnKeys : TestKey(o, k)
  BY DEF Next, vars, Midnight, ClearKey, WorkOut, ReadSubscription, ReadFails, Prepare, PrepareRead, Reserve,
     ReserveCommit, GiveUp, Send, Abandon, Becomes, Said, Fails, TimesOut, Refund, RefundFails
<1> QED BY <1>1, <1>2, <1>3, <1>4, <1>5

LEMMA TypesAlways == Spec => [](TypeOK /\ TestedInv)
<1>1. Init => TypeOK /\ TestedInv
  BY InitType DEF Init, TestedInv
<1>2. (TypeOK /\ TestedInv) /\ [Next]_vars => (TypeOK /\ TestedInv)'
  BY TypeStep, TestedStep
<1> QED BY <1>1, <1>2, PTL DEF Spec

\* Tables, the process's maps and the requests hold what they can hold, and no
\* key is billed beyond its limit, whoever speaks and whatever fails.
THEOREM TypeCorrect == Spec => []TypeOK
BY TypesAlways, PTL
-----------------------------------------------------------------------------
(* The stages, and what each step leaves as it was.                        *)

Asked   == {"awaits", "ready", "counting"}
Settled == Reserved(Standing \cup {"givenBack"})

\* The steps before a reservation is committed.
Asks ==
  \/ \E f \in flights : WorkOut(f) \/ ReadSubscription(f) \/ ReadFails(f)
  \/ \E u \in Requests, p \in Members : Prepare(u, p) \/ PrepareRead(u, p)
  \/ \E u \in Requests : Reserve(u) \/ GiveUp(u)

\* The steps that are not about anything said.
Rests ==
  \/ \E o \in Orgs : ConnectKey(o) \/ ClearKey(o) \/ \E k \in OwnKeys : TestKey(o, k)
  \/ UNCHANGED vars

LEMMA StepKinds ==
  ASSUME [Next]_vars
  PROVE  \/ Asks \/ Rests \/ Crash \/ Midnight
         \/ \E u \in Requests : ReserveCommit(u) \/ Refund(u) \/ Passes(u) \/ Said(u) \/ TimesOut(u)
BY DEF Next, Asks, Rests, Passes

LEMMA RestsKeep ==
  ASSUME Rests
  PROVE  UNCHANGED <<day, usage, used, flights, speech, dawn>>
BY DEF Rests, ConnectKey, ClearKey, TestKey, vars

\* A request that has not reserved becomes one that has not reserved.
LEMMA AsksKeep ==
  ASSUME TypeOK, StagesInv, Asks
  PROVE  /\ UNCHANGED <<day, own, testing, usage, used, dawn>>
         /\ \A u \in Requests :
              \/ speech'[u] = speech[u]
              \/ /\ speech[u] = Unasked \/ speech[u].stage \in Asked
                 /\ \/ speech'[u] = Unasked
                    \/ speech'[u].stage \in Asked /\ speech'[u].billed = "no" /\ speech'[u].day <= day
<1>0. \A u \in Requests : speech[u].stage \in Asked => speech[u] \in Speech /\ speech[u].billed = "no" /\ speech[u].day <= day
  BY Requested DEF StagesInv, Asked, Stages, Speech
<1>d. day \in Nat
  BY Constants DEF TypeOK
<1>1. ASSUME NEW f \in flights, ReadSubscription(f), NEW u \in Requests
      PROVE  \/ speech'[u] = speech[u]
             \/ /\ speech[u].stage \in Asked
                /\ \/ speech'[u] = Unasked
                   \/ speech'[u].stage \in Asked /\ speech'[u].billed = "no" /\ speech'[u].day <= day
  <2>1. CASE ~Awaits(u, f)
    BY <1>1, <2>1 DEF ReadSubscription
  <2>2. CASE Awaits(u, f) /\ Low(Answered(f))
    BY <1>1, <2>2 DEF ReadSubscription, Awaits, Asked
  <2>3. CASE Awaits(u, f) /\ ~Low(Answered(f))
    <3>1. speech[u].stage = "awaits" /\ speech[u].stage \in Asked
      BY <2>3 DEF Awaits, Asked
    <3>2. speech'[u] = [speech[u] EXCEPT !.stage = "ready", !.share = Share(Answered(f)), !.at = day]
      BY <1>1, <2>3 DEF ReadSubscription
    <3>3. speech'[u].stage = "ready" /\ speech'[u].billed = speech[u].billed /\ speech'[u].day = speech[u].day
      BY <1>0, <3>1, <3>2 DEF Speech
    <3> QED BY <1>0, <3>1, <3>3 DEF Asked
  <2> QED BY <2>1, <2>2, <2>3
<1>2. ASSUME NEW f \in flights, ReadFails(f), NEW u \in Requests
      PROVE  speech'[u] = speech[u] \/ (speech[u].stage \in Asked /\ speech'[u] = Unasked)
  BY <1>2 DEF ReadFails, Awaits, Asked
<1>3. ASSUME NEW u \in Requests, NEW p \in Members, Prepare(u, p) \/ PrepareRead(u, p), NEW v \in Requests
      PROVE  \/ speech'[v] = speech[v]
             \/ /\ speech[v] = Unasked
                /\ speech'[v].stage \in Asked /\ speech'[v].billed = "no" /\ speech'[v].day <= day
  <2>1. speech[u] = Unasked
    BY <1>3 DEF Prepare, PrepareRead
  <2>2. \E n \in Lengths, stage \in {"ready", "awaits"} : \E share : speech' = [speech EXCEPT ![u] = New(p, KeyOf(p), n, stage, share)]
    BY <1>3 DEF Prepare, PrepareRead
  <2> QED BY <1>d, <2>1, <2>2 DEF New, Asked, TypeOK
<1>4. ASSUME NEW u \in Requests, Reserve(u) \/ GiveUp(u), NEW v \in Requests
      PROVE  \/ speech'[v] = speech[v]
             \/ /\ speech[v].stage \in Asked
                /\ \/ speech'[v] = Unasked
                   \/ speech'[v].stage \in Asked /\ speech'[v].billed = "no" /\ speech'[v].day <= day
  BY <1>d, <1>4 DEF Reserve, GiveUp, Forgotten, New, Asked, TypeOK
<1>5. UNCHANGED <<day, own, testing, usage, used, dawn>>
  BY DEF Asks, WorkOut, ReadSubscription, ReadFails, Prepare, PrepareRead, Reserve, GiveUp
<1>6. ASSUME NEW f \in flights, WorkOut(f) PROVE speech' = speech
  BY <1>6 DEF WorkOut
<1> QED BY <1>1, <1>2, <1>3, <1>4, <1>5, <1>6 DEF Asks

LEMMA StepStages == TypeOK /\ StagesInv /\ [Next]_vars => StagesInv'
<1> SUFFICES ASSUME TypeOK, StagesInv, [Next]_vars PROVE StagesInv'
  OBVIOUS
<1>d. day \in Nat /\ \A u \in Requests : speech[u] # Unasked => speech[u].day \in Nat
  BY Requested, Constants DEF TypeOK
<1>1. CASE Asks
  BY <1>1, AsksKeep DEF StagesInv, Asked
<1>2. CASE Rests
  BY <1>2, RestsKeep DEF StagesInv
<1>3. CASE Crash
  <2>1. PICK S \in SUBSET {u \in Requests : speech[u].stage = "sent"} :
          speech' = [u \in Requests |-> Cut(speech[u], u \in S)]
    BY <1>3, Crashed
  <2>2. day' = day
    BY <1>3 DEF Crash
  <2>3. ASSUME NEW u \in Requests, speech'[u] # Unasked
        PROVE  /\ speech'[u].day <= day
               /\ speech'[u].billed = "yes" => speech'[u].stage = "kept"
               /\ speech'[u].billed = "late" => speech'[u].stage \in {"failed", "kept", "givenBack"}
    <3>1. speech'[u] = Cut(speech[u], u \in S)
      BY <2>1
    <3>2. CASE speech[u].stage \in {"counted", "sent", "failed"}
      <4>1. speech[u] \in Speech
        BY <3>2, Requested DEF Stages
      <4>2. speech'[u].stage = "kept" /\ speech'[u].day = speech[u].day
        BY <3>1, <3>2, <4>1 DEF Cut, Speech
      <4> QED BY <4>1, <4>2, Requested DEF StagesInv
    <3>3. CASE speech[u].stage \notin {"counted", "sent", "failed"}
      BY <2>3, <3>1, <3>3 DEF Cut, StagesInv
    <3> QED BY <3>2, <3>3
  <2> QED BY <2>2, <2>3 DEF StagesInv
<1>4. CASE Midnight
  BY <1>d, <1>4 DEF Midnight, StagesInv
<1>5. ASSUME NEW u \in Requests, ReserveCommit(u) \/ Refund(u) \/ Passes(u) \/ Said(u) \/ TimesOut(u)
      PROVE  StagesInv'
  <2>1. day' = day
    BY <1>5, TurnsOn DEF ReserveCommit, Refund, Said, TimesOut
  <2>2. PICK stage \in Stages, b \in {"no", "yes", "late"} :
          /\ Turned(u, stage, b)
          /\ b = "yes" => stage = "kept"
          /\ b = "late" => stage \in {"failed", "kept", "givenBack"}
    <3>1. speech[u].stage \in Stages
      BY <1>5, Turns, TurnsOn DEF Stages
    <3>2. speech[u] # Unasked /\ speech[u].billed \in {"no", "yes", "late"}
      BY <3>1, Requested DEF Speech
    <3> QED BY <1>5, <3>2, Turns, TurnsOn DEF StagesInv, Stages
  <2>3. speech[u] # Unasked
    BY <2>2, Requested DEF Turned
  <2> QED BY <2>1, <2>2, <2>3 DEF Turned, StagesInv
<1> QED BY <1>1, <1>2, <1>3, <1>4, <1>5, StepKinds

\* What was once reserved stays, whoever's and of whatever day and key it was.
LEMMA SettledFacts ==
  ASSUME TypeOK, NEW u \in Settled
  PROVE  /\ u \in Requests /\ speech[u] \in Speech /\ speech[u].n \in Nat
         /\ speech[u].stage \in Standing \cup {"givenBack"}
BY Requested DEF Settled, Reserved, Standing, Stages

LEMMA SettledStays ==
  ASSUME TypeOK, StagesInv, [Next]_vars, NEW v \in Settled
  PROVE  /\ v \in Settled'
         /\ speech'[v].by = speech[v].by /\ speech'[v].key = speech[v].key
         /\ speech'[v].n = speech[v].n /\ speech'[v].day = speech[v].day
<1>0. /\ v \in Requests /\ speech[v] \in Speech
      /\ speech[v].stage \in Standing \cup {"givenBack"} /\ speech[v].stage \notin Asked /\ speech[v] # Unasked
  BY SettledFacts, Requested DEF Standing, Asked
<1>1. CASE speech'[v] = speech[v]
  BY <1>0, <1>1 DEF Settled, Reserved
<1>2. CASE Asks
  BY <1>0, <1>1, <1>2, AsksKeep
<1>3. CASE Rests \/ Midnight
  BY <1>1, <1>3, RestsKeep DEF Midnight
<1>4. CASE Crash
  <2>1. PICK S : speech'[v] = Cut(speech[v], v \in S)
    BY <1>0, <1>4, Crashed
  <2>2. CASE speech[v].stage = "givenBack" \/ speech[v].stage = "kept"
    BY <1>1, <2>1, <2>2 DEF Cut
  <2>3. CASE speech[v].stage \in {"counted", "sent", "failed"}
    <3>1. speech'[v] = [speech[v] EXCEPT !.stage = "kept", !.billed = IF v \in S THEN "yes" ELSE @]
      BY <2>1, <2>3 DEF Cut
    <3> QED BY <1>0, <3>1 DEF Settled, Reserved, Standing, Speech
  <2> QED BY <1>0, <2>2, <2>3 DEF Standing
<1>5. ASSUME NEW u \in Requests, ReserveCommit(u) \/ Refund(u) \/ Passes(u) \/ Said(u) \/ TimesOut(u)
      PROVE  /\ v \in Settled'
             /\ speech'[v].by = speech[v].by /\ speech'[v].key = speech[v].key
             /\ speech'[v].n = speech[v].n /\ speech'[v].day = speech[v].day
  <2>1. \E stage \in Standing \cup {"givenBack"}, b \in {"no", "yes", "late", speech[u].billed} : Turned(u, stage, b)
    BY <1>5, Turns, TurnsOn DEF Standing
  <2>2. CASE v = u
    BY <1>0, <2>1, <2>2 DEF Turned, Settled, Reserved
  <2>3. CASE v # u
    BY <1>0, <1>1, <2>1, <2>3 DEF Turned
  <2> QED BY <2>2, <2>3
<1> QED BY <1>2, <1>3, <1>4, <1>5, StepKinds

LEMMA CharsStay ==
  ASSUME TypeOK, StagesInv, [Next]_vars, NEW us \in SUBSET Settled
  PROVE  Chars(speech', us) = Chars(speech, us) /\ Chars(speech, us) \in Nat
<1>1. us \in SUBSET Requests
  BY DEF Settled, Reserved
<1>2. \A u \in us : speech[u].n \in Nat /\ speech[u].n = speech'[u].n
  BY SettledFacts, SettledStays
<1> QED BY <1>1, <1>2, CharsSame, CharsNat
-----------------------------------------------------------------------------
(* The counts.                                                             *)

Kept(p, d, s) ==
  {u \in Reserved(Standing) : speech[u].by = p /\ speech[u].day = d /\ Source(speech[u].key) = s}

LEMMA CountsAre ==
  /\ CountsAreKept <=> \A p \in Members, d \in Days, s \in Sources : usage[p][d][s] = Chars(speech, Kept(p, d, s))
  /\ CountsAreKept' <=> \A p \in Members, d \in Days, s \in Sources : usage'[p][d][s] = Chars(speech', Kept(p, d, s)')
BY DEF CountsAreKept, Kept, Characters, Chars

LEMMA KeptIsSettled ==
  ASSUME NEW p, NEW d, NEW s PROVE Kept(p, d, s) \in SUBSET Settled
BY DEF Kept, Settled, Reserved

\* Only the commit and the refund of a reservation change what stands.
LEMMA KeptStays ==
  ASSUME TypeOK, StagesInv, [Next]_vars, \A u \in Requests : ~ReserveCommit(u) /\ ~Refund(u),
         NEW p, NEW d, NEW s
  PROVE  Kept(p, d, s)' = Kept(p, d, s) /\ usage' = usage
<1>1. CASE Asks
  BY <1>1, AsksKeep DEF Kept, Reserved, Standing, Asked, Unasked
<1>2. CASE Rests \/ Midnight
  BY <1>2, RestsKeep DEF Midnight, Kept, Reserved
<1>3. CASE Crash
  <2>1. PICK S : speech' = [u \in Requests |-> Cut(speech[u], u \in S)]
    BY <1>3, Crashed
  <2>2. ASSUME NEW v \in Requests, speech'[v].stage \in Standing PROVE speech[v].stage \in Standing
    BY <2>1, <2>2 DEF Cut, Unasked, Standing
  <2>3. ASSUME NEW v \in Requests, speech[v].stage \in Standing PROVE speech'[v].stage \in Standing
    <3>1. CASE speech[v].stage = "kept"
      BY <2>1, <3>1 DEF Cut, Standing
    <3>2. CASE speech[v].stage \in {"counted", "sent", "failed"}
      <4>1. speech[v] \in Speech
        BY <3>2, Requested DEF Stages
      <4> QED BY <2>1, <3>2, <4>1 DEF Cut, Standing, Speech
    <3> QED BY <2>3, <3>1, <3>2 DEF Standing
  <2>4. Reserved(Standing)' = Reserved(Standing)
    BY <2>2, <2>3 DEF Reserved, Standing
  <2>5. \A v \in Reserved(Standing) : v \in Settled
    BY DEF Reserved, Settled
  <2>6. \A v \in Reserved(Standing) : /\ speech'[v].by = speech[v].by /\ speech'[v].key = speech[v].key
                                      /\ speech'[v].day = speech[v].day
    BY <2>5, SettledStays
  <2>7. Kept(p, d, s)' = Kept(p, d, s)
    BY <2>4, <2>6 DEF Kept
  <2> QED BY <1>3, <2>7 DEF Crash
<1>4. ASSUME NEW u \in Requests, Passes(u) \/ Said(u) \/ TimesOut(u)
      PROVE  Kept(p, d, s)' = Kept(p, d, s) /\ usage' = usage
  <2>1. /\ speech[u].stage \in Standing
        /\ \E stage \in Standing : \E b : Turned(u, stage, b)
        /\ usage' = usage
    BY <1>4, Turns, TurnsOn DEF Standing, Said, TimesOut
  <2> QED BY <2>1 DEF Kept, Reserved, Turned, Standing
<1> QED BY <1>1, <1>2, <1>3, <1>4, StepKinds

LEMMA StepCounts == TypeOK /\ StagesInv /\ CountsAreKept /\ [Next]_vars => CountsAreKept'
<1> SUFFICES ASSUME TypeOK, StagesInv, CountsAreKept, [Next]_vars,
                    NEW p \in Members, NEW d \in Days, NEW s \in Sources
             PROVE  usage'[p][d][s] = Chars(speech', Kept(p, d, s)')
  BY CountsAre
<1>1. /\ usage[p][d][s] = Chars(speech, Kept(p, d, s))
      /\ Chars(speech', Kept(p, d, s)) = Chars(speech, Kept(p, d, s))
      /\ usage[p][d][s] \in Nat
  BY CountsAre, CharsStay, KeptIsSettled DEF TypeOK
<1>2. CASE \A u \in Requests : ~ReserveCommit(u) /\ ~Refund(u)
  BY <1>1, <1>2, KeptStays
<1>3. ASSUME NEW u \in Requests, ReserveCommit(u) PROVE usage'[p][d][s] = Chars(speech', Kept(p, d, s)')
  <2>1. Turned(u, "counted", speech[u].billed) /\ speech[u].stage = "counting" /\ speech[u] \in Speech
    BY <1>3, Turns DEF Turned
  <2>2. CASE speech[u].by = p /\ speech[u].day = d /\ Source(speech[u].key) = s
    <3>1. usage'[p][d][s] = usage[p][d][s] + speech[u].n
      BY <1>3, <2>2, CountSteps DEF Counts
    <3>2. Kept(p, d, s)' = Kept(p, d, s) \cup {u} /\ u \notin Kept(p, d, s)
      BY <2>1, <2>2 DEF Kept, Reserved, Turned, Standing
    <3>3. \A v \in Kept(p, d, s)' : v \in Requests /\ speech'[v].n \in Nat
      BY <2>1, <3>2, SettledFacts, SettledStays, KeptIsSettled, Requested DEF Turned
    <3>4. Chars(speech', Kept(p, d, s)') = speech'[u].n + Chars(speech', Kept(p, d, s)' \ {u})
      BY <3>2, <3>3, CharsAt
    <3>5. Kept(p, d, s)' \ {u} = Kept(p, d, s)
      BY <3>2
    <3>6. speech'[u].n = speech[u].n /\ speech[u].n \in Nat
      BY <2>1, Requested DEF Turned
    <3>7. Chars(speech', Kept(p, d, s)') = speech[u].n + Chars(speech, Kept(p, d, s))
      BY <1>1, <3>4, <3>5, <3>6
    <3> QED BY <1>1, <3>1, <3>6, <3>7
  <2>3. CASE ~(speech[u].by = p /\ speech[u].day = d /\ Source(speech[u].key) = s)
    <3>1. usage'[p][d][s] = usage[p][d][s]
      BY <1>3, <2>3, CountSteps DEF Counts
    <3>2. Kept(p, d, s)' = Kept(p, d, s)
      BY <2>1, <2>3 DEF Kept, Reserved, Turned, Standing
    <3> QED BY <1>1, <3>1, <3>2
  <2> QED BY <2>2, <2>3
<1>4. ASSUME NEW u \in Requests, Refund(u) PROVE usage'[p][d][s] = Chars(speech', Kept(p, d, s)')
  <2>1. Turned(u, "givenBack", speech[u].billed) /\ speech[u].stage = "failed" /\ speech[u] \in Speech
    BY <1>4, Turns DEF Turned
  <2>2. CASE speech[u].by = p /\ speech[u].day = d /\ Source(speech[u].key) = s
    <3>1. usage'[p][d][s] = Without(usage[p][d][s], speech[u].n)
      BY <1>4, <2>2, CountSteps DEF Counts
    <3>2. Kept(p, d, s)' = Kept(p, d, s) \ {u} /\ u \in Kept(p, d, s)
      BY <2>1, <2>2 DEF Kept, Reserved, Turned, Standing
    <3>3. \A v \in Kept(p, d, s) : v \in Requests /\ speech[v].n \in Nat
      BY SettledFacts, KeptIsSettled
    <3>4. Chars(speech, Kept(p, d, s)) = speech[u].n + Chars(speech, Kept(p, d, s) \ {u})
      BY <3>2, <3>3, CharsAt
    <3>5. Kept(p, d, s) \ {u} \in SUBSET Settled
      BY KeptIsSettled
    <3>6. /\ Chars(speech', Kept(p, d, s) \ {u}) = Chars(speech, Kept(p, d, s) \ {u})
          /\ Chars(speech, Kept(p, d, s) \ {u}) \in Nat /\ speech[u].n \in Nat
      BY <3>2, <3>3, <3>5, CharsStay
    <3> QED BY <1>1, <3>1, <3>2, <3>4, <3>6 DEF Without
  <2>3. CASE ~(speech[u].by = p /\ speech[u].day = d /\ Source(speech[u].key) = s)
    <3>1. usage'[p][d][s] = usage[p][d][s]
      BY <1>4, <2>3, CountSteps DEF Counts
    <3>2. Kept(p, d, s)' = Kept(p, d, s)
      BY <2>1, <2>3 DEF Kept, Reserved, Turned, Standing
    <3> QED BY <1>1, <3>1, <3>2
  <2> QED BY <2>2, <2>3
<1> QED BY <1>2, <1>3, <1>4

LEMMA InitCounts == Init => StagesInv /\ CountsAreKept
<1> SUFFICES ASSUME Init PROVE StagesInv /\ CountsAreKept
  OBVIOUS
<1>1. \A u \in Requests : speech[u] = Unasked
  BY DEF Init
<1>2. \A p, d, s : Kept(p, d, s) = {}
  BY <1>1 DEF Kept, Reserved, Unasked, Standing
<1>3. \A p \in Members, d \in Days, s \in Sources : usage[p][d][s] = 0
  BY DEF Init
<1> QED BY <1>1, <1>2, <1>3, CountsAre, CharsEmpty DEF StagesInv

LEMMA CountsAlways == Spec => [](StagesInv /\ CountsAreKept)
<1>1. TypeOK /\ (StagesInv /\ CountsAreKept) /\ [Next]_vars => (StagesInv /\ CountsAreKept)'
  BY StepStages, StepCounts
<1> QED BY <1>1, InitCounts, TypeCorrect, PTL DEF Spec

\* The table is exactly what was reserved and not given back, whenever a refund
\* comes: over midnight, after a change of keys, after a crash.
THEOREM CountsAlwaysKept == Spec => []CountsAreKept
BY CountsAlways, PTL
-----------------------------------------------------------------------------
(* The caps.                                                               *)

\* A workspace's total changes by what a member's count does.
LEMMA WorkspaceCounts ==
  ASSUME TypeOK, NEW p \in Members, NEW d \in Days, NEW s \in Sources, NEW m \in Nat, Counts(p, d, s, m),
         NEW o, NEW e \in Days, NEW t \in Sources
  PROVE  WorkspaceToday(o, e, t)' =
           IF OrgOf[p] = o /\ e = d /\ t = s THEN WorkspaceToday(o, e, t) - usage[p][d][s] + m
                                            ELSE WorkspaceToday(o, e, t)
<1> DEFINE S == {q \in Members : OrgOf[q] = o}
           f == [q \in S |-> usage[q][e][t]]
           g == [q \in S |-> usage'[q][e][t]]
<1>1. WorkspaceToday(o, e, t) = SumFunctionOnSet(f, S) /\ WorkspaceToday(o, e, t)' = SumFunctionOnSet(g, S)
  BY DEF WorkspaceToday, SumFunction
<1>2. IsFiniteSet(S) /\ \A q \in S : f[q] \in Nat /\ g[q] \in Nat
  BY Finite DEF TypeOK, Counts
<1>3. CASE OrgOf[p] = o /\ e = d /\ t = s
  <2> DEFINE T == S \ {p}
  <2>1. p \in S /\ f[p] = usage[p][d][s] /\ g[p] = m /\ \A q \in T : f[q] = g[q]
    BY <1>3 DEF Counts
  <2>2. IsFiniteSet(T)
    BY Finite
  <2>3. SumFunctionOnSet(f, S) = f[p] + SumFunctionOnSet(f, T) /\ SumFunctionOnSet(g, S) = g[p] + SumFunctionOnSet(g, T)
    <3> HIDE DEF S, f, g
    <3> QED BY <1>2, <2>1, SumAt
  <2>4. SumFunctionOnSet(f, T) = SumFunctionOnSet(g, T) /\ SumFunctionOnSet(f, T) \in Nat
    <3>1. \A q \in T : f[q] \in Nat /\ f[q] \in Int /\ f[q] = g[q]
      BY <1>2, <2>1
    <3> HIDE DEF f, g, T
    <3> QED BY <2>2, <3>1, SumSame, SumNat
  <2>5. f[p] \in Nat /\ g[p] \in Nat
    BY <1>2, <2>1
  <2>6. usage[p][d][s] = f[p] /\ m = g[p]
    BY <2>1
  <2> HIDE DEF S, f, g, T
  <2>7. SumFunctionOnSet(g, S) = SumFunctionOnSet(f, S) - f[p] + g[p]
    BY <2>3, <2>4, <2>5
  <2> QED BY <1>1, <1>3, <2>6, <2>7
<1>4. CASE ~(OrgOf[p] = o /\ e = d /\ t = s)
  <2>1. \A q \in S : f[q] \in Int /\ f[q] = g[q]
    BY <1>2, <1>4 DEF Counts
  <2>2. SumFunctionOnSet(f, S) = SumFunctionOnSet(g, S)
    <3> HIDE DEF S, f, g
    <3> QED BY <1>2, <2>1, SumSame
  <2> QED BY <1>1, <1>4, <2>2
<1> QED BY <1>3, <1>4

LEMMA UsageSteps ==
  ASSUME TypeOK, StagesInv, [Next]_vars
  PROVE  usage' = usage \/ \E u \in Requests : ReserveCommit(u) \/ Refund(u)
<1>1. ASSUME \A u \in Requests : ~ReserveCommit(u) /\ ~Refund(u) PROVE usage' = usage
  BY <1>1, KeptStays
<1> QED BY <1>1

\* A refund takes nothing above a cap.
LEMMA RefundLowers ==
  ASSUME TypeOK, NEW u \in Requests, Refund(u)
  PROVE  /\ \A p \in Members, d \in Days, s \in Sources :
              usage'[p][d][s] \in Int /\ usage'[p][d][s] <= usage[p][d][s]
         /\ \A o : \A d \in Days, s \in Sources :
              WorkspaceToday(o, d, s)' \in Int /\ WorkspaceToday(o, d, s)' <= WorkspaceToday(o, d, s)
<1> DEFINE p == speech[u].by
           d == speech[u].day
           s == Source(speech[u].key)
           m == Without(usage[p][d][s], speech[u].n)
<1>1. p \in Members /\ d \in Days /\ s \in Sources /\ speech[u].n \in Nat
  BY Requested DEF Refund, Stages, Source, Sources
<1>2. usage[p][d][s] \in Nat
  BY <1>1 DEF TypeOK
<1>3. m \in Nat /\ m <= usage[p][d][s]
  BY <1>1, <1>2 DEF Without
<1>4. Counts(p, d, s, m)
  BY CountSteps
<1> HIDE DEF p, d, s, m
<1>5. ASSUME NEW q \in Members, NEW e \in Days, NEW t \in Sources 
      PROVE  usage'[q][e][t] \in Int /\ usage'[q][e][t] <= usage[q][e][t]
  <2>1. usage[q][e][t] \in Nat
    BY DEF TypeOK
  <2>2. usage'[q][e][t] = usage[q][e][t] \/ (q = p /\ e = d /\ t = s /\ usage'[q][e][t] = m)
    BY <1>4 DEF Counts
  <2> QED BY <1>3, <2>1, <2>2
<1>6. ASSUME NEW o, NEW e \in Days, NEW t \in Sources 
      PROVE  WorkspaceToday(o, e, t)' \in Int /\ WorkspaceToday(o, e, t)' <= WorkspaceToday(o, e, t)
  <2>1. WorkspaceToday(o, e, t) \in Nat
    BY WorkspaceTodayType
  <2>2. WorkspaceToday(o, e, t)' = WorkspaceToday(o, e, t) \/ WorkspaceToday(o, e, t)' = WorkspaceToday(o, e, t) - usage[p][d][s] + m
    BY <1>1, <1>3, <1>4, WorkspaceCounts
  <2> QED BY <1>2, <1>3, <2>1, <2>2
<1> QED BY <1>5, <1>6

\* A commit adds to one person's count, on which it had an eye, and to the total
\* of that person's workspace.
LEMMA CommitAdds ==
  ASSUME TypeOK, NEW u \in Requests, ReserveCommit(u)
  PROVE  /\ speech[u].by \in Members /\ speech[u].day \in Days /\ Source(speech[u].key) \in Sources
         /\ speech[u].n \in Lengths /\ speech[u].n \in Nat
         /\ \A p \in Members, d \in Days, s \in Sources :
              usage'[p][d][s] = IF p = speech[u].by /\ d = speech[u].day /\ s = Source(speech[u].key)
                                THEN usage[p][d][s] + speech[u].n ELSE usage[p][d][s]
         /\ \A o : \A d \in Days, s \in Sources :
              WorkspaceToday(o, d, s)' = IF o = OrgOf[speech[u].by] /\ d = speech[u].day /\ s = Source(speech[u].key)
                                         THEN WorkspaceToday(o, d, s) + speech[u].n ELSE WorkspaceToday(o, d, s)
<1> DEFINE p == speech[u].by
           d == speech[u].day
           s == Source(speech[u].key)
           n == speech[u].n
           m == usage[p][d][s] + n
<1>1. p \in Members /\ d \in Days /\ s \in Sources /\ n \in Nat /\ n \in Lengths
  BY Requested DEF ReserveCommit, Stages, Source, Sources, Speech
<1>2. usage[p][d][s] \in Nat /\ m \in Nat
  BY <1>1 DEF TypeOK
<1>3. Counts(p, d, s, m)
  BY CountSteps
<1>4. ASSUME NEW q \in Members, NEW e \in Days, NEW t \in Sources
      PROVE  usage'[q][e][t] = IF q = p /\ e = d /\ t = s THEN usage[q][e][t] + n ELSE usage[q][e][t]
  BY <1>3 DEF Counts
<1>5. ASSUME NEW o, NEW e \in Days, NEW t \in Sources
      PROVE  WorkspaceToday(o, e, t)' = IF o = OrgOf[p] /\ e = d /\ t = s
                                        THEN WorkspaceToday(o, e, t) + n ELSE WorkspaceToday(o, e, t)
  <2>1. WorkspaceToday(o, e, t) \in Nat
    BY WorkspaceTodayType
  <2> HIDE DEF p, d, s, n
  <2>2. WorkspaceToday(o, e, t)' =
           IF OrgOf[p] = o /\ e = d /\ t = s THEN WorkspaceToday(o, e, t) - usage[p][d][s] + m
                                            ELSE WorkspaceToday(o, e, t)
    BY <1>1, <1>2, <1>3, WorkspaceCounts
  <2> QED BY <1>1, <1>2, <2>1, <2>2
<1> QED BY <1>1, <1>4, <1>5

LEMMA StepOver == TypeOK /\ StagesInv /\ LocksInv /\ OneUtteranceOver /\ [Next]_vars => OneUtteranceOver'
<1> SUFFICES ASSUME TypeOK, StagesInv, LocksInv, OneUtteranceOver, [Next]_vars PROVE OneUtteranceOver'
  OBVIOUS
<1>0. /\ \A p \in Members, d \in Days, s \in Sources : usage[p][d][s] \in Nat
      /\ \A o : \A d \in Days, s \in Sources : WorkspaceToday(o, d, s) \in Nat
      /\ PersonCap \in Nat /\ SliceMax \in Nat /\ Lengths \subseteq Nat /\ "environment" \in Sources
  BY Constants, WorkspaceTodayType DEF TypeOK, Sources
<1>1. CASE usage' = usage
  BY <1>1 DEF OneUtteranceOver, WorkspaceToday
<1>2. ASSUME NEW u \in Requests, Refund(u) PROVE OneUtteranceOver'
  <2>1. ASSUME NEW p \in Members, NEW d \in Days, NEW s \in Sources
        PROVE  \E n \in Lengths : usage'[p][d][s] < PersonCap + n
    <3>1. PICK n \in Lengths : usage[p][d][s] < PersonCap + n
      BY DEF OneUtteranceOver
    <3>2. usage'[p][d][s] \in Int /\ usage'[p][d][s] <= usage[p][d][s]
      BY <1>2, RefundLowers
    <3> QED BY <1>0, <3>1, <3>2
  <2>2. ASSUME NEW o \in Orgs, NEW d \in Days
        PROVE  \E n \in Lengths : WorkspaceToday(o, d, "environment")' < SliceMax + n
    <3>1. PICK n \in Lengths : WorkspaceToday(o, d, "environment") < SliceMax + n
      BY DEF OneUtteranceOver
    <3>2. /\ WorkspaceToday(o, d, "environment")' \in Int
          /\ WorkspaceToday(o, d, "environment")' <= WorkspaceToday(o, d, "environment")
      BY <1>0, <1>2, RefundLowers
    <3> QED BY <1>0, <3>1, <3>2
  <2> QED BY <2>1, <2>2 DEF OneUtteranceOver
<1>3. ASSUME NEW u \in Requests, ReserveCommit(u) PROVE OneUtteranceOver'
  <2> DEFINE x == speech[u]
  <2>0. /\ x.n \in Lengths /\ x.n \in Nat
        /\ usage[x.by][x.day][Source(x.key)] < PersonCap
        /\ x.key = Env => WorkspaceToday(OrgOf[x.by], x.day, "environment") < SliceMax
    BY <1>3, CommitAdds DEF LocksInv, ReserveCommit
  <2>1. ASSUME NEW p \in Members, NEW d \in Days, NEW s \in Sources
        PROVE  \E n \in Lengths : usage'[p][d][s] < PersonCap + n
    <3>1. CASE p = x.by /\ d = x.day /\ s = Source(x.key)
      <4>1. usage'[p][d][s] = usage[p][d][s] + x.n /\ usage[p][d][s] < PersonCap
        BY <1>3, <2>0, <3>1, CommitAdds
      <4>2. usage[p][d][s] \in Nat
        BY <1>0
      <4> HIDE DEF x
      <4>3. usage[p][d][s] + x.n < PersonCap + x.n
        BY <1>0, <2>0, <4>1, <4>2
      <4> QED BY <2>0, <4>1, <4>3
    <3>2. CASE ~(p = x.by /\ d = x.day /\ s = Source(x.key))
      <4>1. usage'[p][d][s] = usage[p][d][s]
        BY <1>3, <3>2, CommitAdds
      <4> QED BY <4>1 DEF OneUtteranceOver
    <3> QED BY <3>1, <3>2
  <2>2. ASSUME NEW o \in Orgs, NEW d \in Days
        PROVE  \E n \in Lengths : WorkspaceToday(o, d, "environment")' < SliceMax + n
    <3>1. CASE o = OrgOf[x.by] /\ d = x.day /\ "environment" = Source(x.key)
      <4>1. WorkspaceToday(o, d, "environment")' = WorkspaceToday(o, d, "environment") + x.n
        BY <1>0, <1>3, <3>1, CommitAdds
      <4>2. WorkspaceToday(o, d, "environment") < SliceMax
        BY <2>0, <3>1 DEF Source
      <4>3. WorkspaceToday(o, d, "environment") \in Nat
        BY <1>0
      <4> HIDE DEF x
      <4>4. WorkspaceToday(o, d, "environment") + x.n < SliceMax + x.n
        BY <1>0, <2>0, <4>2, <4>3
      <4> QED BY <2>0, <4>1, <4>4
    <3>2. CASE ~(o = OrgOf[x.by] /\ d = x.day /\ "environment" = Source(x.key))
      <4>1. WorkspaceToday(o, d, "environment")' = WorkspaceToday(o, d, "environment")
        BY <1>0, <1>3, <3>2, CommitAdds
      <4> QED BY <4>1 DEF OneUtteranceOver
    <3> QED BY <3>1, <3>2
  <2> QED BY <2>1, <2>2 DEF OneUtteranceOver
<1> QED BY <1>1, <1>2, <1>3, UsageSteps

\* Who counts was counting, or has just been let in.
LEMMA CountingSteps ==
  ASSUME TypeOK, [Next]_vars, NEW v \in Requests, speech'[v].stage = "counting"
  PROVE  speech'[v] = speech[v] \/ Reserve(v)
<1>1. ASSUME NEW f \in flights, ReadSubscription(f) PROVE speech'[v] = speech[v]
  <2>1. CASE Awaits(v, f) /\ ~Low(Answered(f))
    <3>1. speech'[v] = [speech[v] EXCEPT !.stage = "ready", !.share = Share(Answered(f)), !.at = day]
      BY <1>1, <2>1 DEF ReadSubscription
    <3>2. speech[v] \in Speech
      BY <2>1, Requested DEF Awaits, Stages
    <3>3. speech'[v].stage = "ready"
      BY <3>1, <3>2 DEF Speech
    <3> QED BY <3>3
  <2>2. CASE ~(Awaits(v, f) /\ ~Low(Answered(f)))
    BY <1>1, <2>2 DEF ReadSubscription, Unasked
  <2> QED BY <2>1, <2>2
<1>2. ASSUME NEW f \in flights, ReadFails(f) PROVE speech'[v] = speech[v]
  BY <1>2 DEF ReadFails, Unasked
<1>3. ASSUME NEW u \in Requests, NEW p \in Members, Prepare(u, p) \/ PrepareRead(u, p) PROVE speech'[v] = speech[v]
  BY <1>3 DEF Prepare, PrepareRead, New, TypeOK
<1>4. ASSUME NEW u \in Requests, Reserve(u) \/ GiveUp(u) PROVE speech'[v] = speech[v] \/ Reserve(v)
  BY <1>4 DEF Reserve, GiveUp, Forgotten, Unasked, TypeOK
<1>5. CASE Rests \/ Midnight
  BY <1>5, RestsKeep DEF Midnight
<1>6. CASE Crash
  <2>1. PICK S : speech'[v] = Cut(speech[v], v \in S)
    BY <1>6, Crashed
  <2>2. CASE speech[v].stage \in {"counted", "sent", "failed"}
    <3>1. speech[v] \in Speech
      BY <2>2, Requested DEF Stages
    <3>2. speech'[v].stage = "kept"
      BY <2>1, <2>2, <3>1 DEF Cut, Speech
    <3> QED BY <3>2
  <2>3. CASE speech[v].stage \notin {"counted", "sent", "failed"}
    BY <2>1, <2>3 DEF Cut, Unasked
  <2> QED BY <2>2, <2>3
<1>7. ASSUME NEW u \in Requests, ReserveCommit(u) \/ Refund(u) \/ Passes(u) \/ Said(u) \/ TimesOut(u)
      PROVE  speech'[v] = speech[v]
  <2>1. \E stage \in Standing \cup {"givenBack"} : \E b : Turned(u, stage, b)
    BY <1>7, Turns, TurnsOn DEF Standing
  <2> QED BY <2>1 DEF Turned, Standing
<1>8. ASSUME NEW f \in flights, WorkOut(f) PROVE speech' = speech
  BY <1>8 DEF WorkOut
<1> QED BY <1>1, <1>2, <1>3, <1>4, <1>5, <1>6, <1>7, <1>8, StepKinds DEF Asks

\* Whoever is let in is alone, and below the caps.
LEMMA LetIn ==
  ASSUME TypeOK, NEW v \in Requests, Reserve(v)
  PROVE  /\ speech[v].stage = "ready" /\ Counting(RefOf(speech[v].by, speech[v].key)) = {}
         /\ speech'[v].by = speech[v].by /\ speech'[v].key = speech[v].key /\ speech'[v].day = day
         /\ \A u \in Requests \ {v} : speech'[u] = speech[u]
         /\ usage' = usage
         /\ usage[speech[v].by][day][Source(speech[v].key)] < PersonCap
         /\ speech[v].key = Env => WorkspaceToday(OrgOf[speech[v].by], day, "environment") < SliceMax
<1> DEFINE r == speech[v]
<1>1. r \in Speech /\ r.by \in Members /\ r.key \in Keys /\ r.share \in Nat /\ day \in Days
  BY Requested DEF Reserve, Stages, Speech, TypeOK
<1>2. speech'[v] = New(r.by, r.key, r.n, "counting", 0)
  BY DEF Reserve, TypeOK
<1>3. usage[r.by][day][Source(r.key)] < PersonCap
  <2>1. usage[r.by][day]["organisation"] + usage[r.by][day]["environment"] < PersonCap
    BY DEF Reserve, PersonToday
  <2>2. /\ usage[r.by][day]["organisation"] \in Nat /\ usage[r.by][day]["environment"] \in Nat
        /\ PersonCap \in Nat
    BY <1>1, Constants DEF TypeOK, Sources
  <2> HIDE DEF r
  <2>3. usage[r.by][day]["organisation"] < PersonCap /\ usage[r.by][day]["environment"] < PersonCap
    BY <2>1, <2>2
  <2> QED BY <2>3 DEF Source
<1>4. ASSUME r.key = Env PROVE WorkspaceToday(OrgOf[r.by], day, "environment") < SliceMax
  <2>1. WorkspaceToday(OrgOf[r.by], day, "environment") < WorkspaceCap(r.key, r.share)
    BY <1>4 DEF Reserve, Source
  <2>2. \A x, y \in Nat : y # 0 => x \div y \in Nat
    OBVIOUS
  <2>3. WorkspaceCap(r.key, r.share) \in Nat /\ WorkspaceCap(r.key, r.share) <= SliceMax
    BY <1>1, <1>4, <2>2, Constants DEF WorkspaceCap
  <2>4. WorkspaceToday(OrgOf[r.by], day, "environment") \in Nat /\ SliceMax \in Nat
    BY <1>1, WorkspaceTodayType, Constants DEF Sources
  <2> QED BY <2>1, <2>3, <2>4
<1>5. \A u \in Requests \ {v} : speech'[u] = speech[u]
  BY DEF Reserve, TypeOK
<1> QED BY <1>2, <1>3, <1>4, <1>5 DEF Reserve, New, Locks

\* WorkspaceToday, of any table.
Total(us, o, d, s) == SumFunction([p \in {q \in Members : OrgOf[q] = o} |-> us[p][d][s]])

LEMMA Totals ==
  ASSUME NEW o, NEW d, NEW s
  PROVE  WorkspaceToday(o, d, s) = Total(usage, o, d, s) /\ WorkspaceToday(o, d, s)' = Total(usage', o, d, s)
BY DEF WorkspaceToday, Total

LEMMA TotalsMove ==
  ASSUME TypeOK, NEW o, NEW d \in Days, NEW s \in Sources, NEW u \in Requests
  PROVE  /\ Total(usage, o, d, s) \in Nat
         /\ Refund(u) => Total(usage', o, d, s) \in Int /\ Total(usage', o, d, s) <= Total(usage, o, d, s)
         /\ ReserveCommit(u) /\ s # Source(speech[u].key) => Total(usage', o, d, s) = Total(usage, o, d, s)
BY Totals, WorkspaceTodayType, RefundLowers, CommitAdds

LEMMA StepLocks == TypeOK /\ StagesInv /\ LocksInv /\ [Next]_vars => LocksInv'
<1> SUFFICES ASSUME TypeOK, StagesInv, LocksInv, [Next]_vars PROVE LocksInv'
  OBVIOUS
<1>1. ASSUME NEW u \in Requests, NEW v \in Requests,
             speech'[u].stage = "counting", speech'[v].stage = "counting",
             RefOf(speech'[u].by, speech'[u].key) = RefOf(speech'[v].by, speech'[v].key)
      PROVE  u = v
  <2>1. CASE speech'[u] = speech[u] /\ speech'[v] = speech[v]
    BY <1>1, <2>1 DEF LocksInv
  <2>2. ASSUME NEW x \in Requests, NEW y \in Requests, Reserve(x), x # y, speech'[y].stage = "counting"
        PROVE  RefOf(speech'[x].by, speech'[x].key) # RefOf(speech'[y].by, speech'[y].key)
    BY <2>2, LetIn DEF Counting
  <2> QED BY <1>1, <2>1, <2>2, CountingSteps
<1>2. ASSUME NEW v \in Requests, speech'[v].stage = "counting"
      PROVE  /\ usage'[speech'[v].by][speech'[v].day][Source(speech'[v].key)] < PersonCap
             /\ speech'[v].key = Env => Total(usage', OrgOf[speech'[v].by], speech'[v].day, "environment") < SliceMax
  <2>1. CASE Reserve(v)
    <3>1. Total(usage, OrgOf[speech[v].by], day, "environment") = WorkspaceToday(OrgOf[speech[v].by], day, "environment")
      BY DEF WorkspaceToday, Total
    <3>2. /\ speech'[v].by = speech[v].by /\ speech'[v].key = speech[v].key /\ speech'[v].day = day
          /\ usage' = usage
          /\ usage[speech[v].by][day][Source(speech[v].key)] < PersonCap
          /\ speech[v].key = Env => WorkspaceToday(OrgOf[speech[v].by], day, "environment") < SliceMax
      BY <2>1, LetIn
    <3> QED BY <3>1, <3>2
  <2> DEFINE p == speech[v].by
             d == speech[v].day
             s == Source(speech[v].key)
             o == OrgOf[p]
  <2>2. CASE speech'[v] = speech[v]
    <3>1. /\ usage[p][d][s] < PersonCap
          /\ speech[v].key = Env => Total(usage, o, d, "environment") < SliceMax
      BY <1>2, <2>2 DEF LocksInv, WorkspaceToday, Total
    <3>2. p \in Members /\ d \in Days /\ s \in Sources /\ "environment" \in Sources
      BY <1>2, <2>2, Requested DEF Stages, Source, Sources
    <3>3. /\ usage[p][d][s] \in Nat /\ PersonCap \in Nat /\ SliceMax \in Nat
          /\ Total(usage, o, d, "environment") \in Nat
      <4> HIDE DEF p, d, s, o
      <4>1. Total(usage, o, d, "environment") \in Nat
        BY <3>2, TotalsMove
      <4>2. usage[p][d][s] \in Nat
        BY <3>2 DEF TypeOK
      <4> QED BY <4>1, <4>2, Constants
    <3>4. ASSUME usage' = usage
          PROVE  /\ usage'[p][d][s] < PersonCap
                 /\ speech[v].key = Env => Total(usage', o, d, "environment") < SliceMax
      BY <3>1, <3>4
    <3>5. ASSUME NEW u \in Requests, Refund(u)
          PROVE  /\ usage'[p][d][s] < PersonCap
                 /\ speech[v].key = Env => Total(usage', o, d, "environment") < SliceMax
      <4> HIDE DEF p, d, s, o
      <4>1. usage'[p][d][s] \in Int /\ usage'[p][d][s] <= usage[p][d][s]
        BY <3>2, <3>5, RefundLowers
      <4>2. Total(usage', o, d, "environment") \in Int /\ Total(usage', o, d, "environment") <= Total(usage, o, d, "environment")
        BY <3>2, <3>5, TotalsMove
      <4> QED BY <3>1, <3>3, <4>1, <4>2
    <3>6. ASSUME NEW u \in Requests, ReserveCommit(u)
          PROVE  /\ usage'[p][d][s] < PersonCap
                 /\ speech[v].key = Env => Total(usage', o, d, "environment") < SliceMax
      <4>1. u # v
        BY <1>2, <3>6, Turns DEF Turned
      <4>2. RefOf(speech[u].by, speech[u].key) # RefOf(p, speech[v].key)
        BY <1>2, <2>2, <3>6, <4>1 DEF LocksInv, ReserveCommit
      <4>3. ~(p = speech[u].by /\ s = Source(speech[u].key))
        BY <4>2 DEF RefOf, Source
      <4>4. speech[v].key = Env => "environment" # Source(speech[u].key)
        BY <4>2 DEF RefOf, Source
      <4> HIDE DEF p, d, s, o
      <4>5. usage'[p][d][s] = usage[p][d][s]
        BY <3>2, <3>6, <4>3, CommitAdds
      <4>6. speech[v].key = Env => Total(usage', o, d, "environment") = Total(usage, o, d, "environment")
        BY <3>2, <3>6, <4>4, TotalsMove
      <4> QED BY <3>1, <4>5, <4>6
    <3>7. /\ usage'[p][d][s] < PersonCap
          /\ speech[v].key = Env => Total(usage', o, d, "environment") < SliceMax
      BY <3>1, <3>4, <3>5, <3>6, UsageSteps
    <3> QED BY <2>2, <3>7
  <2> QED BY <1>2, <2>1, <2>2, CountingSteps
<1> QED BY <1>1, <1>2 DEF LocksInv, WorkspaceToday, Total

LEMMA InitLocks == Init => LocksInv /\ OneUtteranceOver
<1> SUFFICES ASSUME Init PROVE LocksInv /\ OneUtteranceOver
  OBVIOUS
<1>1. LocksInv
  BY DEF Init, LocksInv, Unasked
<1>2. PICK n \in Lengths : n \in Nat \ {0}
  BY Constants
<1>3. \A p \in Members, d \in Days, s \in Sources : usage[p][d][s] = 0
  BY DEF Init
<1>4. ASSUME NEW o \in Orgs, NEW d \in Days PROVE WorkspaceToday(o, d, "environment") = 0
  <2> DEFINE S == {q \in Members : OrgOf[q] = o}
             f == [p \in S |-> usage[p][d]["environment"]]
  <2>1. IsFiniteSet(S) /\ \A p \in S : f[p] = 0
    BY <1>3, Finite DEF Sources
  <2>2. SumFunctionOnSet(f, S) = 0
    <3> HIDE DEF S, f
    <3> QED BY <2>1, SumZero
  <2> QED BY <2>2 DEF WorkspaceToday, SumFunction
<1>5. PersonCap \in Nat /\ SliceMax \in Nat /\ 0 < PersonCap + n /\ 0 < SliceMax + n
  BY <1>2, Constants
<1> QED BY <1>1, <1>2, <1>3, <1>4, <1>5 DEF OneUtteranceOver

\* However many tabs and people ask at once, the most a day goes over is one utterance.
THEOREM OneUtteranceOverAlways == Spec => []OneUtteranceOver
<1>1. /\ TypeOK /\ StagesInv /\ LocksInv /\ OneUtteranceOver /\ [Next]_vars
      => (LocksInv /\ OneUtteranceOver)'
  BY StepLocks, StepOver
<1> QED BY <1>1, InitLocks, TypeCorrect, CountsAlways, PTL DEF Spec
-----------------------------------------------------------------------------
(* The bills.                                                              *)

\* Of these requests, those made with a key.
With(us, k) == {u \in us : speech[u].key = k}

Sent == {u \in Requests : speech[u].stage = "sent"}

LEMMA SettledKinds ==
  ASSUME TypeOK, StagesInv
  PROVE  /\ \A k : BilledOn(k) \in SUBSET Settled
         /\ Sent \in SUBSET Settled
         /\ \A u \in Requests : speech[u].stage \in {"counted", "sent"} => speech[u] \in Speech /\ speech[u].billed = "no"
<1>1. ASSUME NEW u \in Requests, speech[u] # Unasked, speech[u].billed # "no" PROVE u \in Settled
  <2>1. speech[u].billed \in {"no", "yes", "late"}
    BY <1>1, Requested DEF Speech
  <2>2. speech[u].stage \in {"failed", "kept", "givenBack"}
    BY <1>1, <2>1 DEF StagesInv
  <2> QED BY <2>2 DEF Settled, Reserved, Standing
<1>2. ASSUME NEW u \in Requests, speech[u].stage \in {"counted", "sent"}
      PROVE  speech[u] \in Speech /\ speech[u].billed = "no"
  <2>1. speech[u] \in Speech /\ speech[u] # Unasked
    BY <1>2, Requested DEF Stages
  <2>2. speech[u].billed \in {"no", "yes", "late"}
    BY <2>1 DEF Speech
  <2> QED BY <1>2, <2>1, <2>2 DEF StagesInv
<1> QED BY <1>1, <1>2 DEF BilledOn, Sent, Settled, Reserved, Standing

\* Each step bills some of what was sent, and to each key its own.
Bill(S) ==
  \A k \in Keys :
    /\ used'[k] = used[k] + Chars(speech, With(S, k))
    /\ BilledOn(k)' = BilledOn(k) \cup With(S, k)

LEMMA BillsNone ==
  ASSUME TypeOK, used' = used, \A k \in Keys : BilledOn(k)' = BilledOn(k)
  PROVE  \E S \in SUBSET Sent : Bill(S)
<1>1. \A k \in Keys : With({}, k) = {} /\ used[k] \in Nat
  BY DEF With, TypeOK
<1>2. Bill({})
  BY <1>1, CharsEmpty DEF Bill
<1> QED BY <1>2

LEMMA BillsOne ==
  ASSUME TypeOK, StagesInv, NEW u \in Requests, Said(u) \/ TimesOut(u)
  PROVE  Bill({u})
<1>1. /\ speech[u].stage = "sent" /\ speech[u] \in Speech /\ speech[u].n \in Nat /\ speech[u].key \in Keys
      /\ \E stage, b : b # "no" /\ Turned(u, stage, b)
  BY Turns, Requested DEF Turned
<1>2. used' = [used EXCEPT ![speech[u].key] = @ + speech[u].n]
  BY DEF Said, TimesOut, Bills
<1>3. ASSUME NEW k \in Keys
      PROVE  used'[k] = used[k] + Chars(speech, With({u}, k)) /\ BilledOn(k)' = BilledOn(k) \cup With({u}, k)
  <2>1. CASE speech[u].key = k
    <3>1. With({u}, k) = {u} /\ {u} \ {u} = {}
      BY <2>1 DEF With
    <3>2. Chars(speech, {u}) = speech[u].n + Chars(speech, {u} \ {u})
      BY <1>1, CharsAt
    <3>3. Chars(speech, {u}) = speech[u].n
      BY <1>1, <3>1, <3>2, CharsEmpty
    <3>4. used'[k] = used[k] + speech[u].n
      BY <1>2, <2>1 DEF TypeOK
    <3>5. BilledOn(k)' = BilledOn(k) \cup {u}
      BY <1>1, <2>1, Requested DEF BilledOn, Turned, Unasked, Speech
    <3> QED BY <3>1, <3>3, <3>4, <3>5
  <2>2. CASE speech[u].key # k
    <3>1. With({u}, k) = {} /\ used[k] \in Nat
      BY <2>2 DEF With, TypeOK
    <3>2. used'[k] = used[k]
      BY <1>1, <1>2, <2>2 DEF TypeOK
    <3>3. BilledOn(k)' = BilledOn(k)
      BY <1>1, <2>2 DEF BilledOn, Turned
    <3>4. Chars(speech, With({u}, k)) = 0
      BY <3>1, CharsEmpty
    <3>5. BilledOn(k)' = BilledOn(k) \cup With({u}, k)
      BY <3>1, <3>3
    <3> QED BY <3>1, <3>2, <3>4, <3>5
  <2> QED BY <2>1, <2>2
<1> QED BY <1>3 DEF Bill

LEMMA BillsMany ==
  ASSUME TypeOK, StagesInv, Crash
  PROVE  \E S \in SUBSET Sent : Bill(S)
<1>1. PICK S \in SUBSET {u \in Requests : speech[u].stage = "sent"} :
         /\ used' = [k \in Keys |-> used[k] + Characters({u \in S : speech[u].key = k})]
         /\ speech' = [u \in Requests |-> Cut(speech[u], u \in S)]
  BY Crashed
<1>2. ASSUME NEW u \in Requests, NEW k \in Keys PROVE (u \in BilledOn(k))' <=> u \in BilledOn(k) \/ u \in With(S, k)
  <2>1. speech'[u] = Cut(speech[u], u \in S)
    BY <1>1
  <2>2. CASE speech[u].stage \in {"counted", "sent", "failed"}
    <3>1. speech[u] \in Speech /\ speech[u] # Unasked
      BY <2>2, Requested DEF Stages
    <3>2. speech'[u] = [speech[u] EXCEPT !.stage = "kept", !.billed = IF u \in S THEN "yes" ELSE @]
      BY <2>1, <2>2 DEF Cut
    <3>3. /\ speech'[u].key = speech[u].key /\ speech'[u].stage = "kept"
          /\ speech'[u].billed = IF u \in S THEN "yes" ELSE speech[u].billed
      BY <3>1, <3>2 DEF Speech
    <3>4. speech'[u] # Unasked
      BY <3>3 DEF Unasked
    <3> QED BY <3>1, <3>3, <3>4 DEF BilledOn, With
  <2>3. CASE speech[u].stage \in Asked
    <3>1. speech'[u] = Unasked
      BY <2>1, <2>3 DEF Cut, Asked
    <3>2. u \notin BilledOn(k)
      BY <2>3, SettledKinds DEF Settled, Reserved, Standing, Asked
    <3>3. u \notin S
      BY <2>3 DEF Asked
    <3> QED BY <3>1, <3>2, <3>3 DEF BilledOn, With
  <2>4. CASE speech[u].stage \notin {"counted", "sent", "failed"} \cup Asked
    <3>1. speech'[u] = speech[u] /\ u \notin S
      BY <2>1, <2>4 DEF Cut, Asked
    <3> QED BY <3>1 DEF BilledOn, With
  <2> QED BY <2>2, <2>3, <2>4
<1>3. ASSUME NEW k \in Keys PROVE BilledOn(k)' = BilledOn(k) \cup With(S, k)
  <2>1. BilledOn(k)' \subseteq Requests /\ BilledOn(k) \subseteq Requests /\ With(S, k) \subseteq Requests
    BY DEF BilledOn, With
  <2> QED BY <1>2, <2>1
<1>4. ASSUME NEW k \in Keys PROVE used'[k] = used[k] + Chars(speech, With(S, k))
  BY <1>1, CharactersAre DEF With
<1> QED BY <1>1, <1>3, <1>4 DEF Bill, Sent

LEMMA BillSteps ==
  ASSUME TypeOK, StagesInv, [Next]_vars
  PROVE  \E S \in SUBSET Sent : Bill(S)
<1>1. CASE Asks
  <2>1. \A u \in Requests : \A k : (u \in BilledOn(k))' <=> u \in BilledOn(k)
    <3>1. ASSUME NEW u \in Requests, speech[u].stage \in Asked, speech[u] # Unasked PROVE speech[u].billed = "no"
      <4>1. \A k : u \notin BilledOn(k)
        BY <3>1, SettledKinds DEF Settled, Reserved, Standing, Asked
      <4> QED BY <3>1, <4>1 DEF BilledOn
    <3> QED BY <1>1, <3>1, AsksKeep DEF BilledOn
  <2>2. \A k \in Keys : BilledOn(k)' = BilledOn(k)
    BY <2>1 DEF BilledOn
  <2> QED BY <1>1, <2>2, AsksKeep, BillsNone
<1>2. CASE Rests \/ Midnight
  BY <1>2, RestsKeep, BillsNone DEF Midnight, BilledOn
<1>3. CASE Crash
  BY <1>3, BillsMany
<1>4. ASSUME NEW u \in Requests, Said(u) \/ TimesOut(u) PROVE \E S \in SUBSET Sent : Bill(S)
  BY <1>4, BillsOne DEF Sent, Said, TimesOut
<1>5. ASSUME NEW u \in Requests, ReserveCommit(u) \/ Refund(u) \/ Passes(u) PROVE \E S \in SUBSET Sent : Bill(S)
  <2>1. used' = used /\ \E stage : Turned(u, stage, speech[u].billed)
    BY <1>5, Turns, TurnsOn DEF ReserveCommit, Refund
  <2>2. \A k \in Keys : BilledOn(k)' = BilledOn(k)
    BY <2>1, Requested DEF BilledOn, Turned, Unasked, Speech
  <2> QED BY <2>1, <2>2, BillsNone
<1> QED BY <1>1, <1>2, <1>3, <1>4, <1>5, StepKinds

Since(k, d) == {u \in BilledOn(k) : speech[u].day >= d}

LEMMA BillsAre ==
  /\ BillsInv <=> \A k \in Keys :
       /\ used[k] = Chars(speech, BilledOn(k))
       /\ \A d \in Days : (Limit[k] - dawn[d][k]) + Chars(speech, Since(k, d)) <= used[k]
  /\ BillsInv' <=> \A k \in Keys :
       /\ used'[k] = Chars(speech', BilledOn(k)')
       /\ \A d \in Days : (Limit[k] - dawn'[d][k]) + Chars(speech', Since(k, d)') <= used'[k]
BY DEF BillsInv, Since, BilledOn, Characters, Chars

LEMMA SettledNat ==
  ASSUME TypeOK, NEW us \in SUBSET Settled
  PROVE  Chars(speech, us) \in Nat
<1>1. us \in SUBSET Requests /\ \A u \in us : speech[u].n \in Nat
  BY SettledFacts
<1> QED BY <1>1, CharsNat

LEMMA SettledSplit ==
  ASSUME TypeOK, NEW us \in SUBSET Settled, NEW vs \in SUBSET Settled, us \cap vs = {}
  PROVE  Chars(speech, us \cup vs) = Chars(speech, us) + Chars(speech, vs)
<1> DEFINE both == us \cup vs
<1>1. both \in SUBSET Requests /\ us \in SUBSET both /\ both \ us = vs /\ \A u \in both : speech[u].n \in Nat
  BY SettledFacts
<1>2. Chars(speech, both) = Chars(speech, us) + Chars(speech, both \ us)
  <2> HIDE DEF both
  <2> QED BY <1>1, CharsUnion
<1> QED BY <1>1, <1>2

\* The dawn of a day is what the key had left at that midnight.
LEMMA DawnSteps ==
  ASSUME TypeOK, [Next]_vars
  PROVE  dawn' = dawn \/ (Midnight /\ day + 1 \in Days
                          /\ dawn' = [dawn EXCEPT ![day + 1] = [k \in Keys |-> Limit[k] - used[k]]])
<1>1. Midnight => day + 1 \in Days
  BY Constants DEF Midnight, TypeOK, Days
<1>2. Midnight \/ dawn' = dawn
  BY DEF Next, vars, Crash, ConnectKey, ClearKey, TestKey, WorkOut, ReadSubscription, ReadFails, Prepare, PrepareRead, Reserve,
     ReserveCommit, GiveUp, Send, Abandon, Becomes, Said, Fails, TimesOut, Refund, RefundFails
<1> QED BY <1>1, <1>2 DEF Midnight

LEMMA StepBills == TypeOK /\ StagesInv /\ BillsInv /\ [Next]_vars => BillsInv'
<1> SUFFICES ASSUME TypeOK, StagesInv, BillsInv, [Next]_vars, NEW k \in Keys
             PROVE  /\ used'[k] = Chars(speech', BilledOn(k)')
                    /\ \A d \in Days : (Limit[k] - dawn'[d][k]) + Chars(speech', Since(k, d)') <= used'[k]
  BY BillsAre
<1>1. PICK S \in SUBSET Sent : Bill(S)
  BY BillSteps
<1> DEFINE B == BilledOn(k)
           W == With(S, k)
<1>2. B \in SUBSET Settled /\ W \in SUBSET Settled /\ B \cap W = {}
  BY SettledKinds DEF With, Sent, BilledOn
<1>3. used'[k] = used[k] + Chars(speech, W) /\ BilledOn(k)' = B \cup W /\ used[k] = Chars(speech, B)
  BY <1>1, BillsAre DEF Bill
<1>4. used[k] \in Nat /\ Limit[k] \in Nat /\ Chars(speech, W) \in Nat /\ \A d \in Days : dawn[d][k] \in Nat
  BY <1>2, CharsStay, Constants DEF TypeOK
<1>5. used'[k] = Chars(speech', BilledOn(k)')
  <2> HIDE DEF B, W
  <2>1. Chars(speech', B \cup W) = Chars(speech, B \cup W)
    BY <1>2, CharsStay
  <2>2. Chars(speech, B \cup W) = Chars(speech, B) + Chars(speech, W)
    BY <1>2, SettledSplit
  <2> QED BY <1>3, <2>1, <2>2
<1>6. ASSUME NEW d \in Days PROVE (Limit[k] - dawn'[d][k]) + Chars(speech', Since(k, d)') <= used'[k]
  <2> DEFINE Bd == Since(k, d)
             Wd == {u \in W : speech[u].day >= d}
  <2>1. Bd \in SUBSET Settled /\ Wd \in SUBSET W /\ Wd \in SUBSET Settled /\ Bd \cap Wd = {}
    BY <1>2 DEF Since
  <2>2. Since(k, d)' = Bd \cup Wd
    <3>1. Since(k, d)' = {u \in B \cup W : speech'[u].day >= d}
      BY <1>3 DEF Since
    <3>2. \A u \in B \cup W : speech'[u].day = speech[u].day
      BY <1>2, SettledStays
    <3> QED BY <3>1, <3>2 DEF Since
  <2>3. Chars(speech', Since(k, d)') = Chars(speech, Bd) + Chars(speech, Wd)
    <3> HIDE DEF Bd, Wd
    <3>1. Chars(speech', Bd \cup Wd) = Chars(speech, Bd \cup Wd)
      BY <2>1, CharsStay
    <3>2. Chars(speech, Bd \cup Wd) = Chars(speech, Bd) + Chars(speech, Wd)
      BY <2>1, SettledSplit
    <3> QED BY <2>2, <3>1, <3>2
  <2>4. Chars(speech, Wd) <= Chars(speech, W) /\ Chars(speech, Wd) \in Nat /\ Chars(speech, Bd) \in Nat
    <3>1. W \in SUBSET Requests /\ \A u \in W : speech[u].n \in Nat
      BY <1>2, SettledFacts
    <3> HIDE DEF W, Bd, Wd
    <3> QED BY <2>1, <3>1, CharsSubset, CharsStay
  <2>5. CASE dawn' = dawn
    <3>1. (Limit[k] - dawn[d][k]) + Chars(speech, Bd) <= used[k]
      BY BillsAre
    <3> HIDE DEF W, Bd, Wd
    <3> QED BY <1>3, <1>4, <2>3, <2>4, <2>5, <3>1
  <2>6. CASE Midnight /\ dawn' = [dawn EXCEPT ![day + 1] = [x \in Keys |-> Limit[x] - used[x]]]
    <3>1. CASE d # day + 1
      <4>1. (Limit[k] - dawn[d][k]) + Chars(speech, Bd) <= used[k]
        BY BillsAre
      <4>2. dawn'[d][k] = dawn[d][k]
        BY <2>6, <3>1 DEF TypeOK
      <4> HIDE DEF W, Bd, Wd
      <4> QED BY <1>3, <1>4, <2>3, <2>4, <4>1, <4>2
    <3>2. CASE d = day + 1
      <4>1. dawn'[d][k] = Limit[k] - used[k]
        BY <2>6, <3>2 DEF TypeOK
      <4>2. \A u \in Settled : ~(speech[u].day >= d)
        <5>1. \A u \in Settled : speech[u].day <= day /\ speech[u].day \in Nat /\ day \in Nat
          BY SettledFacts, Requested, Constants DEF StagesInv, TypeOK
        <5> QED BY <3>2, <5>1
      <4>3. Bd = {} /\ Wd = {}
        BY <1>2, <4>2 DEF Since
      <4>4. Chars(speech, Bd) = 0 /\ Chars(speech, Wd) = 0
        BY <4>3, CharsEmpty
      <4> HIDE DEF W, Bd, Wd
      <4> QED BY <1>3, <1>4, <2>3, <4>1, <4>4
    <3> QED BY <3>1, <3>2
  <2> QED BY <2>5, <2>6, DawnSteps
<1> QED BY <1>5, <1>6

LEMMA InitBills == Init => BillsInv
<1> SUFFICES ASSUME Init PROVE BillsInv
  OBVIOUS
<1>1. \A u \in Requests : speech[u] = Unasked
  BY DEF Init
<1>2. \A k : BilledOn(k) = {} /\ \A d : Since(k, d) = {}
  BY <1>1 DEF BilledOn, Since
<1>3. \A k \in Keys : used[k] = 0 /\ Limit[k] \in Nat /\ \A d \in Days : dawn[d][k] = Limit[k]
  BY Constants DEF Init
<1>4. ASSUME NEW k \in Keys
      PROVE  /\ used[k] = Chars(speech, BilledOn(k))
             /\ \A d \in Days : (Limit[k] - dawn[d][k]) + Chars(speech, Since(k, d)) <= used[k]
  <2>1. Chars(speech, BilledOn(k)) = 0 /\ \A d \in Days : Chars(speech, Since(k, d)) = 0
    BY <1>2, CharsEmpty
  <2> QED BY <1>3, <2>1
<1> QED BY <1>4, BillsAre

LEMMA BillsAlways == Spec => []BillsInv
<1>1. TypeOK /\ StagesInv /\ BillsInv /\ [Next]_vars => BillsInv'
  BY StepBills
<1> QED BY <1>1, InitBills, TypeCorrect, CountsAlways, PTL DEF Spec

\* Key by key the bill is that of what was billed, person by person and day by day
\* the count is that of what stands.
LEMMA BilledFollows == TypeOK /\ StagesInv /\ CountsAreKept /\ BillsInv => BilledIsCounted
<1> SUFFICES ASSUME TypeOK, StagesInv, CountsAreKept, BillsInv, NEW s \in Sources
             PROVE  SumFunction([k \in {k \in Keys : Source(k) = s} |-> used[k]])
                      <= SumFunction([pd \in Members \X Days |-> usage[pd[1]][pd[2]][s]])
                           + Characters({u \in Reserved({"givenBack"}) :
                                           speech[u].billed = "late" /\ Source(speech[u].key) = s})
  BY DEF BilledIsCounted
<1> DEFINE f == Spoken(speech)
           Ks == {k \in Keys : Source(k) = s}
           Us == [k \in Ks |-> used[k]]
           B == {u \in Requests : speech[u] # Unasked /\ speech[u].billed # "no" /\ Source(speech[u].key) = s}
           PD == Members \X Days
           Ps == [pd \in PD |-> usage[pd[1]][pd[2]][s]]
           K == {u \in Reserved(Standing) : Source(speech[u].key) = s}
           L == {u \in Reserved({"givenBack"}) : speech[u].billed = "late" /\ Source(speech[u].key) = s}
<1>1. B \in SUBSET Settled /\ K \in SUBSET Settled /\ L \in SUBSET Settled
  <2>1. \A u \in B : u \in BilledOn(speech[u].key)
    BY DEF BilledOn
  <2> QED BY <2>1, SettledKinds DEF Settled, Reserved, Standing
<1>2. Settled \in SUBSET Requests /\ \A u \in Settled : f[u] \in Nat /\ f[u] \in Int /\ speech[u].n \in Nat
  BY SettledFacts DEF Settled, Reserved, Spoken
<1>3. SumFunctionOnSet(Us, Ks) = Chars(speech, B)
  <2> DEFINE g == [u \in Requests |-> speech[u].key]
  <2>1. \A u \in B : g[u] \in Ks
    BY Requested
  <2>2. ASSUME NEW k \in Ks PROVE Us[k] = SumFunctionOnSet(f, Class(B, g, k))
    <3>1. Class(B, g, k) = BilledOn(k)
      BY DEF BilledOn, Class
    <3>2. used[k] = Chars(speech, BilledOn(k))
      BY BillsAre
    <3>3. BilledOn(k) \in SUBSET Requests /\ \A u \in BilledOn(k) : speech[u].n \in Nat
      BY <1>2, SettledKinds
    <3>4. Chars(speech, BilledOn(k)) = SumFunctionOnSet(f, BilledOn(k))
      BY <3>3, CharsSum
    <3> QED BY <3>1, <3>2, <3>4
  <2>3. IsFiniteSet(B) /\ IsFiniteSet(Ks) /\ \A u \in B : f[u] \in Int
    BY <1>1, <1>2, Finite
  <2>4. SumFunctionOnSet(Us, Ks) = SumFunctionOnSet(f, B)
    <3> HIDE DEF f, Ks, Us, B, g
    <3> QED BY <2>1, <2>2, <2>3, SumByClass
  <2>5. Chars(speech, B) = SumFunctionOnSet(f, B)
    BY <1>1, <1>2, CharsSum
  <2> QED BY <2>4, <2>5
<1>4. SumFunctionOnSet(Ps, PD) = Chars(speech, K)
  <2> DEFINE g == [u \in Requests |-> <<speech[u].by, speech[u].day>>]
  <2>1. \A u \in K : g[u] \in PD
    BY <1>1, SettledFacts, Requested
  <2>2. ASSUME NEW pd \in PD PROVE Ps[pd] = SumFunctionOnSet(f, Class(K, g, pd))
    <3>1. PICK p \in Members : \E d \in Days : pd = <<p, d>>
      OBVIOUS
    <3>2. PICK d \in Days : pd = <<p, d>>
      BY <3>1
    <3>3. Class(K, g, pd) = Kept(p, d, s)
      BY <1>1, <1>2, <3>2 DEF Kept, Class
    <3>4. usage[p][d][s] = Chars(speech, Kept(p, d, s))
      BY CountsAre
    <3>5. Kept(p, d, s) \in SUBSET Requests /\ \A u \in Kept(p, d, s) : speech[u].n \in Nat
      BY <1>2, KeptIsSettled
    <3>6. Chars(speech, Kept(p, d, s)) = SumFunctionOnSet(f, Kept(p, d, s))
      BY <3>5, CharsSum
    <3>7. Ps[pd] = usage[p][d][s]
      BY <3>2
    <3> QED BY <3>3, <3>4, <3>6, <3>7
  <2>3. IsFiniteSet(K) /\ IsFiniteSet(PD) /\ \A u \in K : f[u] \in Int
    BY <1>1, <1>2, Finite, FS_Product
  <2>4. SumFunctionOnSet(Ps, PD) = SumFunctionOnSet(f, K)
    <3> HIDE DEF f, K, PD, Ps, g
    <3> QED BY <2>1, <2>2, <2>3, SumByClass
  <2>5. Chars(speech, K) = SumFunctionOnSet(f, K)
    BY <1>1, <1>2, CharsSum
  <2> QED BY <2>4, <2>5
<1>5. Chars(speech, B) <= Chars(speech, K) + Chars(speech, L)
  <2>1. K \cap L = {}
    BY DEF Reserved, Standing
  <2>2. B \subseteq K \cup L
    <3>1. \A u \in B : speech[u].billed \in {"yes", "late"}
      BY Requested DEF Speech
    <3>2. \A u \in B : speech[u].stage \in {"failed", "kept", "givenBack"}
                       /\ (speech[u].stage = "givenBack" => speech[u].billed = "late")
      BY <3>1 DEF StagesInv
    <3> QED BY <3>2 DEF Reserved, Standing
  <2>3. Chars(speech, K \cup L) = Chars(speech, K) + Chars(speech, L)
    <3> HIDE DEF K, L
    <3> QED BY <1>1, <2>1, SettledSplit
  <2>4. K \cup L \in SUBSET Requests /\ \A u \in K \cup L : speech[u].n \in Nat
    BY <1>1, <1>2
  <2>5. Chars(speech, B) <= Chars(speech, K \cup L)
    <3> HIDE DEF B, K, L
    <3> QED BY <2>2, <2>4, CharsSubset
  <2> QED BY <2>3, <2>5
<1>6. Characters(L) = Chars(speech, L)
  BY DEF Characters, Chars
<1>7. SumFunction(Us) = SumFunctionOnSet(Us, Ks) /\ SumFunction(Ps) = SumFunctionOnSet(Ps, PD)
  BY DEF SumFunction
<1>8. SumFunction(Us) <= SumFunction(Ps) + Characters(L)
  <2> HIDE DEF Us, Ks, Ps, PD, B, K, L
  <2> QED BY <1>3, <1>4, <1>5, <1>6, <1>7
<1> QED BY <1>8

\* Nothing that ElevenLabs bills goes uncounted, but what its answer came too late for.
THEOREM BilledIsAlwaysCounted == Spec => []BilledIsCounted
<1>1. TypeOK /\ StagesInv /\ CountsAreKept /\ BillsInv => BilledIsCounted
  BY BilledFollows
<1> QED BY <1>1, TypeCorrect, CountsAlways, BillsAlways, PTL
-----------------------------------------------------------------------------
(* The shares.                                                             *)

\* What stands on a keyRef and day.
Held(ref, d) == {u \in Reserved(Standing) : RefOf(speech[u].by, speech[u].key) = ref /\ speech[u].day = d}

LEMMA RefIs ==
  ASSUME TypeOK, NEW u \in Settled
  PROVE  /\ RefOf(speech[u].by, speech[u].key) = Env <=> Source(speech[u].key) = "environment"
         /\ \A o \in Orgs : RefOf(speech[u].by, speech[u].key) = o
              <=> OrgOf[speech[u].by] = o /\ Source(speech[u].key) = "organisation"
         /\ RefOf(speech[u].by, speech[u].key) \in Refs
BY SettledFacts, Requested, Constants DEF RefOf, Source

\* The total of a key and day is that of the reservations that stand on it.
LEMMA HeldByPerson ==
  ASSUME TypeOK, CountsAreKept, NEW ref \in Refs, NEW d \in Days, NEW s \in Sources, NEW S \in SUBSET Members,
         \A u \in Settled : RefOf(speech[u].by, speech[u].key) = ref <=> speech[u].by \in S /\ Source(speech[u].key) = s
  PROVE  SumFunction([p \in S |-> usage[p][d][s]]) = Chars(speech, Held(ref, d))
<1> DEFINE f == Spoken(speech)
           F == [p \in S |-> usage[p][d][s]]
           H == Held(ref, d)
           g == [u \in Requests |-> speech[u].by]
<1>1. /\ H \in SUBSET Settled /\ Settled \in SUBSET Requests
      /\ \A u \in Settled : f[u] \in Nat /\ f[u] \in Int /\ speech[u].n \in Nat
  BY SettledFacts DEF Held, Settled, Reserved, Spoken
<1>2. \A u \in H : g[u] \in S
  BY <1>1 DEF Held
<1>3. ASSUME NEW p \in S PROVE F[p] = SumFunctionOnSet(f, Class(H, g, p))
  <2>1. Kept(p, d, s) \in SUBSET Settled
    BY KeptIsSettled
  <2>2. Class(H, g, p) = Kept(p, d, s)
    <3>1. Class(H, g, p) \subseteq Kept(p, d, s)
      BY <1>1 DEF Held, Kept, Class
    <3>2. \A u \in Kept(p, d, s) : u \in Settled /\ u \in Reserved(Standing) /\ speech[u].by = p /\ speech[u].day = d /\ Source(speech[u].key) = s
      BY <2>1 DEF Kept
    <3>3. \A u \in Kept(p, d, s) : u \in H /\ g[u] = p
      BY <1>1, <3>2 DEF Held
    <3> QED BY <3>1, <3>3 DEF Class
  <2>3. F[p] = Chars(speech, Kept(p, d, s))
    BY CountsAre
  <2>4. Kept(p, d, s) \in SUBSET Requests /\ \A u \in Kept(p, d, s) : speech[u].n \in Nat
    BY <1>1, <2>1
  <2>5. Chars(speech, Kept(p, d, s)) = SumFunctionOnSet(f, Kept(p, d, s))
    BY <2>4, CharsSum
  <2> QED BY <2>2, <2>3, <2>5
<1>4. IsFiniteSet(S) /\ IsFiniteSet(H) /\ \A u \in H : f[u] \in Int
  BY <1>1, Finite
<1>5. SumFunctionOnSet(F, S) = SumFunctionOnSet(f, H)
  <2> HIDE DEF f, F, H, g
  <2> QED BY <1>2, <1>3, <1>4, SumByClass
<1>6. Chars(speech, H) = SumFunctionOnSet(f, H)
  BY <1>1, CharsSum
<1>7. SumFunction(F) = SumFunctionOnSet(F, S)
  BY DEF SumFunction
<1> QED BY <1>5, <1>6, <1>7

LEMMA KeyTodayIs ==
  ASSUME TypeOK, CountsAreKept, NEW ref \in Refs, NEW d \in Days
  PROVE  KeyToday(ref, d) = Chars(speech, Held(ref, d))
<1>1. \A u \in Settled : speech[u].by \in Members
  BY SettledFacts, Requested
<1>2. CASE ref = Env
  <2>1. \A u \in Settled : RefOf(speech[u].by, speech[u].key) = ref
                             <=> speech[u].by \in Members /\ Source(speech[u].key) = "environment"
    BY <1>1, <1>2, RefIs
  <2>2. "environment" \in Sources
    BY DEF Sources
  <2>3. SumFunction([p \in Members |-> usage[p][d]["environment"]]) = Chars(speech, Held(ref, d))
    BY <2>1, <2>2, HeldByPerson
  <2> QED BY <1>2, <2>3 DEF KeyToday
<1>3. CASE ref # Env
  <2> DEFINE S == {q \in Members : OrgOf[q] = ref}
  <2>1. ref \in Orgs
    BY <1>3 DEF Refs
  <2>2. \A u \in Settled : RefOf(speech[u].by, speech[u].key) = ref
                             <=> speech[u].by \in S /\ Source(speech[u].key) = "organisation"
    BY <1>1, <2>1, RefIs
  <2>3. "organisation" \in Sources /\ S \in SUBSET Members
    BY DEF Sources
  <2>4. SumFunction([p \in S |-> usage[p][d]["organisation"]]) = Chars(speech, Held(ref, d))
    <3> HIDE DEF S
    <3> QED BY <2>2, <2>3, HeldByPerson
  <2> QED BY <1>3, <2>4 DEF KeyToday, WorkspaceToday
<1> QED BY <1>2, <1>3

\* An entry with this count, made now, shares nothing out twice.
Covered(c, ref, d, k) == c + (Limit[k] - used[k]) <= dawn[d][k] + Chars(speech, Unbilled(ref, d, k))

\* What is counted now and left now is covered.
LEMMA CountedNow ==
  ASSUME TypeOK, StagesInv, CountsAreKept, BillsInv, NEW ref \in Refs, NEW k \in Keys
  PROVE  Covered(KeyToday(ref, day), ref, day, k)
<1> DEFINE H == Held(ref, day)
           U == Unbilled(ref, day, k)
           B == Since(k, day)
<1>1. H \in SUBSET Settled /\ U \in SUBSET Settled /\ B \in SUBSET Settled /\ day \in Days
  BY SettledKinds DEF Held, Unbilled, Since, Settled, Reserved, TypeOK
<1>2. H \subseteq U \cup B
  <2>1. \A u \in H : speech[u].day = day /\ speech[u] # Unasked /\ day \in Nat
    BY <1>1, SettledFacts, Requested, Constants DEF Held
  <2>2. ASSUME NEW u \in H, u \notin U PROVE u \in B
    <3>1. speech[u].billed # "no" /\ speech[u].key = k
      BY <2>2 DEF Held, Unbilled, Reserved
    <3> QED BY <1>1, <2>1, <3>1, SettledFacts DEF Since, BilledOn
  <2> QED BY <2>2
<1>3. U \cap B = {}
  BY DEF Unbilled, Since, BilledOn
<1>4. KeyToday(ref, day) = Chars(speech, H)
  BY <1>1, KeyTodayIs
<1>5. (Limit[k] - dawn[day][k]) + Chars(speech, B) <= used[k]
  BY <1>1, BillsAre
<1>6. Limit[k] \in Nat /\ dawn[day][k] \in Nat /\ used[k] \in Nat
  BY <1>1, Constants DEF TypeOK
<1> HIDE DEF H, B
<1>7. Chars(speech, U \cup B) = Chars(speech, U) + Chars(speech, B)
  BY <1>1, <1>3, SettledSplit
<1>8. Chars(speech, H) <= Chars(speech, U \cup B)
  <2>1. U \cup B \in SUBSET Requests /\ \A u \in U \cup B : speech[u].n \in Nat
    BY <1>1, SettledFacts
  <2> HIDE DEF U
  <2> QED BY <1>2, <2>1, CharsSubset
<1>9. Chars(speech, H) \in Nat /\ Chars(speech, U) \in Nat /\ Chars(speech, B) \in Nat
  BY <1>1, SettledNat
<1> QED BY <1>4, <1>5, <1>6, <1>7, <1>8, <1>9 DEF Covered

\* What is covered stays covered, whatever is reserved, billed and given back, and
\* over midnight.
LEMMA CoveredStays ==
  ASSUME TypeOK, TypeOK', StagesInv, [Next]_vars, NEW ref, NEW k \in Keys, NEW d \in Days, d <= day, NEW c \in Nat,
         Covered(c, ref, d, k)
  PROVE  Covered(c, ref, d, k)'
<1>1. PICK S \in SUBSET Sent : Bill(S)
  BY BillSteps
<1> DEFINE U == Unbilled(ref, d, k)
           W == With(S, k)
           R == U \ W
<1>2. U \in SUBSET Settled /\ W \in SUBSET Settled /\ R \in SUBSET Settled
  BY SettledKinds DEF Unbilled, With, Settled
<1>3. R \subseteq Unbilled(ref, d, k)' /\ Unbilled(ref, d, k)' \subseteq Settled'
  <2>1. ASSUME NEW u \in R PROVE u \in Unbilled(ref, d, k)'
    <3>1. /\ u \in Settled' /\ speech'[u].by = speech[u].by /\ speech'[u].key = speech[u].key
          /\ speech'[u].day = speech[u].day
      BY <1>2, SettledStays
    <3>2. RefOf(speech[u].by, speech[u].key) = ref /\ speech[u].day = d /\ u \in Requests
      BY DEF Unbilled, Reserved
    <3>3. ~(speech'[u].billed # "no" /\ speech'[u].key = k)
      <4>1. u \notin BilledOn(k) /\ u \notin W
        BY DEF Unbilled, BilledOn
      <4>2. u \notin BilledOn(k)'
        BY <1>1, <4>1 DEF Bill
      <4>3. speech'[u] # Unasked
        BY <3>1 DEF Settled, Reserved, Standing, Unasked
      <4> QED BY <3>2, <4>2, <4>3 DEF BilledOn
    <3> QED BY <3>1, <3>2, <3>3 DEF Unbilled, Settled
  <2> QED BY <2>1 DEF Unbilled, Settled
<1>4. Chars(speech', R) <= Chars(speech', Unbilled(ref, d, k)') /\ Chars(speech', Unbilled(ref, d, k)') \in Nat
  <2> DEFINE V == Unbilled(ref, d, k)'
  <2>1. \A u \in Settled' : u \in Requests /\ speech'[u].n \in Nat
    <3>1. ASSUME NEW u \in Settled' PROVE u \in Requests /\ speech'[u].n \in Nat
      <4>1. u \in Requests /\ speech'[u].stage \in Stages /\ speech'[u] \in Speech \cup {Unasked}
        BY DEF Settled, Reserved, Standing, Stages, TypeOK
      <4>2. speech'[u] \in Speech
        BY <4>1 DEF Unasked, Stages
      <4> QED BY <4>1, <4>2, Constants DEF Speech
    <3> QED BY <3>1
  <2>2. V \in SUBSET Requests /\ R \in SUBSET V /\ \A u \in V : speech'[u].n \in Nat
    BY <1>3, <2>1
  <2> HIDE DEF V, R
  <2>3. Chars(speech', R) <= Chars(speech', V) /\ Chars(speech', V) \in Nat
    BY <2>2, CharsSubset, CharsNat
  <2> QED BY <2>3 DEF V
<1> HIDE DEF W
<1>5. Chars(speech', R) = Chars(speech, R) /\ Chars(speech, R) \in Nat /\ Chars(speech, W) \in Nat /\ Chars(speech, U) \in Nat
  BY <1>2, CharsStay
<1>6. Chars(speech, U) <= Chars(speech, R) + Chars(speech, W)
  <2>1. R \cap W = {} /\ U \subseteq R \cup W
    OBVIOUS
  <2>2. R \cup W \in SUBSET Requests /\ \A u \in R \cup W : speech[u].n \in Nat
    BY <1>2, SettledFacts
  <2> HIDE DEF U, R
  <2>3. Chars(speech, R \cup W) = Chars(speech, R) + Chars(speech, W)
    BY <1>2, <2>1, SettledSplit
  <2>4. Chars(speech, U) <= Chars(speech, R \cup W)
    BY <2>1, <2>2, CharsSubset
  <2> QED BY <2>3, <2>4
<1>7. used'[k] = used[k] + Chars(speech, W)
  BY <1>1 DEF Bill, W
<1>8. dawn'[d][k] = dawn[d][k] /\ dawn[d][k] \in Nat /\ used[k] \in Nat /\ Limit[k] \in Nat
  <2>1. d # day + 1
    BY Constants DEF TypeOK
  <2> QED BY <2>1, DawnSteps, Constants DEF TypeOK
<1>9. c + (Limit[k] - used[k]) <= dawn[d][k] + Chars(speech, U)
  BY DEF Covered
<1> HIDE DEF U, R
<1>10. c + (Limit[k] - used'[k]) <= dawn'[d][k] + Chars(speech', Unbilled(ref, d, k)')
  BY <1>4, <1>5, <1>6, <1>7, <1>8, <1>9
<1> QED BY <1>10 DEF Covered

LEMMA FlightsAre ==
  /\ FlightsInv <=> \A f \in flights :
       /\ f.day <= day
       /\ f.left = Unknown => Covered(f.count, f.ref, f.day, f.key)
       /\ f.left # Unknown => f.left + f.count <= f.allowed[f.day]
  /\ FlightsInv' <=> \A f \in flights' :
       /\ f.day <= day'
       /\ f.left = Unknown => Covered(f.count, f.ref, f.day, f.key)'
       /\ f.left # Unknown => f.left + f.count <= f.allowed[f.day]
BY DEF FlightsInv, Covered, Characters, Chars, Unbilled

\* A read under way was under way, or starts with what is counted now, or is now
\* answered.
Begun(ref, k) ==
  [ref |-> ref, key |-> k, count |-> KeyToday(ref, day), day |-> day,
   left |-> Unknown, allowed |-> [d \in Days |-> 0]]

LEMMA FlightSteps ==
  ASSUME TypeOK, [Next]_vars, NEW f \in flights'
  PROVE  \/ f \in flights
         \/ \E ref \in Refs, k \in Keys : f = Begun(ref, k)
         \/ \E g \in flights : g.left = Unknown /\ f = Worked(g)
<1>1. ASSUME NEW u \in Requests, NEW p \in Members, Prepare(u, p) \/ PrepareRead(u, p)
      PROVE  flights' = flights \/ \E ref \in Refs, k \in Keys : StartRead(ref, k)
  BY <1>1, KeyOfType DEF Prepare, PrepareRead
<1>2. ASSUME NEW g \in flights, WorkOut(g)
      PROVE  g.left = Unknown /\ flights' = (flights \ {g}) \cup {Worked(g)}
  BY <1>2 DEF WorkOut, Worked
<1>3. \/ flights' \subseteq flights
      \/ \E g \in flights : WorkOut(g)
      \/ \E u \in Requests, p \in Members : Prepare(u, p) \/ PrepareRead(u, p)
  BY DEF Next, vars, Crash, Midnight, ConnectKey, ClearKey, TestKey, ReadSubscription, ReadFails, Reserve,
     ReserveCommit, GiveUp, Send, Abandon, Becomes, Said, Fails, TimesOut, Refund, RefundFails
<1>4. ASSUME NEW ref \in Refs, NEW k \in Keys, StartRead(ref, k)
      PROVE  flights' = flights \/ flights' = flights \cup {Begun(ref, k)}
  BY <1>4 DEF StartRead, Begun
<1> QED BY <1>1, <1>2, <1>3, <1>4

LEMMA DayGoesOn ==
  ASSUME TypeOK, [Next]_vars PROVE day' \in Nat /\ day \in Nat /\ day <= day'
<1>1. day' = day \/ day' = day + 1
  BY DEF Next, vars, Crash, Midnight, ConnectKey, ClearKey, TestKey, WorkOut, ReadSubscription, ReadFails, Prepare, PrepareRead,
     Reserve, ReserveCommit, GiveUp, Send, Abandon, Becomes, Said, Fails, TimesOut, Refund, RefundFails
<1> QED BY <1>1, Constants DEF TypeOK

LEMMA StepFlights ==
  ASSUME TypeOK, TypeOK', StagesInv, CountsAreKept, BillsInv, FlightsInv, [Next]_vars
  PROVE  FlightsInv'
<1> DEFINE Good(f) ==
             /\ f.count \in Nat /\ f.day \in Days /\ f.key \in Keys /\ f.day <= day
             /\ f.left = Unknown => Covered(f.count, f.ref, f.day, f.key)
             /\ f.left # Unknown => f.left + f.count <= f.allowed[f.day]
<1> SUFFICES ASSUME NEW f \in flights'
             PROVE  /\ f.day <= day'
                    /\ f.left = Unknown => Covered(f.count, f.ref, f.day, f.key)'
                    /\ f.left # Unknown => f.left + f.count <= f.allowed[f.day]
  BY FlightsAre
<1>1. \A g \in flights : Good(g)
  BY FlightsAre DEF TypeOK, Flight
<1>2. ASSUME NEW ref \in Refs, NEW k \in Keys, f = Begun(ref, k) PROVE Good(f)
  <2>1. f.count = KeyToday(ref, day) /\ f.day = day /\ f.key = k /\ f.ref = ref /\ f.left = Unknown
    BY <1>2 DEF Begun
  <2>2. day \in Days /\ day <= day /\ KeyToday(ref, day) \in Nat
    BY KeyTodayType, DayGoesOn DEF TypeOK
  <2> QED BY <2>1, <2>2, CountedNow
<1>3. ASSUME NEW g \in flights, g.left = Unknown, f = Worked(g) PROVE Good(f)
  <2>1. /\ g.count \in Nat /\ g.day \in Days /\ g.key \in Keys /\ g.day <= day
        /\ Covered(g.count, g.ref, g.day, g.key)
    BY <1>1, <1>3
  <2>2. /\ f.left = Limit[g.key] - used[g.key] /\ f.left # Unknown
        /\ f.key = g.key /\ f.count = g.count /\ f.day = g.day
        /\ f.allowed[g.day] = Allowed(g.ref, g.key, g.day)
    BY <1>3, <2>1, WorkedIs
  <2>3. Allowed(g.ref, g.key, g.day) = dawn[g.day][g.key] + Chars(speech, Unbilled(g.ref, g.day, g.key))
    BY AllowedIs
  <2>4. Limit[g.key] \in Nat /\ used[g.key] \in Nat
    BY <2>1, Constants DEF TypeOK
  <2>5. g.count + (Limit[g.key] - used[g.key]) <= Allowed(g.ref, g.key, g.day)
    BY <2>1, <2>3 DEF Covered
  <2>6. f.left + f.count = g.count + (Limit[g.key] - used[g.key])
    BY <2>1, <2>2, <2>4
  <2> QED BY <2>1, <2>2, <2>5, <2>6
<1>4. Good(f)
  <2> HIDE DEF Good
  <2> QED BY <1>1, <1>2, <1>3, FlightSteps
<1>5. f.left = Unknown => Covered(f.count, f.ref, f.day, f.key)'
  <2>1. \A ref : \A k \in Keys, d \in Days : \A c \in Nat :
          d <= day /\ Covered(c, ref, d, k) => Covered(c, ref, d, k)'
    BY CoveredStays
  <2> QED BY <1>4, <2>1
<1>6. f.day <= day'
  <2>1. day' \in Nat /\ day \in Nat /\ day <= day'
    BY DayGoesOn
  <2>2. f.day \in Nat
    BY <1>4, Constants
  <2> QED BY <1>4, <2>1, <2>2
<1> QED BY <1>4, <1>5, <1>6

\* SharedOutOnce, of one step.
SharesOnce ==
  \A f \in flights \ flights' :
    LET e == subs'[f.ref] IN
    e \notin {subs[f.ref], NoEntry} => e.left + e.count <= f.allowed[e.day]

LEMMA StepShares ==
  ASSUME TypeOK, FlightsInv, [Next]_vars
  PROVE  SharesOnce
<1> SUFFICES ASSUME NEW f \in flights \ flights', subs'[f.ref] \notin {subs[f.ref], NoEntry}
             PROVE  subs'[f.ref].left + subs'[f.ref].count <= f.allowed[subs'[f.ref].day]
  BY DEF SharesOnce
<1>1. f.ref \in Refs
  BY DEF TypeOK, Flight
<1>2. ~Crash
  BY <1>1 DEF Crash
<1>3. \/ subs' = subs \/ flights' = flights \/ Crash
      \/ \E g \in flights : ReadSubscription(g)
  BY DEF Next, vars, Midnight, ConnectKey, ClearKey, TestKey, WorkOut, ReadFails, Prepare, PrepareRead, Reserve,
     ReserveCommit, GiveUp, Send, Abandon, Becomes, Said, Fails, TimesOut, Refund, RefundFails
<1>4. PICK g \in flights : ReadSubscription(g)
  BY <1>2, <1>3
<1>5. g = f /\ f.left # Unknown /\ subs'[f.ref] = Answered(f)
  BY <1>1, <1>4 DEF ReadSubscription, TypeOK
<1>6. f.left + f.count <= f.allowed[f.day]
  BY <1>5, FlightsAre
<1> QED BY <1>5, <1>6 DEF Answered

LEMMA InitShares == Init => FlightsInv
BY DEF Init, FlightsInv

LEMMA FlightsAlways == Spec => []FlightsInv
<1>1. TypeOK /\ TypeOK' /\ StagesInv /\ CountsAreKept /\ BillsInv /\ FlightsInv /\ [Next]_vars => FlightsInv'
  BY StepFlights
<1> QED BY <1>1, InitShares, TypeCorrect, CountsAlways, BillsAlways, PTL DEF Spec

\* The invariant in one, with the step that keeps it.
LEMMA CreditStep ==
  ASSUME CreditInv, TypeOK', [Next]_vars PROVE CreditInv'
BY StepStages, StepCounts, StepLocks, StepOver, StepBills, StepFlights DEF CreditInv

LEMMA CreditAlways == Spec => []CreditInv
<1>1. Init => CreditInv
  BY InitType, InitCounts, InitLocks, InitBills, InitShares DEF CreditInv
<1>2. CreditInv /\ TypeOK' /\ [Next]_vars => CreditInv'
  BY CreditStep
<1> QED BY <1>1, <1>2, TypeCorrect, PTL DEF Spec

\* Whatever is reserved, billed and given back while a subscription is read, and
\* whichever keys are entered, the answer makes no entry that shares out again what
\* its key had been billed for when ElevenLabs answered.
THEOREM SharedOutOnceAlways == Spec => SharedOutOnce
<1>1. TypeOK /\ FlightsInv /\ [Next]_vars => [SharesOnce]_vars
  BY StepShares
<1>2. Spec => [][SharesOnce]_vars
  BY <1>1, TypeCorrect, FlightsAlways, PTL DEF Spec
<1>3. SharedOutOnce <=> [][SharesOnce]_vars
  BY DEF SharedOutOnce, SharesOnce
<1> QED BY <1>2, <1>3
=============================================================================
