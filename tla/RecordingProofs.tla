-------------------------- MODULE RecordingProofs --------------------------
(***************************************************************************)
(* Theorems about Recording, for any number of chunks, incidents and       *)
(* failures of the worker.                                                 *)
(***************************************************************************)
EXTENDS Recording, FiniteSetTheorems, TLAPS

(* Data: manifests, sets of chunks.                                        *)

LEMMA ManifestFacts ==
  ASSUME NEW n \in Nat
  PROVE  /\ Manifest(n) \in Seq(Int) /\ Len(Manifest(n)) = n
         /\ Append(Manifest(n), n) = Manifest(n + 1)
<1>1. Manifest(n) \in Seq(Int) /\ Len(Manifest(n)) = n
  BY DEF Manifest
<1>2. Append(Manifest(n), n) = Manifest(n + 1)
  BY <1>1 DEF Manifest
<1> QED
  BY <1>1, <1>2

LEMMA EmptyManifest == Manifest(0) = <<>>
BY DEF Manifest

LEMMA ChunkFacts ==
  /\ Chunks \subseteq Nat /\ ChunkCount \in Nat
  /\ \A S \in SUBSET Chunks : IsFiniteSet(S) /\ Cardinality(S) \in Nat
<1>1. ChunkCount \in Nat /\ Chunks \subseteq Nat
  BY RecordingAssumption DEF RecordingAssumption, Chunks
<1>2. IsFiniteSet(Chunks)
  BY <1>1, FS_Interval DEF Chunks
<1>3. \A S \in SUBSET Chunks : IsFiniteSet(S) /\ Cardinality(S) \in Nat
  BY <1>2, FS_Subset, FS_CardinalityType
<1> QED
  BY <1>1, <1>3

\* What the worker's transaction may be, and what a deletion consists of.
LEMMA WorkFacts ==
  /\ Idle \in Work /\ Assembling \in Work
  /\ Idle # Assembling /\ Idle.on # "deletion" /\ Assembling.on # "deletion"
  /\ \A l, n, d \in SUBSET Chunks :
       /\ Deleting(l, n, d) \in Work
       /\ Deleting(l, n, d).on = "deletion"
       /\ Deleting(l, n, d).left = l /\ Deleting(l, n, d).next = n /\ Deleting(l, n, d).done = d
  /\ \A w \in Work : w.on = "deletion" =>
       \E l, n, d \in SUBSET Chunks : w = Deleting(l, n, d)
<1>1. Idle \in Work /\ Assembling \in Work
  BY DEF Work
<1>2. Idle.on = "nothing" /\ Assembling.on = "assembly"
  BY DEF Idle, Assembling
<1>3. \A l, n, d \in SUBSET Chunks : Deleting(l, n, d) \in Work
  BY DEF Work
<1>4. \A l, n, d \in SUBSET Chunks :
        /\ Deleting(l, n, d).on = "deletion"
        /\ Deleting(l, n, d).left = l /\ Deleting(l, n, d).next = n /\ Deleting(l, n, d).done = d
  BY DEF Deleting
<1>5. \A w \in Work : w = Idle \/ w = Assembling \/ \E l, n, d \in SUBSET Chunks : w = Deleting(l, n, d)
  BY DEF Work
<1> QED
  BY <1>1, <1>2, <1>3, <1>4, <1>5

\* The two steps that change a deletion under way.
LEMMA DeletionSteps ==
  ASSUME TypeOK, NEW c \in Chunks
  PROVE  /\ DeleteObject(c) =>
              /\ work' = Deleting(work.left \ {c}, {c}, work.done)
              /\ work' \in Work /\ work'.on = "deletion" /\ work'.done = work.done
         /\ DeleteRow(c) =>
              /\ work' = Deleting(work.left, {}, work.done \cup {c})
              /\ work' \in Work /\ work'.on = "deletion" /\ work'.done = work.done \cup {c}
<1> SUFFICES ASSUME work.on = "deletion"
             PROVE  /\ DeleteObject(c) =>
                         /\ work' = Deleting(work.left \ {c}, {c}, work.done)
                         /\ work' \in Work /\ work'.on = "deletion" /\ work'.done = work.done
                    /\ DeleteRow(c) =>
                         /\ work' = Deleting(work.left, {}, work.done \cup {c})
                         /\ work' \in Work /\ work'.on = "deletion" /\ work'.done = work.done \cup {c}
  BY DEF DeleteObject, DeleteRow
<1>1. PICK l \in SUBSET Chunks, n \in SUBSET Chunks, d \in SUBSET Chunks : work = Deleting(l, n, d)
  BY WorkFacts DEF TypeOK
<1>2. work.left = l /\ work.next = n /\ work.done = d
  BY <1>1, WorkFacts
<1>3. DeleteObject(c) => work' = Deleting(l \ {c}, {c}, d)
  BY <1>1 DEF DeleteObject, Deleting
<1>4. DeleteRow(c) => work' = Deleting(l, {}, d \cup {c})
  BY <1>1 DEF DeleteRow, Deleting
<1>5. l \ {c} \in SUBSET Chunks /\ {c} \in SUBSET Chunks /\ {} \in SUBSET Chunks /\ d \cup {c} \in SUBSET Chunks
  OBVIOUS
<1>6. DeleteObject(c) => work' \in Work /\ work'.on = "deletion" /\ work'.done = d
  BY <1>3, <1>5, WorkFacts
<1>7. DeleteRow(c) => work' \in Work /\ work'.on = "deletion" /\ work'.done = d \cup {c}
  BY <1>4, <1>5, WorkFacts
<1> QED
  BY <1>2, <1>3, <1>4, <1>6, <1>7
-----------------------------------------------------------------------------
(* Types.                                                                  *)

\* While the worker writes the assembled object, a manifest is what it has
\* written: nothing but the start of one is ever appended to.
Written == work = Assembling => \E n \in 0 .. ChunkCount : media = Manifest(n)

TypeInv == TypeOK /\ Written

LEMMA InitTypes == Init => TypeInv
<1> SUFFICES ASSUME Init PROVE TypeInv
  OBVIOUS
<1>1. rec \in Row
  BY ChunkFacts DEF Init, Row
<1>2. jobs \in [{"assemble", "delete"} -> {"absent", "pending", "done"}]
  BY DEF Init
<1>3. work \in Work /\ work # Assembling
  BY WorkFacts DEF Init
<1>4. failures \in 0 .. MaxFailures
  BY RecordingAssumption DEF RecordingAssumption, Init
<1> QED
  BY <1>1, <1>2, <1>3, <1>4 DEF Init, TypeInv, TypeOK, Written

LEMMA OutcomeType == \A n \in 0 .. ChunkCount : Outcome(n) \in UploadStates
BY DEF Outcome, UploadStates

LEMMA EnqueuedType ==
  ASSUME TypeOK, NEW job \in {"assemble", "delete"}
  PROVE  Enqueued(job) \in [{"assemble", "delete"} -> {"absent", "pending", "done"}]
BY DEF TypeOK, Enqueued

LEMMA ReportedType ==
  ASSUME TypeOK, NEW job \in {"assemble", "delete"}
  PROVE  Reported(job) \subseteq [{"assemble", "delete"} -> {"absent", "pending", "done"}]
BY DEF TypeOK, Reported

LEMMA StepTypes == TypeInv /\ [Next]_vars => TypeInv'
<1> SUFFICES ASSUME TypeInv, [Next]_vars
             PROVE  TypeInv'
  OBVIOUS
<1> USE DEF TypeInv, TypeOK, Written, rows, objects
<1>0. CASE UNCHANGED vars
  BY <1>0 DEF vars
<1>1. CASE Create
  BY <1>1 DEF Create, Row, UploadStates
<1>2. CASE Expire
  BY <1>2 DEF Expire
<1>3. CASE EnqueueExpired
  BY <1>3, EnqueuedType DEF EnqueueExpired
<1>4. CASE AssembleNothing
  BY <1>4 DEF AssembleNothing, Row, UploadStates
<1>5. CASE AssembleStart
  <2>1. media' = Manifest(0) /\ 0 \in 0 .. ChunkCount
    BY <1>5, EmptyManifest, ChunkFacts DEF AssembleStart
  <2> QED
    BY <1>5, <2>1 DEF AssembleStart, Work
<1>6. CASE AssembleAppend
  <2>1. PICK n \in 0 .. ChunkCount : media = Manifest(n)
    BY <1>6 DEF AssembleAppend
  <2>2. n \in Nat /\ Len(media) = n
    BY <2>1, ManifestFacts, ChunkFacts
  <2>3. n < rec.declared /\ rec.declared \in 0 .. ChunkCount
    BY <1>6, <2>2 DEF AssembleAppend, Row
  <2>4. n + 1 \in 0 .. ChunkCount
    BY <2>2, <2>3, ChunkFacts
  <2>5. media' = Manifest(n + 1)
    BY <1>6, <2>1, <2>2, ManifestFacts DEF AssembleAppend
  <2> QED
    BY <1>6, <2>4, <2>5 DEF AssembleAppend
<1>7. CASE AssembleEnd
  <2>1. rec' \in Row
    BY <1>7 DEF AssembleEnd, Row, UploadStates
  <2>2. jobs' \in [{"assemble", "delete"} -> {"absent", "pending", "done"}]
    BY <1>7, ReportedType DEF AssembleEnd
  <2>3. work' \in Work /\ work' # Assembling
    BY <1>7, WorkFacts DEF AssembleEnd
  <2> QED
    BY <1>7, <2>1, <2>2, <2>3 DEF AssembleEnd
<1>8. CASE DeleteNothing
  BY <1>8 DEF DeleteNothing
<1>9. CASE DeleteStart
  <2>1. {c \in Chunks : chunks[c] \in {"authorised", "verified"}} \in SUBSET Chunks /\ {} \in SUBSET Chunks
    OBVIOUS
  <2>2. work' \in Work /\ work' # Assembling
    BY <1>9, <2>1, WorkFacts DEF DeleteStart
  <2> QED
    BY <1>9, <2>2 DEF DeleteStart
<1>10. ASSUME NEW c \in Chunks, DeleteObject(c) PROVE TypeInv'
  BY <1>10, DeletionSteps, WorkFacts DEF DeleteObject
<1>11. CASE DeleteMedia
  BY <1>11, WorkFacts DEF DeleteMedia
<1>12. CASE DeleteEnd
  BY <1>12, ReportedType, WorkFacts DEF DeleteEnd, Row, UploadStates
<1>13. CASE WorkerFails
  BY <1>13, RecordingAssumption, WorkFacts DEF WorkerFails, RecordingAssumption
<1>14. ASSUME NEW n \in 0 .. ChunkCount, Finalise(n) PROVE TypeInv'
  BY <1>14, OutcomeType, EnqueuedType DEF Finalise, Row
<1>15. ASSUME NEW c \in Chunks,
              Authorise(c) \/ Receive(c) \/ ReceiveCommit(c) \/ ReceiveRollback(c) \/ DeleteRow(c)
       PROVE  TypeInv'
  <2>1. CASE Authorise(c)
    BY <2>1 DEF Authorise
  <2>2. CASE Receive(c)
    BY <2>2 DEF Receive
  <2>3. CASE ReceiveCommit(c)
    BY <2>3 DEF ReceiveCommit, Row
  <2>4. CASE ReceiveRollback(c)
    BY <2>4 DEF ReceiveRollback
  <2>5. CASE DeleteRow(c)
    BY <2>5, DeletionSteps, WorkFacts DEF DeleteRow
  <2> QED
    BY <1>15, <2>1, <2>2, <2>3, <2>4, <2>5
<1>16. ASSUME NEW i \in Incidents,
              \/ Flag(i) \/ ResolveDeleted(i) \/ ReleaseAmongOthers(i) \/ ReleaseStart(i)
              \/ ReleaseRead(i) \/ ReleaseCommit(i) \/ ReleaseRollback(i)
       PROVE  TypeInv'
  <2>1. CASE Flag(i)
    BY <2>1 DEF Flag, Row, UploadStates
  <2>2. CASE ResolveDeleted(i)
    BY <2>2, EnqueuedType DEF ResolveDeleted, Row, UploadStates
  <2>3. CASE ReleaseAmongOthers(i)
    BY <2>3 DEF ReleaseAmongOthers
  <2>4. CASE ReleaseStart(i)
    BY <2>4 DEF ReleaseStart
  <2>5. CASE ReleaseRead(i)
    BY <2>5 DEF ReleaseRead
  <2>6. CASE ReleaseCommit(i)
    BY <2>6 DEF ReleaseCommit, Row
  <2>7. CASE ReleaseRollback(i)
    BY <2>7 DEF ReleaseRollback
  <2> QED
    BY <1>16, <2>1, <2>2, <2>3, <2>4, <2>5, <2>6, <2>7
<1> QED
  BY <1>0, <1>1, <1>2, <1>3, <1>4, <1>5, <1>6, <1>7, <1>8, <1>9, <1>10, <1>11, <1>12, <1>13,
     <1>14, <1>15, <1>16
  DEF Next, Assemble, Delete

\* Type correctness of the recording, its chunks, incidents, jobs and objects.
THEOREM TypeCorrect == Spec => []TypeOK
<1>1. Init => TypeInv
  BY InitTypes
<1>2. TypeInv /\ [Next]_vars => TypeInv'
  BY StepTypes
<1>3. TypeInv => TypeOK
  BY DEF TypeInv
<1> QED
  BY <1>1, <1>2, <1>3, PTL DEF Spec
-----------------------------------------------------------------------------
(* Restriction.                                                            *)

\* As long as no incident was released, one that is open or led to deletion
\* keeps the recording restricted.
Restricts ==
  /\ \E i \in Incidents : incidents[i] \in {"open", "deleted"}
  /\ \A i \in Incidents : incidents[i] # "released"
  => rec.restricted

LEMMA StepRestricts == TypeOK /\ Restricts /\ [Next]_vars => Restricts'
<1> SUFFICES ASSUME TypeOK, Restricts, [Next]_vars
             PROVE  Restricts'
  OBVIOUS
<1> USE DEF Restricts
<1>1. CASE incidents' = incidents /\ (rec.restricted => rec'.restricted)
  BY <1>1
<1>2. ASSUME NEW i \in Incidents, Flag(i) PROVE Restricts'
  BY <1>2 DEF Flag, TypeOK, Row
<1>3. ASSUME NEW i \in Incidents, ResolveDeleted(i) PROVE Restricts'
  <2>1. rec' = [rec EXCEPT !.state = "deleting"] /\ incidents[i] = "open"
    BY <1>3 DEF ResolveDeleted, Resolvable
  <2>2. \A k \in Incidents \ {i} : incidents'[k] = incidents[k]
    BY <1>3 DEF ResolveDeleted, TypeOK
  <2>3. rec'.restricted = rec.restricted
    BY <2>1 DEF TypeOK, Row
  <2> QED
    BY <2>1, <2>2, <2>3
<1>4. ASSUME NEW i \in Incidents, ReleaseAmongOthers(i) \/ ReleaseCommit(i) PROVE Restricts'
  <2>1. incidents'[i] = "released"
    BY <1>4 DEF ReleaseAmongOthers, ReleaseCommit, TypeOK
  <2> QED
    BY <2>1
<1>5. ASSUME \/ Create \/ AssembleNothing \/ AssembleEnd \/ DeleteEnd
             \/ \E n \in 0 .. ChunkCount : Finalise(n)
             \/ \E c \in Chunks : ReceiveCommit(c)
      PROVE  incidents' = incidents /\ rec'.restricted = rec.restricted
  BY <1>5 DEF Create, AssembleNothing, AssembleEnd, DeleteEnd, Finalise, ReceiveCommit, TypeOK, Row
<1>6. ASSUME \/ UNCHANGED vars
             \/ Expire \/ EnqueueExpired \/ AssembleStart \/ AssembleAppend
             \/ DeleteNothing \/ DeleteStart \/ DeleteMedia \/ WorkerFails
             \/ \E c \in Chunks : \/ Authorise(c) \/ Receive(c) \/ ReceiveRollback(c)
                                    \/ DeleteObject(c) \/ DeleteRow(c)
             \/ \E i \in Incidents : ReleaseStart(i) \/ ReleaseRead(i) \/ ReleaseRollback(i)
      PROVE  incidents' = incidents /\ rec' = rec
  BY <1>6 DEF vars, rows, Expire, EnqueueExpired, AssembleStart, AssembleAppend, DeleteNothing,
     DeleteStart, DeleteMedia, WorkerFails, Authorise, Receive, ReceiveRollback, DeleteObject,
     DeleteRow, ReleaseStart, ReleaseRead, ReleaseRollback
<1> QED
  BY <1>1, <1>2, <1>3, <1>4, <1>5, <1>6 DEF Next, Assemble, Delete

\* Flagged or condemned footage is shown again only after a release, whatever is
\* uploaded, finalised or assembled while it is restricted.
THEOREM OnlyAReleaseEverShows == Spec => []OnlyAReleaseShows
<1>1. Init => Restricts
  BY DEF Init, Restricts
<1>2. TypeOK /\ Restricts /\ [Next]_vars => Restricts'
  BY StepRestricts
<1>3. Restricts => OnlyAReleaseShows
  BY DEF Restricts, OnlyAReleaseShows, Served
<1> QED
  BY TypeCorrect, <1>1, <1>2, <1>3, PTL DEF Spec
-----------------------------------------------------------------------------
(* Uploads against deletion.                                               *)

\* An upload that has put its object holds the row of a chunk that waits for it
\* and that no deletion has marked: the row lock keeps the two apart.
Uploads == \A c \in receiving : chunks[c] = "authorised" /\ ~RowDeleted(c)

LEMMA StepUploads == TypeOK /\ Uploads /\ [Next]_vars => Uploads'
<1> SUFFICES ASSUME TypeOK, Uploads, [Next]_vars
             PROVE  Uploads'
  OBVIOUS
<1> USE DEF Uploads
<1>1. CASE receiving' \subseteq receiving /\ chunks' = chunks /\ work' = work
  BY <1>1 DEF RowDeleted
<1>2. CASE receiving' = receiving /\ chunks' = chunks /\ work'.on # "deletion"
  BY <1>2 DEF RowDeleted
<1>3. ASSUME NEW c \in Chunks, Receive(c) PROVE Uploads'
  BY <1>3 DEF Receive, RowDeleted, rows
<1>4. ASSUME NEW c \in Chunks, ReceiveCommit(c) PROVE Uploads'
  BY <1>4 DEF ReceiveCommit, RowDeleted, TypeOK
<1>5. ASSUME NEW c \in Chunks, Authorise(c) PROVE Uploads'
  BY <1>5 DEF Authorise, RowDeleted, TypeOK
<1>6. CASE DeleteStart
  <2>1. work' = Deleting({c \in Chunks : chunks[c] \in {"authorised", "verified"}}, {}, {})
    BY <1>6 DEF DeleteStart
  <2>2. work'.done = {}
    BY <2>1 DEF Deleting
  <2> QED
    BY <1>6, <2>2 DEF DeleteStart, RowDeleted, rows
<1>7. ASSUME NEW c \in Chunks, DeleteObject(c) PROVE Uploads'
  <2>1. work.on = "deletion" /\ work'.done = work.done
    BY <1>7, DeletionSteps DEF DeleteObject
  <2> QED
    BY <1>7, <2>1 DEF DeleteObject, RowDeleted, rows
<1>8. ASSUME NEW c \in Chunks, DeleteRow(c) PROVE Uploads'
  <2>1. work.on = "deletion" /\ work'.done = work.done \cup {c} /\ c \notin receiving
    BY <1>8, DeletionSteps DEF DeleteRow
  <2> QED
    BY <1>8, <2>1 DEF DeleteRow, RowDeleted, rows
<1>9. CASE DeleteEnd
  <2>1. work.on = "deletion" /\ receiving' = receiving /\ work' = Idle
    BY <1>9 DEF DeleteEnd
  <2>2. \A c \in receiving : chunks'[c] = chunks[c]
    BY <1>9, <2>1 DEF DeleteEnd, RowDeleted, TypeOK
  <2> QED
    BY <2>1, <2>2, WorkFacts DEF RowDeleted
<1>10. ASSUME \/ UNCHANGED vars
              \/ Create \/ Expire \/ EnqueueExpired \/ AssembleNothing \/ AssembleAppend
              \/ DeleteNothing \/ DeleteMedia
              \/ \E n \in 0 .. ChunkCount : Finalise(n)
              \/ \E c \in Chunks : ReceiveRollback(c)
              \/ \E i \in Incidents : \/ Flag(i) \/ ResolveDeleted(i) \/ ReleaseAmongOthers(i)
                                       \/ ReleaseStart(i) \/ ReleaseRead(i) \/ ReleaseCommit(i)
                                       \/ ReleaseRollback(i)
       PROVE  receiving' \subseteq receiving /\ chunks' = chunks /\ work' = work
  BY <1>10 DEF vars, rows, Create, Expire, EnqueueExpired, AssembleNothing, AssembleAppend,
     DeleteNothing, DeleteMedia, Finalise, ReceiveRollback, Flag, ResolveDeleted,
     ReleaseAmongOthers, ReleaseStart, ReleaseRead, ReleaseCommit, ReleaseRollback
<1>11. ASSUME AssembleStart \/ AssembleEnd \/ WorkerFails
       PROVE  receiving' = receiving /\ chunks' = chunks /\ work'.on # "deletion"
  BY <1>11, WorkFacts DEF rows, AssembleStart, AssembleEnd, WorkerFails
<1> QED
  BY <1>1, <1>2, <1>3, <1>4, <1>5, <1>6, <1>7, <1>8, <1>9, <1>10, <1>11 DEF Next, Assemble, Delete

LEMMA UploadsAlways == Spec => []Uploads
<1>1. Init => Uploads
  BY DEF Init, Uploads
<1>2. TypeOK /\ Uploads /\ [Next]_vars => Uploads'
  BY StepUploads
<1> QED
  BY TypeCorrect, <1>1, <1>2, PTL DEF Spec

\* All that writes the chunks' rows.
LEMMA ChunkSteps ==
  ASSUME [Next]_vars
  PROVE  \/ chunks' = chunks
         \/ \E c \in Chunks : Authorise(c) \/ ReceiveCommit(c)
         \/ DeleteEnd
BY DEF vars, rows, Next, Assemble, Delete, Create, Expire, EnqueueExpired, AssembleNothing,
   AssembleStart, AssembleAppend, AssembleEnd, DeleteNothing, DeleteStart, DeleteObject, DeleteRow,
   DeleteMedia, WorkerFails, Receive, ReceiveRollback, Finalise, Flag, ResolveDeleted,
   ReleaseAmongOthers, ReleaseStart, ReleaseRead, ReleaseCommit, ReleaseRollback

\* No upload brings back the row of a chunk that a deletion has marked.
THEOREM DeletedChunksAlwaysStay == Spec => DeletedChunksStayDeleted
<1> DEFINE Stay == \A c \in Chunks : chunks[c] = "deleted" => chunks'[c] = "deleted"
<1>1. TypeOK /\ Uploads /\ [Next]_vars => [Stay]_vars
  <2> SUFFICES ASSUME TypeOK, Uploads, [Next]_vars
               PROVE  Stay
    OBVIOUS
  <2>1. CASE chunks' = chunks
    BY <2>1
  <2>2. ASSUME NEW c \in Chunks, Authorise(c) PROVE Stay
    BY <2>2 DEF Authorise, TypeOK
  <2>3. ASSUME NEW c \in Chunks, ReceiveCommit(c) PROVE Stay
    BY <2>3 DEF ReceiveCommit, Uploads, TypeOK
  <2>4. CASE DeleteEnd
    BY <2>4 DEF DeleteEnd
  <2> QED
    BY <2>1, <2>2, <2>3, <2>4, ChunkSteps
<1>2. Spec => [][Stay]_vars
  BY TypeCorrect, UploadsAlways, <1>1, PTL DEF Spec
<1> QED
  BY <1>2 DEF DeletedChunksStayDeleted

\* All that writes received_bytes, or deleted_at.
LEMMA CountSteps ==
  ASSUME TypeOK, [Next]_vars
  PROVE  \/ rec'.received = rec.received /\ rec'.deleted = rec.deleted
         \/ \E c \in Chunks : ReceiveCommit(c)
         \/ DeleteEnd
<1>1. ASSUME \/ Create \/ AssembleNothing \/ AssembleEnd
             \/ \E n \in 0 .. ChunkCount : Finalise(n)
             \/ \E i \in Incidents : Flag(i) \/ ResolveDeleted(i) \/ ReleaseCommit(i)
      PROVE  rec'.received = rec.received /\ rec'.deleted = rec.deleted
  <2> USE DEF Row
  <2>1. rec \in Row
    BY DEF TypeOK
  <2>2. CASE Create \/ AssembleEnd
    BY <2>1, <2>2 DEF Create, AssembleEnd
  <2>3. CASE AssembleNothing
    BY <2>1, <2>3 DEF AssembleNothing
  <2>4. ASSUME NEW n \in 0 .. ChunkCount, Finalise(n)
        PROVE  rec'.received = rec.received /\ rec'.deleted = rec.deleted
    BY <2>1, <2>4 DEF Finalise
  <2>5. ASSUME NEW i \in Incidents, Flag(i) \/ ResolveDeleted(i) \/ ReleaseCommit(i)
        PROVE  rec'.received = rec.received /\ rec'.deleted = rec.deleted
    BY <2>1, <2>5 DEF Flag, ResolveDeleted, ReleaseCommit
  <2> QED
    BY <1>1, <2>2, <2>3, <2>4, <2>5
<1>2. ASSUME \/ UNCHANGED vars
             \/ Expire \/ EnqueueExpired \/ AssembleStart \/ AssembleAppend
             \/ DeleteNothing \/ DeleteStart \/ DeleteMedia \/ WorkerFails
             \/ \E c \in Chunks : \/ Authorise(c) \/ Receive(c) \/ ReceiveRollback(c)
                                    \/ DeleteObject(c) \/ DeleteRow(c)
             \/ \E i \in Incidents : \/ ReleaseAmongOthers(i) \/ ReleaseStart(i)
                                      \/ ReleaseRead(i) \/ ReleaseRollback(i)
      PROVE  rec' = rec
  BY <1>2 DEF vars, rows, Expire, EnqueueExpired, AssembleStart, AssembleAppend, DeleteNothing,
     DeleteStart, DeleteMedia, WorkerFails, Authorise, Receive, ReceiveRollback, DeleteObject,
     DeleteRow, ReleaseAmongOthers, ReleaseStart, ReleaseRead, ReleaseRollback
<1> QED
  BY <1>1, <1>2 DEF Next, Assemble, Delete

LEMMA StepCounted == TypeOK /\ Uploads /\ ReceivedIsCounted /\ [Next]_vars => ReceivedIsCounted'
<1> SUFFICES ASSUME TypeOK, Uploads, ReceivedIsCounted, [Next]_vars
             PROVE  ReceivedIsCounted'
  OBVIOUS
<1>1. CASE DeleteEnd
  <2>1. rec'.deleted
    BY <1>1 DEF DeleteEnd, TypeOK, Row
  <2> QED
    BY <2>1 DEF ReceivedIsCounted
<1>2. ASSUME NEW c \in Chunks, ReceiveCommit(c) PROVE ReceivedIsCounted'
  <2>1. c \notin Verified /\ Verified' = Verified \cup {c}
    BY <1>2 DEF ReceiveCommit, Uploads, Verified, TypeOK
  <2>2. rec'.received = rec.received + 1 /\ rec'.deleted = rec.deleted
    BY <1>2 DEF ReceiveCommit, TypeOK, Row
  <2>3. IsFiniteSet(Verified) /\ Cardinality(Verified) \in Nat
    BY ChunkFacts DEF Verified
  <2>4. Cardinality(Verified \cup {c}) = Cardinality(Verified) + 1
    BY <2>1, <2>3, FS_AddElement
  <2> QED
    BY <2>1, <2>2, <2>4 DEF ReceivedIsCounted
<1>3. ASSUME rec'.received = rec.received, rec'.deleted = rec.deleted, chunks' = chunks
      PROVE  ReceivedIsCounted'
  BY <1>3 DEF ReceivedIsCounted, Verified
<1>4. ASSUME NEW c \in Chunks, Authorise(c) PROVE ReceivedIsCounted'
  <2>1. Verified' = Verified /\ rec' = rec
    BY <1>4 DEF Authorise, Verified, TypeOK
  <2> QED
    BY <2>1 DEF ReceivedIsCounted
<1> QED
  BY <1>1, <1>2, <1>3, <1>4, ChunkSteps, CountSteps

\* received_bytes counts every chunk once.
THEOREM ReceivedAlwaysCounted == Spec => []ReceivedIsCounted
<1>1. Init => ReceivedIsCounted
  <2>1. Init => Verified = {} /\ rec.received = 0
    BY DEF Init, Verified
  <2> QED
    BY <2>1, FS_EmptySet DEF ReceivedIsCounted
<1>2. TypeOK /\ Uploads /\ ReceivedIsCounted /\ [Next]_vars => ReceivedIsCounted'
  BY StepCounted
<1> QED
  BY TypeCorrect, UploadsAlways, <1>1, <1>2, PTL DEF Spec
-----------------------------------------------------------------------------
(* What is played.                                                         *)

\* A deletion is asked for, or under way, only when it is due; and an incident
\* is released, by whoever has its row, while it is open.
Decisions ==
  /\ jobs.delete # "absent" \/ work.on = "deletion" => Due
  /\ \A i \in Incidents : releasing[i] # "no" => incidents[i] = "open"

\* Once a recording is finalised it is assembled at most once; what was assembled
\* is there until a deletion is due; and only what was assembled is ready, or is
\* about to be made ready by whoever releases an incident.
Assembly ==
  /\ rec.state = "processing" => rec.finalised /\ rec.declared > 0 /\ ~rec.assembled
  /\ rec.assembled => rec.finalised /\ rec.declared > 0
  /\ work = Assembling => rec.state = "processing"
  /\ rec.assembled /\ ~Due => media = Manifest(rec.declared)
  /\ rec.state = "ready" \/ (\E i \in Incidents : releasing[i] = "ready") => rec.assembled \/ rec.deleted

\* All that writes the incidents, the releases and the jobs.
LEMMA DecisionSteps ==
  ASSUME [Next]_vars
  PROVE  \/ UNCHANGED <<incidents, releasing>>
         \/ \E i \in Incidents : \/ Flag(i) \/ ResolveDeleted(i) \/ ReleaseAmongOthers(i)
                                 \/ ReleaseStart(i) \/ ReleaseRead(i) \/ ReleaseCommit(i)
                                 \/ ReleaseRollback(i)
BY DEF vars, rows, Next, Assemble, Delete, Create, Expire, EnqueueExpired, AssembleNothing,
   AssembleStart, AssembleAppend, AssembleEnd, DeleteNothing, DeleteStart, DeleteObject, DeleteRow,
   DeleteMedia, DeleteEnd, WorkerFails, Authorise, Receive, ReceiveCommit, ReceiveRollback, Finalise

LEMMA JobSteps ==
  ASSUME TypeOK, [Next]_vars, jobs'.delete # "absent"
  PROVE  \/ jobs.delete # "absent"
         \/ EnqueueExpired \/ DeleteEnd
         \/ \E i \in Incidents : ResolveDeleted(i)
<1>2. ASSUME \/ UNCHANGED vars \/ Create \/ Expire \/ AssembleStart \/ AssembleAppend
             \/ DeleteStart \/ DeleteMedia \/ WorkerFails
             \/ \E c \in Chunks : \/ Authorise(c) \/ Receive(c) \/ ReceiveCommit(c) \/ ReceiveRollback(c)
                                  \/ DeleteObject(c) \/ DeleteRow(c)
             \/ \E i \in Incidents : \/ Flag(i) \/ ReleaseAmongOthers(i) \/ ReleaseStart(i)
                                     \/ ReleaseRead(i) \/ ReleaseCommit(i) \/ ReleaseRollback(i)
      PROVE  jobs'.delete = jobs.delete
  BY <1>2 DEF vars, rows, Create, Expire, AssembleStart, AssembleAppend, DeleteStart, DeleteMedia,
     WorkerFails, Authorise, Receive, ReceiveCommit, ReceiveRollback, DeleteObject, DeleteRow, Flag,
     ReleaseAmongOthers, ReleaseStart, ReleaseRead, ReleaseCommit, ReleaseRollback
<1>3. ASSUME DeleteNothing PROVE jobs.delete # "absent"
  BY <1>3 DEF DeleteNothing
<1>4. ASSUME AssembleNothing \/ AssembleEnd \/ \E n \in 0 .. ChunkCount : Finalise(n)
      PROVE  jobs'.delete = jobs.delete
  BY <1>4 DEF AssembleNothing, AssembleEnd, Finalise, Reported, Enqueued, TypeOK
<1>5. \/ jobs'.delete = jobs.delete \/ jobs.delete # "absent"
      \/ EnqueueExpired \/ DeleteEnd
      \/ \E i \in Incidents : ResolveDeleted(i)
  BY <1>2, <1>3, <1>4 DEF Next, Assemble, Delete
<1> QED
  BY <1>5

\* What is due stays due.
LEMMA DueStays ==
  ASSUME TypeOK, Decisions, [Next]_vars, Due
  PROVE  Due'
<1>1. expired => expired'
  BY DEF vars, rows, Next, Assemble, Delete, Create, Expire, EnqueueExpired, AssembleNothing,
     AssembleStart, AssembleAppend, AssembleEnd, DeleteNothing, DeleteStart, DeleteObject, DeleteRow,
     DeleteMedia, DeleteEnd, WorkerFails, Authorise, Receive, ReceiveCommit, ReceiveRollback,
     Finalise, Flag, ResolveDeleted, ReleaseAmongOthers, ReleaseStart, ReleaseRead, ReleaseCommit,
     ReleaseRollback
<1>2. ASSUME NEW k \in Incidents, incidents[k] = "deleted" PROVE incidents'[k] = "deleted"
  <2>1. CASE UNCHANGED incidents
    BY <1>2, <2>1
  <2>2. ASSUME NEW i \in Incidents,
               Flag(i) \/ ResolveDeleted(i) \/ ReleaseAmongOthers(i) \/ ReleaseCommit(i)
        PROVE  incidents'[k] = "deleted"
    <3>1. i # k
      BY <1>2, <2>2 DEF Flag, ResolveDeleted, ReleaseAmongOthers, ReleaseCommit, Resolvable,
         Decisions, UploadStates
    <3> QED
      BY <1>2, <2>2, <3>1 DEF Flag, ResolveDeleted, ReleaseAmongOthers, ReleaseCommit, TypeOK
  <2>3. ASSUME NEW i \in Incidents, ReleaseStart(i) \/ ReleaseRead(i) \/ ReleaseRollback(i)
        PROVE  UNCHANGED incidents
    BY <2>3 DEF ReleaseStart, ReleaseRead, ReleaseRollback, rows
  <2> QED
    BY <2>1, <2>2, <2>3, DecisionSteps
<1> QED
  BY <1>1, <1>2 DEF Due

LEMMA StepDecisions == TypeOK /\ Decisions /\ [Next]_vars => Decisions'
<1> SUFFICES ASSUME TypeOK, Decisions, [Next]_vars
             PROVE  Decisions'
  OBVIOUS
<1>1. ASSUME jobs'.delete # "absent" PROVE Due'
  <2>1. CASE jobs.delete # "absent"
    BY <2>1, DueStays DEF Decisions
  <2>2. CASE EnqueueExpired
    BY <2>2 DEF EnqueueExpired, Due
  <2>3. ASSUME NEW i \in Incidents, ResolveDeleted(i) PROVE Due'
    BY <2>3 DEF ResolveDeleted, Due, TypeOK
  <2>4. CASE DeleteEnd
    BY <2>4, DueStays DEF DeleteEnd, Decisions
  <2> QED
    BY <1>1, <2>1, <2>2, <2>3, <2>4, JobSteps
<1>2. ASSUME work'.on = "deletion" PROVE Due'
  <2>1. work.on = "deletion" \/ DeleteStart
    <3>1. ASSUME \/ UNCHANGED vars
                 \/ Create \/ Expire \/ EnqueueExpired \/ AssembleNothing \/ AssembleAppend
                 \/ DeleteNothing \/ DeleteMedia
                 \/ \E n \in 0 .. ChunkCount : Finalise(n)
                 \/ \E c \in Chunks : Authorise(c) \/ Receive(c) \/ ReceiveCommit(c) \/ ReceiveRollback(c)
                 \/ \E i \in Incidents : \/ Flag(i) \/ ResolveDeleted(i) \/ ReleaseAmongOthers(i)
                                         \/ ReleaseStart(i) \/ ReleaseRead(i) \/ ReleaseCommit(i)
                                         \/ ReleaseRollback(i)
          PROVE  work' = work
      BY <3>1 DEF vars, rows, Create, Expire, EnqueueExpired, AssembleNothing, AssembleAppend,
         DeleteNothing, DeleteMedia, Finalise, Authorise, Receive, ReceiveCommit, ReceiveRollback,
         Flag, ResolveDeleted, ReleaseAmongOthers, ReleaseStart, ReleaseRead, ReleaseCommit,
         ReleaseRollback
    <3>2. ASSUME AssembleStart \/ AssembleEnd \/ DeleteEnd \/ WorkerFails
          PROVE  work'.on # "deletion"
      BY <3>2, WorkFacts DEF AssembleStart, AssembleEnd, DeleteEnd, WorkerFails
    <3>3. ASSUME NEW c \in Chunks, DeleteObject(c) \/ DeleteRow(c)
          PROVE  work.on = "deletion"
      BY <3>3 DEF DeleteObject, DeleteRow
    <3> QED
      BY <1>2, <3>1, <3>2, <3>3 DEF Next, Assemble, Delete
  <2>2. Due
    BY <2>1 DEF Decisions, DeleteStart
  <2> QED
    BY <2>2, DueStays
<1>3. ASSUME NEW k \in Incidents, releasing'[k] # "no" PROVE incidents'[k] = "open"
  <2>1. CASE UNCHANGED <<incidents, releasing>>
    BY <1>3, <2>1 DEF Decisions
  <2>2. ASSUME NEW i \in Incidents,
               Flag(i) \/ ResolveDeleted(i) \/ ReleaseAmongOthers(i)
        PROVE  incidents'[k] = "open"
    <3>1. releasing[i] = "no" /\ releasing' = releasing
      <4>1. CASE Flag(i)
        BY <4>1 DEF Flag, Decisions
      <4>2. CASE ResolveDeleted(i) \/ ReleaseAmongOthers(i)
        BY <4>2 DEF ResolveDeleted, ReleaseAmongOthers, Resolvable
      <4> QED
        BY <2>2, <4>1, <4>2
    <3>2. k # i /\ incidents[k] = "open"
      BY <1>3, <3>1 DEF Decisions
    <3> QED
      BY <2>2, <3>2 DEF Flag, ResolveDeleted, ReleaseAmongOthers, TypeOK
  <2>3. ASSUME NEW i \in Incidents,
               \/ ReleaseStart(i) \/ ReleaseRead(i) \/ ReleaseCommit(i) \/ ReleaseRollback(i)
        PROVE  incidents'[k] = "open"
    <3>1. CASE k = i
      BY <1>3, <2>3, <3>1
      DEF ReleaseStart, ReleaseRead, ReleaseCommit, ReleaseRollback, Resolvable, Decisions, TypeOK, rows
    <3>2. CASE k # i
      BY <1>3, <2>3, <3>2
      DEF ReleaseStart, ReleaseRead, ReleaseCommit, ReleaseRollback, Decisions, TypeOK, rows
    <3> QED
      BY <3>1, <3>2
  <2> QED
    BY <2>1, <2>2, <2>3, DecisionSteps
<1> QED
  BY <1>1, <1>2, <1>3 DEF Decisions
\* All that writes the recordings row, the assembled object, or the worker's
\* holding of the row for an assembly.
LEMMA AssemblySteps ==
  ASSUME [Next]_vars
  PROVE  \/ /\ rec' = rec /\ media' = media
            /\ work' = Assembling => work = Assembling
         \/ Create \/ Assemble \/ DeleteMedia \/ DeleteEnd
         \/ \E n \in 0 .. ChunkCount : Finalise(n)
         \/ \E c \in Chunks : ReceiveCommit(c) \/ DeleteObject(c) \/ DeleteRow(c)
         \/ \E i \in Incidents : Flag(i) \/ ResolveDeleted(i) \/ ReleaseCommit(i)
<1>1. Assembling # Idle /\ Assembling.on # "deletion"
  BY WorkFacts
<1>2. DeleteStart => work' # Assembling
  BY <1>1 DEF DeleteStart, Deleting
<1>3. WorkerFails => work' # Assembling
  BY <1>1 DEF WorkerFails
<1> QED
  BY <1>2, <1>3
  DEF vars, rows, objects, Next, Delete, Expire, EnqueueExpired, DeleteNothing, DeleteStart,
      WorkerFails, Authorise, Receive, ReceiveRollback, ReleaseAmongOthers, ReleaseStart,
      ReleaseRead, ReleaseRollback

\* Nobody is about to make ready what was not.
LEMMA ReleasesRead ==
  ASSUME TypeOK, [Next]_vars, NEW i \in Incidents, releasing'[i] = "ready", releasing[i] # "ready"
  PROVE  rec.assembled /\ rec' = rec
<1>1. \E k \in Incidents : ReleaseStart(k) \/ ReleaseRead(k) \/ ReleaseCommit(k) \/ ReleaseRollback(k)
  BY DecisionSteps DEF Flag, ResolveDeleted, ReleaseAmongOthers
<1>2. PICK k \in Incidents : ReleaseRead(k)
  BY <1>1 DEF ReleaseStart, ReleaseCommit, ReleaseRollback, TypeOK
<1> QED
  BY <1>2 DEF ReleaseRead, TypeOK, rows
\* It is kept while the row, the object and the assembly stay as they are, ...
LEMMA AssemblyStays ==
  ASSUME TypeOK, Decisions, Assembly, [Next]_vars,
         rec' = rec, media' = media, work' = Assembling => work = Assembling
  PROVE  Assembly'
<1>1. Due => Due'
  BY DueStays
<1>2. ASSUME NEW i \in Incidents, releasing'[i] = "ready" PROVE rec.assembled \/ rec.deleted
  BY <1>2, ReleasesRead DEF Assembly
<1> QED
  BY <1>1, <1>2 DEF Assembly

\* ... and when a row that is written keeps what it says of the assembly.
LEMMA AssemblyWritten ==
  ASSUME TypeOK, Decisions, Assembly, [Next]_vars,
         rec'.assembled = rec.assembled, rec'.deleted = rec.deleted,
         rec'.finalised = rec.finalised, rec'.declared = rec.declared,
         rec'.state = "processing" => rec.state = "processing",
         rec'.state = "ready" => rec.state = "ready" \/ \E i \in Incidents : releasing[i] = "ready",
         work' # Assembling, media' = media
  PROVE  Assembly'
<1>1. Due => Due'
  BY DueStays
<1>2. ASSUME NEW i \in Incidents, releasing'[i] = "ready" PROVE rec.assembled \/ rec.deleted
  BY <1>2, ReleasesRead DEF Assembly
<1> QED
  BY <1>1, <1>2 DEF Assembly

LEMMA StepAssembly == TypeOK /\ Decisions /\ Assembly /\ [Next]_vars => Assembly'
<1> SUFFICES ASSUME TypeOK, Decisions, Assembly, [Next]_vars
             PROVE  Assembly'
  OBVIOUS
<1>0. /\ rec \in Row
      /\ Idle # Assembling /\ (work = Assembling => work.on # "deletion")
  BY WorkFacts DEF TypeOK
<1>1. CASE Create
  <2>1. /\ rec.state = "absent" /\ work' = work /\ media' = media
        /\ rec' = [rec EXCEPT !.state = "uploading"]
    BY <1>1 DEF Create, Created, objects
  <2>2. /\ rec'.assembled = rec.assembled /\ rec'.deleted = rec.deleted
        /\ rec'.finalised = rec.finalised /\ rec'.declared = rec.declared
        /\ rec'.state = "uploading"
    BY <1>0, <2>1 DEF Row
  <2>3. work' # Assembling
    BY <2>1 DEF Assembly
  <2> QED
    BY <2>1, <2>2, <2>3, AssemblyWritten
<1>2. CASE AssembleNothing
  <2>1. work' # Assembling /\ media' = media
    BY <1>0, <1>2 DEF AssembleNothing, Free, objects
  <2>2. /\ rec'.assembled = rec.assembled /\ rec'.deleted = rec.deleted
        /\ rec'.finalised = rec.finalised /\ rec'.declared = rec.declared
        /\ rec'.state \in {rec.state, "partial", "failed"}
    BY <1>0, <1>2 DEF AssembleNothing, Row, rows
  <2> QED
    BY <2>1, <2>2, AssemblyWritten
<1>3. CASE AssembleStart
  <2>1. /\ rec' = rec /\ rec.state = "processing" /\ releasing' = releasing
    BY <1>3 DEF AssembleStart, rows
  <2> QED
    BY <2>1 DEF Assembly
<1>4. CASE AssembleAppend
  <2>1. /\ rec' = rec /\ rec.state = "processing" /\ releasing' = releasing
    BY <1>4 DEF AssembleAppend, rows, Assembly
  <2> QED
    BY <2>1 DEF Assembly
<1>5. CASE AssembleEnd
  <2>1. /\ rec.state = "processing" /\ rec.finalised /\ rec.declared > 0 /\ ~rec.assembled
        /\ media' = media /\ media = Manifest(rec.declared) /\ work' = Idle /\ releasing' = releasing
    BY <1>5 DEF AssembleEnd, objects, Assembly
  <2>2. CASE rec' = [rec EXCEPT !.state = "ready", !.assembled = TRUE]
    <3>1. /\ rec'.state = "ready" /\ rec'.assembled
          /\ rec'.finalised = rec.finalised /\ rec'.declared = rec.declared
      BY <1>0, <2>2 DEF Row
    <3> QED
      BY <1>0, <2>1, <3>1 DEF Assembly
  <2>3. CASE rec' = [rec EXCEPT !.state = "failed"]
    <3>1. /\ rec'.state = "failed" /\ rec'.assembled = rec.assembled /\ rec'.deleted = rec.deleted
          /\ rec'.finalised = rec.finalised /\ rec'.declared = rec.declared
      BY <1>0, <2>3 DEF Row
    <3> QED
      BY <1>0, <2>1, <3>1, AssemblyWritten
  <2> QED
    BY <1>5, <2>2, <2>3 DEF AssembleEnd
<1>6. CASE DeleteMedia
  <2>1. Due' /\ rec' = rec /\ work' = work /\ releasing' = releasing
    BY <1>6, DueStays DEF DeleteMedia, Decisions, rows
  <2> QED
    BY <2>1 DEF Assembly
<1>7. CASE DeleteEnd
  <2>1. /\ work' = Idle /\ media' = media /\ releasing' = releasing
        /\ rec' = [rec EXCEPT !.state = "deleted", !.deleted = TRUE, !.assembled = FALSE]
    BY <1>7 DEF DeleteEnd, objects
  <2>2. rec'.state = "deleted" /\ rec'.deleted /\ ~rec'.assembled
    BY <1>0, <2>1 DEF Row
  <2> QED
    BY <1>0, <2>1, <2>2 DEF Assembly
<1>8. ASSUME NEW n \in 0 .. ChunkCount, Finalise(n) PROVE Assembly'
  <2>1. /\ ~rec.finalised /\ work' = Idle /\ media' = media /\ releasing' = releasing
        /\ rec' = [rec EXCEPT !.finalised = TRUE, !.declared = n, !.state = Outcome(n)]
    BY <1>8 DEF Finalise, Free, objects
  <2>2. /\ rec'.finalised /\ rec'.declared = n /\ rec'.state = Outcome(n)
        /\ rec'.assembled = rec.assembled /\ rec'.deleted = rec.deleted
    BY <1>0, <2>1 DEF Row
  <2>3. ~rec.assembled
    BY <2>1 DEF Assembly
  <2>4. Outcome(n) # "ready" /\ (Outcome(n) = "processing" => n > 0)
    BY DEF Outcome
  <2> QED
    BY <1>0, <2>1, <2>2, <2>3, <2>4 DEF Assembly
<1>9. ASSUME NEW c \in Chunks, ReceiveCommit(c) PROVE Assembly'
  <2>1. /\ work' # Assembling /\ media' = media
        /\ rec' = [rec EXCEPT !.received = @ + 1]
    BY <1>0, <1>9 DEF ReceiveCommit, Free, objects
  <2>2. /\ rec'.assembled = rec.assembled /\ rec'.deleted = rec.deleted
        /\ rec'.finalised = rec.finalised /\ rec'.declared = rec.declared
        /\ rec'.state = rec.state
    BY <1>0, <2>1 DEF Row
  <2> QED
    BY <2>1, <2>2, AssemblyWritten
<1>10. ASSUME NEW c \in Chunks, DeleteObject(c) \/ DeleteRow(c) PROVE Assembly'
  <2>1. work'.on = "deletion" /\ rec' = rec /\ media' = media
    BY <1>10, DeletionSteps DEF DeleteObject, DeleteRow, rows, objects
  <2>2. work' # Assembling
    BY <2>1, WorkFacts
  <2> QED
    BY <2>1, <2>2, AssemblyStays
<1>11. ASSUME NEW i \in Incidents, Flag(i) \/ ResolveDeleted(i) \/ ReleaseCommit(i) PROVE Assembly'
  <2>1. work' # Assembling /\ media' = media
    BY <1>0, <1>11 DEF Flag, ResolveDeleted, ReleaseCommit, Free, objects
  <2>2. /\ rec'.assembled = rec.assembled /\ rec'.deleted = rec.deleted
        /\ rec'.finalised = rec.finalised /\ rec'.declared = rec.declared
    BY <1>0, <1>11 DEF Flag, ResolveDeleted, ReleaseCommit, Row
  <2>3. /\ rec'.state = "processing" => rec.state = "processing"
        /\ rec'.state = "ready" => rec.state = "ready" \/ releasing[i] = "ready"
    <3>1. CASE Flag(i)
      BY <1>0, <3>1 DEF Flag, Row
    <3>2. CASE ResolveDeleted(i)
      BY <1>0, <3>2 DEF ResolveDeleted, Row
    <3>3. CASE ReleaseCommit(i)
      <4>1. rec'.state = releasing[i] /\ releasing[i] # "processing"
        BY <1>0, <3>3 DEF ReleaseCommit, Row, TypeOK
      <4> QED
        BY <4>1
    <3> QED
      BY <1>11, <3>1, <3>2, <3>3
  <2> QED
    BY <2>1, <2>2, <2>3, AssemblyWritten
<1> QED
  BY <1>1, <1>2, <1>3, <1>4, <1>5, <1>6, <1>7, <1>8, <1>9, <1>10, <1>11, AssemblySteps, AssemblyStays
  DEF Assemble

LEMMA AssemblyAlways == Spec => [](Decisions /\ Assembly)
<1>1. Init => Decisions /\ Assembly
  BY WorkFacts DEF Init, Decisions, Assembly, Idle
<1>2. TypeOK /\ Decisions /\ Assembly /\ [Next]_vars => (Decisions /\ Assembly)'
  BY StepDecisions, StepAssembly
<1> QED
  BY TypeCorrect, <1>1, <1>2, PTL DEF Spec

\* What the media route plays is whole unless an incident condemned it: nothing
\* but a finished assembly is ever ready, and no deletion begins before it is due.
THEOREM PlayedIsAlwaysWhole == Spec => []PlayedIsWhole
<1>1. Decisions /\ Assembly => PlayedIsWhole
  BY DEF Assembly, PlayedIsWhole, Served, Due
<1> QED
  BY AssemblyAlways, <1>1, PTL
=============================================================================
