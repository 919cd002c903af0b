----------------------------- MODULE Recording -----------------------------
(***************************************************************************)
(* One screen recording, from the first chunk to its deletion              *)
(* (src/server/services/recording.ts): its row, the rows of its chunks,    *)
(* its privacy incidents, its two jobs, and the objects in storage.        *)
(*                                                                         *)
(* Storage is outside the transaction.  An object that is put or deleted   *)
(* stays so when the transaction that did it rolls back, and is seen by    *)
(* everybody before it commits.  So the handlers that touch storage take   *)
(* several steps, between which they hold their row locks; the others are  *)
(* one step once they have theirs.                                         *)
(***************************************************************************)
EXTENDS Integers, FiniteSets, Sequences

CONSTANTS
  ChunkCount,  \* bound: the recorder cuts at most this many chunks
  Incidents,   \* identities of privacy_incidents rows about this recording
  MaxFailures  \* bound: runs of the worker's handlers that fail, fewer than max_attempts

ASSUME RecordingAssumption == ChunkCount \in Nat \ {0} /\ MaxFailures \in Nat

VARIABLES
  rec,       \* the recordings row
  expired,   \* expires_at <= now
  chunks,    \* recording_chunks: the state of each sequence number
  incidents, \* privacy_incidents: the disposition of each
  jobs,      \* the jobs under this recording's two deduplication keys
  parts,     \* storage: the chunks whose object is there
  media,     \* storage: what has been written of the assembled object
  receiving, \* the chunks whose upload has put its object and not yet committed
  releasing, \* how far the release of each incident is
  work,      \* the transaction of the worker that holds the recordings row
  failures   \* how many runs of the worker failed, up to MaxFailures

rows    == <<rec, chunks, incidents, jobs>>
objects == <<parts, media>>
vars    == <<rec, expired, chunks, incidents, jobs, parts, media, receiving, releasing, work, failures>>
-----------------------------------------------------------------------------
Chunks == 0 .. ChunkCount - 1

UploadStates == {"uploading", "processing", "ready", "partial", "failed", "restricted", "deleting", "deleted"}
Row == [state : UploadStates \cup {"absent"}, declared : 0 .. ChunkCount, received : Nat,
        finalised : BOOLEAN, assembled : BOOLEAN, restricted : BOOLEAN, deleted : BOOLEAN]

\* The worker holds the row for nobody, for an assembly, or for a deletion that
\* has objects left to delete, one deleted whose row comes next, and rows done.
Idle == [on |-> "nothing"]
Assembling == [on |-> "assembly"]
Deleting(left, next, done) == [on |-> "deletion", left |-> left, next |-> next, done |-> done]
Work == {Idle, Assembling}
        \cup {Deleting(l, n, d) : l \in SUBSET Chunks, n \in SUBSET Chunks, d \in SUBSET Chunks}

NoMedia == <<-1>>                                 \* there is no assembled object
Manifest(n) == [i \in 1 .. n |-> i - 1]           \* the first n chunks, in order
Verified == {c \in Chunks : chunks[c] = "verified"}

\* The recordings row may be locked: no other transaction holds it.
Free == work = Idle
RowDeleted(c) == work.on = "deletion" /\ c \in work.done

Init ==
  /\ rec = [state |-> "absent", declared |-> 0, received |-> 0, finalised |-> FALSE,
            assembled |-> FALSE, restricted |-> FALSE, deleted |-> FALSE]
  /\ expired = FALSE
  /\ chunks = [c \in Chunks |-> "absent"]
  /\ incidents = [i \in Incidents |-> "absent"]
  /\ jobs = [assemble |-> "absent", delete |-> "absent"]
  /\ parts = {} /\ media = NoMedia
  /\ receiving = {}
  /\ releasing = [i \in Incidents |-> "no"]
  /\ work = Idle
  /\ failures = 0

Created == rec.state # "absent"

\* enqueueJob: ON CONFLICT (dedup_key) DO NOTHING.
Enqueued(job) == [jobs EXCEPT ![job] = IF @ = "absent" THEN "pending" ELSE @]

\* A handler that has committed is reported in a transaction of its own; if that
\* does not happen, the job is run again.
Reported(job) == {jobs, [jobs EXCEPT ![job] = "done"]}
-----------------------------------------------------------------------------
(* The recorder *)

Create ==
  /\ ~Created
  /\ rec' = [rec EXCEPT !.state = "uploading"]
  /\ UNCHANGED <<expired, chunks, incidents, jobs, objects, receiving, releasing, work, failures>>

\* authoriseChunk, for a sequence number that has no row yet.
Authorise(c) ==
  /\ Free
  /\ ~rec.finalised /\ rec.state \in {"uploading", "partial"}
  /\ chunks[c] = "absent"
  /\ chunks' = [chunks EXCEPT ![c] = "authorised"]
  /\ UNCHANGED <<rec, expired, incidents, jobs, objects, receiving, releasing, work, failures>>

\* Faulty: the chunk is read without FOR UPDATE, so it does not wait for a
\* deletion that has marked it.
ReceiveUnlocked(c) ==
  /\ chunks[c] = "authorised" /\ c \notin receiving
  /\ parts' = parts \cup {c}
  /\ receiving' = receiving \cup {c}
  /\ UNCHANGED <<rows, expired, media, releasing, work, failures>>

\* Faulty: the early return for a chunk that was received before is gone.
ReceiveAgain(c) ==
  /\ chunks[c] \in {"authorised", "verified"} /\ c \notin receiving /\ ~RowDeleted(c)
  /\ parts' = parts \cup {c}
  /\ receiving' = receiving \cup {c}
  /\ UNCHANGED <<rows, expired, media, releasing, work, failures>>

\* receiveChunk up to storage().put: it locks the chunk's row, not the recording's.
Receive(c) ==
  /\ chunks[c] = "authorised" /\ c \notin receiving /\ ~RowDeleted(c)
  /\ parts' = parts \cup {c}
  /\ receiving' = receiving \cup {c}
  /\ UNCHANGED <<rows, expired, media, releasing, work, failures>>

\* Faulty: the chunk is left as received, to be verified by nobody.
ReceiveUnverified(c) ==
  /\ c \in receiving /\ Free
  /\ chunks' = [chunks EXCEPT ![c] = "received"]
  /\ rec' = [rec EXCEPT !.received = @ + 1]
  /\ receiving' = receiving \ {c}
  /\ UNCHANGED <<expired, incidents, jobs, objects, releasing, work, failures>>

\* The rest of it: the UPDATE of recordings waits for the row.
ReceiveCommit(c) ==
  /\ c \in receiving /\ Free
  /\ chunks' = [chunks EXCEPT ![c] = "verified"]
  /\ rec' = [rec EXCEPT !.received = @ + 1]
  /\ receiving' = receiving \ {c}
  /\ UNCHANGED <<expired, incidents, jobs, objects, releasing, work, failures>>

\* It is rolled back: the connection drops, or PostgreSQL ends a deadlock with
\* a deletion that waits for the chunk's row.
ReceiveRollback(c) ==
  /\ c \in receiving
  /\ receiving' = receiving \ {c}
  /\ UNCHANGED <<rows, expired, objects, releasing, work, failures>>

\* finaliseRecording.  It does not look at upload_state.
Outcome(n) == CASE n = 0 -> "failed"
                [] n > 0 /\ Verified = 0 .. n - 1 -> "processing"
                [] OTHER -> "partial"

Finalise(n) ==
  /\ Created /\ Free /\ ~rec.finalised
  /\ rec' = [rec EXCEPT !.finalised = TRUE, !.declared = n, !.state = Outcome(n)]
  /\ jobs' = IF Outcome(n) = "processing" THEN Enqueued("assemble") ELSE jobs
  /\ UNCHANGED <<expired, chunks, incidents, objects, receiving, releasing, work, failures>>
-----------------------------------------------------------------------------
(* Retention *)

Expire ==
  /\ Created /\ ~expired
  /\ expired' = TRUE
  /\ UNCHANGED <<rows, objects, receiving, releasing, work, failures>>

\* The end of scheduleMaintenance.
EnqueueExpired ==
  /\ expired /\ ~rec.deleted /\ rec.state # "deleted"
  /\ jobs.delete = "absent"
  /\ jobs' = Enqueued("delete")
  /\ UNCHANGED <<rec, expired, chunks, incidents, objects, receiving, releasing, work, failures>>
-----------------------------------------------------------------------------
(* assembleRecording *)

\* The recording is no longer to be assembled, or its manifest has changed.
AssembleNothing ==
  /\ jobs.assemble = "pending" /\ Free
  /\ \/ rec.state # "processing" /\ UNCHANGED rec
     \/ /\ rec.state = "processing" /\ Verified # 0 .. rec.declared - 1
        /\ rec' = [rec EXCEPT !.state = "partial"]
     \/ /\ rec.state = "processing" /\ Verified = 0 .. rec.declared - 1 /\ ~(Verified \subseteq parts)
        /\ rec' = [rec EXCEPT !.state = "failed"]
  /\ jobs' = [jobs EXCEPT !.assemble = "done"]
  /\ UNCHANGED <<expired, chunks, incidents, objects, receiving, releasing, work, failures>>

\* storage().concat opens the object, empties it, and appends chunk after chunk.
AssembleStart ==
  /\ jobs.assemble = "pending" /\ Free
  /\ rec.state = "processing"
  /\ Verified = 0 .. rec.declared - 1 /\ Verified \subseteq parts
  /\ work' = Assembling
  /\ media' = <<>>
  /\ UNCHANGED <<rows, expired, parts, receiving, releasing, failures>>

AssembleAppend ==
  /\ work = Assembling
  /\ Len(media) < rec.declared /\ Len(media) \in parts
  /\ media' = Append(media, Len(media))
  /\ UNCHANGED <<rows, expired, parts, receiving, releasing, work, failures>>

\* The container's header is read back; what it says depends on the bytes.
AssembleEnd ==
  /\ work = Assembling /\ media = Manifest(rec.declared)
  /\ rec' \in {[rec EXCEPT !.state = "ready", !.assembled = TRUE], [rec EXCEPT !.state = "failed"]}
  /\ jobs' \in Reported("assemble")
  /\ work' = Idle
  /\ UNCHANGED <<expired, chunks, incidents, objects, receiving, releasing, failures>>
-----------------------------------------------------------------------------
(* deleteRecording *)

DeleteNothing ==
  /\ jobs.delete = "pending" /\ Free
  /\ rec.deleted
  /\ jobs' = [jobs EXCEPT !.delete = "done"]
  /\ UNCHANGED <<rec, expired, chunks, incidents, objects, receiving, releasing, work, failures>>

\* Faulty: 'deleting' is taken for a deletion that another worker is doing.
DeleteStartOnce ==
  /\ jobs.delete = "pending" /\ Free
  /\ ~rec.deleted /\ rec.state # "deleting"
  /\ work' = Deleting({c \in Chunks : chunks[c] \in {"authorised", "verified"}}, {}, {})
  /\ UNCHANGED <<rows, expired, objects, receiving, releasing, failures>>

\* It lists the chunks without locking them.
DeleteStart ==
  /\ jobs.delete = "pending" /\ Free
  /\ ~rec.deleted
  /\ work' = Deleting({c \in Chunks : chunks[c] \in {"authorised", "verified"}}, {}, {})
  /\ UNCHANGED <<rows, expired, objects, receiving, releasing, failures>>

DeleteObject(c) ==
  /\ work.on = "deletion" /\ work.next = {} /\ c \in work.left
  /\ parts' = parts \ {c}
  /\ work' = [work EXCEPT !.left = @ \ {c}, !.next = {c}]
  /\ UNCHANGED <<rows, expired, media, receiving, releasing, failures>>

\* The chunk's UPDATE waits for an upload that holds its row.
DeleteRow(c) ==
  /\ work.on = "deletion" /\ c \in work.next /\ c \notin receiving
  /\ work' = [work EXCEPT !.next = {}, !.done = @ \cup {c}]
  /\ UNCHANGED <<rows, expired, objects, receiving, releasing, failures>>

\* The assembled object, if the row names one.
DeleteMedia ==
  /\ work.on = "deletion" /\ work.next = {} /\ work.left = {}
  /\ rec.assembled /\ media # NoMedia
  /\ media' = NoMedia
  /\ UNCHANGED <<rows, expired, parts, receiving, releasing, work, failures>>

\* The tombstone and the row.
DeleteEnd ==
  /\ work.on = "deletion" /\ work.next = {} /\ work.left = {}
  /\ ~(rec.assembled /\ media # NoMedia)
  /\ chunks' = [c \in Chunks |-> IF c \in work.done THEN "deleted" ELSE chunks[c]]
  /\ rec' = [rec EXCEPT !.state = "deleted", !.deleted = TRUE, !.assembled = FALSE]
  /\ jobs' \in Reported("delete")
  /\ work' = Idle
  /\ UNCHANGED <<expired, incidents, objects, receiving, releasing, failures>>

\* The worker is killed, loses the database or is a deadlock's victim: its
\* transaction rolls back, storage does not, and the job is run again.
WorkerFails ==
  /\ ~Free
  /\ failures < MaxFailures
  /\ failures' = failures + 1
  /\ work' = Idle
  /\ UNCHANGED <<rows, expired, objects, receiving, releasing>>
-----------------------------------------------------------------------------
(* Privacy incidents *)

Flag(i) ==
  /\ Created /\ Free
  /\ incidents[i] = "absent"
  /\ incidents' = [incidents EXCEPT ![i] = "open"]
  /\ rec' = [rec EXCEPT !.restricted = TRUE,
                        !.state = IF @ \in {"ready", "partial", "processing", "uploading"}
                                  THEN "restricted" ELSE @]
  /\ UNCHANGED <<expired, chunks, jobs, objects, receiving, releasing, work, failures>>

Resolvable(i) == incidents[i] = "open" /\ releasing[i] = "no"

\* resolveIncident with the disposition deleted.
ResolveDeleted(i) ==
  /\ Resolvable(i) /\ Free
  /\ incidents' = [incidents EXCEPT ![i] = "deleted"]
  /\ rec' = [rec EXCEPT !.state = "deleting"]
  /\ jobs' = Enqueued("delete")
  /\ UNCHANGED <<expired, chunks, objects, receiving, releasing, work, failures>>

\* With the disposition released: the incident's row is locked, the recording's
\* is not.  If another incident is open, nothing more happens.
ReleaseAmongOthers(i) ==
  /\ Resolvable(i)
  /\ \E k \in Incidents \ {i} : incidents[k] = "open"
  /\ incidents' = [incidents EXCEPT ![i] = "released"]
  /\ UNCHANGED <<rec, expired, chunks, jobs, objects, receiving, releasing, work, failures>>

ReleaseStart(i) ==
  /\ Resolvable(i)
  /\ \A k \in Incidents \ {i} : incidents[k] # "open"
  /\ releasing' = [releasing EXCEPT ![i] = "alone"]
  /\ UNCHANGED <<rows, expired, objects, receiving, work, failures>>

\* It reads what the recording's state is to be,
ReleaseRead(i) ==
  /\ releasing[i] = "alone"
  /\ releasing' = [releasing EXCEPT ![i] = IF rec.assembled THEN "ready"
                                           ELSE IF rec.finalised THEN "partial" ELSE "uploading"]
  /\ UNCHANGED <<rows, expired, objects, receiving, work, failures>>

\* and writes it when it gets the row.
ReleaseCommit(i) ==
  /\ releasing[i] \in UploadStates /\ Free
  /\ rec' = [rec EXCEPT !.restricted = FALSE, !.state = releasing[i]]
  /\ incidents' = [incidents EXCEPT ![i] = "released"]
  /\ releasing' = [releasing EXCEPT ![i] = "no"]
  /\ UNCHANGED <<expired, chunks, jobs, objects, receiving, work, failures>>

ReleaseRollback(i) ==
  /\ releasing[i] # "no"
  /\ releasing' = [releasing EXCEPT ![i] = "no"]
  /\ UNCHANGED <<rows, expired, objects, receiving, work, failures>>
-----------------------------------------------------------------------------
Assemble == AssembleNothing \/ AssembleStart \/ AssembleAppend \/ AssembleEnd
Delete   == DeleteNothing \/ DeleteStart \/ (\E c \in Chunks : DeleteObject(c))
            \/ DeleteMedia \/ DeleteEnd

Next ==
  \/ Create \/ Expire \/ EnqueueExpired
  \/ Assemble \/ Delete \/ WorkerFails
  \/ \E n \in 0 .. ChunkCount : Finalise(n)
  \/ \E c \in Chunks : \/ Authorise(c) \/ Receive(c) \/ ReceiveCommit(c) \/ ReceiveRollback(c)
                       \/ DeleteRow(c)
  \/ \E i \in Incidents : \/ Flag(i) \/ ResolveDeleted(i) \/ ReleaseAmongOthers(i)
                          \/ ReleaseStart(i) \/ ReleaseRead(i) \/ ReleaseCommit(i)
                          \/ ReleaseRollback(i)

Spec == Init /\ [][Next]_vars

\* The worker goes on, and a transaction that has begun ends.  The row of a
\* chunk that the deletion waits for goes to the deletion before it goes to the
\* uploads that ask for it later, which is why that step is strongly fair.
Fairness ==
  /\ WF_vars(EnqueueExpired) /\ WF_vars(Assemble) /\ WF_vars(Delete)
  /\ \A c \in Chunks : /\ SF_vars(DeleteRow(c))
                       /\ WF_vars(ReceiveCommit(c) \/ ReceiveRollback(c))

FairSpec == Spec /\ Fairness
-----------------------------------------------------------------------------
TypeOK ==
  /\ rec \in Row
  /\ expired \in BOOLEAN
  /\ chunks \in [Chunks -> {"absent", "authorised", "verified", "deleted"}]
  /\ incidents \in [Incidents -> {"absent", "open", "deleted", "released"}]
  /\ jobs \in [{"assemble", "delete"} -> {"absent", "pending", "done"}]
  /\ parts \subseteq Chunks
  /\ media \in {NoMedia} \cup {Manifest(n) : n \in 0 .. ChunkCount}
  /\ receiving \subseteq Chunks
  /\ releasing \in [Incidents -> {"no", "alone", "ready", "partial", "uploading"}]
  /\ work \in Work
  /\ failures \in 0 .. MaxFailures

\* Faulty: the route relies on upload_state, which finalising overwrites.
ServedByState == rec.state = "ready" /\ ~rec.deleted /\ ~expired

\* Faulty: the route leaves expired recordings to the worker.
ServedUntilDeleted == rec.state = "ready" /\ ~rec.deleted /\ ~rec.restricted

\* What the media route streams at this moment.
Served == rec.state = "ready" /\ ~rec.deleted /\ ~rec.restricted /\ ~expired

\* What is played is there, complete and in order, unless its deletion was
\* decided: no gap, no chunk that came between the manifest and the assembly,
\* no half-written object of an assembly that failed, and nothing that a
\* deletion which failed half way had already removed (assembleRecording,
\* finaliseRecording, the media route).
PlayedIsWhole ==
  Served /\ (\A i \in Incidents : incidents[i] # "deleted") =>
    rec.assembled /\ rec.declared > 0 /\ media = Manifest(rec.declared)

\* received_bytes, which the size limit is held against, counts each chunk once,
\* however often it is sent and whatever rolled back (receiveChunk).
ReceivedIsCounted == ~rec.deleted => rec.received = Cardinality(Verified)

\* Footage that is flagged, or is to be deleted, is shown again only after a
\* privacy administrator released an incident: not because it is finalised or
\* assembled while it is restricted (flagRecording, finaliseRecording).
OnlyAReleaseShows ==
  Served /\ (\E i \in Incidents : incidents[i] \in {"open", "deleted"}) =>
    \E i \in Incidents : incidents[i] = "released"

\* An upload under way when the recording is deleted does not bring its chunk's
\* row back (receiveChunk's FOR UPDATE against deleteRecording).
DeletedChunksStayDeleted ==
  [][\A c \in Chunks : chunks[c] = "deleted" => chunks'[c] = "deleted"]_vars

Due == expired \/ \E i \in Incidents : incidents[i] = "deleted"

\* What has expired or is to be deleted is deleted, whatever is uploaded,
\* flagged, finalised or released meanwhile, and whichever runs fail half way.
DueIsDeleted == Due ~> rec.deleted

\* Violated.  "The handler deletes chunks, assembled media and derivatives":
\* of a deleted recording no assembled object is left (deleteRecording).
DeletedLeavesNoMedia == rec.deleted => media = NoMedia

\* Violated.  "This recording is restricted while a privacy incident is open":
\* nobody is shown what an open incident is about (flagRecording, resolveIncident).
FlaggedIsNotShown == (\E i \in Incidents : incidents[i] = "open") => ~Served
=============================================================================
