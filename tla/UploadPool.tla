------------------------------ MODULE UploadPool ------------------------------
(***************************************************************************)
(* The second pass of applyLocalChangesToCandidate: the dirty rows that    *)
(* are no deletions are folded into the candidate state.db one after the   *)
(* other, and those that need bytes stored share one job per content hash. *)
(* A job runs in the stream pool; when the run verifies the remote it      *)
(* starts as a HEAD in the metadata pool, which dispatches the upload      *)
(* itself.  Unit by unit the bytes move as in UploadUnit.                  *)
(***************************************************************************)
EXTENDS UploadUnit, Sequences

CONSTANTS Rows,         \* the dirty rows, in iterateDirty's order
          StreamConc,   \* jobs the stream pool runs at once
          StreamLimit,  \* streamQueueLimit
          HeadConc,     \* the same of the metadata pool
          HeadLimit,
          Prior         \* hashes an earlier run may have stored already

Row == DOMAIN Rows

\* A row decides to: a conflict, a no-op, a directory, or a file with bytes.
RowType == [path : STRING, key : STRING, kind : {"conflict", "noop", "dir", "file"},
            fresh : BOOLEAN, hash : Hashes]

ASSUME PoolAssumption ==
    /\ Rows \in Seq(RowType)
    /\ StreamConc \in Nat \ {0} /\ StreamLimit \in Nat \ {0}
    /\ HeadConc \in Nat \ {0} /\ HeadLimit \in Nat \ {0}
    /\ Prior \subseteq Hashes

VARIABLES verify,   \* verifyRemote: HEAD before uploading
          next,     \* the row the loop takes next
          main,     \* where the loop stands
          job,      \* job[h]: the in-flight job of h and the rows riding on it
          verdict,  \* verdict[r]: handledPaths, conflicts, failed
          claimed,  \* inFlightByNormalizedPath: rows that own their folded path
          objects,  \* hashes in the candidate's objects table
          errors    \* the two pools' error boxes

poolVars == <<verify, next, main, job, verdict, claimed, objects, errors>>
vars == <<mode, unit, bucket, mirrored, poolVars>>

Stages == {"none", "headRoom", "headQueued", "heading", "answered",
           "streamRoom", "queued", "running", "dead"}

NoJob == [stage |-> "none", rows |-> {}, sinks |-> {}]

Errors == {"none", "HeadFailed", "S3UploadFatal", "MirrorRequired"}

In(stages) == {h \in Hashes : job[h].stage \in stages}

\* The process keeps running what is in flight after the call has thrown, but
\* candidate.db is closed by then.
CandidateOpen == main \notin {"returned", "threw"}

Init ==
    /\ mode \in Modes /\ verify \in BOOLEAN
    /\ unit = [h \in Hashes |-> Idle]
    /\ bucket \in [Hashes -> Stored] /\ \A h \in Hashes \ Prior : bucket[h] = "absent"
    /\ mirrored \in SUBSET Prior /\ (mode = "off" => mirrored = {})
    /\ objects \in SUBSET {h \in Prior : bucket[h] = "whole"}
    /\ next = 1 /\ main = "rows"
    /\ job = [h \in Hashes |-> NoJob]
    /\ verdict = [r \in Row |-> "pending"]
    /\ claimed = {} /\ errors = [heads |-> "none", streams |-> "none"]

-----------------------------------------------------------------------------
(***************************************************************************)
(* The loop over the rows.                                                 *)
(***************************************************************************)

Give(rows, v) == verdict' = [r \in Row |-> IF r \in rows THEN v ELSE verdict[r]]

\* Mutant: the mirror is only looked at for content that is to be uploaded.
MirrorNeedsIfNew(h) == mode # "off" /\ h \notin mirrored /\ h \notin objects

MirrorNeeds(h) == mode # "off" /\ h \notin mirrored

\* A new path whose case-folded form another row or entry already took.
Collides(r) ==
    /\ Rows[r].fresh
    /\ \E q \in 1..(r - 1) : /\ Rows[q].key = Rows[r].key /\ Rows[q].path # Rows[r].path
                             /\ q \in claimed \/ verdict[q] = "handled"

Doomed == errors.heads # "none" \/ errors.streams # "none"

Looping == main = "rows" /\ ~Doomed /\ next \in Row

\* Rows settled on the spot: nothing is awaited.
FoldRow ==
    LET r == next  row == Rows[r] IN
    /\ Looping
    /\ \/ /\ Collides(r) \/ row.kind = "conflict"
          /\ Give({r}, "conflict") /\ UNCHANGED claimed
       \/ /\ ~Collides(r) /\ row.kind \in {"noop", "dir"}
          /\ Give({r}, "handled") /\ UNCHANGED claimed
       \/ /\ ~Collides(r) /\ row.kind = "file" /\ job[row.hash].stage = "none"
          /\ row.hash \in objects /\ ~MirrorNeeds(row.hash)
          /\ Give({r}, "handled")
          /\ claimed' = IF row.fresh THEN claimed \union {r} ELSE claimed
    /\ next' = next + 1
    /\ UNCHANGED <<mode, unit, bucket, mirrored, verify, main, job, objects, errors>>

\* The content is already on its way: ride on that job.
AttachRow ==
    LET r == next  row == Rows[r] IN
    /\ Looping /\ ~Collides(r) /\ row.kind = "file" /\ job[row.hash].stage # "none"
    /\ job' = [job EXCEPT ![row.hash].rows = @ \union {r}]
    /\ claimed' = IF row.fresh THEN claimed \union {r} ELSE claimed
    /\ next' = next + 1
    /\ UNCHANGED <<mode, unit, bucket, mirrored, verify, main, verdict, objects, errors>>

\* The first row of a hash that S3 or the mirror lacks creates the job, and
\* the loop waits for room in the pool it starts in.
StartJob ==
    LET r == next  row == Rows[r]  h == row.hash
        sinks == (IF h \in objects THEN {} ELSE {"s3"})
                   \union (IF MirrorNeeds(h) THEN {"mirror"} ELSE {})
    IN /\ Looping /\ ~Collides(r) /\ row.kind = "file" /\ job[h].stage = "none"
       /\ sinks # {}
       /\ job' = [job EXCEPT ![h] =
            [stage |-> IF verify /\ h \notin objects THEN "headRoom" ELSE "streamRoom",
             rows |-> {r}, sinks |-> sinks]]
       /\ main' = "room"
       /\ claimed' = IF row.fresh THEN claimed \union {r} ELSE claimed
       /\ next' = next + 1
       /\ UNCHANGED <<mode, unit, bucket, mirrored, verify, verdict, objects, errors>>

\* waitForRoom, then dispatchTracked.
DispatchHead(h) ==
    /\ main = "room" /\ job[h].stage = "headRoom"
    /\ Cardinality(In({"headQueued"})) < HeadLimit
    /\ job' = [job EXCEPT ![h].stage = "headQueued"]
    /\ main' = "rows"
    /\ UNCHANGED <<mode, unit, bucket, mirrored, verify, next, verdict, claimed, objects, errors>>

\* The loop dispatches an upload itself, or the HEAD that preceded it does.
DispatchUpload(h) ==
    /\ \/ main = "room" /\ job[h].stage = "streamRoom" /\ main' = "rows"
       \/ job[h].stage = "answered" /\ UNCHANGED main
    /\ Cardinality(In({"queued"})) < StreamLimit
    /\ job' = [job EXCEPT ![h].stage = "queued"]
    /\ UNCHANGED <<mode, unit, bucket, mirrored, verify, next, verdict, claimed, objects, errors>>

\* Mutant: only the stream pool is waited for.
LeaveLoopForStreams ==
    /\ main = "rows" /\ (Doomed \/ next \notin Row)
    /\ main' = "drainStreams"
    /\ UNCHANGED <<mode, unit, bucket, mirrored, verify, next, job, verdict, claimed, objects, errors>>

\* The loop is over, by its last row or because a pool holds a fatal error.
LeaveLoop ==
    /\ main = "rows" /\ (Doomed \/ next \notin Row)
    /\ main' = "drainHeads"
    /\ UNCHANGED <<mode, unit, bucket, mirrored, verify, next, job, verdict, claimed, objects, errors>>

\* metadataPool.onIdle(), and its error, before the stream pool's: a HEAD may
\* still dispatch an upload.
DrainHeads ==
    /\ main = "drainHeads" /\ In({"headQueued", "heading", "answered"}) = {}
    /\ main' = IF errors.heads # "none" THEN "threw" ELSE "drainStreams"
    /\ UNCHANGED <<mode, unit, bucket, mirrored, verify, next, job, verdict, claimed, objects, errors>>

DrainStreams ==
    /\ main = "drainStreams" /\ In({"queued", "running"}) = {}
    /\ main' = IF errors.streams # "none" THEN "threw" ELSE "returned"
    /\ UNCHANGED <<mode, unit, bucket, mirrored, verify, next, job, verdict, claimed, objects, errors>>

-----------------------------------------------------------------------------
(***************************************************************************)
(* The metadata pool.                                                      *)
(***************************************************************************)

StartHead(h) ==
    /\ job[h].stage = "headQueued" /\ Cardinality(In({"heading", "answered"})) < HeadConc
    /\ job' = [job EXCEPT ![h].stage = "heading"]
    /\ UNCHANGED <<mode, unit, bucket, mirrored, verify, next, main, verdict, claimed, objects, errors>>

HeadFails(h) ==
    /\ job[h].stage = "heading"
    /\ job' = [job EXCEPT ![h].stage = "dead"]
    /\ errors' = IF errors.heads = "none" THEN [errors EXCEPT !.heads = "HeadFailed"] ELSE errors
    /\ UNCHANGED <<mode, unit, bucket, mirrored, verify, next, main, verdict, claimed, objects>>

\* Mutant: an object without a recorded checksum is adopted as well.
HeadAdoptsAny(h) ==
    /\ job[h].stage = "heading" /\ bucket[h] # "absent" /\ "mirror" \notin job[h].sinks
    /\ objects' = objects \union {h}
    /\ Give(job[h].rows, "handled")
    /\ job' = [job EXCEPT ![h] = NoJob]
    /\ UNCHANGED <<mode, unit, bucket, mirrored, verify, next, main, claimed, errors>>

\* S3 holds the object with a checksum and the mirror lacks nothing: adopt it.
HeadAdopts(h) ==
    /\ job[h].stage = "heading" /\ bucket[h] = "whole" /\ "mirror" \notin job[h].sinks
    /\ objects' = objects \union {h}
    /\ Give(job[h].rows, "handled")
    /\ job' = [job EXCEPT ![h] = NoJob]
    /\ UNCHANGED <<mode, unit, bucket, mirrored, verify, next, main, claimed, errors>>

\* Otherwise the job goes on in the stream pool, for the mirror alone when S3
\* has the object.  An object without a checksum is uploaded again.
HeadAnswers(h) ==
    /\ job[h].stage = "heading"
    /\ \/ bucket[h] # "whole" /\ job' = [job EXCEPT ![h].stage = "answered"]
       \/ /\ bucket[h] = "whole" /\ "mirror" \in job[h].sinks
          /\ job' = [job EXCEPT ![h].stage = "answered", ![h].sinks = {"mirror"}]
    /\ UNCHANGED <<mode, unit, bucket, mirrored, verify, next, main, verdict, claimed, objects, errors>>

-----------------------------------------------------------------------------
(***************************************************************************)
(* The stream pool: runUploadJob around its unit.                          *)
(***************************************************************************)

\* Mutant: HEADs and uploads share one pool.
StartUploadShared(h) ==
    /\ job[h].stage = "queued"
    /\ Cardinality(In({"running", "heading", "answered"})) < StreamConc
    /\ job' = [job EXCEPT ![h].stage = "running"]
    /\ unit' = [unit EXCEPT ![h] = Entered(job[h].sinks)]
    /\ UNCHANGED <<mode, bucket, mirrored, verify, next, main, verdict, claimed, objects, errors>>

StartUpload(h) ==
    /\ job[h].stage = "queued" /\ Cardinality(In({"running"})) < StreamConc
    /\ job' = [job EXCEPT ![h].stage = "running"]
    /\ unit' = [unit EXCEPT ![h] = Entered(job[h].sinks)]
    /\ UNCHANGED <<mode, bucket, mirrored, verify, next, main, verdict, claimed, objects, errors>>

\* The object is stored: every row riding on the job is folded at once.  If
\* the call has thrown already, the closed database throws instead.
JobStores(h) ==
    /\ job[h].stage = "running" /\ Settled(h) /\ Outcome(h) \in {"ok", "gap"}
    /\ unit' = [unit EXCEPT ![h] = Idle]
    /\ IF CandidateOpen
       THEN /\ objects' = objects \union {h}
            /\ Give(job[h].rows, "handled")
            /\ job' = [job EXCEPT ![h] = NoJob]
       ELSE /\ job' = [job EXCEPT ![h].stage = "dead"]
            /\ UNCHANGED <<objects, verdict>>
    /\ UNCHANGED <<mode, bucket, mirrored, verify, next, main, claimed, errors>>

\* The file changed since the scan, or while it was read: its rows, and the
\* rows that rode along, stay dirty for the next sync.
JobLeavesRowsDirty(h) ==
    /\ job[h].stage = "running"
    /\ unit[h].stage = "stat" \/ (Settled(h) /\ Outcome(h) = "row")
    /\ unit' = [unit EXCEPT ![h] = Idle]
    /\ job' = [job EXCEPT ![h] = NoJob]
    /\ IF CandidateOpen THEN Give(job[h].rows, "failed") ELSE UNCHANGED verdict
    /\ UNCHANGED <<mode, bucket, mirrored, verify, next, main, claimed, objects, errors>>

\* S3UploadFatalError and MirrorRequiredError escape into the pool's error
\* box; the job is never taken out of inFlightByHash.
JobIsFatal(h) ==
    /\ job[h].stage = "running" /\ Settled(h)
    /\ Outcome(h) \in {"S3UploadFatal", "MirrorRequired"}
    /\ unit' = [unit EXCEPT ![h] = Idle]
    /\ job' = [job EXCEPT ![h].stage = "dead"]
    /\ errors' = IF errors.streams = "none" THEN [errors EXCEPT !.streams = Outcome(h)] ELSE errors
    /\ UNCHANGED <<mode, bucket, mirrored, verify, next, main, verdict, claimed, objects>>

-----------------------------------------------------------------------------
Loop == \/ FoldRow \/ AttachRow \/ StartJob \/ LeaveLoop \/ DrainHeads \/ DrainStreams
        \/ \E h \in Hashes : DispatchHead(h)

HeadJob(h) == StartHead(h) \/ HeadFails(h) \/ HeadAdopts(h) \/ HeadAnswers(h)

JobEnds(h) == JobStores(h) \/ JobLeavesRowsDirty(h) \/ JobIsFatal(h)

Next == \/ Loop
        \/ \E h \in Hashes :
             \/ DispatchUpload(h) \/ HeadJob(h) \/ StartUpload(h) \/ JobEnds(h)
             \/ Streaming(h) /\ UNCHANGED poolVars

Spec == Init /\ [][Next]_vars

\* The event loop and the pools run whatever is ready; S3 and the disk answer
\* in the end.  Nothing has to fail: a failure may only take an answer's place.
Fairness ==
    /\ WF_vars(Loop)
    /\ \A h \in Hashes :
         /\ WF_vars(DispatchUpload(h)) /\ WF_vars(HeadJob(h))
         /\ WF_vars(StartUpload(h)) /\ WF_vars(JobEnds(h))
         /\ WF_vars((OpenUnit(h) \/ RetryUnit(h)) /\ UNCHANGED poolVars)
         /\ WF_vars(SourceStep(h) /\ UNCHANGED poolVars)
         /\ WF_vars(UploadStep(h) /\ UNCHANGED poolVars)
         /\ WF_vars(MirrorStep(h) /\ UNCHANGED poolVars)

FairSpec == Spec /\ Fairness

-----------------------------------------------------------------------------
(***************************************************************************)
(* What has to hold.                                                       *)
(***************************************************************************)

TypeOK ==
    /\ mode \in Modes /\ verify \in BOOLEAN
    /\ unit \in [Hashes -> Unit]
    /\ bucket \in [Hashes -> Stored]
    /\ mirrored \subseteq Hashes /\ objects \subseteq Hashes
    /\ next \in 1..(Len(Rows) + 1)
    /\ main \in {"rows", "room", "drainHeads", "drainStreams", "returned", "threw"}
    /\ job \in [Hashes -> [stage : Stages, rows : SUBSET Row, sinks : SUBSET Sinks]]
    /\ verdict \in [Row -> {"pending", "handled", "conflict", "failed"}]
    /\ claimed \subseteq Row
    /\ errors \in [heads : Errors, streams : Errors]

\* Whatever the pools, the dedup and the streams do, every dirty row is
\* accounted for exactly once, and the call never returns, so that the
\* candidate is never committed, while a row or an upload is still open
\* (drains at apply-local-changes.ts:1091-1100).
Ledger == INSTANCE RowLedger WITH
            call <- IF CandidateOpen THEN "open" ELSE main
LedgerSpec == Ledger!Spec

Handled(r) == verdict[r] = "handled" /\ Rows[r].kind = "file"

\* A row folded into the candidate names bytes that S3 holds whole, with a
\* checksum it reported itself: however the row came by its hash, through its
\* own upload, a shared one, an adopted object or an earlier run's.
CommittedIsStored ==
    \A r \in Row : Handled(r) => /\ Rows[r].hash \in objects
                                 /\ bucket[Rows[r].hash] = "whole"

\* "A clean sync means a complete mirror" (mirroring.md:68-70): once the call
\* has returned, what it committed in fail mode is in the mirror too.
CleanSyncIsMirrored ==
    main = "returned" /\ mode = "fail" =>
        \A r \in Row : Handled(r) => Rows[r].hash \in mirrored

\* A file that cannot be read, or is no longer what was scanned, costs its own
\* rows and nothing else, though every sink reports a failure of its own
\* (apply-local-changes.ts:634-650).  A unit that feeds only the mirror does
\* not make the difference, :774-778, and is left out.
SourceFailureIsPerRow ==
    \A h \in Hashes :
        Settled(h) /\ "s3" \in unit[h].sinks /\ unit[h].broke = {"source"}
            => Outcome(h) = "row"

\* Under --on-mirror-max-retries ignore a mirror that gives up costs neither
\* the rows nor the run, and not S3's branch of that attempt either: the tee
\* detaches the mirror, and the upload that was under way ends with the whole
\* object ("Nothing is re-run", apply-local-changes.ts:809-818).
\* docs/architecture/mirroring.md:169-171 says otherwise, that the failure
\* tears down S3's branch too and the unit is run once more without the mirror.
IgnoredMirrorIsAGap ==
    \A h \in Hashes :
        (/\ Settled(h) /\ mode = "ignore"
         /\ unit[h].broke = {"mirror"} /\ "s3" \in unit[h].sinks)
            => /\ Outcome(h) \in {"again", "gap"}
               /\ bucket[h] = "whole"

\* Nothing short of all the ciphertext is ever published under its name, in
\* S3 or in the mirror, however the stages tear each other down.
SinksPublishAll ==
    [][\A h \in Hashes :
         /\ bucket'[h] # bucket[h] => unit[h].got["s3"] = Chunks
         /\ h \in mirrored' \ mirrored => unit[h].got["mirror"] = Chunks]_vars

\* The branch of a sink that gave up is neither read nor torn down, so the
\* source stays paused for the sake of nobody.
Abandoned(h) == \E s \in unit[h].piped : unit[h].at[s] = "bad" /\ Paused(unit[h])

\* The call always ends, whatever fails in whatever order, unless a sink that
\* failed before reading its branch leaves the source paused for ever.
CallEnds == <>(~CandidateOpen) \/ <>[](\E h \in Hashes : Abandoned(h))

\* "Whichever gives up for good is what decides the attempt's outcome, and
\* signals the others to stop wherever they are" (mirroring.md:74-77).
OneFailureStopsTheOthers ==
    \A h \in Hashes :
        (\E s \in Sinks : unit[h].at[s] = "bad") ~> (Settled(h) \/ unit[h].stage # "streaming")
=============================================================================
