------------------------------ MODULE UploadUnit ------------------------------
(***************************************************************************)
(* The read-encrypt-write unit that stores one object, as runUnit of       *)
(* sync/apply-local-changes.ts builds it: the file is read and encrypted   *)
(* once and the ciphertext streamed to S3, to the mirror, or to both       *)
(* through teeStream of fs/mirror-sink.ts.  The unit is a set of           *)
(* independent stages, the source and one consumer per sink, that only     *)
(* meet in the buffers between them; how each of them gives up, and whom   *)
(* it takes down with it, is what this module is about.                    *)
(*                                                                         *)
(* A chunk of ciphertext is larger than what a PassThrough branch buffers  *)
(* (4 MiB against 64 KiB), so the source is paused while any branch holds  *)
(* one that its consumer has not taken.  A transient S3 error is retried   *)
(* for as long as it lasts and is no step here.                            *)
(***************************************************************************)
EXTENDS Naturals, FiniteSets

CONSTANTS Hashes,            \* the content hashes of the files to store
          Large,             \* those of at least MULTIPART_THRESHOLD_BYTES
          Chunks,            \* chunks of ciphertext in every object
          MaxMirrorAttempts  \* MAX_MIRROR_ATTEMPTS

ASSUME UnitAssumption == /\ Large \subseteq Hashes
                         /\ Chunks \in Nat \ {0}
                         /\ MaxMirrorAttempts \in Nat \ {0}

Modes == {"off", "fail", "ignore"}  \* no mirror, or --on-mirror-max-retries

VARIABLES mode,      \* what a mirror failure means for this run
          unit,      \* unit[h]: the stages of the unit storing h
          bucket,    \* bucket[h]: what S3 holds under the object's key
          mirrored   \* hashes whose file stands in the mirror

Sinks == {"s3", "mirror"}

\* bucket[h]: nothing, an object with a recorded CRC64NVME, one without
Stored == {"absent", "whole", "unverified"}

Unit == [stage   : {"idle", "stat", "streaming"},
         sinks   : SUBSET Sinks,                   \* the sinks this unit feeds
         attempt : 0..MaxMirrorAttempts,
         source  : {"open", "ended", "failed", "destroyed"},
         out     : 0..Chunks,                      \* chunks the source produced
         piped   : SUBSET Sinks,                   \* branches the source feeds
         torn    : SUBSET Sinks,                   \* branches destroyed early
         got     : [Sinks -> 0..Chunks],           \* chunks each consumer took
         at      : [Sinks -> {"off", "open", "body", "finish", "ok", "bad"}],
         retry   : BOOLEAN,    \* the mirror's errno is worth another attempt
         sent    : BOOLEAN,    \* ciphertextChecksum is known
         broke   : SUBSET (Sinks \union {"source"})]  \* ghost: what gave up by itself

Idle == [stage |-> "idle", sinks |-> {}, attempt |-> 0, source |-> "destroyed",
         out |-> 0, piped |-> {}, torn |-> {}, got |-> [s \in Sinks |-> 0],
         at |-> [s \in Sinks |-> "off"], retry |-> FALSE, sent |-> FALSE,
         broke |-> {}]

-----------------------------------------------------------------------------
(***************************************************************************)
(* Attempts.  withMirrorRetry calls runUnit again from the start: a stream *)
(* that failed cannot be replayed.                                         *)
(***************************************************************************)

\* A job enters withMirrorRetry with the sinks that lack the object; the
\* checksum is already known when only the mirror does.
Entered(sinks) == [Idle EXCEPT !.stage = "stat", !.sinks = sinks, !.attempt = 1,
                               !.sent = "s3" \notin sinks]

\* The file still has the size and mtime it was scanned with: open it, and
\* give every sink its branch.
Opened(h) ==
    LET u == unit[h] IN
    [u EXCEPT !.stage = "streaming", !.source = "open", !.out = 0,
              !.piped = u.sinks, !.torn = {}, !.got = [s \in Sinks |-> 0],
              !.at = [s \in Sinks |->
                        CASE s \notin u.sinks -> "off"
                          [] s \in u.sinks /\ s = "s3" /\ h \notin Large -> "body"
                          [] OTHER -> "open"],
              !.retry = FALSE, !.broke = {}]

OpenUnit(h) ==
    /\ unit[h].stage = "stat"
    /\ unit' = [unit EXCEPT ![h] = Opened(h)]
    /\ UNCHANGED <<mode, bucket, mirrored>>

-----------------------------------------------------------------------------
(***************************************************************************)
(* The tee.                                                                *)
(***************************************************************************)

\* The branch's consumer has taken every byte: tearing it down changes nothing.
Drained(u, s) == u.at[s] \in {"finish", "ok"}

\* A branch that holds an untaken chunk keeps the whole source paused.
Paused(u) == \E s \in u.piped : u.out > u.got[s]

\* failPrimary: the mirror's branch dies with S3's, and the source is closed.
PrimaryTorn(u) ==
    IF Drained(u, "s3") THEN u
    ELSE [u EXCEPT !.source = IF u.source = "open" THEN "destroyed" ELSE u.source,
                   !.piped = {}, !.torn = u.torn \union {"s3", "mirror"}]

\* Mutant: a mirror that may be ignored takes S3's branch down as well.
SecondaryTornAlways(u) ==
    LET cut == [u EXCEPT !.piped = @ \ {"mirror"}, !.torn = @ \union {"mirror"}]
    IN IF "s3" \in u.sinks THEN PrimaryTorn(cut) ELSE cut

\* failSecondary: "abort-both" takes S3's branch down, "detach-secondary"
\* only stops feeding the mirror's.
SecondaryTorn(u) ==
    LET cut == [u EXCEPT !.piped = @ \ {"mirror"}, !.torn = @ \union {"mirror"}]
    IN IF "s3" \in u.sinks /\ mode = "fail" THEN PrimaryTorn(cut) ELSE cut

\* The source is flowing: it produces a chunk, ends after the last one, or
\* fails, be it to read or because the bytes no longer hash to h, which
\* destroys every branch.
SourceStep(h) ==
    LET u == unit[h] IN
    /\ u.stage = "streaming" /\ u.source = "open" /\ ~Paused(u)
    /\ \/ /\ u.out < Chunks
          /\ unit' = [unit EXCEPT ![h].out = @ + 1]
       \/ /\ u.out = Chunks
          /\ unit' = [unit EXCEPT ![h].source = "ended"]
       \/ /\ u.out < Chunks
          /\ \E r \in BOOLEAN :
               unit' = [unit EXCEPT ![h] =
                 [u EXCEPT !.source = "failed", !.piped = {}, !.torn = u.sinks,
                           !.retry = r, !.broke = @ \union {"source"}]]
    /\ UNCHANGED <<mode, bucket, mirrored>>

-----------------------------------------------------------------------------
(***************************************************************************)
(* The consumers.  Either reads its branch to the end, then publishes.     *)
(***************************************************************************)

\* Mutant: a consumer takes a branch cut short for one that ended.
TakeCutShort(h, s) ==
    LET u == unit[h] IN
    /\ u.stage = "streaming" /\ u.at[s] = "body"
    /\ \/ /\ s \notin u.torn /\ u.got[s] < u.out
          /\ unit' = [unit EXCEPT ![h].got[s] = @ + 1]
       \/ /\ s \in u.torn \/ (u.source = "ended" /\ u.got[s] = Chunks)
          /\ unit' = [unit EXCEPT ![h].at[s] = "finish"]
    /\ UNCHANGED <<mode, bucket, mirrored>>

Take(h, s) ==
    LET u == unit[h] IN
    /\ u.stage = "streaming" /\ u.at[s] = "body"
    /\ \/ /\ s \notin u.torn /\ u.got[s] < u.out
          /\ unit' = [unit EXCEPT ![h].got[s] = @ + 1]
       \/ /\ s \notin u.torn /\ u.source = "ended" /\ u.got[s] = Chunks
          /\ unit' = [unit EXCEPT ![h].at[s] = "finish"]
       \/ /\ s \in u.torn
          /\ unit' = [unit EXCEPT ![h].at[s] = "bad"]
    /\ UNCHANGED <<mode, bucket, mirrored>>

\* uploadObjectStream fails for good, before, during or after the body.  A
\* failing part destroys the body; a failing CreateMultipartUpload is outside
\* that try and leaves the branch open with nobody to read it.  A PUT that S3
\* took without reporting a checksum fails verifyStoredChecksum.
UploadFails(h) ==
    LET u   == unit[h]
        bad == [u EXCEPT !.at["s3"] = "bad", !.broke = @ \union {"s3"}]
    IN /\ u.stage = "streaming"
       /\ \/ /\ u.at["s3"] \in {"open", "finish"}
             /\ unit' = [unit EXCEPT ![h] = bad]
             /\ \/ UNCHANGED bucket
                \/ /\ u.at["s3"] = "finish"
                   /\ bucket' = [bucket EXCEPT ![h] = "unverified"]
          \/ /\ h \in Large /\ u.at["s3"] = "body" /\ u.got["s3"] > 0
             /\ unit' = [unit EXCEPT ![h] = PrimaryTorn(bad)]
             /\ UNCHANGED bucket
       /\ UNCHANGED <<mode, mirrored>>

UploadStep(h) ==
    \/ Take(h, "s3")
    \/ /\ unit[h].stage = "streaming" /\ unit[h].at["s3"] = "open"
       /\ unit' = [unit EXCEPT ![h].at["s3"] = "body"]
       /\ UNCHANGED <<mode, bucket, mirrored>>
    \/ /\ unit[h].stage = "streaming" /\ unit[h].at["s3"] = "finish"
       /\ unit' = [unit EXCEPT ![h].at["s3"] = "ok", ![h].sent = TRUE]
       /\ bucket' = [bucket EXCEPT ![h] = "whole"]
       /\ UNCHANGED <<mode, mirrored>>

\* writeMirrorStream fails in mkdirSync, which precedes the pipeline and so
\* leaves the branch open and unread, while writing, or while renaming.
MirrorFails(h) ==
    LET u == unit[h]
        bad(r) == [u EXCEPT !.at["mirror"] = "bad", !.retry = r,
                            !.broke = @ \union {"mirror"}]
    IN /\ u.stage = "streaming"
       /\ \E r \in BOOLEAN :
            \/ u.at["mirror"] \in {"open", "finish"}
               /\ unit' = [unit EXCEPT ![h] = bad(r)]
            \/ u.at["mirror"] = "body" /\ "mirror" \notin u.torn
               /\ unit' = [unit EXCEPT ![h] = SecondaryTorn(bad(r))]
       /\ UNCHANGED <<mode, bucket, mirrored>>

MirrorStep(h) ==
    \/ Take(h, "mirror")
    \/ /\ unit[h].stage = "streaming" /\ unit[h].at["mirror"] = "open"
       /\ unit' = [unit EXCEPT ![h].at["mirror"] = "body"]
       /\ UNCHANGED <<mode, bucket, mirrored>>
    \/ /\ unit[h].stage = "streaming" /\ unit[h].at["mirror"] = "finish"
       /\ unit' = [unit EXCEPT ![h].at["mirror"] = "ok"]
       /\ mirrored' = mirrored \union {h}
       /\ UNCHANGED <<mode, bucket>>

-----------------------------------------------------------------------------
(***************************************************************************)
(* What the unit comes to, once every sink has settled (allSettled).  The  *)
(* S3 outcome is recorded before the mirror's, and the first one recorded  *)
(* decides.                                                                *)
(***************************************************************************)

Settled(h) == /\ unit[h].stage = "streaming"
              /\ \A s \in unit[h].sinks : unit[h].at[s] \in {"ok", "bad"}

\* Mutant: the source's failure goes unnoticed.
OutcomeBlindToSource(h) ==
    LET u == unit[h] IN
    CASE u.at["s3"] = "bad" -> "S3UploadFatal"
      [] u.at["s3"] # "bad" /\ u.at["mirror"] = "bad" -> "row"
      [] OTHER -> "ok"

\* "again": another attempt.  "gap": S3 holds the object and the mirror's
\* failure is ignored.  "row": the rows stay dirty, the run goes on.
Outcome(h) ==
    LET u == unit[h]
        mirrorFailed == IF u.retry /\ u.attempt < MaxMirrorAttempts THEN "again"
                        ELSE IF mode = "fail" THEN "MirrorRequired"
                        ELSE IF u.sent THEN "gap" ELSE "row"
    IN IF "s3" \in u.sinks /\ u.source = "failed" THEN "row"
       ELSE IF u.at["s3"] = "bad" THEN "S3UploadFatal"
       ELSE IF u.at["mirror"] = "bad" THEN mirrorFailed
       ELSE "ok"

RetryUnit(h) ==
    /\ Settled(h) /\ Outcome(h) = "again"
    /\ unit' = [unit EXCEPT ![h].stage = "stat", ![h].attempt = @ + 1]
    /\ UNCHANGED <<mode, bucket, mirrored>>

Streaming(h) == \/ OpenUnit(h) \/ SourceStep(h) \/ RetryUnit(h)
                \/ UploadStep(h) \/ UploadFails(h)
                \/ MirrorStep(h) \/ MirrorFails(h)
=============================================================================
