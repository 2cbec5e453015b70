--------------------------- MODULE UploadPool_proofs ---------------------------
(***************************************************************************)
(* Proofs of what UploadPool promises, for any rows, hashes and chunks,    *)
(* any pool sizes and any number of mirror attempts.                       *)
(*                                                                         *)
(* The inductive invariant has two layers.  UnitOK says of one unit what   *)
(* its stages owe each other while they stream and tear each other down;   *)
(* JobOK and LoopOK say of the pools which rows are still owed a verdict,  *)
(* and what the sinks a job lacks already hold.                            *)
(***************************************************************************)
EXTENDS UploadPool, TLAPS

USE UnitAssumption

(***************************************************************************)
(* The inductive invariant.                                                *)
(***************************************************************************)

(* A unit u that stores h, of which S3 holds stored, in a mirror that holds *)
(* files.                                                                   *)
UnitOK(h, u, stored, files) ==
  /\ u.stage # "idle" /\ "s3" \notin u.sinks => u.sent
  /\ u.stage = "streaming" =>
       /\ \A s \in Sinks : s \in u.sinks <=> u.at[s] # "off"
       /\ \A s \in Sinks : u.at[s] \in {"finish", "ok"} => u.got[s] = Chunks
       /\ u.at["s3"] = "ok" => stored = "whole" /\ u.sent
       /\ u.at["mirror"] = "ok" => h \in files
       /\ u.source = "failed" <=> "source" \in u.broke
       /\ "mirror" \in u.broke => u.at["mirror"] = "bad"
       /\ u.at["s3"] = "bad" => "s3" \in u.broke \union u.torn
       /\ "s3" \in u.torn => mode = "fail" \/ "source" \in u.broke \/ "s3" \in u.broke

(* A job: its unit, the rows that wait for it, and the sinks it passes by. *)
JobOK(h) ==
  LET j == job[h] IN
  /\ UnitOK(h, unit[h], bucket[h], mirrored)
  /\ unit[h].stage # "idle" <=> j.stage = "running"
  /\ j.stage = "running" => unit[h].sinks = j.sinks
  /\ j.stage # "none" =>
       /\ "s3" \in j.sinks => h \notin objects
       /\ "s3" \notin j.sinks => bucket[h] = "whole"
       /\ "mirror" \notin j.sinks /\ mode # "off" => h \in mirrored
  /\ j.stage \in {"headRoom", "streamRoom"} => main = "room"
  /\ j.stage \in {"headRoom", "headQueued", "heading", "answered"} =>
       main \in {"rows", "room", "drainHeads"}
  /\ j.stage = "dead" => Doomed \/ ~CandidateOpen
  /\ \A r \in j.rows : /\ Rows[r].kind = "file" /\ Rows[r].hash = h
                       /\ r < next /\ verdict[r] = "pending"

(* The loop waits for room for one job at a time.                          *)
OneWaits == \A h, k \in In({"headRoom", "streamRoom"}) : h = k

(* A row the loop has passed has its verdict, or rides on a job.           *)
RowOK(r) ==
  /\ r >= next => verdict[r] = "pending"
  /\ CandidateOpen /\ r < next /\ verdict[r] = "pending" =>
       /\ r \in job[Rows[r].hash].rows /\ job[Rows[r].hash].stage # "none"
  /\ Handled(r) => /\ Rows[r].hash \in objects
                   /\ mode = "fail" => Rows[r].hash \in mirrored

(* The loop is left with rows to go only when a pool holds an error, and   *)
(* the HEADs' error is looked at first.                                    *)
LoopOK ==
  /\ main \in {"drainHeads", "drainStreams"} => Doomed \/ next \notin Row
  /\ main = "drainStreams" => errors.heads = "none"

Inv == /\ \A h \in Hashes : JobOK(h)
       /\ \A h \in objects : bucket[h] = "whole"
       /\ OneWaits
       /\ \A r \in Row : RowOK(r)
       /\ LoopOK

(***************************************************************************)
(* The unit's own steps.                                                   *)
(***************************************************************************)

(* The unit of h goes on as u, and what it publishes is the whole object.  *)
StreamsTo(h, u) ==
  /\ u \in Unit /\ unit' = [unit EXCEPT ![h] = u]
  /\ u.sinks = unit[h].sinks /\ u.stage # "idle" /\ unit[h].stage # "idle"
  /\ UnitOK(h, u, bucket'[h], mirrored')
  /\ bucket' \in [Hashes -> Stored] /\ \A k \in Hashes \ {h} : bucket'[k] = bucket[k]
  /\ "s3" \notin u.sinks => bucket' = bucket
  /\ bucket'[h] # bucket[h] => unit[h].got["s3"] = Chunks
  /\ \/ mirrored' = mirrored
     \/ mirrored' = mirrored \union {h} /\ unit[h].got["mirror"] = Chunks
  /\ mode' = mode

LEMMA UnitFacts ==
  ASSUME TypeOK, NEW h \in Hashes
  PROVE  /\ unit[h] \in Unit /\ bucket[h] \in Stored
         /\ unit[h].at \in [Sinks -> {"off", "open", "body", "finish", "ok", "bad"}]
         /\ unit[h].got \in [Sinks -> 0..Chunks]
         /\ unit[h].out \in 0..Chunks
BY DEF TypeOK, Unit

LEMMA OpenStep ==
  ASSUME TypeOK, NEW h \in Hashes, UnitOK(h, unit[h], bucket[h], mirrored), OpenUnit(h)
  PROVE  StreamsTo(h, Opened(h))
<1>1. unit[h] \in Unit /\ unit[h].stage = "stat"
  BY UnitFacts DEF OpenUnit
<1>2. PICK at : at = [s \in Sinks |-> CASE s \notin unit[h].sinks -> "off"
                                        [] s \in unit[h].sinks /\ s = "s3" /\ h \notin Large -> "body"
                                        [] OTHER -> "open"]
  OBVIOUS
<1>3. /\ at \in [Sinks -> {"off", "open", "body"}]
      /\ \A s \in Sinks : s \in unit[h].sinks <=> at[s] # "off"
  <2>1. ASSUME NEW s \in Sinks
        PROVE  at[s] \in {"off", "open", "body"} /\ (s \in unit[h].sinks <=> at[s] # "off")
    <3>1. CASE s \notin unit[h].sinks
      BY <1>2, <3>1
    <3>2. CASE s \in unit[h].sinks /\ s = "s3" /\ h \notin Large
      BY <1>2, <3>2
    <3>3. CASE s \in unit[h].sinks /\ ~(s = "s3" /\ h \notin Large)
      BY <1>2, <3>3
    <3>. QED BY <3>1, <3>2, <3>3
  <2>2. at = [s \in Sinks |-> at[s]]
    BY <1>2
  <2>. QED BY <2>1, <2>2
<1>4. PICK got : got = [s \in Sinks |-> 0]
  OBVIOUS
<1>5. got \in [Sinks -> 0..Chunks]
  BY <1>4
<1>6. PICK u : u = [unit[h] EXCEPT !.stage = "streaming", !.source = "open", !.out = 0,
                      !.piped = unit[h].sinks, !.torn = {}, !.got = got, !.at = at,
                      !.retry = FALSE, !.broke = {}]
  OBVIOUS
<1>7. u = Opened(h)
  BY <1>2, <1>4, <1>6 DEF Opened
<1>8. u = [stage |-> "streaming", sinks |-> unit[h].sinks, attempt |-> unit[h].attempt,
           source |-> "open", out |-> 0, piped |-> unit[h].sinks, torn |-> {}, got |-> got,
           at |-> at, retry |-> FALSE, sent |-> unit[h].sent, broke |-> {}]
  BY <1>1, <1>6 DEF Unit
<1>9. u \in Unit
  BY <1>1, <1>3, <1>5, <1>8 DEF Unit
<1>10. UnitOK(h, u, bucket[h], mirrored)
  <2>1. /\ u.stage = "streaming" /\ u.sinks = unit[h].sinks /\ u.at = at /\ u.source = "open"
        /\ u.torn = {} /\ u.broke = {} /\ u.sent = unit[h].sent
    BY <1>8
  <2>2. \A s \in Sinks : at[s] \in {"off", "open", "body"}
    BY <1>3
  <2>. QED BY <1>1, <1>3, <2>1, <2>2 DEF UnitOK, Sinks
<1>11. u.sinks = unit[h].sinks /\ u.stage = "streaming"
  BY <1>8
<1>12. /\ unit' = [unit EXCEPT ![h] = u] /\ UNCHANGED <<mode, bucket, mirrored>>
  BY <1>7 DEF OpenUnit
<1>. QED BY <1>1, <1>7, <1>9, <1>10, <1>11, <1>12 DEF StreamsTo, TypeOK

LEMMA SourceStepOK ==
  ASSUME TypeOK, NEW h \in Hashes, UnitOK(h, unit[h], bucket[h], mirrored), SourceStep(h)
  PROVE  \E u : StreamsTo(h, u)
<1>. DEFINE old == unit[h]
<1>1. old \in Unit /\ old.stage = "streaming" /\ old.source = "open" /\ UNCHANGED <<mode, bucket, mirrored>>
  BY UnitFacts DEF SourceStep
<1>2. ASSUME NEW u \in Unit, unit' = [unit EXCEPT ![h] = u], u.stage = "streaming",
             u.sinks = old.sinks, UnitOK(h, u, bucket[h], mirrored)
      PROVE  StreamsTo(h, u)
  BY <1>1, <1>2 DEF StreamsTo, TypeOK
<1>3. CASE old.out < Chunks /\ unit' = [unit EXCEPT ![h].out = @ + 1]
  <2>1. PICK u : u = [old EXCEPT !.out = old.out + 1]
    OBVIOUS
  <2>2. unit' = [unit EXCEPT ![h] = u]
    BY <1>3, <2>1 DEF TypeOK
  <2>3. old.out + 1 \in 0..Chunks
    BY <1>3, UnitFacts
  <2>4. /\ u \in Unit /\ u.stage = old.stage /\ u.sinks = old.sinks /\ u.at = old.at
        /\ u.got = old.got /\ u.sent = old.sent /\ u.source = old.source /\ u.torn = old.torn
        /\ u.broke = old.broke
    BY <1>1, <2>1, <2>3 DEF Unit
  <2>5. UnitOK(h, u, bucket[h], mirrored)
    BY <2>4 DEF UnitOK
  <2>. QED BY <1>1, <1>2, <2>2, <2>4, <2>5
<1>4. CASE unit' = [unit EXCEPT ![h].source = "ended"]
  <2>1. PICK u : u = [old EXCEPT !.source = "ended"]
    OBVIOUS
  <2>2. unit' = [unit EXCEPT ![h] = u]
    BY <1>4, <2>1 DEF TypeOK
  <2>4. /\ u \in Unit /\ u.stage = old.stage /\ u.sinks = old.sinks /\ u.at = old.at
        /\ u.got = old.got /\ u.sent = old.sent /\ u.source = "ended" /\ u.torn = old.torn
        /\ u.broke = old.broke
    BY <1>1, <2>1 DEF Unit
  <2>5. UnitOK(h, u, bucket[h], mirrored)
    BY <1>1, <2>4 DEF UnitOK
  <2>. QED BY <1>1, <1>2, <2>2, <2>4, <2>5
<1>5. ASSUME NEW r \in BOOLEAN,
             unit' = [unit EXCEPT ![h] =
               [old EXCEPT !.source = "failed", !.piped = {}, !.torn = old.sinks,
                           !.retry = r, !.broke = old.broke \union {"source"}]]
      PROVE  \E u : StreamsTo(h, u)
  <2>1. PICK u : u = [old EXCEPT !.source = "failed", !.piped = {}, !.torn = old.sinks,
                                 !.retry = r, !.broke = old.broke \union {"source"}]
    OBVIOUS
  <2>2. unit' = [unit EXCEPT ![h] = u]
    BY <1>5, <2>1
  <2>4. /\ u.stage = old.stage /\ u.sinks = old.sinks /\ u.at = old.at
        /\ u.got = old.got /\ u.sent = old.sent /\ u.source = "failed" /\ u.torn = old.sinks
        /\ u.broke = old.broke \union {"source"}
    BY <1>1, <2>1 DEF Unit
  <2>5. u \in Unit
    BY <1>1, <2>1 DEF Unit
  <2>6. UnitOK(h, u, bucket[h], mirrored)
    BY <1>1, <2>4 DEF UnitOK, Sinks
  <2>. QED BY <1>1, <1>2, <2>2, <2>4, <2>5, <2>6
<1>. QED BY <1>3, <1>4, <1>5 DEF SourceStep

(* A step that leaves what is published alone only has to keep its unit in  *)
(* order.                                                                   *)
LEMMA GoesOn ==
  ASSUME TypeOK, NEW h \in Hashes, NEW u \in Unit, unit' = [unit EXCEPT ![h] = u],
         unit[h].stage # "idle", u.stage # "idle", u.sinks = unit[h].sinks,
         UnitOK(h, u, bucket[h], mirrored), UNCHANGED <<mode, bucket, mirrored>>
  PROVE  StreamsTo(h, u)
BY DEF StreamsTo, TypeOK

LEMMA TakeStep ==
  ASSUME TypeOK, NEW h \in Hashes, NEW t \in Sinks,
         UnitOK(h, unit[h], bucket[h], mirrored), Take(h, t)
  PROVE  \E u : StreamsTo(h, u)
<1>. DEFINE old == unit[h]
<1>1. /\ old \in Unit /\ old.stage = "streaming" /\ old.at[t] = "body"
      /\ UNCHANGED <<mode, bucket, mirrored>>
      /\ old.at \in [Sinks -> {"off", "open", "body", "finish", "ok", "bad"}]
      /\ old.got \in [Sinks -> 0..Chunks]
  BY UnitFacts DEF Take
<1>2. CASE t \notin old.torn /\ old.got[t] < old.out /\ unit' = [unit EXCEPT ![h].got[t] = @ + 1]
  <2>1. PICK got : got = [old.got EXCEPT ![t] = old.got[t] + 1]
    OBVIOUS
  <2>2. PICK u : u = [old EXCEPT !.got = got]
    OBVIOUS
  <2>3. unit' = [unit EXCEPT ![h] = u]
    BY <1>2, <2>1, <2>2 DEF TypeOK
  <2>4. old.got[t] + 1 \in 0..Chunks
    BY <1>1, <1>2, UnitFacts
  <2>5. got \in [Sinks -> 0..Chunks] /\ \A s \in Sinks : s # t => got[s] = old.got[s]
    BY <1>1, <2>1, <2>4
  <2>6. /\ u \in Unit /\ u.stage = old.stage /\ u.sinks = old.sinks /\ u.at = old.at
        /\ u.got = got /\ u.sent = old.sent /\ u.source = old.source /\ u.torn = old.torn
        /\ u.broke = old.broke
    BY <1>1, <2>2, <2>5 DEF Unit
  <2>7. UnitOK(h, u, bucket[h], mirrored)
    BY <1>1, <2>5, <2>6 DEF UnitOK
  <2>. QED BY <1>1, <2>3, <2>6, <2>7, GoesOn
<1>3. ASSUME NEW v \in {"finish", "bad"}, unit' = [unit EXCEPT ![h].at[t] = v],
             v = "finish" => t \notin old.torn /\ old.got[t] = Chunks,
             v = "bad" => t \in old.torn
      PROVE  \E u : StreamsTo(h, u)
  <2>1. PICK at : at = [old.at EXCEPT ![t] = v]
    OBVIOUS
  <2>2. PICK u : u = [old EXCEPT !.at = at]
    OBVIOUS
  <2>3. unit' = [unit EXCEPT ![h] = u]
    BY <1>3, <2>1, <2>2 DEF TypeOK
  <2>5. /\ at \in [Sinks -> {"off", "open", "body", "finish", "ok", "bad"}] /\ at[t] = v
        /\ \A s \in Sinks : s # t => at[s] = old.at[s]
    BY <1>1, <1>3, <2>1
  <2>6. /\ u \in Unit /\ u.stage = old.stage /\ u.sinks = old.sinks /\ u.at = at
        /\ u.got = old.got /\ u.sent = old.sent /\ u.source = old.source /\ u.torn = old.torn
        /\ u.broke = old.broke
    BY <1>1, <2>2, <2>5 DEF Unit
  <2>7. UnitOK(h, u, bucket[h], mirrored)
    <3>1. CASE t = "s3"
      BY <1>1, <1>3, <2>5, <2>6, <3>1 DEF UnitOK, Sinks
    <3>2. CASE t = "mirror"
      BY <1>1, <1>3, <2>5, <2>6, <3>2 DEF UnitOK, Sinks
    <3>. QED BY <3>1, <3>2 DEF Sinks
  <2>. QED BY <1>1, <2>3, <2>6, <2>7, GoesOn
<1>. QED BY <1>2, <1>3 DEF Take

LEMMA UnitWith ==
  ASSUME NEW old \in Unit, NEW r \in BOOLEAN, NEW broke \in SUBSET (Sinks \union {"source"}),
         NEW at \in [Sinks -> {"off", "open", "body", "finish", "ok", "bad"}]
  PROVE  [old EXCEPT !.at = at, !.retry = r, !.broke = broke] \in Unit
BY DEF Unit

(* A sink gives up, whatever that leaves in S3 if it is the sink that       *)
(* uploads.                                                                 *)
LEMMA SinkBreaks ==
  ASSUME TypeOK, NEW h \in Hashes, NEW t \in Sinks,
         UnitOK(h, unit[h], bucket[h], mirrored),
         unit[h].stage = "streaming", unit[h].at[t] \in {"open", "body", "finish"},
         NEW r \in BOOLEAN
  PROVE  \E u \in Unit :
           /\ u = [unit[h] EXCEPT !.at = [unit[h].at EXCEPT ![t] = "bad"], !.retry = r,
                                  !.broke = unit[h].broke \union {t}]
           /\ u.stage = "streaming" /\ u.sinks = unit[h].sinks /\ t \in u.sinks
           /\ u.broke = unit[h].broke \union {t}
           /\ UnitOK(h, u, bucket[h], mirrored)
           /\ t = "s3" => \A stored : UnitOK(h, u, stored, mirrored)
<1>. DEFINE old == unit[h]
<1>1. /\ old \in Unit
      /\ old.at \in [Sinks -> {"off", "open", "body", "finish", "ok", "bad"}]
  BY UnitFacts
<1>2. PICK at : at = [old.at EXCEPT ![t] = "bad"]
  OBVIOUS
<1>3. /\ at \in [Sinks -> {"off", "open", "body", "finish", "ok", "bad"}] /\ at[t] = "bad"
      /\ \A s \in Sinks : s # t => at[s] = old.at[s]
  BY <1>1, <1>2
<1>4. PICK broke : broke = old.broke \union {t}
  OBVIOUS
<1>5. broke \in SUBSET (Sinks \union {"source"})
  BY <1>1, <1>4 DEF Unit
<1>6. PICK u : u = [old EXCEPT !.at = at, !.retry = r, !.broke = broke]
  OBVIOUS
<1>7. /\ u.stage = old.stage /\ u.sinks = old.sinks /\ u.at = at
      /\ u.got = old.got /\ u.sent = old.sent /\ u.source = old.source /\ u.torn = old.torn
      /\ u.broke = broke
  BY <1>1, <1>6 DEF Unit
<1>8. u \in Unit
  <2>. HIDE DEF old
  <2>1. [old EXCEPT !.at = at, !.retry = r, !.broke = broke] \in Unit
    BY <1>1, <1>3, <1>5, UnitWith, Zenon
  <2>. QED BY <1>6, <2>1, Zenon
<1>9. t \in old.sinks /\ (\A s \in Sinks : s \in u.sinks <=> u.at[s] # "off")
  BY <1>1, <1>3, <1>7 DEF UnitOK
<1>10. ASSUME NEW stored, t = "s3" \/ stored = bucket[h]
       PROVE  UnitOK(h, u, stored, mirrored)
  <2>1. CASE t = "s3"
    BY <1>1, <1>3, <1>4, <1>7, <1>9, <1>10, <2>1 DEF UnitOK, Sinks
  <2>2. CASE t = "mirror"
    BY <1>1, <1>3, <1>4, <1>7, <1>9, <1>10, <2>2 DEF UnitOK, Sinks
  <2>. QED BY <2>1, <2>2 DEF Sinks
<1>. QED BY <1>2, <1>4, <1>6, <1>7, <1>8, <1>9, <1>10

LEMMA PrimaryTornFacts ==
  ASSUME NEW u \in Unit
  PROVE  LET v == PrimaryTorn(u) IN
         /\ v \in Unit /\ v.stage = u.stage /\ v.sinks = u.sinks /\ v.at = u.at
         /\ v.got = u.got /\ v.sent = u.sent /\ v.broke = u.broke
         /\ v.source = "failed" <=> u.source = "failed"
         /\ u.torn \subseteq v.torn
<1>1. CASE Drained(u, "s3")
  BY <1>1 DEF PrimaryTorn
<1>2. CASE ~Drained(u, "s3")
  <2>1. PICK source : source = IF u.source = "open" THEN "destroyed" ELSE u.source
    OBVIOUS
  <2>2. /\ source \in {"open", "ended", "failed", "destroyed"}
        /\ source = "failed" <=> u.source = "failed"
    BY <2>1 DEF Unit
  <2>3. PICK torn : torn = u.torn \union {"s3", "mirror"}
    OBVIOUS
  <2>4. torn \in SUBSET Sinks /\ u.torn \subseteq torn
    BY <2>3 DEF Unit, Sinks
  <2>5. PICK v : v = [u EXCEPT !.source = source, !.piped = {}, !.torn = torn]
    OBVIOUS
  <2>6. v = PrimaryTorn(u)
    BY <1>2, <2>1, <2>3, <2>5 DEF PrimaryTorn
  <2>7. /\ v \in Unit /\ v.stage = u.stage /\ v.sinks = u.sinks /\ v.at = u.at
        /\ v.got = u.got /\ v.sent = u.sent /\ v.broke = u.broke
        /\ v.source = source /\ v.torn = torn
    BY <2>2, <2>4, <2>5 DEF Unit
  <2>. QED BY <2>2, <2>4, <2>6, <2>7
<1>. QED BY <1>1, <1>2

LEMMA SecondaryTornFacts ==
  ASSUME NEW u \in Unit
  PROVE  LET v == SecondaryTorn(u) IN
         /\ v \in Unit /\ v.stage = u.stage /\ v.sinks = u.sinks /\ v.at = u.at
         /\ v.got = u.got /\ v.sent = u.sent /\ v.broke = u.broke
         /\ v.source = "failed" <=> u.source = "failed"
         /\ u.torn \subseteq v.torn
         /\ "s3" \in v.torn => "s3" \in u.torn \/ mode = "fail"
<1>1. PICK cut : cut = [u EXCEPT !.piped = u.piped \ {"mirror"}, !.torn = u.torn \union {"mirror"}]
  OBVIOUS
<1>2. /\ cut \in Unit /\ cut.stage = u.stage /\ cut.sinks = u.sinks /\ cut.at = u.at
      /\ cut.got = u.got /\ cut.sent = u.sent /\ cut.broke = u.broke
      /\ cut.source = u.source /\ cut.torn = u.torn \union {"mirror"}
  <2>1. u.torn \union {"mirror"} \in SUBSET Sinks /\ u.piped \ {"mirror"} \in SUBSET Sinks
    BY DEF Unit, Sinks
  <2>. QED BY <1>1, <2>1 DEF Unit
<1>3. SecondaryTorn(u) = IF "s3" \in u.sinks /\ mode = "fail" THEN PrimaryTorn(cut) ELSE cut
  BY <1>1 DEF SecondaryTorn
<1>4. CASE "s3" \in u.sinks /\ mode = "fail"
  BY <1>2, <1>3, <1>4, PrimaryTornFacts
<1>5. CASE ~("s3" \in u.sinks /\ mode = "fail")
  BY <1>2, <1>3, <1>5
<1>. QED BY <1>4, <1>5

(* A unit with more of its branches torn than u is no worse than u.          *)
LEMMA TornUnitOK ==
  ASSUME NEW h, NEW u, NEW v, NEW stored, NEW files, UnitOK(h, u, stored, files),
         v.stage = u.stage, v.sinks = u.sinks, v.at = u.at, v.got = u.got, v.sent = u.sent,
         v.broke = u.broke, v.source = "failed" <=> u.source = "failed",
         u.torn \subseteq v.torn,
         "s3" \in v.torn => "s3" \in u.torn \/ mode = "fail" \/ "s3" \in u.broke
  PROVE  UnitOK(h, v, stored, files)
BY DEF UnitOK

LEMMA UploadFailsStep ==
  ASSUME TypeOK, NEW h \in Hashes, UnitOK(h, unit[h], bucket[h], mirrored), UploadFails(h)
  PROVE  \E u : StreamsTo(h, u)
<1>. DEFINE old == unit[h]
<1>1. /\ old \in Unit /\ old.stage = "streaming" /\ UNCHANGED <<mode, mirrored>>
      /\ old.at["s3"] \in {"open", "body", "finish"} /\ "s3" \in Sinks
  BY UnitFacts DEF UploadFails, Sinks
<1>2. old.retry \in BOOLEAN
  BY <1>1 DEF Unit
<1>3. PICK bad \in Unit :
        /\ bad = [old EXCEPT !.at = [old.at EXCEPT !["s3"] = "bad"], !.retry = old.retry,
                             !.broke = old.broke \union {"s3"}]
        /\ bad.stage = "streaming" /\ bad.sinks = old.sinks /\ "s3" \in bad.sinks
        /\ bad.broke = old.broke \union {"s3"}
        /\ \A stored : UnitOK(h, bad, stored, mirrored)
  BY <1>1, <1>2, SinkBreaks
<1>20. bad = [old EXCEPT !.at["s3"] = "bad", !.broke = @ \union {"s3"}]
  BY <1>1, <1>3 DEF Unit
<1>4. CASE /\ old.at["s3"] \in {"open", "finish"} /\ unit' = [unit EXCEPT ![h] = bad]
           /\ UNCHANGED bucket
  BY <1>1, <1>3, <1>4, GoesOn
<1>5. CASE /\ old.at["s3"] = "finish" /\ unit' = [unit EXCEPT ![h] = bad]
           /\ bucket' = [bucket EXCEPT ![h] = "unverified"]
  <2>1. bucket' \in [Hashes -> Stored] /\ \A k \in Hashes \ {h} : bucket'[k] = bucket[k]
    BY <1>5 DEF TypeOK, Stored
  <2>2. old.got["s3"] = Chunks
    BY <1>1, <1>5 DEF UnitOK
  <2>. QED BY <1>1, <1>3, <1>5, <2>1, <2>2 DEF StreamsTo
<1>6. CASE unit' = [unit EXCEPT ![h] = PrimaryTorn(bad)] /\ UNCHANGED bucket
  <2>1. PICK v : v = PrimaryTorn(bad)
    OBVIOUS
  <2>2. /\ v \in Unit /\ v.stage = bad.stage /\ v.sinks = bad.sinks /\ v.at = bad.at
        /\ v.got = bad.got /\ v.sent = bad.sent /\ v.broke = bad.broke
        /\ v.source = "failed" <=> bad.source = "failed"
        /\ bad.torn \subseteq v.torn
    BY <1>3, <2>1, PrimaryTornFacts
  <2>3. UnitOK(h, v, bucket[h], mirrored)
    BY <1>3, <2>2, TornUnitOK
  <2>. QED BY <1>1, <1>3, <1>6, <2>1, <2>2, <2>3, GoesOn
<1>. QED BY <1>20, <1>4, <1>5, <1>6 DEF UploadFails

LEMMA MirrorFailsStep ==
  ASSUME TypeOK, NEW h \in Hashes, UnitOK(h, unit[h], bucket[h], mirrored), MirrorFails(h)
  PROVE  \E u : StreamsTo(h, u)
<1>. DEFINE old == unit[h]
<1>1. PICK r \in BOOLEAN :
         LET bad == [old EXCEPT !.at["mirror"] = "bad", !.retry = r, !.broke = @ \union {"mirror"}]
         IN \/ old.at["mirror"] \in {"open", "finish"} /\ unit' = [unit EXCEPT ![h] = bad]
            \/ /\ old.at["mirror"] = "body"
               /\ unit' = [unit EXCEPT ![h] = SecondaryTorn(bad)]
  BY DEF MirrorFails
<1>2. /\ old \in Unit /\ old.stage = "streaming" /\ UNCHANGED <<mode, bucket, mirrored>>
      /\ old.at["mirror"] \in {"open", "body", "finish"} /\ "mirror" \in Sinks
  BY <1>1, UnitFacts DEF MirrorFails, Sinks
<1>3. PICK bad \in Unit :
        /\ bad = [old EXCEPT !.at = [old.at EXCEPT !["mirror"] = "bad"], !.retry = r,
                             !.broke = old.broke \union {"mirror"}]
        /\ bad.stage = "streaming" /\ bad.sinks = old.sinks
        /\ UnitOK(h, bad, bucket[h], mirrored)
  <2>1. CASE r = TRUE
    BY <1>2, <2>1, SinkBreaks
  <2>2. CASE r = FALSE
    BY <1>2, <2>2, SinkBreaks
  <2>. QED BY <2>1, <2>2
<1>4. bad = [old EXCEPT !.at["mirror"] = "bad", !.retry = r, !.broke = @ \union {"mirror"}]
  BY <1>3
<1>5. CASE unit' = [unit EXCEPT ![h] = bad]
  BY <1>2, <1>3, <1>5, GoesOn
<1>6. CASE unit' = [unit EXCEPT ![h] = SecondaryTorn(bad)]
  <2>1. PICK v : v = SecondaryTorn(bad)
    OBVIOUS
  <2>2. /\ v \in Unit /\ v.stage = bad.stage /\ v.sinks = bad.sinks /\ v.at = bad.at
        /\ v.got = bad.got /\ v.sent = bad.sent /\ v.broke = bad.broke
        /\ v.source = "failed" <=> bad.source = "failed"
        /\ bad.torn \subseteq v.torn
        /\ "s3" \in v.torn => "s3" \in bad.torn \/ mode = "fail"
    BY <1>3, <2>1, SecondaryTornFacts
  <2>3. UnitOK(h, v, bucket[h], mirrored)
    BY <1>3, <2>2 DEF UnitOK
  <2>. QED BY <1>2, <1>3, <1>6, <2>1, <2>2, <2>3, GoesOn
<1>. QED BY <1>1, <1>4, <1>5, <1>6

(* A sink moves on, from its branch's start to its body, or to having       *)
(* published everything.                                                    *)
LEMMA SinkGoesOn ==
  ASSUME TypeOK, NEW h \in Hashes, NEW t \in Sinks, NEW v \in {"body", "ok"},
         UnitOK(h, unit[h], bucket[h], mirrored), unit[h].stage = "streaming",
         unit[h].at[t] = IF v = "body" THEN "open" ELSE "finish"
  PROVE  \E u \in Unit :
           /\ u = IF v = "ok" /\ t = "s3"
                  THEN [unit[h] EXCEPT !.at = [unit[h].at EXCEPT ![t] = v], !.sent = TRUE]
                  ELSE [unit[h] EXCEPT !.at = [unit[h].at EXCEPT ![t] = v]]
           /\ u.stage = "streaming" /\ u.sinks = unit[h].sinks /\ t \in u.sinks
           /\ UnitOK(h, u, IF v = "ok" /\ t = "s3" THEN "whole" ELSE bucket[h],
                           IF v = "ok" /\ t = "mirror" THEN mirrored \union {h} ELSE mirrored)
<1>. DEFINE old == unit[h]
<1>1. /\ old \in Unit
      /\ old.at \in [Sinks -> {"off", "open", "body", "finish", "ok", "bad"}]
  BY UnitFacts
<1>2. PICK at : at = [old.at EXCEPT ![t] = v]
  OBVIOUS
<1>3. /\ at \in [Sinks -> {"off", "open", "body", "finish", "ok", "bad"}] /\ at[t] = v
      /\ \A s \in Sinks : s # t => at[s] = old.at[s]
  BY <1>1, <1>2
<1>4. PICK u : u = IF v = "ok" /\ t = "s3" THEN [old EXCEPT !.at = at, !.sent = TRUE]
                   ELSE [old EXCEPT !.at = at]
  OBVIOUS
<1>5. /\ u.stage = old.stage /\ u.sinks = old.sinks /\ u.at = at
      /\ u.got = old.got /\ u.source = old.source /\ u.torn = old.torn
      /\ u.broke = old.broke
  BY <1>1, <1>4 DEF Unit
<1>6. u \in Unit
  BY <1>1, <1>3, <1>4 DEF Unit
<1>7. t \in old.sinks /\ (\A s \in Sinks : s \in u.sinks <=> u.at[s] # "off")
  BY <1>1, <1>3, <1>5 DEF UnitOK
<1>8. v = "ok" => old.got[t] = Chunks
  BY <1>1 DEF UnitOK
<1>13. PICK stored : stored = IF v = "ok" /\ t = "s3" THEN "whole" ELSE bucket[h]
  OBVIOUS
<1>11. PICK files : files = IF v = "ok" /\ t = "mirror" THEN mirrored \union {h} ELSE mirrored
  OBVIOUS
<1>12. /\ mirrored \subseteq files
       /\ v = "ok" /\ t = "s3" => stored = "whole"
       /\ v = "ok" /\ t = "mirror" => h \in files
       /\ stored = bucket[h] \/ stored = "whole"
  BY <1>13, <1>11
<1>9. UnitOK(h, u, stored, files)
  <2>1. (old.sent => u.sent) /\ (v = "ok" /\ t = "s3" => u.sent)
    BY <1>1, <1>4 DEF Unit
  <2>2. CASE t = "s3"
    BY <1>1, <1>3, <1>5, <1>7, <1>8, <1>12, <2>1, <2>2 DEF UnitOK, Sinks
  <2>3. CASE t = "mirror"
    BY <1>1, <1>3, <1>5, <1>7, <1>8, <1>12, <2>1, <2>3 DEF UnitOK, Sinks
  <2>. QED BY <2>2, <2>3 DEF Sinks
<1>. QED BY <1>2, <1>4, <1>5, <1>6, <1>7, <1>9, <1>13, <1>11

LEMMA UploadStepOK ==
  ASSUME TypeOK, NEW h \in Hashes, UnitOK(h, unit[h], bucket[h], mirrored), UploadStep(h)
  PROVE  \E u : StreamsTo(h, u)
<1>. DEFINE old == unit[h]
<1>1. old \in Unit /\ "s3" \in Sinks
  BY UnitFacts DEF Sinks
<1>2. CASE Take(h, "s3")
  BY <1>1, <1>2, TakeStep
<1>3. CASE /\ old.stage = "streaming" /\ old.at["s3"] = "open"
           /\ unit' = [unit EXCEPT ![h].at["s3"] = "body"]
           /\ UNCHANGED <<mode, bucket, mirrored>>
  <2>1. PICK u \in Unit :
          /\ u = [old EXCEPT !.at = [old.at EXCEPT !["s3"] = "body"]]
          /\ u.stage = "streaming" /\ u.sinks = old.sinks
          /\ UnitOK(h, u, bucket[h], mirrored)
    BY <1>1, <1>3, SinkGoesOn
  <2>3. unit' = [unit EXCEPT ![h] = u]
    BY <1>3, <2>1 DEF TypeOK
  <2>. QED BY <1>3, <2>1, <2>3, GoesOn
<1>4. CASE /\ old.stage = "streaming" /\ old.at["s3"] = "finish"
           /\ unit' = [unit EXCEPT ![h].at["s3"] = "ok", ![h].sent = TRUE]
           /\ bucket' = [bucket EXCEPT ![h] = "whole"]
           /\ UNCHANGED <<mode, mirrored>>
  <2>1. PICK u \in Unit :
          /\ u = [old EXCEPT !.at = [old.at EXCEPT !["s3"] = "ok"], !.sent = TRUE]
          /\ u.stage = "streaming" /\ u.sinks = old.sinks /\ "s3" \in u.sinks
          /\ UnitOK(h, u, "whole", mirrored)
    BY <1>1, <1>4, SinkGoesOn
  <2>2. unit' = [unit EXCEPT ![h] = u]
    BY <1>1, <1>4, <2>1 DEF TypeOK
  <2>3. /\ bucket' \in [Hashes -> Stored] /\ \A k \in Hashes \ {h} : bucket'[k] = bucket[k]
        /\ bucket'[h] = "whole"
    BY <1>4 DEF TypeOK, Stored
  <2>4. old.got["s3"] = Chunks
    BY <1>1, <1>4 DEF UnitOK
  <2>. QED BY <1>4, <2>1, <2>2, <2>3, <2>4 DEF StreamsTo
<1>. QED BY <1>2, <1>3, <1>4 DEF UploadStep

LEMMA MirrorStepOK ==
  ASSUME TypeOK, NEW h \in Hashes, UnitOK(h, unit[h], bucket[h], mirrored), MirrorStep(h)
  PROVE  \E u : StreamsTo(h, u)
<1>. DEFINE old == unit[h]
<1>1. old \in Unit /\ "mirror" \in Sinks
  BY UnitFacts DEF Sinks
<1>2. CASE Take(h, "mirror")
  BY <1>1, <1>2, TakeStep
<1>3. CASE /\ old.stage = "streaming" /\ old.at["mirror"] = "open"
           /\ unit' = [unit EXCEPT ![h].at["mirror"] = "body"]
           /\ UNCHANGED <<mode, bucket, mirrored>>
  <2>1. PICK u \in Unit :
          /\ u = [old EXCEPT !.at = [old.at EXCEPT !["mirror"] = "body"]]
          /\ u.stage = "streaming" /\ u.sinks = old.sinks
          /\ UnitOK(h, u, bucket[h], mirrored)
    BY <1>1, <1>3, SinkGoesOn
  <2>3. unit' = [unit EXCEPT ![h] = u]
    BY <1>3, <2>1 DEF TypeOK
  <2>. QED BY <1>3, <2>1, <2>3, GoesOn
<1>4. CASE /\ old.stage = "streaming" /\ old.at["mirror"] = "finish"
           /\ unit' = [unit EXCEPT ![h].at["mirror"] = "ok"]
           /\ mirrored' = mirrored \union {h}
           /\ UNCHANGED <<mode, bucket>>
  <2>1. PICK u \in Unit :
          /\ u = [old EXCEPT !.at = [old.at EXCEPT !["mirror"] = "ok"]]
          /\ u.stage = "streaming" /\ u.sinks = old.sinks
          /\ UnitOK(h, u, bucket[h], mirrored \union {h})
    BY <1>1, <1>4, SinkGoesOn
  <2>2. unit' = [unit EXCEPT ![h] = u]
    BY <1>4, <2>1 DEF TypeOK
  <2>4. old.got["mirror"] = Chunks
    BY <1>1, <1>4 DEF UnitOK
  <2>. QED BY <1>4, <2>1, <2>2, <2>4 DEF StreamsTo, TypeOK
<1>. QED BY <1>2, <1>3, <1>4 DEF MirrorStep

LEMMA RetryStep ==
  ASSUME TypeOK, NEW h \in Hashes, UnitOK(h, unit[h], bucket[h], mirrored), RetryUnit(h)
  PROVE  \E u : StreamsTo(h, u)
<1>. DEFINE old == unit[h]
<1>1. /\ old \in Unit /\ old.stage = "streaming" /\ UNCHANGED <<mode, bucket, mirrored>>
      /\ unit' = [unit EXCEPT ![h].stage = "stat", ![h].attempt = @ + 1]
      /\ old.attempt \in 0..MaxMirrorAttempts
  BY UnitFacts DEF RetryUnit, Settled, Unit
<1>2. old.attempt < MaxMirrorAttempts
  BY DEF RetryUnit, Outcome
<1>3. old.attempt + 1 \in 0..MaxMirrorAttempts
  BY <1>1, <1>2
<1>4. PICK u : u = [old EXCEPT !.stage = "stat", !.attempt = old.attempt + 1]
  OBVIOUS
<1>5. unit' = [unit EXCEPT ![h] = u]
  BY <1>1, <1>4 DEF TypeOK
<1>6. u \in Unit /\ u.stage = "stat" /\ u.sinks = old.sinks /\ u.sent = old.sent
  BY <1>1, <1>3, <1>4 DEF Unit
<1>7. UnitOK(h, u, bucket[h], mirrored)
  BY <1>1, <1>6 DEF UnitOK
<1>. QED BY <1>1, <1>5, <1>6, <1>7, GoesOn

LEMMA StreamingStep ==
  ASSUME TypeOK, NEW h \in Hashes, UnitOK(h, unit[h], bucket[h], mirrored), Streaming(h)
  PROVE  \E u : StreamsTo(h, u)
BY OpenStep, SourceStepOK, RetryStep, UploadStepOK, UploadFailsStep, MirrorStepOK,
   MirrorFailsStep DEF Streaming

(***************************************************************************)
(* What the pool's steps change.                                           *)
(***************************************************************************)

JobType == [stage : Stages, rows : SUBSET Row, sinks : SUBSET Sinks]

JobIs(h, j) == job' = [job EXCEPT ![h] = j]

JobGains(h, r) == job' = [job EXCEPT ![h].rows = @ \union {r}]

JobMoves(h, stage) == job' = [job EXCEPT ![h].stage = stage]

LEMMA RowFacts ==
  /\ \A r \in Row : r \in Nat /\ Rows[r] \in RowType /\ Rows[r].hash \in Hashes
  /\ Row = 1..Len(Rows) /\ Len(Rows) \in Nat
<1>1. Rows \in Seq(RowType)
  BY PoolAssumption
<1>2. Row = 1..Len(Rows) /\ Len(Rows) \in Nat /\ \A r \in Row : Rows[r] \in RowType
  BY <1>1 DEF Row
<1>. QED BY <1>2 DEF RowType

LEMMA NoJobFacts == NoJob \in JobType /\ NoJob.stage = "none" /\ NoJob.rows = {}
BY DEF NoJob, JobType, Stages

LEMMA JobIsFacts ==
  ASSUME TypeOK, NEW h \in Hashes, NEW j \in JobType, JobIs(h, j)
  PROVE  /\ job' \in [Hashes -> JobType] /\ job'[h] = j
         /\ \A k \in Hashes : k # h => job'[k] = job[k]
BY DEF TypeOK, JobIs, JobType

LEMMA JobMovesFacts ==
  ASSUME TypeOK, NEW h \in Hashes, NEW stage \in Stages, JobMoves(h, stage)
  PROVE  /\ job' \in [Hashes -> JobType]
         /\ job'[h].stage = stage /\ job'[h].rows = job[h].rows /\ job'[h].sinks = job[h].sinks
         /\ \A k \in Hashes : k # h => job'[k] = job[k]
<1>1. job \in [Hashes -> JobType] /\ job[h] \in JobType
  BY DEF TypeOK, JobType
<1>2. PICK j : j = [job[h] EXCEPT !.stage = stage]
  OBVIOUS
<1>3. j \in JobType /\ j.stage = stage /\ j.rows = job[h].rows /\ j.sinks = job[h].sinks
  BY <1>1, <1>2 DEF JobType
<1>4. job' = [job EXCEPT ![h] = j]
  BY <1>1, <1>2 DEF JobMoves
<1>. QED BY <1>1, <1>3, <1>4

LEMMA JobGainsFacts ==
  ASSUME TypeOK, NEW h \in Hashes, NEW r \in Row, JobGains(h, r)
  PROVE  /\ job' \in [Hashes -> JobType]
         /\ job'[h].stage = job[h].stage /\ job'[h].sinks = job[h].sinks
         /\ job'[h].rows = job[h].rows \union {r}
         /\ \A k \in Hashes : k # h => job'[k] = job[k]
<1>1. job \in [Hashes -> JobType] /\ job[h] \in JobType
  BY DEF TypeOK, JobType
<1>2. PICK rows : rows = job[h].rows \union {r}
  OBVIOUS
<1>3. rows \in SUBSET Row
  BY <1>1, <1>2 DEF JobType
<1>4. PICK j : j = [job[h] EXCEPT !.rows = rows]
  OBVIOUS
<1>5. j \in JobType /\ j.stage = job[h].stage /\ j.rows = rows /\ j.sinks = job[h].sinks
  BY <1>1, <1>3, <1>4 DEF JobType
<1>6. job' = [job EXCEPT ![h] = j]
  BY <1>1, <1>2, <1>4 DEF JobGains
<1>. QED BY <1>1, <1>2, <1>5, <1>6

LEMMA GiveFacts ==
  ASSUME TypeOK, NEW rows, NEW v \in {"handled", "conflict", "failed"}, Give(rows, v)
  PROVE  /\ verdict' \in [Row -> {"pending", "handled", "conflict", "failed"}]
         /\ \A r \in rows \intersect Row : verdict'[r] = v
         /\ \A r \in Row \ rows : verdict'[r] = verdict[r]
BY DEF Give, TypeOK

(***************************************************************************)
(* Types.                                                                  *)
(***************************************************************************)

LEMMA LoopTypes ==
  ASSUME TypeOK, Loop
  PROVE  TypeOK'
<1>1. CASE FoldRow
  <2>1. /\ next \in Row /\ next' = next + 1
        /\ UNCHANGED <<mode, unit, bucket, mirrored, verify, main, job, objects, errors>>
        /\ claimed' \subseteq claimed \union {next}
        /\ \E v \in {"handled", "conflict"} : Give({next}, v)
    BY <1>1 DEF FoldRow, Looping
  <2>2. next' \in 1..(Len(Rows) + 1)
    BY <2>1, RowFacts
  <2>3. verdict' \in [Row -> {"pending", "handled", "conflict", "failed"}]
    BY <2>1, GiveFacts
  <2>. QED BY <2>1, <2>2, <2>3 DEF TypeOK
<1>2. CASE AttachRow
  <2>. DEFINE h == Rows[next].hash
  <2>1. /\ next \in Row /\ next' = next + 1
        /\ UNCHANGED <<mode, unit, bucket, mirrored, verify, main, verdict, objects, errors>>
        /\ claimed' \subseteq claimed \union {next}
        /\ job' = [job EXCEPT ![h].rows = @ \union {next}]
    BY <1>2 DEF AttachRow, Looping
  <2>2. next' \in 1..(Len(Rows) + 1)
    BY <2>1, RowFacts
  <2>3. h \in Hashes
    BY <2>1, RowFacts
  <2>4. job' \in [Hashes -> JobType]
    BY <2>1, <2>3, JobGainsFacts DEF JobGains
  <2>. QED BY <2>1, <2>2, <2>4 DEF TypeOK, JobType
<1>3. CASE StartJob
  <2>. DEFINE h == Rows[next].hash
              sinks == (IF h \in objects THEN {} ELSE {"s3"})
                         \union (IF MirrorNeeds(h) THEN {"mirror"} ELSE {})
              stage == IF verify /\ h \notin objects THEN "headRoom" ELSE "streamRoom"
  <2>1. /\ next \in Row /\ next' = next + 1 /\ main' = "room"
        /\ UNCHANGED <<mode, unit, bucket, mirrored, verify, verdict, objects, errors>>
        /\ claimed' \subseteq claimed \union {next}
        /\ job' = [job EXCEPT ![h] = [stage |-> stage, rows |-> {next}, sinks |-> sinks]]
    BY <1>3 DEF StartJob, Looping
  <2>2. next' \in 1..(Len(Rows) + 1)
    BY <2>1, RowFacts
  <2>3. sinks \in SUBSET Sinks /\ stage \in Stages
    BY DEF Sinks, Stages
  <2>. HIDE DEF h, sinks, stage
  <2>4. PICK j : j = [stage |-> stage, rows |-> {next}, sinks |-> sinks]
    OBVIOUS
  <2>5. j \in JobType
    BY <2>1, <2>3, <2>4 DEF JobType
  <2>6. job' = [job EXCEPT ![h] = j]
    BY <2>1, <2>4
  <2>7. job' \in [Hashes -> JobType]
    BY <2>5, <2>6 DEF TypeOK, JobType
  <2>. QED BY <2>1, <2>2, <2>7 DEF TypeOK, JobType
<1>4. CASE LeaveLoop \/ DrainHeads \/ DrainStreams
  BY <1>4 DEF LeaveLoop, DrainHeads, DrainStreams, TypeOK
<1>5. ASSUME NEW h \in Hashes, DispatchHead(h)
      PROVE  TypeOK'
  BY <1>5 DEF DispatchHead, TypeOK, Stages
<1>. QED BY <1>1, <1>2, <1>3, <1>4, <1>5 DEF Loop

LEMMA IdleFacts == Idle \in Unit /\ Idle.stage = "idle"
<1>1. 0 \in 0..Chunks /\ 0 \in 0..MaxMirrorAttempts
  OBVIOUS
<1>. QED BY <1>1 DEF Idle, Unit

LEMMA EnteredFacts ==
  ASSUME NEW sinks \in SUBSET Sinks
  PROVE  LET e == Entered(sinks) IN
         e \in Unit /\ e.stage = "stat" /\ e.sinks = sinks /\ ("s3" \notin sinks => e.sent)
<1>1. PICK idle \in Unit : idle = Idle
  BY IdleFacts
<1>3. PICK e : e = [idle EXCEPT !.stage = "stat", !.sinks = sinks, !.attempt = 1,
                                !.sent = "s3" \notin sinks]
  OBVIOUS
<1>4. e = Entered(sinks)
  BY <1>1, <1>3 DEF Entered
<1>5. 1 \in 0..MaxMirrorAttempts
  OBVIOUS
<1>6. e \in Unit
  BY <1>1, <1>3, <1>5 DEF Unit
<1>7. e.stage = "stat" /\ e.sinks = sinks /\ ("s3" \notin sinks => e.sent)
  BY <1>1, <1>3 DEF Unit
<1>. QED BY <1>4, <1>6, <1>7

LEMMA PoolTypes ==
  ASSUME TypeOK, NEW h \in Hashes,
         DispatchUpload(h) \/ HeadJob(h) \/ StartUpload(h) \/ JobEnds(h)
  PROVE  TypeOK'
<1>. USE DEF JobType
<1>1. CASE DispatchUpload(h)
  <2>1. JobMoves(h, "queued") /\ "queued" \in Stages
    BY <1>1 DEF DispatchUpload, JobMoves, Stages
  <2>. QED BY <1>1, <2>1, JobMovesFacts DEF DispatchUpload, TypeOK
<1>2. CASE StartHead(h)
  <2>1. JobMoves(h, "heading") /\ "heading" \in Stages
    BY <1>2 DEF StartHead, JobMoves, Stages
  <2>. QED BY <1>2, <2>1, JobMovesFacts DEF StartHead, TypeOK
<1>3. CASE HeadFails(h)
  <2>1. JobMoves(h, "dead") /\ "dead" \in Stages
    BY <1>3 DEF HeadFails, JobMoves, Stages
  <2>2. errors' \in [heads : Errors, streams : Errors]
    BY <1>3 DEF HeadFails, TypeOK, Errors
  <2>. QED BY <1>3, <2>1, <2>2, JobMovesFacts DEF HeadFails, TypeOK
<1>4. CASE HeadAdopts(h)
  <2>1. JobIs(h, NoJob) /\ Give(job[h].rows, "handled")
    BY <1>4 DEF HeadAdopts, JobIs
  <2>. QED BY <1>4, <2>1, JobIsFacts, NoJobFacts, GiveFacts DEF HeadAdopts, TypeOK
<1>5. CASE HeadAnswers(h)
  <2>1. CASE job' = [job EXCEPT ![h].stage = "answered"]
    <3>1. JobMoves(h, "answered") /\ "answered" \in Stages
      BY <2>1 DEF JobMoves, Stages
    <3>. QED BY <1>5, <3>1, JobMovesFacts DEF HeadAnswers, TypeOK
  <2>2. CASE job' = [job EXCEPT ![h].stage = "answered", ![h].sinks = {"mirror"}]
    BY <1>5, <2>2 DEF HeadAnswers, TypeOK, Stages, Sinks
  <2>. QED BY <1>5, <2>1, <2>2 DEF HeadAnswers
<1>6. CASE StartUpload(h)
  <2>1. JobMoves(h, "running") /\ "running" \in Stages /\ job[h].sinks \in SUBSET Sinks
    BY <1>6 DEF StartUpload, JobMoves, Stages, TypeOK
  <2>2. unit' \in [Hashes -> Unit]
    BY <1>6, <2>1, EnteredFacts DEF StartUpload, TypeOK
  <2>. QED BY <1>6, <2>1, <2>2, JobMovesFacts DEF StartUpload, TypeOK
<1>7. CASE JobStores(h)
  <2>1. unit' \in [Hashes -> Unit]
    BY <1>7, IdleFacts DEF JobStores, TypeOK
  <2>2. CASE CandidateOpen
    <3>1. JobIs(h, NoJob) /\ Give(job[h].rows, "handled")
      BY <1>7, <2>2 DEF JobStores, JobIs
    <3>. QED BY <1>7, <2>1, <2>2, <3>1, JobIsFacts, NoJobFacts, GiveFacts DEF JobStores, TypeOK
  <2>3. CASE ~CandidateOpen
    <3>1. JobMoves(h, "dead") /\ "dead" \in Stages
      BY <1>7, <2>3 DEF JobStores, JobMoves, Stages
    <3>. QED BY <1>7, <2>1, <2>3, <3>1, JobMovesFacts DEF JobStores, TypeOK
  <2>. QED BY <2>2, <2>3
<1>8. CASE JobLeavesRowsDirty(h)
  <2>1. unit' \in [Hashes -> Unit] /\ JobIs(h, NoJob)
    BY <1>8, IdleFacts DEF JobLeavesRowsDirty, TypeOK, JobIs
  <2>2. verdict' \in [Row -> {"pending", "handled", "conflict", "failed"}]
    BY <1>8, GiveFacts DEF JobLeavesRowsDirty, TypeOK
  <2>. QED BY <1>8, <2>1, <2>2, JobIsFacts, NoJobFacts DEF JobLeavesRowsDirty, TypeOK
<1>9. CASE JobIsFatal(h)
  <2>1. unit' \in [Hashes -> Unit] /\ JobMoves(h, "dead") /\ "dead" \in Stages
    BY <1>9, IdleFacts DEF JobIsFatal, TypeOK, JobMoves, Stages
  <2>2. errors' \in [heads : Errors, streams : Errors]
    BY <1>9 DEF JobIsFatal, TypeOK, Errors
  <2>. QED BY <1>9, <2>1, <2>2, JobMovesFacts DEF JobIsFatal, TypeOK
<1>. QED BY <1>1, <1>2, <1>3, <1>4, <1>5, <1>6, <1>7, <1>8, <1>9 DEF HeadJob, JobEnds

LEMMA StreamTypes ==
  ASSUME TypeOK, NEW h \in Hashes, NEW u, StreamsTo(h, u), UNCHANGED poolVars
  PROVE  TypeOK'
BY DEF TypeOK, StreamsTo, poolVars

(* In the beginning every unit is idle and every row is open.               *)
LEMMA InitOK == Init => TypeOK /\ Inv
<1>. SUFFICES ASSUME Init PROVE TypeOK /\ Inv
  OBVIOUS
<1>1. TypeOK
  <2>1. /\ job \in [Hashes -> [stage : Stages, rows : SUBSET Row, sinks : SUBSET Sinks]]
        /\ unit \in [Hashes -> Unit]
    BY NoJobFacts, IdleFacts DEF Init, JobType
  <2>2. mirrored \subseteq Hashes /\ objects \subseteq Hashes
    BY PoolAssumption DEF Init
  <2>3. next \in 1..(Len(Rows) + 1)
    BY RowFacts DEF Init
  <2>4. errors \in [heads : Errors, streams : Errors]
    BY DEF Init, Errors
  <2>. QED BY <2>1, <2>2, <2>3, <2>4 DEF Init, TypeOK
<1>2. \A h \in Hashes : JobOK(h)
  BY IdleFacts, NoJobFacts DEF Init, JobOK, UnitOK
<1>3. OneWaits
  BY NoJobFacts DEF Init, OneWaits, In
<1>4. \A r \in Row : RowOK(r)
  BY RowFacts DEF Init, RowOK, Handled
<1>. QED BY <1>1, <1>2, <1>3, <1>4 DEF Init, Inv, LoopOK

(***************************************************************************)
(* What a step leaves alone.                                               *)
(***************************************************************************)

(* More files in the mirror harm no unit.                                   *)
LEMMA UnitKeeps ==
  ASSUME NEW k, UnitOK(k, unit[k], bucket[k], mirrored),
         unit'[k] = unit[k], bucket'[k] = bucket[k], mirrored \subseteq mirrored', mode' = mode
  PROVE  UnitOK(k, unit[k], bucket[k], mirrored)'
BY DEF UnitOK

(* A job that a step does not touch, of a hash it does not record.          *)
LEMMA JobKeeps ==
  ASSUME NEW k, JobOK(k), job'[k] = job[k],
         unit'[k] = unit[k], bucket'[k] = bucket[k], mirrored \subseteq mirrored', mode' = mode,
         k \in objects' => k \in objects,
         job[k].stage \in {"headRoom", "streamRoom"} => main' = "room",
         job[k].stage \in {"headRoom", "headQueued", "heading", "answered"} =>
           main' \in {"rows", "room", "drainHeads"},
         Doomed \/ ~CandidateOpen => Doomed' \/ ~CandidateOpen',
         \A r \in job[k].rows : (r < next => r < next') /\ verdict'[r] = verdict[r]
  PROVE  JobOK(k)'
BY UnitKeeps DEF JobOK

(* A row that a step gives no verdict, while the job it waits for keeps it. *)
LEMMA RowKeeps ==
  ASSUME NEW r \in Row, RowOK(r), verdict'[r] = verdict[r], mode' = mode,
         mirrored \subseteq mirrored', objects \subseteq objects',
         r >= next' => r >= next, CandidateOpen' => CandidateOpen,
         (/\ CandidateOpen' /\ verdict[r] = "pending" /\ r < next'
          /\ r < next => r \in job[Rows[r].hash].rows /\ job[Rows[r].hash].stage # "none")
           => r \in job'[Rows[r].hash].rows /\ job'[Rows[r].hash].stage # "none"
  PROVE  RowOK(r)'
<1>1. r \in Nat
  BY RowFacts
<1>. QED BY <1>1 DEF RowOK, Handled

(* The parts of the invariant in which a step only changes the job of h.    *)
LEMMA StageStep ==
  ASSUME TypeOK, Inv, NEW h \in Hashes, job' \in [Hashes -> JobType],
         \A k \in Hashes : k # h => job'[k] = job[k],
         job'[h].rows = job[h].rows, job'[h].stage # "none",
         UNCHANGED <<mode, bucket, mirrored, verdict, objects, next>>,
         \A k \in Hashes : k # h => unit'[k] = unit[k],
         Doomed => Doomed', CandidateOpen' <=> CandidateOpen,
         \A k \in Hashes : k # h /\ job[k].stage \in {"headRoom", "streamRoom"} => main' = "room",
         \A k \in Hashes : k # h /\ job[k].stage \in {"headRoom", "headQueued", "heading", "answered"}
            => main' \in {"rows", "room", "drainHeads"},
         JobOK(h)', OneWaits', LoopOK'
  PROVE  Inv'
<1>1. ASSUME NEW k \in Hashes PROVE JobOK(k)'
  <2>1. CASE k = h
    BY <2>1
  <2>2. CASE k # h
    <3>1. JobOK(k) /\ job'[k] = job[k] /\ unit'[k] = unit[k]
      BY <2>2 DEF Inv
    <3>. QED BY <2>2, <3>1, JobKeeps
  <2>. QED BY <2>1, <2>2
<1>2. ASSUME NEW r \in Row PROVE RowOK(r)'
  <2>1. Rows[r].hash \in Hashes /\ RowOK(r)
    BY RowFacts DEF Inv
  <2>2. /\ job'[Rows[r].hash].rows = job[Rows[r].hash].rows
        /\ job[Rows[r].hash].stage # "none" => job'[Rows[r].hash].stage # "none"
    BY <2>1
  <2>. QED BY <2>1, <2>2, RowKeeps DEF RowOK
<1>3. \A h_1 \in objects' : bucket'[h_1] = "whole"
  BY DEF Inv
<1>. QED BY <1>1, <1>2, <1>3 DEF Inv

LEMMA WaitsKeep ==
  ASSUME OneWaits,
         \A k \in Hashes : job'[k].stage \in {"headRoom", "streamRoom"}
                              => job[k].stage \in {"headRoom", "streamRoom"}
  PROVE  OneWaits'
BY DEF OneWaits, In

(***************************************************************************)
(* The loop's steps.                                                       *)
(***************************************************************************)

LEMMA FoldRowInv ==
  ASSUME TypeOK, Inv, FoldRow
  PROVE  Inv'
<1>. DEFINE row == Rows[next]
<1>1. /\ next \in Row /\ next \in Nat /\ next' = next + 1 /\ main = "rows"
      /\ UNCHANGED <<mode, unit, bucket, mirrored, verify, main, job, objects, errors>>
  BY RowFacts DEF FoldRow, Looping
<1>2. PICK v \in {"handled", "conflict"} :
        /\ Give({next}, v)
        /\ v = "handled" /\ row.kind = "file" =>
             row.hash \in objects /\ ~MirrorNeeds(row.hash)
  BY DEF FoldRow
<1>3. verdict'[next] = v /\ \A r \in Row : r # next => verdict'[r] = verdict[r]
  BY <1>1, <1>2, GiveFacts
<1>4. Doomed' = Doomed /\ CandidateOpen' = CandidateOpen
  BY <1>1 DEF Doomed, CandidateOpen
<1>5. ASSUME NEW k \in Hashes PROVE JobOK(k)'
  <2>1. JobOK(k) /\ job[k].rows \subseteq Row
    BY DEF Inv, TypeOK
  <2>2. \A r \in job[k].rows : r \in Nat /\ r < next
    BY <2>1, RowFacts DEF JobOK
  <2>3. \A r \in job[k].rows : (r < next => r < next') /\ verdict'[r] = verdict[r]
    BY <1>1, <1>3, <2>1, <2>2
  <2>. QED BY <1>1, <1>4, <2>1, <2>3, JobKeeps DEF JobOK
<1>6. ASSUME NEW r \in Row PROVE RowOK(r)'
  <2>1. RowOK(r) /\ r \in Nat
    BY RowFacts DEF Inv
  <2>2. CASE r = next
    <3>1. mode = "fail" => mode # "off"
      OBVIOUS
    <3>2. Handled(r)' => row.hash \in objects /\ (mode = "fail" => row.hash \in mirrored)
      BY <1>1, <1>2, <1>3, <2>2, <3>1 DEF Handled, MirrorNeeds
    <3>3. r < next' /\ verdict'[r] # "pending"
      BY <1>1, <1>2, <1>3, <2>2
    <3>. QED BY <1>1, <2>1, <2>2, <3>2, <3>3 DEF RowOK
  <2>3. CASE r # next
    <3>1. (r >= next' => r >= next) /\ (r < next' => r < next)
      BY <1>1, <2>1, <2>3
    <3>. QED BY <1>1, <1>3, <1>4, <2>1, <2>3, <3>1, RowKeeps
  <2>. QED BY <2>2, <2>3
<1>7. OneWaits' /\ LoopOK' /\ \A k \in objects' : bucket'[k] = "whole"
  BY <1>1, WaitsKeep DEF Inv, LoopOK
<1>. QED BY <1>5, <1>6, <1>7 DEF Inv

LEMMA AttachRowInv ==
  ASSUME TypeOK, Inv, AttachRow
  PROVE  Inv'
<1>. DEFINE h == Rows[next].hash
<1>1. /\ next \in Row /\ next \in Nat /\ next' = next + 1 /\ main = "rows" /\ h \in Hashes
      /\ Rows[next].kind = "file" /\ job[h].stage # "none" /\ JobGains(h, next)
      /\ UNCHANGED <<mode, unit, bucket, mirrored, verify, main, verdict, objects, errors>>
  BY RowFacts DEF AttachRow, Looping, JobGains
<1>2. /\ job'[h].stage = job[h].stage /\ job'[h].sinks = job[h].sinks
      /\ job'[h].rows = job[h].rows \union {next}
      /\ \A k \in Hashes : k # h => job'[k] = job[k]
  BY <1>1, JobGainsFacts
<1>3. Doomed' = Doomed /\ CandidateOpen' = CandidateOpen
  BY <1>1 DEF Doomed, CandidateOpen
<1>4. \A k \in Hashes : \A r \in job[k].rows : r < next => r < next'
  BY <1>1, RowFacts DEF TypeOK
<1>5. verdict[next] = "pending"
  BY <1>1 DEF Inv, RowOK
<1>6. ASSUME NEW k \in Hashes PROVE JobOK(k)'
  <2>1. JobOK(k)
    BY DEF Inv
  <2>2. CASE k # h
    BY <1>1, <1>2, <1>3, <1>4, <2>1, <2>2, JobKeeps DEF JobOK
  <2>3. CASE k = h
    <3>1. UnitOK(k, unit[k], bucket[k], mirrored)'
      BY <1>1, <2>1, UnitKeeps DEF JobOK
    <3>2. \A r \in job'[h].rows : /\ Rows[r].kind = "file" /\ Rows[r].hash = h
                                  /\ r < next' /\ verdict'[r] = "pending"
      BY <1>1, <1>2, <1>4, <1>5, <2>1, <2>3 DEF JobOK
    <3>. HIDE DEF h
    <3>. QED BY <1>1, <1>2, <1>3, <2>1, <2>3, <3>1, <3>2 DEF JobOK
  <2>. QED BY <2>2, <2>3
<1>7. ASSUME NEW r \in Row PROVE RowOK(r)'
  <2>1. RowOK(r) /\ r \in Nat
    BY RowFacts DEF Inv
  <2>2. CASE r = next
    <3>1. ~(r >= next')
      BY <1>1, <2>2
    <3>. QED BY <1>1, <1>2, <1>5, <2>2, <3>1 DEF RowOK, Handled
  <2>3. CASE r # next
    <3>1. (r >= next' => r >= next) /\ (r < next' => r < next)
      BY <1>1, <2>1, <2>3
    <3>2. Rows[r].hash \in Hashes
      BY RowFacts
    <3>3. /\ job[Rows[r].hash].rows \subseteq job'[Rows[r].hash].rows
          /\ job'[Rows[r].hash].stage = job[Rows[r].hash].stage
      BY <1>2, <3>2
    <3>. QED BY <1>1, <1>3, <2>1, <2>3, <3>1, <3>3, RowKeeps
  <2>. QED BY <2>2, <2>3
<1>8. OneWaits'
  <2>1. \A k \in Hashes : job'[k].stage = job[k].stage
    BY <1>2
  <2>. QED BY <2>1, WaitsKeep DEF Inv
<1>9. LoopOK' /\ \A k \in objects' : bucket'[k] = "whole"
  BY <1>1 DEF Inv, LoopOK
<1>. QED BY <1>6, <1>7, <1>8, <1>9 DEF Inv

LEMMA StartJobInv ==
  ASSUME TypeOK, Inv, StartJob
  PROVE  Inv'
<1>. DEFINE h == Rows[next].hash
            sinks == (IF h \in objects THEN {} ELSE {"s3"})
                       \union (IF MirrorNeeds(h) THEN {"mirror"} ELSE {})
            stage == IF verify /\ h \notin objects THEN "headRoom" ELSE "streamRoom"
<1>1. /\ next \in Row /\ next \in Nat /\ next' = next + 1 /\ main = "rows" /\ h \in Hashes
      /\ Rows[next].kind = "file" /\ job[h].stage = "none" /\ main' = "room"
      /\ job' = [job EXCEPT ![h] = [stage |-> stage, rows |-> {next}, sinks |-> sinks]]
      /\ UNCHANGED <<mode, unit, bucket, mirrored, verify, verdict, objects, errors>>
  BY RowFacts DEF StartJob, Looping
<1>2. /\ sinks \in SUBSET Sinks /\ stage \in {"headRoom", "streamRoom"}
      /\ "s3" \in sinks => h \notin objects
      /\ "s3" \notin sinks => h \in objects
      /\ "mirror" \notin sinks /\ mode # "off" => h \in mirrored
  BY DEF Sinks, MirrorNeeds
<1>. HIDE DEF sinks, stage
<1>3. PICK j : j = [stage |-> stage, rows |-> {next}, sinks |-> sinks]
  OBVIOUS
<1>4. /\ job'[h].stage = stage /\ job'[h].sinks = sinks /\ job'[h].rows = {next}
      /\ \A k \in Hashes : k # h => job'[k] = job[k]
  <2>1. j \in JobType /\ j.stage = stage /\ j.rows = {next} /\ j.sinks = sinks
    BY <1>1, <1>2, <1>3 DEF JobType, Stages
  <2>2. JobIs(h, j)
    BY <1>1, <1>3 DEF JobIs
  <2>. QED BY <1>1, <2>1, <2>2, JobIsFacts
<1>5. Doomed' = Doomed /\ CandidateOpen /\ CandidateOpen'
  BY <1>1 DEF Doomed, CandidateOpen
<1>6. \A k \in Hashes : \A r \in job[k].rows : r < next => r < next'
  BY <1>1, RowFacts DEF TypeOK
<1>7. verdict[next] = "pending"
  BY <1>1 DEF Inv, RowOK
<1>8. ASSUME NEW k \in Hashes PROVE JobOK(k)'
  <2>1. JobOK(k)
    BY DEF Inv
  <2>2. CASE k # h
    BY <1>1, <1>4, <1>5, <1>6, <2>1, <2>2, JobKeeps DEF JobOK
  <2>3. CASE k = h
    <3>1. UnitOK(k, unit[k], bucket[k], mirrored)' /\ unit[h].stage = "idle"
      BY <1>1, <2>1, <2>3, UnitKeeps DEF JobOK
    <3>2. \A r \in job'[h].rows : /\ Rows[r].kind = "file" /\ Rows[r].hash = h
                                  /\ r < next' /\ verdict'[r] = "pending"
      BY <1>1, <1>4, <1>7
    <3>3. "s3" \notin job'[h].sinks => bucket'[h] = "whole"
      BY <1>1, <1>2, <1>4 DEF Inv
    <3>. HIDE DEF h
    <3>. QED BY <1>1, <1>2, <1>4, <2>3, <3>1, <3>2, <3>3 DEF JobOK
  <2>. QED BY <2>2, <2>3
<1>9. ASSUME NEW r \in Row PROVE RowOK(r)'
  <2>1. RowOK(r) /\ r \in Nat
    BY RowFacts DEF Inv
  <2>2. CASE r = next
    <3>1. ~(r >= next')
      BY <1>1, <2>2
    <3>2. job'[h].stage # "none"
      BY <1>2, <1>4
    <3>. QED BY <1>1, <1>4, <1>7, <2>2, <3>1, <3>2 DEF RowOK, Handled
  <2>3. CASE r # next
    <3>1. (r >= next' => r >= next) /\ (r < next' => r < next)
      BY <1>1, <2>1, <2>3
    <3>2. Rows[r].hash \in Hashes
      BY RowFacts
    <3>3. job[Rows[r].hash].stage # "none" => job'[Rows[r].hash] = job[Rows[r].hash]
      BY <1>1, <1>4, <3>2
    <3>4. mirrored \subseteq mirrored' /\ objects \subseteq objects' /\ verdict'[r] = verdict[r]
      BY <1>1
    <3>. HIDE DEF h
    <3>. QED BY <1>1, <1>5, <2>1, <3>1, <3>3, <3>4, RowKeeps
  <2>. QED BY <2>2, <2>3
<1>10. OneWaits'
  <2>1. \A k \in Hashes : k # h => job'[k].stage \notin {"headRoom", "streamRoom"}
    BY <1>1, <1>4 DEF Inv, JobOK
  <2>. QED BY <2>1 DEF OneWaits, In
<1>11. LoopOK' /\ \A k \in objects' : bucket'[k] = "whole"
  BY <1>1 DEF Inv, LoopOK
<1>. QED BY <1>8, <1>9, <1>10, <1>11 DEF Inv

(* The loop and its drains only move main.                                  *)
LEMMA LoopMoves ==
  ASSUME TypeOK, Inv, LeaveLoop \/ DrainHeads \/ DrainStreams
  PROVE  Inv'
<1>1. /\ UNCHANGED <<mode, unit, bucket, mirrored, verify, next, job, verdict, claimed, objects, errors>>
      /\ CandidateOpen /\ main # "room"
  BY DEF LeaveLoop, DrainHeads, DrainStreams, CandidateOpen
<1>2. ASSUME NEW k \in Hashes PROVE JobOK(k)'
  <2>1. JobOK(k)
    BY DEF Inv
  <2>2. job[k].stage \in {"headRoom", "headQueued", "heading", "answered"} =>
          main' \in {"rows", "room", "drainHeads"}
    BY <1>1, <2>1 DEF JobOK, LeaveLoop, DrainHeads, DrainStreams, In
  <2>3. Doomed' = Doomed
    BY <1>1 DEF Doomed
  <2>4. \A r \in job[k].rows : (r < next => r < next') /\ verdict'[r] = verdict[r]
    BY <1>1
  <2>5. job[k].stage \in {"headRoom", "streamRoom"} => main' = "room"
    BY <1>1, <2>1 DEF JobOK
  <2>. QED BY <1>1, <2>1, <2>2, <2>3, <2>4, <2>5, JobKeeps
<1>3. ASSUME NEW r \in Row PROVE RowOK(r)'
  <2>1. RowOK(r)
    BY DEF Inv
  <2>. QED BY <1>1, <2>1 DEF RowOK, Handled
<1>4. OneWaits'
  BY <1>1, WaitsKeep DEF Inv
<1>5. LoopOK'
  BY <1>1 DEF Inv, LoopOK, LeaveLoop, DrainHeads, DrainStreams, Doomed
<1>. QED BY <1>1, <1>2, <1>3, <1>4, <1>5 DEF Inv

LEMMA DispatchHeadInv ==
  ASSUME TypeOK, Inv, NEW h \in Hashes, DispatchHead(h)
  PROVE  Inv'
<1>1. /\ JobMoves(h, "headQueued") /\ "headQueued" \in Stages /\ main = "room" /\ main' = "rows"
      /\ job[h].stage = "headRoom"
      /\ UNCHANGED <<mode, unit, bucket, mirrored, verify, next, verdict, claimed, objects, errors>>
  BY DEF DispatchHead, JobMoves, Stages
<1>2. /\ job' \in [Hashes -> JobType]
      /\ job'[h].stage = "headQueued" /\ job'[h].rows = job[h].rows /\ job'[h].sinks = job[h].sinks
      /\ \A k \in Hashes : k # h => job'[k] = job[k]
  BY <1>1, JobMovesFacts
<1>3. \A k \in Hashes : k # h => job[k].stage \notin {"headRoom", "streamRoom"}
  BY <1>1 DEF Inv, OneWaits, In
<1>4. OneWaits'
  BY <1>2, WaitsKeep DEF Inv
<1>5. Doomed' = Doomed /\ CandidateOpen' = CandidateOpen /\ LoopOK'
  BY <1>1 DEF Doomed, CandidateOpen, Inv, LoopOK
<1>6. JobOK(h)'
  <2>1. JobOK(h)
    BY DEF Inv
  <2>2. UnitOK(h, unit[h], bucket[h], mirrored)'
    BY <1>1, <2>1, UnitKeeps DEF JobOK
  <2>. QED BY <1>1, <1>2, <2>1, <2>2 DEF JobOK
<1>. QED BY <1>1, <1>2, <1>3, <1>4, <1>5, <1>6, StageStep

(***************************************************************************)
(* The pools' steps.                                                       *)
(***************************************************************************)

(* A job that has no unit, and gets none, changes pools or waits in one.    *)
LEMMA MovesInv ==
  ASSUME TypeOK, Inv, NEW h \in Hashes, NEW s \in {"heading", "answered", "queued", "dead"},
         job' \in [Hashes -> JobType], job'[h].stage = s, job'[h].rows = job[h].rows,
         \A k \in Hashes : k # h => job'[k] = job[k],
         job[h].stage \notin {"none", "running"},
         job[h].sinks \subseteq job'[h].sinks \union {"s3"},
         job'[h].sinks \subseteq job[h].sinks,
         job'[h].sinks = job[h].sinks \/ bucket[h] = "whole",
         UNCHANGED <<mode, unit, bucket, mirrored, verdict, objects, next>>,
         \/ main' = main
         \/ main = "room" /\ main' = "rows" /\ job[h].stage \in {"headRoom", "streamRoom"},
         Doomed => Doomed', LoopOK',
         s \in {"heading", "answered"} => main' \in {"rows", "room", "drainHeads"},
         s = "dead" => Doomed'
  PROVE  Inv'
<1>1. OneWaits'
  <2>1. \A k \in Hashes : job'[k].stage \in {"headRoom", "streamRoom"}
                              => job[k].stage \in {"headRoom", "streamRoom"}
    OBVIOUS
  <2>. QED BY <2>1, WaitsKeep DEF Inv
<1>2. CandidateOpen' <=> CandidateOpen
  BY DEF CandidateOpen
<1>3. JobOK(h)'
  <2>1. JobOK(h)
    BY DEF Inv
  <2>2. UnitOK(h, unit[h], bucket[h], mirrored)'
    BY <2>1, UnitKeeps DEF JobOK
  <2>3. /\ "s3" \in job'[h].sinks => h \notin objects
        /\ "s3" \notin job'[h].sinks => bucket[h] = "whole"
        /\ "mirror" \notin job'[h].sinks /\ mode # "off" => h \in mirrored
    BY <2>1 DEF JobOK
  <2>. QED BY <2>1, <2>2, <2>3 DEF JobOK
<1>4. \A k \in Hashes : k # h /\ job[k].stage \in {"headRoom", "streamRoom"} => main' = "room"
  BY DEF Inv, OneWaits, In, JobOK
<1>5. \A k \in Hashes : k # h /\ job[k].stage \in {"headRoom", "headQueued", "heading", "answered"}
         => main' \in {"rows", "room", "drainHeads"}
  BY DEF Inv, JobOK
<1>. QED BY <1>1, <1>2, <1>3, <1>4, <1>5, StageStep

LEMMA DispatchUploadInv ==
  ASSUME TypeOK, Inv, NEW h \in Hashes, DispatchUpload(h)
  PROVE  Inv'
<1>1. /\ JobMoves(h, "queued") /\ "queued" \in Stages
      /\ \/ main = "room" /\ job[h].stage = "streamRoom" /\ main' = "rows"
         \/ job[h].stage = "answered" /\ main' = main
      /\ UNCHANGED <<mode, unit, bucket, mirrored, verify, next, verdict, claimed, objects, errors>>
  BY DEF DispatchUpload, JobMoves, Stages
<1>2. /\ job' \in [Hashes -> JobType]
      /\ job'[h].stage = "queued" /\ job'[h].rows = job[h].rows /\ job'[h].sinks = job[h].sinks
      /\ \A k \in Hashes : k # h => job'[k] = job[k]
  BY <1>1, JobMovesFacts
<1>3. Doomed' = Doomed /\ LoopOK'
  BY <1>1 DEF Doomed, Inv, LoopOK
<1>. QED BY <1>1, <1>2, <1>3, MovesInv

LEMMA StartHeadInv ==
  ASSUME TypeOK, Inv, NEW h \in Hashes, StartHead(h)
  PROVE  Inv'
<1>1. /\ JobMoves(h, "heading") /\ "heading" \in Stages /\ job[h].stage = "headQueued"
      /\ UNCHANGED <<mode, unit, bucket, mirrored, verify, next, main, verdict, claimed, objects, errors>>
  BY DEF StartHead, JobMoves, Stages
<1>2. /\ job' \in [Hashes -> JobType]
      /\ job'[h].stage = "heading" /\ job'[h].rows = job[h].rows /\ job'[h].sinks = job[h].sinks
      /\ \A k \in Hashes : k # h => job'[k] = job[k]
  BY <1>1, JobMovesFacts
<1>3. Doomed' = Doomed /\ LoopOK' /\ main' \in {"rows", "room", "drainHeads"}
  BY <1>1 DEF Doomed, Inv, LoopOK, JobOK
<1>. QED BY <1>1, <1>2, <1>3, MovesInv

LEMMA HeadFailsInv ==
  ASSUME TypeOK, Inv, NEW h \in Hashes, HeadFails(h)
  PROVE  Inv'
<1>1. /\ JobMoves(h, "dead") /\ "dead" \in Stages /\ job[h].stage = "heading"
      /\ UNCHANGED <<mode, unit, bucket, mirrored, verify, next, main, verdict, claimed, objects>>
  BY DEF HeadFails, JobMoves, Stages
<1>2. /\ job' \in [Hashes -> JobType]
      /\ job'[h].stage = "dead" /\ job'[h].rows = job[h].rows /\ job'[h].sinks = job[h].sinks
      /\ \A k \in Hashes : k # h => job'[k] = job[k]
  BY <1>1, JobMovesFacts
<1>3. errors'.heads # "none" /\ main # "drainStreams"
  BY <1>1 DEF HeadFails, TypeOK, Inv, JobOK
<1>4. Doomed' /\ LoopOK'
  BY <1>1, <1>3 DEF Doomed, LoopOK
<1>. QED BY <1>1, <1>2, <1>4, MovesInv

LEMMA HeadAnswersInv ==
  ASSUME TypeOK, Inv, NEW h \in Hashes, HeadAnswers(h)
  PROVE  Inv'
<1>1. /\ job[h].stage = "heading" /\ job[h] \in JobType /\ job \in [Hashes -> JobType]
      /\ UNCHANGED <<mode, unit, bucket, mirrored, verify, next, main, verdict, claimed, objects, errors>>
  BY DEF HeadAnswers, TypeOK, JobType
<1>2. Doomed' = Doomed /\ LoopOK' /\ main' \in {"rows", "room", "drainHeads"}
  BY <1>1 DEF Doomed, Inv, LoopOK, JobOK
<1>3. CASE job' = [job EXCEPT ![h].stage = "answered"]
  <2>1. JobMoves(h, "answered") /\ "answered" \in Stages
    BY <1>3 DEF JobMoves, Stages
  <2>2. /\ job' \in [Hashes -> JobType]
        /\ job'[h].stage = "answered" /\ job'[h].rows = job[h].rows /\ job'[h].sinks = job[h].sinks
        /\ \A k \in Hashes : k # h => job'[k] = job[k]
    BY <2>1, JobMovesFacts
  <2>. QED BY <1>1, <1>2, <2>2, MovesInv
<1>4. CASE /\ bucket[h] = "whole" /\ "mirror" \in job[h].sinks
           /\ job' = [job EXCEPT ![h].stage = "answered", ![h].sinks = {"mirror"}]
  <2>1. PICK j : j = [job[h] EXCEPT !.stage = "answered", !.sinks = {"mirror"}]
    OBVIOUS
  <2>2. j \in JobType /\ j.stage = "answered" /\ j.rows = job[h].rows /\ j.sinks = {"mirror"}
    BY <1>1, <2>1 DEF JobType, Stages, Sinks
  <2>3. JobIs(h, j)
    BY <1>1, <1>4, <2>1 DEF JobIs
  <2>4. /\ job' \in [Hashes -> JobType]
        /\ job'[h].stage = "answered" /\ job'[h].rows = job[h].rows /\ job'[h].sinks = {"mirror"}
        /\ \A k \in Hashes : k # h => job'[k] = job[k]
    BY <2>2, <2>3, JobIsFacts
  <2>5. job[h].sinks \subseteq job'[h].sinks \union {"s3"} /\ job'[h].sinks \subseteq job[h].sinks
    BY <1>1, <1>4, <2>4 DEF JobType, Sinks
  <2>. QED BY <1>1, <1>2, <1>4, <2>4, <2>5, MovesInv
<1>. QED BY <1>3, <1>4 DEF HeadAnswers

LEMMA StartUploadInv ==
  ASSUME TypeOK, Inv, NEW h \in Hashes, StartUpload(h)
  PROVE  Inv'
<1>1. /\ JobMoves(h, "running") /\ "running" \in Stages /\ job[h].stage = "queued"
      /\ unit' = [unit EXCEPT ![h] = Entered(job[h].sinks)]
      /\ job[h].sinks \in SUBSET Sinks
      /\ UNCHANGED <<mode, bucket, mirrored, verify, next, main, verdict, claimed, objects, errors>>
  BY DEF StartUpload, JobMoves, Stages, TypeOK
<1>2. /\ job' \in [Hashes -> JobType]
      /\ job'[h].stage = "running" /\ job'[h].rows = job[h].rows /\ job'[h].sinks = job[h].sinks
      /\ \A k \in Hashes : k # h => job'[k] = job[k]
  BY <1>1, JobMovesFacts
<1>3. /\ unit'[h].stage = "stat" /\ unit'[h].sinks = job[h].sinks
      /\ "s3" \notin unit'[h].sinks => unit'[h].sent
      /\ \A k \in Hashes : k # h => unit'[k] = unit[k]
  BY <1>1, EnteredFacts DEF TypeOK
<1>4. JobOK(h)'
  <2>1. JobOK(h)
    BY DEF Inv
  <2>2. UnitOK(h, unit[h], bucket[h], mirrored)'
    BY <1>3 DEF UnitOK
  <2>. QED BY <1>1, <1>2, <1>3, <2>1, <2>2 DEF JobOK
<1>5. Doomed' = Doomed /\ CandidateOpen' = CandidateOpen /\ LoopOK'
  BY <1>1 DEF Doomed, CandidateOpen, Inv, LoopOK
<1>6. OneWaits'
  BY <1>2, WaitsKeep DEF Inv
<1>7. \A k \in Hashes : k # h /\ job[k].stage \in {"headRoom", "streamRoom"} => main' = "room"
  BY <1>1 DEF Inv, JobOK
<1>10. \A k \in Hashes : k # h /\ job[k].stage \in {"headRoom", "headQueued", "heading", "answered"}
         => main' \in {"rows", "room", "drainHeads"}
  BY <1>1 DEF Inv, JobOK
<1>8. /\ job'[h].stage # "none" /\ (Doomed => Doomed')
      /\ CandidateOpen' <=> CandidateOpen
  BY <1>2, <1>5
<1>9. UNCHANGED <<mode, bucket, mirrored, verdict, objects, next>>
  BY <1>1
<1>. QED BY <1>2, <1>3, <1>4, <1>5, <1>6, <1>7, <1>8, <1>9, <1>10, StageStep

(* A unit that comes to "ok" or "gap" leaves the object whole in S3, and in *)
(* the mirror when a mirror failure may not be ignored.                     *)
LEMMA StoredWhenDone ==
  ASSUME TypeOK, NEW h \in Hashes, JobOK(h), job[h].stage = "running", Settled(h),
         Outcome(h) \in {"ok", "gap"}
  PROVE  bucket[h] = "whole" /\ (mode = "fail" => h \in mirrored)
<1>. DEFINE u == unit[h]
<1>1. /\ u.stage = "streaming" /\ u.sinks = job[h].sinks
      /\ \A s \in u.sinks : u.at[s] \in {"ok", "bad"}
      /\ UnitOK(h, u, bucket[h], mirrored)
  BY DEF Settled, JobOK
<1>2. u.at["s3"] # "bad" /\ (mode = "fail" => u.at["mirror"] # "bad")
  <2>1. ~("s3" \in u.sinks /\ u.source = "failed") /\ u.at["s3"] # "bad"
    BY DEF Outcome
  <2>2. ASSUME mode = "fail", u.at["mirror"] = "bad"
        PROVE  FALSE
    BY <2>1, <2>2 DEF Outcome
  <2>. QED BY <2>1, <2>2
<1>3. bucket[h] = "whole"
  <2>1. CASE "s3" \in u.sinks
    BY <1>1, <1>2, <2>1 DEF UnitOK
  <2>2. CASE "s3" \notin u.sinks
    BY <1>1, <2>2 DEF JobOK
  <2>. QED BY <2>1, <2>2
<1>4. ASSUME mode = "fail"
      PROVE  h \in mirrored
  <2>1. CASE "mirror" \in u.sinks
    BY <1>1, <1>2, <1>4, <2>1 DEF UnitOK
  <2>2. CASE "mirror" \notin u.sinks
    BY <1>1, <1>4, <2>2 DEF JobOK
  <2>. QED BY <2>1, <2>2
<1>. QED BY <1>3, <1>4

(* A job ends and settles its rows, as handled only when its object and its *)
(* file are in place.                                                       *)
LEMMA JobSettles ==
  ASSUME TypeOK, Inv, NEW h \in Hashes, NEW v \in {"handled", "failed"},
         JobIs(h, NoJob), Give(job[h].rows, v),
         unit'[h].stage = "idle", \A k \in Hashes : k # h => unit'[k] = unit[k],
         UNCHANGED <<mode, bucket, mirrored, next, main, errors>>,
         objects' = IF v = "handled" THEN objects \union {h} ELSE objects,
         v = "handled" => bucket[h] = "whole" /\ (mode = "fail" => h \in mirrored),
         CandidateOpen
  PROVE  Inv'
<1>1. /\ job'[h].stage = "none" /\ job'[h].rows = {}
      /\ \A k \in Hashes : k # h => job'[k] = job[k]
  BY JobIsFacts, NoJobFacts
<1>2. /\ \A r \in job[h].rows \intersect Row : verdict'[r] = v
      /\ \A r \in Row \ job[h].rows : verdict'[r] = verdict[r]
  BY GiveFacts
<1>3. \A k \in Hashes : /\ job[k].rows \subseteq Row
                        /\ \A r \in job[k].rows : Rows[r].hash = k /\ r < next
  BY DEF TypeOK, Inv, JobOK
<1>4. Doomed' = Doomed /\ CandidateOpen'
  BY DEF Doomed, CandidateOpen
<1>5. ASSUME NEW k \in Hashes PROVE JobOK(k)'
  <2>1. JobOK(k)
    BY DEF Inv
  <2>2. CASE k = h
    <3>1. UnitOK(h, unit[h], bucket[h], mirrored)'
      BY DEF UnitOK
    <3>. QED BY <1>1, <2>2, <3>1 DEF JobOK
  <2>3. CASE k # h
    <3>1. \A r \in job[k].rows : (r < next => r < next') /\ verdict'[r] = verdict[r]
      BY <1>2, <1>3, <2>3
    <3>2. k \in objects' => k \in objects
      BY <2>3
    <3>3. job'[k] = job[k] /\ unit'[k] = unit[k]
      BY <1>1, <2>3
    <3>4. (Doomed \/ ~CandidateOpen) => Doomed' \/ ~CandidateOpen'
      BY <1>4
    <3>5. /\ job[k].stage \in {"headRoom", "streamRoom"} => main' = "room"
          /\ job[k].stage \in {"headRoom", "headQueued", "heading", "answered"} =>
               main' \in {"rows", "room", "drainHeads"}
      BY <2>1 DEF JobOK
    <3>. QED BY <2>1, <3>1, <3>2, <3>3, <3>4, <3>5, JobKeeps
  <2>. QED BY <2>2, <2>3
<1>6. ASSUME NEW r \in Row PROVE RowOK(r)'
  <2>1. RowOK(r) /\ Rows[r].hash \in Hashes
    BY RowFacts DEF Inv
  <2>2. CASE r \in job[h].rows
    <3>1. verdict'[r] = v /\ Rows[r].hash = h /\ r < next /\ next' = next
      BY <1>2, <1>3, <2>2
    <3>2. r \in Nat /\ next \in Nat
      BY RowFacts DEF TypeOK
    <3>. QED BY <3>1, <3>2 DEF RowOK, Handled
  <2>3. CASE r \notin job[h].rows
    <3>1. verdict'[r] = verdict[r]
      BY <1>2, <2>3
    <3>2. CASE Rows[r].hash = h
      BY <2>1, <2>3, <3>1, <3>2 DEF RowOK, Handled
    <3>3. CASE Rows[r].hash # h
      <4>1. job'[Rows[r].hash] = job[Rows[r].hash]
        BY <1>1, <2>1, <3>3
      <4>. QED BY <2>1, <3>1, <4>1 DEF RowOK, Handled, CandidateOpen
    <3>. QED BY <3>2, <3>3
  <2>. QED BY <2>2, <2>3
<1>7. OneWaits'
  <2>1. \A k \in Hashes : job'[k].stage \in {"headRoom", "streamRoom"}
                              => job[k].stage \in {"headRoom", "streamRoom"}
    BY <1>1
  <2>. QED BY <2>1, WaitsKeep DEF Inv
<1>8. LoopOK' /\ \A k \in objects' : bucket'[k] = "whole"
  BY DEF Inv, LoopOK, Doomed
<1>. QED BY <1>5, <1>6, <1>7, <1>8 DEF Inv

LEMMA HeadAdoptsInv ==
  ASSUME TypeOK, Inv, NEW h \in Hashes, HeadAdopts(h)
  PROVE  Inv'
<1>1. /\ JobIs(h, NoJob) /\ Give(job[h].rows, "handled") /\ job[h].stage = "heading"
      /\ bucket[h] = "whole" /\ "mirror" \notin job[h].sinks
      /\ objects' = objects \union {h}
      /\ UNCHANGED <<mode, unit, bucket, mirrored, verify, next, main, claimed, errors>>
  BY DEF HeadAdopts, JobIs
<1>2. JobOK(h)
  BY DEF Inv
<1>3. unit'[h].stage = "idle" /\ CandidateOpen /\ (mode = "fail" => h \in mirrored)
  <2>1. unit[h].stage = "idle"
    BY <1>1, <1>2, UnitFacts DEF JobOK
  <2>2. main \in {"rows", "room", "drainHeads"}
    BY <1>1, <1>2 DEF JobOK
  <2>3. mode = "fail" => h \in mirrored
    BY <1>1, <1>2 DEF JobOK
  <2>. QED BY <1>1, <2>1, <2>2, <2>3 DEF CandidateOpen
<1>4. \A k \in Hashes : k # h => unit'[k] = unit[k]
  BY <1>1
<1>. QED BY <1>1, <1>3, <1>4, JobSettles

(* The job is over, and no one is told: the call threw already, or has to.  *)
LEMMA JobDies ==
  ASSUME TypeOK, Inv, NEW h \in Hashes, job[h].stage = "running", JobMoves(h, "dead"),
         unit' = [unit EXCEPT ![h] = Idle],
         UNCHANGED <<mode, bucket, mirrored, next, main, verdict, objects>>,
         Doomed => Doomed', Doomed' \/ ~CandidateOpen, LoopOK'
  PROVE  Inv'
<1>1. /\ job' \in [Hashes -> JobType]
      /\ job'[h].stage = "dead" /\ job'[h].rows = job[h].rows /\ job'[h].sinks = job[h].sinks
      /\ \A k \in Hashes : k # h => job'[k] = job[k]
  BY JobMovesFacts DEF Stages
<1>2. unit'[h].stage = "idle" /\ \A k \in Hashes : k # h => unit'[k] = unit[k]
  BY IdleFacts DEF TypeOK
<1>3. CandidateOpen' <=> CandidateOpen
  BY DEF CandidateOpen
<1>4. JobOK(h)'
  <2>1. JobOK(h)
    BY DEF Inv
  <2>2. UnitOK(h, unit[h], bucket[h], mirrored)'
    BY <1>2 DEF UnitOK
  <2>. QED BY <1>1, <1>2, <1>3, <2>1, <2>2 DEF JobOK
<1>5. OneWaits'
  <2>1. \A k \in Hashes : job'[k].stage \in {"headRoom", "streamRoom"}
                              => job[k].stage \in {"headRoom", "streamRoom"}
    BY <1>1
  <2>. QED BY <2>1, WaitsKeep DEF Inv
<1>6. \A k \in Hashes : k # h /\ job[k].stage \in {"headRoom", "streamRoom"} => main' = "room"
  BY DEF Inv, JobOK
<1>7. \A k \in Hashes : k # h /\ job[k].stage \in {"headRoom", "headQueued", "heading", "answered"}
         => main' \in {"rows", "room", "drainHeads"}
  BY DEF Inv, JobOK
<1>. QED BY <1>1, <1>2, <1>3, <1>4, <1>5, <1>6, <1>7, StageStep

LEMMA JobStoresInv ==
  ASSUME TypeOK, Inv, NEW h \in Hashes, JobStores(h)
  PROVE  Inv'
<1>1. /\ job[h].stage = "running" /\ unit' = [unit EXCEPT ![h] = Idle]
      /\ UNCHANGED <<mode, bucket, mirrored, verify, next, main, claimed, errors>>
  BY DEF JobStores
<1>2. bucket[h] = "whole" /\ (mode = "fail" => h \in mirrored)
  BY StoredWhenDone DEF JobStores, Inv
<1>3. unit'[h].stage = "idle" /\ \A k \in Hashes : k # h => unit'[k] = unit[k]
  BY <1>1, IdleFacts DEF TypeOK
<1>4. CASE CandidateOpen
  <2>1. JobIs(h, NoJob) /\ Give(job[h].rows, "handled") /\ objects' = objects \union {h}
    BY <1>4 DEF JobStores, JobIs
  <2>. QED BY <1>1, <1>2, <1>3, <1>4, <2>1, JobSettles
<1>5. CASE ~CandidateOpen
  <2>1. JobMoves(h, "dead") /\ UNCHANGED <<verdict, objects>>
    BY <1>5 DEF JobStores, JobMoves
  <2>2. Doomed' = Doomed /\ LoopOK'
    BY <1>1 DEF Doomed, Inv, LoopOK
  <2>. QED BY <1>1, <1>5, <2>1, <2>2, JobDies
<1>. QED BY <1>4, <1>5

LEMMA JobIsFatalInv ==
  ASSUME TypeOK, Inv, NEW h \in Hashes, JobIsFatal(h)
  PROVE  Inv'
<1>1. /\ job[h].stage = "running" /\ unit' = [unit EXCEPT ![h] = Idle] /\ JobMoves(h, "dead")
      /\ UNCHANGED <<mode, bucket, mirrored, verify, next, main, claimed, verdict, objects>>
      /\ Outcome(h) \in {"S3UploadFatal", "MirrorRequired"}
  BY DEF JobIsFatal, JobMoves
<1>2. errors'.streams # "none" /\ errors'.heads = errors.heads
  BY <1>1 DEF JobIsFatal, TypeOK
<1>3. Doomed' /\ LoopOK'
  BY <1>1, <1>2 DEF Doomed, Inv, LoopOK
<1>. QED BY <1>1, <1>3, JobDies

LEMMA JobLeavesRowsDirtyInv ==
  ASSUME TypeOK, Inv, NEW h \in Hashes, JobLeavesRowsDirty(h)
  PROVE  Inv'
<1>1. /\ unit' = [unit EXCEPT ![h] = Idle] /\ JobIs(h, NoJob)
      /\ UNCHANGED <<mode, bucket, mirrored, verify, next, main, claimed, objects, errors>>
  BY DEF JobLeavesRowsDirty, JobIs
<1>2. unit'[h].stage = "idle" /\ \A k \in Hashes : k # h => unit'[k] = unit[k]
  BY <1>1, IdleFacts DEF TypeOK
<1>3. CASE CandidateOpen
  <2>1. Give(job[h].rows, "failed")
    BY <1>3 DEF JobLeavesRowsDirty
  <2>. QED BY <1>1, <1>2, <1>3, <2>1, JobSettles
<1>4. CASE ~CandidateOpen
  <2>1. verdict' = verdict /\ Doomed' = Doomed /\ ~CandidateOpen'
    BY <1>1, <1>4 DEF JobLeavesRowsDirty, Doomed, CandidateOpen
  <2>2. /\ job'[h].stage = "none" /\ job'[h].rows = {}
        /\ \A k \in Hashes : k # h => job'[k] = job[k]
    BY <1>1, JobIsFacts, NoJobFacts
  <2>3. ASSUME NEW k \in Hashes PROVE JobOK(k)'
    <3>1. JobOK(k)
      BY DEF Inv
    <3>2. CASE k = h
      <4>1. UnitOK(h, unit[h], bucket[h], mirrored)'
        BY <1>2 DEF UnitOK
      <4>. QED BY <1>2, <2>2, <3>2, <4>1 DEF JobOK
    <3>3. CASE k # h
      <4>1. job'[k] = job[k] /\ unit'[k] = unit[k]
        BY <1>2, <2>2, <3>3
      <4>2. /\ job[k].stage \in {"headRoom", "streamRoom"} => main' = "room"
            /\ job[k].stage \in {"headRoom", "headQueued", "heading", "answered"} =>
                 main' \in {"rows", "room", "drainHeads"}
        BY <1>1, <3>1 DEF JobOK
      <4>. QED BY <1>1, <2>1, <3>1, <4>1, <4>2, JobKeeps
    <3>. QED BY <3>2, <3>3
  <2>4. ASSUME NEW r \in Row PROVE RowOK(r)'
    <3>1. RowOK(r)
      BY DEF Inv
    <3>. QED BY <1>1, <2>1, <3>1 DEF RowOK, Handled
  <2>5. OneWaits'
    <3>1. \A k \in Hashes : job'[k].stage \in {"headRoom", "streamRoom"}
                                => job[k].stage \in {"headRoom", "streamRoom"}
      BY <2>2
    <3>. QED BY <3>1, WaitsKeep DEF Inv
  <2>6. LoopOK' /\ \A k \in objects' : bucket'[k] = "whole"
    BY <1>1 DEF Inv, LoopOK, Doomed
  <2>. QED BY <2>3, <2>4, <2>5, <2>6 DEF Inv
<1>. QED BY <1>3, <1>4

LEMMA StreamInv ==
  ASSUME TypeOK, Inv, NEW h \in Hashes, NEW u, StreamsTo(h, u), UNCHANGED poolVars
  PROVE  Inv'
<1>1. /\ UNCHANGED <<mode, verify, next, main, job, verdict, claimed, objects, errors>>
      /\ unit'[h] = u /\ u.sinks = unit[h].sinks /\ u.stage # "idle" /\ unit[h].stage # "idle"
      /\ \A k \in Hashes : k # h => unit'[k] = unit[k] /\ bucket'[k] = bucket[k]
      /\ "s3" \notin u.sinks => bucket' = bucket
      /\ mirrored \subseteq mirrored'
      /\ UnitOK(h, u, bucket'[h], mirrored')
  BY DEF StreamsTo, poolVars, TypeOK
<1>2. Doomed' = Doomed /\ CandidateOpen' = CandidateOpen
  BY <1>1 DEF Doomed, CandidateOpen
<1>3. job[h].stage = "running" /\ job[h].sinks = u.sinks /\ JobOK(h)
  BY <1>1 DEF Inv, JobOK
<1>4. ASSUME NEW k \in Hashes PROVE JobOK(k)'
  <2>1. JobOK(k)
    BY DEF Inv
  <2>2. CASE k = h
    <3>1. UnitOK(h, unit[h], bucket[h], mirrored)'
      BY <1>1 DEF UnitOK
    <3>2. "s3" \notin job[h].sinks => bucket'[h] = "whole"
      BY <1>1, <1>3 DEF JobOK
    <3>. QED BY <1>1, <1>3, <2>2, <3>1, <3>2 DEF JobOK
  <2>3. CASE k # h
    <3>1. unit'[k] = unit[k] /\ bucket'[k] = bucket[k]
      BY <1>1, <2>3
    <3>2. /\ job[k].stage \in {"headRoom", "streamRoom"} => main' = "room"
          /\ job[k].stage \in {"headRoom", "headQueued", "heading", "answered"} =>
               main' \in {"rows", "room", "drainHeads"}
      BY <1>1, <2>1 DEF JobOK
    <3>. QED BY <1>1, <1>2, <2>1, <3>1, <3>2, JobKeeps
  <2>. QED BY <2>2, <2>3
<1>5. ASSUME NEW r \in Row PROVE RowOK(r)'
  <2>1. RowOK(r)
    BY DEF Inv
  <2>. QED BY <1>1, <1>2, <2>1 DEF RowOK, Handled
<1>6. \A k \in objects' : bucket'[k] = "whole"
  <2>1. ASSUME NEW k \in objects PROVE bucket'[k] = "whole"
    <3>1. bucket[k] = "whole" /\ k \in Hashes
      BY DEF Inv, TypeOK
    <3>2. k = h => "s3" \notin u.sinks
      BY <1>3 DEF JobOK
    <3>. QED BY <1>1, <3>1, <3>2
  <2>. QED BY <1>1, <2>1
<1>7. OneWaits' /\ LoopOK'
  BY <1>1, <1>2, WaitsKeep DEF Inv, LoopOK
<1>. QED BY <1>4, <1>5, <1>6, <1>7 DEF Inv

LEMMA NextInv ==
  ASSUME TypeOK, Inv, Next
  PROVE  TypeOK' /\ Inv'
<1>1. CASE Loop
  <2>1. TypeOK'
    BY <1>1, LoopTypes
  <2>2. Inv'
    BY <1>1, FoldRowInv, AttachRowInv, StartJobInv, LoopMoves, DispatchHeadInv DEF Loop
  <2>. QED BY <2>1, <2>2
<1>2. ASSUME NEW h \in Hashes,
             DispatchUpload(h) \/ HeadJob(h) \/ StartUpload(h) \/ JobEnds(h)
      PROVE  TypeOK' /\ Inv'
  <2>1. TypeOK'
    BY <1>2, PoolTypes
  <2>2. Inv'
    BY <1>2, DispatchUploadInv, StartHeadInv, HeadFailsInv, HeadAdoptsInv, HeadAnswersInv,
       StartUploadInv, JobStoresInv, JobLeavesRowsDirtyInv, JobIsFatalInv DEF HeadJob, JobEnds
  <2>. QED BY <2>1, <2>2
<1>3. ASSUME NEW h \in Hashes, Streaming(h), UNCHANGED poolVars
      PROVE  TypeOK' /\ Inv'
  <2>1. PICK u : StreamsTo(h, u)
    BY <1>3, StreamingStep DEF Inv, JobOK
  <2>. QED BY <1>3, <2>1, StreamTypes, StreamInv
<1>. QED BY <1>1, <1>2, <1>3 DEF Next

LEMMA StutterInv ==
  ASSUME TypeOK, Inv, UNCHANGED vars
  PROVE  TypeOK' /\ Inv'
<1>1. UNCHANGED <<mode, unit, bucket, mirrored, verify, next, main, job, verdict, claimed,
                  objects, errors>>
  BY DEF vars, poolVars
<1>2. TypeOK'
  BY <1>1 DEF TypeOK
<1>3. Inv'
  BY <1>1 DEF Inv, JobOK, UnitOK, OneWaits, In, RowOK, LoopOK, Doomed, CandidateOpen, Handled
<1>. QED BY <1>2, <1>3

LEMMA Invariant == Spec => [](TypeOK /\ Inv)
<1>1. TypeOK /\ Inv /\ [Next]_vars => TypeOK' /\ Inv'
  BY NextInv, StutterInv
<1>. QED BY InitOK, <1>1, PTL DEF Spec

(***************************************************************************)
(* The theorems.                                                           *)
(***************************************************************************)

(* Every unit, job, row and error box stays within its type, whatever the   *)
(* pools and the streams do.                                                *)
THEOREM TypeCorrect == Spec => []TypeOK
BY Invariant, PTL

(* A row folded into the candidate names bytes that S3 holds whole: the     *)
(* dedup, the HEADs, the retries and the tee of apply-local-changes.ts and  *)
(* mirror-sink.ts lose none of them.                                        *)
THEOREM CommittedIsStoredHolds == Spec => []CommittedIsStored
<1>1. Inv => CommittedIsStored
  BY DEF Inv, RowOK, CommittedIsStored, Handled
<1>. QED BY Invariant, <1>1, PTL

(* When the call returns in "fail" mode, every file it committed stands in  *)
(* the mirror.                                                              *)
THEOREM CleanSyncIsMirroredHolds == Spec => []CleanSyncIsMirrored
<1>1. Inv => CleanSyncIsMirrored
  BY DEF Inv, RowOK, CleanSyncIsMirrored
<1>. QED BY Invariant, <1>1, PTL

(* A source that fails costs the rows of its unit, whatever its sinks       *)
(* report.                                                                  *)
THEOREM SourceFailureIsPerRowHolds == Spec => []SourceFailureIsPerRow
<1>1. TypeOK /\ Inv => SourceFailureIsPerRow
  BY DEF Inv, JobOK, UnitOK, Settled, Outcome, SourceFailureIsPerRow
<1>. QED BY Invariant, <1>1, PTL

(* A mirror that may be ignored costs neither the rows nor the run: S3      *)
(* holds the object when the unit has settled.                              *)
THEOREM IgnoredMirrorIsAGapHolds == Spec => []IgnoredMirrorIsAGap
<1>1. ASSUME TypeOK, Inv, NEW h \in Hashes, Settled(h), mode = "ignore",
             unit[h].broke = {"mirror"}, "s3" \in unit[h].sinks
      PROVE  Outcome(h) \in {"again", "gap"} /\ bucket[h] = "whole"
  <2>. DEFINE u == unit[h]
  <2>1. UnitOK(h, u, bucket[h], mirrored) /\ u.stage = "streaming"
    BY <1>1 DEF Inv, JobOK, Settled
  <2>2. u.source # "failed" /\ u.at["mirror"] = "bad" /\ "s3" \notin u.torn
    BY <1>1, <2>1 DEF UnitOK, Sinks
  <2>3. u.at["s3"] = "ok"
    BY <1>1, <2>1, <2>2 DEF UnitOK, Settled
  <2>4. bucket[h] = "whole" /\ u.sent
    BY <2>1, <2>3 DEF UnitOK
  <2>. QED BY <1>1, <2>2, <2>3, <2>4 DEF Outcome
<1>2. TypeOK /\ Inv => IgnoredMirrorIsAGap
  BY <1>1 DEF IgnoredMirrorIsAGap
<1>. QED BY Invariant, <1>2, PTL

(* Nothing short of the whole ciphertext is ever published, in S3 or in the *)
(* mirror: a branch cut short fails its consumer.                           *)
THEOREM SinksPublishAllHolds == Spec => SinksPublishAll
<1>. DEFINE Whole == \A h \in Hashes :
                       /\ bucket'[h] # bucket[h] => unit[h].got["s3"] = Chunks
                       /\ h \in mirrored' \ mirrored => unit[h].got["mirror"] = Chunks
<1>1. ASSUME TypeOK, Inv, Next
      PROVE  Whole
  <2>1. CASE UNCHANGED <<bucket, mirrored>>
    BY <2>1
  <2>2. ASSUME NEW h \in Hashes, Streaming(h)
        PROVE  Whole
    <3>1. PICK u : StreamsTo(h, u)
      BY <1>1, <2>2, StreamingStep DEF Inv, JobOK
    <3>. QED BY <3>1 DEF StreamsTo
  <2>3. CASE Loop
    <3>1. UNCHANGED <<bucket, mirrored>>
      BY <2>3 DEF Loop, FoldRow, AttachRow, StartJob, LeaveLoop, DrainHeads, DrainStreams,
                  DispatchHead
    <3>. QED BY <2>1, <3>1
  <2>4. ASSUME NEW h \in Hashes,
               DispatchUpload(h) \/ HeadJob(h) \/ StartUpload(h) \/ JobEnds(h)
        PROVE  Whole
    <3>1. UNCHANGED <<bucket, mirrored>>
      BY <2>4 DEF DispatchUpload, HeadJob, StartHead, HeadFails, HeadAdopts, HeadAnswers,
                  StartUpload, JobEnds, JobStores, JobLeavesRowsDirty, JobIsFatal
    <3>. QED BY <2>1, <3>1
  <2>. QED BY <1>1, <2>2, <2>3, <2>4 DEF Next
<1>2. TypeOK /\ Inv /\ [Next]_vars => [Whole]_vars
  BY <1>1
<1>. QED BY Invariant, <1>2, PTL DEF Spec, SinksPublishAll

(***************************************************************************)
(* The refinement.                                                         *)
(***************************************************************************)

(* Once every row was passed and every pool is empty without an error, no   *)
(* row is without a verdict.                                                *)
LEMMA NothingIsOpen ==
  ASSUME TypeOK, Inv, DrainStreams, main' = "returned", NEW r \in Row
  PROVE  verdict[r] # "pending"
<1>1. /\ main = "drainStreams" /\ In({"queued", "running"}) = {}
      /\ ~Doomed /\ next \notin Row /\ CandidateOpen
  BY DEF DrainStreams, Inv, LoopOK, Doomed, CandidateOpen
<1>2. r < next
  BY <1>1, RowFacts DEF TypeOK
<1>3. SUFFICES ASSUME verdict[r] = "pending" PROVE FALSE
  OBVIOUS
<1>. DEFINE h == Rows[r].hash
<1>4. h \in Hashes /\ job[h].stage # "none"
  BY <1>1, <1>2, <1>3, RowFacts DEF Inv, RowOK
<1>5. job[h].stage \notin {"headRoom", "streamRoom", "headQueued", "heading", "answered", "dead"}
  BY <1>1, <1>4 DEF Inv, JobOK
<1>6. job[h].stage \notin {"queued", "running"}
  BY <1>1, <1>4 DEF In
<1>. QED BY <1>4, <1>5, <1>6 DEF TypeOK, Stages

(* Rows that are given their verdict were still without one.                *)
LEMMA GiveSettles ==
  ASSUME TypeOK, CandidateOpen, CandidateOpen', NEW rows, rows \subseteq Row,
         NEW v \in {"handled", "conflict", "failed"}, Give(rows, v),
         \A r \in rows : verdict[r] = "pending"
  PROVE  Ledger!Settle
<1>1. /\ verdict' \in [Row -> {"pending", "handled", "conflict", "failed"}]
      /\ \A r \in Row : verdict'[r] = verdict[r] \/ (verdict[r] = "pending" /\ verdict'[r] = v)
  <2>1. /\ verdict' \in [Row -> {"pending", "handled", "conflict", "failed"}]
        /\ \A r \in rows \intersect Row : verdict'[r] = v
        /\ \A r \in Row \ rows : verdict'[r] = verdict[r]
    BY GiveFacts
  <2>. QED BY <2>1
<1>2. /\ Ledger!Verdicts \union {"pending"} = {"pending", "handled", "conflict", "failed"}
      /\ v \in Ledger!Verdicts
  BY DEF Ledger!Verdicts
<1>. QED BY <1>1, <1>2 DEF Ledger!Settle

LEMMA NextRefines ==
  ASSUME TypeOK, Inv, [Next]_vars
  PROVE  [Ledger!Settle \/ Ledger!Return \/ Ledger!Throw]_<<verdict, IF CandidateOpen THEN "open" ELSE main>>
<1>. DEFINE Goal == [Ledger!Settle \/ Ledger!Return \/ Ledger!Throw]_<<verdict, IF CandidateOpen THEN "open" ELSE main>>
<1>1. ASSUME verdict' = verdict, CandidateOpen' = CandidateOpen, CandidateOpen \/ main' = main
      PROVE  Goal
  BY <1>1
<1>2. ASSUME UNCHANGED <<verdict, main>>
      PROVE  Goal
  BY <1>1, <1>2 DEF CandidateOpen
<1>3. ASSUME NEW h \in Hashes, NEW v \in {"handled", "failed"}, Give(job[h].rows, v),
             UNCHANGED main, CandidateOpen
      PROVE  Goal
  <2>1. job[h].rows \subseteq Row /\ \A r \in job[h].rows : verdict[r] = "pending"
    BY DEF TypeOK, Inv, JobOK
  <2>2. CandidateOpen'
    BY <1>3 DEF CandidateOpen
  <2>. QED BY <1>3, <2>1, <2>2, GiveSettles
<1>4. CASE FoldRow
  <2>1. /\ next \in Row /\ CandidateOpen /\ CandidateOpen'
        /\ \E v \in {"handled", "conflict"} : Give({next}, v)
    BY <1>4 DEF FoldRow, Looping, CandidateOpen
  <2>2. verdict[next] = "pending" /\ {next} \subseteq Row
    BY <2>1, RowFacts DEF Inv, RowOK
  <2>. QED BY <2>1, <2>2, GiveSettles
<1>5. CASE AttachRow
  BY <1>2, <1>5 DEF AttachRow
<1>6. CASE StartJob \/ LeaveLoop \/ \E h \in Hashes : DispatchHead(h)
  BY <1>1, <1>6 DEF StartJob, LeaveLoop, DispatchHead, Looping, CandidateOpen
<1>7. CASE DrainHeads
  <2>1. CASE main' = "threw"
    BY <1>7, <2>1 DEF DrainHeads, Ledger!Throw, CandidateOpen
  <2>2. CASE main' = "drainStreams"
    BY <1>1, <1>7, <2>2 DEF DrainHeads, CandidateOpen
  <2>. QED BY <1>7, <2>1, <2>2 DEF DrainHeads
<1>8. CASE DrainStreams
  <2>1. CASE main' = "threw"
    BY <1>8, <2>1 DEF DrainStreams, Ledger!Throw, CandidateOpen
  <2>2. CASE main' = "returned"
    BY <1>8, <2>2, NothingIsOpen DEF DrainStreams, Ledger!Return, CandidateOpen
  <2>. QED BY <1>8, <2>1, <2>2 DEF DrainStreams
<1>9. ASSUME NEW h \in Hashes, DispatchUpload(h)
      PROVE  Goal
  BY <1>1, <1>9 DEF DispatchUpload, CandidateOpen
<1>10. ASSUME NEW h \in Hashes, HeadJob(h)
       PROVE  Goal
  <2>1. CASE HeadAdopts(h)
    <3>1. CandidateOpen
      BY <2>1 DEF HeadAdopts, Inv, JobOK, CandidateOpen
    <3>. QED BY <1>3, <2>1, <3>1 DEF HeadAdopts
  <2>2. CASE StartHead(h) \/ HeadFails(h) \/ HeadAnswers(h)
    BY <1>2, <2>2 DEF StartHead, HeadFails, HeadAnswers
  <2>. QED BY <1>10, <2>1, <2>2 DEF HeadJob
<1>11. ASSUME NEW h \in Hashes, StartUpload(h) \/ JobIsFatal(h)
       PROVE  Goal
  BY <1>2, <1>11 DEF StartUpload, JobIsFatal
<1>12. ASSUME NEW h \in Hashes, JobStores(h) \/ JobLeavesRowsDirty(h)
       PROVE  Goal
  BY <1>2, <1>3, <1>12 DEF JobStores, JobLeavesRowsDirty
<1>13. CASE UNCHANGED poolVars \/ UNCHANGED vars
  BY <1>2, <1>13 DEF poolVars, vars
<1>. QED BY <1>4, <1>5, <1>6, <1>7, <1>8, <1>9, <1>10, <1>11, <1>12, <1>13
         DEF Next, Loop, JobEnds

(* The pools, the dedup and the streams implement the ledger of RowLedger:  *)
(* every row gets one verdict, once, and the call never returns while a row *)
(* or an upload is open.                                                    *)
THEOREM ImplementsLedger == Spec => LedgerSpec
<1>1. Init => Ledger!Init
  BY DEF Init, Ledger!Init, CandidateOpen
<1>. QED BY <1>1, Invariant, NextRefines, PTL DEF Spec, LedgerSpec, Ledger!Spec
=============================================================================
