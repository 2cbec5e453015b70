------------------------ MODULE StubCommands_proofs -------------------------
(***************************************************************************)
(* Proofs of what stubify and materialize promise, for any paths, contents *)
(* and bounds.                                                             *)
(*                                                                         *)
(* The invariant of WorkingTree_proofs holds here too: the two commands    *)
(* write files with times that nothing records, and record a time only     *)
(* for a file that holds what its row says.  JobInv adds what is known of  *)
(* a path at each stage of its job, whatever others do to it meanwhile.    *)
(***************************************************************************)
EXTENDS StubCommands, WorkingTree_proofs

(***************************************************************************)
(* The inductive invariant.                                                *)
(***************************************************************************)

(* A path that others leave alone stays what the job found; in the turn    *)
(* that replaces one form by the other nothing else comes in between.      *)
JobOK(p) ==
  /\ p \in job.todo => job.stage[p] = "none" /\ cache[p] # NoRow
  /\ job.stage[p] \in {"rehash", "confirmed", "stubbed"} => cache[p].state = "unchanged"
  /\ job.stage[p] \in {"confirmed", "stubbed"} /\ p \notin touched =>
       tree[p].real = cache[p].hash
  /\ job.stage[p] = "stubbed" => tree[p].stub = cache[p].hash
  /\ job.stage[p] \in {"queued", "stream"} =>
       /\ cache[p].hash \in Contents
       /\ p \notin touched => tree[p].real = None /\ tree[p].stub # None
  /\ job.stage[p] = "landed" => cache[p].hash \in Contents /\ tree[p].real = cache[p].hash
  /\ job.stage[p] = "record" =>
       /\ cache[p] # NoRow
       /\ \/ tree[p].real = None /\ tree[p].stub = cache[p].hash
          \/ tree[p].stub = None /\ tree[p].real = cache[p].hash

(* The lock: no scan or sync runs while a stub command does.               *)
JobInv ==
  /\ job.cmd = "none" => job = NoJob
  /\ job.cmd # "none" => run.pc = "idle"
  /\ \A p \in Paths : JobOK(p)

StubInv == StubTypeOK /\ Inv /\ JobInv

(***************************************************************************)
(* What the steps change, field by field.                                  *)
(***************************************************************************)

LEMMA JobFacts ==
  ASSUME job \in Job
  PROVE  /\ job.cmd \in {"none", "stubify", "materialize"} /\ job.request \in BOOLEAN
         /\ job.todo \in SUBSET Paths /\ job.stage \in [Paths -> JobStages]
         /\ job.failed \in BOOLEAN
BY DEF Job

LEMMA NoJobFacts ==
  /\ NoJob \in Job /\ NoJob.cmd = "none" /\ NoJob.todo = {}
  /\ \A p \in Paths : NoJob.stage[p] = "none"
BY DEF NoJob, Job, JobStages

(* The job after a step for p: p is at another stage, and maybe off todo.  *)
Moved(p, stage) ==
  /\ job' \in Job /\ job'.cmd = job.cmd /\ job'.todo \subseteq job.todo
  /\ job'.stage[p] = stage /\ \A q \in Paths \ {p} : job'.stage[q] = job.stage[q]

LEMMA MovedFacts ==
  ASSUME job \in Job, NEW p \in Paths, NEW stage \in JobStages
  PROVE  /\ ToStage(p, stage) => Moved(p, stage) /\ job'.todo = job.todo
         /\ SetAside(p) => Moved(p, job.stage[p]) /\ p \notin job'.todo
         /\ Dispatched(p, stage) => Moved(p, stage) /\ p \notin job'.todo
         /\ job' = [job EXCEPT !.stage[p] = stage, !.failed = TRUE] =>
              Moved(p, stage) /\ job'.todo = job.todo
<1>. DEFINE stages == [job.stage EXCEPT ![p] = stage]
<1>1. /\ stages \in [Paths -> JobStages] /\ stages[p] = stage
      /\ \A q \in Paths \ {p} : stages[q] = job.stage[q]
  BY JobFacts
<1>2. PICK s : s = stages
  OBVIOUS
<1>3. ASSUME NEW j, NEW todo \in SUBSET job.todo, NEW failed \in BOOLEAN,
             j = [job EXCEPT !.stage = s, !.todo = todo, !.failed = failed]
      PROVE  j \in Job /\ j.cmd = job.cmd /\ j.todo = todo /\ j.stage = s
  BY <1>1, <1>2, <1>3 DEF Job
<1>4. ASSUME ToStage(p, stage) PROVE Moved(p, stage) /\ job'.todo = job.todo
  <2>1. job' = [job EXCEPT !.stage = s]
    BY <1>2, <1>4 DEF ToStage
  <2>2. job' \in Job /\ job'.cmd = job.cmd /\ job'.todo = job.todo /\ job'.stage = s
    BY <1>1, <1>2, <2>1 DEF Job
  <2>. QED BY <1>1, <1>2, <2>2 DEF Moved
<1>5. ASSUME SetAside(p) PROVE Moved(p, job.stage[p]) /\ p \notin job'.todo
  <2>1. PICK todo : todo = job.todo \ {p}
    OBVIOUS
  <2>2. job' = [job EXCEPT !.todo = todo]
    BY <1>5, <2>1 DEF SetAside
  <2>3. todo \in SUBSET Paths
    BY <2>1, JobFacts
  <2>4. job' \in Job /\ job'.cmd = job.cmd /\ job'.todo = todo /\ job'.stage = job.stage
    BY <2>2, <2>3 DEF Job
  <2>. QED BY <2>1, <2>4 DEF Moved
<1>6. ASSUME Dispatched(p, stage) PROVE Moved(p, stage) /\ p \notin job'.todo
  <2>1. PICK todo : todo = job.todo \ {p}
    OBVIOUS
  <2>2. job' = [job EXCEPT !.todo = todo, !.stage = s]
    BY <1>2, <1>6, <2>1 DEF Dispatched
  <2>3. todo \in SUBSET Paths
    BY <2>1, JobFacts
  <2>4. job' \in Job /\ job'.cmd = job.cmd /\ job'.todo = todo /\ job'.stage = s
    BY <1>1, <1>2, <2>2, <2>3 DEF Job
  <2>. QED BY <1>1, <1>2, <2>1, <2>4 DEF Moved
<1>7. ASSUME job' = [job EXCEPT !.stage[p] = stage, !.failed = TRUE]
      PROVE  Moved(p, stage) /\ job'.todo = job.todo
  <2>1. job' = [job EXCEPT !.stage = s, !.failed = TRUE]
    BY <1>2, <1>7
  <2>2. job' \in Job /\ job'.cmd = job.cmd /\ job'.todo = job.todo /\ job'.stage = s
    BY <1>1, <1>2, <2>1 DEF Job
  <2>. QED BY <1>1, <1>2, <2>2 DEF Moved
<1>. QED BY <1>4, <1>5, <1>6, <1>7

(* p's file after a step that writes it: either form is kept, removed, or  *)
(* written with a time that nothing records.                               *)
FileWritten(p, f) ==
  /\ \/ f.real = tree[p].real /\ f.rtime = tree[p].rtime
     \/ f.real = None /\ f.rtime = 0
     \/ f.real \in Contents /\ f.rtime = NewMtime(p)
  /\ \/ f.stub = tree[p].stub /\ f.stime = tree[p].stime
     \/ f.stub = None /\ f.stime = 0
     \/ f.stub \in Contents /\ f.stime = NewMtime(p) /\ f.rtime # NewMtime(p)

(* A step that writes p's file, and nothing else of WorkingTree's but       *)
(* perhaps a counter.                                                      *)
WritesFile(p) ==
  /\ \E f \in File : FileWritten(p, f) /\ tree' = [tree EXCEPT ![p] = f]
  /\ UNCHANGED <<remote, minted, cache, known, lastSynced, run, history, seen>>
  /\ edits' \in 0..MaxEdits /\ others' \in 0..MaxOthers /\ faults' \in 0..MaxFaults

LEMMA FileStep ==
  ASSUME TypeOK, Inv, NEW p \in Paths, p \notin run.landing, WritesFile(p)
  PROVE  TypeOK' /\ Inv'
<1>1. PICK f \in File : FileWritten(p, f) /\ tree' = [tree EXCEPT ![p] = f]
  BY DEF WritesFile
<1>2. /\ remote' = remote /\ minted' = minted /\ cache' = cache /\ known' = known
      /\ lastSynced' = lastSynced /\ run' = run /\ history' = history /\ seen' = seen
  BY DEF WritesFile
<1>3. tree \in [Paths -> File] /\ tree' \in [Paths -> File] /\ tree'[p] = f
  BY <1>1 DEF TypeOK
<1>4. TypeOK'
  BY <1>2, <1>3 DEF TypeOK, WritesFile
<1>5. ASSUME NEW q \in Paths PROVE ClockOK(q)' /\ SeenOK(q)' /\ SyncOK(q)'
  <2>1. ClockOK(q) /\ SeenOK(q) /\ SyncOK(q) /\ ClockOK(p)
    BY DEF Inv
  <2>2. SeenOK(q)'
    BY <1>2, <2>1 DEF SeenOK, RowSeen
  <2>3. SyncOK(q)'
    BY <1>2, <2>1 DEF SyncOK, SettledOK, PathsOK, WriteOK, Cleaned
  <2>4. CASE q # p
    <3>1. tree'[q] = tree[q]
      BY <1>1, <1>3, <2>4
    <3>2. ClockOK(q)'
      BY <1>2, <2>1, <3>1, ClockFrame DEF ClockOK
    <3>. QED BY <2>2, <2>3, <3>2
  <2>5. CASE q = p
    <3>1. /\ NewMtime(p) # 0 /\ NewMtime(p) # cache[p].mtime /\ NewMtime(p) # run.hashing[p]
          /\ NewMtime(p) # run.staged[p].mtime
          /\ NewMtime(p) # tree[p].rtime /\ NewMtime(p) # tree[p].stime
      BY <2>1, NewMtimeFacts
    <3>2. PICK t : t = NewMtime(p)
      OBVIOUS
    <3>3. ClockOK(p)'
      <4>1. FileWritten(p, f)
        BY <1>1
      <4>. QED BY <1>2, <1>3, <2>1, <3>1, <4>1, NoneAssumption
               DEF ClockOK, TimeTells, Both, FileWritten, RowShape
    <3>. QED BY <2>2, <2>3, <2>5, <3>3
  <2>. QED BY <2>4, <2>5
<1>6. StampOK'
  BY <1>2 DEF Inv, StampOK
<1>. QED BY <1>4, <1>5, <1>6 DEF Inv

(* A step that leaves all of WorkingTree's variables but perhaps a counter. *)
LEMMA QuietStep ==
  ASSUME TypeOK, Inv,
         UNCHANGED <<remote, minted, tree, cache, known, lastSynced, run, history, seen>>,
         edits' \in 0..MaxEdits, others' \in 0..MaxOthers, faults' \in 0..MaxFaults
  PROVE  TypeOK' /\ Inv'
<1>1. TypeOK'
  BY DEF TypeOK
<1>2. ASSUME NEW q \in Paths PROVE ClockOK(q)' /\ SeenOK(q)' /\ SyncOK(q)'
  <2>1. ClockOK(q) /\ SeenOK(q) /\ SyncOK(q)
    BY DEF Inv
  <2>2. ClockOK(q)'
    BY <2>1, ClockFrame DEF ClockOK
  <2>3. SeenOK(q)'
    BY <2>1 DEF SeenOK, RowSeen
  <2>4. SyncOK(q)'
    BY <2>1 DEF SyncOK, SettledOK, PathsOK, WriteOK, Cleaned
  <2>. QED BY <2>2, <2>3, <2>4
<1>3. StampOK'
  BY DEF Inv, StampOK
<1>. QED BY <1>1, <1>2, <1>3 DEF Inv

(* A step of the commands of WorkingTree, the user or the other machines.   *)
LEMMA TreeStep ==
  ASSUME TypeOK, Inv, Next
  PROVE  TypeOK' /\ Inv'
<1>1. TypeOK' /\ StampOK'
  BY TypeStep, StampStep
<1>2. \A p \in Paths : ClockOK(p)' /\ SeenOK(p)' /\ SyncOK(p)'
  BY ClockStep, SeenStep, SyncStep
<1>. QED BY <1>1, <1>2 DEF Inv

(***************************************************************************)
(* The files a step writes.                                                *)
(***************************************************************************)

LEMMA CountersStay ==
  ASSUME TypeOK, UNCHANGED <<edits, others, faults>>
  PROVE  edits' \in 0..MaxEdits /\ others' \in 0..MaxOthers /\ faults' \in 0..MaxFaults
BY DEF TypeOK

LEMMA StubPut ==
  ASSUME TypeOK, Inv, NEW p \in Paths, NEW c \in Contents,
         tree' = [tree EXCEPT ![p].stub = c, ![p].stime = NewMtime(p)]
  PROVE  /\ \E f \in File : FileWritten(p, f) /\ tree' = [tree EXCEPT ![p] = f]
         /\ tree'[p].real = tree[p].real /\ tree'[p].stub = c
         /\ \A q \in Paths \ {p} : tree'[q] = tree[q]
<1>1. tree \in [Paths -> File] /\ tree[p] \in File /\ ClockOK(p)
  BY InvFacts DEF TypeOK
<1>2. PICK f : f = [tree[p] EXCEPT !.stub = c, !.stime = NewMtime(p)]
  OBVIOUS
<1>3. /\ f \in File /\ f.stub = c /\ f.stime = NewMtime(p)
      /\ f.real = tree[p].real /\ f.rtime = tree[p].rtime
  BY <1>1, <1>2, NewMtimeFacts DEF File
<1>4. tree' = [tree EXCEPT ![p] = f]
  BY <1>1, <1>2
<1>5. FileWritten(p, f)
  BY <1>1, <1>3, NewMtimeFacts DEF FileWritten
<1>. QED BY <1>1, <1>3, <1>4, <1>5

LEMMA RealPut ==
  ASSUME TypeOK, Inv, NEW p \in Paths, NEW c \in Contents,
         tree' = [tree EXCEPT ![p].real = c, ![p].rtime = NewMtime(p)]
  PROVE  /\ \E f \in File : FileWritten(p, f) /\ tree' = [tree EXCEPT ![p] = f]
         /\ tree'[p].real = c /\ tree'[p].stub = tree[p].stub
         /\ \A q \in Paths \ {p} : tree'[q] = tree[q]
<1>1. tree \in [Paths -> File] /\ tree[p] \in File /\ ClockOK(p)
  BY InvFacts DEF TypeOK
<1>2. PICK f : f = [tree[p] EXCEPT !.real = c, !.rtime = NewMtime(p)]
  OBVIOUS
<1>3. /\ f \in File /\ f.real = c /\ f.rtime = NewMtime(p)
      /\ f.stub = tree[p].stub /\ f.stime = tree[p].stime
  BY <1>1, <1>2, NewMtimeFacts DEF File
<1>4. tree' = [tree EXCEPT ![p] = f]
  BY <1>1, <1>2
<1>5. FileWritten(p, f)
  BY <1>1, <1>3, NewMtimeFacts DEF FileWritten
<1>. QED BY <1>1, <1>3, <1>4, <1>5

LEMMA StubGone ==
  ASSUME TypeOK, Inv, NEW p \in Paths,
         tree' = [tree EXCEPT ![p].stub = None, ![p].stime = 0]
  PROVE  /\ \E f \in File : FileWritten(p, f) /\ tree' = [tree EXCEPT ![p] = f]
         /\ tree'[p].real = tree[p].real /\ tree'[p].stub = None
         /\ \A q \in Paths \ {p} : tree'[q] = tree[q]
<1>1. tree \in [Paths -> File] /\ tree[p] \in File
  BY DEF TypeOK
<1>2. PICK f : f = [tree[p] EXCEPT !.stub = None, !.stime = 0]
  OBVIOUS
<1>3. /\ f \in File /\ f.stub = None /\ f.stime = 0
      /\ f.real = tree[p].real /\ f.rtime = tree[p].rtime
  BY <1>1, <1>2 DEF File
<1>4. tree' = [tree EXCEPT ![p] = f]
  BY <1>1, <1>2
<1>5. FileWritten(p, f)
  BY <1>3 DEF FileWritten
<1>. QED BY <1>1, <1>3, <1>4, <1>5

LEMMA RealGone ==
  ASSUME TypeOK, Inv, NEW p \in Paths,
         tree' = [tree EXCEPT ![p].real = None, ![p].rtime = 0]
  PROVE  /\ \E f \in File : FileWritten(p, f) /\ tree' = [tree EXCEPT ![p] = f]
         /\ tree'[p].real = None /\ tree'[p].stub = tree[p].stub
         /\ \A q \in Paths \ {p} : tree'[q] = tree[q]
<1>1. tree \in [Paths -> File] /\ tree[p] \in File
  BY DEF TypeOK
<1>2. PICK f : f = [tree[p] EXCEPT !.real = None, !.rtime = 0]
  OBVIOUS
<1>3. /\ f \in File /\ f.real = None /\ f.rtime = 0
      /\ f.stub = tree[p].stub /\ f.stime = tree[p].stime
  BY <1>1, <1>2 DEF File
<1>4. tree' = [tree EXCEPT ![p] = f]
  BY <1>1, <1>2
<1>5. FileWritten(p, f)
  BY <1>3 DEF FileWritten
<1>. QED BY <1>1, <1>3, <1>4, <1>5

(***************************************************************************)
(* Preservation: the steps of a job.                                       *)
(***************************************************************************)

LEMMA JobBusy ==
  ASSUME StubInv, NEW p \in Paths, job.cmd # "none" \/ p \in job.todo \/ job.stage[p] # "none"
  PROVE  job.cmd # "none" /\ run.pc = "idle" /\ p \notin run.landing
<1>1. job.cmd # "none"
  BY NoJobFacts DEF StubInv, JobInv
<1>2. run.pc = "idle" /\ ClockOK(p)
  BY <1>1, InvFacts DEF StubInv, JobInv
<1>. QED BY <1>1, <1>2 DEF ClockOK

LEMMA MovePreserves ==
  ASSUME StubInv, NEW p \in Paths, NEW stage, Moved(p, stage), job.cmd # "none",
         touched' = touched, run' = run, JobOK(p)',
         \A q \in Paths \ {p} : tree'[q] = tree[q] /\ cache'[q] = cache[q]
  PROVE  JobInv'
<1>1. job'.cmd # "none" /\ run'.pc = "idle"
  BY DEF Moved, StubInv, JobInv
<1>2. ASSUME NEW q \in Paths \ {p} PROVE JobOK(q)'
  BY <1>2 DEF StubInv, JobInv, JobOK, Moved
<1>. QED BY <1>1, <1>2 DEF JobInv

(* A row that is there and not deleted names its content.                   *)
LEMMA RowNames ==
  ASSUME StubInv, NEW p \in Paths
  PROVE  /\ job \in Job /\ job.stage[p] \in JobStages /\ TypeOK /\ Inv /\ JobOK(p)
         /\ cache[p].hash \in Contents \cup {None} /\ cache[p] \in Row \cup {NoRow}
         /\ cache[p].state = "unchanged" => cache[p].hash \in Contents /\ cache[p] # NoRow
         /\ tree[p].real \in Contents \cup {None} /\ tree[p].stub \in Contents \cup {None}
         /\ cache[p].hash # None => cache[p] # NoRow
<1>1. /\ job \in Job /\ TypeOK /\ Inv /\ JobOK(p) /\ ClockOK(p)
  BY InvFacts DEF StubInv, StubTypeOK, JobInv
<1>. QED BY <1>1, JobFacts, PathFacts, FileFacts, RowFacts, NoRowFacts DEF ClockOK, RowShape

LEMMA StubifyRowStep ==
  ASSUME StubInv, NEW p \in Paths, StubifyRow(p)
  PROVE  TypeOK' /\ Inv' /\ job' \in Job /\ JobInv'
<1>1. /\ job.cmd # "none" /\ p \in job.todo /\ cache' = cache /\ touched' = touched
      /\ UNCHANGED sharedVars /\ run' = run
  BY DEF StubifyRow, sharedVars
<1>2. /\ JobOK(p) /\ job.stage[p] = "none" /\ TypeOK /\ Inv /\ job \in Job
      /\ p \notin run.landing /\ cache[p] # NoRow
      /\ cache[p].state = "unchanged" => cache[p].hash \in Contents
  BY <1>1, RowNames, JobBusy DEF JobOK
<1>3. edits' \in 0..MaxEdits /\ others' \in 0..MaxOthers /\ faults' \in 0..MaxFaults
  BY <1>1, <1>2, CountersStay DEF sharedVars, ghostVars
<1>4. CASE SetAside(p) /\ tree' = tree
  <2>1. Moved(p, "none") /\ p \notin job'.todo
    <3>1. "none" \in JobStages
      BY DEF JobStages
    <3>. QED BY <1>2, <1>4, <3>1, MovedFacts
  <2>2. JobOK(p)'
    BY <2>1 DEF JobOK, Moved
  <2>. QED BY <1>1, <1>2, <1>3, <1>4, <2>1, <2>2, MovePreserves, QuietStep
           DEF sharedVars, ghostVars, Moved
<1>5. CASE /\ tree[p].real # None /\ cache[p].state = "unchanged" /\ tree[p].rtime = cache[p].mtime
           /\ tree' = [tree EXCEPT ![p].stub = cache[p].hash, ![p].stime = NewMtime(p)]
           /\ Dispatched(p, "stubbed")
  <2>1. Moved(p, "stubbed") /\ p \notin job'.todo
    BY <1>2, <1>5, MovedFacts DEF JobStages
  <2>2. /\ \E f \in File : FileWritten(p, f) /\ tree' = [tree EXCEPT ![p] = f]
        /\ tree'[p].real = tree[p].real /\ tree'[p].stub = cache[p].hash
        /\ \A q \in Paths \ {p} : tree'[q] = tree[q]
    BY <1>2, <1>5, StubPut
  <2>3. tree[p].real = cache[p].hash
    BY <1>2, <1>5, InvFacts DEF ClockOK, TimeTells
  <2>4. JobOK(p)'
    BY <1>1, <1>2, <1>5, <2>1, <2>2, <2>3, NoneAssumption DEF JobOK, Moved
  <2>5. WritesFile(p)
    BY <1>1, <1>3, <2>2 DEF WritesFile, sharedVars, ghostVars
  <2>. QED BY <1>1, <1>2, <2>1, <2>2, <2>4, <2>5, FileStep, MovePreserves DEF Moved
<1>6. CASE cache[p].state = "unchanged" /\ Dispatched(p, "rehash") /\ tree' = tree
  <2>1. Moved(p, "rehash") /\ p \notin job'.todo
    BY <1>2, <1>6, MovedFacts DEF JobStages
  <2>2. JobOK(p)'
    BY <1>1, <1>2, <1>6, <2>1, NoneAssumption DEF JobOK, Moved
  <2>. QED BY <1>1, <1>2, <1>3, <1>6, <2>1, <2>2, MovePreserves, QuietStep
           DEF sharedVars, ghostVars, Moved
<1>. QED BY <1>4, <1>5, <1>6 DEF StubifyRow

LEMMA RehashEndsStep ==
  ASSUME StubInv, NEW p \in Paths, RehashEnds(p)
  PROVE  TypeOK' /\ Inv' /\ job' \in Job /\ JobInv'
<1>1. /\ job.stage[p] = "rehash" /\ tree' = tree /\ cache' = cache /\ touched' = touched
      /\ UNCHANGED sharedVars /\ run' = run
  BY DEF RehashEnds, sharedVars
<1>2. JobOK(p) /\ TypeOK /\ Inv /\ job \in Job /\ job.cmd # "none"
  BY <1>1, RowNames, JobBusy
<1>3. edits' \in 0..MaxEdits /\ others' \in 0..MaxOthers /\ faults' \in 0..MaxFaults
  BY <1>1, <1>2, CountersStay DEF sharedVars, ghostVars
<1>4. PICK s \in JobStages : /\ ToStage(p, s) /\ s \in {"confirmed", "none"}
                             /\ s = "confirmed" => tree[p].real = cache[p].hash
  BY DEF RehashEnds, JobStages
<1>5. Moved(p, s) /\ job'.todo = job.todo
  BY <1>2, <1>4, MovedFacts
<1>6. JobOK(p)'
  BY <1>1, <1>2, <1>4, <1>5 DEF JobOK, Moved
<1>. QED BY <1>1, <1>2, <1>3, <1>5, <1>6, MovePreserves, QuietStep DEF sharedVars, ghostVars, Moved

LEMMA WriteStubStep ==
  ASSUME StubInv, NEW p \in Paths, WriteStub(p)
  PROVE  TypeOK' /\ Inv' /\ job' \in Job /\ JobInv'
<1>1. /\ job.stage[p] = "confirmed" /\ cache' = cache /\ touched' = touched
      /\ UNCHANGED sharedVars /\ run' = run /\ ToStage(p, "stubbed")
      /\ tree' = [tree EXCEPT ![p].stub = cache[p].hash, ![p].stime = NewMtime(p)]
  BY DEF WriteStub, sharedVars
<1>2. /\ JobOK(p) /\ TypeOK /\ Inv /\ job \in Job /\ job.cmd # "none" /\ p \notin run.landing
      /\ cache[p].hash \in Contents
  BY <1>1, RowNames, JobBusy DEF JobOK
<1>3. edits' \in 0..MaxEdits /\ others' \in 0..MaxOthers /\ faults' \in 0..MaxFaults
  BY <1>1, <1>2, CountersStay DEF sharedVars, ghostVars
<1>4. Moved(p, "stubbed") /\ job'.todo = job.todo
  BY <1>1, <1>2, MovedFacts DEF JobStages
<1>5. /\ \E f \in File : FileWritten(p, f) /\ tree' = [tree EXCEPT ![p] = f]
      /\ tree'[p].real = tree[p].real /\ tree'[p].stub = cache[p].hash
      /\ \A q \in Paths \ {p} : tree'[q] = tree[q]
  BY <1>1, <1>2, StubPut
<1>6. JobOK(p)'
  BY <1>1, <1>2, <1>4, <1>5 DEF JobOK, Moved
<1>7. WritesFile(p)
  BY <1>1, <1>3, <1>5 DEF WritesFile, sharedVars, ghostVars
<1>. QED BY <1>1, <1>2, <1>4, <1>5, <1>6, <1>7, FileStep, MovePreserves DEF Moved

LEMMA RemoveRealStep ==
  ASSUME StubInv, NEW p \in Paths, RemoveReal(p)
  PROVE  TypeOK' /\ Inv' /\ job' \in Job /\ JobInv'
<1>1. /\ job.stage[p] = "stubbed" /\ cache' = cache /\ touched' = touched
      /\ UNCHANGED sharedVars /\ run' = run
  BY DEF RemoveReal, sharedVars
<1>2. /\ JobOK(p) /\ TypeOK /\ Inv /\ job \in Job /\ job.cmd # "none" /\ p \notin run.landing
      /\ cache[p].hash \in Contents /\ cache[p] # NoRow
  BY <1>1, RowNames, JobBusy DEF JobOK
<1>3. edits' \in 0..MaxEdits /\ others' \in 0..MaxOthers /\ faults' \in 0..MaxFaults
  BY <1>1, <1>2, CountersStay DEF sharedVars, ghostVars
<1>4. CASE ToStage(p, "none") /\ tree' = tree
  <2>1. Moved(p, "none") /\ job'.todo = job.todo
    BY <1>2, <1>4, MovedFacts DEF JobStages
  <2>2. JobOK(p)'
    BY <1>1, <1>2, <2>1 DEF JobOK, Moved
  <2>. QED BY <1>1, <1>2, <1>3, <1>4, <2>1, <2>2, MovePreserves, QuietStep
           DEF sharedVars, ghostVars, Moved
<1>5. CASE tree' = [tree EXCEPT ![p].real = None, ![p].rtime = 0] /\ ToStage(p, "record")
  <2>1. Moved(p, "record") /\ job'.todo = job.todo
    BY <1>2, <1>5, MovedFacts DEF JobStages
  <2>2. /\ \E f \in File : FileWritten(p, f) /\ tree' = [tree EXCEPT ![p] = f]
        /\ tree'[p].real = None /\ tree'[p].stub = tree[p].stub
        /\ \A q \in Paths \ {p} : tree'[q] = tree[q]
    BY <1>2, <1>5, RealGone
  <2>3. JobOK(p)'
    BY <1>1, <1>2, <2>1, <2>2, NoneAssumption DEF JobOK, Moved
  <2>4. WritesFile(p)
    BY <1>1, <1>3, <2>2 DEF WritesFile, sharedVars, ghostVars
  <2>. QED BY <1>1, <1>2, <2>1, <2>2, <2>3, <2>4, FileStep, MovePreserves DEF Moved
<1>. QED BY <1>4, <1>5 DEF RemoveReal

LEMMA RecordStep ==
  ASSUME StubInv, NEW p \in Paths, Record(p)
  PROVE  TypeOK' /\ Inv' /\ job' \in Job /\ JobInv'
<1>1. /\ job.stage[p] = "record" /\ tree' = tree /\ touched' = touched
      /\ UNCHANGED sharedVars /\ run' = run /\ ToStage(p, "none")
      /\ cache' = [cache EXCEPT ![p].mtime = Mtime(tree[p])]
  BY DEF Record, sharedVars
<1>2. /\ JobOK(p) /\ TypeOK /\ Inv /\ job \in Job /\ job.cmd # "none" /\ p \notin run.landing
      /\ run.pc = "idle" /\ cache[p] # NoRow
  BY <1>1, RowNames, JobBusy DEF JobOK
<1>3. edits' \in 0..MaxEdits /\ others' \in 0..MaxOthers /\ faults' \in 0..MaxFaults
  BY <1>1, <1>2, CountersStay DEF sharedVars, ghostVars
<1>4. Moved(p, "none") /\ job'.todo = job.todo
  BY <1>1, <1>2, MovedFacts DEF JobStages
<1>5. /\ cache \in [Paths -> Row \cup {NoRow}] /\ cache[p] \in Row /\ tree[p] \in File
  BY <1>2, PathFacts DEF TypeOK
<1>6. PICK row : row = [cache[p] EXCEPT !.mtime = Mtime(tree[p])]
  OBVIOUS
<1>7. Mtime(tree[p]) \in Mtimes \cup {0}
  BY <1>5, FileFacts DEF Mtime
<1>8. /\ row \in Row /\ row.state = cache[p].state /\ row.hash = cache[p].hash
      /\ row.parent = cache[p].parent /\ row.mtime = Mtime(tree[p])
  BY <1>5, <1>6, <1>7 DEF Row
<1>9. /\ cache' = [cache EXCEPT ![p] = row] /\ cache'[p] = row
      /\ cache' \in [Paths -> Row \cup {NoRow}]
      /\ \A q \in Paths \ {p} : cache'[q] = cache[q]
  BY <1>1, <1>5, <1>6, <1>8
<1>10. TypeOK'
  BY <1>1, <1>2, <1>3, <1>9 DEF TypeOK, sharedVars, ghostVars
<1>11. ASSUME NEW q \in Paths PROVE ClockOK(q)' /\ SeenOK(q)' /\ SyncOK(q)'
  <2>1. ClockOK(q) /\ SeenOK(q) /\ SyncOK(q) /\ ClockOK(p) /\ SeenOK(p)
    BY <1>2 DEF Inv
  <2>2. /\ remote' = remote /\ minted' = minted /\ history' = history /\ seen' = seen
    BY <1>1 DEF sharedVars, ghostVars
  <2>3. SyncOK(q)'
    BY <1>1, <1>2, <2>1, <2>2, SyncScanning
  <2>4. CASE q # p
    <3>1. cache'[q] = cache[q]
      BY <1>9, <2>4
    <3>2. ClockOK(q)'
      BY <1>1, <2>1, <3>1, ClockFrame DEF ClockOK
    <3>3. SeenOK(q)'
      BY <1>1, <2>1, <2>2, <3>1 DEF SeenOK, RowSeen
    <3>. QED BY <2>3, <3>2, <3>3
  <2>5. CASE q = p
    <3>1. ClockOK(p)'
      <4>1. \/ tree[p].real = None /\ tree[p].stub = row.hash /\ row.mtime = tree[p].stime
            \/ tree[p].stub = None /\ tree[p].real = row.hash
        BY <1>1, <1>2, <1>8 DEF JobOK, Mtime
      <4>. QED BY <1>1, <1>2, <1>8, <1>9, <2>1, <4>1 DEF ClockOK, TimeTells, Both, RowShape
    <3>2. SeenOK(p)'
      BY <1>1, <1>8, <1>9, <2>1, <2>2 DEF SeenOK, RowSeen
    <3>. QED BY <2>3, <2>5, <3>1, <3>2
  <2>. QED BY <2>4, <2>5
<1>12. StampOK'
  BY <1>1, <1>2 DEF Inv, StampOK, sharedVars
<1>13. JobOK(p)'
  BY <1>1, <1>2, <1>4, <1>5, <1>8, <1>9, NoRowFacts DEF JobOK, Moved
<1>. QED BY <1>1, <1>2, <1>4, <1>9, <1>10, <1>11, <1>12, <1>13, MovePreserves DEF Inv, Moved

LEMMA MaterializeRowStep ==
  ASSUME StubInv, NEW p \in Paths, MaterializeRow(p)
  PROVE  TypeOK' /\ Inv' /\ job' \in Job /\ JobInv'
<1>1. /\ job.cmd # "none" /\ p \in job.todo /\ cache' = cache /\ touched' = touched
      /\ UNCHANGED sharedVars /\ run' = run /\ ~Unresolved(p) /\ job.cmd = "materialize"
  BY DEF MaterializeRow, sharedVars
<1>2. /\ JobOK(p) /\ job.stage[p] = "none" /\ TypeOK /\ Inv /\ job \in Job
      /\ p \notin run.landing /\ cache[p] # NoRow
  BY <1>1, RowNames, JobBusy DEF JobOK
<1>3. edits' \in 0..MaxEdits /\ others' \in 0..MaxOthers /\ faults' \in 0..MaxFaults
  BY <1>1, <1>2, CountersStay DEF sharedVars, ghostVars
<1>4. CASE tree' = [tree EXCEPT ![p].stub = None, ![p].stime = 0] /\ SetAside(p)
  <2>1. Moved(p, "none") /\ p \notin job'.todo
    <3>1. "none" \in JobStages
      BY DEF JobStages
    <3>. QED BY <1>2, <1>4, <3>1, MovedFacts
  <2>2. /\ \E f \in File : FileWritten(p, f) /\ tree' = [tree EXCEPT ![p] = f]
        /\ \A q \in Paths \ {p} : tree'[q] = tree[q]
    BY <1>2, <1>4, StubGone
  <2>3. JobOK(p)'
    BY <2>1 DEF JobOK, Moved
  <2>4. WritesFile(p)
    BY <1>1, <1>3, <2>2 DEF WritesFile, sharedVars, ghostVars
  <2>. QED BY <1>1, <1>2, <2>1, <2>2, <2>3, <2>4, FileStep, MovePreserves DEF Moved
<1>5. CASE /\ tree[p].stub # None /\ tree[p].real = None
           /\ Dispatched(p, "queued") /\ tree' = tree
  <2>1. Moved(p, "queued") /\ p \notin job'.todo
    BY <1>2, <1>5, MovedFacts DEF JobStages
  <2>2. cache[p].hash \in Contents
    BY <1>1, <1>2, <1>5 DEF Unresolved, TypeOK
  <2>3. JobOK(p)'
    BY <1>1, <1>5, <2>1, <2>2, NoneAssumption DEF JobOK, Moved
  <2>. QED BY <1>1, <1>2, <1>3, <1>5, <2>1, <2>3, MovePreserves, QuietStep
           DEF sharedVars, ghostVars, Moved
<1>. QED BY <1>4, <1>5 DEF MaterializeRow

LEMMA HeadStubStep ==
  ASSUME StubInv, NEW p \in Paths, HeadStub(p)
  PROVE  TypeOK' /\ Inv' /\ job' \in Job /\ JobInv'
<1>1. /\ job.stage[p] = "queued" /\ tree' = tree /\ cache' = cache /\ touched' = touched
      /\ UNCHANGED sharedVars /\ run' = run
  BY DEF HeadStub, sharedVars
<1>2. JobOK(p) /\ TypeOK /\ Inv /\ job \in Job /\ job.cmd # "none"
  BY <1>1, RowNames, JobBusy
<1>3. edits' \in 0..MaxEdits /\ others' \in 0..MaxOthers /\ faults' \in 0..MaxFaults
  BY <1>1, <1>2, CountersStay DEF sharedVars, ghostVars
<1>4. PICK s \in {"none", "stream"} :
        Moved(p, s) /\ job'.todo = job.todo
  <2>1. "none" \in JobStages /\ "stream" \in JobStages
    BY DEF JobStages
  <2>2. \/ job' = [job EXCEPT !.stage[p] = "none", !.failed = TRUE]
        \/ ToStage(p, "stream") \/ ToStage(p, "none")
    BY DEF HeadStub
  <2>. QED BY <1>2, <2>1, <2>2, MovedFacts
<1>5. JobOK(p)'
  BY <1>1, <1>2, <1>4 DEF JobOK, Moved
<1>. QED BY <1>1, <1>2, <1>3, <1>4, <1>5, MovePreserves, QuietStep DEF sharedVars, ghostVars, Moved

LEMMA DownloadStep ==
  ASSUME StubInv, NEW p \in Paths, Download(p)
  PROVE  TypeOK' /\ Inv' /\ job' \in Job /\ JobInv'
<1>1. /\ job.stage[p] = "stream" /\ cache' = cache /\ touched' = touched
      /\ UNCHANGED sharedVars /\ run' = run
  BY DEF Download, sharedVars
<1>2. /\ JobOK(p) /\ TypeOK /\ Inv /\ job \in Job /\ job.cmd # "none" /\ p \notin run.landing
      /\ cache[p].hash \in Contents
  BY <1>1, RowNames, JobBusy DEF JobOK
<1>3. edits' \in 0..MaxEdits /\ others' \in 0..MaxOthers /\ faults' \in 0..MaxFaults
  BY <1>1, <1>2, CountersStay DEF sharedVars, ghostVars
<1>4. CASE ToStage(p, "none") /\ tree' = tree
  <2>1. Moved(p, "none") /\ job'.todo = job.todo
    BY <1>2, <1>4, MovedFacts DEF JobStages
  <2>2. JobOK(p)'
    BY <1>1, <1>2, <2>1 DEF JobOK, Moved
  <2>. QED BY <1>1, <1>2, <1>3, <1>4, <2>1, <2>2, MovePreserves, QuietStep
           DEF sharedVars, ghostVars, Moved
<1>5. CASE /\ tree' = [tree EXCEPT ![p].real = cache[p].hash, ![p].rtime = NewMtime(p)]
           /\ ToStage(p, "landed")
  <2>1. Moved(p, "landed") /\ job'.todo = job.todo
    BY <1>2, <1>5, MovedFacts DEF JobStages
  <2>2. /\ \E f \in File : FileWritten(p, f) /\ tree' = [tree EXCEPT ![p] = f]
        /\ tree'[p].real = cache[p].hash
        /\ \A q \in Paths \ {p} : tree'[q] = tree[q]
    BY <1>2, <1>5, RealPut
  <2>3. JobOK(p)'
    BY <1>1, <1>2, <2>1, <2>2 DEF JobOK, Moved
  <2>4. WritesFile(p)
    BY <1>1, <1>3, <2>2 DEF WritesFile, sharedVars, ghostVars
  <2>. QED BY <1>1, <1>2, <2>1, <2>2, <2>3, <2>4, FileStep, MovePreserves DEF Moved
<1>. QED BY <1>4, <1>5 DEF Download

LEMMA RemoveStubStep ==
  ASSUME StubInv, NEW p \in Paths, RemoveStub(p)
  PROVE  TypeOK' /\ Inv' /\ job' \in Job /\ JobInv'
<1>1. /\ job.stage[p] = "landed" /\ cache' = cache /\ touched' = touched
      /\ UNCHANGED sharedVars /\ run' = run
  BY DEF RemoveStub, sharedVars
<1>2. /\ JobOK(p) /\ TypeOK /\ Inv /\ job \in Job /\ job.cmd # "none" /\ p \notin run.landing
      /\ cache[p].hash \in Contents /\ cache[p] # NoRow
  BY <1>1, RowNames, JobBusy, NoneAssumption DEF JobOK
<1>3. edits' \in 0..MaxEdits /\ others' \in 0..MaxOthers /\ faults' \in 0..MaxFaults
  BY <1>1, <1>2, CountersStay DEF sharedVars, ghostVars
<1>4. CASE ToStage(p, "none") /\ tree' = tree
  <2>1. Moved(p, "none") /\ job'.todo = job.todo
    BY <1>2, <1>4, MovedFacts DEF JobStages
  <2>2. JobOK(p)'
    BY <1>1, <1>2, <2>1 DEF JobOK, Moved
  <2>. QED BY <1>1, <1>2, <1>3, <1>4, <2>1, <2>2, MovePreserves, QuietStep
           DEF sharedVars, ghostVars, Moved
<1>5. CASE tree' = [tree EXCEPT ![p].stub = None, ![p].stime = 0] /\ ToStage(p, "record")
  <2>1. Moved(p, "record") /\ job'.todo = job.todo
    BY <1>2, <1>5, MovedFacts DEF JobStages
  <2>2. /\ \E f \in File : FileWritten(p, f) /\ tree' = [tree EXCEPT ![p] = f]
        /\ tree'[p].real = tree[p].real /\ tree'[p].stub = None
        /\ \A q \in Paths \ {p} : tree'[q] = tree[q]
    BY <1>2, <1>5, StubGone
  <2>3. JobOK(p)'
    BY <1>1, <1>2, <2>1, <2>2, NoneAssumption DEF JobOK, Moved
  <2>4. WritesFile(p)
    BY <1>1, <1>3, <2>2 DEF WritesFile, sharedVars, ghostVars
  <2>. QED BY <1>1, <1>2, <2>1, <2>2, <2>3, <2>4, FileStep, MovePreserves DEF Moved
<1>. QED BY <1>4, <1>5 DEF RemoveStub

(***************************************************************************)
(* Preservation: the user, the other commands, and the ends of a command.   *)
(***************************************************************************)

LEMMA UserEditsStep ==
  ASSUME StubInv, NEW p \in Paths,
         UserEdits(p) \/ HandStub(p) \/ StrayLands(p) \/ StrayKilled(p)
  PROVE  TypeOK' /\ Inv' /\ job' = job /\ JobInv'
<1>1. /\ p \notin InTurn /\ Touch(p) /\ job' = job /\ run' = run /\ cache' = cache
      /\ p \notin run.landing
  BY DEF UserEdits, HandStub, StrayLands, StrayKilled, StrayReady, Edit, sharedVars
<1>2. TypeOK /\ Inv /\ JobInv /\ tree[p] \in File /\ ClockOK(p)
  BY PathFacts, InvFacts DEF StubInv, StubTypeOK
<1>3. TypeOK' /\ Inv' /\ \A q \in Paths \ {p} : tree'[q] = tree[q]
  <2>1. CASE UserEdits(p)
    <3>1. Edit(p)
      BY <2>1 DEF UserEdits
    <3>. QED BY <1>2, <3>1, EditTree, TreeStep DEF Next
  <2>2. CASE HandStub(p)
    <3>1. PICK c \in known : tree' = [tree EXCEPT ![p].stub = c, ![p].stime = NewMtime(p)]
      BY <2>2 DEF HandStub
    <3>2. c \in Contents
      BY <1>2 DEF TypeOK
    <3>3. /\ \E f \in File : FileWritten(p, f) /\ tree' = [tree EXCEPT ![p] = f]
          /\ \A q \in Paths \ {p} : tree'[q] = tree[q]
      BY <1>2, <3>1, <3>2, StubPut
    <3>4. edits' \in 0..MaxEdits /\ others' \in 0..MaxOthers /\ faults' \in 0..MaxFaults
      <4>1. edits < MaxEdits /\ edits' = edits + 1 /\ others' = others /\ faults' = faults
        BY <2>2 DEF HandStub
      <4>. QED BY <1>2, <4>1, BoundsAssumption DEF TypeOK
    <3>5. WritesFile(p)
      BY <2>2, <3>3, <3>4 DEF HandStub, WritesFile
    <3>. QED BY <1>1, <1>2, <3>3, <3>5, FileStep
  <2>3. CASE StrayLands(p)
    <3>1. /\ strays[p] # None /\ UNCHANGED sharedVars
          /\ tree' = [tree EXCEPT ![p] = [NoFile EXCEPT !.real = strays[p], !.rtime = NewMtime(p)]]
      BY <2>3 DEF StrayLands, StrayReady
    <3>2. strays[p] \in Contents
      BY <3>1 DEF StubInv, StubTypeOK
    <3>3. PICK f : f = [NoFile EXCEPT !.real = strays[p], !.rtime = NewMtime(p)]
      OBVIOUS
    <3>4. /\ f \in File /\ f.real = strays[p] /\ f.rtime = NewMtime(p)
          /\ f.stub = None /\ f.stime = 0
      BY <1>2, <3>2, <3>3, NewMtimeFacts DEF NoFile, File
    <3>5. FileWritten(p, f) /\ tree' = [tree EXCEPT ![p] = f]
      BY <3>1, <3>2, <3>3, <3>4 DEF FileWritten
    <3>6. edits' \in 0..MaxEdits /\ others' \in 0..MaxOthers /\ faults' \in 0..MaxFaults
      BY <1>2, <3>1, CountersStay DEF sharedVars, ghostVars
    <3>7. WritesFile(p)
      BY <1>1, <3>1, <3>4, <3>5, <3>6 DEF WritesFile, sharedVars, ghostVars
    <3>8. \A q \in Paths \ {p} : tree'[q] = tree[q]
      BY <1>2, <3>5 DEF TypeOK
    <3>. QED BY <1>1, <1>2, <3>7, <3>8, FileStep
  <2>4. CASE StrayKilled(p)
    <3>1. strays[p] \in Contents
      BY <2>4 DEF StrayKilled, StrayReady, StubInv, StubTypeOK
    <3>2. tree' = [tree EXCEPT ![p].real = strays[p], ![p].rtime = NewMtime(p)]
      BY <2>4 DEF StrayKilled
    <3>3. /\ \E f \in File : FileWritten(p, f) /\ tree' = [tree EXCEPT ![p] = f]
          /\ \A q \in Paths \ {p} : tree'[q] = tree[q]
      BY <1>2, <3>1, <3>2, RealPut
    <3>4. edits' \in 0..MaxEdits /\ others' \in 0..MaxOthers /\ faults' \in 0..MaxFaults
      <4>1. faults < MaxFaults /\ faults' = faults + 1 /\ others' = others /\ edits' = edits
        BY <2>4 DEF StrayKilled
      <4>. QED BY <1>2, <4>1, BoundsAssumption DEF TypeOK
    <3>5. WritesFile(p)
      BY <2>4, <3>3, <3>4 DEF StrayKilled, WritesFile
    <3>. QED BY <1>1, <1>2, <3>3, <3>5, FileStep
  <2>. QED BY <2>1, <2>2, <2>3, <2>4
<1>4. CASE job.cmd = "none"
  <2>1. job' = NoJob
    BY <1>1, <1>2, <1>4 DEF JobInv
  <2>. QED BY <1>1, <1>3, <1>4, <2>1, NoJobFacts DEF JobInv, JobOK
<1>5. CASE job.cmd # "none"
  <2>1. touched' = touched \cup {p} /\ run'.pc = "idle"
    BY <1>1, <1>2, <1>5 DEF Touch, JobInv
  <2>2. ASSUME NEW q \in Paths \ {p} PROVE JobOK(q)'
    BY <1>1, <1>2, <1>3, <2>1, <2>2 DEF JobInv, JobOK
  <2>3. JobOK(p)'
    <3>1. JobOK(p) /\ job.stage[p] \notin {"stubbed", "landed", "record"}
      BY <1>1, <1>2 DEF JobInv, InTurn, InStage
    <3>. QED BY <1>1, <2>1, <3>1 DEF JobOK
  <2>. QED BY <1>1, <1>3, <1>5, <2>1, <2>2, <2>3 DEF JobInv
<1>. QED BY <1>1, <1>3, <1>4, <1>5

LEMMA OtherCommandStep ==
  ASSUME StubInv, OtherCommand
  PROVE  TypeOK' /\ Inv' /\ job' = job /\ JobInv'
<1>1. TypeOK /\ Inv /\ JobInv /\ job.cmd = "none" /\ job' = job /\ Next
  BY DEF StubInv, StubTypeOK, OtherCommand, Next
<1>2. job' = NoJob
  BY <1>1 DEF JobInv
<1>. QED BY <1>1, <1>2, TreeStep, NoJobFacts DEF JobInv, JobOK

LEMMA JobSame ==
  ASSUME JobInv, UNCHANGED <<job, touched, tree, cache, run>>
  PROVE  JobInv'
BY DEF JobInv, JobOK

LEMMA OthersActStep ==
  ASSUME StubInv, OthersAct
  PROVE  TypeOK' /\ Inv' /\ job' = job /\ JobInv'
<1>1. TypeOK /\ Inv /\ JobInv
  BY DEF StubInv, StubTypeOK
<1>2. CASE OtherCommits
  BY <1>1, <1>2, TreeStep, JobSame DEF Next, OtherCommits, OthersAct, diskVars
<1>3. CASE /\ others < MaxOthers /\ others' = others + 1
           /\ UNCHANGED <<remote, minted, diskVars, run, history, seen, edits, faults>>
  <2>1. edits' \in 0..MaxEdits /\ others' \in 0..MaxOthers /\ faults' \in 0..MaxFaults
    BY <1>1, <1>3, BoundsAssumption DEF TypeOK
  <2>. QED BY <1>1, <1>3, <2>1, QuietStep, JobSame DEF OthersAct, diskVars
<1>. QED BY <1>2, <1>3 DEF OthersAct

(* Killed and HeadFails count a fault.                                      *)
LEMMA FaultCounted ==
  ASSUME TypeOK, faults < MaxFaults, faults' = faults + 1, UNCHANGED <<edits, others>>
  PROVE  edits' \in 0..MaxEdits /\ others' \in 0..MaxOthers /\ faults' \in 0..MaxFaults
BY BoundsAssumption DEF TypeOK

LEMMA EndStep ==
  ASSUME StubInv, CommandEnds \/ Killed \/ \E p \in Paths : MaterializeFails(p)
  PROVE  TypeOK' /\ Inv' /\ job' \in Job /\ JobInv' /\ tree' = tree
<1>1. /\ TypeOK /\ Inv /\ job' = NoJob
      /\ UNCHANGED <<remote, minted, tree, cache, known, lastSynced, run, history, seen>>
  BY DEF StubInv, StubTypeOK, CommandEnds, Killed, MaterializeFails, Ended, sharedVars,
         ghostVars, diskVars
<1>2. edits' \in 0..MaxEdits /\ others' \in 0..MaxOthers /\ faults' \in 0..MaxFaults
  BY <1>1, CountersStay, FaultCounted DEF CommandEnds, Killed, MaterializeFails, sharedVars,
     ghostVars
<1>. QED BY <1>1, <1>2, QuietStep, NoJobFacts DEF JobInv, JobOK

LEMMA StartCommandStep ==
  ASSUME StubInv, NEW cmd \in {"stubify", "materialize"}, NEW request \in BOOLEAN,
         StartCommand(cmd, request)
  PROVE  TypeOK' /\ Inv' /\ job' \in Job /\ JobInv'
<1>1. /\ TypeOK /\ Inv /\ UNCHANGED vars /\ run.pc = "idle"
      /\ job' = [NoJob EXCEPT !.cmd = cmd, !.request = request,
                              !.todo = {p \in Paths : cache[p] # NoRow}]
  BY DEF StubInv, StubTypeOK, StartCommand
<1>2. PICK todo : todo = {p \in Paths : cache[p] # NoRow}
  OBVIOUS
<1>3. job' = [NoJob EXCEPT !.cmd = cmd, !.request = request, !.todo = todo]
  BY <1>1, <1>2
<1>4. /\ job' \in Job /\ job'.cmd = cmd /\ job'.todo = todo
      /\ job'.stage = NoJob.stage
  BY <1>2, <1>3, NoJobFacts DEF Job
<1>5. edits' \in 0..MaxEdits /\ others' \in 0..MaxOthers /\ faults' \in 0..MaxFaults
  BY <1>1, CountersStay DEF vars
<1>6. \A p \in Paths : JobOK(p)'
  <2>1. ASSUME NEW p \in Paths PROVE JobOK(p)'
    <3>1. job'.stage[p] = "none" /\ (p \in job'.todo => cache'[p] # NoRow)
      BY <1>1, <1>2, <1>4, NoJobFacts DEF vars
    <3>. QED BY <3>1 DEF JobOK
  <2>. QED BY <2>1
<1>. QED BY <1>1, <1>4, <1>5, <1>6, QuietStep DEF vars, JobInv

LEMMA HeadFailsStep ==
  ASSUME StubInv, HeadFails
  PROVE  TypeOK' /\ Inv' /\ job' \in Job /\ JobInv' /\ tree' = tree
<1>1. /\ TypeOK /\ Inv /\ JobInv /\ job \in Job /\ job.cmd # "none" /\ run' = run
      /\ UNCHANGED <<remote, minted, tree, cache, known, lastSynced, run, history, seen>>
      /\ touched' = touched
  BY DEF StubInv, StubTypeOK, HeadFails, diskVars
<1>2. edits' \in 0..MaxEdits /\ others' \in 0..MaxOthers /\ faults' \in 0..MaxFaults
  BY <1>1, FaultCounted DEF HeadFails
<1>3. CASE job' = [job EXCEPT !.failed = TRUE]
  <2>1. /\ job' \in Job /\ job'.cmd = job.cmd /\ job'.todo = job.todo /\ job'.stage = job.stage
    BY <1>1, <1>3 DEF Job
  <2>. QED BY <1>1, <1>2, <2>1, QuietStep DEF JobInv, JobOK
<1>4. ASSUME NEW p \in InStage({"queued"}),
             job' = [job EXCEPT !.failed = TRUE, !.stage[p] = "none"]
      PROVE  job' \in Job /\ JobInv'
  <2>1. p \in Paths /\ job' = [job EXCEPT !.stage[p] = "none", !.failed = TRUE]
    BY <1>1, <1>4 DEF InStage, Job
  <2>2. Moved(p, "none") /\ job'.todo = job.todo
    <3>1. "none" \in JobStages
      BY DEF JobStages
    <3>. QED BY <1>1, <2>1, <3>1, MovedFacts
  <2>3. job.stage[p] = "queued" /\ JobOK(p)
    BY <1>1, <1>4, <2>1 DEF InStage, JobInv
  <2>4. JobOK(p)'
    BY <1>1, <2>2, <2>3 DEF JobOK, Moved
  <2>. QED BY <1>1, <2>1, <2>2, <2>4, MovePreserves DEF Moved
<1>. QED BY <1>1, <1>2, <1>3, <1>4, QuietStep DEF HeadFails

(***************************************************************************)
(* Types, and the invariant.                                               *)
(***************************************************************************)

LEMMA ObjectFacts ==
  /\ S3!Classes = {"STANDARD", "GLACIER", "DEEP_ARCHIVE"}
  /\ \A class \in {"STANDARD", "GLACIER"} : S3!Fresh(class) \in S3!Object
<1>1. S3!Classes = {"STANDARD", "GLACIER", "DEEP_ARCHIVE"}
  BY DEF S3!Classes, S3!Coldness
<1>. QED BY <1>1 DEF S3!Fresh, S3!Object, S3!Restores

LEMMA StoredType ==
  ASSUME StubInv, StubNext
  PROVE  stored' \in [Contents -> S3!Object]
<1>1. stored \in [Contents -> S3!Object] /\ TypeOK
  BY DEF StubInv, StubTypeOK
<1>2. ASSUME NEW c \in Contents, NEW o \in S3!Object, stored' = [stored EXCEPT ![c] = o]
      PROVE  stored' \in [Contents -> S3!Object]
  BY <1>1, <1>2
<1>3. ASSUME NEW c \in Contents, NEW s \in S3!Restores,
             stored' = [stored EXCEPT ![c].restore = s]
      PROVE  stored' \in [Contents -> S3!Object]
  <2>1. PICK o : o = [stored[c] EXCEPT !.restore = s]
    OBVIOUS
  <2>2. o \in S3!Object
    BY <1>1, <1>3, <2>1 DEF S3!Object
  <2>3. stored' = [stored EXCEPT ![c] = o]
    BY <1>1, <1>3, <2>1
  <2>. QED BY <1>2, <2>2, <2>3
<1>4. CASE OthersAct
  BY <1>1, <1>2, <1>4, ObjectFacts DEF OthersAct
<1>5. CASE RestoreEnds
  <2>1. "ready" \in S3!Restores
    BY DEF S3!Restores
  <2>. QED BY <1>3, <1>5, <2>1 DEF RestoreEnds, S3!RestoreCompletes
<1>6. ASSUME NEW p \in Paths, HeadStub(p) PROVE stored' \in [Contents -> S3!Object]
  <2>1. job.stage[p] = "queued"
    BY <1>6 DEF HeadStub
  <2>2. cache[p].hash \in Contents
    BY <2>1, RowNames DEF JobOK
  <2>3. stored' = stored \/ stored' = S3!Restored(cache[p].hash)
    BY <1>6 DEF HeadStub
  <2>4. \E s \in S3!Restores : S3!Restored(cache[p].hash) = [stored EXCEPT ![cache[p].hash].restore = s]
    <3>1. PICK s : s = IF stored[cache[p].hash].restore = "ready" THEN "ready" ELSE "ongoing"
      OBVIOUS
    <3>2. s \in S3!Restores
      BY <3>1 DEF S3!Restores
    <3>3. S3!Restored(cache[p].hash) = [stored EXCEPT ![cache[p].hash].restore = s]
      BY <1>1, <2>2, <3>1 DEF S3!Restored
    <3>. QED BY <3>2, <3>3
  <2>. QED BY <1>1, <1>3, <2>2, <2>3, <2>4
<1>7. CASE /\ ~OthersAct /\ ~RestoreEnds
           /\ \A p \in Paths : ~HeadStub(p)
  <2>1. stored' = stored
    BY <1>7 DEF StubNext, StubStep, HeadFails, OtherCommand, Killed, StartCommand, UserEdits, HandStub,
                StrayLands, StrayKilled, StrayFails, CommandEnds, StubifyRow, RehashEnds, WriteStub,
                RemoveReal, Record, MaterializeRow, MaterializeFails, Download, RemoveStub
  <2>. QED BY <1>1, <2>1
<1>. QED BY <1>4, <1>5, <1>6, <1>7

LEMMA StraysType ==
  ASSUME StubInv, StubNext
  PROVE  strays' \in [Paths -> Contents \cup {None}] /\ touched' \subseteq Paths
<1>1. /\ strays \in [Paths -> Contents \cup {None}] /\ touched \subseteq Paths
      /\ \A p \in Paths : cache[p].hash \in Contents \cup {None}
  BY RowNames DEF StubInv, StubTypeOK
<1>2. Abandoned \in [Paths -> Contents \cup {None}]
  BY <1>1 DEF Abandoned
<1>3. \/ strays' \in {strays, Abandoned}
      \/ \E p \in Paths : strays' = [strays EXCEPT ![p] = None]
  BY DEF StubNext, StubStep, HeadFails, OtherCommand, OthersAct, RestoreEnds, Killed, StartCommand,
         UserEdits, HandStub, StrayLands, StrayKilled, StrayFails, CommandEnds, StubifyRow,
         RehashEnds, WriteStub, RemoveReal, Record, MaterializeRow, MaterializeFails, HeadStub, Download,
         RemoveStub
<1>4. touched' \in {touched, {}} \/ \E p \in Paths : touched' = touched \cup {p}
  BY DEF StubNext, StubStep, HeadFails, OtherCommand, OthersAct, RestoreEnds, Killed, StartCommand,
         UserEdits, HandStub, StrayLands, StrayKilled, StrayFails, CommandEnds, StubifyRow,
         RehashEnds, WriteStub, RemoveReal, Record, MaterializeRow, MaterializeFails, HeadStub, Download,
         RemoveStub, Touch, Ended
<1>. QED BY <1>1, <1>2, <1>3, <1>4

LEMMA StubInitInv ==
  ASSUME StubInit
  PROVE  StubInv
<1>1. TypeOK /\ Inv /\ job = NoJob
  BY InitInv DEF StubInit
<1>2. stored \in [Contents -> S3!Object]
  BY ObjectFacts DEF StubInit
<1>3. strays \in [Paths -> Contents \cup {None}] /\ touched \subseteq Paths
  BY DEF StubInit
<1>4. JobInv
  BY <1>1, NoJobFacts DEF JobInv, JobOK
<1>. QED BY <1>1, <1>2, <1>3, <1>4, NoJobFacts DEF StubInv, StubTypeOK

(* A step that is about downloads left over, restores, or nothing at all.   *)
LEMMA AsideStep ==
  ASSUME StubInv, UNCHANGED vars, UNCHANGED <<job, touched>>
  PROVE  TypeOK' /\ Inv' /\ job' \in Job /\ JobInv'
<1>1. TypeOK /\ Inv /\ JobInv /\ job' = job /\ job \in Job
  BY DEF StubInv, StubTypeOK
<1>2. UNCHANGED <<remote, minted, tree, cache, known, lastSynced, run, history, seen>>
  BY DEF vars
<1>3. edits' \in 0..MaxEdits /\ others' \in 0..MaxOthers /\ faults' \in 0..MaxFaults
  BY <1>1, CountersStay DEF vars
<1>4. TypeOK' /\ Inv'
  BY <1>1, <1>2, <1>3, QuietStep
<1>5. JobInv'
  BY <1>1, <1>2, JobSame
<1>. QED BY <1>1, <1>4, <1>5

LEMMA JobStep ==
  ASSUME StubInv, StubStep
  PROVE  TypeOK' /\ Inv' /\ job' \in Job /\ JobInv'
<1>1. CASE CommandEnds \/ \E p \in Paths : MaterializeFails(p)
  BY <1>1, EndStep
<1>2. ASSUME NEW p \in Paths,
             \/ StubifyRow(p) \/ RehashEnds(p) \/ WriteStub(p) \/ RemoveReal(p) \/ Record(p)
             \/ MaterializeRow(p) \/ HeadStub(p) \/ Download(p) \/ RemoveStub(p)
      PROVE  TypeOK' /\ Inv' /\ job' \in Job /\ JobInv'
  BY <1>2, StubifyRowStep, RehashEndsStep, WriteStubStep, RemoveRealStep, RecordStep,
     MaterializeRowStep, HeadStubStep, DownloadStep, RemoveStubStep
<1>. QED BY <1>1, <1>2 DEF StubStep

LEMMA NextStep ==
  ASSUME StubInv, StubNext
  PROVE  TypeOK' /\ Inv' /\ job' \in Job /\ JobInv'
<1>1. job \in Job
  BY DEF StubInv, StubTypeOK
<1>2. ASSUME NEW p \in Paths, StrayFails(p)
      PROVE  TypeOK' /\ Inv' /\ job' \in Job /\ JobInv'
  BY <1>2, AsideStep DEF StrayFails
<1>3. CASE RestoreEnds
  BY <1>3, AsideStep DEF RestoreEnds
<1>4. CASE OtherCommand \/ OthersAct
  BY <1>1, <1>4, OtherCommandStep, OthersActStep
<1>5. ASSUME NEW p \in Paths,
             UserEdits(p) \/ HandStub(p) \/ StrayLands(p) \/ StrayKilled(p)
      PROVE  TypeOK' /\ Inv' /\ job' \in Job /\ JobInv'
  BY <1>1, <1>5, UserEditsStep
<1>6. CASE HeadFails
  BY <1>6, HeadFailsStep
<1>7. CASE Killed
  BY <1>7, EndStep
<1>8. CASE StartCommand("stubify", FALSE) \/ \E r \in BOOLEAN : StartCommand("materialize", r)
  BY <1>8, StartCommandStep
<1>. QED BY <1>2, <1>3, <1>4, <1>5, <1>6, <1>7, <1>8, JobStep DEF StubNext

LEMMA StubInvStep ==
  ASSUME StubInv, [StubNext]_allVars
  PROVE  StubInv'
<1>1. CASE UNCHANGED allVars
  <2>1. TypeOK' /\ Inv' /\ job' \in Job /\ JobInv'
    BY <1>1, AsideStep DEF allVars
  <2>. QED BY <1>1, <2>1 DEF StubInv, StubTypeOK, allVars
<1>2. CASE StubNext
  BY <1>2, NextStep, StoredType, StraysType DEF StubInv, StubTypeOK
<1>. QED BY <1>1, <1>2

(* Types and the invariant, in every reachable state.                       *)
THEOREM StubInvariant == StubSpec => []StubInv
BY StubInitInv, StubInvStep, PTL DEF StubSpec

(* Every variable of the stub commands' model keeps its type.               *)
THEOREM StubTypeCorrect == StubSpec => []StubTypeOK
<1>1. StubInv => StubTypeOK
  BY DEF StubInv
<1>. QED BY <1>1, StubInvariant, PTL

(***************************************************************************)
(* What the commands promise.                                              *)
(***************************************************************************)

(* A step of a stub command is one of its job's, or its end.                *)
LEMMA CommandSteps ==
  ASSUME StubInv, StubNext, ByStubCommand
  PROVE  \/ tree' = tree
         \/ \E p \in Paths : \/ StubifyRow(p) \/ WriteStub(p) \/ RemoveReal(p)
                             \/ MaterializeRow(p) \/ Download(p) \/ RemoveStub(p)
<1>1. job.cmd # "none" /\ job' # job
  BY DEF ByStubCommand
<1>2. CASE \E p \in Paths : RehashEnds(p) \/ Record(p) \/ HeadStub(p)
  BY <1>2 DEF RehashEnds, Record, HeadStub
<1>3. CASE HeadFails \/ CommandEnds \/ Killed \/ \E p \in Paths : MaterializeFails(p)
  BY <1>3, EndStep, HeadFailsStep
<1>4. ~OtherCommand /\ ~OthersAct /\ ~RestoreEnds
  BY <1>1 DEF OtherCommand, OthersAct, RestoreEnds
<1>5. \A p \in Paths : /\ ~UserEdits(p) /\ ~HandStub(p)
                       /\ ~StrayLands(p) /\ ~StrayKilled(p) /\ ~StrayFails(p)
  BY <1>1 DEF UserEdits, HandStub, StrayLands, StrayKilled, StrayFails
<1>6. \A cmd, request : ~StartCommand(cmd, request)
  BY <1>1 DEF StartCommand
<1>. QED BY <1>2, <1>3, <1>4, <1>5, <1>6 DEF StubNext, StubStep

(* The six steps of a job that may write a file, and what they do to it:    *)
(* a stub is put, the file beside it goes, a file lands, its stub goes.     *)
LEMMA FileChanges ==
  ASSUME StubInv, StubNext, ByStubCommand, NEW p \in Paths
  PROVE  \/ tree'[p] = tree[p]
         \/ /\ tree'[p].real = tree[p].real /\ tree'[p].stub = cache[p].hash
            /\ cache[p].hash \in Contents
            /\ p \notin touched => tree[p].real # None
         \/ /\ tree'[p].real = None /\ tree'[p].stub = tree[p].stub
            /\ tree[p].stub = cache[p].hash /\ cache[p].hash \in Contents
            /\ p \notin touched => tree[p].real = cache[p].hash
            /\ cache[p].state = "unchanged"
         \/ /\ tree'[p].real = cache[p].hash /\ cache[p].hash \in Contents
            /\ p \notin touched => tree[p].real = None /\ tree[p].stub # None
         \/ /\ tree'[p].real = tree[p].real /\ tree'[p].stub = None
            /\ tree[p].real # None \/ tree[p].stub = None
<1>1. TypeOK /\ Inv /\ tree \in [Paths -> File]
  BY DEF StubInv, StubTypeOK, TypeOK
<1>2. ASSUME NEW q \in Paths, StubifyRow(q) \/ WriteStub(q), tree'[p] # tree[p]
      PROVE  /\ tree'[p].real = tree[p].real /\ tree'[p].stub = cache[p].hash
             /\ cache[p].hash \in Contents
             /\ p \notin touched => tree[p].real # None
  <2>1. tree' = [tree EXCEPT ![q].stub = cache[q].hash, ![q].stime = NewMtime(q)]
    BY <1>2 DEF StubifyRow, WriteStub
  <2>2. cache[q].state = "unchanged" /\ (q \notin touched => tree[q].real # None)
    <3>1. CASE StubifyRow(q)
      BY <1>2, <3>1 DEF StubifyRow
    <3>2. CASE WriteStub(q)
      BY <3>2, RowNames, NoneAssumption DEF WriteStub, JobOK
    <3>. QED BY <1>2, <3>1, <3>2
  <2>3. cache[q].hash \in Contents
    BY <2>2, RowNames
  <2>. QED BY <1>1, <1>2, <2>1, <2>2, <2>3, StubPut
<1>3. ASSUME NEW q \in Paths, RemoveReal(q), tree'[p] # tree[p]
      PROVE  /\ tree'[p].real = None /\ tree'[p].stub = tree[p].stub
             /\ tree[p].stub = cache[p].hash /\ cache[p].hash \in Contents
             /\ p \notin touched => tree[p].real = cache[p].hash
             /\ cache[p].state = "unchanged"
  <2>1. job.stage[q] = "stubbed" /\ tree' = [tree EXCEPT ![q].real = None, ![q].rtime = 0]
    BY <1>3 DEF RemoveReal
  <2>2. p = q
    BY <1>1, <1>3, <2>1, RealGone
  <2>. QED BY <1>1, <2>1, <2>2, RealGone, RowNames DEF JobOK
<1>4. ASSUME NEW q \in Paths, Download(q), tree'[p] # tree[p]
      PROVE  /\ tree'[p].real = cache[p].hash /\ cache[p].hash \in Contents
             /\ p \notin touched => tree[p].real = None /\ tree[p].stub # None
  <2>1. /\ job.stage[q] = "stream"
        /\ tree' = [tree EXCEPT ![q].real = cache[q].hash, ![q].rtime = NewMtime(q)]
    BY <1>4 DEF Download
  <2>2. /\ cache[q].hash \in Contents
        /\ q \notin touched => tree[q].real = None /\ tree[q].stub # None
    BY <2>1, RowNames DEF JobOK
  <2>. QED BY <1>1, <1>4, <2>1, <2>2, RealPut
<1>5. ASSUME NEW q \in Paths, MaterializeRow(q) \/ RemoveStub(q), tree'[p] # tree[p]
      PROVE  /\ tree'[p].real = tree[p].real /\ tree'[p].stub = None
             /\ tree[p].real # None \/ tree[p].stub = None
  <2>1. tree' = [tree EXCEPT ![q].stub = None, ![q].stime = 0]
    BY <1>5 DEF MaterializeRow, RemoveStub
  <2>2. tree[q].real # None \/ tree[q].stub = None
    <3>1. CASE MaterializeRow(q)
      BY <1>5, <3>1 DEF MaterializeRow
    <3>2. CASE RemoveStub(q)
      BY <3>2, RowNames, NoneAssumption DEF RemoveStub, JobOK
    <3>. QED BY <1>5, <3>1, <3>2
  <2>. QED BY <1>1, <1>5, <2>1, <2>2, StubGone
<1>. QED BY <1>2, <1>3, <1>4, <1>5, CommandSteps

(* A download that outlived its command changes no file when it ends, or    *)
(* leaves its content at its path.                                          *)
LEMMA StraySteps ==
  ASSUME StubInv, StubNext, ByStray, ~ByStubCommand, NEW p \in Paths
  PROVE  tree'[p] = tree[p] \/ tree'[p].real \in Contents
<1>1. tree \in [Paths -> File] /\ strays \in [Paths -> Contents \cup {None}]
  BY DEF StubInv, StubTypeOK, TypeOK
<1>2. \E q \in Paths : StrayLands(q) \/ StrayKilled(q) \/ StrayFails(q)
  <2>1. ~CommandEnds /\ \A q \in Paths : ~MaterializeFails(q)
    BY DEF CommandEnds, MaterializeFails, Unresolved, Ended, ByStubCommand, NoJob
  <2>. QED BY <2>1 DEF ByStray, StubNext, StubStep, HeadFails, OtherCommand, OthersAct,
                       RestoreEnds, Killed, StartCommand, UserEdits, HandStub, StubifyRow,
                       RehashEnds, WriteStub, RemoveReal, Record, MaterializeRow, HeadStub,
                       Download, RemoveStub
<1>3. ASSUME NEW q \in Paths, StrayLands(q) PROVE tree'[p] = tree[p] \/ tree'[p].real \in Contents
  <2>1. strays[q] \in Contents
    BY <1>1, <1>3 DEF StrayLands, StrayReady
  <2>2. PICK f : f = [NoFile EXCEPT !.real = strays[q], !.rtime = NewMtime(q)]
    OBVIOUS
  <2>3. f.real = strays[q] /\ tree' = [tree EXCEPT ![q] = f]
    BY <1>3, <2>2 DEF StrayLands, NoFile
  <2>. QED BY <1>1, <2>1, <2>3
<1>4. ASSUME NEW q \in Paths, StrayKilled(q) PROVE tree'[p] = tree[p] \/ tree'[p].real \in Contents
  <2>1. strays[q] \in Contents
    BY <1>1, <1>4 DEF StrayKilled, StrayReady
  <2>2. tree' = [tree EXCEPT ![q].real = strays[q], ![q].rtime = NewMtime(q)]
    BY <1>4 DEF StrayKilled
  <2>. QED BY <2>1, <2>2, RealPut DEF StubInv, StubTypeOK
<1>5. ASSUME NEW q \in Paths, StrayFails(q) PROVE tree'[p] = tree[p]
  BY <1>5 DEF StrayFails, vars
<1>. QED BY <1>2, <1>3, <1>4, <1>5

(* A path always holds the file or its stub: the stub is in place before    *)
(* the file is removed, and the file before the stub is, whatever the user  *)
(* does meanwhile, wherever the command is killed, and also for a download  *)
(* that outlived its command.                                               *)
THEOREM NeverNeitherHolds == StubSpec => NeverNeither
<1>1. StubInv /\ [StubNext]_allVars =>
        [ByStubCommand \/ ByStray =>
           \A p \in Paths : tree[p] # NoFile => tree'[p] # NoFile]_allVars
  <2>. SUFFICES ASSUME StubInv, StubNext, ByStubCommand \/ ByStray, NEW p \in Paths,
                       tree[p] # NoFile
                PROVE  tree'[p] # NoFile
    OBVIOUS
  <2>1. tree[p].real # None \/ tree[p].stub # None
    <3>1. ClockOK(p) /\ tree[p] \in File
      BY InvFacts, PathFacts DEF StubInv, StubTypeOK
    <3>2. ASSUME tree[p].real = None, tree[p].stub = None PROVE FALSE
      <4>1. tree[p].rtime = 0 /\ tree[p].stime = 0
        BY <3>1, <3>2 DEF ClockOK
      <4>2. tree[p] = [real |-> None, rtime |-> 0, stub |-> None, stime |-> 0]
        BY <3>1, <3>2, <4>1 DEF File
      <4>. QED BY <4>2 DEF NoFile
    <3>. QED BY <3>2
  <2>2. tree'[p].real # None \/ tree'[p].stub # None \/ tree'[p] = tree[p]
    BY <2>1, FileChanges, StraySteps, NoneAssumption
  <2>. QED BY <2>2, NoRowFacts
<1>. QED BY <1>1, StubInvariant, PTL DEF StubSpec, NeverNeither

(* What a path stands for is not changed: the job replaces the file by a    *)
(* stub of the row it confirmed, and the stub by the content of its row.    *)
THEOREM ContentIsKeptHolds == StubSpec => ContentIsKept
<1>1. StubInv /\ [StubNext]_allVars =>
        [ByStubCommand =>
           \A p \in Paths \ touched :
             tree[p].stub \in {None, cache[p].hash} => Content(tree'[p]) = Content(tree[p])]_allVars
  <2>. SUFFICES ASSUME StubInv, StubNext, ByStubCommand, NEW p \in Paths \ touched,
                       tree[p].stub \in {None, cache[p].hash}
                PROVE  Content(tree'[p]) = Content(tree[p])
    OBVIOUS
  <2>. QED BY FileChanges, NoneAssumption DEF Content
<1>. QED BY <1>1, StubInvariant, PTL DEF StubSpec, ContentIsKept

(* The bytes stubify deletes are a content the vault has held at that path. *)
THEOREM OnlyCommittedIsStubbedHolds == StubSpec => OnlyCommittedIsStubbed
<1>1. StubInv /\ [StubNext]_allVars =>
        [ByStubCommand =>
           \A p \in Paths \ touched :
             tree[p].real # None /\ tree'[p].real = None =>
               \E e \in history[p] : e.hash = tree[p].real]_allVars
  <2>. SUFFICES ASSUME StubInv, StubNext, ByStubCommand, NEW p \in Paths \ touched,
                       tree[p].real # None, tree'[p].real = None
                PROVE  \E e \in history[p] : e.hash = tree[p].real
    OBVIOUS
  <2>1. tree[p].real = cache[p].hash /\ cache[p].state = "unchanged"
    BY FileChanges, NoneAssumption
  <2>2. [hash |-> cache[p].hash, version |-> cache[p].parent] \in history[p]
    BY <2>1, InvFacts DEF StubInv, SeenOK, RowSeen
  <2>. QED BY <2>1, <2>2
<1>. QED BY <1>1, StubInvariant, PTL DEF StubSpec, OnlyCommittedIsStubbed

(* The two commands keep what sync relies on: with them and what they leave *)
(* behind, rows still speak of committed versions only, a file the scan     *)
(* skips is what its row says, and a sync replaces only what it has seen.   *)
THEOREM SyncIsUnharmed ==
  StubSpec => [](RowsAreHistory /\ SkippedIsUnchanged /\ SyncedMeansEqual /\ ReplacesOnlySeen)
<1>1. StubInv => RowsAreHistory /\ SkippedIsUnchanged /\ SyncedMeansEqual /\ ReplacesOnlySeen
  BY RowsAreHistoryInv, SkippedIsUnchangedInv, SyncedMeansEqualInv, ReplacesOnlySeenInv
     DEF StubInv, StubTypeOK
<1>. QED BY <1>1, StubInvariant, PTL
=============================================================================
