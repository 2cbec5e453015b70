----------------------------- MODULE Mirror_proofs -----------------------------
(***************************************************************************)
(* Proofs of what Mirror promises, for any objects and any number of       *)
(* versions and faults.                                                    *)
(*                                                                         *)
(* The inductive invariant says what a running command may rely on while   *)
(* other machines commit and the drive and S3 lose things: a sync, of the  *)
(* objects it still has to store; a catchup, of those it has not looked at *)
(* yet; a prune, of those it is about to delete.                           *)
(***************************************************************************)
EXTENDS Mirror, TLAPS

USE MirrorAssumption

Minted == 1..Len(versions)
Committed(v) == \E i \in 1..Len(log) : log[i] = v

(* The version a command works for exists, and once its compare-and-swap   *)
(* has landed (catchup: from the start) it has been /current.              *)
RunOK ==
  /\ run.cmd \in {"sync", "edit", "catchup"} => run.version \in Minted
  /\ run.cmd \in {"sync", "edit"} => run.base \in Minted
  /\ run.cmd \in {"edit", "catchup"} \/ (run.cmd = "sync" /\ run.stage = "pointer") =>
       Committed(run.version)

(* In fail mode every new object of the sync's version is in the mirror or *)
(* still to be stored.                                                     *)
SyncOK ==
  run.cmd = "sync" /\ run.sink = "fail" =>
    /\ versions[run.version].objects \subseteq
         versions[run.base].objects \union run.todo \union mirror.held
    /\ run.stage # "objects" => run.todo = {}

(* Unless one was lost, every object of catchup's version is in the mirror,*)
(* waits for its archive or is still to be looked at.                      *)
CatchupOK ==
  run.cmd = "catchup" =>
    /\ mirror.manifest /\ run.version \in mirror.snapshots
    /\ ~run.lost => versions[run.version].objects \subseteq
                      run.todo \union run.waiting \union mirror.held

(* prune deletes nothing the mirror's own version lists.                   *)
PruneOK ==
  run.cmd = "prune" => /\ mirror.pointer # 0
                       /\ run.todo \intersect versions[mirror.pointer].objects = {}

Inv == /\ Len(log) >= 1
       /\ PointerIsCommitted /\ RunOK /\ SyncOK /\ CatchupOK /\ PruneOK

(***************************************************************************)
(* Type correctness.                                                       *)
(***************************************************************************)

LEMMA TypeFacts ==
  ASSUME TypeOK, Len(log) >= 1
  PROVE  /\ Len(versions) \in 1..MaxVersions /\ Len(log) \in Nat
         /\ Current \in Minted /\ versions[Current] \in Version
         /\ \A v \in Minted : versions[v] \in Version
         /\ versions \in Seq(Version) /\ log \in Seq(Minted)
         /\ run \in Run
<1>1. Len(versions) \in Nat /\ Len(log) \in Nat
  BY DEF TypeOK
<1>2. log[Len(log)] \in Minted
  BY <1>1 DEF TypeOK, Minted
<1>. QED BY <1>1, <1>2 DEF TypeOK, Current, Minted

LEMMA NoRunType == NoRun \in Run
BY DEF NoRun, Run

(* A version more: the ones there were stay what they were.                *)
LEMMA MintFacts ==
  ASSUME TypeOK, Len(log) >= 1, NEW v \in Version, Mint(v)
  PROVE  /\ versions' \in Seq(Version)
         /\ Len(versions') = Len(versions) + 1 /\ Len(versions') \in 1..MaxVersions
         /\ versions'[Len(versions')] = v
         /\ \A w \in Minted : versions'[w] = versions[w]
<1>1. versions \in Seq(Version) /\ Len(versions) \in Nat
  BY DEF TypeOK
<1>. QED BY <1>1 DEF Mint, Minted

LEMMA LogGrows ==
  ASSUME TypeOK, Len(log) >= 1, Len(versions') \in Nat, Len(versions') >= Len(versions),
         \/ log' = log
         \/ \E v \in 1..Len(versions') : log' = Append(log, v)
  PROVE  /\ log' \in Seq(1..Len(versions'))
         /\ Len(log') >= 1
         /\ \A v : Committed(v) => Committed(v)'
<1>1. Len(versions) \in Nat /\ Len(log) \in Nat /\ log \in Seq(1..Len(versions))
  BY DEF TypeOK
<1>2. log \in Seq(1..Len(versions'))
  BY <1>1
<1>3. CASE log' = log
  BY <1>1, <1>2, <1>3 DEF Committed
<1>4. ASSUME NEW v \in 1..Len(versions'), log' = Append(log, v)
      PROVE  /\ log' \in Seq(1..Len(versions')) /\ Len(log') >= 1
             /\ \A w : Committed(w) => Committed(w)'
  <2>1. Len(log') = Len(log) + 1 /\ \A i \in 1..Len(log) : log'[i] = log[i]
    BY <1>1, <1>4
  <2>2. log' \in Seq(1..Len(versions'))
    BY <1>2, <1>4
  <2>. QED BY <1>1, <2>1, <2>2 DEF Committed
<1>. QED BY <1>3, <1>4

(* What every step leaves as it was: the versions there were, and what has *)
(* been /current.                                                          *)
Grows == /\ Len(versions') >= Len(versions)
         /\ \A v \in Minted : versions'[v] = versions[v]
         /\ Len(log') >= 1
         /\ \A v : Committed(v) => Committed(v)'

MirrorFiles == [pointer : 0..Len(versions), snapshots : SUBSET Minted,
                manifest : BOOLEAN, held : SUBSET Objects]

LEMMA SameVersions ==
  ASSUME TypeOK, Len(log) >= 1, UNCHANGED <<versions, log>>,
         s3' \in [Objects -> S3States], local' \subseteq Objects,
         mirror' \in MirrorFiles, run' \in Run, faults' \in 0..MaxFaults
  PROVE  TypeOK' /\ Grows
BY DEF TypeOK, Grows, Committed, MirrorFiles, Minted

LEMMA MoreVersions ==
  ASSUME TypeOK, Len(log) >= 1, NEW v \in Version, Mint(v),
         \/ log' = log
         \/ \E w \in 1..Len(versions') : log' = Append(log, w),
         s3' \in [Objects -> S3States], UNCHANGED <<local, mirror>>,
         run' \in Run, faults' \in 0..MaxFaults
  PROVE  TypeOK' /\ Grows
<1>1. /\ versions' \in Seq(Version)
      /\ Len(versions') = Len(versions) + 1 /\ Len(versions') \in 1..MaxVersions
      /\ \A w \in Minted : versions'[w] = versions[w]
      /\ Len(versions) \in Nat
  BY MintFacts, TypeFacts
<1>2. /\ log' \in Seq(1..Len(versions'))
      /\ Len(log') >= 1
      /\ \A w : Committed(w) => Committed(w)'
  BY <1>1, LogGrows
<1>. QED BY <1>1, <1>2 DEF TypeOK, Grows

(* The row catchup has looked at is off its list, and nothing else changed *)
(* but what it found out.                                                  *)
LEMMA AfterFacts ==
  ASSUME run \in Run
  PROVE  /\ After(run) => run' = [run EXCEPT !.lost = run.lost, !.waiting = run.waiting,
                                             !.todo = @ \ {NextObject}]
         /\ After([run EXCEPT !.lost = TRUE]) =>
              run' = [run EXCEPT !.lost = TRUE, !.waiting = run.waiting,
                                 !.todo = @ \ {NextObject}]
         /\ After([run EXCEPT !.waiting = @ \union {NextObject}]) =>
              run' = [run EXCEPT !.lost = run.lost, !.waiting = @ \union {NextObject},
                                 !.todo = @ \ {NextObject}]
         /\ run.lost \in BOOLEAN /\ run.waiting \subseteq Objects
BY DEF After, Run

LEMMA TypeStep ==
  ASSUME TypeOK, Inv, [Next]_vars
  PROVE  TypeOK' /\ Grows
<1>t. /\ Len(versions) \in 1..MaxVersions /\ Len(log) \in Nat /\ Len(log) >= 1
      /\ Current \in Minted /\ versions[Current] \in Version
      /\ \A v \in Minted : versions[v] \in Version
      /\ run \in Run
  BY TypeFacts DEF Inv
<1>m. /\ mirror \in MirrorFiles /\ s3 \in [Objects -> S3States] /\ local \subseteq Objects
      /\ faults \in 0..MaxFaults
  BY DEF TypeOK, MirrorFiles, Minted
<1>r. /\ run.todo \subseteq Objects /\ run.waiting \subseteq Objects
      /\ run.version \in 0..MaxVersions /\ run.base \in 0..MaxVersions
  BY <1>t DEF Run
<1>f. Fault => faults' \in 0..MaxFaults
  BY <1>m DEF Fault
<1>n. Ends => run' \in Run
  BY NoRunType DEF Ends
<1>w. ASSUME NEW v \in Minted,
             \/ mirror' = [mirror EXCEPT !.snapshots = @ \union {v}]
             \/ mirror' = [mirror EXCEPT !.manifest = TRUE, !.snapshots = @ \union {v}]
             \/ mirror' = [mirror EXCEPT !.pointer = v]
             \/ mirror' = [mirror EXCEPT !.manifest = TRUE, !.pointer = v]
      PROVE  mirror' \in MirrorFiles
  <2>1. v \in 0..Len(versions) /\ {v} \subseteq Minted
    BY <1>t DEF Minted
  <2>. QED BY <1>m, <1>w, <2>1 DEF MirrorFiles
<1>p. ASSUME NEW h \in Objects,
             Put(h) \/ mirror' = [mirror EXCEPT !.held = @ \ {h}]
      PROVE  mirror' \in MirrorFiles
  BY <1>m, <1>p DEF MirrorFiles, Put
<1>x. mirror' = [mirror EXCEPT !.manifest = TRUE] => mirror' \in MirrorFiles
  BY <1>m DEF MirrorFiles
<1>1. CASE SyncStart
  <2>1. PICK add \in SUBSET (Objects \ versions[Current].refs),
             drop \in SUBSET versions[Current].refs, sink \in {"fail", "ignore", "skip"} :
          /\ Mint([objects |-> versions[Current].objects \union add,
                   refs |-> (versions[Current].refs \ drop) \union add])
          /\ run' = [NoRun EXCEPT !.cmd = "sync", !.stage = "objects", !.sink = sink,
                       !.version = Len(versions) + 1, !.base = Current,
                       !.todo = {h \in add : \/ h \notin versions[Current].objects
                                             \/ sink # "skip" /\ ~Exists(h)}]
    BY <1>1 DEF SyncStart
  <2>2. [objects |-> versions[Current].objects \union add,
         refs |-> (versions[Current].refs \ drop) \union add] \in Version
    BY <1>t DEF Version
  <2>3. Len(versions) + 1 \in 0..MaxVersions
    BY <1>t, <2>1 DEF Mint
  <2>4. run' \in Run
    <3>1. run' = [cmd |-> "sync", stage |-> "objects", version |-> Len(versions) + 1,
                  base |-> Current, sink |-> sink,
                  todo |-> {h \in add : \/ h \notin versions[Current].objects
                                        \/ sink # "skip" /\ ~Exists(h)},
                  lost |-> FALSE, waiting |-> {}, download |-> FALSE, retrieve |-> FALSE]
      BY <2>1 DEF NoRun
    <3>2. Current \in 0..MaxVersions
      BY <1>t DEF Minted
    <3>. QED BY <2>3, <3>1, <3>2 DEF Run
  <2>. QED BY <1>1, <1>t, <1>m, <2>1, <2>2, <2>4, MoreVersions DEF SyncStart
<1>2. CASE SyncSnapshot
  <2>1. run' \in Run
    BY <1>2, <1>t DEF SyncSnapshot, Run
  <2>2. run.version \in Minted
    BY <1>2 DEF SyncSnapshot, Inv, RunOK
  <2>3. mirror' \in MirrorFiles
    BY <1>2, <1>m, <1>w, <2>2 DEF SyncSnapshot, WriteSnapshot
  <2>. QED BY <1>2, <1>t, <1>m, <1>f, <2>1, <2>3, SameVersions DEF SyncSnapshot, WriteSnapshot
<1>3. CASE SyncCommit
  <2>1. run' \in Run
    BY <1>3, <1>t, <1>n DEF SyncCommit, Run
  <2>2. run.version \in Minted
    BY <1>3 DEF SyncCommit, Inv, RunOK
  <2>3. UNCHANGED log \/ \E v \in 1..Len(versions') : log' = Append(log, v)
    BY <1>3, <2>2 DEF SyncCommit, Minted
  <2>4. /\ log' \in Seq(1..Len(versions'))
        /\ Len(log') >= 1
        /\ \A v : Committed(v) => Committed(v)'
    BY <1>3, <1>t, <2>3, LogGrows DEF SyncCommit
  <2>. QED BY <1>3, <1>t, <2>1, <2>4 DEF SyncCommit, TypeOK, Grows
<1>4. ASSUME NEW h \in Objects, SyncStore(h) PROVE TypeOK' /\ Grows
  <2>1. run' \in Run
    BY <1>4, <1>t, NoRunType DEF SyncStore, Run
  <2>2. s3' \in [Objects -> S3States]
    BY <1>4, <1>m DEF SyncStore, S3States
  <2>3. mirror' \in MirrorFiles
    BY <1>4, <1>m, <1>p DEF SyncStore
  <2>. QED BY <1>4, <1>t, <1>m, <1>f, <2>1, <2>2, <2>3, SameVersions DEF SyncStore
<1>5. CASE EditCommit
  <2>1. PICK gc \in BOOLEAN :
          Mint(IF gc THEN [versions[Current] EXCEPT !.objects = versions[Current].refs]
                     ELSE versions[Current])
    BY <1>5 DEF EditCommit
  <2>2. PICK v \in Version : Mint(v)
    BY <1>t, <2>1 DEF Version
  <2>3. Len(versions') \in 1..MaxVersions
    BY <1>t, <2>2, MintFacts
  <2>4. run' \in Run
    <3>1. run' = [cmd |-> "edit", stage |-> "snapshot", version |-> Len(versions'),
                  base |-> Current, sink |-> "fail", todo |-> {}, lost |-> FALSE,
                  waiting |-> {}, download |-> FALSE, retrieve |-> FALSE]
      BY <1>5 DEF EditCommit, NoRun
    <3>2. Current \in 0..MaxVersions /\ Len(versions') \in 0..MaxVersions
      BY <1>t, <2>3 DEF Minted
    <3>. QED BY <3>1, <3>2 DEF Run
  <2>5. \E w \in 1..Len(versions') : log' = Append(log, w)
    BY <1>5, <2>3 DEF EditCommit
  <2>. QED BY <1>5, <1>t, <1>m, <2>2, <2>4, <2>5, MoreVersions DEF EditCommit
<1>6. CASE EditSnapshot
  <2>1. run' \in Run
    BY <1>6, <1>t DEF EditSnapshot, Run
  <2>2. run.version \in Minted
    BY <1>6 DEF EditSnapshot, Inv, RunOK
  <2>3. mirror' \in MirrorFiles
    BY <1>6, <1>m, <1>w, <2>2 DEF EditSnapshot, WriteSnapshot
  <2>. QED BY <1>6, <1>t, <1>m, <1>f, <2>1, <2>3, SameVersions DEF EditSnapshot, WriteSnapshot
<1>7. CASE MovePointer
  <2>1. run.version \in Minted /\ run.base \in Minted
    BY <1>7 DEF MovePointer, Inv, RunOK
  <2>2. mirror' \in MirrorFiles
    BY <1>7, <1>m, <1>w, <1>x, <2>1 DEF MovePointer
  <2>3. faults' \in 0..MaxFaults
    BY <1>7, <1>m, <1>f DEF MovePointer
  <2>4. s3' \in [Objects -> S3States]
    BY <1>7, <1>m DEF MovePointer, S3States
  <2>5. local' \subseteq Objects
    BY <1>7, <1>t, <1>m, <2>1 DEF MovePointer, Version
  <2>. QED BY <1>7, <1>t, <1>n, <2>2, <2>3, <2>4, <2>5, SameVersions DEF MovePointer
<1>8. CASE CatchupStart
  <2>1. PICK download \in BOOLEAN, retrieve \in BOOLEAN :
          \/ /\ mirror' = [mirror EXCEPT !.manifest = TRUE, !.snapshots = @ \union {Current}]
             /\ run' = [NoRun EXCEPT !.cmd = "catchup", !.stage = "objects",
                          !.version = Current, !.todo = versions[Current].objects,
                          !.download = download, !.retrieve = retrieve]
             /\ UNCHANGED faults
          \/ /\ Fault /\ Ends
             /\ mirror' = [mirror EXCEPT !.manifest = TRUE]
    BY <1>8 DEF CatchupStart
  <2>2. run' \in Run
    <3>1. Current \in 0..MaxVersions /\ versions[Current].objects \subseteq Objects
      BY <1>t DEF Minted, Version
    <3>2. [NoRun EXCEPT !.cmd = "catchup", !.stage = "objects", !.version = Current,
                        !.todo = versions[Current].objects,
                        !.download = download, !.retrieve = retrieve] \in Run
      BY <3>1, NoRunType DEF Run
    <3>. QED BY <1>n, <2>1, <3>2
  <2>3. mirror' \in MirrorFiles
    BY <1>t, <1>w, <1>x, <2>1
  <2>. QED BY <1>8, <1>t, <1>m, <1>f, <2>1, <2>2, <2>3, SameVersions DEF CatchupStart
<1>9. CASE CatchupObject
  <2>1. NextObject \in run.todo /\ NextObject \in Objects
    BY <1>9, <1>r DEF CatchupObject, NextObject
  <2>2. run' \in Run
    <3>1. \/ After(run) \/ After([run EXCEPT !.lost = TRUE])
          \/ After([run EXCEPT !.waiting = @ \union {NextObject}])
      BY <1>9 DEF CatchupObject
    <3>2. \E lost \in BOOLEAN, waiting \in SUBSET Objects :
            run' = [run EXCEPT !.lost = lost, !.waiting = waiting, !.todo = @ \ {NextObject}]
      BY <1>t, <2>1, <3>1, AfterFacts
    <3>3. PICK lost \in BOOLEAN, waiting \in SUBSET Objects :
            run' = [run EXCEPT !.lost = lost, !.waiting = waiting, !.todo = @ \ {NextObject}]
      BY <3>2
    <3>. QED BY <1>t, <1>r, <3>3 DEF Run
  <2>3. mirror' \in MirrorFiles
    BY <1>9, <1>m, <1>p, <2>1 DEF CatchupObject, Recover
  <2>4. s3' \in [Objects -> S3States]
    BY <1>9, <1>m DEF CatchupObject, S3States
  <2>5. faults' \in 0..MaxFaults
    BY <1>9, <1>m, <1>f DEF CatchupObject
  <2>. QED BY <1>9, <1>t, <1>m, <2>2, <2>3, <2>4, <2>5, SameVersions DEF CatchupObject
<1>10. CASE CatchupEnds
  <2>1. run.version \in Minted
    BY <1>10 DEF CatchupEnds, Inv, RunOK
  <2>2. mirror' \in MirrorFiles
    BY <1>10, <1>m, <1>w, <2>1 DEF CatchupEnds
  <2>. QED BY <1>10, <1>t, <1>m, <1>n, <2>2, SameVersions DEF CatchupEnds
<1>11. CASE PruneStart
  <2>1. run' \in Run
    <3>1. run' = [cmd |-> "prune", stage |-> "objects", version |-> 0, base |-> 0,
                  sink |-> "fail", todo |-> Extra, lost |-> FALSE, waiting |-> {},
                  download |-> FALSE, retrieve |-> FALSE]
      BY <1>11 DEF PruneStart, NoRun
    <3>2. Extra \subseteq Objects
      BY <1>m DEF Extra, MirrorFiles
    <3>. QED BY <3>1, <3>2 DEF Run
  <2>. QED BY <1>11, <1>t, <1>m, <2>1, SameVersions DEF PruneStart
<1>12. CASE PruneObject
  <2>1. PICK h \in run.todo :
          /\ mirror' = [mirror EXCEPT !.held = @ \ {h}]
          /\ run' = IF run.todo = {h} THEN NoRun ELSE [run EXCEPT !.todo = @ \ {h}]
    BY <1>12 DEF PruneObject
  <2>2. run' \in Run
    BY <1>t, <2>1, NoRunType DEF Run
  <2>3. mirror' \in MirrorFiles
    BY <1>p, <1>r, <2>1
  <2>. QED BY <1>12, <1>t, <1>m, <2>2, <2>3, SameVersions DEF PruneObject
<1>13. CASE Killed
  BY <1>13, <1>t, <1>m, <1>f, <1>n, SameVersions DEF Killed
<1>14. CASE OtherCommits
  <2>1. PICK v \in Version : Mint(v)
    BY <1>14, <1>t DEF OtherCommits, Version
  <2>2. Len(versions') \in 1..MaxVersions
    BY <1>t, <2>1, MintFacts
  <2>3. s3' \in [Objects -> S3States]
    BY <1>14, <1>m DEF OtherCommits, S3States
  <2>4. \E w \in 1..Len(versions') : log' = Append(log, w)
    BY <1>14, <2>2 DEF OtherCommits
  <2>. QED BY <1>14, <1>t, <1>m, <2>1, <2>3, <2>4, MoreVersions DEF OtherCommits
<1>15. CASE LocalChanges
  <2>1. local' \subseteq Objects
    BY <1>15, <1>t, <1>m DEF LocalChanges, Version
  <2>. QED BY <1>15, <1>t, <1>m, <2>1, SameVersions DEF LocalChanges
<1>16. ASSUME NEW h \in Objects, Archive(h) \/ RestoreEnds(h) \/ RestoreExpires(h)
       PROVE  TypeOK' /\ Grows
  <2>1. s3' \in [Objects -> S3States]
    BY <1>16, <1>m DEF Archive, RestoreEnds, RestoreExpires, S3States
  <2>. QED BY <1>16, <1>t, <1>m, <1>f, <2>1, SameVersions DEF Archive, RestoreEnds, RestoreExpires
<1>17. ASSUME NEW h \in Objects, Rot(h) PROVE TypeOK' /\ Grows
  BY <1>17, <1>t, <1>m, <1>f, <1>p, SameVersions DEF Rot
<1>18. CASE UNCHANGED vars
  BY <1>18, <1>t, <1>m, SameVersions DEF vars
<1>. QED
  BY <1>1, <1>2, <1>3, <1>4, <1>5, <1>6, <1>7, <1>8, <1>9, <1>10, <1>11, <1>12, <1>13, <1>14,
     <1>15, <1>16, <1>17, <1>18 DEF Next, Commits, Catchup, Prune

(***************************************************************************)
(* The invariant, part by part.                                            *)
(***************************************************************************)

(* Steps that leave the command, its version and the mirror to themselves. *)
LEMMA Bystanders ==
  ASSUME TypeOK, Inv, Grows, TypeOK', UNCHANGED <<mirror, run>>
  PROVE  Inv'
<1>1. mirror.pointer # 0 => mirror.pointer \in Minted
  BY TypeFacts DEF TypeOK, Minted, Inv
<1>2. Minted \subseteq Minted'
  BY TypeFacts DEF Grows, Minted, Inv, TypeOK
<1>3. PointerIsCommitted'
  BY DEF Grows, Inv, PointerIsCommitted, Committed
<1>4. RunOK'
  BY <1>2 DEF Grows, Inv, RunOK
<1>5. SyncOK' /\ CatchupOK' /\ PruneOK'
  BY <1>1 DEF Grows, Inv, RunOK, SyncOK, CatchupOK, PruneOK
<1>. QED BY <1>3, <1>4, <1>5 DEF Inv, Grows

LEMMA InvStep ==
  ASSUME TypeOK, Inv, [Next]_vars, TypeOK', Grows
  PROVE  Inv'
<1>t. /\ Len(versions) \in 1..MaxVersions /\ Len(log) \in Nat /\ Len(log) >= 1
      /\ Current \in Minted /\ versions[Current] \in Version
      /\ \A v \in Minted : versions[v] \in Version
      /\ run \in Run
  BY TypeFacts DEF Inv
<1>m. Minted \subseteq Minted' /\ Len(log') >= 1 /\ \A v : Committed(v) => Committed(v)'
  BY <1>t DEF Grows, Minted, TypeOK
<1>p. PointerIsCommitted <=> (mirror.pointer # 0 => Committed(mirror.pointer))
  BY DEF PointerIsCommitted, Committed
<1>c. Committed(Current)
  BY <1>t DEF Committed, Current
<1>n. ASSUME Ends, mirror'.pointer = mirror.pointer \/ Committed(mirror'.pointer)
      PROVE  Inv'
  BY <1>m, <1>n, <1>p DEF Ends, Inv, NoRun, PointerIsCommitted, RunOK, SyncOK, CatchupOK, PruneOK, Committed
<1>q. UNCHANGED <<mirror, run>> => Inv'
  BY Bystanders
<1>1. CASE SyncStart
  <2>1. PICK add \in SUBSET (Objects \ versions[Current].refs),
             drop \in SUBSET versions[Current].refs, sink \in {"fail", "ignore", "skip"} :
          /\ Mint([objects |-> versions[Current].objects \union add,
                   refs |-> (versions[Current].refs \ drop) \union add])
          /\ run' = [NoRun EXCEPT !.cmd = "sync", !.stage = "objects", !.sink = sink,
                       !.version = Len(versions) + 1, !.base = Current,
                       !.todo = {h \in add : \/ h \notin versions[Current].objects
                                             \/ sink # "skip" /\ ~Exists(h)}]
    BY <1>1 DEF SyncStart
  <2>2. /\ run'.cmd = "sync" /\ run'.sink = sink /\ run'.stage = "objects"
        /\ run'.version = Len(versions) + 1 /\ run'.base = Current
        /\ run'.todo = {h \in add : \/ h \notin versions[Current].objects
                                    \/ sink # "skip" /\ ~Exists(h)}
    BY <2>1 DEF NoRun
  <2>3. versions' = Append(versions, [objects |-> versions[Current].objects \union add,
                                      refs |-> (versions[Current].refs \ drop) \union add])
    BY <2>1 DEF Mint
  <2>4. /\ Len(versions') = Len(versions) + 1
        /\ versions'[Len(versions) + 1].objects = versions[Current].objects \union add
        /\ versions'[Current].objects = versions[Current].objects
    BY <1>t, <2>3 DEF TypeOK, Minted
  <2>5. SyncOK'
    BY <2>2, <2>4 DEF SyncOK
  <2>6. RunOK'
    BY <1>t, <1>m, <2>2, <2>4 DEF RunOK, Minted
  <2>7. PointerIsCommitted'
    BY <1>1, <1>p DEF SyncStart, Inv, PointerIsCommitted
  <2>. QED BY <1>m, <2>2, <2>5, <2>6, <2>7 DEF Inv, CatchupOK, PruneOK
<1>2. CASE SyncSnapshot
  <2>1. /\ run.cmd = "sync" /\ run.todo = {} /\ run' = [run EXCEPT !.stage = "commit"]
        /\ mirror'.held = mirror.held /\ mirror'.pointer = mirror.pointer
        /\ UNCHANGED <<versions, log>>
    BY <1>2 DEF SyncSnapshot, WriteSnapshot, TypeOK
  <2>2. /\ run'.cmd = run.cmd /\ run'.sink = run.sink /\ run'.stage = "commit"
        /\ run'.version = run.version /\ run'.base = run.base /\ run'.todo = run.todo
    BY <1>t, <2>1 DEF Run
  <2>. QED BY <1>m, <2>1, <2>2 DEF Inv, PointerIsCommitted, RunOK, SyncOK, CatchupOK, PruneOK, Minted
<1>3. CASE SyncCommit
  <2>1. CASE run.base = Current
    <3>1. /\ run.cmd = "sync" /\ run.stage = "commit" /\ UNCHANGED <<versions, mirror>>
          /\ log' = Append(log, run.version) /\ run' = [run EXCEPT !.stage = "pointer"]
      BY <1>3, <2>1 DEF SyncCommit
    <3>2. /\ run'.cmd = run.cmd /\ run'.sink = run.sink /\ run'.stage = "pointer"
          /\ run'.version = run.version /\ run'.base = run.base /\ run'.todo = run.todo
      BY <1>t, <3>1 DEF Run
    <3>3. Committed(run.version)'
      <4>1. Len(log') = Len(log) + 1 /\ log'[Len(log) + 1] = run.version
        BY <1>t, <3>1 DEF TypeOK
      <4>2. run'.version = log'[Len(log')] /\ Len(log') \in 1..Len(log')
        BY <1>t, <3>2, <4>1
      <4>. QED BY <4>2 DEF Committed
    <3>4. RunOK'
      BY <1>m, <3>1, <3>2, <3>3 DEF Inv, RunOK
    <3>5. SyncOK'
      BY <3>1, <3>2 DEF Inv, SyncOK
    <3>6. PointerIsCommitted'
      BY <1>m, <1>p, <3>1 DEF Inv, PointerIsCommitted, Committed
    <3>. QED BY <1>m, <3>1, <3>2, <3>4, <3>5, <3>6 DEF Inv, CatchupOK, PruneOK
  <2>2. CASE run.base # Current
    BY <1>3, <1>n, <2>2 DEF SyncCommit
  <2>. QED BY <2>1, <2>2
<1>4. ASSUME NEW h \in Objects, SyncStore(h) PROVE Inv'
  <2>1. CASE Ends
    <3>1. mirror' = mirror
      BY <1>4, <1>t, <2>1 DEF SyncStore, Ends, NoRun, Run
    <3>. QED BY <1>n, <2>1, <3>1
  <2>2. CASE run' = [run EXCEPT !.todo = @ \ {h}]
    <3>1. /\ run.cmd = "sync" /\ run.stage = "objects" /\ h \in run.todo
          /\ UNCHANGED <<versions, log>>
      BY <1>4 DEF SyncStore
    <3>2. /\ run'.cmd = run.cmd /\ run'.sink = run.sink /\ run'.stage = run.stage
          /\ run'.version = run.version /\ run'.base = run.base /\ run'.todo = run.todo \ {h}
      BY <1>t, <2>2 DEF Run
    <3>3. mirror'.pointer = mirror.pointer /\ mirror.held \subseteq mirror'.held
      BY <1>4 DEF SyncStore, Put, TypeOK
    <3>4. run.sink = "fail" => h \in mirror'.held
      BY <1>4, <1>t, <2>2, <3>1, <3>2 DEF SyncStore, Put, TypeOK, Exists, NoRun
    <3>5. SyncOK'
      BY <3>1, <3>2, <3>3, <3>4 DEF Inv, SyncOK
    <3>6. RunOK'
      BY <1>m, <3>1, <3>2 DEF Inv, RunOK
    <3>7. PointerIsCommitted'
      BY <1>m, <1>p, <3>1, <3>3 DEF Inv, PointerIsCommitted, Committed
    <3>. QED BY <1>m, <3>1, <3>2, <3>5, <3>6, <3>7 DEF Inv, CatchupOK, PruneOK
  <2>. QED BY <1>4, <2>1, <2>2 DEF SyncStore, Ends
<1>5. CASE EditCommit
  <2>1. Len(versions') = Len(versions) + 1
    BY <1>5, <1>t DEF EditCommit, Mint, TypeOK
  <2>2. /\ run'.cmd = "edit" /\ run'.stage = "snapshot" /\ run'.base = Current
        /\ run'.version = Len(versions')
    BY <1>5 DEF EditCommit, NoRun
  <2>3. Committed(run.version)'
    <3>1. Len(log') = Len(log) + 1 /\ log'[Len(log) + 1] = Len(versions')
      BY <1>5, <1>t DEF EditCommit, TypeOK
    <3>2. run'.version = log'[Len(log')] /\ Len(log') \in 1..Len(log')
      BY <1>t, <2>2, <3>1
    <3>. QED BY <3>2 DEF Committed
  <2>4. RunOK'
    BY <1>t, <1>m, <2>1, <2>2, <2>3 DEF RunOK, Minted
  <2>5. PointerIsCommitted'
    BY <1>5, <1>m, <1>p DEF EditCommit, Inv, PointerIsCommitted, Committed
  <2>. QED BY <1>m, <2>2, <2>4, <2>5 DEF Inv, SyncOK, CatchupOK, PruneOK
<1>6. CASE EditSnapshot
  <2>1. /\ run.cmd = "edit" /\ run' = [run EXCEPT !.stage = "pointer"]
        /\ mirror'.pointer = mirror.pointer /\ UNCHANGED <<versions, log>>
    BY <1>6 DEF EditSnapshot, WriteSnapshot, TypeOK
  <2>2. /\ run'.cmd = "edit" /\ run'.version = run.version /\ run'.base = run.base
    BY <1>t, <2>1 DEF Run
  <2>3. PointerIsCommitted'
    BY <1>m, <1>p, <2>1 DEF Inv, PointerIsCommitted, Committed
  <2>4. RunOK'
    BY <1>m, <2>1, <2>2 DEF Inv, RunOK
  <2>. QED BY <1>m, <2>2, <2>3, <2>4 DEF Inv, SyncOK, CatchupOK, PruneOK
<1>7. CASE MovePointer
  <2>1. Committed(run.version) /\ Ends
    BY <1>7 DEF MovePointer, Inv, RunOK
  <2>2. mirror'.pointer = mirror.pointer \/ mirror'.pointer = run.version
    BY <1>7 DEF MovePointer, TypeOK
  <2>. QED BY <1>n, <2>1, <2>2
<1>8. CASE CatchupStart
  <2>1. CASE Ends
    <3>1. mirror'.pointer = mirror.pointer
      BY <1>8 DEF CatchupStart, TypeOK
    <3>. QED BY <1>n, <2>1, <3>1
  <2>2. CASE ~Ends
    <3>1. PICK download \in BOOLEAN, retrieve \in BOOLEAN :
            /\ mirror' = [mirror EXCEPT !.manifest = TRUE, !.snapshots = @ \union {Current}]
            /\ run' = [NoRun EXCEPT !.cmd = "catchup", !.stage = "objects",
                         !.version = Current, !.todo = versions[Current].objects,
                         !.download = download, !.retrieve = retrieve]
      BY <1>8, <2>2 DEF CatchupStart
    <3>2. run'.cmd = "catchup" /\ run'.version = Current /\ run'.todo = versions[Current].objects
      BY <3>1 DEF NoRun
    <3>3. /\ mirror'.manifest /\ Current \in mirror'.snapshots
          /\ mirror'.pointer = mirror.pointer
      BY <3>1 DEF TypeOK
    <3>4. UNCHANGED <<versions, log>>
      BY <1>8 DEF CatchupStart
    <3>5. CatchupOK'
      BY <3>2, <3>3, <3>4 DEF CatchupOK
    <3>6. RunOK'
      BY <1>t, <1>m, <1>c, <3>2, <3>4 DEF RunOK, Minted, Committed
    <3>7. PointerIsCommitted'
      BY <1>m, <1>p, <3>3, <3>4 DEF Inv, PointerIsCommitted, Committed
    <3>. QED BY <1>m, <3>2, <3>5, <3>6, <3>7 DEF Inv, SyncOK, PruneOK
  <2>. QED BY <2>1, <2>2
<1>9. CASE CatchupObject
  <2>. DEFINE h == NextObject
  <2>1. run.cmd = "catchup" /\ run.stage = "objects" /\ UNCHANGED <<versions, log>>
    BY <1>9 DEF CatchupObject
  <2>2. /\ mirror'.pointer = mirror.pointer /\ mirror'.manifest = mirror.manifest
        /\ mirror'.snapshots = mirror.snapshots /\ mirror.held \subseteq mirror'.held
    BY <1>9 DEF CatchupObject, Recover, Put, TypeOK
  <2>3. /\ run'.cmd = "catchup" /\ run'.version = run.version /\ run'.todo = run.todo \ {h}
        /\ run.lost => run'.lost
        /\ run.waiting \subseteq run'.waiting
        /\ run'.lost \/ h \in run'.waiting \/ h \in mirror'.held
    <3>1. CASE After(run) /\ h \in mirror'.held
      BY <1>t, <2>1, <3>1, AfterFacts DEF Run
    <3>2. CASE After([run EXCEPT !.lost = TRUE])
      BY <1>t, <2>1, <3>2, AfterFacts DEF Run
    <3>3. CASE After([run EXCEPT !.waiting = @ \union {h}])
      <4>1. run' = [run EXCEPT !.waiting = @ \union {h}, !.todo = @ \ {h}]
        BY <1>t, <3>3 DEF After, Run
      <4>. HIDE DEF h
      <4>. QED BY <1>t, <2>1, <4>1 DEF Run
    <3>4. Put(h) => h \in mirror'.held
      BY DEF Put, TypeOK
    <3>. QED BY <1>9, <3>1, <3>2, <3>3, <3>4 DEF CatchupObject, Exists, Recover
  <2>. HIDE DEF h
  <2>4. CatchupOK'
    BY <2>1, <2>2, <2>3 DEF Inv, CatchupOK
  <2>5. RunOK'
    BY <1>m, <2>1, <2>3 DEF Inv, RunOK
  <2>6. PointerIsCommitted'
    BY <1>m, <1>p, <2>1, <2>2 DEF Inv, PointerIsCommitted, Committed
  <2>. QED BY <1>m, <2>3, <2>4, <2>5, <2>6 DEF Inv, SyncOK, PruneOK
<1>10. CASE CatchupEnds
  <2>1. Committed(run.version) /\ Ends
    BY <1>10 DEF CatchupEnds, Inv, RunOK
  <2>2. mirror'.pointer = mirror.pointer \/ mirror'.pointer = run.version
    BY <1>10 DEF CatchupEnds, TypeOK
  <2>. QED BY <1>n, <2>1, <2>2
<1>11. CASE PruneStart
  <2>1. /\ run'.cmd = "prune" /\ run'.todo = Extra /\ mirror.pointer # 0
        /\ UNCHANGED <<versions, log, mirror>>
    BY <1>11 DEF PruneStart, HasVersion, NoRun
  <2>2. PruneOK'
    BY <2>1 DEF PruneOK, Extra
  <2>. QED BY <1>m, <2>1, <2>2 DEF Inv, PointerIsCommitted, RunOK, SyncOK, CatchupOK
<1>12. CASE PruneObject
  <2>1. PICK h \in run.todo :
          /\ mirror' = [mirror EXCEPT !.held = @ \ {h}]
          /\ run' = IF run.todo = {h} THEN NoRun ELSE [run EXCEPT !.todo = @ \ {h}]
    BY <1>12 DEF PruneObject
  <2>2. mirror'.pointer = mirror.pointer /\ UNCHANGED <<versions, log>> /\ run.cmd = "prune"
    BY <1>12, <2>1 DEF PruneObject, TypeOK
  <2>3. CASE run' = NoRun
    BY <1>n, <2>2, <2>3 DEF Ends
  <2>4. CASE run' = [run EXCEPT !.todo = @ \ {h}]
    <3>1. run'.cmd = "prune" /\ run'.todo = run.todo \ {h}
      BY <1>t, <2>2, <2>4 DEF Run
    <3>2. PointerIsCommitted'
      BY <1>m, <1>p, <2>2 DEF Inv, PointerIsCommitted, Committed
    <3>. QED BY <1>m, <2>2, <3>1, <3>2 DEF Inv, RunOK, SyncOK, CatchupOK, PruneOK
  <2>. QED BY <2>1, <2>3, <2>4
<1>13. CASE Killed
  BY <1>13, <1>n DEF Killed
<1>14. CASE OtherCommits \/ LocalChanges
  BY <1>14, <1>q DEF OtherCommits, LocalChanges
<1>15. ASSUME NEW h \in Objects, Archive(h) \/ RestoreEnds(h) \/ RestoreExpires(h)
       PROVE  Inv'
  BY <1>15, <1>q DEF Archive, RestoreEnds, RestoreExpires
<1>16. ASSUME NEW h \in Objects, Rot(h) PROVE Inv'
  <2>1. Ends /\ mirror'.pointer = mirror.pointer
    BY <1>16 DEF Rot, Idling, Ends, TypeOK
  <2>. QED BY <1>n, <2>1
<1>17. CASE UNCHANGED vars
  BY <1>17, <1>q DEF vars
<1>. QED
  BY <1>1, <1>2, <1>3, <1>4, <1>5, <1>6, <1>7, <1>8, <1>9, <1>10, <1>11, <1>12, <1>13, <1>14,
     <1>15, <1>16, <1>17 DEF Next, Commits, Catchup, Prune

LEMMA InvInit == Init => TypeOK /\ Inv
<1>. SUFFICES ASSUME Init PROVE TypeOK /\ Inv
  OBVIOUS
<1>1. [objects |-> Initial, refs |-> Initial] \in Version
  BY DEF Version
<1>2. versions \in Seq(Version) /\ Len(versions) = 1
  BY <1>1 DEF Init
<1>3. log \in Seq(1..1) /\ Len(log) = 1
  BY DEF Init
<1>4. mirror \in [pointer : 0..1, snapshots : SUBSET (1..1), manifest : BOOLEAN,
                  held : SUBSET Objects]
  BY DEF Init
<1>5. TypeOK
  BY <1>2, <1>3, <1>4, NoRunType DEF Init, TypeOK, S3States
<1>6. Inv
  BY <1>3 DEF Init, Inv, PointerIsCommitted, RunOK, SyncOK, CatchupOK, PruneOK, NoRun
<1>. QED BY <1>5, <1>6

LEMMA Invariant == Spec => [](TypeOK /\ Inv)
<1>1. TypeOK /\ Inv /\ [Next]_vars => (TypeOK /\ Inv)'
  BY TypeStep, InvStep
<1>. QED BY InvInit, <1>1, PTL DEF Spec

(***************************************************************************)
(* The theorems.                                                           *)
(***************************************************************************)

(* Every variable keeps the shape the rest of the argument relies on, and  *)
(* the stamps of the log and of the mirror are stamps that were minted.    *)
THEOREM TypeCorrect == Spec => []TypeOK
BY Invariant, PTL

(* The mirror's pointer never names a version that has not been S3's       *)
(* /current, though a sync mirrors its snapshot before its own             *)
(* compare-and-swap and may lose that (mutateStateDb, mirrorCurrentPointer).*)
THEOREM PointerIsCommittedHolds == Spec => []PointerIsCommitted
<1>1. Inv => PointerIsCommitted
  BY DEF Inv
<1>. QED BY Invariant, <1>1, PTL

(* The run ends or goes on as the command it was, but for an idle machine. *)
LEMMA WhoMovesPointer ==
  ASSUME TypeOK, Inv, [Next]_vars, mirror'.pointer # mirror.pointer
  PROVE  \/ MovePointer /\ UNCHANGED versions
            /\ mirror'.held = mirror.held
         \/ /\ CatchupEnds /\ ~run.lost /\ UNCHANGED versions
            /\ mirror' = [mirror EXCEPT !.pointer = run.version]
<1>1. mirror \in MirrorFiles
  BY DEF TypeOK, MirrorFiles, Minted
<1>2. mirror' # mirror
  OBVIOUS
<1>3. ~(SyncStart \/ SyncCommit \/ EditCommit \/ PruneStart \/ Killed \/ OtherCommits
        \/ LocalChanges \/ UNCHANGED vars)
  BY <1>2 DEF SyncStart, SyncCommit, EditCommit, PruneStart, Killed, OtherCommits, LocalChanges, vars
<1>4. ~(SyncSnapshot \/ EditSnapshot \/ CatchupStart \/ PruneObject)
  BY <1>1 DEF SyncSnapshot, EditSnapshot, WriteSnapshot, CatchupStart, PruneObject, MirrorFiles
<1>5. ~CatchupObject
  BY <1>1 DEF CatchupObject, Recover, Put, MirrorFiles
<1>6. ~\E h \in Objects : SyncStore(h) \/ Archive(h) \/ RestoreEnds(h) \/ RestoreExpires(h) \/ Rot(h)
  BY <1>1 DEF SyncStore, Put, Archive, RestoreEnds, RestoreExpires, Rot, MirrorFiles
<1>7. MovePointer \/ CatchupEnds
  BY <1>3, <1>4, <1>5, <1>6 DEF Next, Commits, Catchup, Prune
<1>8. MovePointer => UNCHANGED versions /\ mirror'.held = mirror.held
  BY <1>1 DEF MovePointer, MirrorFiles
<1>. QED BY <1>7, <1>8 DEF CatchupEnds

(* In fail mode the mirror that held what a sync built on holds all that   *)
(* its version lists by the time mirrorCurrentPointer names it, whichever  *)
(* of the objects the upload found there and whatever others committed.    *)
THEOREM SyncKeepsCompleteHolds == Spec => SyncKeepsComplete
<1>1. ASSUME TypeOK, Inv, [Next]_vars,
             run.cmd = "sync", run.sink = "fail", mirror'.pointer # mirror.pointer,
             \A h \in versions[run.base].objects : Exists(h)
      PROVE  \A h \in versions[run.version].objects : Exists(h)'
  <2>1. MovePointer /\ mirror'.held = mirror.held
    BY <1>1, WhoMovesPointer DEF CatchupEnds
  <2>2. run.todo = {} /\ versions[run.version].objects \subseteq versions[run.base].objects \union mirror.held
    BY <1>1, <2>1 DEF MovePointer, Inv, SyncOK
  <2>. QED BY <1>1, <2>1, <2>2 DEF Exists
<1>2. TypeOK /\ Inv /\ [Next]_vars =>
        [run.cmd = "sync" /\ run.sink = "fail" /\ mirror'.pointer # mirror.pointer
           /\ (\A h \in versions[run.base].objects : Exists(h))
         => \A h \in versions[run.version].objects : Exists(h)']_vars
  BY <1>1
<1>. QED BY Invariant, <1>2, PTL DEF Spec, SyncKeepsComplete

(* catchup moves the pointer once every object of the version is in the    *)
(* mirror or waits for its archive, with the manifest and the snapshot     *)
(* already there (mirrorCatchup).                                          *)
THEOREM CatchupIsHonestHolds == Spec => CatchupIsHonest
<1>1. ASSUME TypeOK, Inv, [Next]_vars, run.cmd = "catchup", mirror'.pointer # mirror.pointer
      PROVE  /\ mirror'.manifest /\ mirror'.pointer \in mirror'.snapshots
             /\ versions[mirror'.pointer].objects \ run.waiting \subseteq mirror'.held
  <2>1. CatchupEnds /\ ~run.lost /\ mirror' = [mirror EXCEPT !.pointer = run.version]
    BY <1>1, WhoMovesPointer DEF MovePointer
  <2>2. /\ mirror'.pointer = run.version /\ mirror'.manifest = mirror.manifest
        /\ mirror'.snapshots = mirror.snapshots /\ mirror'.held = mirror.held
    BY <2>1 DEF TypeOK
  <2>. QED BY <1>1, <2>1, <2>2 DEF CatchupEnds, Inv, CatchupOK
<1>2. TypeOK /\ Inv /\ [Next]_vars =>
        [run.cmd = "catchup" /\ mirror'.pointer # mirror.pointer =>
           /\ mirror'.manifest /\ mirror'.pointer \in mirror'.snapshots
           /\ versions[mirror'.pointer].objects \ run.waiting \subseteq mirror'.held]_vars
  BY <1>1
<1>. QED BY Invariant, <1>2, PTL DEF Spec, CatchupIsHonest

(* What a step may do to a mirror but for moving its pointer: only a prune *)
(* or the drive takes an object away.                                      *)
LEMMA OnlyAdds ==
  ASSUME TypeOK, Inv, [Next]_vars
  PROVE  /\ mirror.manifest => mirror'.manifest
         /\ mirror.snapshots \subseteq mirror'.snapshots
         /\ \/ mirror.held \subseteq mirror'.held
            \/ PruneObject
            \/ \E h \in Objects : Rot(h)
<1>1. mirror \in MirrorFiles
  BY DEF TypeOK, MirrorFiles, Minted
<1>2. CASE SyncStart \/ SyncCommit \/ EditCommit \/ PruneStart \/ Killed \/ OtherCommits
           \/ LocalChanges \/ UNCHANGED vars
  BY <1>2 DEF SyncStart, SyncCommit, EditCommit, PruneStart, Killed, OtherCommits, LocalChanges, vars
<1>3. CASE SyncSnapshot \/ EditSnapshot \/ CatchupStart
  BY <1>1, <1>3 DEF SyncSnapshot, EditSnapshot, WriteSnapshot, CatchupStart, MirrorFiles
<1>4. CASE CatchupObject
  BY <1>1, <1>4 DEF CatchupObject, Recover, Put, MirrorFiles
<1>5. ASSUME NEW h \in Objects, SyncStore(h) \/ Archive(h) \/ RestoreEnds(h) \/ RestoreExpires(h)
      PROVE  /\ mirror.manifest => mirror'.manifest
             /\ mirror.snapshots \subseteq mirror'.snapshots
             /\ mirror.held \subseteq mirror'.held
  BY <1>1, <1>5 DEF SyncStore, Put, Archive, RestoreEnds, RestoreExpires, MirrorFiles
<1>6. CASE MovePointer
  <2>1. \/ mirror' = mirror
        \/ mirror' = [mirror EXCEPT !.manifest = TRUE, !.pointer = run.version]
        \/ mirror' = [mirror EXCEPT !.manifest = TRUE]
        \/ mirror' = [mirror EXCEPT !.pointer = run.version]
    BY <1>6 DEF MovePointer
  <2>. QED BY <1>1, <2>1 DEF MirrorFiles
<1>7. CASE CatchupEnds
  BY <1>1, <1>7 DEF CatchupEnds, MirrorFiles
<1>8. CASE PruneObject
  BY <1>1, <1>8 DEF PruneObject, MirrorFiles
<1>9. CASE \E h \in Objects : Rot(h)
  BY <1>1, <1>9 DEF Rot, MirrorFiles
<1>. QED BY <1>2, <1>3, <1>4, <1>5, <1>6, <1>7, <1>8, <1>9 DEF Next, Commits, Catchup, Prune

(* A mirror that verify accepts at its presence depth is restorable, and   *)
(* nothing but the drive makes it less while its pointer stays: no aborted *)
(* sync, interrupted catchup, gc or prune.                                 *)
THEOREM RestorableStaysHolds == Spec => RestorableStays
<1>1. ASSUME TypeOK, Inv, [Next]_vars, VerifyPasses("presence"),
             mirror'.pointer = mirror.pointer, ~\E h \in Objects : Rot(h)
      PROVE  VerifyPasses("presence")'
  <2>1. /\ mirror.manifest /\ mirror.pointer # 0 /\ mirror.pointer \in mirror.snapshots
        /\ versions[mirror.pointer].objects \subseteq mirror.held
    BY <1>1 DEF VerifyPasses, HasVersion, Exists
  <2>2. mirror.pointer \in Minted
    BY <1>1, <2>1 DEF TypeOK, Minted
  <2>3. versions'[mirror.pointer] = versions[mirror.pointer]
    BY <1>1, <2>2, TypeStep DEF Grows
  <2>4. mirror'.manifest /\ mirror.pointer \in mirror'.snapshots
    BY <1>1, <2>1, OnlyAdds
  <2>5. versions[mirror.pointer].objects \subseteq mirror'.held
    <3>1. CASE mirror.held \subseteq mirror'.held
      BY <2>1, <3>1
    <3>2. CASE PruneObject
      <4>1. PICK h \in run.todo : mirror' = [mirror EXCEPT !.held = @ \ {h}]
        BY <3>2 DEF PruneObject
      <4>2. mirror'.held = mirror.held \ {h}
        BY <1>1, <4>1 DEF TypeOK
      <4>3. h \notin versions[mirror.pointer].objects
        BY <1>1, <3>2 DEF PruneObject, Inv, PruneOK
      <4>. QED BY <2>1, <4>2, <4>3
    <3>. QED BY <1>1, <3>1, <3>2, OnlyAdds
  <2>. QED BY <1>1, <2>1, <2>3, <2>4, <2>5 DEF VerifyPasses, HasVersion, Exists
<1>2. TypeOK /\ Inv /\ [Next]_vars =>
        [VerifyPasses("presence") /\ mirror'.pointer = mirror.pointer
           => VerifyPasses("presence")' \/ \E h \in Objects : Rot(h)]_vars
  BY <1>1
<1>. QED BY Invariant, <1>2, PTL DEF Spec, RestorableStays
=============================================================================
