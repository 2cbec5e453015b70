---------------------------- MODULE Vault_proofs ----------------------------
(***************************************************************************)
(* Proofs of what Vault promises, for any number of machines, any content, *)
(* any bounds and any mix of sync, gc, policy edits and fetch_remote,      *)
(* through lost answers, resends and crashes.                              *)
(*                                                                         *)
(* First types.  Then the trunk by itself: lemmas about any snapshots s    *)
(* and pointer c; one lemma per step of a command; and the invariant.      *)
(* Then what follows from it, and last what holds as long as nobody        *)
(* collects garbage.                                                       *)
(***************************************************************************)
EXTENDS VaultInv, TLAPS

(***************************************************************************)
(* Type correctness.                                                       *)
(***************************************************************************)

LEMMA BoundsNat ==
  /\ MaxStamps \in Nat /\ MaxStamps >= 1
  /\ MaxAttempts \in Nat /\ MaxAttempts >= 1
  /\ MaxFaults \in Nat
  /\ InitStamp \in Stamps
BY BoundsAssumption DEF Stamps, InitStamp

LEMMA SnapshotTypes ==
  /\ NoSnapshot \in Snapshot
  /\ \A refs, objs \in SUBSET Hashes : FirstSnapshot(refs, objs) \in Snapshot
BY BoundsNat DEF NoSnapshot, FirstSnapshot, Snapshot

LEMMA IdleType == Idle \in Run
BY BoundsNat, SnapshotTypes DEF Idle, Run, Ops, Pcs

LEMMA OpenedType ==
  ASSUME TypeOK, NEW m \in Machines, NEW op \in Ops,
         NEW verify \in BOOLEAN, NEW n \in 0..(MaxAttempts-1)
  PROVE  Opened(m, op, verify, n) \in Run
<1>1. stateDb[m] \in Snapshot /\ states[current] \in Snapshot /\ current \in Stamps
  BY DEF TypeOK
<1>. QED BY <1>1, IdleType, BoundsNat DEF Opened, Run, Ops, Pcs, Idle

(* A machine's command record may be replaced by any record of its type.   *)
LEMMA RunStep ==
  ASSUME run \in [Machines -> Run], NEW m \in Machines, NEW r \in Run,
         run' = [run EXCEPT ![m] = r]
  PROVE  run' \in [Machines -> Run]
OBVIOUS

LEMMA GotoType ==
  ASSUME run \in [Machines -> Run], NEW m \in Machines, NEW pc \in Pcs, Goto(m, pc)
  PROVE  run' \in [Machines -> Run]
<1>1. [run[m] EXCEPT !.pc = pc] \in Run
  BY DEF Run
<1>. QED BY <1>1 DEF Goto

LEMMA EndType ==
  ASSUME run \in [Machines -> Run], NEW m \in Machines, End(m)
  PROVE  run' \in [Machines -> Run]
BY IdleType DEF End

LEMMA AppliedType ==
  ASSUME NEW r \in Run, NEW h \in Hashes
  PROVE  [r EXCEPT !.todo = @ \ {h}, !.cand.refs = @ \cup {h},
                   !.cand.objs = @ \cup {h}, !.applied = TRUE] \in Run
BY DEF Run, Snapshot

LEMMA ApplyRowType ==
  ASSUME run \in [Machines -> Run], NEW m \in Machines, NEW h \in Hashes, ApplyRow(m, h)
  PROVE  run' \in [Machines -> Run]
<1>. DEFINE r == [run[m] EXCEPT !.todo = @ \ {h}, !.cand.refs = @ \cup {h},
                               !.cand.objs = @ \cup {h}, !.applied = TRUE]
<1>1. r \in Run
  BY AppliedType
<1>2. run' = [run EXCEPT ![m] = r]
  BY DEF ApplyRow
<1>. HIDE DEF r
<1>. QED BY <1>1, <1>2, RunStep

LEMMA RetryType ==
  ASSUME run \in [Machines -> Run], NEW m \in Machines, Retry(m)
  PROVE  run' \in [Machines -> Run]
<1>. DEFINE r == [Idle EXCEPT !.op = run[m].op, !.pc = "fetch",
                              !.attempt = run[m].attempt + 1]
<1>1. CASE run[m].attempt + 1 < MaxAttempts
  <2>1. run[m].op \in Ops /\ run[m].attempt \in 0..(MaxAttempts-1)
    BY DEF Run
  <2>2. run[m].attempt + 1 \in 0..(MaxAttempts-1)
    BY <1>1, <2>1, BoundsNat
  <2>3. r \in Run
    BY <2>1, <2>2, IdleType DEF Run, Pcs
  <2>4. run' = [run EXCEPT ![m] = r]
    BY <1>1 DEF Retry
  <2>. HIDE DEF r
  <2>. QED BY <2>3, <2>4, RunStep
<1>2. CASE ~(run[m].attempt + 1 < MaxAttempts)
  BY <1>2, EndType DEF Retry
<1>. QED BY <1>1, <1>2

LEMMA PcsNames ==
  /\ \A pc \in {"idle", "fetch", "plan", "upload", "stage", "put", "cas", "readback"} :
       pc \in Pcs
  /\ \A pc \in {"sweep", "promote", "stamp", "clear", "adopt", "adoptDb", "adoptStamp",
                "save", "diverged"} : pc \in Pcs
BY DEF Pcs

(* Every reachable state of the protocol is well typed.                    *)
THEOREM TypeCorrect == Spec => []TypeOK
<1>1. Init => TypeOK
  <2>. SUFFICES ASSUME Init PROVE TypeOK
    OBVIOUS
  <2>1. PICK objs \in SUBSET Hashes : \E refs \in SUBSET objs :
          LET first == FirstSnapshot(refs, objs)
          IN /\ states = [v \in Stamps |-> IF v = InitStamp THEN first ELSE NoSnapshot]
             /\ stateDb = [m \in Machines |-> first]
             /\ stored = objs
    BY DEF Init
  <2>2. PICK refs \in SUBSET objs :
          /\ states = [v \in Stamps |-> IF v = InitStamp THEN FirstSnapshot(refs, objs)
                                        ELSE NoSnapshot]
          /\ stateDb = [m \in Machines |-> FirstSnapshot(refs, objs)]
          /\ stored = objs
    BY <2>1
  <2>3. FirstSnapshot(refs, objs) \in Snapshot /\ NoSnapshot \in Snapshot
    BY SnapshotTypes
  <2>. QED BY <2>2, <2>3, BoundsNat, IdleType DEF Init, TypeOK
<1>2. TypeOK /\ [Next]_vars => TypeOK'
  <2>. SUFFICES ASSUME TypeOK, [Next]_vars PROVE TypeOK'
    OBVIOUS
  <2>r. run \in [Machines -> Run]
    BY DEF TypeOK
  <2>1. CASE WireLands
    BY <2>1 DEF WireLands, Request, TypeOK, diskVars, ghostVars
  <2>2. CASE UNCHANGED vars
    BY <2>2 DEF vars, TypeOK
  <2>3. ASSUME NEW m \in Machines, Start(m) PROVE TypeOK'
    <3>1. PICK op \in Commands[m], flag \in BOOLEAN :
            run' = [run EXCEPT ![m] = Opened(m, op, op = "sync" /\ (flag \/ marker[m]), 0)]
      BY <2>3 DEF Start
    <3>2. op \in Ops /\ 0 \in 0..(MaxAttempts-1) /\ marker[m] \in BOOLEAN
      BY CommandsAssumption, BoundsNat DEF Ops, TypeOK
    <3>3. Opened(m, op, op = "sync" /\ (flag \/ marker[m]), 0) \in Run
      BY <3>2, OpenedType
    <3>. QED BY <2>3, <2>r, <3>1, <3>3 DEF Start, TypeOK, s3Vars, diskVars, ghostVars
  <2>4. ASSUME NEW m \in Machines, Step(m) PROVE TypeOK'
    <3>r. run[m] \in Run
      BY <2>r
    <3>1. CASE Refetch(m)
      <4>1. run[m].op \in Ops /\ run[m].attempt \in 0..(MaxAttempts-1)
        BY <3>r DEF Run
      <4>2. Opened(m, run[m].op, FALSE, run[m].attempt) \in Run
        BY <4>1, OpenedType
      <4>. QED BY <3>1, <2>r, <4>2 DEF Refetch, TypeOK, s3Vars, diskVars, ghostVars
    <3>2. CASE SaveFetched(m)
      <4>1. run[m].cand \in Snapshot
        BY <3>r DEF Run
      <4>. QED BY <3>2, <2>r, <4>1, EndType DEF SaveFetched, TypeOK, s3Vars
    <3>3. CASE Plan(m)
      <4>1. PICK del \in SUBSET run[m].cand.refs, add \in SUBSET Hashes, other \in BOOLEAN :
              run' = [run EXCEPT ![m].cand.refs = @ \ del,
                                 ![m].applied = other \/ del # {},
                                 ![m].todo = add,
                                 ![m].pc = "upload"]
        BY <3>3 DEF Plan
      <4>. DEFINE r == [run[m] EXCEPT !.cand.refs = @ \ del,
                                      !.applied = other \/ del # {},
                                      !.todo = add,
                                      !.pc = "upload"]
      <4>2. r \in Run
        BY <3>r DEF Run, Pcs, Snapshot
      <4>3. run' = [run EXCEPT ![m] = r]
        BY <4>1
      <4>. HIDE DEF r
      <4>. QED BY <3>3, <2>r, <4>2, <4>3, RunStep DEF Plan, TypeOK, s3Vars, ghostVars
    <3>4. ASSUME NEW h \in Hashes, Dedup(m, h) \/ Adopt(m, h) PROVE TypeOK'
      BY <3>4, <2>r, ApplyRowType DEF Dedup, Adopt, TypeOK, s3Vars, diskVars, ghostVars
    <3>5. ASSUME NEW h \in Hashes, Upload(m, h) PROVE TypeOK'
      BY <3>5, <2>r, ApplyRowType DEF Upload, TypeOK, diskVars, ghostVars
    <3>6. CASE Pull(m)
      <4>. DEFINE r == [run[m] EXCEPT !.pc = IF run[m].applied THEN "put" ELSE "adopt",
                                      !.verify = FALSE]
      <4>1. r \in Run
        BY <3>r DEF Run, Pcs
      <4>2. run' = [run EXCEPT ![m] = r]
        BY <3>6 DEF Pull
      <4>. HIDE DEF r
      <4>. QED BY <3>6, <2>r, <4>1, <4>2, RunStep DEF Pull, TypeOK, s3Vars, diskVars, ghostVars
    <3>7. CASE AdoptRemote(m)
      <4>1. run' \in [Machines -> Run]
        BY <3>7, <2>r, GotoType, EndType, PcsNames DEF AdoptRemote
      <4>. QED BY <3>7, <4>1 DEF AdoptRemote, TypeOK, s3Vars
    <3>8. CASE AdoptDb(m)
      <4>1. run' \in [Machines -> Run]
        BY <3>8, <2>r, GotoType, PcsNames DEF AdoptDb
      <4>2. run[m].base \in Stamps
        BY <3>r DEF Run
      <4>. QED BY <3>8, <4>1, <4>2 DEF AdoptDb, TypeOK, s3Vars, ghostVars
    <3>9. CASE AdoptStamp(m)
      <4>1. run[m].base \in Stamps
        BY <3>r DEF Run
      <4>. QED BY <3>9, <2>r, <4>1, EndType DEF AdoptStamp, TypeOK, s3Vars
    <3>10. CASE StageOrphans(m)
      <4>. DEFINE r == [run[m] EXCEPT !.sweep = Orphans(run[m].cand),
                                      !.cand.objs = @ \ Orphans(run[m].cand),
                                      !.pc = "put"]
      <4>1. r \in Run
        BY <3>r DEF Run, Pcs, Snapshot, Orphans
      <4>2. End(m) \/ run' = [run EXCEPT ![m] = r]
        BY <3>10 DEF StageOrphans
      <4>. HIDE DEF r
      <4>3. run' \in [Machines -> Run]
        BY <2>r, <4>1, <4>2, RunStep, EndType
      <4>. QED BY <3>10, <4>3 DEF StageOrphans, TypeOK, s3Vars, diskVars
    <3>11. CASE PutSnapshot(m)
      <4>. DEFINE v == minted + 1
                  db == [run[m].cand EXCEPT !.versions = Append(@, v)]
                  r == [run[m] EXCEPT !.stamp = v, !.cand = db, !.pc = "cas"]
      <4>1. v \in Stamps
        BY <3>11, BoundsNat DEF PutSnapshot, TypeOK, Stamps
      <4>2. run[m].cand \in Snapshot
        BY <3>r DEF Run
      <4>3. db \in Snapshot
        <5>1. Append(run[m].cand.versions, v) \in Seq(Stamps)
          BY <4>1, <4>2 DEF Snapshot
        <5>. QED BY <4>2, <5>1 DEF Snapshot
      <4>4. run' = [run EXCEPT ![m] = r]
        BY <3>11 DEF PutSnapshot
      <4>5. minted' = v /\ states' = [states EXCEPT ![v] = db]
        BY <3>11 DEF PutSnapshot
      <4>. HIDE DEF v, db
      <4>6. r \in Run
        BY <3>r, <4>1, <4>3 DEF Run, Pcs
      <4>. HIDE DEF r
      <4>. QED BY <3>11, <2>r, <4>1, <4>3, <4>4, <4>5, <4>6, RunStep
           DEF PutSnapshot, TypeOK, diskVars, ghostVars
    <3>12. CASE OutOfStamps(m)
      BY <3>12, <2>r, EndType DEF OutOfStamps, TypeOK, s3Vars, diskVars, ghostVars
    <3>13. CASE CasAnswered(m)
      <4>1. run[m].stamp \in Stamps
        BY <3>r DEF Run
      <4>2. [run[m] EXCEPT !.pc = "readback", !.conflict = TRUE] \in Run
        BY <3>r DEF Run, Pcs
      <4>3. AfterCommit(m) \in Pcs
        BY PcsNames DEF AfterCommit
      <4>4. run' \in [Machines -> Run]
        BY <3>13, <2>r, <4>2, <4>3, GotoType, RetryType DEF CasAnswered
      <4>. QED BY <3>13, <4>1, <4>4 DEF CasAnswered, TypeOK, diskVars
    <3>14. CASE ReadBack(m)
      <4>1. run' \in [Machines -> Run]
        BY <3>14, <2>r, GotoType, PcsNames DEF ReadBack
      <4>. QED BY <3>14, <4>1 DEF ReadBack, TypeOK, s3Vars, diskVars, ghostVars
    <3>15. CASE ReportDiverged(m)
      BY <3>15, <2>r, EndType DEF ReportDiverged, TypeOK, s3Vars, diskVars, ghostVars
    <3>16. ASSUME NEW h \in Hashes, DeleteObject(m, h) PROVE TypeOK'
      <4>1. [run[m] EXCEPT !.sweep = @ \ {h}] \in Run
        BY <3>r DEF Run
      <4>2. run' \in [Machines -> Run]
        BY <3>16, <2>r, <4>1 DEF DeleteObject
      <4>. QED BY <3>16, <4>2 DEF DeleteObject, TypeOK, diskVars, ghostVars
    <3>17. CASE SweepDone(m)
      <4>1. run' \in [Machines -> Run]
        BY <3>17, <2>r, GotoType, EndType, PcsNames DEF SweepDone
      <4>. QED BY <3>17, <4>1 DEF SweepDone, TypeOK, s3Vars, diskVars
    <3>18. CASE Promote(m)
      <4>1. run' \in [Machines -> Run] /\ run[m].cand \in Snapshot
        BY <3>18, <2>r, GotoType, PcsNames DEF Promote, Run
      <4>. QED BY <3>18, <4>1 DEF Promote, TypeOK, s3Vars, ghostVars
    <3>19. CASE WriteStamp(m)
      <4>1. run' \in [Machines -> Run]
        BY <3>19, <2>r, GotoType, EndType, PcsNames DEF WriteStamp
      <4>2. run[m].stamp \in Stamps
        BY <3>r DEF Run
      <4>. QED BY <3>19, <4>1, <4>2 DEF WriteStamp, TypeOK, s3Vars
    <3>20. CASE ClearMarker(m)
      <4>1. run[m].stamp \in Stamps
        BY <3>r DEF Run
      <4>. QED BY <3>20, <2>r, <4>1, EndType DEF ClearMarker, TypeOK, s3Vars
    <3>. QED
      BY <2>4, <3>1, <3>2, <3>3, <3>4, <3>5, <3>6, <3>7, <3>8, <3>9, <3>10, <3>11, <3>12,
         <3>13, <3>14, <3>15, <3>16, <3>17, <3>18, <3>19, <3>20 DEF Step
  <2>5. ASSUME NEW m \in Machines, Mishap(m) PROVE TypeOK'
    <3>r. run[m] \in Run
      BY <2>r
    <3>f. Fault => faults' \in 0..MaxFaults
      BY BoundsNat DEF Fault, TypeOK
    <3>1. CASE CasUnanswered(m)
      <4>1. [stamp |-> run[m].stamp, ifMatch |-> run[m].base] \in Request
        BY <3>r DEF Run, Request
      <4>2. [run[m] EXCEPT !.pc = "readback", !.conflict = FALSE] \in Run
        BY <3>r DEF Run, Pcs
      <4>3. run' \in [Machines -> Run]
        BY <3>1, <2>r, <4>2, EndType DEF CasUnanswered
      <4>. QED BY <3>1, <3>f, <4>1, <4>3 DEF CasUnanswered, TypeOK, diskVars
    <3>2. CASE ReadBackUnanswered(m)
      <4>1. run' \in [Machines -> Run]
        BY <3>2, <2>r, GotoType, PcsNames DEF ReadBackUnanswered
      <4>. QED BY <3>2, <3>f, <4>1 DEF ReadBackUnanswered, TypeOK, s3Vars, diskVars
    <3>3. CASE Crash(m)
      BY <3>3, <2>r, <3>f, EndType DEF Crash, TypeOK, s3Vars, diskVars
    <3>4. ASSUME NEW h \in Hashes, DeleteFails(m, h) PROVE TypeOK'
      <4>1. [run[m] EXCEPT !.sweep = @ \ {h}, !.failed = TRUE] \in Run
        BY <3>r DEF Run
      <4>2. run' \in [Machines -> Run]
        BY <3>4, <2>r, <4>1 DEF DeleteFails
      <4>. QED BY <3>4, <3>f, <4>2 DEF DeleteFails, TypeOK, s3Vars, diskVars
    <3>. QED BY <2>5, <3>1, <3>2, <3>3, <3>4 DEF Mishap
  <2>. QED BY <2>1, <2>2, <2>3, <2>4, <2>5 DEF Next
<1>. QED BY <1>1, <1>2, PTL DEF Spec

Snapshots == [Stamps -> Snapshot]

(***************************************************************************)
(* The trunk.                                                              *)
(***************************************************************************)

LEMMA SnapshotSeq ==
  ASSUME NEW t \in Snapshot
  PROVE  /\ t.versions \in Seq(Stamps)
         /\ Len(t.versions) \in Nat
         /\ \A i \in 1..Len(t.versions) : t.versions[i] \in Stamps
BY DEF Snapshot

(* A version on the trunk stands at the place its own length names, ends   *)
(* with itself, and agrees with the tip up to there.                       *)
LEMMA TrunkVersion ==
  ASSUME NEW s \in Snapshots, NEW c \in Stamps, IsTrunk(s, c),
         NEW v, OnTrunk(s, c, v)
  PROVE  /\ v \in Stamps
         /\ Len(s[v].versions) \in 1..Len(s[c].versions)
         /\ s[c].versions[Len(s[v].versions)] = v
         /\ Tip(s[v]) = v
         /\ IsPrefixOf(s[v], s[c])
<1>1. PICK i \in 1..Len(s[c].versions) : v = s[c].versions[i]
  BY DEF OnTrunk, VersionsOf
<1>2. s[c] \in Snapshot
  BY DEF Snapshots
<1>3. v \in Stamps
  BY <1>1, <1>2, SnapshotSeq
<1>4. Len(s[v].versions) = i /\ IsPrefixOf(s[v], s[c])
  BY <1>1 DEF IsTrunk
<1>5. s[v].versions[i] = s[c].versions[i]
  BY <1>4, <1>1 DEF IsPrefixOf
<1>. QED BY <1>1, <1>3, <1>4, <1>5 DEF Tip

LEMMA TrunkTip ==
  ASSUME NEW s \in Snapshots, NEW c \in Stamps, IsTrunk(s, c)
  PROVE  OnTrunk(s, c, c)
<1>1. Len(s[c].versions) \in Nat
  BY SnapshotSeq DEF Snapshots
<1>. QED BY <1>1 DEF IsTrunk, OnTrunk, VersionsOf, Tip

LEMMA PrefixSelf ==
  ASSUME NEW t \in Snapshot
  PROVE  IsPrefixOf(t, t)
BY SnapshotSeq DEF IsPrefixOf

LEMMA PrefixTransitive ==
  ASSUME NEW t \in Snapshot, NEW u \in Snapshot, NEW w \in Snapshot,
         IsPrefixOf(t, u), IsPrefixOf(u, w)
  PROVE  IsPrefixOf(t, w)
<1>1. Len(t.versions) \in Nat /\ Len(u.versions) \in Nat /\ Len(w.versions) \in Nat
  BY SnapshotSeq
<1>. QED BY <1>1 DEF IsPrefixOf

LEMMA PrefixVersions ==
  ASSUME NEW t \in Snapshot, NEW u \in Snapshot, IsPrefixOf(t, u), NEW v \in VersionsOf(t)
  PROVE  v \in VersionsOf(u)
<1>1. Len(t.versions) \in Nat /\ Len(u.versions) \in Nat
  BY SnapshotSeq
<1>. QED BY <1>1 DEF IsPrefixOf, VersionsOf

(* A table with one row more has the old one as a prefix.                  *)
LEMMA AppendPrefix ==
  ASSUME NEW t \in Snapshot, NEW u \in Snapshot, NEW v \in Stamps,
         u.versions = Append(t.versions, v)
  PROVE  /\ Len(u.versions) = Len(t.versions) + 1
         /\ IsPrefixOf(t, u)
         /\ \A i \in 1..Len(t.versions) : u.versions[i] = t.versions[i]
         /\ Tip(u) = v
         /\ v \in VersionsOf(u)
<1>1. t.versions \in Seq(Stamps) /\ Len(t.versions) \in Nat
  BY SnapshotSeq
<1>2. Len(u.versions) = Len(t.versions) + 1
  BY <1>1
<1>3. \A i \in 1..Len(t.versions) : u.versions[i] = t.versions[i]
  BY <1>1
<1>4. u.versions[Len(t.versions) + 1] = v
  BY <1>1
<1>. QED BY <1>1, <1>2, <1>3, <1>4 DEF IsPrefixOf, Tip, VersionsOf

(* Moving the pointer to a version built on the tip extends the trunk.     *)
LEMMA LandExtends ==
  ASSUME NEW s \in Snapshots, NEW c \in Stamps, IsTrunk(s, c),
         NEW d \in Stamps, BuiltOn(s, d, c)
  PROVE  /\ IsTrunk(s, d)
         /\ \A v : OnTrunk(s, c, v) => OnTrunk(s, d, v)
         /\ OnTrunk(s, d, d)
         /\ ~OnTrunk(s, c, d)
         /\ c # d
<1>1. s[c] \in Snapshot /\ s[d] \in Snapshot
  BY DEF Snapshots
<1>2. Len(s[c].versions) \in Nat /\ s[c].versions \in Seq(Stamps)
  BY <1>1, SnapshotSeq
<1>3. /\ Len(s[d].versions) = Len(s[c].versions) + 1
      /\ IsPrefixOf(s[c], s[d])
      /\ \A i \in 1..Len(s[c].versions) : s[d].versions[i] = s[c].versions[i]
      /\ Tip(s[d]) = d
      /\ d \in VersionsOf(s[d])
  BY <1>1, AppendPrefix DEF BuiltOn
<1>4. ASSUME NEW i \in 1..Len(s[d].versions)
      PROVE  /\ Len(s[s[d].versions[i]].versions) = i
             /\ IsPrefixOf(s[s[d].versions[i]], s[d])
  <2>1. CASE i \in 1..Len(s[c].versions)
    <3>1. s[d].versions[i] = s[c].versions[i]
      BY <2>1, <1>3
    <3>2. s[c].versions[i] \in Stamps
      BY <2>1, <1>1, SnapshotSeq
    <3>3. /\ Len(s[s[c].versions[i]].versions) = i
          /\ IsPrefixOf(s[s[c].versions[i]], s[c])
      BY <2>1 DEF IsTrunk
    <3>4. s[s[c].versions[i]] \in Snapshot
      BY <3>2 DEF Snapshots
    <3>. QED BY <3>1, <3>3, <3>4, <1>1, <1>3, PrefixTransitive
  <2>2. CASE i = Len(s[d].versions)
    <3>1. s[d].versions[i] = d
      BY <2>2, <1>3 DEF Tip
    <3>. QED BY <3>1, <2>2, <1>1, PrefixSelf
  <2>. QED BY <2>1, <2>2, <1>2, <1>3
<1>5. IsTrunk(s, d)
  BY <1>2, <1>3, <1>4 DEF IsTrunk
<1>6. \A v : OnTrunk(s, c, v) => OnTrunk(s, d, v)
  BY <1>1, <1>3, PrefixVersions DEF OnTrunk
<1>7. ~OnTrunk(s, c, d)
  BY <1>2, <1>3, TrunkVersion
<1>8. c # d
  BY <1>7, TrunkTip
<1>. QED BY <1>3, <1>5, <1>6, <1>7, <1>8 DEF OnTrunk

(* A step of the trunk keeps every version that was on it.                 *)
LEMMA AdvanceKeeps ==
  ASSUME NEW s \in Snapshots, NEW c \in Stamps, IsTrunk(s, c),
         NEW s2 \in Snapshots, NEW c2 \in Stamps, Advance(s, c, s2, c2)
  PROVE  /\ IsTrunk(s2, c2)
         /\ \A v : OnTrunk(s, c, v) => OnTrunk(s2, c2, v) /\ s2[v] = s[v]
<1>1. \A v : OnTrunk(s, c, v) => v \in Stamps /\ s2[v] = s[v]
  BY TrunkVersion DEF Advance
<1>2. s2[c] = s[c]
  BY <1>1, TrunkTip
<1>3. \A v : OnTrunk(s, c, v) <=> OnTrunk(s2, c, v)
  BY <1>2 DEF OnTrunk
<1>4. IsTrunk(s2, c)
  <2>1. \A i \in 1..Len(s[c].versions) : s2[s[c].versions[i]] = s[s[c].versions[i]]
    BY <1>1 DEF OnTrunk, VersionsOf
  <2>. QED BY <1>2, <2>1 DEF IsTrunk
<1>5. CASE c2 = c
  BY <1>1, <1>3, <1>4, <1>5
<1>6. CASE BuiltOn(s2, c2, c)
  <2>1. IsTrunk(s2, c2) /\ \A v : OnTrunk(s2, c, v) => OnTrunk(s2, c2, v)
    BY <1>4, <1>6, LandExtends
  <2>. QED BY <2>1, <1>1, <1>3
<1>. QED BY <1>5, <1>6 DEF Advance

(* A version built on another keeps being so.                              *)
LEMMA AdvanceBuiltOn ==
  ASSUME NEW s \in Snapshots, NEW c \in Stamps, IsTrunk(s, c),
         NEW s2 \in Snapshots, NEW c2 \in Stamps, Advance(s, c, s2, c2),
         NEW v \in Stamps, NEW base, OnTrunk(s, c, base), BuiltOn(s, v, base)
  PROVE  s2[v] = s[v] /\ s2[base] = s[base] /\ BuiltOn(s2, v, base)
<1>1. base \in Stamps /\ s2[base] = s[base]
  BY AdvanceKeeps, TrunkVersion
<1>2. s[v] \in Snapshot /\ s[base] \in Snapshot
  BY <1>1 DEF Snapshots
<1>3. Len(s[v].versions) = Len(s[base].versions) + 1 /\ Len(s[base].versions) \in Nat
  BY <1>2, AppendPrefix, SnapshotSeq DEF BuiltOn
<1>4. s2[v] = s[v]
  BY <1>3 DEF Advance
<1>. QED BY <1>1, <1>4 DEF BuiltOn

(* The pointer never comes back to a version it has left ...               *)
LEMMA AdvanceLeaves ==
  ASSUME NEW s \in Snapshots, NEW c \in Stamps, IsTrunk(s, c),
         NEW s2 \in Snapshots, NEW c2 \in Stamps, Advance(s, c, s2, c2),
         NEW v, OnTrunk(s, c, v), c # v
  PROVE  c2 # v
<1>1. CASE c2 = c
  BY <1>1
<1>2. CASE BuiltOn(s2, c2, c)
  <2>1. v \in Stamps /\ s2[v] = s[v] /\ s2[c] = s[c]
    BY AdvanceKeeps, TrunkVersion, TrunkTip
  <2>2. Len(s[v].versions) \in 1..Len(s[c].versions)
    BY TrunkVersion
  <2>3. s2[c] \in Snapshot /\ s2[c2] \in Snapshot
    BY DEF Snapshots
  <2>4. Len(s2[c2].versions) = Len(s2[c].versions) + 1 /\ Len(s2[c].versions) \in Nat
    BY <1>2, <2>3, AppendPrefix, SnapshotSeq DEF BuiltOn
  <2>. QED BY <2>1, <2>2, <2>4
<1>. QED BY <1>1, <1>2 DEF Advance

(* ... nor to one built on such a version.                                 *)
LEMMA AdvanceMisses ==
  ASSUME NEW s \in Snapshots, NEW c \in Stamps, IsTrunk(s, c),
         NEW s2 \in Snapshots, NEW c2 \in Stamps, Advance(s, c, s2, c2),
         NEW v \in Stamps, NEW base, OnTrunk(s, c, base), BuiltOn(s, v, base),
         c # base, c # v
  PROVE  c2 # v
<1>1. CASE c2 = c
  BY <1>1
<1>2. CASE BuiltOn(s2, c2, c)
  <2>. SUFFICES ASSUME c2 = v PROVE FALSE
    OBVIOUS
  <2>1. base \in Stamps /\ s2[base] = s[base] /\ BuiltOn(s2, v, base)
    BY AdvanceBuiltOn, TrunkVersion
  <2>2. s2[c] = s[c]
    BY AdvanceKeeps, TrunkTip
  <2>3. s2[c] \in Snapshot /\ s2[base] \in Snapshot /\ s2[v] \in Snapshot
    BY <2>1 DEF Snapshots
  <2>4. /\ Len(s2[v].versions) = Len(s2[c].versions) + 1
        /\ Len(s2[v].versions) = Len(s2[base].versions) + 1
    BY <1>2, <2>1, <2>3, AppendPrefix DEF BuiltOn
  <2>5. Len(s2[c].versions) \in Nat /\ Len(s2[base].versions) \in Nat
    BY <2>3, SnapshotSeq
  <2>6. Len(s[c].versions) = Len(s[base].versions)
    BY <2>1, <2>2, <2>4, <2>5
  <2>7. s[c].versions[Len(s[base].versions)] = base
    BY TrunkVersion
  <2>8. s[c].versions[Len(s[c].versions)] = c
    BY DEF IsTrunk, Tip
  <2>. QED BY <2>6, <2>7, <2>8
<1>. QED BY <1>1, <1>2 DEF Advance

(* What machines that do not move hold stays true of a trunk that advances.*)
LEMMA DiskAdvance ==
  ASSUME NEW s \in Snapshots, NEW c \in Stamps, IsTrunk(s, c),
         NEW s2 \in Snapshots, NEW c2 \in Stamps, Advance(s, c, s2, c2),
         NEW db, NEW last, DiskOK(s, c, db, last)
  PROVE  DiskOK(s2, c2, db, last)
BY AdvanceKeeps DEF DiskOK

LEMMA WireAdvance ==
  ASSUME NEW s \in Snapshots, NEW c \in Stamps, IsTrunk(s, c),
         NEW s2 \in Snapshots, NEW c2 \in Stamps, Advance(s, c, s2, c2),
         NEW q \in Request, WireOK(s, c, q)
  PROVE  WireOK(s2, c2, q)
<1>1. q.stamp \in Stamps
  BY DEF Request
<1>. QED BY <1>1, AdvanceKeeps, AdvanceBuiltOn DEF WireOK

LEMMA RunAdvance ==
  ASSUME NEW s \in Snapshots, NEW c \in Stamps, IsTrunk(s, c),
         NEW s2 \in Snapshots, NEW c2 \in Stamps, Advance(s, c, s2, c2),
         NEW db, NEW r \in Run, RunOK(s, c, db, r)
  PROVE  RunOK(s2, c2, db, r)
<1>. USE DEF Reading, Catching, Committing, Promoted, Landed
<1>1. r.pc \notin {"idle", "fetch"} => OnTrunk(s, c, r.base)
  BY DEF RunOK
<1>2. r.pc \notin {"idle", "fetch"} => OnTrunk(s2, c2, r.base) /\ s2[r.base] = s[r.base]
  BY <1>1, AdvanceKeeps
<1>3. r.stamp \in Stamps
  BY DEF Run
<1>4. r.pc \in Committing \cup Promoted =>
        s2[r.stamp] = s[r.stamp] /\ BuiltOn(s2, r.stamp, r.base)
  BY <1>1, <1>3, AdvanceBuiltOn DEF RunOK
<1>5. r.pc \in Landed => OnTrunk(s2, c2, r.stamp)
  BY AdvanceKeeps DEF RunOK
<1>6. (r.pc = "readback" /\ r.conflict) \/ r.pc = "diverged" => c2 # r.base
  BY <1>1, AdvanceLeaves DEF RunOK
<1>7. r.pc = "diverged" => c2 # r.stamp
  <2>1. r.pc = "diverged" => BuiltOn(s, r.stamp, r.base) /\ c # r.base /\ c # r.stamp
    BY DEF RunOK
  <2>. QED BY <1>1, <1>3, <2>1, AdvanceMisses
<1>. QED BY <1>2, <1>4, <1>5, <1>6, <1>7 DEF RunOK

(* A machine synced to the tip holds the tip (the shortcut of a sync).     *)
LEMMA DiskAtTip ==
  ASSUME NEW s \in Snapshots, NEW c \in Stamps, IsTrunk(s, c),
         NEW db, DiskOK(s, c, db, c)
  PROVE  db = s[c]
<1>1. PICK v \in Stamps : OnTrunk(s, c, v) /\ db = s[v]
  BY DEF DiskOK
<1>2. PICK j \in 1..Len(s[v].versions) : s[v].versions[j] = c
  BY <1>1 DEF DiskOK, VersionsOf
<1>3. /\ Len(s[v].versions) \in 1..Len(s[c].versions)
      /\ s[c].versions[Len(s[v].versions)] = v
      /\ IsPrefixOf(s[v], s[c])
  BY <1>1, TrunkVersion
<1>4. Len(s[c].versions) \in Nat
  BY SnapshotSeq DEF Snapshots
<1>5. s[c].versions[j] = c /\ j \in 1..Len(s[c].versions)
  BY <1>2, <1>3, <1>4 DEF IsPrefixOf
<1>6. Len(s[c].versions) = j
  BY <1>5 DEF IsTrunk
<1>7. Len(s[v].versions) = Len(s[c].versions)
  BY <1>2, <1>3, <1>4, <1>6
<1>8. v = c
  BY <1>3, <1>7 DEF IsTrunk, Tip
<1>. QED BY <1>1, <1>8

LEMMA DiskOnTrunk ==
  ASSUME NEW s \in Snapshots, NEW c \in Stamps, IsTrunk(s, c),
         NEW db, NEW last, DiskOK(s, c, db, last)
  PROVE  IsPrefixOf(db, s[c]) /\ last \in VersionsOf(db)
BY TrunkVersion DEF DiskOK

(***************************************************************************)
(* What a command knows, from one of its steps to the next.                *)
(***************************************************************************)

LEMMA IdleOK ==
  ASSUME NEW s, NEW c, NEW db, NEW r, r.pc \in {"idle", "fetch"}
  PROVE  RunOK(s, c, db, r)
BY DEF RunOK, Reading, Catching, Committing, Promoted, Landed

LEMMA ReadingOK ==
  ASSUME NEW s, NEW c, NEW db, NEW r, RunOK(s, c, db, r), r.pc \in Reading,
         NEW q, q.pc \in Reading, q.base = r.base, q.cand.versions = r.cand.versions
  PROVE  RunOK(s, c, db, q)
BY DEF RunOK, Reading, Catching, Committing, Promoted, Landed

LEMMA CatchingOK ==
  ASSUME NEW s, NEW c, NEW db, NEW r, RunOK(s, c, db, r), r.pc \in Reading \cup Catching,
         NEW q, q.pc \in {"adopt", "adoptDb"}, q.base = r.base
  PROVE  RunOK(s, c, db, q)
BY DEF RunOK, Reading, Catching, Committing, Promoted, Landed

LEMMA CommittingOK ==
  ASSUME NEW s, NEW c, NEW db, NEW r, RunOK(s, c, db, r), r.pc \in Committing,
         NEW q, q.pc \in Committing,
         q.base = r.base, q.stamp = r.stamp, q.cand = r.cand,
         q.pc \in Landed => OnTrunk(s, c, r.stamp),
         (q.pc = "readback" /\ q.conflict) \/ q.pc = "diverged" => c # r.base,
         q.pc = "diverged" => c # r.stamp
  PROVE  RunOK(s, c, db, q)
BY DEF RunOK, Reading, Catching, Committing, Promoted, Landed

(***************************************************************************)
(* Steps.                                                                  *)
(***************************************************************************)

Good(m) ==
  /\ DiskOK(states, current, stateDb[m], lastSynced[m])
  /\ RunOK(states, current, stateDb[m], run[m])

LEMMA TypeFacts ==
  ASSUME TypeOK
  PROVE  /\ states \in Snapshots /\ current \in Stamps
         /\ \A q \in wire : q \in Request
         /\ \A m \in Machines : run[m] \in Run /\ stateDb[m] \in Snapshot
BY DEF TypeOK, Snapshots

(* The trunk advances or stays, one machine has moved and is in order, and *)
(* what is new on the wire and among the reported commits is in order.     *)
LEMMA InvStep ==
  ASSUME TypeOK, TypeOK', Inv,
         Advance(states, current, states', current'),
         Fresh(states', minted'),
         \A n \in Machines :
           \/ run'[n] = run[n] /\ stateDb'[n] = stateDb[n] /\ lastSynced'[n] = lastSynced[n]
           \/ Good(n)',
         \A q \in wire' : q \in wire \/ WireOK(states', current', q),
         \A v \in acked' : v \in acked \/ OnTrunk(states', current', v)
  PROVE  Inv'
<1>1. /\ states \in Snapshots /\ current \in Stamps
      /\ states' \in Snapshots /\ current' \in Stamps
  BY TypeFacts DEF TypeOK, Snapshots
<1>2. IsTrunk(states, current)
  BY DEF Inv
<1>3. IsTrunk(states', current')
  BY <1>1, <1>2, AdvanceKeeps
<1>4. ASSUME NEW n \in Machines PROVE Good(n)'
  <2>1. CASE run'[n] = run[n] /\ stateDb'[n] = stateDb[n] /\ lastSynced'[n] = lastSynced[n]
    <3>1. /\ DiskOK(states, current, stateDb[n], lastSynced[n])
          /\ RunOK(states, current, stateDb[n], run[n])
          /\ run[n] \in Run
      BY TypeFacts DEF Inv
    <3>2. DiskOK(states', current', stateDb[n], lastSynced[n])
      BY <3>1, <1>1, <1>2, DiskAdvance
    <3>3. RunOK(states', current', stateDb[n], run[n])
      BY <3>1, <1>1, <1>2, RunAdvance
    <3>. QED BY <2>1, <3>2, <3>3 DEF Good
  <2>. QED BY <2>1
<1>5. ASSUME NEW q \in wire' PROVE WireOK(states', current', q)
  <2>1. CASE q \in wire
    <3>1. q \in Request /\ WireOK(states, current, q)
      BY <2>1, TypeFacts DEF Inv
    <3>. QED BY <3>1, <1>1, <1>2, WireAdvance
  <2>. QED BY <2>1
<1>6. ASSUME NEW v \in acked' PROVE OnTrunk(states', current', v)
  <2>1. CASE v \in acked
    BY <2>1, <1>1, <1>2, AdvanceKeeps DEF Inv
  <2>. QED BY <2>1
<1>. QED BY <1>3, <1>4, <1>5, <1>6 DEF Inv, Good

(* A step of machine m that changes nothing but what its command knows.    *)
LEMMA QuietStep ==
  ASSUME TypeOK, Inv, NEW m \in Machines,
         UNCHANGED <<current, states, minted, wire, acked, stateDb, lastSynced>>,
         NEW r, run' = [run EXCEPT ![m] = r],
         RunOK(states, current, stateDb[m], r)
  PROVE  Inv'
<1>1. run \in [Machines -> Run]
  BY DEF TypeOK
<1>2. \A n \in Machines : run'[n] = IF n = m THEN r ELSE run[n]
  BY <1>1
<1>3. \A n \in Machines : RunOK(states, current, stateDb[n], run'[n])
  BY <1>2 DEF Inv
<1>4. \A n \in Machines : RunOK(states', current', stateDb'[n], run'[n])
  BY <1>3
<1>. QED BY <1>4 DEF Inv

(* A step that changes what machine m knows and has on disk.               *)
LEMMA DiskStep ==
  ASSUME TypeOK, Inv, NEW m \in Machines,
         UNCHANGED <<current, states, minted, wire>>,
         NEW r, run' = [run EXCEPT ![m] = r],
         NEW db, stateDb' = [stateDb EXCEPT ![m] = db],
         NEW last, lastSynced' = [lastSynced EXCEPT ![m] = last],
         RunOK(states, current, db, r),
         DiskOK(states, current, db, last),
         \A v \in acked' : v \in acked \/ OnTrunk(states, current, v)
  PROVE  Inv'
<1>1. /\ run \in [Machines -> Run] /\ stateDb \in [Machines -> Snapshot]
      /\ lastSynced \in [Machines -> Stamps]
  BY DEF TypeOK
<1>2. \A n \in Machines : /\ run'[n] = IF n = m THEN r ELSE run[n]
                          /\ stateDb'[n] = IF n = m THEN db ELSE stateDb[n]
                          /\ lastSynced'[n] = IF n = m THEN last ELSE lastSynced[n]
  BY <1>1
<1>3. \A n \in Machines : /\ RunOK(states, current, stateDb'[n], run'[n])
                          /\ DiskOK(states, current, stateDb'[n], lastSynced'[n])
  BY <1>2 DEF Inv
<1>4. \A n \in Machines : /\ RunOK(states', current', stateDb'[n], run'[n])
                          /\ DiskOK(states', current', stateDb'[n], lastSynced'[n])
  BY <1>3
<1>5. \A v \in acked' : OnTrunk(states, current, v)
  BY DEF Inv
<1>. QED BY <1>4, <1>5 DEF Inv

(* What a machine in the middle of a command has of the trunk.             *)
LEMMA RunFacts ==
  ASSUME TypeOK, Inv, NEW m \in Machines
  PROVE  /\ IsTrunk(states, current)
         /\ states \in Snapshots /\ current \in Stamps
         /\ run \in [Machines -> Run] /\ run[m] \in Run
         /\ RunOK(states, current, stateDb[m], run[m])
         /\ DiskOK(states, current, stateDb[m], lastSynced[m])
         /\ run[m].base \in Stamps /\ run[m].stamp \in Stamps
         /\ run[m].cand \in Snapshot
<1>1. run[m] \in Run
  BY DEF TypeOK
<1>. QED BY <1>1, TypeFacts DEF Inv, TypeOK, Run

LEMMA EndInv ==
  ASSUME TypeOK, Inv, NEW m \in Machines, End(m),
         UNCHANGED <<current, states, minted, wire, acked, stateDb, lastSynced>>
  PROVE  Inv'
<1>1. Idle.pc = "idle"
  BY DEF Idle
<1>2. RunOK(states, current, stateDb[m], Idle)
  BY <1>1, IdleOK
<1>. QED BY <1>2, QuietStep DEF End

LEMMA OpenedOK ==
  ASSUME TypeOK, Inv, NEW m \in Machines, NEW op \in Ops,
         NEW verify \in BOOLEAN, NEW n \in 0..(MaxAttempts-1)
  PROVE  RunOK(states, current, stateDb[m], Opened(m, op, verify, n))
<1>. DEFINE r == Opened(m, op, verify, n)
<1>1. /\ r.pc \in {"plan", "stage", "put", "save"}
      /\ r.base = current
      /\ r.cand = IF op = "sync" /\ current = lastSynced[m] THEN stateDb[m]
                  ELSE states[current]
  BY DEF Opened, Idle, Ops
<1>2. r.cand = states[current]
  BY <1>1, RunFacts, DiskAtTip
<1>3. OnTrunk(states, current, current) /\ IsPrefixOf(stateDb[m], states[current])
  BY RunFacts, TrunkTip, DiskOnTrunk
<1>. HIDE DEF r
<1>4. RunOK(states, current, stateDb[m], r)
  BY <1>1, <1>2, <1>3 DEF RunOK, Reading, Catching, Committing, Promoted, Landed
<1>. QED BY <1>4 DEF r

LEMMA OpeningInv ==
  ASSUME TypeOK, Inv, NEW m \in Machines, Start(m) \/ Refetch(m)
  PROVE  Inv'
<1>1. CASE Start(m)
  <2>1. PICK op \in Commands[m], flag \in BOOLEAN :
          run' = [run EXCEPT ![m] = Opened(m, op, op = "sync" /\ (flag \/ marker[m]), 0)]
    BY <1>1 DEF Start
  <2>2. op \in Ops /\ 0 \in 0..(MaxAttempts-1) /\ marker[m] \in BOOLEAN
    BY CommandsAssumption, BoundsNat DEF Ops, TypeOK
  <2>3. RunOK(states, current, stateDb[m], Opened(m, op, op = "sync" /\ (flag \/ marker[m]), 0))
    BY <2>2, OpenedOK
  <2>. QED BY <1>1, <2>1, <2>3, QuietStep DEF Start, s3Vars, diskVars, ghostVars
<1>2. CASE Refetch(m)
  <2>1. run[m].op \in Ops /\ run[m].attempt \in 0..(MaxAttempts-1)
    BY RunFacts DEF Run
  <2>2. RunOK(states, current, stateDb[m], Opened(m, run[m].op, FALSE, run[m].attempt))
    BY <2>1, OpenedOK
  <2>. QED BY <1>2, <2>2, QuietStep DEF Refetch, s3Vars, diskVars, ghostVars
<1>. QED BY <1>1, <1>2

LEMMA SaveFetchedInv ==
  ASSUME TypeOK, Inv, NEW m \in Machines, SaveFetched(m)
  PROVE  Inv' /\ IsPrefixOf(stateDb[m], stateDb'[m])
<1>. DEFINE r == run[m]
<1>1. r.pc = "save"
  BY DEF SaveFetched, At
<1>2. /\ OnTrunk(states, current, r.base) /\ r.base \in Stamps
      /\ r.cand = states[r.base]
      /\ IsPrefixOf(stateDb[m], states[r.base])
  BY <1>1, RunFacts DEF RunOK, Reading, Catching, Committing
<1>3. states[r.base] \in Snapshot /\ stateDb[m] \in Snapshot
  BY <1>2 DEF TypeOK
<1>4. lastSynced[m] \in VersionsOf(states[r.base])
  BY <1>2, <1>3, RunFacts, DiskOnTrunk, PrefixVersions
<1>5. DiskOK(states, current, states[r.base], lastSynced[m])
  BY <1>2, <1>4 DEF DiskOK
<1>6. RunOK(states, current, states[r.base], Idle)
  BY IdleOK DEF Idle
<1>7. stateDb' = [stateDb EXCEPT ![m] = states[r.base]]
  BY <1>2 DEF SaveFetched
<1>8. lastSynced' = [lastSynced EXCEPT ![m] = lastSynced[m]]
  BY DEF SaveFetched, TypeOK
<1>9. run' = [run EXCEPT ![m] = Idle]
  BY DEF SaveFetched, End
<1>10. Inv'
  BY <1>5, <1>6, <1>7, <1>8, <1>9, DiskStep DEF SaveFetched, s3Vars
<1>11. stateDb'[m] = states[r.base]
  BY <1>7 DEF TypeOK
<1>. QED BY <1>2, <1>10, <1>11

LEMMA PlanInv ==
  ASSUME TypeOK, Inv, NEW m \in Machines, Plan(m)
  PROVE  Inv'
<1>1. PICK del \in SUBSET run[m].cand.refs, add \in SUBSET Hashes, other \in BOOLEAN :
        run' = [run EXCEPT ![m].cand.refs = @ \ del,
                           ![m].applied = other \/ del # {},
                           ![m].todo = add,
                           ![m].pc = "upload"]
  BY DEF Plan
<1>. DEFINE r == [run[m] EXCEPT !.cand.refs = @ \ del,
                                !.applied = other \/ del # {},
                                !.todo = add,
                                !.pc = "upload"]
<1>2. run' = [run EXCEPT ![m] = r]
  BY <1>1
<1>3. r.pc = "upload" /\ r.base = run[m].base /\ r.cand.versions = run[m].cand.versions
  BY RunFacts DEF Run, Snapshot
<1>4. run[m].pc = "plan"
  BY DEF Plan, At
<1>. HIDE DEF r
<1>5. RunOK(states, current, stateDb[m], r)
  BY <1>3, <1>4, RunFacts, ReadingOK DEF Reading
<1>. QED BY <1>2, <1>5, QuietStep DEF Plan, s3Vars, ghostVars

LEMMA ApplyRowInv ==
  ASSUME TypeOK, Inv, NEW m \in Machines, NEW h \in Hashes,
         Dedup(m, h) \/ Adopt(m, h) \/ Upload(m, h)
  PROVE  Inv'
<1>. DEFINE r == [run[m] EXCEPT !.todo = @ \ {h}, !.cand.refs = @ \cup {h},
                                !.cand.objs = @ \cup {h}, !.applied = TRUE]
<1>1. run[m].pc = "upload" /\ ApplyRow(m, h)
  BY DEF Dedup, Adopt, Upload, At
<1>2. run' = [run EXCEPT ![m] = r]
  BY <1>1 DEF ApplyRow
<1>3. r.pc = run[m].pc /\ r.base = run[m].base /\ r.cand.versions = run[m].cand.versions
  BY RunFacts DEF Run, Snapshot
<1>. HIDE DEF r
<1>4. RunOK(states, current, stateDb[m], r)
  BY <1>1, <1>3, RunFacts, ReadingOK DEF Reading
<1>. QED BY <1>2, <1>4, QuietStep DEF Dedup, Adopt, Upload, s3Vars, diskVars, ghostVars

LEMMA PullInv ==
  ASSUME TypeOK, Inv, NEW m \in Machines, Pull(m)
  PROVE  Inv'
<1>. DEFINE r == [run[m] EXCEPT !.pc = IF run[m].applied THEN "put" ELSE "adopt",
                                !.verify = FALSE]
<1>1. run' = [run EXCEPT ![m] = r]
  BY DEF Pull
<1>2. r.pc \in {"put", "adopt"} /\ r.base = run[m].base /\ r.cand = run[m].cand
  BY RunFacts DEF Run
<1>3. run[m].pc = "upload"
  BY DEF Pull, At
<1>. HIDE DEF r
<1>4. RunOK(states, current, stateDb[m], r)
  BY <1>2, <1>3, RunFacts, ReadingOK, CatchingOK DEF Reading
<1>. QED BY <1>1, <1>4, QuietStep DEF Pull, s3Vars, diskVars, ghostVars

LEMMA AdoptRemoteInv ==
  ASSUME TypeOK, Inv, NEW m \in Machines, AdoptRemote(m)
  PROVE  Inv'
<1>. DEFINE r == [run[m] EXCEPT !.pc = "adoptDb"]
<1>1. r.pc = "adoptDb" /\ r.base = run[m].base /\ run[m].pc = "adopt"
  BY RunFacts DEF Run, AdoptRemote, At
<1>2. CASE Goto(m, "adoptDb")
  <2>1. run' = [run EXCEPT ![m] = r]
    BY <1>2 DEF Goto
  <2>. HIDE DEF r
  <2>2. RunOK(states, current, stateDb[m], r)
    BY <1>1, RunFacts, CatchingOK DEF Catching
  <2>. QED BY <2>1, <2>2, QuietStep DEF AdoptRemote, s3Vars
<1>3. CASE End(m)
  BY <1>3, EndInv DEF AdoptRemote, s3Vars
<1>. QED BY <1>2, <1>3 DEF AdoptRemote

(* Both ways of replacing state.db, adopting /current's and promoting the  *)
(* candidate, put a version of the trunk there that contains the old one.  *)
LEMMA NewDiskOK ==
  ASSUME TypeOK, Inv, NEW m \in Machines, NEW v \in Stamps,
         OnTrunk(states, current, v), IsPrefixOf(stateDb[m], states[v])
  PROVE  DiskOK(states, current, states[v], lastSynced[m])
<1>1. states[v] \in Snapshot /\ stateDb[m] \in Snapshot
  BY DEF TypeOK
<1>2. lastSynced[m] \in VersionsOf(states[v])
  BY <1>1, RunFacts, DiskOnTrunk, PrefixVersions
<1>. QED BY <1>2 DEF DiskOK

LEMMA AdoptDbInv ==
  ASSUME TypeOK, Inv, NEW m \in Machines, AdoptDb(m)
  PROVE  Inv' /\ IsPrefixOf(stateDb[m], stateDb'[m])
<1>. DEFINE r == [run[m] EXCEPT !.pc = "adoptStamp"]
            db == states[run[m].base]
<1>1. run[m].pc = "adoptDb"
  BY DEF AdoptDb, At
<1>2. /\ OnTrunk(states, current, run[m].base) /\ run[m].base \in Stamps
      /\ IsPrefixOf(stateDb[m], db)
  BY <1>1, RunFacts DEF RunOK, Reading, Catching, Committing
<1>3. DiskOK(states, current, db, lastSynced[m])
  BY <1>2, NewDiskOK
<1>4. r.pc = "adoptStamp" /\ r.base = run[m].base
  BY RunFacts DEF Run
<1>5. run' = [run EXCEPT ![m] = r] /\ stateDb' = [stateDb EXCEPT ![m] = db]
  BY DEF AdoptDb, Goto
<1>6. lastSynced' = [lastSynced EXCEPT ![m] = lastSynced[m]]
  BY DEF AdoptDb, TypeOK
<1>7. stateDb'[m] = db
  BY <1>5 DEF TypeOK
<1>. HIDE DEF r
<1>8. RunOK(states, current, db, r)
  BY <1>2, <1>4 DEF RunOK, Reading, Catching, Committing, Promoted, Landed
<1>9. Inv'
  BY <1>3, <1>5, <1>6, <1>8, DiskStep DEF AdoptDb, s3Vars, ghostVars
<1>. QED BY <1>2, <1>7, <1>9

LEMMA AdoptStampInv ==
  ASSUME TypeOK, Inv, NEW m \in Machines, AdoptStamp(m)
  PROVE  Inv'
<1>. DEFINE r == run[m]
<1>1. r.pc = "adoptStamp"
  BY DEF AdoptStamp, At
<1>2. /\ OnTrunk(states, current, r.base) /\ r.base \in Stamps
      /\ stateDb[m] = states[r.base]
  BY <1>1, RunFacts DEF RunOK
<1>3. r.base \in VersionsOf(states[r.base])
  <2>1. /\ Len(states[r.base].versions) \in 1..Len(states[current].versions)
        /\ Tip(states[r.base]) = r.base
    BY <1>2, RunFacts, TrunkVersion
  <2>. QED BY <2>1 DEF Tip, VersionsOf
<1>4. DiskOK(states, current, stateDb[m], r.base)
  BY <1>2, <1>3 DEF DiskOK
<1>5. RunOK(states, current, stateDb[m], Idle)
  BY IdleOK DEF Idle
<1>6. /\ run' = [run EXCEPT ![m] = Idle]
      /\ lastSynced' = [lastSynced EXCEPT ![m] = r.base]
      /\ stateDb' = [stateDb EXCEPT ![m] = stateDb[m]]
  BY DEF AdoptStamp, End, TypeOK
<1>. QED BY <1>4, <1>5, <1>6, DiskStep DEF AdoptStamp, s3Vars

LEMMA StageOrphansInv ==
  ASSUME TypeOK, Inv, NEW m \in Machines, StageOrphans(m)
  PROVE  Inv'
<1>. DEFINE r == [run[m] EXCEPT !.sweep = Orphans(run[m].cand),
                                !.cand.objs = @ \ Orphans(run[m].cand),
                                !.pc = "put"]
<1>1. r.pc = "put" /\ r.base = run[m].base /\ r.cand.versions = run[m].cand.versions
  BY RunFacts DEF Run, Snapshot
<1>2. run[m].pc = "stage"
  BY DEF StageOrphans, At
<1>3. CASE run' = [run EXCEPT ![m] = r]
  <2>. HIDE DEF r
  <2>1. RunOK(states, current, stateDb[m], r)
    BY <1>1, <1>2, RunFacts, ReadingOK DEF Reading
  <2>. QED BY <1>3, <2>1, QuietStep DEF StageOrphans, s3Vars, diskVars
<1>4. CASE End(m)
  BY <1>4, EndInv DEF StageOrphans, s3Vars, diskVars
<1>. QED BY <1>3, <1>4 DEF StageOrphans

(* Uploading a snapshot names nothing new on the trunk: its stamp is new.  *)
LEMMA PutSnapshotInv ==
  ASSUME TypeOK, TypeOK', Inv, NEW m \in Machines, PutSnapshot(m)
  PROVE  Inv'
<1>. DEFINE v == minted + 1
            base == run[m].base
            db == [run[m].cand EXCEPT !.versions = Append(@, v)]
            r == [run[m] EXCEPT !.stamp = v, !.cand = db, !.pc = "cas"]
<1>1. /\ minted' = v
      /\ states' = [states EXCEPT ![v] = db]
      /\ run' = [run EXCEPT ![m] = r]
      /\ UNCHANGED <<current, wire, stateDb, lastSynced, acked>>
      /\ run[m].pc = "put"
  BY DEF PutSnapshot, diskVars, ghostVars
<1>2. v \in Stamps /\ minted \in Nat
  BY <1>1 DEF TypeOK, Stamps
<1>3. /\ \A w \in Stamps \ {v} : states'[w] = states[w]
      /\ states'[v] = db
  BY <1>1, <1>2 DEF TypeOK
<1>4. \A w \in Stamps : w > minted => Len(states[w].versions) = 0
  BY DEF Inv, Fresh
<1>5. Len(states[v].versions) = 0
  BY <1>2, <1>4
<1>6. Advance(states, current, states', current')
  <2>1. \A w \in Stamps : Len(states[w].versions) >= 1 => w # v
    BY <1>5
  <2>. QED BY <1>1, <1>3, <2>1 DEF Advance
<1>7. Fresh(states', minted')
  <2>1. \A w \in Stamps : w > v => w # v /\ w > minted
    BY <1>2 DEF Stamps
  <2>. QED BY <1>1, <1>3, <1>4, <2>1 DEF Fresh
<1>8. /\ IsTrunk(states, current) /\ states \in Snapshots /\ states' \in Snapshots
      /\ current \in Stamps /\ current' \in Stamps
  BY RunFacts DEF TypeOK, Snapshots
<1>9. /\ OnTrunk(states, current, base) /\ base \in Stamps
      /\ run[m].cand.versions = states[base].versions
      /\ IsPrefixOf(stateDb[m], states[base])
  BY <1>1, RunFacts DEF RunOK, Reading
<1>10. OnTrunk(states', current', base) /\ states'[base] = states[base]
  BY <1>6, <1>8, <1>9, AdvanceKeeps
<1>11. /\ db.versions = Append(states[base].versions, v)
       /\ r.pc = "cas" /\ r.base = base /\ r.stamp = v /\ r.cand = db
  BY <1>9, RunFacts DEF Run, Snapshot
<1>12. BuiltOn(states', v, base)
  BY <1>3, <1>10, <1>11 DEF BuiltOn
<1>. HIDE DEF v, db, base, r
<1>13. RunOK(states', current', stateDb[m], r)
  BY <1>3, <1>9, <1>10, <1>11, <1>12
  DEF RunOK, Reading, Catching, Committing, Promoted, Landed
<1>14. DiskOK(states', current', stateDb[m], lastSynced[m])
  BY <1>6, <1>8, RunFacts, DiskAdvance
<1>15. run' \in [Machines -> Run] /\ run'[m] = r /\ \A n \in Machines \ {m} : run'[n] = run[n]
  BY <1>1, RunFacts DEF TypeOK
<1>16. Good(m)'
  BY <1>1, <1>13, <1>14, <1>15 DEF Good
<1>17. \A n \in Machines :
         \/ run'[n] = run[n] /\ stateDb'[n] = stateDb[n] /\ lastSynced'[n] = lastSynced[n]
         \/ Good(n)'
  BY <1>1, <1>15, <1>16
<1>. QED BY <1>1, <1>6, <1>7, <1>17, InvStep

LEMMA AbandonInv ==
  ASSUME TypeOK, Inv, NEW m \in Machines, OutOfStamps(m) \/ ReportDiverged(m) \/ Crash(m)
  PROVE  Inv'
BY EndInv DEF OutOfStamps, ReportDiverged, Crash, s3Vars, diskVars, ghostVars

(* A conditional PUT that finds the version it expects extends the trunk.  *)
LEMMA LandAdvance ==
  ASSUME TypeOK, TypeOK', Inv, NEW v \in Stamps, BuiltOn(states, v, current),
         current' = v, UNCHANGED states
  PROVE  /\ Advance(states, current, states', current')
         /\ OnTrunk(states', current', v)
BY TypeFacts, LandExtends DEF Inv, Advance

LEMMA CasAnsweredInv ==
  ASSUME TypeOK, TypeOK', Inv, NEW m \in Machines, CasAnswered(m)
  PROVE  Inv'
<1>1. /\ UNCHANGED <<states, minted, wire, stateDb, lastSynced, acked>>
      /\ run[m].pc = "cas"
  BY DEF CasAnswered, diskVars
<1>2. /\ run[m].base \in Stamps /\ run[m].stamp \in Stamps
      /\ states[run[m].stamp] = run[m].cand
      /\ BuiltOn(states, run[m].stamp, run[m].base)
      /\ RunOK(states, current, stateDb[m], run[m])
  BY <1>1, RunFacts DEF RunOK, Committing
<1>3. CASE current = run[m].base /\ current' = run[m].stamp /\ Goto(m, AfterCommit(m))
  <2>. DEFINE r == [run[m] EXCEPT !.pc = AfterCommit(m)]
  <2>1. /\ Advance(states, current, states', current')
        /\ OnTrunk(states', current', run[m].stamp)
    BY <1>1, <1>2, <1>3, LandAdvance
  <2>2. /\ states \in Snapshots /\ states' \in Snapshots
        /\ current \in Stamps /\ current' \in Stamps
        /\ IsTrunk(states, current) /\ run[m] \in Run
    BY RunFacts DEF TypeOK, Snapshots
  <2>3. RunOK(states', current', stateDb[m], run[m])
    BY <1>2, <2>1, <2>2, RunAdvance
  <2>4. DiskOK(states', current', stateDb[m], lastSynced[m])
    BY <2>1, <2>2, RunFacts, DiskAdvance
  <2>5. r.pc \in {"sweep", "promote"} /\ r.base = run[m].base
        /\ r.stamp = run[m].stamp /\ r.cand = run[m].cand
    BY <2>2 DEF Run, AfterCommit
  <2>6. run' = [run EXCEPT ![m] = r]
    BY <1>3 DEF Goto
  <2>. HIDE DEF r
  <2>7. RunOK(states', current', stateDb[m], r)
    BY <1>1, <2>1, <2>3, <2>5, CommittingOK DEF Committing
  <2>8. run'[m] = r /\ \A n \in Machines \ {m} : run'[n] = run[n]
    BY <2>6 DEF TypeOK
  <2>9. Good(m)'
    BY <1>1, <2>4, <2>7, <2>8 DEF Good
  <2>10. \A n \in Machines :
           \/ run'[n] = run[n] /\ stateDb'[n] = stateDb[n] /\ lastSynced'[n] = lastSynced[n]
           \/ Good(n)'
    BY <1>1, <2>8, <2>9
  <2>11. Fresh(states', minted')
    BY <1>1 DEF Inv
  <2>. QED BY <1>1, <2>1, <2>10, <2>11, InvStep
<1>4. CASE /\ current # run[m].base /\ UNCHANGED current
           /\ run' = [run EXCEPT ![m].pc = "readback", ![m].conflict = TRUE]
  <2>. DEFINE r == [run[m] EXCEPT !.pc = "readback", !.conflict = TRUE]
  <2>1. /\ r.pc = "readback" /\ r.base = run[m].base
        /\ r.stamp = run[m].stamp /\ r.cand = run[m].cand
    BY RunFacts DEF Run
  <2>2. run' = [run EXCEPT ![m] = r]
    BY <1>4
  <2>. HIDE DEF r
  <2>3. RunOK(states, current, stateDb[m], r)
    BY <1>1, <1>2, <1>4, <2>1, CommittingOK DEF Committing, Landed
  <2>. QED BY <1>1, <1>4, <2>2, <2>3, QuietStep
<1>5. CASE UNCHANGED current /\ Retry(m)
  <2>. DEFINE r == [Idle EXCEPT !.op = run[m].op, !.pc = "fetch",
                                !.attempt = run[m].attempt + 1]
  <2>1. CASE run' = [run EXCEPT ![m] = r]
    <3>1. r.pc = "fetch"
      BY DEF Idle
    <3>. HIDE DEF r
    <3>2. RunOK(states, current, stateDb[m], r)
      BY <3>1, IdleOK
    <3>. QED BY <1>1, <1>5, <2>1, <3>2, QuietStep
  <2>2. CASE End(m)
    BY <1>1, <1>5, <2>2, EndInv
  <2>. QED BY <1>5, <2>1, <2>2 DEF Retry
<1>. QED BY <1>3, <1>4, <1>5 DEF CasAnswered

LEMMA CasUnansweredInv ==
  ASSUME TypeOK, TypeOK', Inv, NEW m \in Machines, CasUnanswered(m)
  PROVE  Inv'
<1>. DEFINE q == [stamp |-> run[m].stamp, ifMatch |-> run[m].base]
<1>1. /\ UNCHANGED <<current, states, minted, stateDb, lastSynced, acked>>
      /\ run[m].pc = "cas" /\ wire' = wire \cup {q}
  BY DEF CasUnanswered, diskVars
<1>2. /\ OnTrunk(states, current, run[m].base)
      /\ BuiltOn(states, run[m].stamp, run[m].base)
      /\ RunOK(states, current, stateDb[m], run[m])
      /\ DiskOK(states, current, stateDb[m], lastSynced[m])
      /\ states \in Snapshots /\ current \in Stamps
  BY <1>1, RunFacts DEF RunOK, Committing
<1>3. \A p \in wire' : p \in wire \/ WireOK(states', current', p)
  BY <1>1, <1>2 DEF WireOK
<1>4. Advance(states, current, states', current') /\ Fresh(states', minted')
  BY <1>1 DEF Advance, Inv
<1>5. ASSUME NEW r, run' = [run EXCEPT ![m] = r], RunOK(states, current, stateDb[m], r)
      PROVE  Inv'
  <2>1. run'[m] = r /\ \A n \in Machines \ {m} : run'[n] = run[n]
    BY <1>5 DEF TypeOK
  <2>2. Good(m)'
    BY <1>1, <1>2, <1>5, <2>1 DEF Good
  <2>3. \A n \in Machines :
          \/ run'[n] = run[n] /\ stateDb'[n] = stateDb[n] /\ lastSynced'[n] = lastSynced[n]
          \/ Good(n)'
    BY <1>1, <2>1, <2>2
  <2>. QED BY <1>1, <1>3, <1>4, <2>3, InvStep
<1>6. CASE UNCHANGED run
  BY <1>1, <1>3, <1>4, <1>6, InvStep
<1>7. CASE run' = [run EXCEPT ![m].pc = "readback", ![m].conflict = FALSE]
  <2>. DEFINE r == [run[m] EXCEPT !.pc = "readback", !.conflict = FALSE]
  <2>1. /\ r.pc = "readback" /\ r.base = run[m].base /\ r.conflict = FALSE
        /\ r.stamp = run[m].stamp /\ r.cand = run[m].cand
    BY RunFacts DEF Run
  <2>2. run' = [run EXCEPT ![m] = r]
    BY <1>7
  <2>. HIDE DEF r
  <2>3. RunOK(states, current, stateDb[m], r)
    BY <1>1, <1>2, <2>1, CommittingOK DEF Committing, Landed
  <2>. QED BY <1>5, <2>2, <2>3
<1>8. CASE End(m)
  <2>1. RunOK(states, current, stateDb[m], Idle)
    BY IdleOK DEF Idle
  <2>. QED BY <1>5, <1>8, <2>1 DEF End
<1>. QED BY <1>6, <1>7, <1>8 DEF CasUnanswered

(* The steps between the CAS and the promotion that leave S3's versions and*)
(* the disk alone.                                                         *)
LEMMA ReadBackInv ==
  ASSUME TypeOK, Inv, NEW m \in Machines, ReadBack(m) \/ ReadBackUnanswered(m)
  PROVE  Inv'
<1>1. /\ UNCHANGED <<current, states, minted, wire, acked, stateDb, lastSynced>>
      /\ run[m].pc = "readback"
  BY DEF ReadBack, ReadBackUnanswered, At, s3Vars, diskVars, ghostVars
<1>2. /\ RunOK(states, current, stateDb[m], run[m])
      /\ run[m].conflict => current # run[m].base
  BY <1>1, RunFacts DEF RunOK
<1>3. ASSUME NEW pc \in {"cas", "promote", "diverged"}, Goto(m, pc),
             pc = "promote" => current = run[m].stamp,
             pc = "diverged" => current # run[m].stamp /\ run[m].conflict
      PROVE  Inv'
  <2>. DEFINE r == [run[m] EXCEPT !.pc = pc]
  <2>1. r.pc = pc /\ r.base = run[m].base /\ r.stamp = run[m].stamp /\ r.cand = run[m].cand
    BY RunFacts DEF Run
  <2>2. run' = [run EXCEPT ![m] = r]
    BY <1>3 DEF Goto
  <2>3. pc = "promote" => OnTrunk(states, current, run[m].stamp)
    BY <1>3, RunFacts, TrunkTip
  <2>. HIDE DEF r
  <2>4. /\ run[m].pc \in Committing /\ r.pc \in Committing
        /\ r.pc \in Landed => r.pc = "promote"
    BY <1>1, <1>3, <2>1 DEF Committing, Landed
  <2>5. RunOK(states, current, stateDb[m], r)
    BY <1>2, <1>3, <2>1, <2>3, <2>4, CommittingOK
  <2>. QED BY <1>1, <2>2, <2>5, QuietStep
<1>4. CASE ReadBack(m)
  <2>1. CASE current = run[m].stamp
    BY <1>3, <1>4, <2>1 DEF ReadBack
  <2>2. CASE current # run[m].stamp /\ run[m].conflict
    BY <1>3, <1>4, <2>2 DEF ReadBack
  <2>3. CASE current # run[m].stamp /\ ~run[m].conflict
    BY <1>3, <1>4, <2>3 DEF ReadBack
  <2>. QED BY <2>1, <2>2, <2>3
<1>5. CASE ReadBackUnanswered(m)
  BY <1>3, <1>5 DEF ReadBackUnanswered
<1>. QED BY <1>4, <1>5

LEMMA SweepInv ==
  ASSUME TypeOK, Inv, NEW m \in Machines,
         SweepDone(m) \/ \E h \in Hashes : DeleteObject(m, h) \/ DeleteFails(m, h)
  PROVE  Inv'
<1>1. /\ UNCHANGED <<current, states, minted, wire, acked, stateDb, lastSynced>>
      /\ run[m].pc = "sweep"
  BY DEF SweepDone, DeleteObject, DeleteFails, s3Vars, diskVars, ghostVars
<1>2. /\ RunOK(states, current, stateDb[m], run[m])
      /\ OnTrunk(states, current, run[m].stamp)
  BY <1>1, RunFacts DEF RunOK, Landed
<1>3. ASSUME NEW r, run' = [run EXCEPT ![m] = r], r.pc \in {"sweep", "promote"},
             r.base = run[m].base, r.stamp = run[m].stamp, r.cand = run[m].cand
      PROVE  Inv'
  <2>1. RunOK(states, current, stateDb[m], r)
    BY <1>1, <1>2, <1>3, CommittingOK DEF Committing
  <2>. QED BY <1>1, <1>3, <2>1, QuietStep
<1>4. CASE SweepDone(m)
  <2>1. CASE Goto(m, "promote")
    <3>. DEFINE r == [run[m] EXCEPT !.pc = "promote"]
    <3>1. run' = [run EXCEPT ![m] = r]
      BY <2>1 DEF Goto
    <3>2. r.pc = "promote" /\ r.base = run[m].base /\ r.stamp = run[m].stamp
          /\ r.cand = run[m].cand
      BY RunFacts DEF Run
    <3>. HIDE DEF r
    <3>. QED BY <1>3, <3>1, <3>2
  <2>2. CASE End(m)
    BY <1>1, <2>2, EndInv
  <2>. QED BY <1>4, <2>1, <2>2 DEF SweepDone
<1>5. ASSUME NEW h \in Hashes, DeleteObject(m, h) PROVE Inv'
  <2>. DEFINE r == [run[m] EXCEPT !.sweep = @ \ {h}]
  <2>1. run' = [run EXCEPT ![m] = r]
    BY <1>5 DEF DeleteObject
  <2>2. r.pc = run[m].pc /\ r.base = run[m].base /\ r.stamp = run[m].stamp
        /\ r.cand = run[m].cand
    BY RunFacts DEF Run
  <2>. HIDE DEF r
  <2>. QED BY <1>1, <1>3, <2>1, <2>2
<1>6. ASSUME NEW h \in Hashes, DeleteFails(m, h) PROVE Inv'
  <2>. DEFINE r == [run[m] EXCEPT !.sweep = @ \ {h}, !.failed = TRUE]
  <2>1. run' = [run EXCEPT ![m] = r]
    BY <1>6 DEF DeleteFails
  <2>2. r.pc = run[m].pc /\ r.base = run[m].base /\ r.stamp = run[m].stamp
        /\ r.cand = run[m].cand
    BY RunFacts DEF Run
  <2>. HIDE DEF r
  <2>. QED BY <1>1, <1>3, <2>1, <2>2
<1>. QED BY <1>4, <1>5, <1>6

LEMMA PromoteInv ==
  ASSUME TypeOK, Inv, NEW m \in Machines, Promote(m)
  PROVE  Inv' /\ IsPrefixOf(stateDb[m], stateDb'[m])
<1>. DEFINE r == [run[m] EXCEPT !.pc = "stamp"]
            v == run[m].stamp
<1>1. run[m].pc = "promote"
  BY DEF Promote
<1>2. /\ v \in Stamps /\ OnTrunk(states, current, v) /\ states[v] = run[m].cand
      /\ run[m].base \in Stamps /\ OnTrunk(states, current, run[m].base)
      /\ BuiltOn(states, v, run[m].base)
      /\ IsPrefixOf(stateDb[m], states[run[m].base])
  BY <1>1, RunFacts DEF RunOK, Committing, Landed
<1>3. IsPrefixOf(stateDb[m], states[v])
  <2>1. states[v] \in Snapshot /\ states[run[m].base] \in Snapshot /\ stateDb[m] \in Snapshot
    BY <1>2 DEF TypeOK
  <2>2. IsPrefixOf(states[run[m].base], states[v])
    <3>. HIDE DEF v
    <3>. QED BY <1>2, <2>1, AppendPrefix DEF BuiltOn
  <2>. QED BY <1>2, <2>1, <2>2, PrefixTransitive
<1>4. DiskOK(states, current, states[v], lastSynced[m])
  BY <1>2, <1>3, NewDiskOK
<1>5. r.pc = "stamp" /\ r.base = run[m].base /\ r.stamp = v /\ r.cand = run[m].cand
  BY RunFacts DEF Run
<1>6. run' = [run EXCEPT ![m] = r] /\ stateDb' = [stateDb EXCEPT ![m] = states[v]]
  BY <1>2 DEF Promote, Goto
<1>7. lastSynced' = [lastSynced EXCEPT ![m] = lastSynced[m]]
  BY DEF Promote, TypeOK
<1>8. stateDb'[m] = states[v]
  BY <1>6 DEF TypeOK
<1>. HIDE DEF r, v
<1>9. RunOK(states, current, states[v], r)
  BY <1>2, <1>5 DEF RunOK, Reading, Catching, Committing, Promoted, Landed
<1>10. Inv'
  BY <1>4, <1>6, <1>7, <1>9, DiskStep DEF Promote, s3Vars, ghostVars
<1>. QED BY <1>3, <1>8, <1>10

(* Promoted, a version may become the baseline and be reported.            *)
LEMMA PromotedFacts ==
  ASSUME TypeOK, Inv, NEW m \in Machines, run[m].pc \in Promoted
  PROVE  /\ OnTrunk(states, current, run[m].stamp)
         /\ DiskOK(states, current, stateDb[m], run[m].stamp)
<1>1. /\ run[m].stamp \in Stamps /\ OnTrunk(states, current, run[m].stamp)
      /\ stateDb[m] = states[run[m].stamp]
  BY RunFacts DEF RunOK, Promoted, Landed
<1>2. run[m].stamp \in VersionsOf(states[run[m].stamp])
  <2>1. /\ Len(states[run[m].stamp].versions) \in 1..Len(states[current].versions)
        /\ Tip(states[run[m].stamp]) = run[m].stamp
    BY <1>1, RunFacts, TrunkVersion
  <2>. QED BY <2>1 DEF Tip, VersionsOf
<1>. QED BY <1>1, <1>2 DEF DiskOK

LEMMA WriteStampInv ==
  ASSUME TypeOK, Inv, NEW m \in Machines, WriteStamp(m)
  PROVE  Inv'
<1>1. /\ UNCHANGED <<current, states, minted, wire>>
      /\ run[m].pc = "stamp"
      /\ lastSynced' = [lastSynced EXCEPT ![m] = run[m].stamp]
      /\ stateDb' = [stateDb EXCEPT ![m] = stateDb[m]]
      /\ \A v \in acked' : v \in acked \/ v = run[m].stamp
  BY DEF WriteStamp, s3Vars, TypeOK
<1>2. /\ OnTrunk(states, current, run[m].stamp)
      /\ DiskOK(states, current, stateDb[m], run[m].stamp)
  BY <1>1, PromotedFacts DEF Promoted
<1>3. ASSUME NEW r, run' = [run EXCEPT ![m] = r], RunOK(states, current, stateDb[m], r)
      PROVE  Inv'
  BY <1>1, <1>2, <1>3, DiskStep
<1>4. CASE Goto(m, "clear")
  <2>. DEFINE r == [run[m] EXCEPT !.pc = "clear"]
  <2>1. r.pc = "clear" /\ r.base = run[m].base /\ r.stamp = run[m].stamp
        /\ r.cand = run[m].cand
    BY RunFacts DEF Run
  <2>2. run' = [run EXCEPT ![m] = r]
    BY <1>4 DEF Goto
  <2>3. RunOK(states, current, stateDb[m], run[m])
    BY RunFacts
  <2>. HIDE DEF r
  <2>4. RunOK(states, current, stateDb[m], r)
    BY <1>1, <2>1, <2>3 DEF RunOK, Reading, Catching, Committing, Promoted, Landed
  <2>. QED BY <1>3, <2>2, <2>4
<1>5. CASE End(m)
  <2>1. RunOK(states, current, stateDb[m], Idle)
    BY IdleOK DEF Idle
  <2>. QED BY <1>3, <1>5, <2>1 DEF End
<1>. QED BY <1>4, <1>5 DEF WriteStamp

LEMMA ClearMarkerInv ==
  ASSUME TypeOK, Inv, NEW m \in Machines, ClearMarker(m)
  PROVE  Inv'
<1>1. /\ UNCHANGED <<current, states, minted, wire>>
      /\ run[m].pc = "clear"
      /\ run' = [run EXCEPT ![m] = Idle]
      /\ lastSynced' = [lastSynced EXCEPT ![m] = lastSynced[m]]
      /\ stateDb' = [stateDb EXCEPT ![m] = stateDb[m]]
      /\ \A v \in acked' : v \in acked \/ v = run[m].stamp
  BY DEF ClearMarker, At, End, s3Vars, TypeOK
<1>2. OnTrunk(states, current, run[m].stamp)
  BY <1>1, PromotedFacts DEF Promoted
<1>3. RunOK(states, current, stateDb[m], Idle)
  BY IdleOK DEF Idle
<1>. QED BY <1>1, <1>2, <1>3, RunFacts, DiskStep

LEMMA WireLandsInv ==
  ASSUME TypeOK, TypeOK', Inv, WireLands
  PROVE  Inv'
<1>1. PICK q \in wire :
        /\ wire' = wire \ {q}
        /\ current' = IF current = q.ifMatch THEN q.stamp ELSE current
        /\ UNCHANGED <<states, stored, minted, diskVars, run, ghostVars>>
  BY DEF WireLands
<1>2. BuiltOn(states, q.stamp, q.ifMatch) /\ q.stamp \in Stamps
  BY DEF Inv, WireOK, TypeOK, Request
<1>3. Advance(states, current, states', current')
  BY <1>1, <1>2 DEF Advance
<1>4. Fresh(states', minted')
  BY <1>1 DEF Inv
<1>. QED BY <1>1, <1>3, <1>4, InvStep DEF diskVars, ghostVars

(***************************************************************************)
(* The theorems.                                                           *)
(***************************************************************************)

LEMMA InitInv == Init => Inv
<1>. SUFFICES ASSUME Init PROVE Inv
  OBVIOUS
<1>1. PICK objs \in SUBSET Hashes, refs \in SUBSET Hashes :
        /\ states = [v \in Stamps |-> IF v = InitStamp THEN FirstSnapshot(refs, objs)
                                      ELSE NoSnapshot]
        /\ stateDb = [m \in Machines |-> FirstSnapshot(refs, objs)]
  BY DEF Init
<1>. DEFINE first == FirstSnapshot(refs, objs)
<1>2. /\ first.versions = <<InitStamp>> /\ NoSnapshot.versions = <<>>
  BY DEF FirstSnapshot, NoSnapshot
<1>. HIDE DEF first
<1>3. /\ states[InitStamp] = first
      /\ \A v \in Stamps : v # InitStamp => states[v] = NoSnapshot
      /\ \A m \in Machines : stateDb[m] = first
      /\ current = InitStamp /\ minted = InitStamp
  BY <1>1, BoundsNat DEF Init, first
<1>4. Len(first.versions) = 1 /\ first.versions[1] = InitStamp
  BY <1>2
<1>5. IsTrunk(states, current)
  BY <1>3, <1>4 DEF IsTrunk, Tip, IsPrefixOf
<1>6. Fresh(states, minted)
  <2>1. \A v \in Stamps : v > InitStamp => v # InitStamp
    BY BoundsNat DEF Stamps, InitStamp
  <2>2. Len(NoSnapshot.versions) = 0
    BY <1>2
  <2>. QED BY <1>3, <2>1, <2>2 DEF Fresh
<1>7. \A m \in Machines : DiskOK(states, current, stateDb[m], lastSynced[m])
  BY <1>3, <1>4, BoundsNat DEF DiskOK, OnTrunk, VersionsOf, Init
<1>8. \A m \in Machines : RunOK(states, current, stateDb[m], run[m])
  BY IdleOK DEF Init, Idle
<1>. QED BY <1>5, <1>6, <1>7, <1>8 DEF Inv, Init

LEMMA NextInv ==
  ASSUME TypeOK, TypeOK', Inv, [Next]_vars
  PROVE  Inv'
<1>1. CASE WireLands
  BY <1>1, WireLandsInv
<1>2. ASSUME NEW m \in Machines, Start(m) \/ Step(m) \/ Mishap(m) PROVE Inv'
  BY <1>2, OpeningInv, SaveFetchedInv, PlanInv, ApplyRowInv, PullInv, AdoptRemoteInv,
     AdoptDbInv, AdoptStampInv, StageOrphansInv, PutSnapshotInv, AbandonInv,
     CasAnsweredInv, CasUnansweredInv, ReadBackInv, SweepInv, PromoteInv,
     WriteStampInv, ClearMarkerInv
  DEF Step, Mishap
<1>3. CASE UNCHANGED vars
  BY <1>3 DEF vars, Inv
<1>. QED BY <1>1, <1>2, <1>3 DEF Next

(* The strengthened invariant holds of every reachable state.              *)
THEOREM Invariant == Spec => []Inv
<1>1. Init => Inv
  BY InitInv
<1>2. TypeOK /\ TypeOK' /\ Inv /\ [Next]_vars => Inv'
  BY NextInv
<1>. QED BY <1>1, <1>2, TypeCorrect, PTL DEF Spec

(***************************************************************************)
(* The four kinds of step, as the linear vault sees them.                  *)
(***************************************************************************)

Lands ==
  /\ current' \in Stamps
  /\ BuiltOn(states, current', current)
  /\ UNCHANGED <<states, acked, stateDb>>

Moves(m) ==
  /\ \E db \in Snapshot :
       stateDb' = [stateDb EXCEPT ![m] = db] /\ IsPrefixOf(stateDb[m], db)
  /\ UNCHANGED <<current, states, acked>>

Reports ==
  /\ \E v : OnTrunk(states, current, v) /\ acked' = acked \cup {v}
  /\ UNCHANGED <<current, states, stateDb>>

Quiet == states'[current] = states[current] /\ UNCHANGED <<current, acked, stateDb>>

LEMMA MoveStep ==
  ASSUME TypeOK, TypeOK', Inv, NEW m \in Machines, SaveFetched(m) \/ AdoptDb(m) \/ Promote(m)
  PROVE  Moves(m)
<1>1. IsPrefixOf(stateDb[m], stateDb'[m])
  BY SaveFetchedInv, AdoptDbInv, PromoteInv
<1>2. stateDb'[m] \in Snapshot
  BY DEF TypeOK
<1>3. /\ stateDb' = [stateDb EXCEPT ![m] = stateDb'[m]]
      /\ UNCHANGED <<current, states, acked>>
  <2>1. stateDb \in [Machines -> Snapshot]
    BY DEF TypeOK
  <2>. QED BY <2>1 DEF SaveFetched, AdoptDb, Promote, s3Vars, ghostVars
<1>. QED BY <1>1, <1>2, <1>3 DEF Moves

LEMMA CasStep ==
  ASSUME TypeOK, Inv, NEW m \in Machines, CasAnswered(m)
  PROVE  Lands \/ Quiet
<1>1. /\ run[m].stamp \in Stamps /\ run[m].pc = "cas"
      /\ BuiltOn(states, run[m].stamp, run[m].base)
  BY RunFacts DEF CasAnswered, RunOK, Committing
<1>2. CASE current = run[m].base /\ current' = run[m].stamp
  BY <1>1, <1>2 DEF CasAnswered, Lands, diskVars
<1>3. CASE UNCHANGED current
  BY <1>3 DEF CasAnswered, Quiet, diskVars
<1>. QED BY <1>2, <1>3 DEF CasAnswered

LEMMA WireStep ==
  ASSUME TypeOK, Inv, WireLands
  PROVE  Lands \/ Quiet
<1>1. PICK q \in wire :
        /\ current' = IF current = q.ifMatch THEN q.stamp ELSE current
        /\ UNCHANGED <<states, stored, minted, diskVars, run, ghostVars>>
  BY DEF WireLands
<1>2. BuiltOn(states, q.stamp, q.ifMatch) /\ q.stamp \in Stamps
  BY DEF Inv, WireOK, TypeOK, Request
<1>. QED BY <1>1, <1>2 DEF Lands, Quiet, diskVars, ghostVars

LEMMA PutStep ==
  ASSUME TypeOK, Inv, NEW m \in Machines, PutSnapshot(m)
  PROVE  Quiet
<1>1. /\ \A w \in Stamps : w # minted + 1 => states'[w] = states[w]
      /\ UNCHANGED <<current, acked, stateDb>>
  BY DEF PutSnapshot, TypeOK, diskVars, ghostVars
<1>2. current # minted + 1
  <2>1. Len(states[current].versions) >= 1 /\ current \in Stamps /\ minted \in Nat
    BY DEF Inv, IsTrunk, TypeOK, Stamps
  <2>2. current > minted => Len(states[current].versions) = 0
    BY <2>1 DEF Inv, Fresh
  <2>. QED BY <2>1, <2>2 DEF Stamps
<1>3. current \in Stamps
  BY DEF TypeOK
<1>. QED BY <1>1, <1>2, <1>3 DEF Quiet

LEMMA ReportStep ==
  ASSUME TypeOK, Inv, NEW m \in Machines, WriteStamp(m) \/ ClearMarker(m)
  PROVE  Reports \/ Quiet
<1>1. /\ run[m].pc \in Promoted
      /\ UNCHANGED <<current, states, stateDb>>
      /\ acked' = acked \/ acked' = acked \cup {run[m].stamp}
  BY DEF WriteStamp, ClearMarker, At, Promoted, s3Vars
<1>2. OnTrunk(states, current, run[m].stamp)
  BY <1>1, PromotedFacts
<1>. QED BY <1>1, <1>2 DEF Reports, Quiet

LEMMA StepKinds ==
  ASSUME TypeOK, TypeOK', Inv, [Next]_vars
  PROVE  Lands \/ Reports \/ Quiet \/ \E m \in Machines : Moves(m)
<1>1. CASE WireLands
  BY <1>1, WireStep
<1>2. CASE UNCHANGED vars
  BY <1>2 DEF vars, Quiet
<1>3. ASSUME NEW m \in Machines, Start(m) \/ Mishap(m) PROVE Quiet
  BY <1>3 DEF Quiet, Start, Mishap, CasUnanswered, ReadBackUnanswered, Crash, DeleteFails,
              s3Vars, diskVars, ghostVars
<1>4. ASSUME NEW m \in Machines, Step(m) PROVE Lands \/ Reports \/ Quiet \/ Moves(m)
  <2>1. CASE SaveFetched(m) \/ AdoptDb(m) \/ Promote(m)
    BY <2>1, MoveStep
  <2>2. CASE CasAnswered(m)
    BY <2>2, CasStep
  <2>3. CASE PutSnapshot(m)
    BY <2>3, PutStep
  <2>4. CASE WriteStamp(m) \/ ClearMarker(m)
    BY <2>4, ReportStep
  <2>5. CASE \/ Refetch(m) \/ Plan(m) \/ Pull(m) \/ AdoptRemote(m) \/ AdoptStamp(m)
             \/ StageOrphans(m) \/ OutOfStamps(m)
    BY <2>5 DEF Quiet, Refetch, Plan, Pull, AdoptRemote, AdoptStamp, StageOrphans,
                OutOfStamps, s3Vars, diskVars, ghostVars
  <2>6. CASE ReadBack(m) \/ ReportDiverged(m) \/ SweepDone(m)
    BY <2>6 DEF Quiet, ReadBack, ReportDiverged, SweepDone, s3Vars, diskVars, ghostVars
  <2>7. ASSUME NEW h \in Hashes,
               Dedup(m, h) \/ Adopt(m, h) \/ Upload(m, h) \/ DeleteObject(m, h)
        PROVE Quiet
    BY <2>7 DEF Quiet, Dedup, Adopt, Upload, DeleteObject, s3Vars, diskVars, ghostVars
  <2>. QED BY <1>4, <2>1, <2>2, <2>3, <2>4, <2>5, <2>6, <2>7 DEF Step
<1>. QED BY <1>1, <1>2, <1>3, <1>4 DEF Next

(***************************************************************************)
(* Invariants.                                                             *)
(***************************************************************************)

(* A reported commit is never lost: its stamp is on the trunk for ever     *)
(* (commit.ts:484-500, gc.ts, mutate-state-db.ts).                         *)
THEOREM AckedSurvivesHolds == Spec => []AckedSurvives
<1>1. Inv => AckedSurvives
  BY DEF Inv, OnTrunk, AckedSurvives
<1>. QED BY <1>1, Invariant, PTL

(* The shortcut that skips downloading the snapshot (commit.ts:309) starts *)
(* from exactly the version /current names.                                *)
THEOREM BaselineMatchesHolds == Spec => []BaselineMatches
<1>1. TypeOK /\ Inv => BaselineMatches
  BY TypeFacts, DiskAtTip DEF Inv, BaselineMatches
<1>. QED BY <1>1, Invariant, TypeCorrect, PTL

(* Every state.db is a past version of the vault and contains the row of   *)
(* the last_synced_version beside it, whatever a crash left half done.     *)
THEOREM LocalOnTrunkHolds == Spec => []LocalOnTrunk
<1>1. TypeOK /\ Inv => LocalOnTrunk
  BY TypeFacts, DiskOnTrunk DEF Inv, LocalOnTrunk
<1>. QED BY <1>1, Invariant, TypeCorrect, PTL

(* A sync that reports a divergence lost its CAS to somebody else, and     *)
(* /current is not its own version (commit-pointer.ts).                    *)
THEOREM DivergedMeansMovedHolds == Spec => []DivergedMeansMoved
<1>1. Inv => DivergedMeansMoved
  BY DEF Inv, RunOK, DivergedMeansMoved
<1>. QED BY <1>1, Invariant, PTL

(***************************************************************************)
(* Action properties, and the linear vault.                                *)
(***************************************************************************)

(* No commit overwrites another: /current moves only to a version whose    *)
(* table is the replaced version's with one row appended.                  *)
THEOREM NoLostUpdateHolds == Spec => NoLostUpdate
<1>1. TypeOK /\ TypeOK' /\ Inv /\ [Next]_vars =>
        [current' # current =>
           states[current'].versions = Append(states[current].versions, current')]_vars
  BY StepKinds DEF Lands, Moves, Reports, Quiet, BuiltOn
<1>. QED BY <1>1, Invariant, TypeCorrect, PTL DEF Spec, NoLostUpdate

(* No machine's state.db ever goes back to an older version.               *)
THEOREM StateDbAdvancesHolds == Spec => StateDbAdvances
<1>1. ASSUME TypeOK, TypeOK', Inv, [Next]_vars, NEW n \in Machines
      PROVE  IsPrefixOf(stateDb[n], stateDb'[n])
  <2>1. stateDb \in [Machines -> Snapshot]
    BY <1>1 DEF TypeOK
  <2>2. CASE UNCHANGED stateDb
    BY <2>1, <2>2, PrefixSelf
  <2>3. ASSUME NEW m \in Machines, Moves(m) PROVE IsPrefixOf(stateDb[n], stateDb'[n])
    BY <2>1, <2>3, PrefixSelf DEF Moves
  <2>. QED BY <1>1, <2>2, <2>3, StepKinds DEF Lands, Reports, Quiet
<1>2. TypeOK /\ TypeOK' /\ Inv /\ [Next]_vars =>
        [\A m \in Machines : IsPrefixOf(stateDb[m], stateDb'[m])]_vars
  BY <1>1
<1>. QED BY <1>2, Invariant, TypeCorrect, PTL DEF Spec, StateDbAdvances

(* The abstract vault's view of the four kinds of step.                    *)
LEMMA LandsCommits ==
  ASSUME TypeOK, Inv, Lands
  PROVE  Linear!Commit
<1>. DEFINE order == states[current].versions
<1>1. states'[current'].versions = Append(order, current') /\ current' \in Stamps
  BY DEF Lands, BuiltOn
<1>2. ~OnTrunk(states, current, current')
  <2>1. states \in Snapshots /\ current \in Stamps /\ IsTrunk(states, current)
    BY TypeFacts DEF Inv
  <2>2. \A d \in Stamps : BuiltOn(states, d, current) => ~OnTrunk(states, current, d)
    BY <2>1, LandExtends
  <2>. QED BY <2>2 DEF Lands
<1>3. \A i \in 1..Len(order) : order[i] # current'
  BY <1>2 DEF OnTrunk, VersionsOf
<1>. QED BY <1>1, <1>3 DEF Linear!Commit, Lands

LEMMA MovesCatchesUp ==
  ASSUME TypeOK, TypeOK', Inv', NEW m \in Machines, Moves(m)
  PROVE  Linear!CatchUp(m)
<1>. DEFINE held == [n \in Machines |-> Len(stateDb[n].versions)]
            len == Len(stateDb'[m].versions)
<1>1. PICK db \in Snapshot :
        stateDb' = [stateDb EXCEPT ![m] = db] /\ IsPrefixOf(stateDb[m], db)
  BY DEF Moves
<1>2. stateDb \in [Machines -> Snapshot] /\ stateDb'[m] = db
  BY <1>1 DEF TypeOK
<1>3. IsPrefixOf(db, states[current])
  <2>1. /\ DiskOK(states', current', stateDb'[m], lastSynced'[m])
        /\ IsTrunk(states', current')
        /\ states' \in Snapshots /\ current' \in Stamps
    BY DEF Inv, TypeOK, Snapshots
  <2>2. IsPrefixOf(stateDb'[m], states'[current'])
    BY <2>1, DiskOnTrunk
  <2>. QED BY <1>2, <2>2 DEF Moves
<1>4. len \in held[m]..Len(states[current].versions)
  <2>1. /\ Len(stateDb[m].versions) \in Nat /\ Len(db.versions) \in Nat
        /\ Len(states[current].versions) \in Nat
    BY <1>2, SnapshotSeq DEF TypeOK
  <2>. QED BY <1>1, <1>2, <1>3, <2>1 DEF IsPrefixOf
<1>5. [n \in Machines |-> Len(stateDb'[n].versions)] = [held EXCEPT ![m] = len]
  BY <1>1, <1>2
<1>6. UNCHANGED <<states[current].versions, acked>>
  BY DEF Moves
<1>. QED BY <1>4, <1>5, <1>6 DEF Linear!CatchUp

LEMMA ReportsAcknowledges ==
  ASSUME TypeOK, Inv, Reports
  PROVE  Linear!Acknowledge
<1>1. PICK i \in 1..Len(states[current].versions) :
        acked' = acked \cup {states[current].versions[i]}
  BY DEF Reports, OnTrunk, VersionsOf
<1>. QED BY <1>1 DEF Linear!Acknowledge, Reports

(* The commit protocol implements the linear vault: whatever the machines  *)
(* and S3 do, the vault is one growing sequence of versions, reported      *)
(* commits are members of it and every machine holds a growing prefix.     *)
THEOREM ImplementsLinearVault == Spec => LinearVaultSpec
<1>1. Init => Linear!Init
  <2>. SUFFICES ASSUME Init PROVE Linear!Init
    OBVIOUS
  <2>1. PICK objs \in SUBSET Hashes, refs \in SUBSET Hashes :
          /\ states = [v \in Stamps |-> IF v = InitStamp THEN FirstSnapshot(refs, objs)
                                        ELSE NoSnapshot]
          /\ stateDb = [m \in Machines |-> FirstSnapshot(refs, objs)]
    BY DEF Init
  <2>2. FirstSnapshot(refs, objs).versions = <<InitStamp>>
    BY DEF FirstSnapshot
  <2>3. Len(<<InitStamp>>) = 1
    OBVIOUS
  <2>4. states[current].versions = <<InitStamp>> /\ acked = {}
    BY <2>1, <2>2, BoundsNat DEF Init
  <2>5. [m \in Machines |-> Len(stateDb[m].versions)] = [m \in Machines |-> 1]
    BY <2>1, <2>2, <2>3
  <2>. QED BY <2>4, <2>5 DEF Linear!Init
<1>2. TypeOK /\ TypeOK' /\ Inv /\ Inv' /\ [Next]_vars => [Linear!Next]_(Linear!vars)
  <2>. SUFFICES ASSUME TypeOK, TypeOK', Inv, Inv', [Next]_vars
                PROVE  [Linear!Next]_(Linear!vars)
    OBVIOUS
  <2>1. CASE Lands
    BY <2>1, LandsCommits DEF Linear!Next
  <2>2. CASE Reports
    BY <2>2, ReportsAcknowledges DEF Linear!Next
  <2>3. CASE Quiet
    <3>1. [m \in Machines |-> Len(stateDb'[m].versions)] =
          [m \in Machines |-> Len(stateDb[m].versions)]
      BY <2>3 DEF Quiet
    <3>. QED BY <2>3, <3>1 DEF Quiet, Linear!vars
  <2>4. ASSUME NEW m \in Machines, Moves(m) PROVE Linear!Next
    BY <2>4, MovesCatchesUp DEF Linear!Next
  <2>. QED BY <2>1, <2>2, <2>3, <2>4, StepKinds
<1>. QED BY <1>1, <1>2, Invariant, TypeCorrect, PTL DEF Spec, LinearVaultSpec, Linear!Spec

(***************************************************************************)
(* Without gc, no version ever lists content that S3 does not hold, for    *)
(* any number of machines: uploads come before the snapshot that lists     *)
(* them and nothing is deleted.  (With gc and two machines it is not so:   *)
(* run vault_gc_race.)                                                     *)
(***************************************************************************)

(* A version whose content is all there.                                   *)
Stocked(db, content) == db.objs \subseteq content /\ db.refs \subseteq db.objs

(* Every version written or being written is stocked, and nobody sweeps.   *)
ContentInv ==
  /\ \A v \in Stamps : Stocked(states[v], stored)
  /\ \A m \in Machines :
       /\ Stocked(stateDb[m], stored)
       /\ Stocked(run[m].cand, stored)
       /\ run[m].op # "gc"
       /\ run[m].pc # "sweep"

LEMMA StockedGrows ==
  ASSUME NEW db, NEW s, NEW t, s \subseteq t, Stocked(db, s)
  PROVE  Stocked(db, t)
BY DEF Stocked

LEMMA IdleStocked == Stocked(Idle.cand, stored) /\ Idle.op # "gc" /\ Idle.pc # "sweep"
BY DEF Idle, NoSnapshot, Stocked

(* The content S3 holds may grow, one command may move.                    *)
LEMMA ContentStep ==
  ASSUME TypeOK, ContentInv, NEW m \in Machines, stored \subseteq stored',
         UNCHANGED <<states, stateDb>>,
         NEW r, run' = [run EXCEPT ![m] = r],
         Stocked(r.cand, stored'), r.op # "gc", r.pc # "sweep"
  PROVE  ContentInv'
<1>1. \A n \in Machines : run'[n] = IF n = m THEN r ELSE run[n]
  BY DEF TypeOK
<1>2. \A v \in Stamps : Stocked(states'[v], stored')
  BY StockedGrows DEF ContentInv
<1>3. ASSUME NEW n \in Machines
      PROVE  /\ Stocked(stateDb'[n], stored')
             /\ Stocked(run'[n].cand, stored')
             /\ run'[n].op # "gc"
             /\ run'[n].pc # "sweep"
  <2>1. Stocked(stateDb'[n], stored')
    BY StockedGrows DEF ContentInv
  <2>2. CASE n = m
    BY <1>1, <2>1, <2>2
  <2>3. CASE n # m
    <3>1. Stocked(run[n].cand, stored')
      BY StockedGrows DEF ContentInv
    <3>. QED BY <1>1, <2>1, <2>3, <3>1 DEF ContentInv
  <2>. QED BY <2>2, <2>3
<1>. QED BY <1>2, <1>3 DEF ContentInv

LEMMA EndContent ==
  ASSUME TypeOK, ContentInv, NEW m \in Machines, End(m),
         UNCHANGED <<states, stateDb, stored>>
  PROVE  ContentInv'
BY IdleStocked, ContentStep DEF End

LEMMA GotoContent ==
  ASSUME TypeOK, ContentInv, NEW m \in Machines, NEW pc, pc # "sweep", Goto(m, pc),
         UNCHANGED <<states, stateDb, stored>>
  PROVE  ContentInv'
<1>. DEFINE r == [run[m] EXCEPT !.pc = pc]
<1>1. r.cand = run[m].cand /\ r.op = run[m].op /\ r.pc = pc
  BY DEF TypeOK, Run
<1>2. run' = [run EXCEPT ![m] = r]
  BY DEF Goto
<1>. HIDE DEF r
<1>. QED BY <1>1, <1>2, ContentStep DEF ContentInv

LEMMA OpenedContent ==
  ASSUME TypeOK, ContentInv, NEW m \in Machines, NEW op, op # "gc", NEW verify, NEW n,
         run' = [run EXCEPT ![m] = Opened(m, op, verify, n)],
         UNCHANGED <<states, stateDb, stored>>
  PROVE  ContentInv'
<1>. DEFINE r == Opened(m, op, verify, n)
<1>1. /\ r.op = op /\ r.pc # "sweep"
      /\ r.cand = stateDb[m] \/ r.cand = states[current]
  BY DEF Opened, Idle
<1>. HIDE DEF r
<1>2. Stocked(r.cand, stored)
  BY <1>1 DEF ContentInv, TypeOK
<1>3. run' = [run EXCEPT ![m] = r]
  BY DEF r
<1>. QED BY <1>1, <1>2, <1>3, ContentStep

LEMMA ApplyRowContent ==
  ASSUME TypeOK, ContentInv, NEW m \in Machines, NEW h \in Hashes, ApplyRow(m, h),
         UNCHANGED <<states, stateDb>>,
         stored \subseteq stored', h \in stored', run[m].pc = "upload"
  PROVE  ContentInv'
<1>. DEFINE r == [run[m] EXCEPT !.todo = @ \ {h}, !.cand.refs = @ \cup {h},
                                !.cand.objs = @ \cup {h}, !.applied = TRUE]
<1>0. run[m] \in Run
  BY DEF TypeOK
<1>1. /\ r.cand.refs = run[m].cand.refs \cup {h}
      /\ r.cand.objs = run[m].cand.objs \cup {h}
      /\ r.op = run[m].op /\ r.pc = "upload"
  BY <1>0 DEF Run, Snapshot
<1>2. run' = [run EXCEPT ![m] = r]
  BY DEF ApplyRow
<1>. HIDE DEF r
<1>3. Stocked(run[m].cand, stored)
  BY DEF ContentInv
<1>4. Stocked(r.cand, stored')
  BY <1>1, <1>3 DEF Stocked
<1>. QED BY <1>1, <1>2, <1>4, ContentStep DEF ContentInv

LEMMA PlanContent ==
  ASSUME TypeOK, ContentInv, NEW m \in Machines, Plan(m)
  PROVE  ContentInv'
<1>1. PICK del \in SUBSET run[m].cand.refs, add \in SUBSET Hashes, other \in BOOLEAN :
        run' = [run EXCEPT ![m].cand.refs = @ \ del,
                           ![m].applied = other \/ del # {},
                           ![m].todo = add,
                           ![m].pc = "upload"]
  BY DEF Plan
<1>. DEFINE r == [run[m] EXCEPT !.cand.refs = @ \ del,
                                !.applied = other \/ del # {},
                                !.todo = add,
                                !.pc = "upload"]
<1>0. run[m] \in Run
  BY DEF TypeOK
<1>2. /\ r.cand.refs = run[m].cand.refs \ del /\ r.cand.objs = run[m].cand.objs
      /\ r.op = run[m].op /\ r.pc = "upload"
  BY <1>0 DEF Run, Snapshot
<1>3. run' = [run EXCEPT ![m] = r]
  BY <1>1
<1>. HIDE DEF r
<1>4. Stocked(r.cand, stored)
  BY <1>2 DEF Stocked, ContentInv
<1>5. UNCHANGED <<states, stateDb, stored>>
  BY DEF Plan, s3Vars
<1>. QED BY <1>2, <1>3, <1>4, <1>5, ContentStep DEF ContentInv

LEMMA PutSnapshotContent ==
  ASSUME TypeOK, ContentInv, NEW m \in Machines, PutSnapshot(m)
  PROVE  ContentInv'
<1>. DEFINE v == minted + 1
            db == [run[m].cand EXCEPT !.versions = Append(@, v)]
            r == [run[m] EXCEPT !.stamp = v, !.cand = db, !.pc = "cas"]
<1>1. /\ states' = [states EXCEPT ![v] = db] /\ run' = [run EXCEPT ![m] = r]
      /\ UNCHANGED <<stateDb, stored>>
  BY DEF PutSnapshot, diskVars
<1>2. db.refs = run[m].cand.refs /\ db.objs = run[m].cand.objs
  BY DEF TypeOK, Run, Snapshot
<1>3. r.cand = db /\ r.op = run[m].op /\ r.pc = "cas"
  BY DEF TypeOK, Run
<1>. HIDE DEF v, db, r
<1>4. Stocked(db, stored)
  BY <1>2 DEF Stocked, ContentInv
<1>5. \A w \in Stamps : Stocked(states'[w], stored)
  BY <1>1, <1>4 DEF ContentInv, TypeOK
<1>6. \A n \in Machines : run'[n] = IF n = m THEN r ELSE run[n]
  BY <1>1 DEF TypeOK
<1>. QED BY <1>1, <1>3, <1>4, <1>5, <1>6 DEF ContentInv

(* A version of the trunk, or the candidate, replaces state.db.            *)
LEMMA DbContent ==
  ASSUME TypeOK, ContentInv, NEW m \in Machines,
         SaveFetched(m) \/ AdoptDb(m) \/ Promote(m)
  PROVE  ContentInv'
<1>. DEFINE db == IF AdoptDb(m) THEN states[run[m].base] ELSE run[m].cand
<1>1. Stocked(run[m].cand, stored) /\ run[m].base \in Stamps
  BY DEF ContentInv, TypeOK, Run
<1>2. Stocked(states[run[m].base], stored)
  BY <1>1 DEF ContentInv
<1>3. \A n \in Machines : stateDb'[n] \in {stateDb[n], run[m].cand, states[run[m].base]}
                          /\ (n # m => stateDb'[n] = stateDb[n])
  BY DEF SaveFetched, AdoptDb, Promote, TypeOK
<1>4. \A n \in Machines : Stocked(stateDb'[n], stored)
  BY <1>1, <1>2, <1>3 DEF ContentInv
<1>5. UNCHANGED <<states, stored>>
  BY DEF SaveFetched, AdoptDb, Promote, s3Vars
<1>6. \A n \in Machines :
        Stocked(run'[n].cand, stored) /\ run'[n].op # "gc" /\ run'[n].pc # "sweep"
  <2>1. ASSUME NEW pc \in {"adoptStamp", "stamp"}, Goto(m, pc)
        PROVE  \A n \in Machines : /\ run'[n].cand = run[n].cand /\ run'[n].op = run[n].op
                                   /\ run'[n].pc \in {run[n].pc, pc}
    BY <2>1 DEF Goto, TypeOK, Run
  <2>2. CASE Goto(m, "adoptStamp") \/ Goto(m, "stamp")
    BY <2>1, <2>2 DEF ContentInv
  <2>3. CASE End(m)
    <3>1. \A n \in Machines : run'[n] = IF n = m THEN Idle ELSE run[n]
      BY <2>3 DEF End, TypeOK
    <3>. QED BY <3>1, IdleStocked DEF ContentInv
  <2>. QED BY <2>2, <2>3 DEF SaveFetched, AdoptDb, Promote
<1>. QED BY <1>4, <1>5, <1>6 DEF ContentInv

LEMMA CasContent ==
  ASSUME TypeOK, ContentInv, NEW m \in Machines, CasAnswered(m) \/ CasUnanswered(m)
  PROVE  ContentInv'
<1>1. UNCHANGED <<states, stateDb, stored>>
  BY DEF CasAnswered, CasUnanswered, diskVars
<1>2. run[m] \in Run /\ run[m].op # "gc" /\ Stocked(run[m].cand, stored)
  BY DEF ContentInv, TypeOK
<1>3. ASSUME NEW r, run' = [run EXCEPT ![m] = r],
             r.cand = run[m].cand, r.op = run[m].op, r.pc # "sweep"
      PROVE  ContentInv'
  BY <1>1, <1>2, <1>3, ContentStep
<1>4. CASE Goto(m, AfterCommit(m))
  <2>1. AfterCommit(m) = "promote"
    BY <1>2 DEF AfterCommit
  <2>. QED BY <1>1, <1>4, <2>1, GotoContent
<1>5. ASSUME NEW b \in BOOLEAN,
             run' = [run EXCEPT ![m].pc = "readback", ![m].conflict = b]
      PROVE  ContentInv'
  <2>. DEFINE r == [run[m] EXCEPT !.pc = "readback", !.conflict = b]
  <2>1. r.cand = run[m].cand /\ r.op = run[m].op /\ r.pc = "readback"
    BY <1>2 DEF Run
  <2>2. run' = [run EXCEPT ![m] = r]
    BY <1>5
  <2>. HIDE DEF r
  <2>. QED BY <1>3, <2>1, <2>2
<1>6. CASE Retry(m)
  <2>. DEFINE r == [Idle EXCEPT !.op = run[m].op, !.pc = "fetch",
                                !.attempt = run[m].attempt + 1]
  <2>1. CASE run' = [run EXCEPT ![m] = r]
    <3>1. r.cand = Idle.cand /\ r.op = run[m].op /\ r.pc = "fetch"
      BY DEF Idle
    <3>. HIDE DEF r
    <3>. QED BY <1>1, <1>2, <2>1, <3>1, IdleStocked, ContentStep
  <2>2. CASE End(m)
    BY <1>1, <2>2, EndContent
  <2>. QED BY <1>6, <2>1, <2>2 DEF Retry
<1>7. CASE End(m)
  BY <1>1, <1>7, EndContent
<1>8. CASE UNCHANGED run
  BY <1>1, <1>8 DEF ContentInv
<1>9. CASE CasAnswered(m)
  BY <1>4, <1>5, <1>6, <1>9 DEF CasAnswered
<1>10. CASE CasUnanswered(m)
  BY <1>5, <1>7, <1>8, <1>10 DEF CasUnanswered
<1>. QED BY <1>9, <1>10

(* No step leaves a version with content S3 does not hold.                 *)
LEMMA NextContent ==
  ASSUME \A m \in Machines : "gc" \notin Commands[m], TypeOK, ContentInv, [Next]_vars
  PROVE  ContentInv'
<1>1. CASE WireLands
  BY <1>1 DEF WireLands, ContentInv, diskVars
<1>2. CASE UNCHANGED vars
  BY <1>2 DEF vars, ContentInv
<1>3. ASSUME NEW m \in Machines, Start(m) PROVE ContentInv'
  <2>1. PICK op \in Commands[m], flag \in BOOLEAN :
          run' = [run EXCEPT ![m] = Opened(m, op, op = "sync" /\ (flag \/ marker[m]), 0)]
    BY <1>3 DEF Start
  <2>. DEFINE verify == op = "sync" /\ (flag \/ marker[m])
  <2>2. run' = [run EXCEPT ![m] = Opened(m, op, verify, 0)]
    BY <2>1
  <2>3. op # "gc" /\ UNCHANGED <<states, stateDb, stored>>
    BY <1>3 DEF Start, s3Vars, diskVars
  <2>. HIDE DEF verify
  <2>. QED BY <2>2, <2>3, OpenedContent
<1>4. ASSUME NEW m \in Machines, Step(m) PROVE ContentInv'
  <2>0. run[m].op # "gc" /\ run[m].pc # "sweep"
    BY DEF ContentInv
  <2>1. CASE Refetch(m)
    BY <2>0, <2>1, OpenedContent DEF Refetch, s3Vars, diskVars
  <2>2. CASE SaveFetched(m) \/ AdoptDb(m) \/ Promote(m)
    BY <2>2, DbContent
  <2>3. CASE Plan(m)
    BY <2>3, PlanContent
  <2>4. ASSUME NEW h \in Hashes, Dedup(m, h) \/ Adopt(m, h) \/ Upload(m, h)
        PROVE  ContentInv'
    <3>1. h \in run[m].cand.objs => h \in stored
      BY DEF ContentInv, Stocked
    <3>. QED BY <2>4, <3>1, ApplyRowContent DEF Dedup, Adopt, Upload, At, s3Vars, diskVars
  <2>5. CASE Pull(m)
    <3>. DEFINE r == [run[m] EXCEPT !.pc = IF run[m].applied THEN "put" ELSE "adopt",
                                    !.verify = FALSE]
    <3>1. r.cand = run[m].cand /\ r.op = run[m].op /\ r.pc \in {"put", "adopt"}
      BY DEF TypeOK, Run
    <3>2. run' = [run EXCEPT ![m] = r] /\ UNCHANGED <<states, stateDb, stored>>
      BY <2>5 DEF Pull, s3Vars, diskVars
    <3>. HIDE DEF r
    <3>. QED BY <3>1, <3>2, ContentStep DEF ContentInv
  <2>6. CASE AdoptRemote(m)
    BY <2>6, EndContent, GotoContent DEF AdoptRemote, s3Vars
  <2>7. CASE AdoptStamp(m) \/ OutOfStamps(m) \/ ReportDiverged(m) \/ ClearMarker(m)
    BY <2>7, EndContent DEF AdoptStamp, OutOfStamps, ReportDiverged, ClearMarker,
                            s3Vars, diskVars
  <2>8. CASE PutSnapshot(m)
    BY <2>8, PutSnapshotContent
  <2>9. CASE CasAnswered(m)
    BY <2>9, CasContent
  <2>10. CASE ReadBack(m)
    <3>1. UNCHANGED <<states, stateDb, stored>>
      BY <2>10 DEF ReadBack, s3Vars, diskVars
    <3>2. Goto(m, "promote") \/ Goto(m, "diverged") \/ Goto(m, "cas")
      BY <2>10 DEF ReadBack
    <3>. QED BY <3>1, <3>2, GotoContent
  <2>11. CASE WriteStamp(m)
    BY <2>11, EndContent, GotoContent DEF WriteStamp, s3Vars
  <2>12. ~StageOrphans(m) /\ ~SweepDone(m) /\ \A h \in Hashes : ~DeleteObject(m, h)
    BY <2>0 DEF StageOrphans, SweepDone, DeleteObject, At
  <2>. QED BY <1>4, <2>1, <2>2, <2>3, <2>4, <2>5, <2>6, <2>7, <2>8, <2>9, <2>10, <2>11, <2>12
           DEF Step
<1>5. ASSUME NEW m \in Machines, Mishap(m) PROVE ContentInv'
  <2>0. run[m].pc # "sweep"
    BY DEF ContentInv
  <2>1. CASE CasUnanswered(m)
    BY <2>1, CasContent
  <2>2. CASE ReadBackUnanswered(m)
    BY <2>2, GotoContent DEF ReadBackUnanswered, s3Vars, diskVars
  <2>3. CASE Crash(m)
    BY <2>3, EndContent DEF Crash, s3Vars, diskVars
  <2>. QED BY <1>5, <2>0, <2>1, <2>2, <2>3 DEF Mishap, DeleteFails
<1>. QED BY <1>1, <1>2, <1>3, <1>4, <1>5 DEF Next

(* On a vault nobody collects, the version /current names lists only       *)
(* content S3 holds: no machine ever pulls a file that is not there        *)
(* (commit.ts stages and uploads before it moves the pointer).             *)
THEOREM ListedIsStoredWithoutGc ==
  ASSUME \A m \in Machines : "gc" \notin Commands[m]
  PROVE  Spec => []ListedIsStored
<1>1. Init => ContentInv
  <2>. SUFFICES ASSUME Init PROVE ContentInv
    OBVIOUS
  <2>1. PICK objs \in SUBSET Hashes : \E refs \in SUBSET objs :
          LET first == FirstSnapshot(refs, objs)
          IN /\ states = [v \in Stamps |-> IF v = InitStamp THEN first ELSE NoSnapshot]
             /\ stateDb = [m \in Machines |-> first]
             /\ stored = objs
    BY DEF Init
  <2>2. PICK refs \in SUBSET objs :
          /\ states = [v \in Stamps |-> IF v = InitStamp THEN FirstSnapshot(refs, objs)
                                        ELSE NoSnapshot]
          /\ stateDb = [m \in Machines |-> FirstSnapshot(refs, objs)]
          /\ stored = objs
    BY <2>1
  <2>3. Stocked(FirstSnapshot(refs, objs), objs) /\ Stocked(NoSnapshot, objs)
    BY DEF FirstSnapshot, NoSnapshot, Stocked
  <2>. QED BY <2>2, <2>3, IdleStocked DEF Init, ContentInv
<1>2. TypeOK /\ ContentInv /\ [Next]_vars => ContentInv'
  BY NextContent
<1>3. TypeOK /\ ContentInv => ListedIsStored
  BY DEF TypeOK, ContentInv, Stocked, ListedIsStored
<1>. QED BY <1>1, <1>2, <1>3, TypeCorrect, PTL DEF Spec
=============================================================================
