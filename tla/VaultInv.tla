------------------------------ MODULE VaultInv ------------------------------
(***************************************************************************)
(* The inductive invariant of Vault.  The versions that ever were /current *)
(* form a trunk: each is the previous one's versions table with one row    *)
(* appended.  What machines hold on disk, in memory and on the wire is     *)
(* stated relative to that trunk, which only grows at its tip.  s and c    *)
(* stand for the snapshots in S3 and for /current.                         *)
(***************************************************************************)
EXTENDS Vault

(* The i-th version of the trunk has i rows, the first i rows of the tip's.*)
IsTrunk(s, c) ==
  /\ Len(s[c].versions) >= 1
  /\ Tip(s[c]) = c
  /\ \A i \in 1..Len(s[c].versions) :
       /\ Len(s[s[c].versions[i]].versions) = i
       /\ IsPrefixOf(s[s[c].versions[i]], s[c])

OnTrunk(s, c, v) == v \in VersionsOf(s[c])

(* A version built on another one.                                         *)
BuiltOn(s, v, base) == s[v].versions = Append(s[base].versions, v)

(* One step of the trunk: no snapshot is rewritten, and the pointer stays  *)
(* or moves to a version built on the one it named.                        *)
Advance(s, c, s2, c2) ==
  /\ \A v \in Stamps : Len(s[v].versions) >= 1 => s2[v] = s[v]
  /\ c2 = c \/ BuiltOn(s2, c2, c)

(* What a machine has on disk: db is state.db, last last_synced_version.   *)
DiskOK(s, c, db, last) ==
  /\ \E v \in Stamps : OnTrunk(s, c, v) /\ db = s[v]
  /\ last \in VersionsOf(db)

(* What the command it is running knows: r is its record.                  *)
Reading == {"plan", "upload", "stage", "put"}
Catching == {"save", "adopt", "adoptDb"}
Committing == {"cas", "readback", "diverged", "sweep", "promote"}
Promoted == {"stamp", "clear"}
Landed == {"sweep", "promote", "stamp", "clear"}

RunOK(s, c, db, r) ==
  /\ r.pc \notin {"idle", "fetch"} => OnTrunk(s, c, r.base)
  /\ r.pc \in Reading => r.cand.versions = s[r.base].versions
  /\ r.pc = "save" => r.cand = s[r.base]
  /\ r.pc \in Reading \cup Catching \cup Committing => IsPrefixOf(db, s[r.base])
  /\ r.pc \in Committing \cup Promoted =>
       s[r.stamp] = r.cand /\ BuiltOn(s, r.stamp, r.base)
  /\ r.pc \in Landed => OnTrunk(s, c, r.stamp)
  /\ r.pc \in Promoted => db = s[r.stamp]
  /\ r.pc = "adoptStamp" => db = s[r.base]
  /\ (r.pc = "readback" /\ r.conflict) \/ r.pc = "diverged" => c # r.base
  /\ r.pc = "diverged" => c # r.stamp

(* A request on the wire: it would build on the version it expects.        *)
WireOK(s, c, q) == OnTrunk(s, c, q.ifMatch) /\ BuiltOn(s, q.stamp, q.ifMatch)

(* Stamps not yet minted name nothing.                                     *)
Fresh(s, n) == \A v \in Stamps : v > n => Len(s[v].versions) = 0

Inv ==
  /\ IsTrunk(states, current)
  /\ Fresh(states, minted)
  /\ \A m \in Machines : DiskOK(states, current, stateDb[m], lastSynced[m])
  /\ \A m \in Machines : RunOK(states, current, stateDb[m], run[m])
  /\ \A q \in wire : WireOK(states, current, q)
  /\ \A v \in acked : OnTrunk(states, current, v)
=============================================================================
