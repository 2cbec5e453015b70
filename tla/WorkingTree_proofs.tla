------------------------- MODULE WorkingTree_proofs -------------------------
(***************************************************************************)
(* Proofs of what WorkingTree promises, for any paths and contents and any *)
(* bounds on stamps, edits, commits of others and faults.                  *)
(*                                                                         *)
(* The inductive invariant has three parts for every path.  ClockOK is     *)
(* about the disk: a modification time that some row records tells what    *)
(* the file holds.  SeenOK is about the vault's history and what of it     *)
(* this machine has had.  SyncOK follows a sync from the copy of the vault *)
(* it works on to the rows it reconciles.                                  *)
(***************************************************************************)
EXTENDS WorkingTree, TLAPS

(***************************************************************************)
(* The inductive invariant.                                                *)
(***************************************************************************)

(* A row of a file that is there names its content.                         *)
RowShape(row) == row.state \in {"created", "modified", "unchanged"} => row.hash \in Contents

(* A file f with the time that row records holds what row records.          *)
TimeTells(f, row) ==
  /\ f.real # None /\ f.rtime = row.mtime => f.real = row.hash
  /\ f.stub # None /\ f.stime = row.mtime => f.stub = row.hash

(* What a pull has put in place is still there when its row is recorded.    *)
Landed(p) ==
  LET e == run.cand.entries[p]
  IN e # NoEntry => IF AsStub(p) THEN tree[p].stub = e.hash ELSE tree[p].real = e.hash

ClockOK(p) ==
  /\ tree[p].real # None <=> tree[p].rtime # 0
  /\ tree[p].stub # None <=> tree[p].stime # 0
  /\ Both(tree[p]) => tree[p].rtime # tree[p].stime
  /\ TimeTells(tree[p], cache[p]) /\ TimeTells(tree[p], run.staged[p])
  /\ RowShape(cache[p]) /\ RowShape(run.staged[p])
  /\ run.hashing[p] # 0 => /\ run.pc = "scan" /\ run.staged[p] = NoRow
                           /\ tree[p].stub = None \/ tree[p].stime # run.hashing[p]
  /\ run.pc = "scan" /\ p \in run.todo => run.hashing[p] = 0 /\ run.staged[p] = NoRow
  /\ p \in run.landing => run.pc = "pull" /\ Landed(p)

(* The baseline of a row is an entry of p that this machine has had.        *)
RowSeen(row, p) ==
  /\ row.state = "unchanged" => [hash |-> row.hash, version |-> row.parent] \in seen[p]
  /\ row.state = "modified" => \E e \in seen[p] : e.version = row.parent

SeenOK(p) ==
  /\ RowSeen(cache[p], p) /\ RowSeen(run.staged[p], p)
  /\ seen[p] \subseteq history[p]
  /\ remote.entries[p] \in history[p] \cup {NoEntry}
  /\ \A e, o \in history[p] : e.version = o.version => e = o
  /\ \A e \in history[p] : e.version <= minted

Syncing == {"local", "pull", "commit"}                  \* before the CAS
Settling == {"promote", "adopt", "reconcile", "done"}   \* after it
Cleaned(p) == p \in run.settled /\ run.pc \in {"reconcile", "done"} /\ p \notin run.todo

(* What the sync has settled, and what it wrote into the candidate for it.  *)
SettledOK(p) ==
  /\ p \notin run.settled \/ ~run.applied \/ run.pc \in {"promote", "reconcile", "done"} =>
       run.cand.entries[p] \in history[p] \cup {NoEntry}
  /\ p \in run.settled /\ ~Cleaned(p) =>
       run.cand.entries[p] = IF cache[p].state = "deleted" THEN NoEntry
                             ELSE [hash |-> cache[p].hash, version |-> run.handled[p]]
  /\ Cleaned(p) => cache[p].hash = run.cand.entries[p].hash
  /\ run.pc \notin Syncing \cup Settling => run.settled = {} /\ ~run.applied
  /\ run.pc = "adopt" => ~run.applied

(* Which paths are dirty, which are still to pull, and which agree.         *)
PathsOK(p) ==
  /\ run.settled \subseteq run.exclude
  /\ run.pc \in Syncing \cup Settling =>
       /\ p \notin run.exclude => ~Dirty(cache[p])
       /\ p \in run.exclude /\ ~Cleaned(p) => Dirty(cache[p])
  /\ run.pc = "local" /\ p \in run.todo => p \in run.exclude \ run.settled
  /\ run.pc = "pull" /\ p \in run.todo \cup run.landing => p \notin run.exclude
  /\ run.pc = "reconcile" /\ p \in run.todo => p \in run.settled
  /\ run.pc = "done" => run.todo = {}
  /\ (/\ run.pc \in (Syncing \cup Settling) \ {"local"} /\ p \notin run.exclude
      /\ run.pc = "pull" => p \notin run.todo \cup run.landing)
       => cache[p].hash = run.cand.entries[p].hash

(* The commit's own stamp is new, and if the vault has not moved the commit *)
(* changes it only where this machine has had what was there.               *)
WriteOK(p) ==
  run.pc \in Syncing =>
    /\ \A e \in history[p] : e.version # run.cand.version
    /\ run.cand.entries[p] \in history[p] \cup {NoEntry}
         \/ run.cand.entries[p].version = run.cand.version
    /\ remote.version = run.base =>
         \/ run.cand.entries[p] = remote.entries[p]
         \/ p \in run.settled /\ (\/ remote.entries[p] = NoEntry \/ run.cand.entries[p] = NoEntry
                                  \/ remote.entries[p] \in seen[p])

SyncOK(p) == SettledOK(p) /\ PathsOK(p) /\ WriteOK(p)

(* Nothing is stamped with the future.                                      *)
StampOK == remote.version <= minted /\ run.cand.version <= minted /\ run.base <= minted

Inv == StampOK /\ \A p \in Paths : ClockOK(p) /\ SeenOK(p) /\ SyncOK(p)

(***************************************************************************)
(* Facts about types.                                                      *)
(***************************************************************************)

LEMMA NoRowFacts ==
  /\ NoRow.state = "none" /\ NoRow.hash = None /\ NoRow.mtime = 0 /\ NoRow.parent = 0
  /\ NoRow \notin Row
  /\ NoEntry.hash = None /\ NoEntry.version = 0 /\ NoEntry \notin Entry
  /\ NoFile.real = None /\ NoFile.stub = None /\ NoFile.rtime = 0 /\ NoFile.stime = 0
  /\ NoFile \in File
<1>1. NoRow.state = "none" /\ NoRow.hash = None /\ NoRow.mtime = 0 /\ NoRow.parent = 0
  BY DEF NoRow, NoStamp
<1>2. \A row \in Row : row.state # "none"
  BY DEF Row, States
<1>3. NoEntry.hash = None /\ NoEntry.version = 0
  BY DEF NoEntry, NoStamp
<1>4. \A e \in Entry : e.hash # None
  BY NoneAssumption DEF Entry
<1>5. /\ NoFile.real = None /\ NoFile.stub = None /\ NoFile.rtime = 0 /\ NoFile.stime = 0
      /\ NoFile \in File
  BY DEF NoFile, File
<1>. QED BY <1>1, <1>2, <1>3, <1>4, <1>5

LEMMA RunFacts ==
  ASSUME TypeOK
  PROVE  /\ run \in Run /\ run.pc \in Pcs /\ run.todo \in SUBSET Paths
         /\ run.hashing \in [Paths -> Mtimes \cup {0}]
         /\ run.staged \in [Paths -> Row \cup {NoRow}]
         /\ run.base \in Stamps /\ run.cand \in Vault /\ run.exclude \in SUBSET Paths
         /\ run.handled \in [Paths -> Stamps \cup {NoStamp}]
         /\ run.settled \in SUBSET Paths /\ run.applied \in BOOLEAN
         /\ run.landing \in SUBSET Paths
BY DEF TypeOK, Run

LEMMA VaultFacts ==
  ASSUME NEW v \in Vault
  PROVE  /\ v.version \in Stamps /\ v.entries \in [Paths -> Entry \cup {NoEntry}]
         /\ v.objs \in SUBSET Contents
BY DEF Vault

LEMMA EntryFacts ==
  ASSUME NEW e \in Entry \cup {NoEntry}
  PROVE  /\ e.hash \in Contents \cup {None} /\ e.version \in Stamps \cup {NoStamp}
         /\ e # NoEntry => e.hash \in Contents /\ e.hash # None /\ e.version \in Stamps
         /\ e.hash = None <=> e = NoEntry
BY NoRowFacts, NoneAssumption DEF Entry, NoStamp

LEMMA RowFacts ==
  ASSUME NEW row \in Row \cup {NoRow}
  PROVE  /\ row.state \in States \cup {"none"} /\ row.hash \in Contents \cup {None}
         /\ row.mtime \in Mtimes \cup {0} /\ row.parent \in Stamps \cup {0}
         /\ row.state = "none" <=> row = NoRow
         /\ row # NoRow => row \in Row /\ row.parent \in Stamps /\ row.state \in States
<1>1. CASE row = NoRow
  BY <1>1, NoRowFacts
<1>2. CASE row \in Row
  BY <1>2, NoRowFacts DEF Row, States
<1>. QED BY <1>1, <1>2

LEMMA FileFacts ==
  ASSUME NEW f \in File
  PROVE  /\ f.real \in Contents \cup {None} /\ f.rtime \in Mtimes \cup {0}
         /\ f.stub \in Contents \cup {None} /\ f.stime \in Mtimes \cup {0}
BY DEF File

LEMMA StampFacts == Stamps \subseteq Nat /\ 1 \in Stamps /\ NoStamp \notin Stamps /\ 0 \notin Mtimes
BY StampsAssumption DEF Stamps, NoStamp, Mtimes

LEMMA PathFacts ==
  ASSUME TypeOK, NEW p \in Paths
  PROVE  /\ tree[p] \in File /\ cache[p] \in Row \cup {NoRow}
         /\ run.staged[p] \in Row \cup {NoRow} /\ run.hashing[p] \in Mtimes \cup {0}
         /\ remote.entries[p] \in Entry \cup {NoEntry}
         /\ run.cand.entries[p] \in Entry \cup {NoEntry}
         /\ run.handled[p] \in Stamps \cup {NoStamp}
         /\ history[p] \in SUBSET Entry /\ seen[p] \in SUBSET Entry
<1>1. run.cand \in Vault /\ remote \in Vault
  BY RunFacts DEF TypeOK
<1>2. run.cand.entries \in [Paths -> Entry \cup {NoEntry}]
  BY <1>1, VaultFacts
<1>3. remote.entries \in [Paths -> Entry \cup {NoEntry}]
  BY <1>1, VaultFacts
<1>. QED BY <1>2, <1>3, RunFacts DEF TypeOK

LEMMA IdleFacts ==
  /\ Idle \in Run /\ Idle.pc = "idle" /\ Idle.todo = {} /\ Idle.base = 1
  /\ Idle.exclude = {} /\ Idle.settled = {} /\ Idle.applied = FALSE /\ Idle.landing = {}
  /\ Idle.cand.version = 1
  /\ \A p \in Paths : /\ Idle.hashing[p] = 0 /\ Idle.staged[p] = NoRow
                      /\ Idle.cand.entries[p] = NoEntry
<1>1. /\ EmptyVault \in Vault /\ EmptyVault.entries = [p \in Paths |-> NoEntry]
      /\ EmptyVault.version = 1
  BY StampFacts DEF EmptyVault, Vault
<1>2. /\ [p \in Paths |-> 0] \in [Paths -> Mtimes \cup {0}]
      /\ [p \in Paths |-> NoRow] \in [Paths -> Row \cup {NoRow}]
      /\ [p \in Paths |-> NoStamp] \in [Paths -> Stamps \cup {NoStamp}]
  OBVIOUS
<1>3. Idle \in Run
  BY <1>1, <1>2, StampFacts DEF Idle, Run, Pcs
<1>. QED BY <1>1, <1>3 DEF Idle

(* There is always a modification time left for a write to p.               *)
LEMMA NewMtimeFacts ==
  ASSUME TypeOK, NEW p \in Paths, ClockOK(p)
  PROVE  /\ NewMtime(p) \in Mtimes /\ NewMtime(p) # 0
         /\ NewMtime(p) # cache[p].mtime /\ NewMtime(p) # run.hashing[p]
         /\ NewMtime(p) # run.staged[p].mtime
         /\ NewMtime(p) # tree[p].rtime /\ NewMtime(p) # tree[p].stime
<1>1. run.hashing[p] = 0 \/ run.staged[p].mtime = 0
  BY NoRowFacts DEF ClockOK
<1>2. \A a, b, x, y : \E t \in Mtimes : t \notin {a, b, x, y, 0}
  <2>. TAKE a, b, x, y
  <2>1. 1 \in Mtimes /\ 2 \in Mtimes /\ 3 \in Mtimes /\ 4 \in Mtimes /\ 5 \in Mtimes
    BY DEF Mtimes
  <2>. QED BY <2>1
<1>3. \E t \in Mtimes : t \notin {cache[p].mtime, run.hashing[p], run.staged[p].mtime,
                                  tree[p].rtime, tree[p].stime}
  <2>1. CASE run.hashing[p] = 0
    <3>1. PICK t \in Mtimes : t \notin {cache[p].mtime, run.staged[p].mtime,
                                        tree[p].rtime, tree[p].stime, 0}
      BY <1>2
    <3>. QED BY <2>1, <3>1
  <2>2. CASE run.staged[p].mtime = 0
    <3>1. PICK t \in Mtimes : t \notin {cache[p].mtime, run.hashing[p],
                                        tree[p].rtime, tree[p].stime, 0}
      BY <1>2
    <3>. QED BY <2>2, <3>1
  <2>. QED BY <1>1, <2>1, <2>2
<1>4. /\ NewMtime(p) \in Mtimes
      /\ NewMtime(p) \notin {cache[p].mtime, run.hashing[p], run.staged[p].mtime,
                             tree[p].rtime, tree[p].stime}
  BY <1>3, Zenon DEF NewMtime
<1>. QED BY <1>4, StampFacts

(***************************************************************************)
(* What the steps change, field by field.                                  *)
(***************************************************************************)

LEMMA MissingRowTypes ==
  ASSUME TypeOK, NEW p \in Paths
  PROVE  /\ MissingRow(p) \in Row \cup {NoRow} /\ MissingRow(p).mtime = 0
         /\ MissingRow(p).state \in {"none", "deleted"}
<1>. DEFINE old == cache[p]
<1>1. old \in Row \cup {NoRow}
  BY DEF TypeOK
<1>2. CASE old.state \in {"none", "deleted"}
  BY <1>2, NoRowFacts DEF MissingRow
<1>3. CASE old.state \notin {"none", "deleted"}
  <2>1. MissingRow(p) = [state |-> "deleted", hash |-> None, mtime |-> 0, parent |-> old.parent]
    BY <1>3 DEF MissingRow
  <2>2. old.parent \in Stamps
    BY <1>1, <1>3, RowFacts DEF States
  <2>. QED BY <2>1, <2>2 DEF Row, States
<1>. QED BY <1>2, <1>3

LEMMA FoundRowTypes ==
  ASSUME TypeOK, NEW p \in Paths, NEW hash \in Contents, NEW mtime \in Mtimes
  PROVE  /\ FoundRow(p, hash, mtime) \in Row
         /\ FoundRow(p, hash, mtime).hash = hash /\ FoundRow(p, hash, mtime).mtime = mtime
         /\ RowShape(cache[p]) => RowShape(FoundRow(p, hash, mtime))
         /\ RowSeen(cache[p], p) => RowSeen(FoundRow(p, hash, mtime), p)
<1>. DEFINE old == cache[p]
<1>1. old \in Row \cup {NoRow} /\ lastSynced \in Stamps
  BY DEF TypeOK
<1>3. CASE old = NoRow
  <2>1. FoundRow(p, hash, mtime) = [state |-> "created", hash |-> hash, mtime |-> mtime,
                                    parent |-> lastSynced]
    BY <1>3 DEF FoundRow, CreatedRow
  <2>. QED BY <1>1, <2>1 DEF Row, States, RowShape, RowSeen
<1>4. CASE old # NoRow
  <2>1. old \in Row /\ FoundRow(p, hash, mtime) = ExistingRow(old, hash, mtime)
    BY <1>1, <1>4 DEF FoundRow
  <2>2. PICK t : t = [old EXCEPT !.mtime = mtime, !.hash = hash]
    OBVIOUS
  <2>3. t \in Row /\ t.state = old.state /\ t.hash = hash /\ t.mtime = mtime /\ t.parent = old.parent
    BY <2>1, <2>2 DEF Row
  <2>4. CASE hash = old.hash
    <3>1. ExistingRow(old, hash, mtime) = t
      BY <2>2, <2>4 DEF ExistingRow
    <3>. QED BY <2>1, <2>3, <2>4, <3>1 DEF RowShape, RowSeen
  <2>5. CASE hash # old.hash
    <3>1. CASE old.state = "unchanged"
      <4>1. PICK m : m = [t EXCEPT !.state = "modified"]
        OBVIOUS
      <4>2. ExistingRow(old, hash, mtime) = m
        BY <2>2, <2>5, <3>1, <4>1 DEF ExistingRow
      <4>3. m \in Row /\ m.state = "modified" /\ m.hash = hash /\ m.mtime = mtime
            /\ m.parent = old.parent
        BY <2>3, <4>1 DEF Row, States
      <4>4. RowSeen(old, p) => RowSeen(m, p)
        <5>1. ASSUME RowSeen(old, p) PROVE \E e \in seen[p] : e.version = m.parent
          <6>1. PICK e : e = [hash |-> old.hash, version |-> old.parent]
            OBVIOUS
          <6>2. e \in seen[p] /\ e.version = m.parent
            BY <3>1, <4>3, <5>1, <6>1 DEF RowSeen
          <6>. QED BY <6>2
        <5>. QED BY <4>3, <5>1 DEF RowSeen
      <4>. QED BY <2>1, <4>2, <4>3, <4>4 DEF RowShape
    <3>2. CASE old.state = "deleted"
      <4>1. PICK m : m = [t EXCEPT !.state = "created"]
        OBVIOUS
      <4>2. ExistingRow(old, hash, mtime) = m
        BY <2>2, <2>5, <3>2, <4>1 DEF ExistingRow
      <4>3. m \in Row /\ m.state = "created" /\ m.hash = hash /\ m.mtime = mtime
            /\ m.parent = old.parent
        BY <2>3, <4>1 DEF Row, States
      <4>. QED BY <2>1, <4>2, <4>3 DEF RowShape, RowSeen
    <3>3. CASE old.state \notin {"unchanged", "deleted"}
      <4>1. ExistingRow(old, hash, mtime) = t
        BY <2>2, <2>5, <3>3 DEF ExistingRow
      <4>. QED BY <2>1, <2>3, <3>3, <4>1 DEF RowShape, RowSeen
    <3>. QED BY <3>1, <3>2, <3>3
  <2>. QED BY <2>4, <2>5
<1>. QED BY <1>3, <1>4

LEMMA StartRun ==
  ASSUME TypeOK, Start
  PROVE  /\ run' \in Run /\ run'.pc = "scan" /\ run'.todo = Paths
         /\ run'.hashing = Idle.hashing /\ run'.staged = Idle.staged /\ run'.base = Idle.base
         /\ run'.cand = Idle.cand /\ run'.exclude = {} /\ run'.settled = {}
         /\ run'.applied = FALSE /\ run'.landing = {}
<1>1. PICK r : r = [Idle EXCEPT !.pc = "scan", !.todo = Paths]
  OBVIOUS
<1>2. run' = r /\ Idle \in Run
  BY <1>1, IdleFacts DEF Start
<1>. QED BY <1>1, <1>2, IdleFacts DEF Run, Pcs

LEMMA FetchNext ==
  ASSUME NEW r, r = [Idle EXCEPT !.pc = "fetch"]
  PROVE  /\ r \in Run /\ r.pc = "fetch" /\ r.todo = {}
         /\ r.hashing = Idle.hashing /\ r.staged = Idle.staged /\ r.base = Idle.base
         /\ r.cand = Idle.cand /\ r.exclude = {} /\ r.settled = {}
         /\ r.applied = FALSE /\ r.landing = {}
<1>1. Idle \in Run
  BY IdleFacts
<1>. QED BY <1>1, IdleFacts DEF Run, Pcs

LEMMA WalkRun ==
  ASSUME TypeOK, NEW p \in Paths, ClockOK(p), WalkPath(p)
  PROVE  /\ run' \in Run /\ run.pc = "scan" /\ p \in run.todo
         /\ run'.todo = run.todo \ {p}
         /\ run'.pc = run.pc /\ run'.base = run.base /\ run'.cand = run.cand
         /\ run'.exclude = run.exclude /\ run'.handled = run.handled
         /\ run'.settled = run.settled /\ run'.applied = run.applied
         /\ run'.landing = run.landing
         /\ \A q \in Paths \ {p} : /\ run'.hashing[q] = run.hashing[q]
                                   /\ run'.staged[q] = run.staged[q]
         /\ \/ /\ tree[p] = NoFile /\ tree' = tree
               /\ run'.hashing[p] = run.hashing[p] /\ run'.staged[p] = MissingRow(p)
            \/ /\ tree' = tree
               /\ run'.hashing[p] = run.hashing[p] /\ run'.staged[p] = run.staged[p]
            \/ /\ tree[p].real = None /\ tree[p].stub # None /\ tree' = tree
               /\ run'.hashing[p] = run.hashing[p]
               /\ run'.staged[p] = FoundRow(p, tree[p].stub, tree[p].stime)
            \/ /\ tree[p].real # None
               /\ run'.hashing[p] = tree[p].rtime /\ run'.staged[p] = run.staged[p]
               /\ tree' = [tree EXCEPT ![p].stub = None, ![p].stime = 0]
<1>. DEFINE Kept(r) ==
         /\ r \in Run /\ r.todo = run.todo \ {p}
         /\ r.pc = run.pc /\ r.base = run.base /\ r.cand = run.cand /\ r.exclude = run.exclude
         /\ r.handled = run.handled /\ r.settled = run.settled /\ r.applied = run.applied
         /\ r.landing = run.landing
         /\ \A q \in Paths \ {p} : r.hashing[q] = run.hashing[q] /\ r.staged[q] = run.staged[q]
<1>1. /\ run \in Run /\ run.pc = "scan" /\ p \in run.todo /\ run.todo \ {p} \in SUBSET Paths
      /\ tree[p] \in File /\ run.staged \in [Paths -> Row \cup {NoRow}]
      /\ run.hashing \in [Paths -> Mtimes \cup {0}]
  BY RunFacts, PathFacts DEF WalkPath
<1>2. PICK walked : walked = [run EXCEPT !.todo = run.todo \ {p}]
  OBVIOUS
<1>3. Kept(walked) /\ walked.hashing = run.hashing /\ walked.staged = run.staged
  BY <1>1, <1>2 DEF Run
<1>4. ASSUME NEW row \in Row \cup {NoRow}, run' = [walked EXCEPT !.staged[p] = row]
      PROVE  Kept(run') /\ run'.hashing = run.hashing /\ run'.staged[p] = row
  <2>1. PICK staged : staged = [run.staged EXCEPT ![p] = row]
    OBVIOUS
  <2>2. /\ staged \in [Paths -> Row \cup {NoRow}] /\ staged[p] = row
        /\ \A q \in Paths \ {p} : staged[q] = run.staged[q]
    BY <1>1, <2>1
  <2>3. run' = [walked EXCEPT !.staged = staged]
    BY <1>3, <1>4, <2>1
  <2>. QED BY <1>3, <2>2, <2>3 DEF Run
<1>5. CASE tree[p] = NoFile /\ run' = [walked EXCEPT !.staged[p] = MissingRow(p)] /\ tree' = tree
  <2>1. MissingRow(p) \in Row \cup {NoRow}
    BY MissingRowTypes
  <2>. QED BY <1>1, <1>4, <1>5, <2>1
<1>6. CASE run' = walked /\ tree' = tree
  BY <1>1, <1>3, <1>6
<1>7. CASE /\ tree[p].real = None /\ tree[p].stub # None /\ tree' = tree
           /\ run' = [walked EXCEPT !.staged[p] = FoundRow(p, tree[p].stub, tree[p].stime)]
  <2>1. tree[p].stub \in Contents /\ tree[p].stime \in Mtimes
    BY <1>1, <1>7, FileFacts DEF ClockOK
  <2>2. FoundRow(p, tree[p].stub, tree[p].stime) \in Row \cup {NoRow}
    BY <2>1, FoundRowTypes
  <2>. QED BY <1>1, <1>4, <1>7, <2>2
<1>8. CASE /\ tree[p].real # None /\ run' = [walked EXCEPT !.hashing[p] = tree[p].rtime]
           /\ tree' = [tree EXCEPT ![p].stub = None, ![p].stime = 0]
  <2>1. PICK hashing : hashing = [run.hashing EXCEPT ![p] = tree[p].rtime]
    OBVIOUS
  <2>2. /\ hashing \in [Paths -> Mtimes \cup {0}] /\ hashing[p] = tree[p].rtime
        /\ \A q \in Paths \ {p} : hashing[q] = run.hashing[q]
    BY <1>1, <2>1, FileFacts
  <2>3. run' = [walked EXCEPT !.hashing = hashing]
    BY <1>3, <1>8, <2>1
  <2>4. Kept(run') /\ run'.staged = run.staged /\ run'.hashing = hashing
    BY <1>3, <2>2, <2>3 DEF Run
  <2>. QED BY <1>1, <1>8, <2>2, <2>4
<1>. QED BY <1>2, <1>5, <1>6, <1>7, <1>8 DEF WalkPath

LEMMA HashRun ==
  ASSUME TypeOK, NEW p \in Paths, ClockOK(p), HashPath(p), tree[p].real # None
  PROVE  /\ run' \in Run /\ run.pc = "scan" /\ run.hashing[p] # 0
         /\ run'.pc = run.pc /\ run'.todo = run.todo /\ run'.base = run.base
         /\ run'.cand = run.cand /\ run'.exclude = run.exclude
         /\ run'.handled = run.handled /\ run'.settled = run.settled
         /\ run'.applied = run.applied /\ run'.landing = run.landing
         /\ \A q \in Paths \ {p} : /\ run'.hashing[q] = run.hashing[q]
                                   /\ run'.staged[q] = run.staged[q]
         /\ run'.hashing[p] = 0
         /\ run'.staged[p] = FoundRow(p, tree[p].real, run.hashing[p])
         /\ tree[p].real \in Contents /\ run.hashing[p] \in Mtimes
<1>1. /\ run \in Run /\ run.pc = "scan" /\ run.hashing[p] # 0
      /\ run.staged \in [Paths -> Row \cup {NoRow}] /\ run.hashing \in [Paths -> Mtimes \cup {0}]
      /\ run' = [run EXCEPT !.hashing[p] = 0,
                            !.staged[p] = FoundRow(p, tree[p].real, run.hashing[p])]
  BY RunFacts DEF HashPath
<1>2. tree[p].real \in Contents /\ run.hashing[p] \in Mtimes
  BY <1>1, PathFacts, FileFacts
<1>3. PICK row \in Row : row = FoundRow(p, tree[p].real, run.hashing[p])
  BY <1>2, FoundRowTypes
<1>4. PICK hashing : hashing = [run.hashing EXCEPT ![p] = 0]
  OBVIOUS
<1>5. PICK staged : staged = [run.staged EXCEPT ![p] = row]
  OBVIOUS
<1>6. /\ hashing \in [Paths -> Mtimes \cup {0}] /\ hashing[p] = 0
      /\ \A q \in Paths \ {p} : hashing[q] = run.hashing[q]
      /\ staged \in [Paths -> Row \cup {NoRow}] /\ staged[p] = row
      /\ \A q \in Paths \ {p} : staged[q] = run.staged[q]
  BY <1>1, <1>4, <1>5
<1>7. run' = [run EXCEPT !.hashing = hashing, !.staged = staged]
  BY <1>1, <1>3, <1>4, <1>5
<1>8. /\ run' \in Run /\ run'.hashing = hashing /\ run'.staged = staged
      /\ run'.pc = run.pc /\ run'.todo = run.todo /\ run'.base = run.base
      /\ run'.cand = run.cand /\ run'.exclude = run.exclude
      /\ run'.handled = run.handled /\ run'.settled = run.settled
      /\ run'.applied = run.applied /\ run'.landing = run.landing
  BY <1>1, <1>6, <1>7 DEF Run
<1>. QED BY <1>1, <1>2, <1>3, <1>6, <1>8

LEMMA ApplyRun ==
  ASSUME TypeOK, ApplyStagedRows
  PROVE  \E batch \in SUBSET StagedPaths :
         /\ cache' = [p \in Paths |-> IF p \in batch THEN run.staged[p] ELSE cache[p]]
         /\ run' \in Run
         /\ \/ /\ run.pc = "scan"
               /\ \A p \in Paths : run'.staged[p] = IF p \in batch THEN NoRow ELSE run.staged[p]
               /\ run'.pc = run.pc /\ run'.todo = run.todo
               /\ run'.hashing = run.hashing /\ run'.base = run.base
               /\ run'.cand = run.cand /\ run'.exclude = run.exclude
               /\ run'.handled = run.handled /\ run'.settled = run.settled
               /\ run'.applied = run.applied /\ run'.landing = run.landing
            \/ run' = Idle
            \/ run' = [Idle EXCEPT !.pc = "fetch"]
<1>1. PICK batch \in SUBSET StagedPaths :
         /\ cache' = [p \in Paths |-> IF p \in batch THEN run.staged[p] ELSE cache[p]]
         /\ IF batch # StagedPaths
            THEN run' = [run EXCEPT !.staged = [p \in Paths |-> IF p \in batch THEN NoRow
                                                                ELSE @[p]]]
            ELSE run' \in {Idle, [Idle EXCEPT !.pc = "fetch"]}
  BY DEF ApplyStagedRows
<1>2. CASE batch # StagedPaths
  <2>1. PICK staged : staged = [p \in Paths |-> IF p \in batch THEN NoRow ELSE run.staged[p]]
    OBVIOUS
  <2>2. run' = [run EXCEPT !.staged = staged]
    BY <1>1, <1>2, <2>1
  <2>3. run \in Run /\ run.pc = "scan" /\ staged \in [Paths -> Row \cup {NoRow}]
    BY <2>1, RunFacts, PathFacts DEF ApplyStagedRows
  <2>. QED BY <1>1, <2>1, <2>2, <2>3 DEF Run
<1>3. CASE batch = StagedPaths
  <2>1. run' = Idle \/ run' = [Idle EXCEPT !.pc = "fetch"]
    BY <1>1, <1>3
  <2>2. [Idle EXCEPT !.pc = "fetch"] \in Run
    BY FetchNext
  <2>. QED BY <1>1, <2>1, <2>2, IdleFacts
<1>. QED BY <1>2, <1>3

LEMMA FetchRun ==
  ASSUME TypeOK, Fetch
  PROVE  /\ run' \in Run /\ run.pc = "fetch" /\ run'.pc = "local"
         /\ run'.todo = DirtyPaths /\ run'.exclude = DirtyPaths
         /\ run'.base = remote.version /\ run'.cand.version = minted + 1
         /\ run'.cand.entries = remote.entries /\ run'.cand.objs = remote.objs
         /\ minted' = minted + 1 /\ minted' \in Stamps
         /\ run'.hashing = run.hashing /\ run'.staged = run.staged
         /\ run'.handled = run.handled /\ run'.settled = run.settled
         /\ run'.applied = run.applied /\ run'.landing = run.landing
<1>1. PICK cand : cand = [remote EXCEPT !.version = minted + 1]
  OBVIOUS
<1>2. minted + 1 \in Stamps /\ minted' = minted + 1
  BY StampFacts, StampsAssumption DEF TypeOK, Fetch, Stamps
<1>3. /\ cand \in Vault /\ cand.version = minted + 1 /\ cand.entries = remote.entries
      /\ cand.objs = remote.objs
  BY <1>1, <1>2 DEF TypeOK, Vault
<1>4. run' = [run EXCEPT !.pc = "local", !.todo = DirtyPaths, !.exclude = DirtyPaths,
                         !.base = remote.version, !.cand = cand]
  BY <1>1 DEF Fetch
<1>5. run \in Run /\ run.pc = "fetch" /\ remote.version \in Stamps /\ DirtyPaths \in SUBSET Paths
  BY RunFacts, VaultFacts DEF TypeOK, Fetch, DirtyPaths
<1>. QED BY <1>2, <1>3, <1>4, <1>5 DEF Run, Pcs

(* What a dirty row, decided, does to the candidate and to the run.         *)
LEMMA LocalRun ==
  ASSUME TypeOK, NEW p \in Paths, LocalRow(p), RowShape(cache[p]), Dirty(cache[p])
  PROVE  LET row == cache[p]
             old == run.cand.entries[p]
             decision == DecideLocalChange(row, old)
         IN
         /\ run' \in Run /\ run.pc = "local" /\ p \in run.todo
         /\ run'.cand.version = run.cand.version
         /\ \A q \in Paths \ {p} : /\ run'.cand.entries[q] = run.cand.entries[q]
                                   /\ run'.handled[q] = run.handled[q]
         /\ run'.pc = run.pc /\ run'.hashing = run.hashing /\ run'.staged = run.staged
         /\ run'.base = run.base /\ run'.exclude = run.exclude
         /\ run'.landing = run.landing
         /\ run'.todo \subseteq run.todo /\ p \notin run'.todo
         /\ \/ /\ run'.settled = run.settled
               /\ run'.cand = run.cand /\ run'.handled = run.handled
               /\ run'.applied = run.applied
            \/ /\ run'.settled = run.settled \cup {p}
               /\ run'.cand = run.cand /\ run'.applied = run.applied
               /\ decision = "noop" /\ run'.handled[p] = old.version
            \/ /\ run'.settled = run.settled \cup {p} /\ run'.applied = TRUE
               /\ decision = "apply" /\ row.state = "deleted"
               /\ run'.cand.entries[p] = NoEntry
            \/ /\ run'.settled = run.settled \cup {p} /\ run'.applied = TRUE
               /\ decision = "apply" /\ row.state # "deleted"
               /\ run'.handled[p] = run.cand.version
               /\ run'.cand.entries[p] = [hash |-> row.hash, version |-> run.cand.version]
<1>. DEFINE row == cache[p]
            old == run.cand.entries[p]
            decision == DecideLocalChange(row, old)
            stamp == run.cand.version
<1>1. /\ run \in Run /\ run.cand \in Vault /\ run.pc = "local" /\ p \in run.todo
      /\ run.todo \in SUBSET Paths /\ run.settled \cup {p} \in SUBSET Paths
      /\ run.handled \in [Paths -> Stamps \cup {NoStamp}]
      /\ run.cand.entries \in [Paths -> Entry \cup {NoEntry}]
      /\ run.cand.objs \in SUBSET Contents
      /\ stamp \in Stamps /\ row \in Row \cup {NoRow} /\ old \in Entry \cup {NoEntry}
  BY RunFacts, VaultFacts, PathFacts DEF LocalRow
<1>2. PICK done : done = [run EXCEPT !.todo = run.todo \ {p}]
  OBVIOUS
<1>3. /\ done \in Run /\ done.todo = run.todo \ {p} /\ done.pc = run.pc
      /\ done.hashing = run.hashing /\ done.staged = run.staged /\ done.base = run.base
      /\ done.cand = run.cand /\ done.exclude = run.exclude /\ done.handled = run.handled
      /\ done.settled = run.settled /\ done.applied = run.applied
      /\ done.landing = run.landing
  BY <1>1, <1>2 DEF Run
<1>4. \/ decision = "conflict" /\ run' = done
      \/ /\ decision = "noop"
         /\ run' = [done EXCEPT !.settled = @ \cup {p},
                                !.handled[p] = run.cand.entries[p].version]
      \/ /\ decision = "apply" /\ row.state = "deleted"
         /\ run' = [done EXCEPT !.settled = @ \cup {p}, !.applied = TRUE,
                                !.cand.entries[p] = NoEntry]
      \/ /\ decision = "apply" /\ row.state # "deleted"
         /\ run' = [done EXCEPT !.settled = @ \cup {p}, !.applied = TRUE,
                                !.handled[p] = stamp,
                                !.cand.objs = @ \cup {row.hash},
                                !.cand.entries[p] = [hash |-> row.hash, version |-> stamp]]
      \/ \E failed \in SUBSET Sharing(p) :
            p \in failed /\ run' = [run EXCEPT !.todo = @ \ failed]
  BY <1>2 DEF LocalRow
<1>5. CASE decision = "conflict" /\ run' = done
  BY <1>1, <1>3, <1>5
<1>6. CASE /\ decision = "noop"
           /\ run' = [done EXCEPT !.settled = @ \cup {p},
                                  !.handled[p] = run.cand.entries[p].version]
  <2>1. PICK handled : handled = [run.handled EXCEPT ![p] = old.version]
    OBVIOUS
  <2>2. /\ handled \in [Paths -> Stamps \cup {NoStamp}] /\ handled[p] = old.version
        /\ \A q \in Paths \ {p} : handled[q] = run.handled[q]
    BY <1>1, <2>1, EntryFacts
  <2>3. run' = [done EXCEPT !.settled = run.settled \cup {p}, !.handled = handled]
    BY <1>3, <1>6, <2>1
  <2>4. /\ run' \in Run /\ run'.handled = handled /\ run'.settled = run.settled \cup {p}
        /\ run'.todo = run.todo \ {p} /\ run'.cand = run.cand
        /\ run'.pc = run.pc /\ run'.hashing = run.hashing /\ run'.staged = run.staged
        /\ run'.base = run.base /\ run'.exclude = run.exclude
        /\ run'.applied = run.applied /\ run'.landing = run.landing
    BY <1>1, <1>3, <2>2, <2>3 DEF Run
  <2>. QED BY <1>1, <1>6, <2>2, <2>4
<1>7. CASE /\ decision = "apply" /\ row.state = "deleted"
           /\ run' = [done EXCEPT !.settled = @ \cup {p}, !.applied = TRUE,
                                  !.cand.entries[p] = NoEntry]
  <2>1. PICK entries : entries = [run.cand.entries EXCEPT ![p] = NoEntry]
    OBVIOUS
  <2>2. /\ entries \in [Paths -> Entry \cup {NoEntry}] /\ entries[p] = NoEntry
        /\ \A q \in Paths \ {p} : entries[q] = run.cand.entries[q]
    BY <1>1, <2>1
  <2>3. PICK cand : cand = [run.cand EXCEPT !.entries = entries]
    OBVIOUS
  <2>4. cand \in Vault /\ cand.entries = entries /\ cand.version = run.cand.version
    BY <1>1, <2>2, <2>3 DEF Vault
  <2>5. run' = [done EXCEPT !.settled = run.settled \cup {p}, !.applied = TRUE, !.cand = cand]
    BY <1>3, <1>7, <2>1, <2>3
  <2>6. /\ run' \in Run /\ run'.cand = cand /\ run'.settled = run.settled \cup {p}
        /\ run'.todo = run.todo \ {p} /\ run'.applied = TRUE
        /\ run'.pc = run.pc /\ run'.hashing = run.hashing /\ run'.staged = run.staged
        /\ run'.base = run.base /\ run'.exclude = run.exclude
        /\ run'.handled = run.handled /\ run'.landing = run.landing
    BY <1>1, <1>3, <2>4, <2>5 DEF Run
  <2>7. /\ run'.cand.entries[p] = NoEntry /\ run'.cand.version = run.cand.version
        /\ \A q \in Paths \ {p} : /\ run'.cand.entries[q] = run.cand.entries[q]
                                  /\ run'.handled[q] = run.handled[q]
    BY <2>2, <2>4, <2>6
  <2>8. decision = "apply" /\ row.state = "deleted"
    BY <1>7
  <2>9. run'.todo \subseteq run.todo /\ p \notin run'.todo
    BY <2>6
  <2>. HIDE DEF decision, row
  <2>10. /\ run'.settled = run.settled \cup {p} /\ run'.applied = TRUE
         /\ decision = "apply" /\ row.state = "deleted"
         /\ run'.cand.entries[p] = NoEntry
    BY <2>6, <2>7, <2>8
  <2>. QED BY <1>1, <2>6, <2>7, <2>9, <2>10 DEF decision, row
<1>8. CASE /\ decision = "apply" /\ row.state # "deleted"
           /\ run' = [done EXCEPT !.settled = @ \cup {p}, !.applied = TRUE,
                                  !.handled[p] = stamp,
                                  !.cand.objs = @ \cup {row.hash},
                                  !.cand.entries[p] = [hash |-> row.hash, version |-> stamp]]
  <2>0. row.hash \in Contents
    BY <1>8 DEF RowShape, Dirty
  <2>1. PICK e : e = [hash |-> row.hash, version |-> stamp]
    OBVIOUS
  <2>2. e \in Entry
    BY <1>1, <2>0, <2>1 DEF Entry
  <2>3. PICK entries : entries = [run.cand.entries EXCEPT ![p] = e]
    OBVIOUS
  <2>4. /\ entries \in [Paths -> Entry \cup {NoEntry}] /\ entries[p] = e
        /\ \A q \in Paths \ {p} : entries[q] = run.cand.entries[q]
    BY <1>1, <2>2, <2>3
  <2>5. PICK cand : cand = [run.cand EXCEPT !.objs = run.cand.objs \cup {row.hash},
                                            !.entries = entries]
    OBVIOUS
  <2>6. cand \in Vault /\ cand.entries = entries /\ cand.version = run.cand.version
    BY <1>1, <2>0, <2>4, <2>5 DEF Vault
  <2>7. PICK handled : handled = [run.handled EXCEPT ![p] = stamp]
    OBVIOUS
  <2>8. /\ handled \in [Paths -> Stamps \cup {NoStamp}] /\ handled[p] = stamp
        /\ \A q \in Paths \ {p} : handled[q] = run.handled[q]
    BY <1>1, <2>7
  <2>9. run' = [done EXCEPT !.settled = run.settled \cup {p}, !.applied = TRUE,
                            !.handled = handled, !.cand = cand]
    BY <1>3, <1>8, <2>1, <2>3, <2>5, <2>7
  <2>10. /\ run' \in Run /\ run'.cand = cand /\ run'.settled = run.settled \cup {p}
         /\ run'.todo = run.todo \ {p} /\ run'.applied = TRUE /\ run'.handled = handled
         /\ run'.pc = run.pc /\ run'.hashing = run.hashing /\ run'.staged = run.staged
         /\ run'.base = run.base /\ run'.exclude = run.exclude
         /\ run'.landing = run.landing
    BY <1>1, <1>3, <2>6, <2>8, <2>9 DEF Run
  <2>. QED BY <1>1, <1>8, <2>1, <2>4, <2>6, <2>8, <2>10
<1>9. ASSUME NEW failed \in SUBSET Sharing(p), p \in failed, run' = [run EXCEPT !.todo = @ \ failed]
      PROVE  /\ run' \in Run /\ run'.todo = run.todo \ failed
             /\ run'.pc = run.pc /\ run'.hashing = run.hashing
             /\ run'.staged = run.staged /\ run'.base = run.base
             /\ run'.cand = run.cand /\ run'.exclude = run.exclude
             /\ run'.handled = run.handled /\ run'.settled = run.settled
             /\ run'.applied = run.applied /\ run'.landing = run.landing
  BY <1>1, <1>9 DEF Run
<1>10. CASE \E failed \in SUBSET Sharing(p) : p \in failed /\ run' = [run EXCEPT !.todo = @ \ failed]
  BY <1>1, <1>9, <1>10
<1>. QED BY <1>4, <1>5, <1>6, <1>7, <1>8, <1>10

LEMMA PullPhaseRun ==
  ASSUME TypeOK
  PROVE  /\ StartPull =>
              /\ run' \in Run /\ run.pc = "local" /\ run.todo = {}
              /\ run'.pc = "pull" /\ run'.todo = ToPull
              /\ run'.hashing = run.hashing /\ run'.staged = run.staged
              /\ run'.base = run.base /\ run'.cand = run.cand
              /\ run'.exclude = run.exclude /\ run'.handled = run.handled
              /\ run'.settled = run.settled /\ run'.applied = run.applied
              /\ run'.landing = run.landing
         /\ PullDone =>
              /\ run' \in Run /\ run.pc = "pull" /\ run.todo = {} /\ run.landing = {}
              /\ run'.pc = IF run.applied THEN "commit" ELSE "adopt"
              /\ run'.todo = run.todo /\ run'.hashing = run.hashing
              /\ run'.staged = run.staged /\ run'.base = run.base
              /\ run'.cand = run.cand /\ run'.exclude = run.exclude
              /\ run'.handled = run.handled /\ run'.settled = run.settled
              /\ run'.applied = run.applied /\ run'.landing = run.landing
<1>1. run \in Run
  BY RunFacts
<1>2. ASSUME StartPull
      PROVE  /\ run' \in Run /\ run.pc = "local" /\ run.todo = {}
             /\ run'.pc = "pull" /\ run'.todo = ToPull
             /\ run'.hashing = run.hashing /\ run'.staged = run.staged
             /\ run'.base = run.base /\ run'.cand = run.cand
             /\ run'.exclude = run.exclude /\ run'.handled = run.handled
             /\ run'.settled = run.settled /\ run'.applied = run.applied
             /\ run'.landing = run.landing
  <2>1. run' = [run EXCEPT !.pc = "pull", !.todo = ToPull] /\ run.pc = "local" /\ run.todo = {}
    BY <1>2 DEF StartPull
  <2>2. ToPull \in SUBSET Paths
    BY DEF ToPull
  <2>. QED BY <1>1, <2>1, <2>2 DEF Run, Pcs
<1>3. ASSUME PullDone
      PROVE  /\ run' \in Run /\ run.pc = "pull" /\ run.todo = {} /\ run.landing = {}
             /\ run'.pc = IF run.applied THEN "commit" ELSE "adopt"
             /\ run'.todo = run.todo /\ run'.hashing = run.hashing
             /\ run'.staged = run.staged /\ run'.base = run.base
             /\ run'.cand = run.cand /\ run'.exclude = run.exclude
             /\ run'.handled = run.handled /\ run'.settled = run.settled
             /\ run'.applied = run.applied /\ run'.landing = run.landing
  <2>1. PICK pc : pc = IF run.applied THEN "commit" ELSE "adopt"
    OBVIOUS
  <2>2. run' = [run EXCEPT !.pc = pc] /\ run.pc = "pull" /\ run.todo = {} /\ run.landing = {}
    BY <1>3, <2>1 DEF PullDone
  <2>3. pc \in Pcs
    BY <2>1 DEF Pcs
  <2>. QED BY <1>1, <2>1, <2>2, <2>3 DEF Run
<1>. QED BY <1>2, <1>3

LEMMA PullRun ==
  ASSUME TypeOK, NEW p \in Paths
  PROVE  /\ PullFile(p) =>
              /\ run' \in Run /\ run.pc = "pull" /\ p \in run.todo
              /\ run'.todo = run.todo \ {p} /\ run'.landing = run.landing \cup {p}
              /\ run'.pc = run.pc /\ run'.hashing = run.hashing
              /\ run'.staged = run.staged /\ run'.base = run.base
              /\ run'.cand = run.cand /\ run'.exclude = run.exclude
              /\ run'.handled = run.handled /\ run'.settled = run.settled
              /\ run'.applied = run.applied
         /\ RecordPulled(p) =>
              /\ run' \in Run /\ run.pc = "pull" /\ p \in run.landing
              /\ run'.landing = run.landing \ {p}
              /\ run'.pc = run.pc /\ run'.todo = run.todo /\ run'.hashing = run.hashing
              /\ run'.staged = run.staged /\ run'.base = run.base
              /\ run'.cand = run.cand /\ run'.exclude = run.exclude
              /\ run'.handled = run.handled /\ run'.settled = run.settled
              /\ run'.applied = run.applied
<1>1. run \in Run
  BY RunFacts
<1>2. ASSUME PullFile(p)
      PROVE  /\ run' \in Run /\ run.pc = "pull" /\ p \in run.todo
             /\ run'.todo = run.todo \ {p} /\ run'.landing = run.landing \cup {p}
             /\ run'.pc = run.pc /\ run'.hashing = run.hashing
             /\ run'.staged = run.staged /\ run'.base = run.base
             /\ run'.cand = run.cand /\ run'.exclude = run.exclude
             /\ run'.handled = run.handled /\ run'.settled = run.settled
             /\ run'.applied = run.applied
  BY <1>1, <1>2 DEF PullFile, Run
<1>3. ASSUME RecordPulled(p)
      PROVE  /\ run' \in Run /\ run.pc = "pull" /\ p \in run.landing
             /\ run'.landing = run.landing \ {p}
             /\ run'.pc = run.pc /\ run'.todo = run.todo /\ run'.hashing = run.hashing
             /\ run'.staged = run.staged /\ run'.base = run.base
             /\ run'.cand = run.cand /\ run'.exclude = run.exclude
             /\ run'.handled = run.handled /\ run'.settled = run.settled
             /\ run'.applied = run.applied
  <2>1. /\ run' = [run EXCEPT !.landing = run.landing \ {p}] /\ run.pc = "pull"
        /\ p \in run.landing
    BY <1>3 DEF RecordPulled
  <2>. QED BY <1>1, <2>1 DEF Run
<1>. QED BY <1>2, <1>3

LEMMA SettleRun ==
  ASSUME TypeOK, NEW p \in Paths
  PROVE  /\ Promote \/ Adopt =>
              /\ run' \in Run /\ run.pc \in {"promote", "adopt"}
              /\ run'.pc = "reconcile" /\ run'.todo = run.settled
              /\ run'.hashing = run.hashing /\ run'.staged = run.staged
              /\ run'.base = run.base /\ run'.cand = run.cand
              /\ run'.exclude = run.exclude /\ run'.handled = run.handled
              /\ run'.settled = run.settled /\ run'.applied = run.applied
              /\ run'.landing = run.landing
         /\ Reconcile(p) =>
              /\ run' \in Run /\ run.pc = "reconcile" /\ p \in run.todo
              /\ run'.todo = run.todo \ {p}
              /\ run'.pc = run.pc /\ run'.hashing = run.hashing
              /\ run'.staged = run.staged /\ run'.base = run.base
              /\ run'.cand = run.cand /\ run'.exclude = run.exclude
              /\ run'.handled = run.handled /\ run'.settled = run.settled
              /\ run'.applied = run.applied /\ run'.landing = run.landing
         /\ ReconcileDone =>
              /\ run' \in Run /\ run.pc = "reconcile" /\ run.todo = {} /\ run'.pc = "done"
              /\ run'.todo = run.todo /\ run'.hashing = run.hashing
              /\ run'.staged = run.staged /\ run'.base = run.base
              /\ run'.cand = run.cand /\ run'.exclude = run.exclude
              /\ run'.handled = run.handled /\ run'.settled = run.settled
              /\ run'.applied = run.applied /\ run'.landing = run.landing
         /\ Commit =>
              \/ run' = Idle
              \/ /\ run' \in Run /\ run.pc = "commit" /\ run'.pc = "promote"
                 /\ remote.version = run.base
                 /\ run'.todo = run.todo /\ run'.hashing = run.hashing
                 /\ run'.staged = run.staged /\ run'.base = run.base
                 /\ run'.cand = run.cand /\ run'.exclude = run.exclude
                 /\ run'.handled = run.handled /\ run'.settled = run.settled
                 /\ run'.applied = run.applied /\ run'.landing = run.landing
<1>1. run \in Run /\ run.settled \in SUBSET Paths
  BY RunFacts
<1>2. ASSUME Promote \/ Adopt
      PROVE  /\ run' \in Run /\ run.pc \in {"promote", "adopt"}
             /\ run'.pc = "reconcile" /\ run'.todo = run.settled
             /\ run'.hashing = run.hashing /\ run'.staged = run.staged
             /\ run'.base = run.base /\ run'.cand = run.cand
             /\ run'.exclude = run.exclude /\ run'.handled = run.handled
             /\ run'.settled = run.settled /\ run'.applied = run.applied
             /\ run'.landing = run.landing
  <2>1. /\ run' = [run EXCEPT !.pc = "reconcile", !.todo = run.settled]
        /\ run.pc \in {"promote", "adopt"}
    BY <1>2 DEF Promote, Adopt
  <2>. QED BY <1>1, <2>1 DEF Run, Pcs
<1>3. ASSUME Reconcile(p)
      PROVE  /\ run' \in Run /\ run.pc = "reconcile" /\ p \in run.todo
             /\ run'.todo = run.todo \ {p}
             /\ run'.pc = run.pc /\ run'.hashing = run.hashing
             /\ run'.staged = run.staged /\ run'.base = run.base
             /\ run'.cand = run.cand /\ run'.exclude = run.exclude
             /\ run'.handled = run.handled /\ run'.settled = run.settled
             /\ run'.applied = run.applied /\ run'.landing = run.landing
  <2>1. /\ run' = [run EXCEPT !.todo = run.todo \ {p}] /\ run.pc = "reconcile"
        /\ p \in run.todo
    BY <1>3 DEF Reconcile
  <2>. QED BY <1>1, <2>1 DEF Run
<1>4. ASSUME ReconcileDone
      PROVE  /\ run' \in Run /\ run.pc = "reconcile" /\ run.todo = {} /\ run'.pc = "done"
             /\ run'.todo = run.todo /\ run'.hashing = run.hashing
             /\ run'.staged = run.staged /\ run'.base = run.base
             /\ run'.cand = run.cand /\ run'.exclude = run.exclude
             /\ run'.handled = run.handled /\ run'.settled = run.settled
             /\ run'.applied = run.applied /\ run'.landing = run.landing
  BY <1>1, <1>4 DEF ReconcileDone, Run, Pcs
<1>5. ASSUME Commit, run' # Idle
      PROVE  /\ run' \in Run /\ run.pc = "commit" /\ run'.pc = "promote"
             /\ remote.version = run.base
             /\ run'.todo = run.todo /\ run'.hashing = run.hashing
             /\ run'.staged = run.staged /\ run'.base = run.base
             /\ run'.cand = run.cand /\ run'.exclude = run.exclude
             /\ run'.handled = run.handled /\ run'.settled = run.settled
             /\ run'.applied = run.applied /\ run'.landing = run.landing
  BY <1>1, <1>5 DEF Commit, Run, Pcs, End
<1>. QED BY <1>2, <1>3, <1>4, <1>5

LEMMA EditTree ==
  ASSUME TypeOK, NEW p \in Paths, ClockOK(p), Edit(p)
  PROVE  /\ tree' \in [Paths -> File] /\ \A q \in Paths \ {p} : tree'[q] = tree[q]
         /\ \/ tree'[p] = NoFile
            \/ /\ tree'[p].real \in Contents /\ tree'[p].rtime = NewMtime(p)
               /\ tree'[p].stub = tree[p].stub /\ tree'[p].stime = tree[p].stime
<1>1. tree \in [Paths -> File] /\ tree[p] \in File /\ NoFile \in File
  BY NoRowFacts DEF TypeOK
<1>2. CASE tree' = [tree EXCEPT ![p] = NoFile]
  BY <1>1, <1>2
<1>3. ASSUME NEW c \in Contents, tree' = [tree EXCEPT ![p].real = c, ![p].rtime = NewMtime(p)]
      PROVE  /\ tree' \in [Paths -> File] /\ \A q \in Paths \ {p} : tree'[q] = tree[q]
             /\ tree'[p].real = c /\ tree'[p].rtime = NewMtime(p)
             /\ tree'[p].stub = tree[p].stub /\ tree'[p].stime = tree[p].stime
  <2>1. PICK f : f = [tree[p] EXCEPT !.real = c, !.rtime = NewMtime(p)]
    OBVIOUS
  <2>2. /\ f \in File /\ f.real = c /\ f.rtime = NewMtime(p)
        /\ f.stub = tree[p].stub /\ f.stime = tree[p].stime
    BY <1>1, <2>1, NewMtimeFacts DEF File
  <2>3. tree' = [tree EXCEPT ![p] = f]
    BY <1>1, <1>3, <2>1
  <2>. QED BY <1>1, <2>2, <2>3
<1>. QED BY <1>2, <1>3 DEF Edit

LEMMA WalkTree ==
  ASSUME TypeOK, NEW p \in Paths, ClockOK(p), WalkPath(p)
  PROVE  /\ tree' \in [Paths -> File] /\ \A q \in Paths \ {p} : tree'[q] = tree[q]
         /\ tree'[p].real = tree[p].real /\ tree'[p].rtime = tree[p].rtime
         /\ \/ tree'[p].stub = tree[p].stub /\ tree'[p].stime = tree[p].stime
            \/ tree'[p].stub = None /\ tree'[p].stime = 0
<1>1. tree \in [Paths -> File] /\ tree[p] \in File
  BY DEF TypeOK
<1>2. CASE tree' = tree
  BY <1>1, <1>2
<1>3. CASE tree' = [tree EXCEPT ![p].stub = None, ![p].stime = 0]
  <2>1. PICK f : f = [tree[p] EXCEPT !.stub = None, !.stime = 0]
    OBVIOUS
  <2>2. /\ f \in File /\ f.stub = None /\ f.stime = 0
        /\ f.real = tree[p].real /\ f.rtime = tree[p].rtime
    BY <1>1, <2>1 DEF File
  <2>3. tree' = [tree EXCEPT ![p] = f]
    BY <1>1, <1>3, <2>1
  <2>. QED BY <1>1, <2>2, <2>3
<1>. QED BY <1>2, <1>3, WalkRun

LEMMA PullTree ==
  ASSUME TypeOK, NEW p \in Paths, ClockOK(p), PullFile(p)
  PROVE  LET hash == run.cand.entries[p].hash
         IN /\ tree' \in [Paths -> File] /\ \A q \in Paths \ {p} : tree'[q] = tree[q]
            /\ \/ hash = None /\ tree'[p] = NoFile
               \/ /\ hash \in Contents /\ AsStub(p)
                  /\ tree'[p].stub = hash /\ tree'[p].stime = NewMtime(p)
                  /\ tree'[p].real = tree[p].real /\ tree'[p].rtime = tree[p].rtime
               \/ /\ hash \in Contents /\ ~AsStub(p)
                  /\ tree'[p].real = hash /\ tree'[p].rtime = NewMtime(p)
                  /\ tree'[p].stub = tree[p].stub /\ tree'[p].stime = tree[p].stime
<1>. DEFINE hash == run.cand.entries[p].hash
<1>1. /\ tree \in [Paths -> File] /\ tree[p] \in File /\ NoFile \in File
      /\ hash \in Contents \cup {None} /\ tree' = [tree EXCEPT ![p] = PulledFile(p, hash)]
  BY NoRowFacts, PathFacts, EntryFacts DEF TypeOK, PullFile
<1>2. CASE hash = None
  BY <1>1, <1>2 DEF PulledFile
<1>3. CASE hash # None /\ AsStub(p)
  <2>1. PICK f : f = [tree[p] EXCEPT !.stub = hash, !.stime = NewMtime(p)]
    OBVIOUS
  <2>2. /\ f \in File /\ f.stub = hash /\ f.stime = NewMtime(p)
        /\ f.real = tree[p].real /\ f.rtime = tree[p].rtime
    BY <1>1, <2>1, NewMtimeFacts DEF File
  <2>3. tree' = [tree EXCEPT ![p] = f]
    BY <1>1, <1>3, <2>1 DEF PulledFile
  <2>. QED BY <1>1, <1>3, <2>2, <2>3
<1>4. CASE hash # None /\ ~AsStub(p)
  <2>1. PICK f : f = [tree[p] EXCEPT !.real = hash, !.rtime = NewMtime(p)]
    OBVIOUS
  <2>2. /\ f \in File /\ f.real = hash /\ f.rtime = NewMtime(p)
        /\ f.stub = tree[p].stub /\ f.stime = tree[p].stime
    BY <1>1, <2>1, NewMtimeFacts DEF File
  <2>3. tree' = [tree EXCEPT ![p] = f]
    BY <1>1, <1>4, <2>1 DEF PulledFile
  <2>. QED BY <1>1, <1>4, <2>2, <2>3
<1>. QED BY <1>2, <1>3, <1>4

(* A commit of another machine moves the vault, to entries of its own stamp.*)
LEMMA OthersStep ==
  ASSUME TypeOK, OtherCommits
  PROVE  /\ remote' \in Vault /\ remote'.version = minted + 1
         /\ minted' = minted + 1 /\ minted' \in Stamps
         /\ history' \in [Paths -> SUBSET Entry]
         /\ \A p \in Paths :
              \/ /\ history'[p] = history[p]
                 /\ remote'.entries[p] = remote.entries[p] \/ remote'.entries[p] = NoEntry
              \/ \E e \in Entry : /\ e.version = minted + 1 /\ remote'.entries[p] = e
                                  /\ history'[p] = history[p] \cup {e}
<1>1. /\ remote \in Vault /\ minted' = minted + 1 /\ minted' \in Stamps
      /\ history \in [Paths -> SUBSET Entry]
      /\ remote.entries \in [Paths -> Entry \cup {NoEntry}] /\ remote.objs \in SUBSET Contents
  <2>1. remote \in Vault /\ history \in [Paths -> SUBSET Entry] /\ minted \in Stamps
    BY DEF TypeOK
  <2>2. minted < MaxStamps /\ minted' = minted + 1
    BY DEF OtherCommits
  <2>3. minted' \in Stamps
    BY <2>1, <2>2, StampsAssumption DEF Stamps
  <2>. QED BY <2>1, <2>2, <2>3, VaultFacts
<1>2. ASSUME NEW v, NEW objs \in SUBSET Contents, NEW entries \in [Paths -> Entry \cup {NoEntry}],
             v = [remote EXCEPT !.version = minted + 1, !.entries = entries, !.objs = objs]
      PROVE  v \in Vault /\ v.version = minted + 1 /\ v.entries = entries
  BY <1>1, <1>2 DEF Vault
<1>3. ASSUME NEW q \in Paths, NEW c \in Contents,
             remote' = [remote EXCEPT !.version = minted + 1,
                                      !.entries[q] = [hash |-> c, version |-> minted + 1],
                                      !.objs = @ \cup {c}],
             history' = [history EXCEPT ![q] = @ \cup {[hash |-> c, version |-> minted + 1]}]
      PROVE  /\ remote' \in Vault /\ remote'.version = minted + 1
             /\ history' \in [Paths -> SUBSET Entry]
             /\ \A p \in Paths :
                  \/ history'[p] = history[p] /\ remote'.entries[p] = remote.entries[p]
                  \/ \E e \in Entry : /\ e.version = minted + 1 /\ remote'.entries[p] = e
                                      /\ history'[p] = history[p] \cup {e}
  <2>1. PICK e : e = [hash |-> c, version |-> minted + 1]
    OBVIOUS
  <2>2. e \in Entry /\ e.version = minted + 1
    BY <1>1, <2>1 DEF Entry
  <2>3. PICK entries : entries = [remote.entries EXCEPT ![q] = e]
    OBVIOUS
  <2>4. /\ entries \in [Paths -> Entry \cup {NoEntry}] /\ entries[q] = e
        /\ \A p \in Paths \ {q} : entries[p] = remote.entries[p]
    BY <1>1, <2>2, <2>3
  <2>5. remote' = [remote EXCEPT !.version = minted + 1, !.entries = entries,
                                 !.objs = remote.objs \cup {c}]
    BY <1>1, <1>3, <2>1, <2>3
  <2>6. remote' \in Vault /\ remote'.version = minted + 1 /\ remote'.entries = entries
    <3>1. remote.objs \cup {c} \in SUBSET Contents
      BY <1>1
    <3>. QED BY <1>2, <2>4, <2>5, <3>1
  <2>7. history' = [history EXCEPT ![q] = history[q] \cup {e}]
    BY <1>3, <2>1
  <2>8. /\ history' \in [Paths -> SUBSET Entry] /\ history'[q] = history[q] \cup {e}
        /\ \A p \in Paths \ {q} : history'[p] = history[p]
    BY <1>1, <2>2, <2>7
  <2>. QED BY <2>2, <2>4, <2>6, <2>8
<1>4. ASSUME NEW q \in Paths,
             remote' = [remote EXCEPT !.version = minted + 1, !.entries[q] = NoEntry]
      PROVE  /\ remote' \in Vault /\ remote'.version = minted + 1
             /\ \A p \in Paths : \/ remote'.entries[p] = remote.entries[p]
                                 \/ remote'.entries[p] = NoEntry
  <2>1. PICK entries : entries = [remote.entries EXCEPT ![q] = NoEntry]
    OBVIOUS
  <2>2. /\ entries \in [Paths -> Entry \cup {NoEntry}] /\ entries[q] = NoEntry
        /\ \A p \in Paths \ {q} : entries[p] = remote.entries[p]
    BY <1>1, <2>1
  <2>3. remote' = [remote EXCEPT !.version = minted + 1, !.entries = entries,
                                 !.objs = remote.objs]
    BY <1>1, <1>4, <2>1 DEF Vault
  <2>4. remote' \in Vault /\ remote'.version = minted + 1 /\ remote'.entries = entries
    BY <1>1, <1>2, <2>2, <2>3
  <2>. QED BY <2>2, <2>4
<1>5. CASE remote' = [remote EXCEPT !.version = minted + 1] /\ UNCHANGED history
  BY <1>1, <1>5 DEF Vault
<1>6. CASE /\ remote' = [remote EXCEPT !.version = minted + 1,
                                       !.objs = {remote.entries[p].hash : p \in Paths} \ {None}]
           /\ UNCHANGED history
  <2>1. PICK objs : objs = {remote.entries[p].hash : p \in Paths} \ {None}
    OBVIOUS
  <2>2. \A p \in Paths : remote.entries[p].hash \in Contents \cup {None}
    BY <1>1, EntryFacts
  <2>3. objs \in SUBSET Contents
    BY <2>1, <2>2
  <2>4. remote' = [remote EXCEPT !.version = minted + 1, !.objs = objs]
    BY <1>6, <2>1
  <2>. QED BY <1>1, <1>6, <2>3, <2>4 DEF Vault
<1>. QED BY <1>1, <1>3, <1>4, <1>5, <1>6 DEF OtherCommits

(***************************************************************************)
(* Types.                                                                  *)
(***************************************************************************)

LEMMA InvFacts ==
  ASSUME Inv, NEW p \in Paths
  PROVE  ClockOK(p) /\ SeenOK(p) /\ SettledOK(p) /\ PathsOK(p) /\ WriteOK(p)
BY DEF Inv, SyncOK

(* The row of a path the sync is at is dirty and has the shape of its state.*)
LEMMA LocalDirty ==
  ASSUME TypeOK, Inv, NEW p \in Paths, LocalRow(p)
  PROVE  Dirty(cache[p]) /\ RowShape(cache[p]) /\ p \in run.exclude \ run.settled
<1>1. run.pc = "local" /\ p \in run.todo
  BY DEF LocalRow
<1>2. p \in run.exclude \ run.settled
  BY <1>1, InvFacts DEF PathsOK
<1>. QED BY <1>1, <1>2, InvFacts DEF PathsOK, Syncing, Cleaned, ClockOK

(* A handled row becomes the row of the entry the sync settled on.          *)
LEMMA ReconciledRowFacts ==
  ASSUME TypeOK, Inv, NEW p \in Paths, Reconcile(p)
  PROVE  LET row == ReconciledRow(p)
             e == run.cand.entries[p]
         IN /\ row \in Row \cup {NoRow} /\ e \in history[p] \cup {NoEntry}
            /\ p \in run.settled
            /\ \/ cache[p].state = "deleted" /\ row = NoRow /\ e = NoEntry
               \/ /\ cache[p].state # "deleted" /\ row.state = "unchanged" /\ e # NoEntry
                  /\ row.hash = cache[p].hash /\ row.mtime = cache[p].mtime
                  /\ e = [hash |-> row.hash, version |-> row.parent]
                  /\ row.hash \in Contents
<1>. DEFINE row == ReconciledRow(p)
            e == run.cand.entries[p]
            old == cache[p]
<1>1. run.pc = "reconcile" /\ p \in run.todo
  BY DEF Reconcile
<1>2. p \in run.settled /\ ~Cleaned(p)
  BY <1>1, InvFacts DEF PathsOK, Cleaned
<1>3. p \in run.exclude /\ Dirty(cache[p]) /\ RowShape(cache[p])
  BY <1>1, <1>2, InvFacts DEF PathsOK, Settling, ClockOK
<1>4. /\ e = IF old.state = "deleted" THEN NoEntry
             ELSE [hash |-> old.hash, version |-> run.handled[p]]
      /\ e \in history[p] \cup {NoEntry}
  BY <1>1, <1>2, InvFacts DEF SettledOK
<1>5. CASE old.state = "deleted"
  BY <1>2, <1>4, <1>5 DEF ReconciledRow
<1>6. CASE old.state # "deleted"
  <2>1. old.hash \in Contents /\ old \in Row
    BY <1>3, <1>6, PathFacts, NoRowFacts DEF Dirty, RowShape
  <2>2. e \in Entry /\ e.version = run.handled[p] /\ e # NoEntry
    BY <1>4, <1>6, <2>1, PathFacts, NoRowFacts, NoneAssumption
  <2>3. run.handled[p] \in Stamps
    BY <2>2 DEF Entry
  <2>4. row = [old EXCEPT !.state = "unchanged", !.parent = run.handled[p]]
    BY <1>6 DEF ReconciledRow
  <2>5. /\ row \in Row /\ row.state = "unchanged" /\ row.hash = old.hash
        /\ row.mtime = old.mtime /\ row.parent = run.handled[p]
    BY <2>1, <2>3, <2>4 DEF Row, States
  <2>. QED BY <1>2, <1>4, <1>6, <2>1, <2>2, <2>5
<1>. QED BY <1>5, <1>6

LEMMA RunType ==
  ASSUME TypeOK, Inv, [Next]_vars
  PROVE  run' \in Run
<1>1. run \in Run /\ Idle \in Run
  BY RunFacts, IdleFacts
<1>2. ASSUME Command PROVE run' \in Run
  <2>1. CASE Start \/ ApplyStagedRows \/ Fetch \/ OutOfStamps
    BY <1>1, <2>1, StartRun, ApplyRun, FetchRun DEF OutOfStamps, End
  <2>2. CASE StartPull \/ PullDone \/ \E p \in Paths : PullFile(p) \/ RecordPulled(p)
    BY <2>2, PullPhaseRun, PullRun
  <2>3. CASE Commit
    BY <1>1, <2>3 DEF Commit, End, Run, Pcs
  <2>4. CASE Promote \/ Adopt
    <3>1. run' = [run EXCEPT !.pc = "reconcile", !.todo = run.settled]
      BY <2>4 DEF Promote, Adopt
    <3>. QED BY <1>1, <3>1, RunFacts DEF Run, Pcs
  <2>5. CASE ReconcileDone \/ Report
    BY <1>1, <2>5 DEF ReconcileDone, Report, End, Run, Pcs
  <2>6. ASSUME NEW p \in Paths, WalkPath(p) \/ HashPath(p) \/ ScanFails(p) \/ LocalRow(p) \/ Reconcile(p)
        PROVE  run' \in Run
    <3>1. ClockOK(p)
      BY InvFacts
    <3>2. CASE WalkPath(p)
      BY <3>1, <3>2, WalkRun
    <3>3. CASE HashPath(p)
      BY <1>1, <3>1, <3>3, HashRun DEF HashPath, End
    <3>4. CASE ScanFails(p)
      BY <1>1, <3>4 DEF ScanFails, End
    <3>5. CASE LocalRow(p)
      BY <3>5, LocalDirty, LocalRun
    <3>6. CASE Reconcile(p)
      BY <3>6, SettleRun
    <3>. QED BY <2>6, <3>2, <3>3, <3>4, <3>5, <3>6
  <2>. QED BY <1>2, <2>1, <2>2, <2>3, <2>4, <2>5, <2>6 DEF Command
<1>3. ASSUME ~Command, run' # run PROVE run' \in Run
  BY <1>1, <1>3 DEF Next, Crash, End, OtherCommits, Edit, vars
<1>. QED BY <1>1, <1>2, <1>3

LEMMA CacheType ==
  ASSUME TypeOK, Inv, [Next]_vars
  PROVE  cache' \in [Paths -> Row \cup {NoRow}]
<1>1. cache \in [Paths -> Row \cup {NoRow}]
  BY DEF TypeOK
<1>2. ASSUME NEW p \in Paths, NEW row \in Row \cup {NoRow}, cache' = [cache EXCEPT ![p] = row]
      PROVE  cache' \in [Paths -> Row \cup {NoRow}]
  BY <1>1, <1>2
<1>3. CASE ApplyStagedRows
  BY <1>1, <1>3, ApplyRun, PathFacts
<1>4. ASSUME NEW p \in Paths, RecordPulled(p) PROVE cache' \in [Paths -> Row \cup {NoRow}]
  <2>. DEFINE e == run.cand.entries[p]
              mtime == IF AsStub(p) THEN tree[p].stime ELSE tree[p].rtime
              row == IF e = NoEntry THEN NoRow
                     ELSE [state |-> "unchanged", hash |-> e.hash, mtime |-> mtime,
                           parent |-> e.version]
  <2>1. mtime \in Mtimes \cup {0}
    BY PathFacts, FileFacts
  <2>2. row \in Row \cup {NoRow}
    <3>. HIDE DEF mtime
    <3>1. CASE e = NoEntry
      BY <3>1
    <3>2. CASE e # NoEntry
      BY <2>1, <3>2, PathFacts, EntryFacts DEF Row, States
    <3>. QED BY <3>1, <3>2
  <2>3. cache' = [cache EXCEPT ![p] = row]
    BY <1>4 DEF RecordPulled
  <2>. HIDE DEF row
  <2>. QED BY <1>2, <2>2, <2>3
<1>5. ASSUME NEW p \in Paths, Reconcile(p) PROVE cache' \in [Paths -> Row \cup {NoRow}]
  <2>1. ReconciledRow(p) \in Row \cup {NoRow}
    BY <1>5, ReconciledRowFacts
  <2>. QED BY <1>2, <1>5, <2>1 DEF Reconcile
<1>6. CASE cache' = cache
  BY <1>1, <1>6
<1>7. CASE /\ ~ApplyStagedRows
           /\ \A p \in Paths : ~RecordPulled(p) /\ ~Reconcile(p)
  <2>1. cache' = cache
    BY <1>7 DEF Next, Command, Start, Fetch, OutOfStamps, StartPull, PullDone, Commit, Promote,
                Adopt, ReconcileDone, Report, WalkPath, HashPath, ScanFails, LocalRow, PullFile,
                Crash, OtherCommits, Edit, vars, diskVars
  <2>. QED BY <1>6, <2>1
<1>. QED BY <1>3, <1>4, <1>5, <1>7

LEMMA TreeType ==
  ASSUME TypeOK, Inv, [Next]_vars
  PROVE  tree' \in [Paths -> File]
<1>1. tree \in [Paths -> File]
  BY DEF TypeOK
<1>2. ASSUME NEW p \in Paths, WalkPath(p) \/ PullFile(p) \/ Edit(p)
      PROVE  tree' \in [Paths -> File]
  BY <1>2, InvFacts, WalkTree, PullTree, EditTree
<1>3. CASE \A p \in Paths : ~WalkPath(p) /\ ~PullFile(p) /\ ~Edit(p)
  <2>1. tree' = tree
    BY <1>3 DEF Next, Command, Start, ApplyStagedRows, Fetch, OutOfStamps, StartPull, PullDone,
                Commit, Promote, Adopt, ReconcileDone, Report, HashPath, ScanFails, LocalRow,
                RecordPulled, Reconcile, Crash, OtherCommits, vars, diskVars
  <2>. QED BY <1>1, <2>1
<1>. QED BY <1>2, <1>3

LEMMA CommitStep ==
  ASSUME TypeOK, Commit
  PROVE  /\ remote' = run.cand \/ remote' = remote
         /\ history' \in [Paths -> SUBSET Entry] /\ seen' \in [Paths -> SUBSET Entry]
         /\ remote.version # run.base =>
              /\ remote' = remote /\ history' = history /\ seen' = seen /\ run' = Idle
         /\ remote.version = run.base =>
              /\ remote' = run.cand
              /\ \A p \in Paths :
                   LET e == run.cand.entries[p]
                   IN /\ history'[p] = history[p] \cup ({e} \ {NoEntry})
                      /\ seen'[p] = IF Written(p) THEN seen[p] \cup ({e} \ {NoEntry}) ELSE seen[p]
<1>1. /\ history \in [Paths -> SUBSET Entry] /\ seen \in [Paths -> SUBSET Entry]
      /\ run.cand.entries \in [Paths -> Entry \cup {NoEntry}]
  BY RunFacts, VaultFacts DEF TypeOK
<1>2. CASE remote.version # run.base
  BY <1>1, <1>2 DEF Commit, End
<1>3. CASE remote.version = run.base
  <2>1. /\ remote' = run.cand
        /\ history' = [p \in Paths |-> history[p] \cup ({run.cand.entries[p]} \ {NoEntry})]
        /\ seen' = [p \in Paths |->
                      IF Written(p) THEN seen[p] \cup ({run.cand.entries[p]} \ {NoEntry})
                      ELSE seen[p]]
    BY <1>3 DEF Commit
  <2>2. \A p \in Paths : {run.cand.entries[p]} \ {NoEntry} \in SUBSET Entry
    BY <1>1
  <2>3. history' \in [Paths -> SUBSET Entry] /\ seen' \in [Paths -> SUBSET Entry]
    BY <1>1, <2>1, <2>2
  <2>. QED BY <1>3, <2>1, <2>3
<1>. QED BY <1>2, <1>3

LEMMA SeenType ==
  ASSUME TypeOK, Inv, [Next]_vars
  PROVE  history' \in [Paths -> SUBSET Entry] /\ seen' \in [Paths -> SUBSET Entry]
<1>1. history \in [Paths -> SUBSET Entry] /\ seen \in [Paths -> SUBSET Entry]
  BY DEF TypeOK
<1>2. CASE Commit
  BY <1>2, CommitStep
<1>3. CASE OtherCommits
  BY <1>1, <1>3, OthersStep DEF OtherCommits
<1>4. ASSUME NEW p \in Paths, RecordPulled(p) \/ Reconcile(p)
      PROVE  history' \in [Paths -> SUBSET Entry] /\ seen' \in [Paths -> SUBSET Entry]
  <2>1. {run.cand.entries[p]} \ {NoEntry} \in SUBSET Entry
    BY PathFacts
  <2>2. seen' = [seen EXCEPT ![p] = @ \cup ({run.cand.entries[p]} \ {NoEntry})] /\ history' = history
    BY <1>4 DEF RecordPulled, Reconcile
  <2>. QED BY <1>1, <2>1, <2>2
<1>5. CASE /\ ~Commit /\ ~OtherCommits
           /\ \A p \in Paths : ~RecordPulled(p) /\ ~Reconcile(p)
  <2>1. history' = history /\ seen' = seen
    BY <1>5 DEF Next, Command, Start, ApplyStagedRows, Fetch, OutOfStamps, StartPull, PullDone,
                Promote, Adopt, ReconcileDone, Report, WalkPath, HashPath, ScanFails, LocalRow,
                PullFile, Crash, Edit, vars, ghostVars
  <2>. QED BY <1>1, <2>1
<1>. QED BY <1>2, <1>3, <1>4, <1>5

LEMMA VaultType ==
  ASSUME TypeOK, Inv, [Next]_vars
  PROVE  /\ remote' \in Vault /\ minted' \in Stamps /\ known' \subseteq Contents
         /\ lastSynced' \in Stamps
<1>1. /\ remote \in Vault /\ minted \in Stamps /\ known \subseteq Contents /\ lastSynced \in Stamps
      /\ run.cand \in Vault /\ run.base \in Stamps /\ run.cand.version \in Stamps
      /\ run.cand.objs \subseteq Contents
  BY RunFacts, VaultFacts DEF TypeOK
<1>2. CASE Commit
  BY <1>1, <1>2, CommitStep DEF Commit, diskVars
<1>3. CASE OtherCommits
  BY <1>1, <1>3, OthersStep DEF OtherCommits, diskVars
<1>4. CASE Fetch
  BY <1>1, <1>4, FetchRun DEF Fetch, diskVars
<1>5. CASE Promote \/ Adopt
  BY <1>1, <1>5 DEF Promote, Adopt
<1>6. CASE ~Commit /\ ~OtherCommits /\ ~Fetch /\ ~Promote /\ ~Adopt
  <2>1. remote' = remote /\ minted' = minted /\ known' = known /\ lastSynced' = lastSynced
    BY <1>6 DEF Next, Command, Start, ApplyStagedRows, OutOfStamps, StartPull, PullDone,
                ReconcileDone, Report, WalkPath, HashPath, ScanFails, LocalRow,
                PullFile, RecordPulled, Reconcile, Crash, Edit, vars, diskVars
  <2>. QED BY <1>1, <2>1
<1>. QED BY <1>2, <1>3, <1>4, <1>5, <1>6

LEMMA CountersType ==
  ASSUME TypeOK, [Next]_vars
  PROVE  edits' \in 0..MaxEdits /\ others' \in 0..MaxOthers /\ faults' \in 0..MaxFaults
<1>1. edits \in 0..MaxEdits /\ others \in 0..MaxOthers /\ faults \in 0..MaxFaults
  BY DEF TypeOK
<1>2. ASSUME Command PROVE edits' = edits /\ others' = others /\ faults' = faults
  BY <1>2 DEF Command, Start, ApplyStagedRows, Fetch, OutOfStamps, StartPull, PullDone, Commit,
              Promote, Adopt, ReconcileDone, Report, WalkPath, HashPath, ScanFails, LocalRow,
              PullFile, RecordPulled, Reconcile, ghostVars
<1>3. CASE Command
  BY <1>1, <1>2, <1>3
<1>4. CASE Crash
  BY <1>1, <1>4, BoundsAssumption DEF Crash
<1>5. CASE OtherCommits
  <2>1. others < MaxOthers /\ others' = others + 1 /\ edits' = edits /\ faults' = faults
    BY <1>5 DEF OtherCommits
  <2>. QED BY <1>1, <2>1, BoundsAssumption
<1>6. ASSUME NEW p \in Paths, Edit(p)
      PROVE  edits' \in 0..MaxEdits /\ others' \in 0..MaxOthers /\ faults' \in 0..MaxFaults
  BY <1>1, <1>6, BoundsAssumption DEF Edit
<1>7. CASE UNCHANGED vars
  BY <1>1, <1>7 DEF vars
<1>. QED BY <1>3, <1>4, <1>5, <1>6, <1>7 DEF Next

LEMMA TypeStep ==
  ASSUME TypeOK, Inv, [Next]_vars
  PROVE  TypeOK'
BY RunType, CacheType, TreeType, SeenType, VaultType, CountersType DEF TypeOK

(***************************************************************************)
(* Preservation of ClockOK.                                                *)
(***************************************************************************)

LEMMA ClockFrame ==
  ASSUME NEW p \in Paths, ClockOK(p),
         tree'[p] = tree[p], cache'[p] = cache[p],
         run'.staged[p] = run.staged[p], run'.hashing[p] = run.hashing[p],
         run.pc = "scan" /\ run.hashing[p] # 0 => run'.pc = "scan",
         run'.pc = "scan" /\ p \in run'.todo => run.pc = "scan" /\ p \in run.todo,
         p \in run'.landing => /\ p \in run.landing /\ run'.pc = "pull"
                               /\ run'.cand.entries[p] = run.cand.entries[p]
  PROVE  ClockOK(p)'
<1>1. p \in run'.landing => Landed(p)'
  BY DEF ClockOK, Landed, AsStub
<1>. QED BY <1>1 DEF ClockOK, TimeTells, Both

(* A command that starts or ends, or the next part of one.                  *)
LEMMA ClockReset ==
  ASSUME NEW p \in Paths, ClockOK(p),
         tree'[p] = tree[p], cache'[p] = cache[p] \/ cache'[p] = run.staged[p],
         run'.staged[p] = NoRow, run'.hashing[p] = 0, run'.landing = {}
  PROVE  ClockOK(p)'
BY NoRowFacts DEF ClockOK, TimeTells, Both, RowShape

(* A file that is there keeps its time, or gets one that nothing records.   *)
LEMMA ClockScan ==
  ASSUME TypeOK, Inv, NEW p \in Paths, NEW q \in Paths,
         WalkPath(q) \/ HashPath(q) \/ ScanFails(q)
  PROVE  ClockOK(p)'
<1>1. ClockOK(p) /\ ClockOK(q) /\ SeenOK(q) /\ tree[p] \in File
  BY InvFacts, PathFacts
<1>2. CASE ScanFails(q)
  BY <1>1, <1>2, ClockReset, IdleFacts DEF ScanFails, End, diskVars
<1>3. CASE WalkPath(q)
  <2>1. cache' = cache
    BY <1>3 DEF WalkPath
  <2>2. CASE p # q
    <3>1. /\ tree'[p] = tree[p] /\ run'.staged[p] = run.staged[p]
          /\ run'.hashing[p] = run.hashing[p] /\ run'.pc = run.pc
          /\ run'.todo = run.todo \ {q} /\ run'.landing = run.landing /\ run'.cand = run.cand
      BY <1>1, <1>3, <2>2, WalkRun, WalkTree
    <3>. QED BY <1>1, <2>1, <3>1, ClockFrame DEF ClockOK
  <2>3. CASE p = q
    <3>1. /\ run'.pc = "scan" /\ run.pc = "scan" /\ p \in run.todo
          /\ run'.todo = run.todo \ {p} /\ run'.landing = run.landing
          /\ p \notin run.landing /\ run.hashing[p] = 0 /\ run.staged[p] = NoRow
      BY <1>1, <1>3, <2>3, WalkRun DEF ClockOK
    <3>2. CASE /\ tree[p] = NoFile /\ tree' = tree
               /\ run'.hashing[p] = run.hashing[p] /\ run'.staged[p] = MissingRow(p)
      BY <1>1, <2>1, <3>1, <3>2, MissingRowTypes, NoRowFacts DEF ClockOK, TimeTells, RowShape, Both
    <3>3. CASE /\ tree' = tree
               /\ run'.hashing[p] = run.hashing[p] /\ run'.staged[p] = run.staged[p]
      BY <1>1, <2>1, <3>1, <3>3, ClockFrame
    <3>4. CASE /\ tree[p].real = None /\ tree[p].stub # None /\ tree' = tree
               /\ run'.hashing[p] = run.hashing[p]
               /\ run'.staged[p] = FoundRow(p, tree[p].stub, tree[p].stime)
      <4>1. tree[p].stub \in Contents /\ tree[p].stime \in Mtimes
        BY <1>1, <3>4, FileFacts DEF ClockOK
      <4>2. PICK row : row = FoundRow(p, tree[p].stub, tree[p].stime)
        OBVIOUS
      <4>3. row.hash = tree[p].stub /\ row.mtime = tree[p].stime /\ RowShape(row)
        BY <1>1, <4>1, <4>2, FoundRowTypes DEF ClockOK
      <4>4. TimeTells(tree[p], row)
        BY <3>4, <4>3 DEF TimeTells
      <4>. QED BY <1>1, <2>1, <3>1, <3>4, <4>2, <4>3, <4>4 DEF ClockOK, Both
    <3>5. CASE /\ tree[p].real # None
               /\ run'.hashing[p] = tree[p].rtime /\ run'.staged[p] = run.staged[p]
               /\ tree' = [tree EXCEPT ![p].stub = None, ![p].stime = 0]
      <4>1. tree'[p].stub = None /\ tree'[p].stime = 0
        <5>1. tree \in [Paths -> File] /\ tree[p] \in File
          BY DEF TypeOK
        <5>2. PICK f : f = [tree[p] EXCEPT !.stub = None, !.stime = 0]
          OBVIOUS
        <5>3. f.stub = None /\ f.stime = 0 /\ tree' = [tree EXCEPT ![p] = f]
          BY <3>5, <5>1, <5>2 DEF File
        <5>. QED BY <5>1, <5>3
      <4>2. tree'[p].real = tree[p].real /\ tree'[p].rtime = tree[p].rtime
        BY <1>1, <1>3, <2>3, WalkTree
      <4>. QED BY <1>1, <2>1, <3>1, <3>5, <4>1, <4>2 DEF ClockOK, TimeTells, Both
    <3>. QED BY <1>1, <1>3, <2>3, <3>2, <3>3, <3>4, <3>5, WalkRun
  <2>. QED BY <2>2, <2>3
<1>4. CASE HashPath(q)
  <2>1. cache' = cache /\ tree' = tree
    BY <1>4 DEF HashPath, diskVars
  <2>2. CASE tree[q].real = None
    BY <1>1, <1>4, <2>1, <2>2, ClockReset, IdleFacts DEF HashPath, End
  <2>3. CASE tree[q].real # None /\ p # q
    <3>1. /\ run'.staged[p] = run.staged[p] /\ run'.hashing[p] = run.hashing[p]
          /\ run'.pc = run.pc /\ run'.todo = run.todo /\ run'.landing = run.landing
          /\ run'.cand = run.cand
      BY <1>1, <1>4, <2>3, HashRun
    <3>. QED BY <1>1, <2>1, <3>1, ClockFrame DEF ClockOK
  <2>4. CASE tree[q].real # None /\ p = q
    <3>1. PICK row : row = FoundRow(p, tree[p].real, run.hashing[p])
      OBVIOUS
    <3>2. /\ run'.pc = "scan" /\ run.pc = "scan" /\ run.hashing[p] # 0
          /\ run'.todo = run.todo /\ run'.landing = run.landing
          /\ run'.hashing[p] = 0 /\ run'.staged[p] = row
          /\ tree[p].real \in Contents /\ run.hashing[p] \in Mtimes
      BY <1>1, <1>4, <2>4, <3>1, HashRun
    <3>3. row.hash = tree[p].real /\ row.mtime = run.hashing[p] /\ RowShape(row)
      BY <1>1, <2>4, <3>1, <3>2, FoundRowTypes DEF ClockOK
    <3>4. TimeTells(tree[p], row) /\ p \notin run.todo /\ p \notin run.landing
      BY <1>1, <2>4, <3>2, <3>3 DEF ClockOK, TimeTells
    <3>. QED BY <1>1, <2>1, <3>2, <3>3, <3>4 DEF ClockOK, Both
  <2>. QED BY <2>2, <2>3, <2>4
<1>. QED BY <1>2, <1>3, <1>4

LEMMA ClockApply ==
  ASSUME TypeOK, Inv, NEW p \in Paths, ApplyStagedRows
  PROVE  ClockOK(p)'
<1>1. ClockOK(p) /\ run.pc = "scan" /\ tree' = tree /\ run.hashing[p] = 0 /\ run.todo = {}
  BY InvFacts DEF ApplyStagedRows
<1>2. PICK batch \in SUBSET StagedPaths :
         /\ cache' = [q \in Paths |-> IF q \in batch THEN run.staged[q] ELSE cache[q]]
         /\ \/ /\ \A q \in Paths : run'.staged[q] = IF q \in batch THEN NoRow ELSE run.staged[q]
               /\ run'.pc = run.pc /\ run'.todo = run.todo
               /\ run'.hashing = run.hashing /\ run'.base = run.base
               /\ run'.cand = run.cand /\ run'.exclude = run.exclude
               /\ run'.handled = run.handled /\ run'.settled = run.settled
               /\ run'.applied = run.applied /\ run'.landing = run.landing
            \/ run' = Idle
            \/ run' = [Idle EXCEPT !.pc = "fetch"]
  BY ApplyRun
<1>3. cache'[p] = IF p \in batch THEN run.staged[p] ELSE cache[p]
  BY <1>2
<1>4. CASE run' = Idle \/ run' = [Idle EXCEPT !.pc = "fetch"]
  <2>1. run'.staged[p] = NoRow /\ run'.hashing[p] = 0 /\ run'.landing = {}
    BY <1>4, IdleFacts, FetchNext
  <2>. QED BY <1>1, <1>3, <2>1, ClockReset
<1>5. CASE /\ \A q \in Paths : run'.staged[q] = IF q \in batch THEN NoRow ELSE run.staged[q]
           /\ run'.pc = run.pc /\ run'.todo = run.todo /\ run'.hashing = run.hashing
           /\ run'.base = run.base /\ run'.cand = run.cand
           /\ run'.exclude = run.exclude /\ run'.handled = run.handled
           /\ run'.settled = run.settled /\ run'.applied = run.applied
           /\ run'.landing = run.landing
  <2>1. p \notin run.landing
    BY <1>1 DEF ClockOK
  <2>2. CASE p \in batch
    <3>1. run'.staged[p] = NoRow /\ cache'[p] = run.staged[p]
      BY <1>3, <1>5, <2>2
    <3>. QED BY <1>1, <1>5, <2>1, <3>1, NoRowFacts DEF ClockOK, TimeTells, Both, RowShape
  <2>3. CASE p \notin batch
    <3>1. run'.staged[p] = run.staged[p] /\ cache'[p] = cache[p]
      BY <1>3, <1>5, <2>3
    <3>. QED BY <1>1, <1>5, <2>1, <3>1, ClockFrame
  <2>. QED BY <2>2, <2>3
<1>. QED BY <1>2, <1>4, <1>5

(* A pull that is not recorded yet is newer than every row; its row gets    *)
(* the time and the content of what it put in place.                        *)
LEMMA ClockPull ==
  ASSUME TypeOK, Inv, NEW p \in Paths, NEW q \in Paths, PullFile(q) \/ RecordPulled(q)
  PROVE  ClockOK(p)'
<1>. DEFINE e == run.cand.entries[p]
<1>1. /\ ClockOK(p) /\ ClockOK(q) /\ tree[p] \in File /\ e \in Entry \cup {NoEntry}
      /\ cache[p] \in Row \cup {NoRow}
  BY InvFacts, PathFacts
<1>2. CASE PullFile(q)
  <2>1. /\ cache' = cache /\ run.pc = "pull" /\ q \in run.todo /\ run'.todo = run.todo \ {q}
        /\ run'.landing = run.landing \cup {q}
        /\ run'.pc = run.pc /\ run'.hashing = run.hashing /\ run'.staged = run.staged
        /\ run'.base = run.base /\ run'.cand = run.cand /\ run'.exclude = run.exclude
        /\ run'.handled = run.handled /\ run'.settled = run.settled
        /\ run'.applied = run.applied
    BY <1>2, PullRun DEF PullFile
  <2>2. CASE p # q
    <3>1. tree'[p] = tree[p]
      BY <1>1, <1>2, <2>2, PullTree
    <3>. QED BY <1>1, <2>1, <2>2, <3>1, ClockFrame DEF ClockOK
  <2>3. CASE p = q
    <3>1. run.hashing[p] = 0
      BY <1>1, <2>1 DEF ClockOK
    <3>2. /\ NewMtime(p) # 0 /\ NewMtime(p) # cache[p].mtime /\ NewMtime(p) # run.staged[p].mtime
          /\ NewMtime(p) # tree[p].rtime /\ NewMtime(p) # tree[p].stime
      BY <1>1, NewMtimeFacts
    <3>3. CASE e.hash = None /\ tree'[p] = NoFile
      <4>1. Landed(p)'
        BY <1>1, <2>1, <3>3, EntryFacts DEF Landed
      <4>. QED BY <1>1, <2>1, <3>1, <3>3, <4>1, NoRowFacts DEF ClockOK, TimeTells, Both
    <3>4. CASE /\ e.hash \in Contents /\ AsStub(p)
               /\ tree'[p].stub = e.hash /\ tree'[p].stime = NewMtime(p)
               /\ tree'[p].real = tree[p].real /\ tree'[p].rtime = tree[p].rtime
      <4>1. Landed(p)'
        BY <2>1, <3>4, NoneAssumption DEF Landed, AsStub
      <4>. QED BY <1>1, <2>1, <3>1, <3>2, <3>4, <4>1, NoneAssumption DEF ClockOK, TimeTells, Both
    <3>5. CASE /\ e.hash \in Contents /\ ~AsStub(p)
               /\ tree'[p].real = e.hash /\ tree'[p].rtime = NewMtime(p)
               /\ tree'[p].stub = tree[p].stub /\ tree'[p].stime = tree[p].stime
      <4>1. Landed(p)'
        BY <2>1, <3>5, NoneAssumption DEF Landed, AsStub
      <4>. QED BY <1>1, <2>1, <3>1, <3>2, <3>5, <4>1, NoneAssumption DEF ClockOK, TimeTells, Both
    <3>. QED BY <1>1, <1>2, <2>3, <3>3, <3>4, <3>5, PullTree
  <2>. QED BY <2>2, <2>3
<1>3. CASE RecordPulled(q)
  <2>1. /\ tree' = tree /\ run.pc = "pull" /\ q \in run.landing
        /\ run'.landing = run.landing \ {q}
        /\ run'.pc = run.pc /\ run'.todo = run.todo /\ run'.hashing = run.hashing
        /\ run'.staged = run.staged /\ run'.base = run.base /\ run'.cand = run.cand
        /\ run'.exclude = run.exclude /\ run'.handled = run.handled
        /\ run'.settled = run.settled /\ run'.applied = run.applied
    BY <1>3, PullRun DEF RecordPulled
  <2>2. cache \in [Paths -> Row \cup {NoRow}]
    BY DEF TypeOK
  <2>3. CASE p # q
    <3>1. cache'[p] = cache[p]
      BY <1>3, <2>2, <2>3 DEF RecordPulled
    <3>. QED BY <1>1, <2>1, <3>1, ClockFrame DEF ClockOK
  <2>4. CASE p = q
    <3>0. Landed(p) /\ run.hashing[p] = 0
      BY <1>1, <2>1, <2>4 DEF ClockOK
    <3>1. CASE e = NoEntry
      <4>1. cache'[p] = NoRow
        BY <1>3, <2>2, <2>4, <3>1 DEF RecordPulled
      <4>. QED BY <1>1, <2>1, <2>4, <3>0, <4>1, NoRowFacts DEF ClockOK, TimeTells, Both, RowShape
    <3>2. CASE e # NoEntry
      <4>1. PICK mtime : mtime = IF AsStub(p) THEN tree[p].stime ELSE tree[p].rtime
        OBVIOUS
      <4>2. cache'[p] = [state |-> "unchanged", hash |-> e.hash, mtime |-> mtime,
                         parent |-> e.version]
        BY <1>3, <2>2, <2>4, <3>2, <4>1 DEF RecordPulled
      <4>3. cache'[p].hash = e.hash /\ cache'[p].mtime = mtime /\ e.hash \in Contents
        BY <1>1, <3>2, <4>2, EntryFacts
      <4>4. TimeTells(tree[p], cache'[p])
        <5>1. CASE AsStub(p)
          <6>1. tree[p].stub = e.hash /\ mtime = tree[p].stime /\ tree[p].stub # None
            BY <3>0, <3>2, <4>1, <4>3, <5>1, NoneAssumption DEF Landed
          <6>. QED BY <1>1, <4>3, <6>1 DEF ClockOK, TimeTells, Both
        <5>2. CASE ~AsStub(p)
          <6>1. tree[p].real = e.hash /\ mtime = tree[p].rtime /\ tree[p].real # None
            BY <3>0, <3>2, <4>1, <4>3, <5>2, NoneAssumption DEF Landed
          <6>. QED BY <1>1, <4>3, <6>1 DEF ClockOK, TimeTells, Both
        <5>. QED BY <5>1, <5>2
      <4>. QED BY <1>1, <2>1, <2>4, <3>0, <4>3, <4>4 DEF ClockOK, TimeTells, Both, RowShape
    <3>. QED BY <3>1, <3>2
  <2>. QED BY <2>3, <2>4
<1>. QED BY <1>2, <1>3

LEMMA ClockEdit ==
  ASSUME TypeOK, Inv, NEW p \in Paths, NEW q \in Paths, Edit(q)
  PROVE  ClockOK(p)'
<1>1. ClockOK(p) /\ ClockOK(q) /\ cache' = cache /\ run' = run /\ q \notin run.landing
  BY InvFacts DEF Edit
<1>2. CASE p # q
  <2>1. tree'[p] = tree[p]
    BY <1>1, <1>2, EditTree
  <2>. QED BY <1>1, <2>1, ClockFrame DEF ClockOK
<1>3. CASE p = q
  <2>1. /\ NewMtime(p) # 0 /\ NewMtime(p) # cache[p].mtime /\ NewMtime(p) # run.staged[p].mtime
        /\ NewMtime(p) # tree[p].rtime /\ NewMtime(p) # tree[p].stime
    BY <1>1, NewMtimeFacts
  <2>2. CASE tree'[p] = NoFile
    BY <1>1, <1>3, <2>2, NoRowFacts DEF ClockOK, TimeTells, Both
  <2>3. CASE /\ tree'[p].real \in Contents /\ tree'[p].rtime = NewMtime(p)
             /\ tree'[p].stub = tree[p].stub /\ tree'[p].stime = tree[p].stime
    BY <1>1, <1>3, <2>1, <2>3, NoneAssumption DEF ClockOK, TimeTells, Both
  <2>. QED BY <1>1, <1>3, <2>2, <2>3, EditTree
<1>. QED BY <1>2, <1>3

LEMMA ClockStep ==
  ASSUME TypeOK, Inv, [Next]_vars, NEW p \in Paths
  PROVE  ClockOK(p)'
<1>1. ClockOK(p) /\ tree[p] \in File /\ cache[p] \in Row \cup {NoRow}
  BY InvFacts, PathFacts
<1>2. ASSUME run' = Idle, tree' = tree, cache' = cache PROVE ClockOK(p)'
  BY <1>1, <1>2, ClockReset, IdleFacts
<1>3. CASE Start
  BY <1>1, <1>3, StartRun, ClockReset, IdleFacts DEF Start, diskVars
<1>4. CASE OutOfStamps \/ Report \/ Crash
  BY <1>2, <1>4 DEF OutOfStamps, Report, Crash, End, diskVars
<1>5. CASE Commit
  <2>1. tree' = tree /\ cache' = cache
    BY <1>5 DEF Commit, diskVars
  <2>. QED BY <1>1, <1>2, <1>5, <2>1, SettleRun, ClockFrame DEF ClockOK
<1>6. CASE Fetch
  <2>1. tree' = tree /\ cache' = cache
    BY <1>6 DEF Fetch, diskVars
  <2>. QED BY <1>1, <1>6, <2>1, FetchRun, ClockFrame DEF ClockOK
<1>7. CASE StartPull \/ PullDone
  <2>1. tree' = tree /\ cache' = cache
    BY <1>7 DEF StartPull, PullDone, diskVars
  <2>. QED BY <1>1, <1>7, <2>1, PullPhaseRun, ClockFrame DEF ClockOK
<1>8. CASE Promote \/ Adopt \/ ReconcileDone
  <2>1. tree' = tree /\ cache' = cache
    BY <1>8 DEF Promote, Adopt, ReconcileDone, diskVars
  <2>. QED BY <1>1, <1>8, <2>1, SettleRun, ClockFrame DEF ClockOK
<1>9. ASSUME NEW q \in Paths, LocalRow(q) PROVE ClockOK(p)'
  <2>1. tree' = tree /\ cache' = cache
    BY <1>9 DEF LocalRow, diskVars
  <2>. QED BY <1>1, <1>9, <2>1, LocalDirty, LocalRun, ClockFrame DEF ClockOK
<1>10. ASSUME NEW q \in Paths, Reconcile(q) PROVE ClockOK(p)'
  <2>1. /\ tree' = tree /\ cache' = [cache EXCEPT ![q] = ReconciledRow(q)]
        /\ cache \in [Paths -> Row \cup {NoRow}]
    BY <1>10 DEF Reconcile, TypeOK
  <2>2. CASE p # q
    BY <1>1, <1>10, <2>1, <2>2, SettleRun, ClockFrame DEF ClockOK
  <2>3. CASE p = q
    <3>1. /\ cache'[p] = ReconciledRow(p) /\ run.pc = "reconcile" /\ run'.pc = run.pc
          /\ run'.staged = run.staged /\ run'.hashing = run.hashing /\ run'.landing = run.landing
      BY <1>10, <2>1, <2>3, SettleRun
    <3>2. p \notin run.landing /\ run.hashing[p] = 0
      BY <1>1, <3>1 DEF ClockOK
    <3>3. \/ cache'[p] = NoRow
          \/ /\ cache'[p].hash = cache[p].hash /\ cache'[p].mtime = cache[p].mtime
             /\ cache'[p].hash \in Contents
      BY <1>10, <2>3, <3>1, ReconciledRowFacts
    <3>. QED BY <1>1, <2>1, <3>1, <3>2, <3>3, NoRowFacts DEF ClockOK, TimeTells, Both, RowShape
  <2>. QED BY <2>2, <2>3
<1>11. CASE OtherCommits \/ UNCHANGED vars
  <2>1. tree' = tree /\ cache' = cache /\ run' = run
    BY <1>11 DEF OtherCommits, diskVars, vars
  <2>. QED BY <1>1, <2>1, ClockFrame DEF ClockOK
<1>. QED BY <1>3, <1>4, <1>5, <1>6, <1>7, <1>8, <1>9, <1>10, <1>11,
            ClockScan, ClockApply, ClockPull, ClockEdit DEF Next, Command

(***************************************************************************)
(* Preservation of SeenOK.                                                 *)
(***************************************************************************)

LEMMA SeenFrame ==
  ASSUME NEW p \in Paths, SeenOK(p),
         cache'[p] = cache[p] \/ cache'[p] = run.staged[p],
         \/ run'.staged[p] \in {run.staged[p], NoRow}
         \/ run'.staged[p].state \notin {"unchanged", "modified"}
         \/ RowSeen(run'.staged[p], p),
         remote'.entries[p] = remote.entries[p], history'[p] = history[p], seen'[p] = seen[p],
         minted' = minted
  PROVE  SeenOK(p)'
<1>1. \A row : RowSeen(row, p) => RowSeen(row, p)'
  BY DEF RowSeen
<1>2. \A row : row.state \notin {"unchanged", "modified"} => RowSeen(row, p)'
  BY DEF RowSeen
<1>3. RowSeen(cache[p], p) /\ RowSeen(run.staged[p], p) /\ NoRow.state \notin {"unchanged", "modified"}
  BY NoRowFacts DEF SeenOK
<1>. QED BY <1>1, <1>2, <1>3 DEF SeenOK, RowSeen

LEMMA SeenScan ==
  ASSUME TypeOK, Inv, NEW p \in Paths, NEW q \in Paths,
         WalkPath(q) \/ HashPath(q) \/ ScanFails(q)
  PROVE  SeenOK(p)'
<1>1. /\ SeenOK(p) /\ ClockOK(p) /\ ClockOK(q) /\ cache' = cache /\ remote' = remote
      /\ history' = history /\ seen' = seen /\ minted' = minted
  BY InvFacts DEF WalkPath, HashPath, ScanFails, diskVars, ghostVars
<1>2. ASSUME NEW hash \in Contents, NEW mtime \in Mtimes
      PROVE  RowSeen(FoundRow(p, hash, mtime), p)
  BY <1>1, FoundRowTypes DEF SeenOK
<1>3. \/ run'.staged[p] \in {run.staged[p], NoRow}
      \/ run'.staged[p].state \notin {"unchanged", "modified"}
      \/ RowSeen(run'.staged[p], p)
  <2>1. CASE run' = Idle
    BY <2>1, IdleFacts
  <2>2. CASE WalkPath(q)
    <3>1. CASE p # q
      BY <1>1, <2>2, <3>1, WalkRun
    <3>2. CASE p = q /\ run'.staged[p] = MissingRow(p)
      BY <3>2, MissingRowTypes
    <3>3. CASE /\ p = q /\ tree[p].real = None /\ tree[p].stub # None
               /\ run'.staged[p] = FoundRow(p, tree[p].stub, tree[p].stime)
      <4>1. tree[p].stub \in Contents /\ tree[p].stime \in Mtimes
        BY <1>1, <3>3, PathFacts, FileFacts DEF ClockOK
      <4>. QED BY <1>2, <3>3, <4>1
    <3>4. CASE p = q /\ run'.staged[p] = run.staged[p]
      BY <3>4
    <3>. QED BY <1>1, <2>2, <3>1, <3>2, <3>3, <3>4, WalkRun
  <2>3. CASE HashPath(q) /\ tree[q].real # None
    <3>1. CASE p # q
      BY <1>1, <2>3, <3>1, HashRun
    <3>2. CASE p = q
      <4>1. /\ run'.staged[p] = FoundRow(p, tree[p].real, run.hashing[p])
            /\ tree[p].real \in Contents /\ run.hashing[p] \in Mtimes
        BY <1>1, <2>3, <3>2, HashRun
      <4>. QED BY <1>2, <4>1
    <3>. QED BY <3>1, <3>2
  <2>. QED BY <2>1, <2>2, <2>3 DEF HashPath, ScanFails, End
<1>. QED BY <1>1, <1>3, SeenFrame

(* What is settled on is an entry of the vault's history.                   *)
LEMMA SettledIsHistory ==
  ASSUME TypeOK, Inv, NEW p \in Paths, run.pc = "pull", p \in run.landing
  PROVE  run.cand.entries[p] \in history[p] \cup {NoEntry} /\ p \notin run.exclude
BY InvFacts DEF PathsOK, SettledOK

LEMMA SeenMore ==
  ASSUME TypeOK, NEW p \in Paths, SeenOK(p),
         NEW e \in history[p] \cup {NoEntry},
         seen'[p] = seen[p] \cup ({e} \ {NoEntry}),
         \/ cache'[p] \in {cache[p], NoRow}
         \/ /\ cache'[p].state = "unchanged" /\ e # NoEntry
            /\ e = [hash |-> cache'[p].hash, version |-> cache'[p].parent],
         run'.staged[p] = run.staged[p], remote' = remote, history' = history, minted' = minted
  PROVE  SeenOK(p)'
<1>1. seen[p] \subseteq seen'[p] /\ seen'[p] \subseteq history[p]
  BY DEF SeenOK
<1>2. \A row : RowSeen(row, p) => RowSeen(row, p)'
  BY <1>1 DEF RowSeen
<1>3. RowSeen(cache[p], p)' /\ RowSeen(run.staged[p], p)'
  <2>1. RowSeen(cache[p], p) /\ RowSeen(run.staged[p], p)
    BY DEF SeenOK
  <2>2. CASE cache'[p] = cache[p]
    BY <1>2, <2>1, <2>2 DEF RowSeen
  <2>3. CASE cache'[p] = NoRow
    BY <1>2, <2>1, <2>3, NoRowFacts DEF RowSeen
  <2>4. CASE /\ cache'[p].state = "unchanged" /\ e # NoEntry
             /\ e = [hash |-> cache'[p].hash, version |-> cache'[p].parent]
    <3>1. e \in seen'[p]
      BY <2>4
    <3>. QED BY <1>2, <2>1, <2>4, <3>1 DEF RowSeen
  <2>. QED BY <2>2, <2>3, <2>4
<1>. QED BY <1>1, <1>3 DEF SeenOK

LEMMA SeenCommit ==
  ASSUME TypeOK, Inv, NEW p \in Paths, Commit
  PROVE  SeenOK(p)'
<1>. DEFINE e == run.cand.entries[p]
<1>1. /\ SeenOK(p) /\ WriteOK(p) /\ run.pc = "commit" /\ cache' = cache /\ minted' = minted
      /\ history[p] \in SUBSET Entry /\ seen[p] \in SUBSET Entry /\ e \in Entry \cup {NoEntry}
  BY InvFacts, PathFacts DEF Commit, diskVars
<1>2. CASE remote.version # run.base
  BY <1>1, <1>2, CommitStep, SeenFrame, IdleFacts
<1>3. CASE remote.version = run.base
  <2>0. run' # Idle
    BY <1>3, IdleFacts DEF Commit, Run
  <2>1. /\ history'[p] = history[p] \cup ({e} \ {NoEntry})
        /\ seen'[p] = IF Written(p) THEN seen[p] \cup ({e} \ {NoEntry}) ELSE seen[p]
        /\ remote'.entries[p] = e /\ run'.staged = run.staged
    BY <1>3, <2>0, CommitStep, SettleRun
  <2>2. /\ \A x \in history[p] : x.version # run.cand.version
        /\ run.cand.version <= minted
        /\ e \in history[p] \cup {NoEntry} \/ e.version = run.cand.version
    BY <1>1 DEF WriteOK, Syncing, Inv, StampOK
  <2>3. /\ seen'[p] \subseteq history'[p] /\ remote'.entries[p] \in history'[p] \cup {NoEntry}
        /\ seen[p] \subseteq seen'[p]
    BY <1>1, <2>1 DEF SeenOK
  <2>4. \A x, o \in history'[p] : x.version = o.version => x = o
    BY <1>1, <2>1, <2>2 DEF SeenOK
  <2>5. \A x \in history'[p] : x.version <= minted'
    BY <1>1, <2>1, <2>2 DEF SeenOK
  <2>6. RowSeen(cache[p], p)' /\ RowSeen(run.staged[p], p)'
    BY <1>1, <2>1, <2>3 DEF SeenOK, RowSeen
  <2>. QED BY <2>3, <2>4, <2>5, <2>6 DEF SeenOK
<1>. QED BY <1>2, <1>3

LEMMA SeenOthers ==
  ASSUME TypeOK, Inv, NEW p \in Paths, OtherCommits
  PROVE  SeenOK(p)'
<1>1. /\ SeenOK(p) /\ cache' = cache /\ run' = run /\ seen' = seen /\ minted' = minted + 1
      /\ history[p] \in SUBSET Entry /\ minted \in Nat
  BY InvFacts, PathFacts, StampFacts DEF OtherCommits, diskVars, TypeOK
<1>2. \A x \in history[p] : x.version \in Nat /\ x.version <= minted
  BY <1>1, StampFacts DEF SeenOK, Entry
<1>3. RowSeen(cache[p], p)' /\ RowSeen(run.staged[p], p)'
  BY <1>1 DEF SeenOK, RowSeen
<1>4. CASE /\ history'[p] = history[p]
           /\ remote'.entries[p] = remote.entries[p] \/ remote'.entries[p] = NoEntry
  BY <1>1, <1>2, <1>3, <1>4 DEF SeenOK
<1>5. ASSUME NEW e \in Entry, e.version = minted + 1, remote'.entries[p] = e,
             history'[p] = history[p] \cup {e}
      PROVE  SeenOK(p)'
  <2>1. \A x, o \in history'[p] : x.version = o.version => x = o
    BY <1>1, <1>2, <1>5 DEF SeenOK
  <2>2. \A x \in history'[p] : x.version <= minted'
    BY <1>1, <1>2, <1>5
  <2>3. seen'[p] \subseteq history'[p] /\ remote'.entries[p] \in history'[p] \cup {NoEntry}
    BY <1>1, <1>5 DEF SeenOK
  <2>. QED BY <1>3, <2>1, <2>2, <2>3 DEF SeenOK
<1>. QED BY <1>4, <1>5, OthersStep

LEMMA SeenStep ==
  ASSUME TypeOK, Inv, [Next]_vars, NEW p \in Paths
  PROVE  SeenOK(p)'
<1>1. SeenOK(p)
  BY InvFacts
<1>2. ASSUME run' = Idle \/ run'.staged = run.staged, cache' = cache, remote' = remote,
             history' = history, seen' = seen, minted' = minted
      PROVE  SeenOK(p)'
  BY <1>1, <1>2, SeenFrame, IdleFacts
<1>3. CASE Start \/ OutOfStamps \/ Report \/ Crash
  <2>1. /\ cache' = cache /\ remote' = remote /\ history' = history /\ seen' = seen
        /\ minted' = minted
    BY <1>3 DEF Start, OutOfStamps, Report, Crash, diskVars, ghostVars
  <2>2. run'.staged[p] = NoRow
    BY <1>3, StartRun, IdleFacts DEF OutOfStamps, Report, Crash, End
  <2>. QED BY <1>1, <2>1, <2>2, SeenFrame
<1>4. CASE ApplyStagedRows
  <2>1. remote' = remote /\ history' = history /\ seen' = seen /\ minted' = minted
    BY <1>4 DEF ApplyStagedRows, ghostVars
  <2>2. /\ cache'[p] = cache[p] \/ cache'[p] = run.staged[p]
        /\ run'.staged[p] \in {run.staged[p], NoRow}
    BY <1>4, ApplyRun, IdleFacts, FetchNext
  <2>. QED BY <1>1, <2>1, <2>2, SeenFrame
<1>5. CASE Fetch
  <2>1. /\ cache' = cache /\ remote' = remote /\ history' = history /\ seen' = seen
        /\ minted' = minted + 1 /\ minted \in Nat /\ run'.staged = run.staged
        /\ history[p] \in SUBSET Entry
    BY <1>5, FetchRun, StampFacts, PathFacts DEF Fetch, diskVars, ghostVars, TypeOK
  <2>2. \A x \in history[p] : x.version <= minted + 1
    <3>1. \A x \in history[p] : x.version \in Stamps /\ x.version <= minted
      BY <1>1, <2>1 DEF SeenOK, Entry
    <3>2. ASSUME NEW n \in Stamps, n <= minted PROVE n <= minted + 1
      BY <2>1, <3>2, StampFacts
    <3>. QED BY <3>1, <3>2
  <2>. QED BY <1>1, <2>1, <2>2 DEF SeenOK, RowSeen
<1>6. CASE StartPull \/ PullDone \/ Promote \/ Adopt \/ ReconcileDone
  <2>1. /\ cache' = cache /\ remote' = remote /\ history' = history /\ seen' = seen
        /\ minted' = minted
    BY <1>6 DEF StartPull, PullDone, Promote, Adopt, ReconcileDone, diskVars, ghostVars
  <2>2. run'.staged = run.staged
    BY <1>6, PullPhaseRun, SettleRun
  <2>. QED BY <1>2, <2>1, <2>2
<1>7. ASSUME NEW q \in Paths, LocalRow(q) \/ PullFile(q) PROVE SeenOK(p)'
  <2>1. /\ cache' = cache /\ remote' = remote /\ history' = history /\ seen' = seen
        /\ minted' = minted
    BY <1>7 DEF LocalRow, PullFile, diskVars, ghostVars
  <2>2. run'.staged = run.staged
    BY <1>7, LocalDirty, LocalRun, PullRun
  <2>. QED BY <1>2, <2>1, <2>2
<1>8. ASSUME NEW q \in Paths, RecordPulled(q) PROVE SeenOK(p)'
  <2>. DEFINE e == run.cand.entries[q]
              mtime == IF AsStub(q) THEN tree[q].stime ELSE tree[q].rtime
  <2>1. /\ cache \in [Paths -> Row \cup {NoRow}] /\ seen \in [Paths -> SUBSET Entry]
        /\ remote' = remote /\ history' = history /\ minted' = minted
        /\ seen' = [seen EXCEPT ![q] = @ \cup ({e} \ {NoEntry})]
        /\ run'.staged = run.staged
    BY <1>8, PullRun DEF RecordPulled, TypeOK
  <2>2. cache' = [cache EXCEPT ![q] = IF e = NoEntry THEN NoRow
                    ELSE [state |-> "unchanged", hash |-> e.hash, mtime |-> mtime,
                          parent |-> e.version]]
    BY <1>8 DEF RecordPulled
  <2>3. CASE p # q
    <3>1. cache'[p] = cache[p] /\ seen'[p] = seen[p]
      BY <2>1, <2>2, <2>3
    <3>. QED BY <1>1, <2>1, <3>1, SeenFrame
  <2>4. CASE p = q
    <3>1. e \in history[p] \cup {NoEntry} /\ e \in Entry \cup {NoEntry}
      BY <1>8, <2>4, PullRun, PathFacts, SettledIsHistory
    <3>2. cache'[p] = IF e = NoEntry THEN NoRow
                      ELSE [state |-> "unchanged", hash |-> e.hash, mtime |-> mtime,
                            parent |-> e.version]
      BY <2>1, <2>2, <2>4
    <3>3. e # NoEntry => e = [hash |-> e.hash, version |-> e.version]
      BY <3>1 DEF Entry
    <3>4. \/ cache'[p] = NoRow
          \/ /\ cache'[p].state = "unchanged" /\ e # NoEntry
             /\ e = [hash |-> cache'[p].hash, version |-> cache'[p].parent]
      BY <3>2, <3>3
    <3>. QED BY <1>1, <2>1, <2>4, <3>1, <3>4, SeenMore
  <2>. QED BY <2>3, <2>4
<1>9. ASSUME NEW q \in Paths, Reconcile(q) PROVE SeenOK(p)'
  <2>. DEFINE e == run.cand.entries[q]
  <2>1. /\ cache \in [Paths -> Row \cup {NoRow}] /\ seen \in [Paths -> SUBSET Entry]
        /\ remote' = remote /\ history' = history /\ minted' = minted
        /\ seen' = [seen EXCEPT ![q] = @ \cup ({e} \ {NoEntry})]
        /\ cache' = [cache EXCEPT ![q] = ReconciledRow(q)]
        /\ run'.staged = run.staged
    BY <1>9, SettleRun DEF Reconcile, TypeOK
  <2>2. CASE p # q
    <3>1. cache'[p] = cache[p] /\ seen'[p] = seen[p]
      BY <2>1, <2>2
    <3>. QED BY <1>1, <2>1, <3>1, SeenFrame
  <2>3. CASE p = q
    <3>1. e \in history[p] \cup {NoEntry}
      BY <1>9, <2>3, ReconciledRowFacts
    <3>2. \/ cache'[p] = NoRow
          \/ /\ cache'[p].state = "unchanged" /\ e # NoEntry
             /\ e = [hash |-> cache'[p].hash, version |-> cache'[p].parent]
      BY <1>9, <2>1, <2>3, ReconciledRowFacts
    <3>. QED BY <1>1, <2>1, <2>3, <3>1, <3>2, SeenMore
  <2>. QED BY <2>2, <2>3
<1>10. ASSUME (\E q \in Paths : Edit(q)) \/ UNCHANGED vars PROVE SeenOK(p)'
  <2>1. /\ cache' = cache /\ remote' = remote /\ history' = history /\ seen' = seen
        /\ minted' = minted /\ run' = run
    BY <1>10 DEF Edit, vars
  <2>. QED BY <1>2, <2>1
<1>. QED BY <1>3, <1>4, <1>5, <1>6, <1>7, <1>8, <1>9, <1>10, SeenScan, SeenCommit, SeenOthers
         DEF Next, Command

(***************************************************************************)
(* Preservation of SyncOK and StampOK.                                     *)
(***************************************************************************)

LEMMA StampStep ==
  ASSUME TypeOK, Inv, [Next]_vars
  PROVE  StampOK'
<1>1. /\ remote.version <= minted /\ run.cand.version <= minted /\ run.base <= minted
      /\ minted \in Nat /\ 1 <= minted
      /\ remote.version \in Nat /\ run.cand.version \in Nat /\ run.base \in Nat
  <2>1. /\ minted \in Stamps /\ remote.version \in Stamps /\ run.cand.version \in Stamps
        /\ run.base \in Stamps
    BY RunFacts, VaultFacts DEF TypeOK
  <2>. QED BY <2>1, StampsAssumption DEF Inv, StampOK, Stamps
<1>2. CASE OtherCommits
  <2>1. minted' = minted + 1 /\ remote'.version = minted + 1 /\ run' = run
    BY <1>2, OthersStep DEF OtherCommits
  <2>. QED BY <1>1, <2>1 DEF StampOK
<1>3. CASE Fetch
  <2>1. /\ minted' = minted + 1 /\ remote' = remote /\ run'.base = remote.version
        /\ run'.cand.version = minted + 1
    BY <1>3, FetchRun DEF Fetch
  <2>. QED BY <1>1, <2>1 DEF StampOK
<1>4. ASSUME minted' = minted, remote' \in {remote, run.cand},
             \/ run' = Idle
             \/ run'.cand.version = run.cand.version /\ run'.base = run.base
             \/ run'.cand = Idle.cand /\ run'.base = Idle.base
      PROVE  StampOK'
  BY <1>1, <1>4, IdleFacts DEF StampOK
<1>5. CASE Commit
  <2>1. minted' = minted
    BY <1>5 DEF Commit
  <2>2. run' = Idle \/ run' = [run EXCEPT !.pc = "promote"]
    BY <1>5 DEF Commit, End
  <2>3. run' = Idle \/ (run'.cand = run.cand /\ run'.base = run.base)
    BY <2>2, RunFacts DEF Run
  <2>. QED BY <1>4, <1>5, <2>1, <2>3, CommitStep
<1>6. CASE ~OtherCommits /\ ~Fetch /\ ~Commit
  <2>1. remote' = remote /\ minted' = minted
    BY <1>6 DEF Next, Command, Start, ApplyStagedRows, OutOfStamps, StartPull, PullDone,
                Promote, Adopt, ReconcileDone, Report, WalkPath, HashPath, ScanFails, LocalRow,
                PullFile, RecordPulled, Reconcile, Crash, Edit, vars
  <2>2. CASE Start
    BY <1>4, <2>1, <2>2, StartRun
  <2>3. CASE ApplyStagedRows
    BY <1>4, <2>1, <2>3, ApplyRun, FetchNext
  <2>4. CASE StartPull \/ PullDone
    BY <1>4, <2>1, <2>4, PullPhaseRun
  <2>5. CASE Promote \/ Adopt \/ ReconcileDone
    <3>1. \/ run' = [run EXCEPT !.pc = "reconcile", !.todo = run.settled]
          \/ run' = [run EXCEPT !.pc = "done"]
      BY <2>5 DEF Promote, Adopt, ReconcileDone
    <3>2. run'.cand = run.cand /\ run'.base = run.base
      BY <3>1, RunFacts DEF Run
    <3>. QED BY <1>4, <2>1, <3>2
  <2>6. ASSUME NEW q \in Paths, \/ WalkPath(q) \/ HashPath(q) \/ ScanFails(q) \/ LocalRow(q)
                                \/ PullFile(q) \/ RecordPulled(q) \/ Reconcile(q)
        PROVE  StampOK'
    <3>1. \/ run' = Idle
          \/ run'.cand.version = run.cand.version /\ run'.base = run.base
      <4>1. CASE WalkPath(q)
        BY <4>1, InvFacts, WalkRun
      <4>2. CASE HashPath(q)
        BY <4>2, InvFacts, HashRun DEF HashPath, End
      <4>3. CASE ScanFails(q)
        BY <4>3 DEF ScanFails, End
      <4>4. CASE LocalRow(q)
        BY <4>4, LocalDirty, LocalRun
      <4>5. CASE PullFile(q) \/ RecordPulled(q)
        BY <4>5, PullRun
      <4>6. CASE Reconcile(q)
        BY <4>6, SettleRun
      <4>. QED BY <2>6, <4>1, <4>2, <4>3, <4>4, <4>5, <4>6
    <3>. QED BY <1>4, <2>1, <3>1
  <2>7. CASE OutOfStamps \/ Report \/ Crash
    BY <1>4, <2>1, <2>7 DEF OutOfStamps, Report, Crash, End
  <2>8. CASE (\E q \in Paths : Edit(q)) \/ UNCHANGED vars
    BY <1>4, <2>1, <2>8 DEF Edit, vars
  <2>. QED BY <1>6, <2>2, <2>3, <2>4, <2>5, <2>6, <2>7, <2>8 DEF Next, Command
<1>. QED BY <1>2, <1>3, <1>5, <1>6

LEMMA SyncIdle ==
  ASSUME NEW p \in Paths, run'.settled = {}, run'.applied = FALSE,
         run'.pc \in {"idle", "scan", "fetch"}, run'.cand.entries[p] = NoEntry
  PROVE  SyncOK(p)'
BY DEF SyncOK, SettledOK, PathsOK, WriteOK, Syncing, Settling, Cleaned

LEMMA SyncScanning ==
  ASSUME NEW p \in Paths, SyncOK(p), run.pc \in {"idle", "scan", "fetch"}, run'.pc = run.pc,
         run'.settled = run.settled, run'.applied = run.applied, run'.cand = run.cand,
         run'.exclude = run.exclude, history' = history
  PROVE  SyncOK(p)'
BY DEF SyncOK, SettledOK, PathsOK, WriteOK, Syncing, Settling, Cleaned

(* A step that is not about p, or only about what else this machine has had.*)
LEMMA SyncFrame ==
  ASSUME NEW p \in Paths, SyncOK(p),
         run'.pc = run.pc, run'.applied \in {run.applied, TRUE}, run'.settled \subseteq run'.exclude,
         p \in run'.settled <=> p \in run.settled, p \in run'.todo <=> p \in run.todo,
         p \in run'.landing <=> p \in run.landing,
         run.pc = "adopt" => run'.applied = run.applied,
         run.pc \notin Syncing => run'.applied = run.applied /\ run'.settled = run.settled,
         run.pc = "done" => run'.todo = run.todo,
         run'.exclude = run.exclude, run'.base = run.base,
         run'.cand.version = run.cand.version, run'.cand.entries[p] = run.cand.entries[p],
         run'.handled[p] = run.handled[p], cache'[p] = cache[p],
         remote' = remote, history' = history, seen[p] \subseteq seen'[p]
  PROVE  SyncOK(p)'
<1>1. SettledOK(p)'
  BY DEF SyncOK, SettledOK, Syncing, Settling, Cleaned
<1>2. PathsOK(p)'
  BY DEF SyncOK, PathsOK, Syncing, Settling, Cleaned
<1>3. WriteOK(p)'
  BY DEF SyncOK, WriteOK, Syncing
<1>. QED BY <1>1, <1>2, <1>3 DEF SyncOK

LEMMA SyncOthers ==
  ASSUME TypeOK, Inv, NEW p \in Paths, OtherCommits
  PROVE  SyncOK(p)'
<1>1. /\ SettledOK(p) /\ PathsOK(p) /\ WriteOK(p) /\ cache' = cache /\ run' = run /\ seen' = seen
      /\ minted' = minted + 1 /\ remote'.version = minted + 1
      /\ minted \in Nat /\ run.cand.version \in Nat /\ run.base \in Nat
      /\ run.cand.version <= minted /\ run.base <= minted
  <2>1. minted \in Stamps /\ run.cand.version \in Stamps /\ run.base \in Stamps
    BY RunFacts, VaultFacts DEF TypeOK
  <2>. QED BY <2>1, InvFacts, StampFacts, OthersStep DEF OtherCommits, diskVars, Inv, StampOK
<1>2. /\ history[p] \subseteq history'[p]
      /\ \A x \in history'[p] : x \in history[p] \/ x.version = minted + 1
  BY OthersStep
<1>3. SettledOK(p)'
  BY <1>1, <1>2 DEF SettledOK, Cleaned
<1>4. PathsOK(p)'
  BY <1>1 DEF PathsOK, Cleaned
<1>5. ASSUME run.pc \in Syncing
      PROVE  \A x \in history'[p] : x.version # run.cand.version
  <2>1. minted + 1 # run.cand.version
    BY <1>1
  <2>. QED BY <1>1, <1>2, <1>5, <2>1 DEF WriteOK
<1>6. remote'.version # run.base
  BY <1>1
<1>7. WriteOK(p)'
  BY <1>1, <1>2, <1>5, <1>6 DEF WriteOK
<1>. QED BY <1>3, <1>4, <1>7 DEF SyncOK

LEMMA SyncFetch ==
  ASSUME TypeOK, Inv, NEW p \in Paths, Fetch
  PROVE  SyncOK(p)'
<1>1. /\ run.pc = "fetch" /\ run'.pc = "local" /\ run'.todo = DirtyPaths
      /\ run'.exclude = DirtyPaths /\ run'.base = remote.version
      /\ run'.cand.version = minted + 1 /\ run'.cand.entries = remote.entries
      /\ run'.settled = run.settled /\ run'.applied = run.applied /\ run'.landing = run.landing
      /\ cache' = cache /\ remote' = remote /\ history' = history /\ seen' = seen
  BY FetchRun DEF Fetch, diskVars, ghostVars
<1>2. /\ run.settled = {} /\ ~run.applied
      /\ remote.entries[p] \in history[p] \cup {NoEntry}
  BY <1>1, InvFacts DEF SettledOK, SeenOK, Syncing, Settling
<1>3. SettledOK(p)'
  BY <1>1, <1>2 DEF SettledOK, Syncing, Settling, Cleaned
<1>4. PathsOK(p)'
  BY <1>1, <1>2 DEF PathsOK, Syncing, Settling, Cleaned, DirtyPaths
<1>5. \A x \in history[p] : x.version # minted + 1
  <2>1. \A x \in history[p] : x.version \in Stamps /\ x.version <= minted
    BY PathFacts, InvFacts DEF SeenOK, Entry
  <2>2. ASSUME NEW n \in Stamps, n <= minted PROVE n # minted + 1
    BY <2>2, StampFacts DEF TypeOK
  <2>. QED BY <2>1, <2>2
<1>6. WriteOK(p)'
  BY <1>1, <1>2, <1>5 DEF WriteOK, Syncing
<1>. QED BY <1>3, <1>4, <1>6 DEF SyncOK

(* The matrix: a row is a no-op when the vault holds what it holds, and it  *)
(* replaces an entry only when it is based on that entry.                   *)
LEMMA DecisionFacts ==
  ASSUME NEW row, NEW e \in Entry \cup {NoEntry}, Dirty(row)
  PROVE  /\ DecideLocalChange(row, e) = "noop" /\ row.state = "deleted" => e = NoEntry
         /\ DecideLocalChange(row, e) = "noop" /\ row.state # "deleted" =>
              e # NoEntry /\ e = [hash |-> row.hash, version |-> e.version]
         /\ DecideLocalChange(row, e) = "apply" /\ row.state # "deleted" =>
              e = NoEntry \/ (row.state = "modified" /\ e.version = row.parent)
<1>1. e # NoEntry => e = [hash |-> e.hash, version |-> e.version]
  BY DEF Entry
<1>2. CASE row.state = "created"
  BY <1>1, <1>2 DEF DecideLocalChange, DecideCreated
<1>3. CASE row.state = "modified"
  BY <1>1, <1>3 DEF DecideLocalChange, DecideModified
<1>4. CASE row.state = "deleted"
  BY <1>4 DEF DecideLocalChange, DecideDeleted
<1>. QED BY <1>2, <1>3, <1>4 DEF Dirty

LEMMA SyncLocal ==
  ASSUME TypeOK, Inv, NEW p \in Paths, NEW q \in Paths, LocalRow(q)
  PROVE  SyncOK(p)'
<1>. DEFINE row == cache[p]
            old == run.cand.entries[p]
            decision == DecideLocalChange(row, old)
<1>1. /\ SettledOK(p) /\ PathsOK(p) /\ WriteOK(p) /\ SeenOK(p) /\ SyncOK(p)
      /\ cache' = cache /\ remote' = remote /\ history' = history /\ seen' = seen
      /\ run.applied \in BOOLEAN
  BY InvFacts, RunFacts DEF LocalRow, diskVars, ghostVars, SyncOK
<1>2. /\ run.pc = "local" /\ q \in run.todo
      /\ run'.cand.version = run.cand.version
      /\ \A r \in Paths \ {q} : /\ run'.cand.entries[r] = run.cand.entries[r]
                                /\ run'.handled[r] = run.handled[r]
      /\ run'.pc = run.pc /\ run'.hashing = run.hashing /\ run'.staged = run.staged
      /\ run'.base = run.base /\ run'.exclude = run.exclude
      /\ run'.landing = run.landing
      /\ run'.todo \subseteq run.todo /\ q \notin run'.todo
  BY LocalDirty, LocalRun
<1>3. q \in run.exclude \ run.settled /\ Dirty(cache[q]) /\ RowShape(cache[q])
  BY LocalDirty
<1>4. run'.settled \in {run.settled, run.settled \cup {q}} /\ run'.applied \in {run.applied, TRUE}
  BY LocalDirty, LocalRun
<1>5. CASE p # q
  <2>1. /\ p \in run'.settled <=> p \in run.settled
        /\ run'.settled \subseteq run.exclude /\ run'.cand.entries[p] = run.cand.entries[p]
        /\ run'.handled[p] = run.handled[p]
    BY <1>1, <1>2, <1>3, <1>4, <1>5 DEF PathsOK
  <2>2. SettledOK(p)'
    BY <1>1, <1>2, <1>4, <2>1 DEF SettledOK, Syncing, Settling, Cleaned
  <2>3. PathsOK(p)'
    BY <1>1, <1>2, <2>1 DEF PathsOK, Syncing, Settling, Cleaned
  <2>4. WriteOK(p)'
    BY <1>1, <1>2, <2>1 DEF WriteOK, Syncing
  <2>. QED BY <2>2, <2>3, <2>4 DEF SyncOK
<1>6. CASE p = q
  <2>1. PathsOK(p)'
    BY <1>1, <1>2, <1>3, <1>4, <1>6 DEF PathsOK, Syncing, Settling, Cleaned
  <2>2. /\ old \in history[p] \cup {NoEntry} /\ old \in Entry \cup {NoEntry}
        /\ run'.base = run.base /\ run.pc = "local" /\ run'.pc = "local"
        /\ \A x \in history[p] : x.version # run.cand.version
        /\ remote.version = run.base => old = remote.entries[p]
    BY <1>1, <1>2, <1>3, <1>6, PathFacts DEF SettledOK, WriteOK, Syncing
  <2>3. CASE /\ run'.settled = run.settled
             /\ run'.cand = run.cand /\ run'.handled = run.handled /\ run'.applied = run.applied
    BY <1>1, <1>2, <1>3, <1>6, <2>1, <2>3 DEF SyncOK, SettledOK, WriteOK, Syncing, Settling, Cleaned
  <2>4. CASE /\ run'.settled = run.settled \cup {p}
             /\ run'.cand = run.cand /\ run'.applied = run.applied
             /\ decision = "noop" /\ run'.handled[p] = old.version
    <3>1. old = IF row.state = "deleted" THEN NoEntry
                ELSE [hash |-> row.hash, version |-> old.version]
      BY <1>3, <1>6, <2>2, <2>4, DecisionFacts
    <3>. HIDE DEF decision
    <3>2. SettledOK(p)'
      BY <1>1, <2>2, <2>4, <3>1 DEF SettledOK, Syncing, Settling, Cleaned
    <3>3. WriteOK(p)'
      BY <1>1, <2>2, <2>4 DEF WriteOK, Syncing
    <3>. QED BY <2>1, <3>2, <3>3 DEF SyncOK
  <2>5. CASE /\ run'.settled = run.settled \cup {p} /\ run'.applied = TRUE
             /\ decision = "apply" /\ row.state = "deleted"
             /\ run'.cand.entries[p] = NoEntry
    <3>. HIDE DEF decision
    <3>1. SettledOK(p)'
      BY <1>1, <2>2, <2>5 DEF SettledOK, Syncing, Settling, Cleaned
    <3>2. WriteOK(p)'
      BY <1>1, <1>2, <2>2, <2>5 DEF WriteOK, Syncing
    <3>. QED BY <2>1, <3>1, <3>2 DEF SyncOK
  <2>6. CASE /\ run'.settled = run.settled \cup {p} /\ run'.applied = TRUE
             /\ decision = "apply" /\ row.state # "deleted"
             /\ run'.handled[p] = run.cand.version
             /\ run'.cand.entries[p] = [hash |-> row.hash, version |-> run.cand.version]
    <3>1. old = NoEntry \/ (row.state = "modified" /\ old.version = row.parent)
      BY <1>3, <1>6, <2>2, <2>6, DecisionFacts
    <3>2. old = NoEntry \/ old \in seen[p]
      <4>1. ASSUME old # NoEntry PROVE old \in seen[p]
        <5>1. PICK e \in seen[p] : e.version = row.parent
          BY <1>1, <3>1, <4>1 DEF SeenOK, RowSeen
        <5>2. e \in history[p] /\ old \in history[p] /\ e.version = old.version
          BY <1>1, <2>2, <3>1, <4>1, <5>1 DEF SeenOK
        <5>. QED BY <1>1, <5>1, <5>2 DEF SeenOK
      <4>. QED BY <4>1
    <3>. HIDE DEF decision
    <3>3. SettledOK(p)'
      BY <1>1, <2>2, <2>6 DEF SettledOK, Syncing, Settling, Cleaned
    <3>4. WriteOK(p)'
      <4>1. run'.cand.entries[p].version = run'.cand.version
        BY <1>2, <2>6
      <4>. QED BY <1>1, <1>2, <2>2, <2>6, <3>2, <4>1 DEF WriteOK, Syncing
    <3>. QED BY <2>1, <3>3, <3>4 DEF SyncOK
  <2>. QED BY <1>3, <1>6, <2>3, <2>4, <2>5, <2>6, LocalRun
<1>. QED BY <1>5, <1>6

LEMMA SyncPull ==
  ASSUME TypeOK, Inv, NEW p \in Paths,
         \/ StartPull \/ PullDone
         \/ \E q \in Paths : PullFile(q) \/ RecordPulled(q)
  PROVE  SyncOK(p)'
<1>1. /\ SettledOK(p) /\ PathsOK(p) /\ WriteOK(p) /\ SyncOK(p) /\ ClockOK(p)
      /\ cache[p] \in Row \cup {NoRow}
  BY InvFacts, PathFacts DEF SyncOK
<1>2. CASE StartPull
  <2>1. /\ run.pc = "local" /\ run.todo = {} /\ run'.pc = "pull" /\ run'.todo = ToPull
        /\ run'.hashing = run.hashing /\ run'.staged = run.staged
        /\ run'.base = run.base /\ run'.cand = run.cand /\ run'.exclude = run.exclude
        /\ run'.handled = run.handled /\ run'.settled = run.settled
        /\ run'.applied = run.applied /\ run'.landing = run.landing
        /\ cache' = cache /\ remote' = remote /\ history' = history /\ seen' = seen
    BY <1>2, PullPhaseRun DEF StartPull, diskVars, ghostVars
  <2>2. p \notin run.landing
    BY <1>1, <2>1 DEF ClockOK
  <2>3. SettledOK(p)'
    BY <1>1, <2>1 DEF SettledOK, Syncing, Settling, Cleaned
  <2>4. PathsOK(p)'
    BY <1>1, <2>1, <2>2 DEF PathsOK, Syncing, Settling, Cleaned, ToPull
  <2>5. WriteOK(p)'
    BY <1>1, <2>1 DEF WriteOK, Syncing
  <2>. QED BY <2>3, <2>4, <2>5 DEF SyncOK
<1>3. CASE PullDone
  <2>1. /\ run.pc = "pull" /\ run.todo = {} /\ run.landing = {}
        /\ run'.pc = IF run.applied THEN "commit" ELSE "adopt"
        /\ run'.todo = run.todo /\ run'.hashing = run.hashing
        /\ run'.staged = run.staged /\ run'.base = run.base /\ run'.cand = run.cand
        /\ run'.exclude = run.exclude /\ run'.handled = run.handled
        /\ run'.settled = run.settled /\ run'.applied = run.applied
        /\ run'.landing = run.landing
        /\ cache' = cache /\ remote' = remote /\ history' = history /\ seen' = seen
    BY <1>3, PullPhaseRun DEF PullDone, diskVars, ghostVars
  <2>2. \/ run'.pc = "commit"
        \/ run'.pc = "adopt" /\ ~run.applied
    BY <2>1
  <2>3. SettledOK(p)'
    BY <1>1, <2>1, <2>2 DEF SettledOK, Syncing, Settling, Cleaned
  <2>4. PathsOK(p)'
    BY <1>1, <2>1, <2>2 DEF PathsOK, Syncing, Settling, Cleaned
  <2>5. WriteOK(p)'
    BY <1>1, <2>1, <2>2 DEF WriteOK, Syncing
  <2>. QED BY <2>3, <2>4, <2>5 DEF SyncOK
<1>4. ASSUME NEW q \in Paths, PullFile(q) PROVE SyncOK(p)'
  <2>1. /\ run.pc = "pull" /\ q \in run.todo
        /\ run'.todo = run.todo \ {q} /\ run'.landing = run.landing \cup {q}
        /\ run'.pc = run.pc /\ run'.hashing = run.hashing /\ run'.staged = run.staged
        /\ run'.base = run.base /\ run'.cand = run.cand /\ run'.exclude = run.exclude
        /\ run'.handled = run.handled /\ run'.settled = run.settled
        /\ run'.applied = run.applied
        /\ cache' = cache /\ remote' = remote /\ history' = history /\ seen' = seen
    BY <1>4, PullRun DEF PullFile, ghostVars
  <2>2. p \in run'.todo \cup run'.landing <=> p \in run.todo \cup run.landing
    BY <2>1
  <2>3. SettledOK(p)'
    BY <1>1, <2>1 DEF SettledOK, Syncing, Settling, Cleaned
  <2>4. PathsOK(p)'
    BY <1>1, <2>1, <2>2 DEF PathsOK, Syncing, Settling, Cleaned
  <2>5. WriteOK(p)'
    BY <1>1, <2>1 DEF WriteOK, Syncing
  <2>. QED BY <2>3, <2>4, <2>5 DEF SyncOK
<1>5. ASSUME NEW q \in Paths, RecordPulled(q) PROVE SyncOK(p)'
  <2>. DEFINE e == run.cand.entries[q]
              mtime == IF AsStub(q) THEN tree[q].stime ELSE tree[q].rtime
  <2>1. /\ run.pc = "pull" /\ q \in run.landing /\ run'.landing = run.landing \ {q}
        /\ run'.pc = run.pc /\ run'.todo = run.todo /\ run'.hashing = run.hashing
        /\ run'.staged = run.staged /\ run'.base = run.base /\ run'.cand = run.cand
        /\ run'.exclude = run.exclude /\ run'.handled = run.handled
        /\ run'.settled = run.settled /\ run'.applied = run.applied
        /\ remote' = remote /\ history' = history
        /\ cache \in [Paths -> Row \cup {NoRow}] /\ seen \in [Paths -> SUBSET Entry]
        /\ seen' = [seen EXCEPT ![q] = @ \cup ({e} \ {NoEntry})]
    BY <1>5, PullRun DEF RecordPulled, TypeOK
  <2>2. cache' = [cache EXCEPT ![q] = IF e = NoEntry THEN NoRow
                    ELSE [state |-> "unchanged", hash |-> e.hash, mtime |-> mtime,
                          parent |-> e.version]]
    BY <1>5 DEF RecordPulled
  <2>3. seen[p] \subseteq seen'[p] /\ run.settled \subseteq run.exclude
    BY <1>1, <2>1 DEF PathsOK
  <2>4. CASE p # q
    <3>1. cache'[p] = cache[p] /\ (p \in run'.landing <=> p \in run.landing)
      BY <2>1, <2>2, <2>4
    <3>. QED BY <1>1, <2>1, <2>3, <3>1, SyncFrame
  <2>5. CASE p = q
    <3>1. cache'[p] = IF e = NoEntry THEN NoRow
                      ELSE [state |-> "unchanged", hash |-> e.hash, mtime |-> mtime,
                            parent |-> e.version]
      BY <2>1, <2>2, <2>5
    <3>2. ~Dirty(cache'[p]) /\ cache'[p].hash = e.hash
      BY <3>1, NoRowFacts DEF Dirty
    <3>3. p \notin run.exclude /\ p \notin run.settled
      BY <1>1, <2>1, <2>5 DEF PathsOK
    <3>4. SettledOK(p)'
      BY <1>1, <2>1, <3>3 DEF SettledOK, Syncing, Settling, Cleaned
    <3>5. PathsOK(p)'
      BY <1>1, <2>1, <2>5, <3>2, <3>3 DEF PathsOK, Syncing, Settling, Cleaned, Dirty
    <3>6. WriteOK(p)'
      BY <1>1, <2>1, <2>3 DEF WriteOK, Syncing
    <3>. QED BY <3>4, <3>5, <3>6 DEF SyncOK
  <2>. QED BY <2>4, <2>5
<1>. QED BY <1>2, <1>3, <1>4, <1>5

LEMMA SyncCommit ==
  ASSUME TypeOK, Inv, NEW p \in Paths, Commit
  PROVE  SyncOK(p)'
<1>1. /\ SettledOK(p) /\ PathsOK(p) /\ WriteOK(p)
      /\ cache' = cache /\ run.pc = "commit"
  BY InvFacts DEF Commit, diskVars
<1>2. CASE run' = Idle
  BY <1>2, SyncIdle, IdleFacts
<1>3. CASE run' # Idle
  <2>1. /\ run'.pc = "promote" /\ remote.version = run.base
        /\ run'.todo = run.todo /\ run'.hashing = run.hashing
        /\ run'.staged = run.staged /\ run'.base = run.base /\ run'.cand = run.cand
        /\ run'.exclude = run.exclude /\ run'.handled = run.handled
        /\ run'.settled = run.settled /\ run'.applied = run.applied
        /\ run'.landing = run.landing
    BY <1>3, SettleRun
  <2>2. /\ history[p] \subseteq history'[p]
        /\ run.cand.entries[p] \in history'[p] \cup {NoEntry}
    BY <2>1, CommitStep
  <2>3. SettledOK(p)'
    BY <1>1, <2>1, <2>2 DEF SettledOK, Syncing, Settling, Cleaned
  <2>4. PathsOK(p)'
    BY <1>1, <2>1 DEF PathsOK, Syncing, Settling, Cleaned
  <2>5. WriteOK(p)'
    BY <2>1 DEF WriteOK, Syncing
  <2>. QED BY <2>3, <2>4, <2>5 DEF SyncOK
<1>. QED BY <1>2, <1>3

LEMMA SyncSettle ==
  ASSUME TypeOK, Inv, NEW p \in Paths,
         \/ Promote \/ Adopt \/ ReconcileDone
         \/ \E q \in Paths : Reconcile(q)
  PROVE  SyncOK(p)'
<1>1. SettledOK(p) /\ PathsOK(p) /\ WriteOK(p) /\ SyncOK(p)
  BY InvFacts DEF SyncOK
<1>2. CASE Promote \/ Adopt
  <2>1. /\ run.pc \in {"promote", "adopt"} /\ run'.pc = "reconcile" /\ run'.todo = run.settled
        /\ run'.hashing = run.hashing /\ run'.staged = run.staged
        /\ run'.base = run.base /\ run'.cand = run.cand /\ run'.exclude = run.exclude
        /\ run'.handled = run.handled /\ run'.settled = run.settled
        /\ run'.applied = run.applied /\ run'.landing = run.landing
        /\ cache' = cache /\ history' = history
    BY <1>2, SettleRun DEF Promote, Adopt, ghostVars
  <2>2. SettledOK(p)'
    BY <1>1, <2>1 DEF SettledOK, Syncing, Settling, Cleaned
  <2>3. PathsOK(p)'
    BY <1>1, <2>1 DEF PathsOK, Syncing, Settling, Cleaned
  <2>4. WriteOK(p)'
    BY <2>1 DEF WriteOK, Syncing
  <2>. QED BY <2>2, <2>3, <2>4 DEF SyncOK
<1>3. CASE ReconcileDone
  <2>1. /\ run.pc = "reconcile" /\ run.todo = {} /\ run'.pc = "done"
        /\ run'.todo = run.todo /\ run'.hashing = run.hashing
        /\ run'.staged = run.staged /\ run'.base = run.base /\ run'.cand = run.cand
        /\ run'.exclude = run.exclude /\ run'.handled = run.handled
        /\ run'.settled = run.settled /\ run'.applied = run.applied
        /\ run'.landing = run.landing
        /\ cache' = cache /\ history' = history
    BY <1>3, SettleRun DEF ReconcileDone, diskVars, ghostVars
  <2>2. SettledOK(p)'
    BY <1>1, <2>1 DEF SettledOK, Syncing, Settling, Cleaned
  <2>3. PathsOK(p)'
    BY <1>1, <2>1 DEF PathsOK, Syncing, Settling, Cleaned
  <2>4. WriteOK(p)'
    BY <2>1 DEF WriteOK, Syncing
  <2>. QED BY <2>2, <2>3, <2>4 DEF SyncOK
<1>4. ASSUME NEW q \in Paths, Reconcile(q) PROVE SyncOK(p)'
  <2>1. /\ run.pc = "reconcile" /\ q \in run.todo /\ run'.todo = run.todo \ {q}
        /\ run'.pc = run.pc /\ run'.hashing = run.hashing /\ run'.staged = run.staged
        /\ run'.base = run.base /\ run'.cand = run.cand /\ run'.exclude = run.exclude
        /\ run'.handled = run.handled /\ run'.settled = run.settled
        /\ run'.applied = run.applied /\ run'.landing = run.landing
        /\ remote' = remote /\ history' = history
        /\ cache \in [Paths -> Row \cup {NoRow}] /\ seen \in [Paths -> SUBSET Entry]
        /\ cache' = [cache EXCEPT ![q] = ReconciledRow(q)]
        /\ seen' = [seen EXCEPT ![q] = @ \cup ({run.cand.entries[q]} \ {NoEntry})]
    BY <1>4, SettleRun DEF Reconcile, TypeOK
  <2>2. CASE p # q
    <3>1. /\ cache'[p] = cache[p] /\ seen'[p] = seen[p]
          /\ p \in run'.todo <=> p \in run.todo
      BY <2>1, <2>2
    <3>2. run.settled \subseteq run.exclude
      BY <1>1 DEF PathsOK
    <3>. QED BY <1>1, <2>1, <3>1, <3>2, SyncFrame
  <2>3. CASE p = q
    <3>1. /\ p \in run.settled /\ run.cand.entries[p] \in history[p] \cup {NoEntry}
          /\ cache'[p].hash = run.cand.entries[p].hash
      <4>1. PICK row : row = ReconciledRow(p)
        OBVIOUS
      <4>2. cache'[p] = row
        BY <2>1, <2>3, <4>1
      <4>3. /\ p \in run.settled /\ run.cand.entries[p] \in history[p] \cup {NoEntry}
            /\ \/ row = NoRow /\ run.cand.entries[p] = NoEntry
               \/ run.cand.entries[p] = [hash |-> row.hash, version |-> row.parent]
        BY <1>4, <2>3, <4>1, ReconciledRowFacts
      <4>. QED BY <4>2, <4>3, NoRowFacts
    <3>2. SettledOK(p)'
      BY <1>1, <2>1, <2>3, <3>1 DEF SettledOK, Syncing, Settling, Cleaned
    <3>3. PathsOK(p)'
      BY <1>1, <2>1, <2>3, <3>1 DEF PathsOK, Syncing, Settling, Cleaned
    <3>4. WriteOK(p)'
      BY <2>1 DEF WriteOK, Syncing
    <3>. QED BY <3>2, <3>3, <3>4 DEF SyncOK
  <2>. QED BY <2>2, <2>3
<1>. QED BY <1>2, <1>3, <1>4

LEMMA SyncStep ==
  ASSUME TypeOK, Inv, [Next]_vars, NEW p \in Paths
  PROVE  SyncOK(p)'
<1>1. SyncOK(p) /\ SettledOK(p) /\ ClockOK(p)
  BY InvFacts DEF SyncOK
<1>2. CASE Start
  <2>1. run'.cand.entries[p] = NoEntry
    BY <1>2, StartRun, IdleFacts
  <2>. QED BY <1>2, <2>1, StartRun, SyncIdle
<1>3. CASE OutOfStamps \/ Report \/ Crash
  BY <1>3, SyncIdle, IdleFacts DEF OutOfStamps, Report, Crash, End
<1>4. CASE ApplyStagedRows
  <2>1. history' = history
    BY <1>4 DEF ApplyStagedRows, ghostVars
  <2>2. CASE run' = Idle
    BY <2>2, SyncIdle, IdleFacts
  <2>3. CASE run' = [Idle EXCEPT !.pc = "fetch"]
    BY <2>3, SyncIdle, IdleFacts, FetchNext
  <2>4. CASE /\ run.pc = "scan"
             /\ run'.pc = run.pc /\ run'.todo = run.todo /\ run'.hashing = run.hashing
             /\ run'.base = run.base /\ run'.cand = run.cand
             /\ run'.exclude = run.exclude /\ run'.handled = run.handled
             /\ run'.settled = run.settled /\ run'.applied = run.applied
             /\ run'.landing = run.landing
    BY <1>1, <2>1, <2>4, SyncScanning
  <2>. QED BY <1>4, <2>2, <2>3, <2>4, ApplyRun
<1>5. ASSUME NEW q \in Paths, WalkPath(q) \/ HashPath(q) \/ ScanFails(q) PROVE SyncOK(p)'
  <2>1. history' = history /\ run.pc = "scan" /\ ClockOK(q)
    BY <1>5, InvFacts DEF WalkPath, HashPath, ScanFails, ghostVars
  <2>2. CASE run' = Idle
    BY <2>2, SyncIdle, IdleFacts
  <2>3. CASE run' # Idle
    <3>1. /\ run'.pc = run.pc /\ run'.settled = run.settled /\ run'.applied = run.applied
          /\ run'.cand = run.cand /\ run'.exclude = run.exclude
      BY <1>5, <2>1, <2>3, WalkRun, HashRun DEF HashPath, ScanFails, End
    <3>. QED BY <1>1, <2>1, <3>1, SyncScanning
  <2>. QED BY <2>2, <2>3
<1>6. ASSUME (\E q \in Paths : Edit(q)) \/ UNCHANGED vars PROVE SyncOK(p)'
  <2>1. /\ cache' = cache /\ remote' = remote /\ history' = history /\ seen' = seen
        /\ run' = run
    BY <1>6 DEF Edit, vars
  <2>2. run.settled \subseteq run.exclude
    BY InvFacts DEF PathsOK
  <2>. QED BY <1>1, <2>1, <2>2, SyncFrame
<1>. QED BY <1>2, <1>3, <1>4, <1>5, <1>6, SyncOthers, SyncFetch, SyncLocal, SyncPull, SyncCommit,
            SyncSettle DEF Next, Command

(***************************************************************************)
(* The invariant, and what it says.                                        *)
(***************************************************************************)

LEMMA InitInv ==
  ASSUME Init
  PROVE  TypeOK /\ Inv
<1>1. PICK first \in [Paths -> Contents \cup {None}] :
        remote = [version |-> 1,
                  entries |-> [p \in Paths |-> IF first[p] = None THEN NoEntry
                                               ELSE [hash |-> first[p], version |-> 1]],
                  objs |-> {first[p] : p \in Paths} \ {None}]
  BY DEF Init
<1>2. PICK found \in [Paths -> Contents \cup {None}] :
        tree = [p \in Paths |-> IF found[p] = None THEN NoFile
                                ELSE [NoFile EXCEPT !.real = found[p], !.rtime = 1]]
  BY DEF Init
<1>3. /\ minted = 1 /\ cache = [p \in Paths |-> NoRow] /\ known = remote.objs /\ lastSynced = 1
      /\ run = Idle /\ history = [p \in Paths |-> {remote.entries[p]} \ {NoEntry}]
      /\ seen = [p \in Paths |-> {}] /\ edits = 0 /\ others = 0 /\ faults = 0
  BY DEF Init
<1>4. \A p \in Paths : \/ remote.entries[p] = NoEntry
                       \/ remote.entries[p] \in Entry /\ remote.entries[p].version = 1
  <2>1. ASSUME NEW p \in Paths, first[p] # None
        PROVE  remote.entries[p] \in Entry /\ remote.entries[p].version = 1
    <3>1. remote.entries[p] = [hash |-> first[p], version |-> 1] /\ first[p] \in Contents
      BY <1>1, <2>1
    <3>. QED BY <3>1, StampFacts DEF Entry
  <2>2. \A p \in Paths : first[p] = None => remote.entries[p] = NoEntry
    BY <1>1
  <2>. QED BY <2>1, <2>2
<1>5. remote \in Vault /\ remote.version = 1 /\ remote.objs \subseteq Contents
  <2>1. PICK entries : entries = [p \in Paths |-> IF first[p] = None THEN NoEntry
                                                  ELSE [hash |-> first[p], version |-> 1]]
    OBVIOUS
  <2>2. remote = [version |-> 1, entries |-> entries, objs |-> {first[p] : p \in Paths} \ {None}]
    BY <1>1, <2>1
  <2>3. entries \in [Paths -> Entry \cup {NoEntry}]
    BY <1>4, <2>1, <2>2
  <2>4. {first[p] : p \in Paths} \ {None} \subseteq Contents
    OBVIOUS
  <2>. QED BY <2>2, <2>3, <2>4, StampFacts DEF Vault
<1>6. \A p \in Paths :
        /\ tree[p] \in File /\ tree[p].stub = None /\ tree[p].stime = 0
        /\ tree[p].real # None <=> tree[p].rtime # 0
  <2>1. ASSUME NEW p \in Paths, found[p] = None
        PROVE  /\ tree[p] \in File /\ tree[p].stub = None /\ tree[p].stime = 0
               /\ tree[p].real # None <=> tree[p].rtime # 0
    BY <1>2, <2>1, NoRowFacts
  <2>2. ASSUME NEW p \in Paths, found[p] # None
        PROVE  /\ tree[p] \in File /\ tree[p].stub = None /\ tree[p].stime = 0
               /\ tree[p].real # None <=> tree[p].rtime # 0
    <3>1. PICK f : f = [NoFile EXCEPT !.real = found[p], !.rtime = 1]
      OBVIOUS
    <3>2. found[p] \in Contents /\ 1 \in Mtimes
      BY <2>2 DEF Mtimes
    <3>3. NoFile = [real |-> None, rtime |-> 0, stub |-> None, stime |-> 0]
      BY DEF NoFile
    <3>4. f = [real |-> found[p], rtime |-> 1, stub |-> None, stime |-> 0]
      BY <3>1, <3>3
    <3>5. f \in File /\ f.real = found[p] /\ f.rtime = 1 /\ f.stub = None /\ f.stime = 0
      BY <3>2, <3>4 DEF File
    <3>6. tree[p] = f
      BY <1>2, <2>2, <3>1
    <3>. QED BY <2>2, <3>5, <3>6
  <2>. QED BY <2>1, <2>2
<1>7. TypeOK
  <2>1. tree \in [Paths -> File]
    BY <1>2, <1>6
  <2>2. history \in [Paths -> SUBSET Entry] /\ seen \in [Paths -> SUBSET Entry]
    BY <1>3, <1>4
  <2>3. cache \in [Paths -> Row \cup {NoRow}] /\ minted \in Stamps /\ lastSynced \in Stamps
    BY <1>3, StampFacts
  <2>. QED BY <1>3, <1>5, <2>1, <2>2, <2>3, IdleFacts, BoundsAssumption DEF TypeOK
<1>8. ASSUME NEW p \in Paths PROVE ClockOK(p) /\ SeenOK(p) /\ SyncOK(p)
  <2>1. /\ cache[p] = NoRow /\ run.staged[p] = NoRow /\ run.hashing[p] = 0 /\ run.landing = {}
        /\ run.pc = "idle" /\ run.settled = {} /\ run.applied = FALSE
        /\ run.cand.entries[p] = NoEntry
    BY <1>3, IdleFacts
  <2>2. ClockOK(p)
    BY <1>6, <2>1, NoRowFacts DEF ClockOK, TimeTells, Both, RowShape
  <2>3. SeenOK(p)
    <3>1. /\ \A x \in history[p] : x.version = 1
          /\ \A x, o \in history[p] : x = o
          /\ remote.entries[p] \in history[p] \cup {NoEntry} /\ seen[p] = {}
      BY <1>3, <1>4
    <3>. QED BY <1>3, <2>1, <3>1, NoRowFacts DEF SeenOK, RowSeen
  <2>4. SyncOK(p)
    BY <2>1 DEF SyncOK, SettledOK, PathsOK, WriteOK, Syncing, Settling, Cleaned
  <2>. QED BY <2>2, <2>3, <2>4
<1>9. StampOK
  BY <1>3, <1>5, IdleFacts DEF StampOK
<1>. QED BY <1>7, <1>8, <1>9 DEF Inv

(* Types and the inductive invariant, in every reachable state.             *)
THEOREM Invariant == Spec => [](TypeOK /\ Inv)
<1>1. Init => TypeOK /\ Inv
  BY InitInv
<1>2. TypeOK /\ Inv /\ [Next]_vars => (TypeOK /\ Inv)'
  <2>. SUFFICES ASSUME TypeOK, Inv, [Next]_vars
                PROVE  TypeOK' /\ Inv'
    OBVIOUS
  <2>1. TypeOK' /\ StampOK'
    BY TypeStep, StampStep
  <2>2. \A p \in Paths : ClockOK(p)' /\ SeenOK(p)' /\ SyncOK(p)'
    BY ClockStep, SeenStep, SyncStep
  <2>. QED BY <2>1, <2>2 DEF Inv
<1>. QED BY <1>1, <1>2, PTL DEF Spec

(* Every variable of the working tree's model keeps its type.               *)
THEOREM TypeCorrect == Spec => []TypeOK
BY Invariant, PTL

(* What a row records as its baseline was seen, and so is in the history.   *)
LEMMA RowsAreHistoryInv ==
  ASSUME Inv
  PROVE  RowsAreHistory
<1>. SUFFICES ASSUME Inv, NEW p \in Paths
              PROVE  /\ cache[p].state = "unchanged" =>
                          [hash |-> cache[p].hash, version |-> cache[p].parent] \in history[p]
                     /\ cache[p].state = "modified" =>
                          \E e \in history[p] : e.version = cache[p].parent
  BY DEF RowsAreHistory
<1>1. RowSeen(cache[p], p) /\ seen[p] \subseteq history[p]
  BY InvFacts DEF SeenOK
<1>. QED BY <1>1 DEF RowSeen

(* The baseline a row of cache.db records is an entry the vault really held *)
(* at that path, whatever was killed between a pull, a commit and the       *)
(* reconciliation of cache.db.                                              *)
THEOREM RowsAreHistoryHolds == Spec => []RowsAreHistory
<1>1. Inv => RowsAreHistory
  BY RowsAreHistoryInv
<1>. QED BY <1>1, Invariant, PTL

(* A time that a row records tells what the file holds.                     *)
LEMMA SkippedIsUnchangedInv ==
  ASSUME TypeOK, Inv
  PROVE  SkippedIsUnchanged
<1>. SUFFICES ASSUME TypeOK, Inv, NEW p \in Paths, tree[p] # NoFile, ~Both(tree[p]),
                     Mtime(tree[p]) = cache[p].mtime
              PROVE  Content(tree[p]) = cache[p].hash
  BY DEF SkippedIsUnchanged
<1>1. ClockOK(p) /\ tree[p] \in File
  BY InvFacts, PathFacts
<1>2. CASE tree[p].real # None
  BY <1>1, <1>2 DEF ClockOK, TimeTells, Mtime, Content
<1>3. CASE tree[p].real = None
  <2>1. tree[p].stub # None
    <3>1. ASSUME tree[p].stub = None PROVE FALSE
      <4>1. tree[p].rtime = 0 /\ tree[p].stime = 0
        BY <1>1, <1>3, <3>1 DEF ClockOK
      <4>2. tree[p] = [real |-> None, rtime |-> 0, stub |-> None, stime |-> 0]
        BY <1>1, <1>3, <3>1, <4>1 DEF File
      <4>. QED BY <4>2 DEF NoFile
    <3>. QED BY <3>1
  <2>. QED BY <1>1, <1>3, <2>1 DEF ClockOK, TimeTells, Mtime, Content
<1>. QED BY <1>2, <1>3

(* A file that still has the modification time of its row has the content   *)
(* of its row, so the scan may skip it without hashing it.                  *)
THEOREM SkippedIsUnchangedHolds == Spec => []SkippedIsUnchanged
<1>1. TypeOK /\ Inv => SkippedIsUnchanged
  BY SkippedIsUnchangedInv
<1>. QED BY <1>1, Invariant, PTL

(* At the end of a sync every path is settled, pulled, or pending.          *)
LEMMA SyncedMeansEqualInv ==
  ASSUME Inv
  PROVE  SyncedMeansEqual
<1>. SUFFICES ASSUME Inv, run.pc = "done", NEW p \in Paths, ~Dirty(cache[p])
              PROVE  cache[p].hash = run.cand.entries[p].hash
  BY DEF SyncedMeansEqual
<1>1. SettledOK(p) /\ PathsOK(p)
  BY InvFacts
<1>. QED BY <1>1 DEF SettledOK, PathsOK, Syncing, Settling

(* A sync that ends has made cache.db and the version it settled on agree   *)
(* wherever no change is pending.                                           *)
THEOREM SyncedMeansEqualHolds == Spec => []SyncedMeansEqual
<1>1. Inv => SyncedMeansEqual
  BY SyncedMeansEqualInv
<1>. QED BY <1>1, Invariant, PTL

(* Before the CAS every change of the candidate is based on what was seen.  *)
LEMMA ReplacesOnlySeenInv ==
  ASSUME Inv
  PROVE  ReplacesOnlySeen
<1>. SUFFICES ASSUME Inv, run.pc = "commit", remote.version = run.base, NEW p \in Paths,
                     Written(p), remote.entries[p] # NoEntry, run.cand.entries[p] # NoEntry
              PROVE  remote.entries[p] \in seen[p]
  BY DEF ReplacesOnlySeen
<1>. QED BY InvFacts DEF WriteOK, Syncing, Written

(* If the vault has not moved, the commit replaces an entry of it only by a *)
(* change based on that entry, one this machine has had.                    *)
THEOREM ReplacesOnlySeenHolds == Spec => []ReplacesOnlySeen
<1>1. Inv => ReplacesOnlySeen
  BY ReplacesOnlySeenInv
<1>. QED BY <1>1, Invariant, PTL

(* Only the user changes the file of a pending change: no step of a scan, a *)
(* pull or a reconciliation does.                                           *)
THEOREM PendingIsKeptHolds == Spec => PendingIsKept
<1>1. TypeOK /\ Inv /\ [Next]_vars =>
        [\A p \in Paths : Dirty(cache[p]) /\ edits' = edits => tree'[p].real = tree[p].real]_vars
  <2>. SUFFICES ASSUME TypeOK, Inv, Next, NEW p \in Paths, Dirty(cache[p]), edits' = edits
                PROVE  tree'[p].real = tree[p].real
    BY DEF vars
  <2>1. ASSUME NEW q \in Paths, WalkPath(q) PROVE tree'[p].real = tree[p].real
    BY <2>1, InvFacts, WalkTree
  <2>2. ASSUME NEW q \in Paths, PullFile(q) PROVE tree'[p].real = tree[p].real
    <3>1. run.pc = "pull" /\ q \in run.todo
      BY <2>2 DEF PullFile
    <3>2. ~Dirty(cache[q])
      BY <3>1, InvFacts DEF PathsOK, Syncing
    <3>. QED BY <2>2, <3>2, InvFacts, PullTree
  <2>3. ASSUME NEW q \in Paths, Edit(q) PROVE FALSE
    BY <2>3 DEF Edit, TypeOK
  <2>4. CASE \A q \in Paths : ~WalkPath(q) /\ ~PullFile(q) /\ ~Edit(q)
    <3>1. tree' = tree
      BY <2>4 DEF Next, Command, Start, ApplyStagedRows, Fetch, OutOfStamps, StartPull, PullDone,
                  Commit, Promote, Adopt, ReconcileDone, Report, HashPath, ScanFails, LocalRow,
                  RecordPulled, Reconcile, Crash, OtherCommits, diskVars
    <3>. QED BY <3>1
  <2>. QED BY <2>1, <2>2, <2>3, <2>4
<1>. QED BY <1>1, Invariant, PTL DEF Spec, PendingIsKept
=============================================================================
