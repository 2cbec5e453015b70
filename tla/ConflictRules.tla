--------------------------- MODULE ConflictRules ---------------------------
(***************************************************************************)
(* The conflict matrix of sync: what becomes of one dirty row of cache.db  *)
(* given the entry (if any) the vault holds at the same path.  Files only: *)
(* a directory is a row whose hash never changes.                          *)
(***************************************************************************)
EXTENDS Naturals

CONSTANTS Contents,      \* content hashes
          None,          \* no content
          MaxStamps      \* bound: version stamps that can be minted

ASSUME NoneAssumption == None \notin Contents
ASSUME StampsAssumption == MaxStamps \in Nat \ {0}

Stamps == 1..MaxStamps
NoStamp == 0

(* entries.hash and entries.state_version of the vault at one path.        *)
Entry == [hash : Contents, version : Stamps]
NoEntry == [hash |-> None, version |-> NoStamp]

(* A row of cache.db; mtime 0 is NULL.                                     *)
Mtimes == 1..5
States == {"created", "modified", "deleted", "unchanged"}
Row == [state : States, hash : Contents \cup {None}, mtime : Mtimes \cup {0},
        parent : Stamps]
NoRow == [state |-> "none", hash |-> None, mtime |-> 0, parent |-> NoStamp]
Dirty(row) == row.state \in {"created", "modified", "deleted"}

DecideCreated(row, entry) ==
  IF entry = NoEntry THEN "apply"
  ELSE IF entry.hash = row.hash THEN "noop" ELSE "conflict"

(* A slip, used by no specification: the baseline is not compared, so the  *)
(* machine that syncs last wins.                                           *)
DecideModifiedBlind(row, entry) == IF entry = NoEntry THEN "conflict" ELSE "apply"

DecideModified(row, entry) ==
  IF entry = NoEntry THEN "conflict"
  ELSE IF entry.version = row.parent THEN "apply"
  ELSE IF entry.hash = row.hash THEN "noop" ELSE "conflict"

DecideDeleted(row, entry) ==
  IF entry = NoEntry THEN "noop"
  ELSE IF entry.version = row.parent THEN "apply" ELSE "conflict"

DecideLocalChange(row, entry) ==
  CASE row.state = "created" -> DecideCreated(row, entry)
    [] row.state = "modified" -> DecideModified(row, entry)
    [] row.state = "deleted" -> DecideDeleted(row, entry)
=============================================================================
