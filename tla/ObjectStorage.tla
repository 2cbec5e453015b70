--------------------------- MODULE ObjectStorage ---------------------------
(***************************************************************************)
(* S3's storage classes as the program sees them: the class of an object,  *)
(* the temporary copy a restore makes of an archived one, and the two      *)
(* decisions the program takes from a HEAD (s3/archive-status.ts,          *)
(* s3/storage-class-actions.ts).  What S3 itself does is external: an      *)
(* archived object can be read, and be the source of a copy, only while a  *)
(* restored copy of it exists; a restore takes time, ends, and expires.    *)
(***************************************************************************)
EXTENDS Naturals

CONSTANT Objects        \* content objects of the vault

VARIABLE stored         \* S3: the class of each object and its restored copy

Coldness == [STANDARD |-> 0, GLACIER |-> 1, DEEP_ARCHIVE |-> 2]
Classes == DOMAIN Coldness
Restores == {"none", "ongoing", "ready", "expired"}
Object == [class : Classes, restore : Restores]
Fresh(class) == [class |-> class, restore |-> "none"]

Archived(object) == object.class \in {"GLACIER", "DEEP_ARCHIVE"}
Readable(object) == ~Archived(object) \/ object.restore = "ready"

(* A slip, used by no specification: the restored copy's expiry date is    *)
(* not looked at, and an expired restore counts as one still under way.    *)
ClassifyArchiveStatusNoExpiry(head) ==
  IF ~Archived(head) THEN "immediate"
  ELSE CASE head.restore = "none" -> "needs-restore-request"
         [] head.restore \in {"ongoing", "expired"} -> "restore-ongoing"
         [] head.restore = "ready" -> "restore-ready"

(* What a HEAD says about reading the object now; an expiry date in the    *)
(* past is "expired".                                                      *)
ClassifyArchiveStatus(head) ==
  IF ~Archived(head) THEN "immediate"
  ELSE CASE head.restore = "none" -> "needs-restore-request"
         [] head.restore = "ongoing" -> "restore-ongoing"
         [] head.restore = "ready" -> "restore-ready"
         [] head.restore = "expired" -> "restore-expired-needs-reissue"

IsColderTarget(current, target) == Coldness[target] > Coldness[current]

DecideStorageClassAction(current, target, status) ==
  CASE current = target -> "already-correct"
    [] current # target /\ IsColderTarget(current, target) -> "immediate-copy"
    [] OTHER ->
         CASE status = "immediate" -> "already-correct"
           [] status \in {"needs-restore-request", "restore-expired-needs-reissue"} ->
                "needs-restore-request"
           [] status = "restore-ongoing" -> "restore-ongoing"
           [] status = "restore-ready" -> "finalize-copy"

(***************************************************************************)
(* S3.                                                                     *)
(***************************************************************************)

(* RestoreObject is refused while a restore is under way, or when the      *)
(* object is not archived.                                                 *)
RestoreAccepted(o) == Archived(stored[o]) /\ stored[o].restore # "ongoing"

Restored(o) ==
  [stored EXCEPT ![o].restore = IF @ = "ready" THEN "ready" ELSE "ongoing"]

RestoreCompletes(o) ==
  /\ stored[o].restore = "ongoing"
  /\ stored' = [stored EXCEPT ![o].restore = "ready"]

(* The restored copy is removed; the header may go with it.                *)
RestoreExpires(o) ==
  /\ stored[o].restore = "ready"
  /\ \E left \in {"expired", "none"} : stored' = [stored EXCEPT ![o].restore = left]
=============================================================================
